---------------------------- MODULE FormalResults ----------------------------
(***************************************************************************)
(* What is made of the results of the formal programs, one at a time: the  *)
(* runner with the judges of its records behind it, and the evaluation of  *)
(* a run of hybrid sessions, by what such a run leaves.                    *)
(***************************************************************************)
EXTENDS FormalRunner

CONSTANTS One, None,
          MatrixFile,  \* the matrix that the runner was given
          HybridRuns   \* runs of hybrid sessions, each a sequence of their ends

Checks == INSTANCE EvidenceChecks
Readings == INSTANCE HybridEvaluation

VARIABLES system, evaluated
resultsVars == <<vars, system, evaluated>>

-----------------------------------------------------------------------------
(* The records of the runner as the judges read them.                      *)

Configs == Checks!Configurations(MatrixFile)

\* The records of an automatic ratio have more to agree in than is modelled here.
ASSUME MatrixIsOfFile ==
  /\ Matrix = [c \in DOMAIN Configs |-> Configs[c].runner]
  /\ MatrixFile["protocol"] = [warmup |-> Warmup, repeat |-> Repeat]
  /\ MatrixFile["dataset"].expected_hash = ExpectedHash
  /\ \A c \in DOMAIN Configs : Configs[c].ratio_mode = "fixed"

\* A matrix with an id twice is refused, and so is, at the materialization for
\* the gate, one with an engine twice.
ASSUME ConfigsDiffer ==
  \A c, d \in DOMAIN Configs : c # d => /\ Configs[c].config_id # Configs[d].config_id
                                        /\ Configs[c].engine # Configs[d].engine

Oracle == [result_hash |-> ExpectedHash, rows_hash |-> ExpectedHash]
Gate ==
  [identity |-> Tail(Checks!About(MatrixFile)), hybrid_auto |-> FALSE,
   manifest |-> MatrixFile["dataset"].manifest_sha256,
   required_backends |-> Checks!Backends(MatrixFile)]

JudgedSetup(s) ==
  [config_id |-> Configs[s.config].config_id, session_id |-> s.config,
   about |-> Checks!About(MatrixFile), engine |-> Configs[s.config].engine,
   threads |-> Configs[s.config].threads, ratio_mode |-> Configs[s.config].ratio_mode,
   cpu_ratio |-> Configs[s.config].cpu_ratio,
   status |-> s.verdict.status, return_code |-> s.code]
JudgedRequest(r) ==
  [config_id |-> Configs[r.config].config_id, session_id |-> r.config,
   about |-> Checks!About(MatrixFile), engine |-> Configs[r.config].engine,
   threads |-> Configs[r.config].threads, ratio_mode |-> Configs[r.config].ratio_mode,
   cpu_ratio |-> Configs[r.config].cpu_ratio,
   request_index |-> r.index, sample_index |-> r.sample, is_warmup |-> r.warmup,
   status |-> r.status, return_code |-> setups[r.config].code, result_hash |-> r.hash]

File(name) == bundle.files[CHOOSE i \in DOMAIN bundle.files : bundle.files[i].name = name]
Judged ==
  [setups |-> [c \in DOMAIN File("setups.csv").setups |->
                 JudgedSetup(File("setups.csv").setups[c])],
   warmups |-> {JudgedRequest(r) : r \in File("warmups.csv").requests},
   measured |-> {JudgedRequest(r) : r \in File("raw.csv").requests},
   logs |-> UNION {Checks!LogPaths(Configs[c]) : c \in DOMAIN Configs}]

-----------------------------------------------------------------------------
(* What a run of hybrid sessions leaves.  The end of a session is the one  *)
(* it had: how far its log goes (setup, successful requests with their     *)
(* latencies, a failed one, a torn line), whether the runner could read    *)
(* the log, and its verdict.                                               *)

\* What the runner records is what it could read; an ok session is complete.
ASSUME EndsAreRecorded ==
  \A ends \in HybridRuns :
    /\ ends \in Seq({ends[i] : i \in DOMAIN ends})
    /\ \A i, j \in DOMAIN ends : ends[i].id = ends[j].id => i = j
    /\ \A i \in DOMAIN ends :
         /\ ends[i].ms \in Seq(Int)
         /\ ends[i].kept => ends[i].started /\ ~ends[i].torn
         /\ ends[i].status = "ok" => ends[i].kept /\ Len(ends[i].ms) > Warmup

SetupOf(end, status) ==
  [config_id |-> end.id, session_id |-> end.id, engine |-> end.engine,
   threads |-> end.threads, ratio_mode |-> end.mode, selected |-> end.ratio,
   realized |-> end.realized, predicted |-> end.predicted,
   status |-> status, measured |-> end.kept]
RequestOf(end, i) ==
  [config_id |-> end.id, session_id |-> end.id, engine |-> end.engine,
   threads |-> end.threads, ratio_mode |-> end.mode, cpu_ratio |-> end.ratio,
   index |-> i - 1, is_warmup |-> i <= Warmup,
   status |-> IF i <= Len(end.ms) THEN "ok" ELSE "error",
   ms |-> IF i <= Len(end.ms) THEN end.ms[i] ELSE None,
   result_hash |-> IF i <= Len(end.ms) THEN end.hash ELSE ""]
RequestsIn(end) ==
  {RequestOf(end, i) : i \in 1 .. Len(end.ms) + (IF end.failed THEN 1 ELSE 0)}
LogOf(end) ==
  [setups |-> IF end.started THEN {SetupOf(end, "ok")} ELSE {},
   requests |-> RequestsIn(end), torn |-> end.torn]

Kept(ends) == {ends[i] : i \in {j \in DOMAIN ends : ends[j].kept}}
Hybrids(ends) == {i \in DOMAIN ends : ends[i].engine = "hybrid-arrow"}
Left(ends) ==
  [identity |-> [scale_factor |-> "1", expected_hash |-> ExpectedHash],
   summarized |-> TRUE,
   setups |-> {SetupOf(ends[i], ends[i].status) : i \in DOMAIN ends},
   measured |-> {r \in UNION {RequestsIn(end) : end \in Kept(ends)} : ~r.is_warmup},
   logs |-> [i \in Hybrids(ends) |-> LogOf(ends[i])],
   accepted |-> \A i \in DOMAIN ends : ends[i].kept]

-----------------------------------------------------------------------------
ResultsInit ==
  /\ Init
  /\ \/ system = "runner" /\ evaluated = None
     \/ system = "evaluation" /\ evaluated \in HybridRuns

Run(A) == system = "runner" /\ A /\ UNCHANGED <<system, evaluated>>
ResultsSpec == ResultsInit /\ [][Run(Next)]_resultsVars
FairResultsSpec ==
  ResultsSpec /\ WF_resultsVars(Run(Runner)) /\ WF_resultsVars(Run(TimePasses))

-----------------------------------------------------------------------------
\* The exit code of the runner, the coverage of the evidence bundle, the
\* report of its correctness and the materialization for the gate are four
\* readings of the same records, each of its own code: they agree.
JudgesAgree ==
  phase = "done" =>
    LET good == \A c \in DOMAIN setups : setups[c].verdict.status = "ok" IN
    /\ good <=> Checks!Coverage(MatrixFile, Judged)
    /\ good <=> /\ Checks!MaterializesReport(MatrixFile, Judged, Oracle)
                /\ Checks!CorrectnessFits(
                     Checks!CorrectnessReport(MatrixFile, Judged, Oracle), MatrixFile)
    /\ good <=> /\ Checks!Materializes(MatrixFile, Judged, Gate)
                /\ Checks!GatePasses(Checks!RunRecords(MatrixFile, Judged, Gate), Gate, Oracle)

\* The summary, the raw records and the logs of a run give one report on the
\* automatic ratio.
ReadingsAgree == system = "evaluation" => Readings!ReadingsAgree(Left(evaluated))
=============================================================================
