------------------------------ MODULE MCBundles ------------------------------
(***************************************************************************)
(* The two bundles, one at a time: the profiler bundle of two runs that    *)
(* share a directory, with a profile at a fixed ratio and one that chooses *)
(* its ratio by itself; and the evidence bundle of a matrix of two         *)
(* sessions, with sources that agree with each other and not with the      *)
(* records (OtherPath), or agree with nothing (OtherHash).                 *)
(*                                                                         *)
(* Matrices alone: every one of two configurations, as an array or as an   *)
(* object, of the engines that differ in how their ratio and their threads *)
(* are checked, with the same id or not, the first perhaps disabled.       *)
(***************************************************************************)
EXTENDS Bundles, TLC

CONSTANTS r1, r2

MCPlan == <<"sf1-copy", "sf1-hybrid-auto">>
MCEngine == [p \in {"sf1-copy", "sf1-hybrid-auto"} |->
               IF p = "sf1-copy" THEN "copy" ELSE "hybrid-auto"]
MCAutoSetup == [p \in {"sf1-copy", "sf1-hybrid-auto"} |-> 1]
Symmetry == Permutations(Runners)

-----------------------------------------------------------------------------
MCManifest == [table |-> "t1", scale_factor |-> "1", lineitem_rows |-> 6]
MCOracle(h) == [result_hash |-> h, rows_hash |-> h, matched |-> TRUE]
MCMatrix(path, h) ==
  [experiment_id |-> "e",
   dataset |-> [path |-> path, scale_factor |-> "1", manifest_sha256 |-> MCManifest,
                expected_hash |-> h],
   oracle |-> [sha256 |-> MCOracle(h)],
   query |-> "q",
   protocol |-> [warmup |-> 1, repeat |-> 1],
   configurations |->
     <<[config_id |-> "copy", engine |-> "gpu-copy", runner |-> "cpp", threads |-> 1,
        ratio_mode |-> "fixed", cpu_ratio |-> 0, correctness_backend |-> "gpu-copy"],
       [config_id |-> "auto", engine |-> "hybrid-arrow", runner |-> "cpp", threads |-> 2,
        ratio_mode |-> "auto", correctness_backend |-> "hybrid-auto",
        mode_options |-> [selection |-> "auto"]]>>]
MCMatrices == {MCMatrix("d", "h1"), MCMatrix("other", "h1"), MCMatrix("d", "h2")}
MCReport(h) ==
  [expected_hash |-> h, observed_hashes |-> {h},
   backends |-> [b \in {"gpu-copy", "hybrid-auto"} |-> "passed"]]
MCSetting == [session_cli |-> "cli", dataset |-> "d", cudf_env |-> "c", gpu_index |-> 0]

\* A run of the first matrix in which the sessions compute h.
MCAbout == <<"e", "d", "1", "q">>
MCSetup(id, engine, threads, mode, cpu) ==
  [config_id |-> id, session_id |-> id, about |-> MCAbout, engine |-> engine,
   threads |-> threads, ratio_mode |-> mode, cpu_ratio |-> cpu, rows |-> 6,
   boundary |-> 2, status |-> "ok", return_code |-> 0]
MCRequest(setup, i, h) ==
  [config_id |-> setup.config_id, session_id |-> setup.session_id, about |-> MCAbout,
   engine |-> setup.engine, threads |-> setup.threads, ratio_mode |-> setup.ratio_mode,
   cpu_ratio |-> setup.cpu_ratio, cpu_rows |-> 2, gpu_rows |-> 4, request_index |-> i,
   sample_index |-> 0, is_warmup |-> i = 0, status |-> "ok", return_code |-> 0,
   result_hash |-> h]
MCSetups == <<MCSetup("copy", "gpu-copy", 1, "fixed", 0),
              MCSetup("auto", "hybrid-arrow", 2, "auto", 1)>>
MCFiles == {"setups.csv", "warmups.csv", "raw.csv", "environment.json", "commands.txt",
            "logs"}
MCEvidence == INSTANCE EvidenceChecks
MCRun(h, names) ==
  LET matrix == MCMatrix("d", "h1")
      configs == MCEvidence!Configurations(matrix)
  IN
  [setups |-> MCSetups,
   warmups |-> {MCRequest(MCSetups[i], 0, h) : i \in 1 .. 2},
   measured |-> {MCRequest(MCSetups[i], 1, h) : i \in 1 .. 2},
   logs |-> UNION {MCEvidence!LogPaths(configs[i]) : i \in 1 .. 2},
   environment |-> [git_commit |-> "g", runner_commit |-> "g", cli |-> "cli",
                    runner_cli |-> "cli", matrix_file |-> matrix,
                    matrix_payload |-> matrix, cudf_env |-> "c", gpu_index |-> 0,
                    devices |-> {0}, setting |-> MCSetting],
   commands |-> [i \in 1 .. 2 |-> MCEvidence!CanonicalCommand(configs[i], matrix, MCSetting)],
   files |-> names]
MCResults == {MCRun("h1", MCFiles), MCRun("h2", MCFiles), MCRun("h1", MCFiles \ {"raw.csv"})}
MCManifests == {MCManifest, [MCManifest EXCEPT !.table = "t2"]}
MCOracles == {MCOracle("h1"), MCOracle("h2")}
MCReports == {MCReport("h1"), MCReport("h2")}
MCFormal == [warmup |-> 1, repeat |-> 1]

-----------------------------------------------------------------------------
MCEngines == {"gpu-copy", "arrow-acero", "hybrid-arrow", "cudf"}
Without(options, fields) == [f \in DOMAIN options \ fields |-> options[f]]
OptionsOf(engine, threads) ==
  LET common(mode) ==
        [config_id |-> "a", engine |-> engine, ratio_mode |-> mode, threads |-> threads,
         runner |-> IF engine = "cudf" THEN "cudf" ELSE "cpp", cpu_ratio |-> 0,
         correctness_backend |-> MCEvidence!CorrectnessBackend(engine, mode),
         mode_options |-> IF engine = "cudf" THEN [framework |-> "cudf"]
                          ELSE [selection |-> "auto"]]
  IN {Without(common("auto"), {"cpu_ratio"}), common("other")}
     \cup {[common("fixed") EXCEPT !.cpu_ratio = x] : x \in 0 .. One}
MCOptions == UNION {OptionsOf(engine, threads) : engine \in MCEngines, threads \in 1 .. 2}
Disabled(options) ==
  [f \in DOMAIN options \cup {"enabled", "disabled_reason"} |->
     CASE f = "enabled" -> FALSE
       [] f = "disabled_reason" -> "slow"
       [] OTHER -> options[f]]
MCArrays ==
  {<<first, [second EXCEPT !.config_id = id]>> :
     first \in MCOptions \cup {Disabled(o) : o \in MCOptions}, second \in MCOptions,
     id \in {"a", "b"}}
Entry(options) ==
  [engine |-> options.engine,
   options |-> Without(options, {"config_id", "engine", "ratio_mode"})]
MCObjects ==
  {<<Entry(first), Entry(second)>> :
     <<first, second>> \in {p \in MCOptions \X MCOptions : p[1].engine # p[2].engine}}
MCPlans ==
  LET base == MCMatrix("d", "h1") IN
  {[base EXCEPT !.configurations = array] : array \in MCArrays}
  \cup {[f \in (DOMAIN base \ {"configurations"}) \cup {"engines"} |->
            IF f = "engines" THEN object ELSE base[f]] : object \in MCObjects}
=============================================================================
