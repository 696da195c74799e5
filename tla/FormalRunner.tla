---------------------------- MODULE FormalRunner ----------------------------
(***************************************************************************)
(* scripts/run_formal_benchmarks.py drives a matrix of configurations.     *)
(* Each one is a child process, a resident session that writes one JSON    *)
(* line for its setup and one per request to a log file                    *)
(* (memq5_arrow_session, or cudf_q5_session under conda), watched by       *)
(* scripts/process_monitor.py with a timeout, a SIGTERM and a SIGKILL.     *)
(* The log is read back by scripts/resident_protocol.py and becomes one    *)
(* setup record and some request records, which the end of the matrix      *)
(* writes to CSV files in a directory that must have been empty.           *)
(*                                                                         *)
(* A line is the setup or a request with its status and its result hash;   *)
(* the measurements, which no branch modelled here reads, are left out.    *)
(* The rows of a result stand for their hash.                              *)
(***************************************************************************)
EXTENDS Naturals, Integers, Sequences, SequencesExt

CONSTANTS Matrix,         \* the runner ("cpp", "cudf") of each configuration
          Warmup, Repeat, \* requests of a session
          Hashes,         \* result hashes a session may compute
          ExpectedHash,   \* the hash the matrix file expects
          NoHash          \* the empty result_hash of a failed request

ASSUME MatrixIsValid == Matrix \in Seq({"cpp", "cudf"}) /\ Matrix # <<>>
ASSUME CountsAreValid == Warmup \in Nat /\ Repeat \in Nat \ {0}
ASSUME HashesAreValid == ExpectedHash \in Hashes /\ NoHash \notin Hashes

Count == Warmup + Repeat

VARIABLES
  phase,     \* where run_matrix stands
  config,    \* the configuration it runs
  late,      \* timeout_seconds have passed since the launch
  timedOut,  \* the monitor gave the session up
  child,     \* the session process: pc, next request, expected hash, exit code
  stdout,    \* its output: lines in the log, a torn last one, lines buffered
  executed,  \* per configuration, the hashes its session computed
  genuine,   \* per configuration, its setup line names what was asked for
  setups, requests,  \* the records made so far
  bundle     \* the CSV files written

childVars == <<child, stdout, executed, genuine>>
vars == <<phase, config, late, timedOut, child, stdout, executed, genuine,
          setups, requests, bundle>>

Running == {"launch", "watch", "polled", "terminating", "record", "write"}

SetupLine(ours) == [type |-> "setup", ours |-> ours]
RequestLine(index, status, hash) ==
  [type |-> "request", index |-> index, status |-> status, hash |-> hash]

-----------------------------------------------------------------------------
(* The session process.                                                    *)

ChildAlive == child.pc \notin {"none", "exited"}
NoChild == [pc |-> "none", next |-> 0, expected |-> NoHash, code |-> 0]

\* The stream is block buffered: what a write pushes out ends at any byte,
\* perhaps in the middle of a line.
Emit(line) ==
  LET pending == Append(stdout.buffer, line)
  IN  \E n \in 0 .. Len(pending), torn \in BOOLEAN :
        /\ torn => n < Len(pending)
        /\ stdout.torn /\ n = 0 => torn
        /\ stdout' = [log |-> stdout.log \o SubSeq(pending, 1, n),
                      torn |-> torn,
                      buffer |-> SubSeq(pending, n + 1, Len(pending))]

\* A return from main, or an exit of the interpreter, flushes the stream.
ExitWith(code) ==
  /\ child' = [child EXCEPT !.pc = "exited", !.code = code]
  /\ stdout' = [log |-> stdout.log \o stdout.buffer, torn |-> FALSE,
                buffer |-> <<>>]

\* No CUDA device, or the dataset or the session could not be made.
StartFails ==
  /\ child.pc = "starting"
  /\ \E code \in {1, 77} : ExitWith(code)
  /\ UNCHANGED <<phase, config, late, timedOut, executed, genuine, setups,
                 requests, bundle>>

WriteSetup ==
  /\ child.pc = "starting"
  /\ \E ours \in BOOLEAN :
       /\ Emit(SetupLine(ours))
       /\ genuine' = [genuine EXCEPT ![config] = ours]
  /\ child' = [child EXCEPT !.pc = "serving"]
  /\ UNCHANGED <<phase, config, late, timedOut, executed, setups, requests,
                 bundle>>

RequestsRemain == child.next < Count

\* check_session_result_hash: the first hash is the one the others must equal.
HashAgrees(hash) == child.expected \in {NoHash, hash}

\* What a failed request claims as its result: the C++ session keeps the
\* result it computed in the record of a hash mismatch, cuDF drops it.
MismatchHash(hash) == IF Matrix[config] = "cpp" THEN hash ELSE NoHash

Execute ==
  /\ child.pc = "serving" /\ RequestsRemain
  /\ \E hash \in Hashes :
       /\ executed' = [executed EXCEPT ![config] = Append(@, hash)]
       /\ IF HashAgrees(hash)
          THEN /\ Emit(RequestLine(child.next, "ok", hash))
               /\ child' = [child EXCEPT !.next = @ + 1, !.expected = hash]
          ELSE /\ Emit(RequestLine(child.next, "error", MismatchHash(hash)))
               /\ child' = [child EXCEPT !.pc = "failed"]
  /\ UNCHANGED <<phase, config, late, timedOut, genuine, setups, requests,
                 bundle>>

ExecuteFails ==
  /\ child.pc = "serving" /\ RequestsRemain
  /\ Emit(RequestLine(child.next, "error", NoHash))
  /\ child' = [child EXCEPT !.pc = "failed"]
  /\ UNCHANGED <<phase, config, late, timedOut, executed, genuine, setups,
                 requests, bundle>>

Exit ==
  /\ \/ child.pc = "failed" /\ ExitWith(1)
     \/ child.pc = "serving" /\ ~RequestsRemain /\ ExitWith(0)
  /\ UNCHANGED <<phase, config, late, timedOut, executed, genuine, setups,
                 requests, bundle>>

\* A signal ends the process with its buffer.
Killed(code) ==
  /\ child' = [child EXCEPT !.pc = "exited", !.code = code]
  /\ stdout' = [stdout EXCEPT !.buffer = <<>>]

DiesOfSigterm ==
  /\ phase = "terminating" /\ ChildAlive
  /\ Killed(-15)
  /\ UNCHANGED <<phase, config, late, timedOut, executed, genuine, setups,
                 requests, bundle>>

Child == \/ StartFails \/ WriteSetup \/ Execute \/ ExecuteFails \/ Exit
         \/ DiesOfSigterm

-----------------------------------------------------------------------------
(* process_monitor.run_monitored.                                          *)

Launch ==
  /\ phase = "launch"
  /\ \/ /\ child' = [NoChild EXCEPT !.pc = "starting"]
        /\ phase' = "watch"
     \/ /\ child' = [NoChild EXCEPT !.pc = "exited", !.code = 127]
        /\ phase' = "record"
  /\ stdout' = [log |-> <<>>, torn |-> FALSE, buffer |-> <<>>]
  /\ late' = FALSE
  /\ timedOut' = FALSE
  /\ UNCHANGED <<config, executed, genuine, setups, requests, bundle>>

TimePasses ==
  /\ phase \in {"watch", "polled"} /\ ~late
  /\ late' = TRUE
  /\ UNCHANGED <<phase, config, timedOut, childVars, setups, requests, bundle>>

Poll ==
  /\ phase = "watch"
  /\ phase' = IF ChildAlive THEN "polled" ELSE "record"
  /\ UNCHANGED <<config, late, timedOut, childVars, setups, requests, bundle>>

\* Mutant: the timeout is noted and never acted on.
CheckClockIdle ==
  /\ phase = "polled"
  /\ phase' = "watch"
  /\ timedOut' = late
  /\ UNCHANGED <<config, late, childVars, setups, requests, bundle>>

\* The clock is read after the poll: the session may have ended in between.
CheckClock ==
  /\ phase = "polled"
  /\ phase' = IF late THEN "terminating" ELSE "watch"
  /\ timedOut' = late
  /\ UNCHANGED <<config, late, childVars, setups, requests, bundle>>

\* Mutant: the group gets its SIGTERM and nobody waits for it.
TerminateUnawaited ==
  /\ phase = "terminating"
  /\ phase' = "record"
  /\ UNCHANGED <<config, late, timedOut, childVars, setups, requests, bundle>>

\* The wait after SIGTERM returns, or two seconds pass and SIGKILL follows.
Terminate ==
  /\ phase = "terminating"
  /\ \/ ~ChildAlive /\ UNCHANGED childVars
     \/ ChildAlive /\ Killed(-9) /\ UNCHANGED <<executed, genuine>>
  /\ phase' = "record"
  /\ UNCHANGED <<config, late, timedOut, setups, requests, bundle>>

-----------------------------------------------------------------------------
(* resident_protocol.parse_resident_jsonl, with allow_partial.             *)

RequestsOf(log) == Tail(log)
OkHashes(log) == {r.hash : r \in {q \in Range(RequestsOf(log)) : q.status = "ok"}}

\* Mutant: a failed request may claim a result.
RequestLineIsNumbered(log, i) ==
  RequestsOf(log)[i].type = "request" /\ RequestsOf(log)[i].index = i - 1

\* _validate_request: the records are numbered from zero, and a failed one
\* claims no result.
RequestLineIsValid(log, i) ==
  LET r == RequestsOf(log)[i]
  IN  /\ r.type = "request"
      /\ r.index = i - 1
      /\ r.status = "error" => r.hash = NoHash

\* Mutant: the hash the matrix expects is not compared.
ParserAcceptsAnyHash(log, torn) ==
  /\ ~torn
  /\ log # <<>>
  /\ \A i \in DOMAIN RequestsOf(log) : RequestLineIsValid(log, i)

\* A torn line is no JSON and rejects the whole log.
ParserAccepts(log, torn) ==
  /\ ~torn
  /\ log # <<>>
  /\ Head(log).type = "setup"
  /\ Len(RequestsOf(log)) <= Count
  /\ \A i \in DOMAIN RequestsOf(log) : RequestLineIsValid(log, i)
  /\ OkHashes(log) \subseteq {ExpectedHash}

Missing(log) == Len(RequestsOf(log)) < Count
SomeFailed(log) == \E r \in Range(RequestsOf(log)) : r.status # "ok"
Complete(log) == ~Missing(log) /\ ~SomeFailed(log)

-----------------------------------------------------------------------------
(* run_formal_benchmarks: the records of a session.                        *)

Verdict(status, error) == [status |-> status, error |-> error]

\* The last case raises: a session that ended well and said nothing.
FailureMetadata(protocolError) ==
  CASE timedOut -> Verdict("timeout", "ERROR_TIMEOUT")
    [] ~timedOut /\ child.code = 77 -> Verdict("skipped_no_gpu", "ERROR_NO_GPU")
    [] ~timedOut /\ child.code \notin {0, 77} -> Verdict("error", "ERROR_PROCESS_EXIT")
    [] ~timedOut /\ child.code = 0 /\ protocolError ->
         Verdict("error", "ERROR_RESIDENT_PROTOCOL")
    [] OTHER -> Verdict("raises", "")

SessionMetadata(log) ==
  CASE child.code = 0 /\ ~timedOut /\ Complete(log) -> Verdict("ok", "")
    [] Missing(log) -> Verdict("error", "ERROR_NOT_EXECUTED")
    [] ~Missing(log) /\ SomeFailed(log) -> Verdict("error", "ERROR_REQUEST_FAILED")
    [] OTHER -> FailureMetadata(FALSE)

\* Mutant: whatever the log holds is recorded.
AnyLogIsKept == stdout.log # <<>>

\* The session is kept once the parser has accepted it, so that an identity
\* that differs only reaches the log.
SessionIsKept == ParserAccepts(stdout.log, stdout.torn)
SaidNothing == stdout.log = <<>> /\ ~stdout.torn
IdentityDiffers == SessionIsKept /\ ~Head(stdout.log).ours
ProtocolError == ~SaidNothing /\ (~SessionIsKept \/ IdentityDiffers)

SetupRecord ==
  [config |-> config, code |-> child.code,
   verdict |-> IF SessionIsKept THEN SessionMetadata(stdout.log)
                                ELSE FailureMetadata(ProtocolError)]

\* Mutant: the samples are numbered on from the warmups.
RequestRecordsUnshifted ==
  IF ~SessionIsKept THEN {}
  ELSE {[config |-> config, index |-> r.index, warmup |-> r.index < Warmup,
         sample |-> r.index, status |-> r.status, hash |-> r.hash]
        : r \in Range(RequestsOf(stdout.log))}

RequestRecords ==
  IF ~SessionIsKept THEN {}
  ELSE {[config |-> config, index |-> r.index, warmup |-> r.index < Warmup,
         sample |-> IF r.index < Warmup THEN r.index ELSE r.index - Warmup,
         status |-> r.status, hash |-> r.hash]
        : r \in Range(RequestsOf(stdout.log))}

\* formal_benchmark_schema: validate_setup and validate_request raise otherwise.
SetupIsValid(s) ==
  /\ s.verdict.status \in {"ok", "error", "timeout", "skipped_no_gpu"}
  /\ s.verdict.status = "ok" => s.code = 0 /\ s.verdict.error = ""
  /\ s.verdict.status # "ok" => s.verdict.error # ""
RequestIsValid(r) ==
  /\ r.sample >= -1
  /\ r.status = "ok" => r.hash # NoHash
  /\ r.status # "ok" => r.hash = NoHash
RecordsAreValid ==
  SetupIsValid(SetupRecord) /\ \A r \in RequestRecords : RequestIsValid(r)

-----------------------------------------------------------------------------
(* run_formal_benchmarks.run_matrix.                                       *)

Init ==
  /\ phase = "idle" /\ config = 1 /\ late = FALSE /\ timedOut = FALSE
  /\ child = NoChild
  /\ stdout = [log |-> <<>>, torn |-> FALSE, buffer |-> <<>>]
  /\ executed = [c \in DOMAIN Matrix |-> <<>>]
  /\ genuine = [c \in DOMAIN Matrix |-> TRUE]
  /\ setups = <<>> /\ requests = {}
  /\ bundle = [used |-> FALSE, files |-> <<>>]

\* _prepare_output refuses a directory something was written to.
OutputIsFresh == ~bundle.used

Start ==
  /\ phase \in {"idle", "done", "interrupted", "aborted"}
  /\ IF OutputIsFresh
     THEN /\ phase' = "launch" /\ config' = 1
          /\ executed' = [c \in DOMAIN Matrix |-> <<>>]
          /\ genuine' = [c \in DOMAIN Matrix |-> TRUE]
          /\ setups' = <<>> /\ requests' = {}
          /\ bundle' = [bundle EXCEPT !.used = TRUE]
     ELSE /\ phase' = "refused"
          /\ UNCHANGED <<config, executed, genuine, setups, requests, bundle>>
  /\ UNCHANGED <<late, timedOut, child, stdout>>

\* The records of one configuration; invalid ones end the whole matrix.
Record ==
  /\ phase = "record"
  /\ IF RecordsAreValid
     THEN /\ setups' = Append(setups, SetupRecord)
          /\ requests' = requests \union RequestRecords
          /\ phase' = IF config = Len(Matrix) THEN "write" ELSE "launch"
          /\ config' = IF config = Len(Matrix) THEN config ELSE config + 1
     ELSE phase' = "aborted" /\ UNCHANGED <<setups, requests, config>>
  /\ UNCHANGED <<late, timedOut, childVars, bundle>>

Files == <<"setup.csv", "setups.csv", "warmups.csv", "raw.csv">>

\* The files of the bundle once the first k are written.
FilesWritten(k) ==
  [i \in 1 .. k |->
     [name |-> Files[i],
      setups |-> IF Files[i] \in {"setup.csv", "setups.csv"} THEN setups ELSE <<>>,
      requests |-> CASE Files[i] = "warmups.csv" -> {r \in requests : r.warmup}
                     [] Files[i] = "raw.csv" -> {r \in requests : ~r.warmup}
                     [] OTHER -> {}]]

WriteCsv ==
  /\ phase = "write"
  /\ phase' = "done"
  /\ bundle' = [bundle EXCEPT !.files = FilesWritten(Len(Files))]
  /\ UNCHANGED <<config, late, timedOut, childVars, setups, requests>>

\* The runner is stopped; its session, in a process group of its own, is not.
Interrupt ==
  /\ phase \in Running
  /\ phase' = "interrupted"
  /\ \/ UNCHANGED bundle
     \/ /\ phase = "write"
        /\ \E k \in 1 .. Len(Files) - 1 :
             bundle' = [bundle EXCEPT !.files = FilesWritten(k)]
  /\ UNCHANGED <<config, late, timedOut, childVars, setups, requests>>

Runner == Launch \/ Poll \/ CheckClock \/ Terminate \/ Record \/ WriteCsv
Next == Runner \/ TimePasses \/ Child \/ Start \/ Interrupt

Spec == Init /\ [][Next]_vars
\* The runner and the clock go on; a session is owed no progress at all.
FairSpec == Spec /\ WF_vars(Runner) /\ WF_vars(TimePasses)

-----------------------------------------------------------------------------
\* A configuration is reported ok only when its session computed the expected
\* hash for every request and every one of them is recorded, although the
\* runner sees only a log and an exit code (_setup_from_session).
OkMeansAllRan ==
  \A c \in DOMAIN setups :
    setups[c].verdict.status = "ok" =>
      /\ executed[c] = [i \in 1 .. Count |-> ExpectedHash]
      /\ {r.index : r \in {q \in requests : q.config = c /\ q.status = "ok"}}
           = 0 .. Count - 1

\* Whatever is lost, torn or cut short, a recorded result is one its session
\* computed, the expected one, at its place (_request_from_session).
NothingIsFabricated ==
  \A r \in requests :
    IF r.status = "ok"
    THEN /\ r.index < Len(executed[r.config])
         /\ executed[r.config][r.index + 1] = ExpectedHash
         /\ r.hash = ExpectedHash
    ELSE r.hash = NoHash

\* No session, however it ends, makes a record that the schema rejects, which
\* would lose the records of every other configuration (run_matrix).
NeverAborts == phase # "aborted"

\* A session starts only once the one before has ended: two of them would
\* share the device and their timings (run_monitored).
OneSessionAtATime == phase = "launch" => ~ChildAlive

\* A launched configuration is recorded or its runner is stopped, even when
\* its session never ends by itself (run_monitored).
SessionsEnd ==
  phase = "launch" ~> phase \in {"done", "interrupted", "aborted"}

\* When a session ends by itself, the requests it completed before anything
\* went wrong are recorded (the tests of partial sessions,
\* test_runner_preserves_partial_nonzero_session_without_fabricating_missing_rows).
CompletedRequestsAreKept ==
  \A c \in DOMAIN setups : \A i \in DOMAIN executed[c] :
    /\ setups[c].code \in {0, 1}
    /\ \A j \in 1 .. i : executed[c][j] = ExpectedHash
    => \E r \in requests : r.config = c /\ r.index = i - 1 /\ r.status = "ok"

\* A configuration is reported ok only for a session that was asked for: the
\* one _validate_session_identity raises on ("session_setup dataset does not
\* match matrix") is reported as a failure.
OkMeansGenuine ==
  \A c \in DOMAIN setups : setups[c].verdict.status = "ok" => genuine[c]
=============================================================================
