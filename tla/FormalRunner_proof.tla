------------------------- MODULE FormalRunner_proof -------------------------
(***************************************************************************)
(* What the runner records of a session, for matrices and sessions of any  *)
(* length.  The runner sees a log and an exit code; the invariant says     *)
(* what the two owe to the session: line by line, the output is its setup  *)
(* and the results it computed, in order, wherever a signal cuts it off,   *)
(* and a session that exits with 0 has computed and written all of them.   *)
(*                                                                         *)
(* What is made of the records follows from how they look at the end of a  *)
(* matrix: the judges agree because a session that went well leaves one    *)
(* record per number, the readers because all of them find, of a session,  *)
(* the same requests.                                                      *)
(***************************************************************************)
EXTENDS FormalResults, SequenceTheorems, FiniteSetTheorems, TLAPS

\* What the session process may write, by position: first its setup, then the
\* requests in order, where a result is one that was computed at that place.
SetupLines == {SetupLine(ours) : ours \in BOOLEAN}
RequestLines ==
  [type : {"request"}, index : Nat, status : {"ok", "error"}, hash : Hashes \cup {NoHash}]
Line == SetupLines \cup RequestLines

IsTrueLine(line, i, results) ==
  IF i = 1 THEN line \in SetupLines
  ELSE /\ line \in RequestLines
       /\ line.index = i - 2
       /\ line.status = "ok" => i - 1 \in DOMAIN results /\ line.hash = results[i - 1]

Output == stdout.log \o stdout.buffer

\* The output is that of the session of configuration config: it is alive, or
\* the runner has not recorded it yet.
Monitoring == {"watch", "polled", "terminating", "record"}
Current == phase \in Monitoring \/ ChildAlive

Codes == {0, 1, 77, 127, -9, -15}
ChildStates == [pc : {"none", "starting", "serving", "failed", "exited"}, next : Nat,
                expected : Hashes \cup {NoHash}, code : Codes]
Streams == [log : Seq(Line), torn : BOOLEAN, buffer : Seq(Line)]
Failures ==
  [status : {"timeout", "skipped_no_gpu", "error"},
   error : {"ERROR_NOT_EXECUTED", "ERROR_REQUEST_FAILED", "ERROR_TIMEOUT", "ERROR_NO_GPU",
            "ERROR_PROCESS_EXIT", "ERROR_RESIDENT_PROTOCOL"}]
Success == [status |-> "ok", error |-> ""]
Records == [config : DOMAIN Matrix, code : Codes, verdict : Failures \cup {Success}]

Shape ==
  /\ phase \in Running \cup {"idle", "done", "interrupted", "refused"}
  /\ config \in DOMAIN Matrix
  /\ child \in ChildStates
  /\ stdout \in Streams
  /\ executed \in [DOMAIN Matrix -> Seq(Hashes)]
  /\ setups \in Seq(Records)
  /\ late \in BOOLEAN /\ timedOut \in BOOLEAN
  /\ bundle = [used |-> bundle.used, files |-> bundle.files]

\* A session lives while its runner watches it or after its runner was stopped,
\* and then no other starts.
SessionsAreWatched ==
  /\ ChildAlive => phase \in {"watch", "polled", "terminating", "interrupted", "refused"}
  /\ phase \in Monitoring => child.pc # "none"
  /\ phase = "record" => child.pc = "exited"
  /\ bundle.used <=> phase # "idle"

OutputIsTrue ==
  Current => \A i \in DOMAIN Output : IsTrueLine(Output[i], i, executed[config])

\* How far the session is, in its output and in what it computed.
ProgressIsWritten ==
  /\ child.pc = "starting" => Output = <<>> /\ executed[config] = <<>> /\ child.next = 0
  /\ child.pc = "serving" =>
       /\ child.next <= Count /\ Len(executed[config]) = child.next
       /\ Len(Output) = child.next + 1
  /\ phase \in Monitoring /\ child.pc = "exited" /\ child.code = 0 =>
       /\ Len(executed[config]) = Count
       /\ Len(stdout.log) = Count + 1 /\ ~stdout.torn

\* The configurations are recorded in their order, each after its session is
\* over, and the ones to come have computed nothing.
SessionsAreRecorded ==
  /\ Len(setups) <= config
  /\ phase \in Monitoring \cup {"idle", "launch"} \/ ChildAlive => Len(setups) = config - 1
  /\ \A r \in requests : r.config \in DOMAIN setups
  /\ \A c \in DOMAIN Matrix :
       c > config \/ (c = config /\ phase \in {"idle", "launch"}) => executed[c] = <<>>

IInv ==
  /\ Shape /\ SessionsAreWatched /\ OutputIsTrue /\ ProgressIsWritten /\ SessionsAreRecorded
  /\ OkMeansAllRan /\ NothingIsFabricated

-----------------------------------------------------------------------------
(* The stream.                                                             *)

LEMMA CountIsPositive == Count \in Nat /\ Count > 0
BY CountsAreValid DEF Count

LEMMA MatrixShape == DOMAIN Matrix = 1 .. Len(Matrix) /\ Len(Matrix) \in Nat /\ Len(Matrix) > 0
BY MatrixIsValid

LEMMA ConcatAssociates == \A s, t, u \in Seq(Line) : (s \o t) \o u = s \o (t \o u)
BY ConcatAssociative, SMT

LEMMA ConcatPrefix ==
  ASSUME NEW s \in Seq(Line), NEW t \in Seq(Line)
  PROVE  DOMAIN s \subseteq DOMAIN (s \o t) /\ \A i \in DOMAIN s : (s \o t)[i] = s[i]
<1>1. s \o t \in Seq(Line) /\ Len(s \o t) = Len(s) + Len(t)
      /\ \A i \in 1 .. Len(s) + Len(t) : (s \o t)[i] = IF i <= Len(s) THEN s[i] ELSE t[i - Len(s)]
  BY ConcatProperties
<1> QED
  BY <1>1, LenProperties

\* Wherever the buffer is cut, a line written is the next of the output.
LEMMA EmitAppends ==
  ASSUME stdout \in Streams, NEW line \in Line, Emit(line)
  PROVE  stdout' \in Streams /\ Output' = Append(Output, line)
<1> DEFINE pending == Append(stdout.buffer, line)
<1>1. stdout.log \in Seq(Line) /\ stdout.buffer \in Seq(Line)
  BY DEF Streams
<1>2. pending \in Seq(Line) /\ pending = stdout.buffer \o <<line>> /\ <<line>> \in Seq(Line)
  BY <1>1, AppendProperties, AppendIsConcat
<1>3. PICK n \in 0 .. Len(pending), torn \in BOOLEAN :
        stdout' = [log |-> stdout.log \o SubSeq(pending, 1, n), torn |-> torn,
                   buffer |-> SubSeq(pending, n + 1, Len(pending))]
  BY Zenon DEF Emit
<1> HIDE DEF pending
<1> DEFINE head == SubSeq(pending, 1, n)
           rest == SubSeq(pending, n + 1, Len(pending))
<1>4. head \in Seq(Line) /\ rest \in Seq(Line)
  BY <1>2, SubSeqProperties
<1>5. head \o rest = pending
  <2>1. 1 \in 1 .. Len(pending) + 1 /\ n \in 1 - 1 .. Len(pending)
        /\ Len(pending) \in n .. Len(pending)
    BY <1>2
  <2>2. head \o rest = SubSeq(pending, 1, Len(pending))
    BY <1>2, <2>1, ConcatAdjacentSubSeq, Zenon
  <2> QED
    BY <1>2, <2>2, SubSeqFull
<1>6. stdout.log \o head \in Seq(Line)
  BY <1>1, <1>4, ConcatProperties
<1>7. Output' = (stdout.log \o head) \o rest
  BY <1>3 DEF Output
<1>8. Output' = stdout.log \o pending
  <2>1. (stdout.log \o head) \o rest = stdout.log \o (head \o rest)
    BY <1>1, <1>4, ConcatAssociates, Zenon
  <2> QED
    BY <1>5, <1>7, <2>1
<1>9. Output' = Output \o <<line>>
  <2>1. (stdout.log \o stdout.buffer) \o <<line>> = stdout.log \o (stdout.buffer \o <<line>>)
    BY <1>1, <1>2, ConcatAssociates, Zenon
  <2> QED
    BY <1>2, <1>8, <2>1 DEF Output
<1>10. Output' = Append(Output, line)
  BY <1>1, <1>9, ConcatProperties, AppendIsConcat DEF Output
<1> QED
  BY <1>3, <1>4, <1>6, <1>10 DEF Streams

\* An exit writes out what was pending.
LEMMA ExitFlushes ==
  ASSUME stdout \in Streams, NEW code, ExitWith(code)
  PROVE  stdout' \in Streams /\ Output' = Output /\ stdout'.log = Output /\ ~stdout'.torn
<1>1. stdout.log \in Seq(Line) /\ stdout.buffer \in Seq(Line) /\ Output \in Seq(Line)
  BY ConcatProperties DEF Streams, Output
<1>2. stdout' = [log |-> Output, torn |-> FALSE, buffer |-> <<>>]
  BY DEF ExitWith, Output
<1>3. Output \o <<>> = Output
  BY <1>1, ConcatEmptySeq
<1> QED
  BY <1>1, <1>2, <1>3 DEF Streams, Output

\* A signal cuts the output off.
LEMMA SignalCuts ==
  ASSUME stdout \in Streams, NEW code, Killed(code)
  PROVE  /\ stdout' \in Streams
         /\ DOMAIN Output' \subseteq DOMAIN Output
         /\ \A i \in DOMAIN Output' : Output'[i] = Output[i]
<1>1. stdout.log \in Seq(Line) /\ stdout.buffer \in Seq(Line) /\ Output \in Seq(Line)
  BY ConcatProperties DEF Streams, Output
<1>2. stdout' = [stdout EXCEPT !.buffer = <<>>]
  BY DEF Killed
<1>3. stdout'.log = stdout.log /\ stdout'.buffer = <<>>
  BY <1>2 DEF Streams
<1>4. Output' = stdout.log
  BY <1>1, <1>3, ConcatEmptySeq DEF Output
<1>5. DOMAIN stdout.log \subseteq DOMAIN Output /\ \A i \in DOMAIN stdout.log : Output[i] = stdout.log[i]
  BY <1>1, ConcatPrefix, Zenon DEF Output
<1>6. stdout' = [log |-> stdout.log, torn |-> stdout.torn, buffer |-> <<>>]
  BY <1>2 DEF Streams
<1>7. <<>> \in Seq(Line) /\ stdout.torn \in BOOLEAN
  BY Zenon, EmptySeq DEF Streams
<1>8. stdout' \in Streams
  BY <1>1, <1>6, <1>7, Zenon DEF Streams
<1> QED
  BY <1>4, <1>5, <1>8

-----------------------------------------------------------------------------
(* The session process.                                                    *)

\* What is recorded stays true as long as no recorded session computes more.
LEMMA RecordsStand ==
  ASSUME OkMeansAllRan, NothingIsFabricated, UNCHANGED <<setups, requests>>,
         \A r \in requests : r.config \in DOMAIN setups,
         \A c \in DOMAIN setups : executed'[c] = executed[c]
  PROVE  OkMeansAllRan' /\ NothingIsFabricated'
<1>1. OkMeansAllRan'
  BY DEF OkMeansAllRan
<1>2. NothingIsFabricated'
  BY DEF NothingIsFabricated
<1> QED
  BY <1>1, <1>2

\* One more true line, and perhaps one more result, keeps the output true.
LEMMA LineAdded ==
  ASSUME Output \in Seq(Line), NEW line \in Line, Output' = Append(Output, line),
         NEW results \in Seq(Hashes), NEW more \in Seq(Hashes),
         Len(results) <= Len(more),
         \A i \in DOMAIN results : more[i] = results[i],
         \A i \in DOMAIN Output : IsTrueLine(Output[i], i, results),
         IsTrueLine(line, Len(Output) + 1, more)
  PROVE  /\ \A i \in DOMAIN Output' : IsTrueLine(Output'[i], i, more)
         /\ Len(Output') = Len(Output) + 1
<1>1. /\ DOMAIN Output = 1 .. Len(Output) /\ Len(Output) \in Nat
      /\ DOMAIN results = 1 .. Len(results) /\ Len(results) \in Nat
      /\ DOMAIN more = 1 .. Len(more) /\ Len(more) \in Nat
  BY LenProperties
<1>2. /\ Output' \in Seq(Line) /\ Len(Output') = Len(Output) + 1
      /\ \A i \in 1 .. Len(Output) : Output'[i] = Output[i]
      /\ Output'[Len(Output) + 1] = line
  BY AppendProperties
<1>3. DOMAIN Output' = 1 .. Len(Output) + 1
  BY <1>2, LenProperties
<1>4. \A i \in DOMAIN Output : IsTrueLine(Output[i], i, more)
  BY <1>1 DEF IsTrueLine
<1> QED
  BY <1>1, <1>2, <1>3, <1>4

LEMMA OutputIsLines == ASSUME IInv PROVE Output \in Seq(Line)
BY ConcatProperties DEF IInv, Shape, Streams, Output

\* A step of the session keeps the invariant if its output stays true and its
\* progress is written.
LEMMA ChildStep ==
  ASSUME IInv, ChildAlive, UNCHANGED <<config, late, timedOut, setups, requests, bundle>>,
         \/ phase' = phase
         \/ phase = "terminating" /\ phase' = "record" /\ child'.pc = "exited",
         child' \in ChildStates, child'.pc # "none", stdout' \in Streams,
         NEW results \in Seq(Hashes),
         executed' = [executed EXCEPT ![config] = results],
         \A i \in DOMAIN Output' : IsTrueLine(Output'[i], i, results),
         ProgressIsWritten'
  PROVE  IInv'
<1>1. /\ config \in DOMAIN Matrix /\ config \in Nat
      /\ executed \in [DOMAIN Matrix -> Seq(Hashes)]
      /\ setups \in Seq(Records) /\ DOMAIN setups = 1 .. Len(setups) /\ Len(setups) \in Nat
  BY LenProperties, MatrixShape DEF IInv, Shape
<1>2. executed' \in [DOMAIN Matrix -> Seq(Hashes)] /\ executed'[config] = results
      /\ \A c \in DOMAIN Matrix : c # config => executed'[c] = executed[c]
  BY <1>1
<1>3. Shape'
  BY <1>2 DEF IInv, Shape, Running
<1>4. SessionsAreWatched'
  BY DEF IInv, SessionsAreWatched, ChildAlive, Monitoring
<1>5. OutputIsTrue'
  BY <1>2 DEF OutputIsTrue
<1>6. phase' \notin {"idle", "launch"} /\ phase \notin {"idle", "launch"} /\ Len(setups) = config - 1
  BY DEF IInv, SessionsAreWatched, SessionsAreRecorded
<1>7. SessionsAreRecorded'
  BY <1>1, <1>2, <1>6 DEF IInv, SessionsAreRecorded
<1>8. \A c \in DOMAIN setups : executed'[c] = executed[c]
  BY <1>1, <1>2, <1>6, MatrixShape
<1>9. OkMeansAllRan' /\ NothingIsFabricated'
  BY <1>8, RecordsStand DEF IInv, SessionsAreRecorded
<1> QED
  BY <1>3, <1>4, <1>5, <1>7, <1>9 DEF IInv

LEMMA SessionFacts ==
  ASSUME IInv, ChildAlive
  PROVE  /\ config \in DOMAIN Matrix /\ child \in ChildStates /\ stdout \in Streams
         /\ executed[config] \in Seq(Hashes)
         /\ executed = [executed EXCEPT ![config] = executed[config]]
         /\ Output \in Seq(Line)
         /\ phase # "record"
         /\ \A i \in DOMAIN Output : IsTrueLine(Output[i], i, executed[config])
<1>1. phase # "record"
  BY DEF IInv, SessionsAreWatched
<1> QED
  BY <1>1, OutputIsLines DEF IInv, Shape, OutputIsTrue, Current

LEMMA StartFailsStep == ASSUME IInv, StartFails PROVE IInv'
<1>1. ChildAlive
  BY DEF StartFails, ChildAlive
<1>2. PICK code \in {1, 77} : ExitWith(code)
  BY DEF StartFails
<1>3. child' = [child EXCEPT !.pc = "exited", !.code = code]
  BY <1>2 DEF ExitWith
<1>4. child' \in ChildStates /\ child'.pc = "exited" /\ child'.code # 0
  <2>1. child \in ChildStates
    BY <1>1, SessionFacts
  <2>2. code \in Codes /\ code # 0
    BY <1>2 DEF Codes
  <2> QED
    BY <1>3, <2>1, <2>2 DEF ChildStates
<1>5. stdout' \in Streams /\ Output' = Output
  BY <1>1, <1>2, ExitFlushes, SessionFacts
<1>6. UNCHANGED <<phase, config, late, timedOut, executed, setups, requests, bundle>>
  BY DEF StartFails
<1>7. ProgressIsWritten'
  BY <1>4 DEF ProgressIsWritten
<1> QED
  BY <1>1, <1>4, <1>5, <1>6, <1>7, SessionFacts, ChildStep

LEMMA WriteSetupStep == ASSUME IInv, WriteSetup PROVE IInv'
<1>1. ChildAlive /\ child.pc = "starting"
  BY DEF WriteSetup, ChildAlive
<1>2. PICK ours \in BOOLEAN : Emit(SetupLine(ours))
  BY DEF WriteSetup
<1> DEFINE line == SetupLine(ours)
<1>3. line \in SetupLines /\ line \in Line
  BY DEF SetupLines, Line
<1>4. UNCHANGED <<phase, config, late, timedOut, executed, setups, requests, bundle>>
      /\ child' = [child EXCEPT !.pc = "serving"]
  BY DEF WriteSetup
<1>5. Output = <<>> /\ executed[config] = <<>> /\ child.next = 0
  BY <1>1 DEF IInv, ProgressIsWritten
<1>6. stdout' \in Streams /\ Output' = Append(Output, line)
  BY <1>1, <1>2, <1>3, EmitAppends, SessionFacts
<1>7. IsTrueLine(line, Len(Output) + 1, executed[config])
  BY <1>3, <1>5 DEF IsTrueLine
<1>8. Len(executed[config]) <= Len(executed[config])
  BY <1>1, SessionFacts, LenProperties
<1>9. /\ \A i \in DOMAIN Output' : IsTrueLine(Output'[i], i, executed[config])
      /\ Len(Output') = Len(Output) + 1
  <2> HIDE DEF line
  <2> QED
    BY <1>1, <1>3, <1>6, <1>7, <1>8, SessionFacts, LineAdded
<1>10. child' \in ChildStates /\ child'.pc = "serving" /\ child'.next = 0
  BY <1>1, <1>4, <1>5, SessionFacts DEF ChildStates
<1>11. ProgressIsWritten'
  BY <1>4, <1>5, <1>9, <1>10, CountIsPositive DEF ProgressIsWritten
<1> QED
  BY <1>1, <1>4, <1>6, <1>9, <1>10, <1>11, SessionFacts, ChildStep

\* A request writes one line, and perhaps one result.
LEMMA RequestStep ==
  ASSUME IInv, child.pc = "serving", RequestsRemain,
         UNCHANGED <<phase, config, late, timedOut, setups, requests, bundle>>,
         NEW status \in {"ok", "error"}, NEW hash \in Hashes \cup {NoHash},
         Emit(RequestLine(child.next, status, hash)),
         NEW results \in Seq(Hashes), executed' = [executed EXCEPT ![config] = results],
         \/ results = executed[config] /\ status = "error"
         \/ \E computed \in Hashes :
              /\ results = Append(executed[config], computed)
              /\ status = "ok" => hash = computed,
         child' \in ChildStates,
         \/ child'.pc = "failed"
         \/ status = "ok" /\ child'.pc = "serving" /\ child'.next = child.next + 1
  PROVE  IInv'
<1> DEFINE line == RequestLine(child.next, status, hash)
           before == executed[config]
<1>1. ChildAlive /\ child \in ChildStates
  BY DEF ChildAlive, IInv, Shape
<1>2. child.next \in Nat /\ child.next < Count /\ Len(before) = child.next
      /\ Len(Output) = child.next + 1
  BY <1>1 DEF IInv, ProgressIsWritten, RequestsRemain, ChildStates
<1>3. line \in RequestLines /\ line \in Line /\ line.index = child.next
      /\ line.status = status /\ line.hash = hash
  BY <1>2 DEF RequestLine, RequestLines, Line
<1>4. stdout' \in Streams /\ Output' = Append(Output, line)
  BY <1>1, <1>3, EmitAppends, SessionFacts
<1>5. before \in Seq(Hashes) /\ DOMAIN before = 1 .. child.next
  BY <1>1, <1>2, SessionFacts, LenProperties
<1>6. /\ Len(before) <= Len(results) /\ \A i \in DOMAIN before : results[i] = before[i]
      /\ status = "ok" => Len(results) = child.next + 1 /\ results[child.next + 1] = hash
  <2>1. CASE results = before /\ status = "error"
    BY <1>2, <2>1
  <2>2. CASE \E computed \in Hashes :
               results = Append(before, computed) /\ (status = "ok" => hash = computed)
    <3> HIDE DEF before
    <3>1. PICK computed \in Hashes :
            results = Append(before, computed) /\ (status = "ok" => hash = computed)
      BY <2>2
    <3> QED
      BY <1>2, <1>5, <3>1, AppendProperties
  <2> QED
    BY <2>1, <2>2
<1>7. IsTrueLine(line, Len(Output) + 1, results)
  <2>1. status = "ok" => child.next + 1 \in DOMAIN results
    BY <1>2, <1>6, LenProperties
  <2> HIDE DEF line
  <2> QED
    BY <1>2, <1>3, <1>6, <2>1 DEF IsTrueLine
<1>8. /\ \A i \in DOMAIN Output' : IsTrueLine(Output'[i], i, results)
      /\ Len(Output') = Len(Output) + 1
  <2> HIDE DEF line, before
  <2>1. \A i \in DOMAIN Output : IsTrueLine(Output[i], i, before)
    BY <1>1, SessionFacts DEF before
  <2> QED
    BY <1>1, <1>3, <1>4, <1>5, <1>6, <1>7, <2>1, SessionFacts, LineAdded
<1>9. executed'[config] = results
  BY DEF IInv, Shape
<1>10. ProgressIsWritten'
  BY <1>2, <1>6, <1>8, <1>9, CountIsPositive DEF ProgressIsWritten
<1> QED
  BY <1>1, <1>4, <1>8, <1>10, ChildStep

LEMMA ExecuteStep == ASSUME IInv, Execute PROVE IInv'
<1>1. PICK hash \in Hashes :
        /\ executed' = [executed EXCEPT ![config] = Append(@, hash)]
        /\ \/ /\ Emit(RequestLine(child.next, "ok", hash))
              /\ child' = [child EXCEPT !.next = @ + 1, !.expected = hash]
           \/ /\ Emit(RequestLine(child.next, "error", MismatchHash(hash)))
              /\ child' = [child EXCEPT !.pc = "failed"]
  BY DEF Execute
<1>2. ChildAlive /\ child \in ChildStates /\ child.pc = "serving" /\ RequestsRemain
      /\ UNCHANGED <<phase, config, late, timedOut, setups, requests, bundle>>
  BY DEF Execute, ChildAlive, IInv, Shape
<1>3. Append(executed[config], hash) \in Seq(Hashes)
  BY <1>2, SessionFacts, AppendProperties
<1>4. executed' = [executed EXCEPT ![config] = Append(executed[config], hash)]
  BY <1>1
<1>5. CASE /\ Emit(RequestLine(child.next, "ok", hash))
           /\ child' = [child EXCEPT !.next = @ + 1, !.expected = hash]
  <2>1. child.next \in Nat /\ child.next + 1 \in Nat /\ hash \in Hashes \cup {NoHash}
    BY <1>2 DEF ChildStates
  <2>2. child' \in ChildStates /\ child'.pc = "serving" /\ child'.next = child.next + 1
    BY <1>2, <1>5, <2>1 DEF ChildStates
  <2> QED
    BY <1>2, <1>3, <1>4, <1>5, <2>2, RequestStep
<1>6. CASE /\ Emit(RequestLine(child.next, "error", MismatchHash(hash)))
           /\ child' = [child EXCEPT !.pc = "failed"]
  <2>1. child' \in ChildStates /\ child'.pc = "failed"
    BY <1>2, <1>6 DEF ChildStates
  <2>2. MismatchHash(hash) \in Hashes \cup {NoHash}
    BY DEF MismatchHash
  <2> QED
    BY <1>2, <1>3, <1>4, <1>6, <2>1, <2>2, RequestStep
<1> QED
  BY <1>1, <1>5, <1>6

LEMMA ExecuteFailsStep == ASSUME IInv, ExecuteFails PROVE IInv'
<1>1. ChildAlive /\ child \in ChildStates /\ child.pc = "serving" /\ RequestsRemain
      /\ Emit(RequestLine(child.next, "error", NoHash))
      /\ child' = [child EXCEPT !.pc = "failed"]
      /\ UNCHANGED <<phase, config, late, timedOut, setups, requests, bundle, executed>>
  BY DEF ExecuteFails, ChildAlive, IInv, Shape
<1>2. child' \in ChildStates /\ child'.pc = "failed"
  BY <1>1 DEF ChildStates
<1> QED
  BY <1>1, <1>2, SessionFacts, RequestStep

LEMMA ExitStep == ASSUME IInv, Exit PROVE IInv'
<1>1. ChildAlive /\ child \in ChildStates /\ UNCHANGED <<phase, config, late, timedOut, setups, requests, bundle, executed>>
  BY DEF Exit, ChildAlive, IInv, Shape
<1>2. PICK code \in {0, 1} :
        ExitWith(code) /\ (code = 0 => child.pc = "serving" /\ ~RequestsRemain)
  BY DEF Exit
<1>3. stdout' \in Streams /\ Output' = Output /\ stdout'.log = Output /\ ~stdout'.torn
  BY <1>1, <1>2, ExitFlushes, SessionFacts
<1>4. child' \in ChildStates /\ child'.pc = "exited" /\ child'.code = code
  BY <1>1, <1>2 DEF ExitWith, ChildStates, Codes
<1>5. code = 0 => Len(executed[config]) = Count /\ Len(Output) = Count + 1
  BY <1>1, <1>2, CountIsPositive DEF IInv, ProgressIsWritten, RequestsRemain, ChildStates
<1>6. ProgressIsWritten'
  BY <1>1, <1>3, <1>4, <1>5 DEF ProgressIsWritten
<1> QED
  BY <1>1, <1>3, <1>4, <1>6, SessionFacts, ChildStep

\* A signal leaves of the output what had left the process.
LEMMA SignalStep ==
  ASSUME IInv, ChildAlive, NEW code \in {-9, -15}, Killed(code),
         UNCHANGED <<config, late, timedOut, setups, requests, bundle, executed>>,
         phase' = phase \/ (phase = "terminating" /\ phase' = "record")
  PROVE  IInv'
<1>1. child \in ChildStates /\ child' = [child EXCEPT !.pc = "exited", !.code = code]
  BY SessionFacts DEF Killed
<1>2. child' \in ChildStates /\ child'.pc = "exited" /\ child'.code # 0
  <2>1. code \in Codes /\ code # 0
    BY DEF Codes
  <2> QED
    BY <1>1, <2>1 DEF ChildStates
<1>3. stdout' \in Streams /\ \A i \in DOMAIN Output' : IsTrueLine(Output'[i], i, executed[config])
  BY SessionFacts, SignalCuts
<1>4. ProgressIsWritten'
  BY <1>2 DEF ProgressIsWritten
<1> QED
  BY <1>2, <1>3, <1>4, SessionFacts, ChildStep

-----------------------------------------------------------------------------
(* The runner and its monitor.                                             *)

\* A step of the runner that neither launches nor records.
LEMMA QuietStep ==
  ASSUME IInv, UNCHANGED <<config, child, stdout, executed, setups, requests>>,
         late' \in BOOLEAN, timedOut' \in BOOLEAN,
         bundle' = [bundle EXCEPT !.files = bundle'.files],
         phase # "idle", phase' \in Running \cup {"done", "interrupted", "refused"},
         phase' # "launch",
         ChildAlive => phase' \in {"watch", "polled", "terminating", "interrupted", "refused"},
         phase' \in Monitoring => phase \in Monitoring,
         phase' = "record" => child.pc = "exited"
  PROVE  IInv'
<1>1. bundle'.used = bundle.used /\ bundle' = [used |-> bundle'.used, files |-> bundle'.files]
  <2>1. bundle = [used |-> bundle.used, files |-> bundle.files]
    BY Zenon DEF IInv, Shape
  <2>2. bundle' = [used |-> bundle.used, files |-> bundle'.files]
    BY <2>1
  <2> QED
    BY <2>2
<1>2. Shape' /\ SessionsAreWatched'
  BY <1>1 DEF IInv, Shape, SessionsAreWatched, ChildAlive, Running
<1>3. OutputIsTrue'
  BY DEF IInv, OutputIsTrue, Current, ChildAlive, Output
<1>4. ProgressIsWritten'
  BY DEF IInv, ProgressIsWritten, Output
<1>5. SessionsAreRecorded'
  BY DEF IInv, SessionsAreRecorded, ChildAlive, Running
<1>6. OkMeansAllRan' /\ NothingIsFabricated'
  BY DEF IInv, OkMeansAllRan, NothingIsFabricated
<1> QED
  BY <1>2, <1>3, <1>4, <1>5, <1>6 DEF IInv

LEMMA QuietSteps ==
  ASSUME IInv, TimePasses \/ Poll \/ CheckClock \/ WriteCsv \/ Interrupt
  PROVE  IInv'
<1> USE DEF childVars, Running, Monitoring
<1>1. late \in BOOLEAN /\ timedOut \in BOOLEAN /\ bundle = [bundle EXCEPT !.files = bundle.files]
  BY DEF IInv, Shape
<1>2. /\ ChildAlive => phase \in {"watch", "polled", "terminating", "interrupted", "refused"}
      /\ phase \in Monitoring => child.pc # "none"
  BY DEF IInv, SessionsAreWatched
<1>3. CASE TimePasses
  BY <1>1, <1>2, <1>3, QuietStep DEF TimePasses
<1>4. CASE Poll
  BY <1>1, <1>2, <1>4, QuietStep DEF Poll, ChildAlive
<1>5. CASE CheckClock
  BY <1>1, <1>2, <1>5, QuietStep DEF CheckClock
<1>6. CASE WriteCsv
  BY <1>1, <1>2, <1>6, QuietStep DEF WriteCsv
<1>7. CASE Interrupt
  BY <1>1, <1>2, <1>7, QuietStep DEF Interrupt
<1> QED
  BY <1>3, <1>4, <1>5, <1>6, <1>7

LEMMA TerminateStep == ASSUME IInv, Terminate PROVE IInv'
<1>1. late \in BOOLEAN /\ timedOut \in BOOLEAN /\ bundle = [bundle EXCEPT !.files = bundle.files]
  BY DEF IInv, Shape
<1>2. phase = "terminating" /\ phase' = "record" /\ child.pc # "none"
      /\ UNCHANGED <<config, late, timedOut, setups, requests, bundle>>
  BY DEF Terminate, IInv, SessionsAreWatched, Monitoring
<1>3. CASE ~ChildAlive /\ UNCHANGED childVars
  BY <1>1, <1>2, <1>3, QuietStep DEF childVars, ChildAlive, Running, Monitoring
<1>4. CASE ChildAlive /\ Killed(-9) /\ UNCHANGED <<executed, genuine>>
  BY <1>2, <1>4, SignalStep
<1> QED
  BY <1>3, <1>4 DEF Terminate

\* A session starts with nothing written.
LEMMA LaunchStep == ASSUME IInv, Launch PROVE IInv'
<1>1. /\ phase = "launch" /\ UNCHANGED <<config, executed, setups, requests, bundle>>
      /\ stdout' = [log |-> <<>>, torn |-> FALSE, buffer |-> <<>>]
      /\ late' = FALSE /\ timedOut' = FALSE
      /\ \/ child' = [NoChild EXCEPT !.pc = "starting"] /\ phase' = "watch"
         \/ child' = [NoChild EXCEPT !.pc = "exited", !.code = 127] /\ phase' = "record"
  BY DEF Launch
<1>2. executed[config] = <<>>
  BY <1>1 DEF IInv, Shape, SessionsAreRecorded
<1>3. <<>> \in Seq(Line) /\ <<>> \o <<>> = <<>>
  BY EmptySeq, ConcatEmptySeq
<1>4. stdout' \in Streams /\ Output' = <<>>
  BY <1>1, <1>3 DEF Streams, Output
<1>5. /\ child' \in ChildStates /\ child'.next = 0
      /\ \/ child'.pc = "starting" /\ phase' = "watch"
         \/ child'.pc = "exited" /\ child'.code = 127 /\ phase' = "record"
  <2>1. NoChild \in ChildStates /\ NoChild.next = 0
    BY DEF NoChild, ChildStates, Codes
  <2>2. 127 \in Codes
    BY DEF Codes
  <2> HIDE DEF NoChild
  <2>3. CASE child' = [NoChild EXCEPT !.pc = "starting"] /\ phase' = "watch"
    BY <2>1, <2>3 DEF ChildStates
  <2>4. CASE child' = [NoChild EXCEPT !.pc = "exited", !.code = 127] /\ phase' = "record"
    BY <2>1, <2>2, <2>4 DEF ChildStates
  <2> QED
    BY <1>1, <2>3, <2>4
<1>6. Shape'
  BY <1>1, <1>4, <1>5 DEF IInv, Shape, Running
<1>7. SessionsAreWatched'
  BY <1>1, <1>5 DEF IInv, SessionsAreWatched, ChildAlive
<1>8. OutputIsTrue'
  BY <1>4 DEF OutputIsTrue
<1>9. ProgressIsWritten'
  BY <1>1, <1>2, <1>4, <1>5 DEF ProgressIsWritten
<1>10. SessionsAreRecorded'
  BY <1>1, <1>5 DEF IInv, SessionsAreRecorded, Monitoring
<1>11. OkMeansAllRan' /\ NothingIsFabricated'
  BY <1>1 DEF IInv, OkMeansAllRan, NothingIsFabricated
<1> QED
  BY <1>6, <1>7, <1>8, <1>9, <1>10, <1>11 DEF IInv

\* Only the first start finds a fresh directory.
LEMMA StartStep == ASSUME IInv, Start PROVE IInv'
<1>1. /\ phase \in {"idle", "done", "interrupted", "aborted"}
      /\ UNCHANGED <<late, timedOut, child, stdout>>
      /\ \/ /\ ~bundle.used /\ phase' = "launch" /\ config' = 1
            /\ executed' = [c \in DOMAIN Matrix |-> <<>>]
            /\ setups' = <<>> /\ requests' = {}
            /\ bundle' = [bundle EXCEPT !.used = TRUE]
         \/ /\ bundle.used /\ phase' = "refused"
            /\ UNCHANGED <<config, executed, setups, requests, bundle>>
  BY DEF Start, OutputIsFresh
<1>2. CASE bundle.used
  <2>1. phase # "idle" /\ bundle = [bundle EXCEPT !.files = bundle.files]
    BY <1>2 DEF IInv, SessionsAreWatched, Shape
  <2> QED
    BY <1>1, <1>2, <2>1, QuietStep DEF IInv, Shape, Monitoring
<1>3. CASE ~bundle.used
  <2>1. phase = "idle" /\ ~ChildAlive
    BY <1>3 DEF IInv, SessionsAreWatched
  <2>2. bundle' = [used |-> TRUE, files |-> bundle.files]
    <3>1. bundle = [used |-> bundle.used, files |-> bundle.files]
      BY Zenon DEF IInv, Shape
    <3> QED
      BY <1>1, <1>3, <3>1
  <2>3. 1 \in DOMAIN Matrix /\ executed' \in [DOMAIN Matrix -> Seq(Hashes)]
        /\ \A c \in DOMAIN Matrix : executed'[c] = <<>>
    <3>1. <<>> \in Seq(Hashes) /\ executed' = [c \in DOMAIN Matrix |-> <<>>]
      BY <1>1, <1>3, EmptySeq
    <3>2. 1 \in DOMAIN Matrix
      BY MatrixShape
    <3> QED
      BY <3>1, <3>2
  <2>4. setups' \in Seq(Records) /\ Len(setups') = 0 /\ DOMAIN setups' = {}
    <3>1. setups' = <<>>
      BY <1>1, <1>3
    <3> QED
      BY <3>1, EmptySeq
  <2>5. Shape'
    BY <1>1, <1>3, <2>2, <2>3, <2>4 DEF IInv, Shape, Running
  <2>6. SessionsAreWatched' /\ OutputIsTrue'
    BY <1>1, <1>3, <2>1, <2>2
       DEF SessionsAreWatched, OutputIsTrue, Current, ChildAlive, Monitoring
  <2>7. ProgressIsWritten'
    BY <1>1, <1>3, <2>1 DEF ProgressIsWritten, ChildAlive, Monitoring
  <2>8. SessionsAreRecorded'
    BY <1>1, <1>3, <2>1, <2>3, <2>4 DEF SessionsAreRecorded, ChildAlive
  <2>9. OkMeansAllRan' /\ NothingIsFabricated'
    BY <1>1, <1>3, <2>4 DEF OkMeansAllRan, NothingIsFabricated
  <2> QED
    BY <2>5, <2>6, <2>7, <2>8, <2>9 DEF IInv
<1> QED
  BY <1>2, <1>3

-----------------------------------------------------------------------------
(* What the parser accepts of a log, and the records it becomes.           *)

LEMMA LogIsTrue ==
  ASSUME IInv, phase = "record"
  PROVE  /\ stdout.log \in Seq(Line)
         /\ \A i \in 1 .. Len(stdout.log) : IsTrueLine(stdout.log[i], i, executed[config])
<1>1. stdout.log \in Seq(Line) /\ stdout.buffer \in Seq(Line)
  BY DEF IInv, Shape, Streams
<1>2. \A i \in DOMAIN Output : IsTrueLine(Output[i], i, executed[config])
  BY DEF IInv, OutputIsTrue, Current, Monitoring
<1>3. \A i \in DOMAIN stdout.log : i \in DOMAIN Output /\ Output[i] = stdout.log[i]
  BY <1>1, ConcatPrefix, Zenon DEF Output
<1> QED
  BY <1>1, <1>2, <1>3, LenProperties

LEMMA KeptRequests ==
  ASSUME IInv, phase = "record", SessionIsKept
  PROVE  LET kept == RequestsOf(stdout.log) IN
         /\ stdout.log # <<>> /\ kept \in Seq(Line)
         /\ Len(kept) = Len(stdout.log) - 1 /\ Len(kept) <= Count
         /\ \A i \in 1 .. Len(kept) :
              /\ kept[i] \in RequestLines /\ kept[i].index = i - 1
              /\ kept[i].status = "ok" =>
                   /\ i \in DOMAIN executed[config] /\ executed[config][i] = ExpectedHash
                   /\ kept[i].hash = ExpectedHash
              /\ kept[i].status = "error" => kept[i].hash = NoHash
<1> DEFINE log == stdout.log
           kept == RequestsOf(log)
<1>1. log # <<>> /\ Len(kept) <= Count
      /\ \A i \in DOMAIN kept : RequestLineIsValid(log, i)
      /\ OkHashes(log) \subseteq {ExpectedHash}
  BY DEF SessionIsKept, ParserAccepts
<1>2. log \in Seq(Line) /\ \A i \in 1 .. Len(log) : IsTrueLine(log[i], i, executed[config])
  BY LogIsTrue
<1>3. /\ kept \in Seq(Line) /\ Len(kept) = Len(log) - 1
      /\ \A i \in 1 .. Len(kept) : kept[i] = log[i + 1]
  <2> HIDE DEF log
  <2> QED
    BY <1>1, <1>2, HeadTailProperties DEF RequestsOf
<1>4. Len(log) \in Nat /\ Len(kept) \in Nat /\ DOMAIN kept = 1 .. Len(kept)
  <2> HIDE DEF log, kept
  <2> QED
    BY <1>2, <1>3, LenProperties
<1>5. ASSUME NEW i \in 1 .. Len(kept)
      PROVE  /\ kept[i] \in RequestLines /\ kept[i].index = i - 1
             /\ kept[i].status = "ok" => i \in DOMAIN executed[config]
                                         /\ kept[i].hash = executed[config][i]
  <2> HIDE DEF log, kept
  <2>1. i + 1 \in 1 .. Len(log) /\ i + 1 # 1 /\ (i + 1) - 2 = i - 1 /\ (i + 1) - 1 = i
    BY <1>3, <1>4
  <2>2. IsTrueLine(log[i + 1], i + 1, executed[config])
    BY <1>2, <2>1
  <2> QED
    BY <1>3, <2>1, <2>2 DEF IsTrueLine
<1>6. ASSUME NEW i \in 1 .. Len(kept)
      PROVE  /\ kept[i].status = "ok" => kept[i].hash = ExpectedHash
             /\ kept[i].status = "error" => kept[i].hash = NoHash
  <2>1. RequestLineIsValid(log, i)
    BY <1>1, <1>4
  <2>2. kept[i].status = "ok" => kept[i].hash \in OkHashes(log)
    BY <1>4 DEF OkHashes, Range
  <2> QED
    BY <1>1, <2>1, <2>2 DEF RequestLineIsValid
<1> QED
  BY <1>1, <1>3, <1>5, <1>6

\* The records of requests are those the parser accepted, by their place.
LEMMA RecordsOfRequests ==
  ASSUME IInv, phase = "record", NEW r \in RequestRecords
  PROVE  /\ SessionIsKept
         /\ \E i \in 1 .. Len(RequestsOf(stdout.log)) :
              LET line == RequestsOf(stdout.log)[i] IN
              r = [config |-> config, index |-> line.index, warmup |-> line.index < Warmup,
                   sample |-> IF line.index < Warmup THEN line.index ELSE line.index - Warmup,
                   status |-> line.status, hash |-> line.hash]
<1>1. SessionIsKept
  BY DEF RequestRecords
<1>2. RequestsOf(stdout.log) \in Seq(Line)
  BY <1>1, KeptRequests
<1>3. DOMAIN RequestsOf(stdout.log) = 1 .. Len(RequestsOf(stdout.log))
  BY <1>2, LenProperties
<1> QED
  BY <1>1, <1>3 DEF RequestRecords, Range

LEMMA FailureIsNamed ==
  ASSUME timedOut \in BOOLEAN, child.code \in Codes, NEW protocolError \in BOOLEAN,
         timedOut \/ child.code # 0 \/ protocolError
  PROVE  FailureMetadata(protocolError) \in Failures
<1> USE DEF Failures
<1>1. CASE timedOut
  BY <1>1 DEF FailureMetadata, Verdict
<1>2. CASE ~timedOut /\ child.code = 77
  BY <1>2 DEF FailureMetadata, Verdict
<1>3. CASE ~timedOut /\ child.code \notin {0, 77}
  BY <1>3 DEF FailureMetadata, Verdict
<1>4. CASE ~timedOut /\ child.code = 0 /\ protocolError
  BY <1>4 DEF FailureMetadata, Verdict
<1> QED
  BY <1>1, <1>2, <1>3, <1>4

LEMMA SessionIsJudged ==
  ASSUME timedOut \in BOOLEAN, child.code \in Codes, NEW log
  PROVE  \/ SessionMetadata(log) = Success /\ child.code = 0 /\ Complete(log)
         \/ SessionMetadata(log) \in Failures
<1> USE DEF Failures, Success
<1>1. CASE child.code = 0 /\ ~timedOut /\ Complete(log)
  BY <1>1 DEF SessionMetadata, Complete, Verdict
<1>2. CASE Missing(log)
  BY <1>2 DEF SessionMetadata, Complete, Verdict
<1>3. CASE ~Missing(log) /\ SomeFailed(log)
  BY <1>3 DEF SessionMetadata, Complete, Verdict
<1>4. CASE Complete(log) /\ (timedOut \/ child.code # 0)
  <2>1. SessionMetadata(log) = FailureMetadata(FALSE)
    BY <1>4 DEF SessionMetadata, Complete
  <2> QED
    BY <1>4, <2>1, FailureIsNamed
<1> QED
  BY <1>1, <1>2, <1>3, <1>4 DEF Complete

\* Every session has a verdict, and a good one only if its log is complete.
LEMMA SetupIsRecorded ==
  ASSUME IInv, phase = "record"
  PROVE  /\ SetupRecord \in Records /\ SetupIsValid(SetupRecord)
         /\ SetupRecord.verdict.status = "ok" =>
              SessionIsKept /\ child.code = 0 /\ Complete(stdout.log)
<1>1. /\ timedOut \in BOOLEAN /\ child.code \in Codes /\ config \in DOMAIN Matrix
      /\ child.pc = "exited"
  BY DEF IInv, Shape, ChildStates, SessionsAreWatched
<1>0. PICK verdict : verdict = SetupRecord.verdict
  OBVIOUS
<1>2. /\ SetupRecord = [config |-> config, code |-> child.code, verdict |-> verdict]
      /\ verdict = IF SessionIsKept THEN SessionMetadata(stdout.log)
                                    ELSE FailureMetadata(ProtocolError)
  BY <1>0 DEF SetupRecord
<1>3. \/ verdict = Success /\ SessionIsKept /\ child.code = 0 /\ Complete(stdout.log)
      \/ verdict \in Failures
  <2>1. CASE SessionIsKept
    BY <1>1, <1>2, <2>1, SessionIsJudged
  <2>2. CASE ~SessionIsKept
    <3>1. ProtocolError \in BOOLEAN
      BY DEF ProtocolError
    <3>2. child.code = 0 => ProtocolError
      <4>1. SUFFICES ASSUME child.code = 0 PROVE stdout.log # <<>>
        BY <2>2 DEF ProtocolError, SaidNothing
      <4>2. Len(stdout.log) = Count + 1 /\ stdout.log \in Seq(Line)
        BY <1>1, <4>1, LogIsTrue DEF IInv, ProgressIsWritten, Monitoring
      <4> QED
        BY <4>2, CountIsPositive, EmptySeq
    <3> QED
      BY <1>1, <1>2, <2>2, <3>1, <3>2, FailureIsNamed
  <2> QED
    BY <2>1, <2>2
<1>4. verdict \in Failures \cup {Success}
  BY <1>3
<1>5. SetupRecord \in Records
  BY <1>1, <1>2, <1>4 DEF Records
<1>6. SetupIsValid(SetupRecord)
  <2>1. CASE verdict = Success /\ child.code = 0
    <3>1. verdict.status = "ok" /\ verdict.error = ""
      BY <2>1, Zenon DEF Success
    <3>2. SetupRecord.code = 0
      BY <1>2, <2>1, Zenon
    <3> QED
      BY <1>0, <3>1, <3>2, Zenon DEF SetupIsValid
  <2>2. CASE verdict \in Failures
    <3>1. /\ verdict.status \in {"timeout", "skipped_no_gpu", "error"}
          /\ verdict.error \in {"ERROR_NOT_EXECUTED", "ERROR_REQUEST_FAILED", "ERROR_TIMEOUT",
                              "ERROR_NO_GPU", "ERROR_PROCESS_EXIT", "ERROR_RESIDENT_PROTOCOL"}
      BY <2>2 DEF Failures
    <3>2. verdict.error # ""
      BY <3>1, Zenon
    <3>3. verdict.status # "ok" /\ verdict.status \in {"ok", "error", "timeout", "skipped_no_gpu"}
      BY <3>1
    <3> QED
      BY <1>0, <3>2, <3>3, Zenon DEF SetupIsValid
  <2> QED
    BY <1>3, <2>1, <2>2
<1>7. verdict.status = "ok" => SessionIsKept /\ child.code = 0 /\ Complete(stdout.log)
  BY <1>3 DEF Failures
<1> QED
  BY <1>0, <1>5, <1>6, <1>7

LEMMA RequestsAreRecorded ==
  ASSUME IInv, phase = "record", NEW r \in RequestRecords
  PROVE  /\ RequestIsValid(r) /\ r.config = config
         /\ IF r.status = "ok"
            THEN /\ r.index < Len(executed[config])
                 /\ executed[config][r.index + 1] = ExpectedHash
                 /\ r.hash = ExpectedHash
            ELSE r.hash = NoHash
<1> DEFINE kept == RequestsOf(stdout.log)
<1>1. SessionIsKept
  BY RecordsOfRequests
<1>2. PICK i \in 1 .. Len(kept) :
        r = [config |-> config, index |-> kept[i].index, warmup |-> kept[i].index < Warmup,
             sample |-> IF kept[i].index < Warmup THEN kept[i].index
                                                  ELSE kept[i].index - Warmup,
             status |-> kept[i].status, hash |-> kept[i].hash]
  BY RecordsOfRequests
<1>3. /\ kept \in Seq(Line) /\ kept[i] \in RequestLines /\ kept[i].index = i - 1
      /\ kept[i].status = "ok" =>
           /\ i \in DOMAIN executed[config] /\ executed[config][i] = ExpectedHash
           /\ kept[i].hash = ExpectedHash
      /\ kept[i].status = "error" => kept[i].hash = NoHash
  BY <1>1, KeptRequests
<1>4. kept[i].status \in {"ok", "error"} /\ kept[i].index \in Nat
  BY <1>3 DEF RequestLines
<1> HIDE DEF kept
<1>5. executed[config] \in Seq(Hashes) /\ Len(kept) \in Nat
  BY <1>3, LenProperties DEF IInv, Shape
<1>6. RequestIsValid(r)
  BY <1>2, <1>3, <1>4, HashesAreValid, CountsAreValid DEF RequestIsValid
<1>7. r.status = "ok" => r.index < Len(executed[config])
  BY <1>2, <1>3, <1>4, <1>5, LenProperties
<1> QED
  BY <1>2, <1>3, <1>4, <1>5, <1>6, <1>7

\* The record of request i of configuration c when all goes well.
GoodRequest(c, i) ==
  [config |-> c, index |-> i, warmup |-> i < Warmup,
   sample |-> IF i < Warmup THEN i ELSE i - Warmup, status |-> "ok", hash |-> ExpectedHash]
RequestsOfConfig(c) == {r \in requests : r.config = c}
GoodRequests(c) == {GoodRequest(c, i) : i \in 0 .. Count - 1}

\* The records of a complete log are those of all requests, and all were ok.
LEMMA GoodSessionIsRecorded ==
  ASSUME IInv, phase = "record", SessionIsKept, child.code = 0, Complete(stdout.log)
  PROVE  RequestRecords = GoodRequests(config)
<1> DEFINE kept == RequestsOf(stdout.log)
<1>1. Len(kept) = Count /\ kept \in Seq(Line)
  BY KeptRequests, CountIsPositive, LenProperties DEF Complete, Missing
<1>2. \A i \in 1 .. Count :
        kept[i].index = i - 1 /\ kept[i].status = "ok" /\ kept[i].hash = ExpectedHash
  <2>1. \A i \in 1 .. Count : kept[i].status = "ok"
    BY <1>1, LenProperties DEF Complete, SomeFailed, Range
  <2> QED
    BY <1>1, <2>1, KeptRequests
<1> HIDE DEF kept
<1> DEFINE Reported(i) ==
      [config |-> config, index |-> kept[i].index, warmup |-> kept[i].index < Warmup,
       sample |-> IF kept[i].index < Warmup THEN kept[i].index ELSE kept[i].index - Warmup,
       status |-> kept[i].status, hash |-> kept[i].hash]
<1>3. RequestRecords = {Reported(i) : i \in 1 .. Count}
  <2>1. Range(kept) = {kept[i] : i \in 1 .. Count}
    BY <1>1, RangeEquality
  <2> QED
    BY <2>1 DEF RequestRecords, kept
<1>4. \A i \in 1 .. Count : Reported(i) = GoodRequest(config, i - 1)
  BY <1>2 DEF GoodRequest
<1>5. /\ \A i \in 1 .. Count : i - 1 \in 0 .. Count - 1
      /\ \A n \in 0 .. Count - 1 : n + 1 \in 1 .. Count /\ (n + 1) - 1 = n
  BY CountIsPositive
<1> HIDE DEF Reported
<1> QED
  BY <1>3, <1>4, <1>5 DEF GoodRequests

LEMMA CompleteMeansAll ==
  ASSUME IInv, phase = "record", SessionIsKept, child.code = 0, Complete(stdout.log)
  PROVE  /\ executed[config] = [i \in 1 .. Count |-> ExpectedHash]
         /\ {r.index : r \in {q \in RequestRecords : q.status = "ok"}} = 0 .. Count - 1
<1>1. executed[config] = [i \in 1 .. Count |-> ExpectedHash]
  <2>1. executed[config] \in Seq(Hashes) /\ Len(executed[config]) = Count
    BY DEF IInv, Shape, ProgressIsWritten, Monitoring, SessionsAreWatched
  <2>2. executed[config] = [i \in 1 .. Count |-> executed[config][i]]
    BY <2>1, LenProperties
  <2>3. \A i \in 1 .. Count : executed[config][i] = ExpectedHash
    <3> DEFINE kept == RequestsOf(stdout.log)
    <3>1. Len(kept) = Count /\ kept \in Seq(Line)
      BY KeptRequests, CountIsPositive, LenProperties DEF Complete, Missing
    <3>2. \A i \in 1 .. Count : kept[i].status = "ok"
      BY <3>1, LenProperties DEF Complete, SomeFailed, Range
    <3> QED
      BY <3>1, <3>2, KeptRequests
  <2> QED
    BY <2>2, <2>3
<1>2. RequestRecords = {GoodRequest(config, i) : i \in 0 .. Count - 1}
  BY GoodSessionIsRecorded DEF GoodRequests
<1>3. \A i \in 0 .. Count - 1 :
        GoodRequest(config, i).index = i /\ GoodRequest(config, i).status = "ok"
  BY DEF GoodRequest
<1> QED
  BY <1>1, <1>2, <1>3

LEMMA RecordStep == ASSUME IInv, Record PROVE IInv'
<1>1. phase = "record" /\ UNCHANGED <<late, timedOut, child, stdout, executed, bundle>>
  BY DEF Record, childVars
<1>2. RecordsAreValid
  BY <1>1, SetupIsRecorded, RequestsAreRecorded DEF RecordsAreValid
<1>3. /\ setups' = Append(setups, SetupRecord)
      /\ requests' = requests \cup RequestRecords
      /\ \/ phase' = "write" /\ config = Len(Matrix) /\ config' = config
         \/ phase' = "launch" /\ config # Len(Matrix) /\ config' = config + 1
  BY <1>2 DEF Record
<1>4. /\ config \in DOMAIN Matrix /\ config \in Nat /\ config' \in DOMAIN Matrix
      /\ config <= config' /\ config' <= config + 1
  BY <1>3, MatrixShape DEF IInv, Shape
<1>5. /\ setups \in Seq(Records) /\ Len(setups) = config - 1
      /\ DOMAIN setups = 1 .. config - 1
      /\ \A r \in requests : r.config \in 1 .. config - 1
  BY <1>1, LenProperties DEF IInv, Shape, SessionsAreRecorded, Monitoring
<1>6. /\ setups' \in Seq(Records) /\ Len(setups') = config
      /\ DOMAIN setups' = 1 .. config
      /\ \A c \in 1 .. config - 1 : setups'[c] = setups[c]
      /\ setups'[config] = SetupRecord
  BY <1>1, <1>3, <1>4, <1>5, SetupIsRecorded, AppendProperties, LenProperties
<1>7. ~ChildAlive /\ child.pc = "exited"
  BY <1>1 DEF IInv, SessionsAreWatched, ChildAlive
<1>8. Shape' /\ SessionsAreWatched'
  BY <1>1, <1>3, <1>4, <1>6, <1>7
     DEF IInv, Shape, SessionsAreWatched, ChildAlive, Running, Monitoring
<1>9. OutputIsTrue' /\ ProgressIsWritten'
  BY <1>1, <1>3, <1>7 DEF OutputIsTrue, ProgressIsWritten, Current, ChildAlive, Monitoring
<1>10. SessionsAreRecorded'
  <2>1. \A r \in requests' : r.config \in DOMAIN setups'
    BY <1>1, <1>3, <1>4, <1>5, <1>6, RequestsAreRecorded
  <2>2. \A c \in DOMAIN Matrix :
          c > config' \/ (c = config' /\ phase' \in {"idle", "launch"}) => executed'[c] = <<>>
    <3>1. \A c \in DOMAIN Matrix : c > config => executed[c] = <<>>
      BY DEF IInv, SessionsAreRecorded
    <3> QED
      BY <1>1, <1>3, <1>4, <3>1, MatrixShape
  <2>3. phase' \in Monitoring \cup {"idle", "launch"} \/ ChildAlive' => Len(setups') = config' - 1
    BY <1>1, <1>3, <1>4, <1>6, <1>7 DEF Monitoring, ChildAlive
  <2> QED
    BY <1>4, <1>6, <2>1, <2>2, <2>3 DEF SessionsAreRecorded
<1>11. OkMeansAllRan'
  <2> SUFFICES ASSUME NEW c \in DOMAIN setups', setups'[c].verdict.status = "ok"
               PROVE  /\ executed[c] = [i \in 1 .. Count |-> ExpectedHash]
                      /\ {r.index : r \in {q \in requests' : q.config = c /\ q.status = "ok"}}
                           = 0 .. Count - 1
    BY <1>1 DEF OkMeansAllRan
  <2>1. CASE c = config
    <3>1. {q \in requests' : q.config = c /\ q.status = "ok"}
            = {q \in RequestRecords : q.status = "ok"}
      BY <1>1, <1>3, <1>4, <1>5, <2>1, RequestsAreRecorded
    <3>2. SessionIsKept /\ child.code = 0 /\ Complete(stdout.log)
      BY <1>1, <1>6, <2>1, SetupIsRecorded
    <3> QED
      BY <1>1, <2>1, <3>1, <3>2, CompleteMeansAll
  <2>2. CASE c # config
    <3>1. c \in DOMAIN setups /\ setups[c].verdict.status = "ok"
      BY <1>4, <1>5, <1>6, <2>2
    <3>2. {q \in requests' : q.config = c /\ q.status = "ok"}
            = {q \in requests : q.config = c /\ q.status = "ok"}
      BY <1>1, <1>3, <2>2, RequestsAreRecorded
    <3> QED
      BY <3>1, <3>2 DEF IInv, OkMeansAllRan
  <2> QED
    BY <2>1, <2>2
<1>12. NothingIsFabricated'
  BY <1>1, <1>3, RequestsAreRecorded DEF IInv, NothingIsFabricated
<1> QED
  BY <1>8, <1>9, <1>10, <1>11, <1>12 DEF IInv

-----------------------------------------------------------------------------
LEMMA SigtermStep == ASSUME IInv, DiesOfSigterm PROVE IInv'
<1>1. ChildAlive /\ Killed(-15) /\ phase' = phase
      /\ UNCHANGED <<config, late, timedOut, setups, requests, bundle, executed>>
  BY DEF DiesOfSigterm
<1> QED
  BY <1>1, SignalStep

LEMMA InitIInv == Init => IInv
<1> SUFFICES ASSUME Init PROVE IInv
  OBVIOUS
<1>1. <<>> \in Seq(Line) /\ <<>> \in Seq(Hashes) /\ <<>> \in Seq(Records) /\ Len(<<>>) = 0
      /\ DOMAIN <<>> = {}
  BY EmptySeq
<1>2. Shape
  <2>1. child \in ChildStates
    BY DEF Init, NoChild, ChildStates, Codes
  <2>2. stdout \in Streams
    BY <1>1 DEF Init, Streams
  <2>3. executed \in [DOMAIN Matrix -> Seq(Hashes)] /\ config \in DOMAIN Matrix
    BY <1>1, MatrixShape DEF Init
  <2>4. bundle = [used |-> bundle.used, files |-> bundle.files]
    BY DEF Init
  <2> QED
    BY <1>1, <2>1, <2>2, <2>3, <2>4 DEF Init, Shape
<1>3. SessionsAreWatched /\ OutputIsTrue /\ ProgressIsWritten
  BY DEF Init, SessionsAreWatched, OutputIsTrue, ProgressIsWritten, Current, ChildAlive,
         NoChild, Monitoring
<1>4. SessionsAreRecorded /\ OkMeansAllRan /\ NothingIsFabricated
  BY <1>1, MatrixShape DEF Init, SessionsAreRecorded, OkMeansAllRan, NothingIsFabricated, ChildAlive,
         NoChild
<1> QED
  BY <1>2, <1>3, <1>4 DEF IInv

LEMMA NextIInv == IInv /\ [Next]_vars => IInv'
<1> SUFFICES ASSUME IInv, [Next]_vars PROVE IInv'
  OBVIOUS
<1>1. CASE Runner
  BY <1>1, LaunchStep, QuietSteps, TerminateStep, RecordStep DEF Runner
<1>2. CASE TimePasses \/ Interrupt
  BY <1>2, QuietSteps
<1>3. CASE Start
  BY <1>3, StartStep
<1>4. CASE StartFails \/ WriteSetup \/ Execute \/ ExecuteFails \/ Exit
  BY <1>4, StartFailsStep, WriteSetupStep, ExecuteStep, ExecuteFailsStep, ExitStep
<1>5. CASE DiesOfSigterm
  BY <1>5, SigtermStep
<1>6. CASE UNCHANGED vars
  <2> USE <1>6 DEF vars
  <2>1. Shape' /\ SessionsAreWatched' /\ SessionsAreRecorded'
    BY DEF IInv, Shape, SessionsAreWatched, SessionsAreRecorded, ChildAlive
  <2>2. OutputIsTrue' /\ ProgressIsWritten'
    BY DEF IInv, OutputIsTrue, ProgressIsWritten, Current, ChildAlive, Output
  <2>3. OkMeansAllRan' /\ NothingIsFabricated'
    BY DEF IInv, OkMeansAllRan, NothingIsFabricated
  <2> QED
    BY <2>1, <2>2, <2>3 DEF IInv
<1> QED
  BY <1>1, <1>2, <1>3, <1>4, <1>5, <1>6 DEF Next, Child

LEMMA Invariance == Spec => []IInv
BY InitIInv, NextIInv, PTL DEF Spec

\* A configuration that is reported ok has computed the expected hash for
\* every request, and every one of them is recorded, for any number of
\* configurations and requests (_setup_from_session).
THEOREM OkRunsAreComplete == Spec => []OkMeansAllRan
<1>1. IInv => OkMeansAllRan
  BY DEF IInv
<1> QED
  BY <1>1, Invariance, PTL

\* No record claims a result that its session did not compute at that place,
\* wherever its output is cut and its process is killed (_request_from_session).
THEOREM ResultsAreGenuine == Spec => []NothingIsFabricated
<1>1. IInv => NothingIsFabricated
  BY DEF IInv
<1> QED
  BY <1>1, Invariance, PTL

\* However a session ends, the schema accepts what is recorded of it, so that
\* no configuration takes the records of the others with it (run_matrix).
THEOREM RecordsAreAccepted == Spec => []NeverAborts
<1>1. IInv => NeverAborts
  BY DEF IInv, Shape, Running, NeverAborts
<1> QED
  BY <1>1, Invariance, PTL

\* A session starts only once the one before is over (run_monitored).
THEOREM SessionsAreAlone == Spec => []OneSessionAtATime
<1>1. IInv => OneSessionAtATime
  BY DEF IInv, SessionsAreWatched, OneSessionAtATime
<1> QED
  BY <1>1, Invariance, PTL

-----------------------------------------------------------------------------
(* The records of a finished matrix.                                       *)

RecordsAreComplete ==
  \A c \in DOMAIN setups :
    /\ setups[c].config = c
    /\ setups[c].verdict.status = "ok" =>
         setups[c].code = 0 /\ RequestsOfConfig(c) = GoodRequests(c)

FilesAreComplete ==
  /\ phase \in {"write", "done"} => Len(setups) = Len(Matrix)
  /\ phase = "done" => bundle.files = FilesWritten(Len(Files))

LEMMA RecordsStayComplete ==
  ASSUME IInv, RecordsAreComplete, FilesAreComplete, [Next]_vars
  PROVE  RecordsAreComplete' /\ FilesAreComplete'
<1>0. bundle = [used |-> bundle.used, files |-> bundle.files]
  BY Zenon DEF IInv, Shape
<1>1. CASE Record
  <2>1. phase = "record" /\ UNCHANGED bundle
    BY <1>1 DEF Record
  <2>2. RecordsAreValid
    BY <2>1, SetupIsRecorded, RequestsAreRecorded DEF RecordsAreValid
  <2>3. /\ setups' = Append(setups, SetupRecord)
        /\ requests' = requests \cup RequestRecords
        /\ \/ phase' = "write" /\ config = Len(Matrix) /\ config' = config
           \/ phase' = "launch" /\ config # Len(Matrix) /\ config' = config + 1
    BY <1>1, <2>2 DEF Record
  <2>4. /\ setups \in Seq(Records) /\ Len(setups) = config - 1 /\ config \in Nat
        /\ DOMAIN setups = 1 .. config - 1
        /\ \A r \in requests : r.config \in 1 .. config - 1
    BY <2>1, LenProperties, MatrixShape DEF IInv, Shape, SessionsAreRecorded, Monitoring
  <2>5. /\ Len(setups') = config /\ DOMAIN setups' = 1 .. config
        /\ \A c \in 1 .. config - 1 : setups'[c] = setups[c]
        /\ setups'[config] = SetupRecord
    BY <2>1, <2>3, <2>4, SetupIsRecorded, AppendProperties, LenProperties
  <2>6. FilesAreComplete'
    BY <2>3, <2>5 DEF FilesAreComplete
  <2>7. ASSUME NEW c \in DOMAIN setups'
        PROVE  /\ setups'[c].config = c
               /\ setups'[c].verdict.status = "ok" =>
                    setups'[c].code = 0 /\ RequestsOfConfig(c)' = GoodRequests(c)
    <3>1. CASE c = config
      <4>1. SetupRecord.config = config /\ SetupRecord.code = child.code
        BY DEF SetupRecord
      <4>2. RequestsOfConfig(c)' = RequestRecords
        BY <2>1, <2>3, <2>4, <3>1, RequestsAreRecorded DEF RequestsOfConfig
      <4>3. SetupRecord.verdict.status = "ok" =>
              SessionIsKept /\ child.code = 0 /\ Complete(stdout.log)
        BY <2>1, SetupIsRecorded
      <4>4. SetupRecord.verdict.status = "ok" => RequestRecords = GoodRequests(config)
        BY <2>1, <4>3, GoodSessionIsRecorded
      <4> QED
        BY <2>5, <3>1, <4>1, <4>2, <4>3, <4>4
    <3>2. CASE c # config
      <4>1. c \in 1 .. config - 1 /\ c \in DOMAIN setups /\ setups'[c] = setups[c]
        BY <2>4, <2>5, <3>2
      <4>2. RequestsOfConfig(c)' = RequestsOfConfig(c)
        BY <2>1, <2>3, <3>2, RequestsAreRecorded DEF RequestsOfConfig
      <4> QED
        BY <4>1, <4>2 DEF RecordsAreComplete
    <3> QED
      BY <3>1, <3>2
  <2>8. RecordsAreComplete'
    BY <2>7 DEF RecordsAreComplete, GoodRequests, GoodRequest
  <2> QED
    BY <2>6, <2>8
<1>2. CASE Start
  <2>1. CASE bundle.used
    <3>1. phase' = "refused" /\ UNCHANGED <<setups, requests>>
      BY <1>2, <2>1 DEF Start, OutputIsFresh
    <3> QED
      BY <3>1 DEF RecordsAreComplete, FilesAreComplete, RequestsOfConfig, GoodRequests, GoodRequest
  <2>2. CASE ~bundle.used
    <3>1. phase' = "launch" /\ setups' = <<>>
      BY <1>2, <2>2 DEF Start, OutputIsFresh
    <3> QED
      BY <3>1, EmptySeq DEF RecordsAreComplete, FilesAreComplete
  <2> QED
    BY <2>1, <2>2
<1>3. CASE WriteCsv
  <2>1. /\ phase = "write" /\ phase' = "done" /\ UNCHANGED <<setups, requests>>
        /\ bundle' = [bundle EXCEPT !.files = FilesWritten(Len(Files))]
    BY <1>3 DEF WriteCsv
  <2>2. bundle'.files = FilesWritten(Len(Files))
    BY <1>0, <2>1
  <2>3. FilesWritten(Len(Files))' = FilesWritten(Len(Files))
    BY <2>1 DEF FilesWritten
  <2> QED
    BY <2>1, <2>2, <2>3
       DEF RecordsAreComplete, FilesAreComplete, RequestsOfConfig, GoodRequests, GoodRequest
<1>4. CASE Launch \/ Poll \/ CheckClock \/ Terminate \/ TimePasses \/ Child \/ Interrupt
           \/ UNCHANGED vars
  <2>1. /\ UNCHANGED <<setups, requests>>
        /\ \/ phase' \notin {"write", "done"}
           \/ phase' = phase /\ UNCHANGED bundle
    <3>1. CASE Launch \/ Poll \/ CheckClock \/ Terminate \/ TimePasses \/ Interrupt
               \/ UNCHANGED vars
      BY <3>1 DEF Launch, Poll, CheckClock, Terminate, TimePasses, Interrupt, vars
    <3>2. CASE Child
      BY <3>2 DEF Child, StartFails, WriteSetup, Execute, ExecuteFails, Exit, DiesOfSigterm
    <3> QED
      BY <1>4, <3>1, <3>2
  <2>2. FilesWritten(Len(Files))' = FilesWritten(Len(Files))
    BY <2>1 DEF FilesWritten
  <2> QED
    BY <2>1, <2>2
       DEF RecordsAreComplete, FilesAreComplete, RequestsOfConfig, GoodRequests, GoodRequest
<1> QED
  BY <1>1, <1>2, <1>3, <1>4 DEF Next, Runner

RInv == IInv /\ RecordsAreComplete /\ FilesAreComplete

LEMMA ResultsInvariance == ResultsSpec => []RInv
<1>1. ResultsInit => RInv
  <2>1. Init => RecordsAreComplete /\ FilesAreComplete
    BY EmptySeq DEF Init, RecordsAreComplete, FilesAreComplete
  <2> QED
    BY <2>1, InitIInv DEF ResultsInit, RInv
<1>2. RInv /\ [Run(Next)]_resultsVars => RInv'
  <2>1. [Run(Next)]_resultsVars => [Next]_vars
    BY DEF Run, resultsVars
  <2> QED
    BY <2>1, NextIInv, RecordsStayComplete DEF RInv
<1> QED
  BY <1>1, <1>2, PTL DEF ResultsSpec

-----------------------------------------------------------------------------
(* The judges of the records, on matrices whose sessions all went well.    *)

LEMMA SameCardinality == \A S : Checks!Cardinality(S) = Cardinality(S)
BY Zenon DEF Checks!Cardinality, Cardinality

\* n records that carry the numbers from 0 on are numbered.
LEMMA RecordsAreNumbered ==
  ASSUME NEW n \in Nat, NEW rec, DOMAIN rec = 0 .. n - 1,
         NEW number, DOMAIN number = {rec[i] : i \in 0 .. n - 1},
         \A i \in 0 .. n - 1 : number[rec[i]] = i
  PROVE  Checks!Numbered(number, n)
<1> DEFINE S == DOMAIN number
           T == 0 .. n - 1
<1>1. IsFiniteSet(T) /\ Cardinality(T) = n
  BY FS_Interval
<1>2. \A s \in S : number[s] \in T /\ s = rec[number[s]]
  OBVIOUS
<1>3. \A i \in T : rec[i] \in S /\ number[rec[i]] = i
  OBVIOUS
<1> DEFINE f == [i \in T |-> rec[i]]
<1> HIDE DEF S, T
<1>4. f \in Bijection(T, S)
  BY <1>2, <1>3 DEF Bijection, Injection, Surjection, IsInjective
<1>5. ExistsBijection(T, S)
  BY <1>4 DEF ExistsBijection
<1>6. Cardinality(S) = n
  BY <1>1, <1>5, FS_Bijection
<1>7. Range(number) = T
  BY <1>2, <1>3 DEF Range, S
<1> QED
  BY <1>6, <1>7, SameCardinality DEF Checks!Numbered, Checks!Range, Range, S, T

LEMMA ConfigsOfMatrix ==
  /\ DOMAIN Configs = DOMAIN Matrix
  /\ DOMAIN Configs = 1 .. Len(Matrix) /\ DOMAIN Configs # {}
  /\ Checks!Configurations(MatrixFile) = Configs
<1>1. Checks!Configurations(MatrixFile) = Configs
  BY DEF Configs
<1>2. DOMAIN Configs = DOMAIN Matrix
  <2>1. Matrix = [c \in DOMAIN Configs |-> Configs[c].runner]
    BY MatrixIsOfFile, Zenon
  <2> QED
    BY <2>1
<1>3. DOMAIN Matrix = 1 .. Len(Matrix) /\ 1 \in DOMAIN Matrix
  BY MatrixShape
<1> QED
  BY <1>1, <1>2, <1>3

\* What a judge reads of request i of a session that went well.
Bearing(c, i) == JudgedRequest(GoodRequest(c, i))
Judge(c) == JudgedSetup(setups[c])
Good == \A c \in DOMAIN setups : setups[c].verdict.status = "ok"

LEMMA FilesAreJudged ==
  ASSUME RInv, phase = "done"
  PROVE  /\ DOMAIN setups = DOMAIN Configs
         /\ Judged = [setups |-> [c \in DOMAIN Configs |-> Judge(c)],
                      warmups |-> {JudgedRequest(r) : r \in {q \in requests : q.warmup}},
                      measured |-> {JudgedRequest(r) : r \in {q \in requests : ~q.warmup}},
                      logs |-> UNION {Checks!LogPaths(Configs[c]) : c \in DOMAIN Configs}]
<1>1. DOMAIN setups = DOMAIN Configs
  <2>1. setups \in Seq(Records) /\ Len(setups) = Len(Matrix)
    BY DEF RInv, IInv, Shape, FilesAreComplete
  <2> QED
    BY <2>1, ConfigsOfMatrix, LenProperties
<1> DEFINE files == bundle.files
           At(name) == CHOOSE i \in DOMAIN files : files[i].name = name
<1>2. files = FilesWritten(4)
  BY DEF RInv, FilesAreComplete, Files
<1>3. /\ DOMAIN files = {1, 2, 3, 4}
      /\ files[1].name = "setup.csv" /\ files[2].name = "setups.csv"
      /\ files[3].name = "warmups.csv" /\ files[4].name = "raw.csv"
  BY <1>2 DEF FilesWritten, Files
<1>4. /\ files[2].setups = setups
      /\ files[3].requests = {q \in requests : q.warmup}
      /\ files[4].requests = {q \in requests : ~q.warmup}
  BY <1>2 DEF FilesWritten, Files
<1> HIDE DEF files
<1>5. At("setups.csv") = 2 /\ At("warmups.csv") = 3 /\ At("raw.csv") = 4
  BY <1>3
<1>6. /\ File("setups.csv").setups = setups
      /\ File("warmups.csv").requests = {q \in requests : q.warmup}
      /\ File("raw.csv").requests = {q \in requests : ~q.warmup}
  BY <1>4, <1>5 DEF File, files
<1> QED
  BY <1>1, <1>6 DEF Judged, Judge

LEMMA SetupFields ==
  ASSUME RInv, phase = "done", NEW c \in DOMAIN Configs
  PROVE  /\ Judge(c).config_id = Configs[c].config_id /\ Judge(c).session_id = c
         /\ Judge(c).about = Checks!About(MatrixFile) /\ Judge(c).engine = Configs[c].engine
         /\ Judge(c).threads = Configs[c].threads
         /\ Judge(c).ratio_mode = Configs[c].ratio_mode
         /\ Judge(c).cpu_ratio = Configs[c].cpu_ratio
         /\ Judge(c).status = setups[c].verdict.status
         /\ Judge(c).status = "ok" => Judge(c).return_code = 0
<1>1. setups[c].config = c /\ (setups[c].verdict.status = "ok" => setups[c].code = 0)
  BY FilesAreJudged DEF RInv, RecordsAreComplete
<1> QED
  BY <1>1 DEF Judge, JudgedSetup

LEMMA BearingFields ==
  ASSUME RInv, phase = "done", Good, NEW c \in DOMAIN Configs, NEW i \in 0 .. Count - 1
  PROVE  LET r == Bearing(c, i) IN
         /\ r.config_id = Configs[c].config_id /\ r.session_id = c
         /\ r.about = Checks!About(MatrixFile) /\ r.engine = Configs[c].engine
         /\ r.threads = Configs[c].threads /\ r.ratio_mode = Configs[c].ratio_mode
         /\ r.cpu_ratio = Configs[c].cpu_ratio
         /\ r.request_index = i
         /\ r.sample_index = (IF i < Warmup THEN i ELSE i - Warmup)
         /\ r.is_warmup = (i < Warmup)
         /\ r.status = "ok" /\ r.return_code = 0 /\ r.result_hash = ExpectedHash
<1>1. setups[c].code = 0
  BY FilesAreJudged DEF RInv, RecordsAreComplete, Good
<1> QED
  BY <1>1 DEF Bearing, JudgedRequest, GoodRequest

Warmups(c) == {Bearing(c, i) : i \in 0 .. Warmup - 1}
Samples(c) == {Bearing(c, Warmup + i) : i \in 0 .. Repeat - 1}

LEMMA GoodRecords ==
  ASSUME RInv, phase = "done", Good
  PROVE  /\ Judged.warmups = UNION {Warmups(c) : c \in DOMAIN Configs}
         /\ Judged.measured = UNION {Samples(c) : c \in DOMAIN Configs}
         /\ \A c \in DOMAIN Configs :
              Warmups(c) \cup Samples(c) = {Bearing(c, i) : i \in 0 .. Count - 1}
<1>1. requests = {GoodRequest(c, i) : c \in DOMAIN Configs, i \in 0 .. Count - 1}
  <2>1. \A c \in DOMAIN Configs : RequestsOfConfig(c) = GoodRequests(c)
    BY FilesAreJudged DEF RInv, RecordsAreComplete, Good
  <2>2. \A r \in requests : r.config \in DOMAIN Configs
    BY FilesAreJudged DEF RInv, IInv, SessionsAreRecorded
  <2>3. \A r \in requests : r \in RequestsOfConfig(r.config)
    BY DEF RequestsOfConfig
  <2>4. \A c \in DOMAIN Configs : GoodRequests(c) \subseteq requests
    BY <2>1 DEF RequestsOfConfig
  <2> QED
    BY <2>1, <2>2, <2>3, <2>4 DEF GoodRequests
<1>2. /\ Warmup \in Nat /\ Repeat \in Nat /\ Count = Warmup + Repeat
      /\ \A i \in 0 .. Warmup - 1 : i \in 0 .. Count - 1 /\ i < Warmup
      /\ \A i \in 0 .. Repeat - 1 : Warmup + i \in 0 .. Count - 1 /\ ~(Warmup + i < Warmup)
      /\ \A i \in 0 .. Count - 1 :
           IF i < Warmup THEN i \in 0 .. Warmup - 1
           ELSE i - Warmup \in 0 .. Repeat - 1 /\ Warmup + (i - Warmup) = i
  BY CountsAreValid DEF Count
<1>3. \A c, i : /\ i < Warmup => GoodRequest(c, i).warmup
                /\ ~(i < Warmup) => ~GoodRequest(c, i).warmup
  BY DEF GoodRequest
<1> HIDE DEF GoodRequest
<1>4. {q \in requests : q.warmup}
        = {GoodRequest(c, i) : c \in DOMAIN Configs, i \in 0 .. Warmup - 1}
  <2>1. ASSUME NEW q \in requests, q.warmup
        PROVE  \E c \in DOMAIN Configs, i \in 0 .. Warmup - 1 : q = GoodRequest(c, i)
    <3>1. PICK c \in DOMAIN Configs, i \in 0 .. Count - 1 : q = GoodRequest(c, i)
      BY <1>1
    <3>2. i < Warmup
      BY <1>3, <2>1, <3>1
    <3> QED
      BY <1>2, <3>1, <3>2
  <2>2. ASSUME NEW c \in DOMAIN Configs, NEW i \in 0 .. Warmup - 1
        PROVE  GoodRequest(c, i) \in requests /\ GoodRequest(c, i).warmup
    <3>1. GoodRequest(c, i) \in requests
      BY <1>1, <1>2
    <3> QED
      <4>1. GoodRequest(c, i).warmup
        BY <1>2, <1>3, Zenon
      <4> QED
        BY <3>1, <4>1
  <2> QED
    BY <2>1, <2>2
<1>5. {q \in requests : ~q.warmup}
        = {GoodRequest(c, Warmup + i) : c \in DOMAIN Configs, i \in 0 .. Repeat - 1}
  <2>1. ASSUME NEW q \in requests, ~q.warmup
        PROVE  \E c \in DOMAIN Configs, i \in 0 .. Repeat - 1 : q = GoodRequest(c, Warmup + i)
    <3>1. PICK c \in DOMAIN Configs, i \in 0 .. Count - 1 : q = GoodRequest(c, i)
      BY <1>1
    <3>2. ~(i < Warmup)
      BY <1>3, <2>1, <3>1, Zenon
    <3> QED
      BY <1>2, <3>1, <3>2
  <2>2. ASSUME NEW c \in DOMAIN Configs, NEW i \in 0 .. Repeat - 1
        PROVE  GoodRequest(c, Warmup + i) \in requests /\ ~GoodRequest(c, Warmup + i).warmup
    <3>1. GoodRequest(c, Warmup + i) \in requests
      BY <1>1, <1>2
    <3> QED
      BY <1>2, <1>3, <3>1
  <2> QED
    BY <2>1, <2>2
<1>6. /\ Judged.warmups = {JudgedRequest(r) : r \in {q \in requests : q.warmup}}
      /\ Judged.measured = {JudgedRequest(r) : r \in {q \in requests : ~q.warmup}}
  BY FilesAreJudged
<1>7. Judged.warmups = UNION {Warmups(c) : c \in DOMAIN Configs}
  BY <1>4, <1>6 DEF Warmups, Bearing
<1>8. Judged.measured = UNION {Samples(c) : c \in DOMAIN Configs}
  BY <1>5, <1>6 DEF Samples, Bearing
<1>9. ASSUME NEW c \in DOMAIN Configs
      PROVE  Warmups(c) \cup Samples(c) = {Bearing(c, i) : i \in 0 .. Count - 1}
  BY <1>2 DEF Warmups, Samples
<1> QED
  BY <1>7, <1>8, <1>9

LEMMA SessionsAreNumbered ==
  ASSUME RInv, phase = "done", Good, NEW c \in DOMAIN Configs
  PROVE  /\ Checks!Numbered(Checks!Samples(Warmups(c)), Warmup)
         /\ Checks!Numbered(Checks!Samples(Samples(c)), Repeat)
         /\ Checks!Numbered(Checks!Requests(Warmups(c) \cup Samples(c)), Warmup + Repeat)
<1>1. /\ Warmup \in Nat /\ Repeat \in Nat /\ Count = Warmup + Repeat
      /\ \A i \in 0 .. Warmup - 1 : i \in 0 .. Count - 1 /\ i < Warmup
      /\ \A i \in 0 .. Repeat - 1 : Warmup + i \in 0 .. Count - 1 /\ ~(Warmup + i < Warmup)
                                    /\ (Warmup + i) - Warmup = i
  BY CountsAreValid DEF Count
<1>2. \A i \in 0 .. Count - 1 :
        /\ Bearing(c, i).request_index = i
        /\ Bearing(c, i).sample_index = (IF i < Warmup THEN i ELSE i - Warmup)
  BY BearingFields
<1>3. Checks!Numbered(Checks!Samples(Warmups(c)), Warmup)
  <2> DEFINE rec == [i \in 0 .. Warmup - 1 |-> Bearing(c, i)]
             number == Checks!Samples(Warmups(c))
  <2>1. DOMAIN number = {rec[i] : i \in 0 .. Warmup - 1}
    BY DEF Checks!Samples, Warmups
  <2>2. \A i \in 0 .. Warmup - 1 : number[rec[i]] = i
    <3>1. \A i \in 0 .. Warmup - 1 : rec[i] \in Warmups(c) /\ rec[i] = Bearing(c, i)
      BY DEF Warmups
    <3>2. \A r \in Warmups(c) : number[r] = r.sample_index
      BY DEF Checks!Samples
    <3> HIDE DEF rec, number
    <3> QED
      BY <1>1, <1>2, <3>1, <3>2
  <2>3. DOMAIN rec = 0 .. Warmup - 1
    OBVIOUS
  <2> HIDE DEF rec, number
  <2>4. Checks!Numbered(number, Warmup)
    BY <1>1, <2>1, <2>2, <2>3, RecordsAreNumbered
  <2> QED
    BY <2>4 DEF number
<1>4. Checks!Numbered(Checks!Samples(Samples(c)), Repeat)
  <2> DEFINE rec == [i \in 0 .. Repeat - 1 |-> Bearing(c, Warmup + i)]
             number == Checks!Samples(Samples(c))
  <2>1. DOMAIN number = {rec[i] : i \in 0 .. Repeat - 1}
    BY DEF Checks!Samples, Samples
  <2>2. \A i \in 0 .. Repeat - 1 : number[rec[i]] = i
    <3>1. \A i \in 0 .. Repeat - 1 : rec[i] \in Samples(c) /\ rec[i] = Bearing(c, Warmup + i)
      BY DEF Samples
    <3>2. \A r \in Samples(c) : number[r] = r.sample_index
      BY DEF Checks!Samples
    <3> HIDE DEF rec, number
    <3> QED
      BY <1>1, <1>2, <3>1, <3>2
  <2>3. DOMAIN rec = 0 .. Repeat - 1
    OBVIOUS
  <2> HIDE DEF rec, number
  <2>4. Checks!Numbered(number, Repeat)
    BY <1>1, <2>1, <2>2, <2>3, RecordsAreNumbered
  <2> QED
    BY <2>4 DEF number
<1>5. Checks!Numbered(Checks!Requests(Warmups(c) \cup Samples(c)), Warmup + Repeat)
  <2> DEFINE rec == [i \in 0 .. Count - 1 |-> Bearing(c, i)]
             all == Warmups(c) \cup Samples(c)
             number == Checks!Requests(all)
  <2>0. all = {Bearing(c, i) : i \in 0 .. Count - 1}
    BY GoodRecords
  <2> HIDE DEF all
  <2>1. DOMAIN number = {rec[i] : i \in 0 .. Count - 1}
    BY <2>0 DEF Checks!Requests
  <2>2. \A i \in 0 .. Count - 1 : number[rec[i]] = i
    <3>1. \A i \in 0 .. Count - 1 : rec[i] \in all /\ rec[i] = Bearing(c, i)
      BY <2>0
    <3>2. \A r \in all : number[r] = r.request_index
      BY DEF Checks!Requests
    <3> HIDE DEF rec, number
    <3> QED
      BY <1>2, <3>1, <3>2
  <2>3. DOMAIN rec = 0 .. Count - 1
    OBVIOUS
  <2> HIDE DEF rec, number
  <2>4. Checks!Numbered(number, Count)
    BY <2>1, <2>2, <2>3, CountIsPositive, RecordsAreNumbered
  <2> QED
    BY <1>1, <2>4 DEF number, all
<1> QED
  BY <1>3, <1>4, <1>5

\* Ids and engines tell the configurations apart.
LEMMA IdsAreOne ==
  \A c, d \in DOMAIN Configs :
    Configs[c].config_id = Configs[d].config_id \/ Configs[c].engine = Configs[d].engine => c = d
BY ConfigsDiffer

LEMMA RecordsOfOne ==
  ASSUME RInv, phase = "done", Good, NEW c \in DOMAIN Configs
  PROVE  /\ Checks!Of(Judged.warmups, Configs[c].config_id) = Warmups(c)
         /\ Checks!Of(Judged.measured, Configs[c].config_id) = Samples(c)
         /\ Checks!InSession(Judged.warmups, Judge(c)) = Warmups(c)
         /\ Checks!InSession(Judged.measured, Judge(c)) = Samples(c)
<1>1. \A d \in DOMAIN Configs : \A r \in Warmups(d) \cup Samples(d) :
        r.config_id = Configs[d].config_id /\ r.session_id = d
  BY GoodRecords, BearingFields
<1>2. /\ Judged.warmups = UNION {Warmups(d) : d \in DOMAIN Configs}
      /\ Judged.measured = UNION {Samples(d) : d \in DOMAIN Configs}
  BY GoodRecords
<1>3. Judge(c).session_id = c
  BY SetupFields
<1>4. \A d \in DOMAIN Configs : Configs[d].config_id = Configs[c].config_id => d = c
  BY IdsAreOne
<1> QED
  BY <1>1, <1>2, <1>3, <1>4 DEF Checks!Of, Checks!InSession

LEMMA RecordsAgree ==
  ASSUME RInv, phase = "done", Good, NEW r \in Judged.warmups \cup Judged.measured
  PROVE  \E c \in DOMAIN Configs, i \in 0 .. Count - 1 :
           r = Bearing(c, i) /\ r \in Warmups(c) \cup Samples(c)
BY GoodRecords

LEMMA ProtocolIsOfRun ==
  /\ MatrixFile["protocol"].warmup = Warmup /\ MatrixFile["protocol"].repeat = Repeat
  /\ Checks!HashOf(MatrixFile) = ExpectedHash
BY MatrixIsOfFile DEF Checks!HashOf

LEMMA SessionIsCovered ==
  ASSUME RInv, phase = "done", Good, NEW c \in DOMAIN Configs
  PROVE  Checks!CoversConfiguration(Configs[c], Judge(c), Warmups(c), Samples(c), MatrixFile)
<1>1. Checks!ConfigMatchesSetup(Configs[c], Judge(c))
  BY SetupFields DEF Checks!ConfigMatchesSetup
<1>2. Judge(c).status = "ok" /\ Judge(c).return_code = 0
      /\ Judge(c).about = Checks!About(MatrixFile)
  BY SetupFields, FilesAreJudged DEF Good
<1>3. \A r \in Warmups(c) \cup Samples(c) :
        (r.is_warmup <=> r \in Warmups(c)) /\ Checks!RequestFits(r, Judge(c), MatrixFile)
  <2> SUFFICES ASSUME NEW r \in Warmups(c) \cup Samples(c)
               PROVE  (r.is_warmup <=> r \in Warmups(c))
                      /\ Checks!RequestFits(r, Judge(c), MatrixFile)
    OBVIOUS
  <2>1. PICK i \in 0 .. Count - 1 : r = Bearing(c, i)
    BY GoodRecords
  <2>2. Configs[c].ratio_mode = "fixed"
    BY MatrixIsOfFile
  <2>3. Checks!RequestFits(r, Judge(c), MatrixFile)
    BY <2>1, <2>2, SetupFields, BearingFields, ProtocolIsOfRun DEF Checks!RequestFits
  <2>4. CASE i < Warmup
    <3>1. i \in 0 .. Warmup - 1
      BY <2>4, CountsAreValid
    <3>2. r \in Warmups(c)
      BY <2>1, <3>1 DEF Warmups
    <3>3. r.is_warmup
      BY <2>1, <2>4, BearingFields
    <3> QED
      BY <2>3, <3>2, <3>3
  <2>5. CASE ~(i < Warmup)
    <3>1. ~r.is_warmup
      BY <2>1, <2>5, BearingFields
    <3>2. ASSUME r \in Warmups(c) PROVE FALSE
      <4>1. PICK j \in 0 .. Warmup - 1 : r = Bearing(c, j)
        BY <3>2 DEF Warmups
      <4>2. j \in 0 .. Count - 1 /\ j < Warmup
        BY CountsAreValid DEF Count
      <4>3. Bearing(c, i).request_index = i /\ Bearing(c, j).request_index = j
        BY <4>2, BearingFields
      <4> QED
        BY <2>1, <2>5, <4>1, <4>2, <4>3
    <3> QED
      BY <2>3, <3>1, <3>2
  <2> QED
    BY <2>4, <2>5
<1>4. /\ Checks!Numbered(Checks!Samples(Warmups(c)), MatrixFile["protocol"].warmup)
      /\ Checks!Numbered(Checks!Samples(Samples(c)), MatrixFile["protocol"].repeat)
      /\ Checks!Numbered(Checks!Requests(Warmups(c) \cup Samples(c)),
                         MatrixFile["protocol"].warmup + MatrixFile["protocol"].repeat)
  BY SessionsAreNumbered, ProtocolIsOfRun
<1> QED
  BY <1>1, <1>2, <1>3, <1>4 DEF Checks!CoversConfiguration

LEMMA GoodIsCovered ==
  ASSUME RInv, phase = "done", Good
  PROVE  Checks!Coverage(MatrixFile, Judged)
<1> DEFINE all == Judged.setups
           Found(id) == all[CHOOSE i \in DOMAIN all : all[i].config_id = id]
<1>1. all = [c \in DOMAIN Configs |-> Judge(c)] /\ DOMAIN all = DOMAIN Configs
      /\ Judged.logs = UNION {Checks!LogPaths(Configs[c]) : c \in DOMAIN Configs}
  BY FilesAreJudged
<1>2. \A c \in DOMAIN Configs : /\ all[c] = Judge(c) /\ all[c].config_id = Configs[c].config_id
                                /\ all[c].session_id = c
  BY <1>1, SetupFields
<1>3. \A c \in DOMAIN Configs : Found(Configs[c].config_id) = Judge(c)
  <2> HIDE DEF all
  <2> QED
    BY <1>1, <1>2, IdsAreOne
<1> HIDE DEF all
<1>4. \A i, j \in DOMAIN all : i # j => /\ all[i].config_id # all[j].config_id
                                        /\ all[i].session_id # all[j].session_id
  BY <1>1, <1>2, IdsAreOne
<1>5. {all[i].config_id : i \in DOMAIN all} = {Configs[i].config_id : i \in DOMAIN Configs}
  BY <1>1, <1>2
<1>6. \A r \in Judged.warmups \cup Judged.measured :
        r.config_id \in {Configs[i].config_id : i \in DOMAIN Configs}
  <2> SUFFICES ASSUME NEW r \in Judged.warmups \cup Judged.measured
               PROVE  r.config_id \in {Configs[i].config_id : i \in DOMAIN Configs}
    OBVIOUS
  <2>1. PICK c \in DOMAIN Configs, i \in 0 .. Count - 1 : r = Bearing(c, i)
    BY RecordsAgree
  <2> QED
    BY <2>1, BearingFields
<1>7. \A c \in DOMAIN Configs :
        Checks!CoversConfiguration(Configs[c], Found(Configs[c].config_id),
          Checks!Of(Judged.warmups, Configs[c].config_id),
          Checks!Of(Judged.measured, Configs[c].config_id), MatrixFile)
  BY <1>3, RecordsOfOne, SessionIsCovered
<1>8. \A i \in DOMAIN Configs : Checks!LogPaths(Configs[i]) \subseteq Judged.logs
  BY <1>1
<1>9. Checks!Configurations(MatrixFile) = Configs
  BY ConfigsOfMatrix
<1> QED
  BY <1>4, <1>5, <1>6, <1>7, <1>8, <1>9 DEF Checks!Coverage, all

LEMMA GoodIsReported ==
  ASSUME RInv, phase = "done", Good
  PROVE  /\ Checks!MaterializesReport(MatrixFile, Judged, Oracle)
         /\ Checks!CorrectnessFits(Checks!CorrectnessReport(MatrixFile, Judged, Oracle), MatrixFile)
<1> DEFINE all == Judged.warmups \cup Judged.measured
           report == Checks!CorrectnessReport(MatrixFile, Judged, Oracle)
           wrong(b) == {r \in all : r.result_hash # Oracle.rows_hash /\
                          \E i \in DOMAIN Configs : Configs[i].config_id = r.config_id
                                                   /\ Configs[i].correctness_backend = b}
<1>1. Oracle.result_hash = ExpectedHash /\ Oracle.rows_hash = ExpectedHash
  BY DEF Oracle
<1>2. \A r \in all : r.result_hash = ExpectedHash
  <2> SUFFICES ASSUME NEW r \in all PROVE r.result_hash = ExpectedHash
    OBVIOUS
  <2>1. PICK c \in DOMAIN Configs, i \in 0 .. Count - 1 : r = Bearing(c, i)
    BY RecordsAgree
  <2> QED
    BY <2>1, BearingFields
<1>3. all # {}
  <2>1. PICK c : c \in DOMAIN Configs
    BY ConfigsOfMatrix
  <2>2. 0 \in 0 .. Repeat - 1
    BY CountsAreValid
  <2>3. Bearing(c, Warmup + 0) \in Samples(c)
    BY <2>2 DEF Samples
  <2> QED
    BY <2>1, <2>3, GoodRecords
<1>4. report = [expected_hash |-> ExpectedHash,
                observed_hashes |-> {r.result_hash : r \in all},
                backends |-> [b \in Checks!Backends(MatrixFile) |->
                                IF wrong(b) = {} THEN "passed" ELSE "failed"]]
  BY ConfigsOfMatrix, ProtocolIsOfRun DEF Checks!CorrectnessReport
<1>5. \A b : wrong(b) = {}
  BY <1>1, <1>2
<1> HIDE DEF all, wrong
<1>6. {r.result_hash : r \in all} = {ExpectedHash}
  BY <1>2, <1>3
<1>7. Checks!CorrectnessFits(report, MatrixFile)
  <2>1. /\ report.expected_hash = ExpectedHash /\ report.observed_hashes = {ExpectedHash}
        /\ report.backends = [b \in Checks!Backends(MatrixFile) |-> "passed"]
    BY <1>4, <1>5, <1>6
  <2> HIDE DEF report
  <2> QED
    BY <2>1, ProtocolIsOfRun DEF Checks!CorrectnessFits
<1>8. Checks!OracleIsExact(Oracle, Checks!HashOf(MatrixFile))
  BY <1>1, ProtocolIsOfRun DEF Checks!OracleIsExact
<1> QED
  BY <1>7, <1>8, GoodIsCovered DEF Checks!MaterializesReport

LEMMA SessionsAreAudited ==
  ASSUME RInv, phase = "done", Good
  PROVE  Checks!AuditsInputs(Judged, MatrixFile["protocol"])
<1>1. Judged.setups = [c \in DOMAIN Configs |-> Judge(c)]
  BY FilesAreJudged
<1>2. \A c \in DOMAIN Configs : Judge(c).session_id = c
  BY SetupFields
<1>3. \A r \in Judged.warmups \cup Judged.measured :
        \E c \in DOMAIN Configs : Judge(c).session_id = r.session_id
  <2> SUFFICES ASSUME NEW r \in Judged.warmups \cup Judged.measured
               PROVE  \E c \in DOMAIN Configs : Judge(c).session_id = r.session_id
    OBVIOUS
  <2>1. PICK c \in DOMAIN Configs, i \in 0 .. Count - 1 : r = Bearing(c, i)
    BY RecordsAgree
  <2>2. r.session_id = c
    BY <2>1, BearingFields
  <2> QED
    BY <1>2, <2>2
<1>4. ASSUME NEW c \in DOMAIN Configs
      PROVE  Checks!SessionIsStable(Judge(c), Checks!InSession(Judged.warmups, Judge(c)),
               Checks!InSession(Judged.measured, Judge(c)), MatrixFile["protocol"])
  <2>1. /\ Checks!InSession(Judged.warmups, Judge(c)) = Warmups(c)
        /\ Checks!InSession(Judged.measured, Judge(c)) = Samples(c)
    BY RecordsOfOne
  <2>2. Checks!CoversConfiguration(Configs[c], Judge(c), Warmups(c), Samples(c), MatrixFile)
    BY SessionIsCovered
  <2>3. \A r \in Warmups(c) \cup Samples(c) :
          /\ r.is_warmup <=> r \in Warmups(c)
          /\ r.status = "ok" /\ r.return_code = 0 /\ r.engine = Judge(c).engine
          /\ r.result_hash = Checks!HashOf(MatrixFile)
    BY <2>2 DEF Checks!CoversConfiguration, Checks!RequestFits
  <2>4. /\ Judge(c).status = "ok" /\ Judge(c).return_code = 0
        /\ Checks!Numbered(Checks!Samples(Warmups(c)), MatrixFile["protocol"].warmup)
        /\ Checks!Numbered(Checks!Samples(Samples(c)), MatrixFile["protocol"].repeat)
        /\ Checks!Numbered(Checks!Requests(Warmups(c) \cup Samples(c)),
                           MatrixFile["protocol"].warmup + MatrixFile["protocol"].repeat)
    BY <2>2 DEF Checks!CoversConfiguration
  <2>5. Checks!SessionIsStable(Judge(c), Warmups(c), Samples(c), MatrixFile["protocol"])
    BY <2>3, <2>4 DEF Checks!SessionIsStable
  <2> QED
    BY <2>1, <2>5
<1> QED
  BY <1>1, <1>2, <1>3, <1>4 DEF Checks!AuditsInputs

LEMMA GateFields ==
  /\ Gate.identity = Tail(Checks!About(MatrixFile)) /\ Gate.hybrid_auto = FALSE
  /\ Gate.manifest = MatrixFile["dataset"].manifest_sha256
  /\ Gate.required_backends = Checks!Backends(MatrixFile)
  /\ Checks!RequiredBackends(Gate) = Checks!Backends(MatrixFile)
BY DEF Gate, Checks!RequiredBackends

LEMMA GoodIsMaterialized ==
  ASSUME RInv, phase = "done", Good
  PROVE  Checks!Materializes(MatrixFile, Judged, Gate)
<1> DEFINE all == Judged.setups
<1>1. all = [c \in DOMAIN Configs |-> Judge(c)] /\ DOMAIN all = DOMAIN Configs
  BY FilesAreJudged
<1>2. \A c \in DOMAIN Configs :
        /\ all[c] = Judge(c) /\ all[c].config_id = Configs[c].config_id
        /\ all[c].session_id = c /\ all[c].engine = Configs[c].engine
        /\ all[c].about = Checks!About(MatrixFile)
        /\ Checks!ConfigMatchesSetup(Configs[c], all[c])
  BY <1>1, SetupFields DEF Checks!ConfigMatchesSetup
<1> HIDE DEF all
<1>3. {all[i].config_id : i \in DOMAIN all} = {Configs[i].config_id : i \in DOMAIN Configs}
  BY <1>1, <1>2
<1>4. \A r \in Judged.warmups \cup Judged.measured :
        /\ \E i \in DOMAIN all : all[i].session_id = r.session_id
                                 /\ all[i].config_id = r.config_id
        /\ r.result_hash = Checks!HashOf(MatrixFile)
  <2> SUFFICES ASSUME NEW r \in Judged.warmups \cup Judged.measured
               PROVE  /\ \E i \in DOMAIN all : all[i].session_id = r.session_id
                                               /\ all[i].config_id = r.config_id
                      /\ r.result_hash = Checks!HashOf(MatrixFile)
    OBVIOUS
  <2>1. PICK c \in DOMAIN Configs, i \in 0 .. Count - 1 : r = Bearing(c, i)
    BY RecordsAgree
  <2>2. /\ r.session_id = c /\ r.config_id = Configs[c].config_id
        /\ r.result_hash = ExpectedHash
    BY <2>1, BearingFields
  <2> QED
    BY <1>1, <1>2, <2>2, ProtocolIsOfRun
<1>5. \A i \in DOMAIN all : \A j \in DOMAIN Configs :
        Configs[j].config_id = all[i].config_id =>
          /\ all[i].about = Checks!About(MatrixFile)
          /\ Checks!ConfigMatchesSetup(Configs[j], all[i])
  BY <1>1, <1>2, IdsAreOne
<1>6. \A i, j \in DOMAIN all : i # j => all[i].engine # all[j].engine
  BY <1>1, <1>2, IdsAreOne
<1>7. Checks!BindsSource(MatrixFile, Judged, Gate)
  BY <1>3, <1>4, <1>5, <1>6, ConfigsOfMatrix, GateFields DEF Checks!BindsSource, all
<1> QED
  BY <1>7, SessionsAreAudited, GateFields DEF Checks!Materializes

LEMMA GoodPassesTheGate ==
  ASSUME RInv, phase = "done", Good
  PROVE  Checks!GatePasses(Checks!RunRecords(MatrixFile, Judged, Gate), Gate, Oracle)
<1> DEFINE records == Checks!RunRecords(MatrixFile, Judged, Gate)
           Passed(c) == [backend |-> Configs[c].correctness_backend, identity |-> Gate.identity,
                         status |-> "ok", return_code |-> 0, result_hash |-> ExpectedHash]
<1>1. Oracle.result_hash = ExpectedHash /\ Oracle.rows_hash = ExpectedHash
  BY DEF Oracle
<1>2. records = {Passed(c) : c \in DOMAIN Configs}
  <2> DEFINE First(c) == {q \in Checks!Of(Judged.measured, Configs[c].config_id) :
                            q.sample_index = 0}
             Written(c) == {[backend |-> Configs[c].correctness_backend,
                             identity |-> Gate.identity, status |-> "ok", return_code |-> 0,
                             result_hash |-> r.result_hash] : r \in First(c)}
  <2>1. records = UNION {Written(c) : c \in DOMAIN Configs}
    BY ConfigsOfMatrix DEF Checks!RunRecords
  <2>2. ASSUME NEW c \in DOMAIN Configs PROVE Written(c) = {Passed(c)}
    <3>1. First(c) = {q \in Samples(c) : q.sample_index = 0}
      BY RecordsOfOne
    <3>2. 0 \in 0 .. Repeat - 1 /\ Warmup + 0 \in 0 .. Count - 1 /\ (Warmup + 0) - Warmup = 0
          /\ ~(Warmup + 0 < Warmup)
      BY CountsAreValid DEF Count
    <3>3. Bearing(c, Warmup + 0) \in Samples(c)
      BY <3>2 DEF Samples
    <3>4. Bearing(c, Warmup + 0).sample_index = 0
      BY <3>2, BearingFields
    <3>5. \A r \in Samples(c) : r.result_hash = ExpectedHash
      BY GoodRecords, BearingFields
    <3> HIDE DEF First
    <3>6. First(c) # {} /\ \A r \in First(c) : r.result_hash = ExpectedHash
      BY <3>1, <3>3, <3>4, <3>5
    <3> QED
      BY <3>6
  <2> HIDE DEF Written, Passed, records
  <2> QED
    BY <2>1, <2>2
<1> HIDE DEF records
<1>3. Checks!Backends(MatrixFile) = {Configs[c].correctness_backend : c \in DOMAIN Configs}
  BY ConfigsOfMatrix DEF Checks!Backends
<1>4. \A r \in records : r.backend \in Checks!RequiredBackends(Gate) /\ r.status = "ok"
  BY <1>2, <1>3, GateFields
<1>5. ASSUME NEW b \in Checks!RequiredBackends(Gate)
      PROVE  Checks!CheckBackend(records, b, Gate, Oracle) = "passed"
  <2>1. PICK c \in DOMAIN Configs : b = Configs[c].correctness_backend
    BY <1>3, GateFields
  <2>2. /\ Passed(c) \in records /\ Passed(c).backend = b
        /\ Passed(c).identity = Gate.identity /\ Passed(c).status = "ok"
        /\ Passed(c).return_code = 0 /\ Passed(c).result_hash = Oracle.result_hash
    BY <1>1, <1>2, <2>1
  <2> HIDE DEF Passed
  <2>3. \A r \in records : r.status # "skipped_gpu"
    BY <1>4
  <2> QED
    BY <2>2, <2>3 DEF Checks!CheckBackend
<1>6. Checks!OracleIsExact(Oracle, Oracle.result_hash)
  BY <1>1 DEF Checks!OracleIsExact
<1> QED
  BY <1>4, <1>5, <1>6 DEF Checks!GatePasses, records

\* Every judge asks for the status of every session.
LEMMA BadIsRefused ==
  ASSUME RInv, phase = "done", ~Good
  PROVE  ~Checks!Coverage(MatrixFile, Judged) /\ ~Checks!Materializes(MatrixFile, Judged, Gate)
<1> DEFINE all == Judged.setups
<1>1. all = [c \in DOMAIN Configs |-> Judge(c)] /\ DOMAIN all = DOMAIN Configs
  BY FilesAreJudged
<1>2. PICK c \in DOMAIN Configs : setups[c].verdict.status # "ok"
  BY FilesAreJudged DEF Good
<1>3. all[c] = Judge(c) /\ all[c].status # "ok"
      /\ \A d \in DOMAIN Configs : all[d].config_id = Configs[d].config_id
  BY <1>1, <1>2, SetupFields
<1> HIDE DEF all
<1>4. all[CHOOSE i \in DOMAIN all : all[i].config_id = Configs[c].config_id].status # "ok"
  BY <1>1, <1>3, IdsAreOne
<1>5. ~Checks!Coverage(MatrixFile, Judged)
  BY <1>4, ConfigsOfMatrix DEF Checks!Coverage, Checks!CoversConfiguration, all
<1>6. ~Checks!AuditsInputs(Judged, MatrixFile["protocol"])
  BY <1>1, <1>3 DEF Checks!AuditsInputs, Checks!SessionIsStable, all
<1> QED
  BY <1>5, <1>6 DEF Checks!Materializes

\* The exit code of the runner, the coverage and the correctness of the
\* evidence bundle and the gate agree on every finished matrix, for any number
\* of configurations and requests (_validate_coverage, _validate_correctness,
\* materialize_correctness, check_run_record).
THEOREM JudgesAreOne == ResultsSpec => []JudgesAgree
<1>1. RInv => JudgesAgree
  <2> SUFFICES ASSUME RInv, phase = "done"
               PROVE  JudgesAgree
    BY DEF JudgesAgree
  <2>1. CASE Good
    BY <2>1, GoodIsCovered, GoodIsReported, GoodIsMaterialized, GoodPassesTheGate
       DEF JudgesAgree, Good
  <2>2. CASE ~Good
    BY <2>2, BadIsRefused DEF JudgesAgree, Good, Checks!MaterializesReport
  <2> QED
    BY <2>1, <2>2
<1> QED
  BY <1>1, ResultsInvariance, PTL

-----------------------------------------------------------------------------
(* The readings of a run of hybrid sessions.                               *)

LEMMA SizeOfReadings ==
  /\ \A x : Readings!Cardinality({x}) = 1
  /\ Readings!Cardinality({}) = 0
<1>1. \A S : Readings!Cardinality(S) = Cardinality(S)
  BY Zenon DEF Readings!Cardinality, Cardinality
<1>2. \A x : Cardinality({x}) = 1
  BY FS_Singleton
<1>3. Cardinality({}) = 0
  BY FS_EmptySet
<1> QED
  BY <1>1, <1>2, <1>3

LEMMA OnlyIsMember ==
  /\ \A x : Readings!Only({x}) = x
  /\ \A S : S # {} => Readings!Only(S) \in S
BY DEF Readings!Only

\* The measured requests of a session, and those that succeeded.
MeasuredOf(end) == {r \in RequestsIn(end) : ~r.is_warmup}
GoodOf(end) == {r \in MeasuredOf(end) : r.status = "ok"}

LEMMA RequestsOfEnd ==
  ASSUME NEW end, NEW r \in RequestsIn(end)
  PROVE  /\ r.config_id = end.id /\ r.session_id = end.id /\ r.engine = end.engine
         /\ r.threads = end.threads /\ r.ratio_mode = end.mode /\ r.cpu_ratio = end.ratio
         /\ r.status = "ok" => r.result_hash = end.hash
<1>1. PICK i : r = RequestOf(end, i)
  BY DEF RequestsIn
<1> QED
  BY <1>1 DEF RequestOf

LEMMA GoodRequestsOfEnd ==
  ASSUME NEW end, GoodOf(end) # {}
  PROVE  /\ Readings!HashesOf(GoodOf(end)) = {end.hash}
         /\ Readings!Ratios(GoodOf(end)) = {end.ratio}
BY RequestsOfEnd DEF GoodOf, MeasuredOf, Readings!HashesOf, Readings!Ratios

LEMMA SetupFieldsOfEnd ==
  ASSUME NEW end, NEW status
  PROVE  LET s == SetupOf(end, status) IN
         /\ s.config_id = end.id /\ s.session_id = end.id /\ s.engine = end.engine
         /\ s.threads = end.threads /\ s.ratio_mode = end.mode /\ s.selected = end.ratio
         /\ s.realized = end.realized /\ s.predicted = end.predicted
         /\ s.status = status /\ s.measured = end.kept
BY DEF SetupOf

\* What a run leaves, by session.
Distinct(ends) == \A i, j \in DOMAIN ends : ends[i].id = ends[j].id => i = j
KeptOnes(ends) == {j \in DOMAIN ends : ends[j].kept}

LEMMA LeftFields ==
  ASSUME NEW ends
  PROVE  /\ Left(ends).identity.expected_hash = ExpectedHash
         /\ Left(ends).summarized
         /\ Left(ends).setups = {SetupOf(ends[i], ends[i].status) : i \in DOMAIN ends}
         /\ Left(ends).logs = [i \in Hybrids(ends) |-> LogOf(ends[i])]
         /\ Left(ends).accepted = (\A i \in DOMAIN ends : ends[i].kept)
         /\ Left(ends).measured = UNION {MeasuredOf(ends[j]) : j \in KeptOnes(ends)}
<1>1. Left(ends).measured = {r \in UNION {RequestsIn(end) : end \in Kept(ends)} : ~r.is_warmup}
  BY DEF Left
<1>2. Kept(ends) = {ends[j] : j \in KeptOnes(ends)}
  BY DEF Kept, KeptOnes
<1>3. Left(ends).measured = UNION {MeasuredOf(ends[j]) : j \in KeptOnes(ends)}
  BY <1>1, <1>2 DEF MeasuredOf
<1> QED
  BY <1>3 DEF Left

LEMMA SetupOfSession ==
  ASSUME NEW ends, Distinct(ends), NEW j \in DOMAIN ends
  PROVE  Readings!SetupsOf(Left(ends), ends[j].id) = {SetupOf(ends[j], ends[j].status)}
<1>1. \A i \in DOMAIN ends : SetupOf(ends[i], ends[i].status).config_id = ends[i].id
  BY SetupFieldsOfEnd
<1>2. Left(ends).setups = {SetupOf(ends[i], ends[i].status) : i \in DOMAIN ends}
  BY LeftFields
<1>3. \A i \in DOMAIN ends : ends[i].id = ends[j].id => i = j
  BY DEF Distinct
<1> QED
  BY <1>1, <1>2, <1>3 DEF Readings!SetupsOf

LEMMA GroupsAreSessions ==
  ASSUME NEW ends, Distinct(ends)
  PROVE  Readings!Counted(Left(ends))
           = {MeasuredOf(ends[j]) : j \in {k \in KeptOnes(ends) : GoodOf(ends[k]) # {}}}
<1> DEFINE run == Left(ends)
           GroupFor(r) == {q \in run.measured : Readings!Group(q) = Readings!Group(r)}
<1>1. run.measured = UNION {MeasuredOf(ends[j]) : j \in KeptOnes(ends)}
  BY LeftFields
<1> HIDE DEF run
<1>2. \A j \in KeptOnes(ends) : \A r \in MeasuredOf(ends[j]) :
        Readings!Group(r) = <<ends[j].id, ends[j].engine, ends[j].threads, ends[j].mode,
                              ends[j].ratio>>
  BY RequestsOfEnd DEF Readings!Group, MeasuredOf
<1>3. ASSUME NEW j \in KeptOnes(ends), NEW r \in MeasuredOf(ends[j])
      PROVE  GroupFor(r) = MeasuredOf(ends[j])
  <2>1. ASSUME NEW k \in KeptOnes(ends), NEW q \in MeasuredOf(ends[k]),
               Readings!Group(q) = Readings!Group(r)
        PROVE  k = j
    <3>1. ends[k].id = ends[j].id
      BY <1>2, <2>1
    <3> QED
      BY <3>1 DEF Distinct, KeptOnes
  <2>2. \A q \in MeasuredOf(ends[j]) : Readings!Group(q) = Readings!Group(r)
    BY <1>2
  <2> QED
    BY <1>1, <2>1, <2>2
<1>4. \A j : Readings!Succeeded(MeasuredOf(ends[j])) = GoodOf(ends[j])
  BY DEF Readings!Succeeded, GoodOf
<1>5. Readings!Counted(run)
        = {g \in {GroupFor(r) : r \in run.measured} : Readings!Succeeded(g) # {}}
  BY DEF Readings!Counted
<1> HIDE DEF GroupFor
<1>6. ASSUME NEW g \in Readings!Counted(run)
      PROVE  \E j \in KeptOnes(ends) : GoodOf(ends[j]) # {} /\ g = MeasuredOf(ends[j])
  <2>1. PICK r \in run.measured : g = GroupFor(r) /\ Readings!Succeeded(g) # {}
    BY <1>5
  <2>2. PICK j \in KeptOnes(ends) : r \in MeasuredOf(ends[j])
    BY <1>1
  <2> QED
    BY <1>3, <1>4, <2>1, <2>2
<1>7. ASSUME NEW j \in KeptOnes(ends), GoodOf(ends[j]) # {}
      PROVE  MeasuredOf(ends[j]) \in Readings!Counted(run)
  <2>1. PICK r : r \in MeasuredOf(ends[j])
    BY <1>7 DEF GoodOf
  <2>2. r \in run.measured /\ GroupFor(r) = MeasuredOf(ends[j])
    BY <1>1, <1>3, <2>1
  <2> QED
    BY <1>4, <1>5, <1>7, <2>2
<1> QED
  BY <1>6, <1>7 DEF run

LEMMA SummaryIsSound ==
  ASSUME NEW ends, Distinct(ends)
  PROVE  Readings!Summarizes(Left(ends))
<1> SUFFICES ASSUME NEW j \in KeptOnes(ends), GoodOf(ends[j]) # {}
             PROVE  Readings!GroupIsSound(Left(ends), MeasuredOf(ends[j]))
  BY GroupsAreSessions DEF Readings!Summarizes
<1> DEFINE end == ends[j]
           group == MeasuredOf(end)
           id == Readings!Only({r.config_id : r \in group})
           setup == Readings!Only(Readings!SetupsOf(Left(ends), id))
<1>1. j \in DOMAIN ends /\ end.kept
  BY DEF KeptOnes
<1>2. \A r \in group : /\ r.config_id = end.id /\ r.session_id = end.id /\ r.engine = end.engine
                       /\ r.threads = end.threads /\ r.ratio_mode = end.mode
  BY RequestsOfEnd DEF MeasuredOf
<1>3. group # {} /\ Readings!Succeeded(group) = GoodOf(end)
  BY DEF GoodOf, Readings!Succeeded
<1> HIDE DEF end, group
<1>4. {r.config_id : r \in group} = {end.id}
  BY <1>2, <1>3
<1>5. id = end.id
  BY <1>4, OnlyIsMember
<1> HIDE DEF id
<1>6. Readings!SetupsOf(Left(ends), id) = {SetupOf(end, end.status)}
  BY <1>1, <1>5, SetupOfSession DEF end
<1>7. setup = SetupOf(end, end.status)
  BY <1>6, OnlyIsMember
<1> HIDE DEF setup
<1>8. /\ setup.session_id = end.id /\ setup.engine = end.engine /\ setup.threads = end.threads
      /\ setup.ratio_mode = end.mode /\ setup.measured
  BY <1>1, <1>7, SetupFieldsOfEnd
<1>9. Readings!HashesOf(GoodOf(end)) = {end.hash}
  BY GoodRequestsOfEnd DEF end
<1>10. /\ Readings!Cardinality(Readings!SetupsOf(Left(ends), id)) = 1
       /\ Readings!Cardinality(Readings!HashesOf(Readings!Succeeded(group))) = 1
  BY <1>3, <1>6, <1>9, SizeOfReadings
<1> QED
  BY <1>2, <1>8, <1>10 DEF Readings!GroupIsSound, id, setup, group, end

LEMMA RowOfSession ==
  ASSUME NEW end, GoodOf(end) # {}
  PROVE  Readings!SummaryRow(MeasuredOf(end)) =
           [config_id |-> end.id, engine |-> end.engine, ratio_mode |-> end.mode,
            cpu_ratio |-> end.ratio, result_hash |-> end.hash,
            success_count |-> Readings!Cardinality(GoodOf(end)),
            median |-> Readings!Median(GoodOf(end))]
<1>1. Readings!Succeeded(MeasuredOf(end)) = GoodOf(end)
  BY DEF GoodOf, Readings!Succeeded
<1>2. PICK r : r = Readings!Only(GoodOf(end))
  OBVIOUS
<1>3. r \in GoodOf(end)
  BY <1>2, OnlyIsMember
<1>4. /\ r.config_id = end.id /\ r.engine = end.engine /\ r.ratio_mode = end.mode
      /\ r.cpu_ratio = end.ratio /\ r.result_hash = end.hash
  BY <1>3, RequestsOfEnd DEF GoodOf, MeasuredOf
<1> QED
  BY <1>1, <1>2, <1>4 DEF Readings!SummaryRow

\* What a session is worth to a reader, whatever the runner said of it.
Observable(end, identity) ==
  Readings!IsObservable(SetupOf(end, "ok"), end.mode, end.ratio,
                        Readings!Median(GoodOf(end)), end.hash, identity)
Observed(end, identity) ==
  Readings!Observation(SetupOf(end, "ok"), identity, end.ratio,
                       Readings!Median(GoodOf(end)), Readings!Cardinality(GoodOf(end)))

LEMMA StatusIsNotObserved ==
  \A end, status, identity :
    /\ Readings!IsObservable(SetupOf(end, status), end.mode, end.ratio,
                             Readings!Median(GoodOf(end)), end.hash, identity)
         <=> Observable(end, identity)
    /\ Readings!Observation(SetupOf(end, status), identity, end.ratio,
                            Readings!Median(GoodOf(end)), Readings!Cardinality(GoodOf(end)))
         = Observed(end, identity)
BY SetupFieldsOfEnd DEF Observable, Observed, Readings!IsObservable, Readings!Observation

SeenOnes(ends) ==
  {j \in KeptOnes(ends) : ends[j].engine = "hybrid-arrow" /\ GoodOf(ends[j]) # {}}
IsRead(ends, j) == ends[j].status = "ok" /\ Observable(ends[j], Left(ends).identity)
Directory(ends) ==
  IF SeenOnes(ends) # {} /\ \A j \in SeenOnes(ends) : IsRead(ends, j)
  THEN {Observed(ends[j], Left(ends).identity) : j \in SeenOnes(ends)} ELSE {}

LEMMA SummaryIsDirectory ==
  ASSUME NEW ends, Distinct(ends)
  PROVE  Readings!LoadSummaryCsv(Left(ends)) = Directory(ends)
<1> DEFINE run == Left(ends)
           Row(j) == Readings!SummaryRow(MeasuredOf(ends[j]))
           rows == {row \in Readings!Summarize(run) : row.engine = "hybrid-arrow"}
           SetupFor(row) == Readings!Only(Readings!SetupsOf(run, row.config_id))
           Sound(row) ==
             /\ Readings!SetupsOf(run, row.config_id) # {}
             /\ Readings!SetupIsUsable(SetupFor(row))
             /\ Readings!IsObservable(SetupFor(row), row.ratio_mode, row.cpu_ratio, row.median,
                                      row.result_hash, run.identity)
           Seen(row) == Readings!Observation(SetupFor(row), run.identity, row.cpu_ratio,
                                             row.median, row.success_count)
<1>1. Readings!Summarize(run) = {Row(j) : j \in {k \in KeptOnes(ends) : GoodOf(ends[k]) # {}}}
  BY GroupsAreSessions DEF Readings!Summarize
<1>2. \A j : GoodOf(ends[j]) # {} =>
        /\ Row(j).config_id = ends[j].id /\ Row(j).engine = ends[j].engine
        /\ Row(j).ratio_mode = ends[j].mode /\ Row(j).cpu_ratio = ends[j].ratio
        /\ Row(j).result_hash = ends[j].hash
        /\ Row(j).success_count = Readings!Cardinality(GoodOf(ends[j]))
        /\ Row(j).median = Readings!Median(GoodOf(ends[j]))
  BY RowOfSession
<1> HIDE DEF Row, run
<1>3. rows = {Row(j) : j \in SeenOnes(ends)}
  <2>1. ASSUME NEW row \in rows PROVE \E j \in SeenOnes(ends) : row = Row(j)
    <3>1. PICK j \in KeptOnes(ends) : GoodOf(ends[j]) # {} /\ row = Row(j)
      BY <1>1
    <3>2. row.engine = "hybrid-arrow" /\ Row(j).engine = ends[j].engine
      BY <1>2, <3>1
    <3> QED
      BY <3>1, <3>2 DEF SeenOnes
  <2>2. ASSUME NEW j \in SeenOnes(ends) PROVE Row(j) \in rows
    <3>1. j \in KeptOnes(ends) /\ ends[j].engine = "hybrid-arrow" /\ GoodOf(ends[j]) # {}
      BY DEF SeenOnes
    <3>2. Row(j) \in Readings!Summarize(run) /\ Row(j).engine = ends[j].engine
      BY <1>1, <1>2, <3>1
    <3> QED
      BY <3>1, <3>2
  <2> HIDE DEF rows
  <2> QED
    BY <2>1, <2>2
<1>4. ASSUME NEW j \in SeenOnes(ends)
      PROVE  /\ Sound(Row(j)) <=> IsRead(ends, j)
             /\ Seen(Row(j)) = Observed(ends[j], run.identity)
  <2>1. j \in DOMAIN ends /\ ends[j].engine = "hybrid-arrow" /\ GoodOf(ends[j]) # {}
    BY DEF SeenOnes, KeptOnes
  <2>2. Readings!SetupsOf(run, Row(j).config_id) = {SetupOf(ends[j], ends[j].status)}
    BY <1>2, <2>1, SetupOfSession DEF run
  <2>3. SetupFor(Row(j)) = SetupOf(ends[j], ends[j].status)
    BY <2>2, OnlyIsMember
  <2>4. Readings!SetupIsUsable(SetupOf(ends[j], ends[j].status)) <=> ends[j].status = "ok"
    BY <2>1, SetupFieldsOfEnd DEF Readings!SetupIsUsable
  <2>5. Readings!IsObservable(SetupFor(Row(j)), Row(j).ratio_mode, Row(j).cpu_ratio,
                              Row(j).median, Row(j).result_hash, run.identity)
          <=> Observable(ends[j], run.identity)
    BY <1>2, <2>1, <2>3, StatusIsNotObserved
  <2>6. Seen(Row(j)) = Observed(ends[j], run.identity)
    BY <1>2, <2>1, <2>3, StatusIsNotObserved
  <2> QED
    BY <2>2, <2>3, <2>4, <2>5, <2>6 DEF IsRead, run
<1> HIDE DEF rows, Sound, Seen
<1>5. (rows # {} /\ \A row \in rows : Sound(row))
        <=> (SeenOnes(ends) # {} /\ \A j \in SeenOnes(ends) : IsRead(ends, j))
  BY <1>3, <1>4
<1>6. {Seen(row) : row \in rows} = {Observed(ends[j], run.identity) : j \in SeenOnes(ends)}
  BY <1>3, <1>4
<1>7. Readings!LoadSummaryCsv(run) =
        IF Readings!Summarizes(run) /\ rows # {} /\ \A row \in rows : Sound(row)
        THEN {Seen(row) : row \in rows} ELSE {}
  BY DEF Readings!LoadSummaryCsv, rows, Sound, Seen
<1>8. Readings!Summarizes(run)
  BY SummaryIsSound DEF run
<1> QED
  BY <1>5, <1>6, <1>7, <1>8 DEF Directory, run

LEMMA RawIsDirectory ==
  ASSUME NEW ends, Distinct(ends)
  PROVE  Readings!LoadRawCsv(Left(ends)) = Directory(ends)
<1> DEFINE run == Left(ends)
           rows == {r \in Readings!Succeeded(run.measured) : r.engine = "hybrid-arrow"}
           ids == {r.config_id : r \in rows}
           Of(id) == {r \in rows : r.config_id = id}
           SetupFor(id) == Readings!Only(Readings!SetupsOf(run, id))
           Sound(id) ==
             /\ Readings!SetupsOf(run, id) # {} /\ Readings!SetupIsUsable(SetupFor(id))
             /\ Readings!Cardinality(Readings!HashesOf(Of(id))) = 1
             /\ Readings!Cardinality(Readings!Ratios(Of(id))) = 1
             /\ Readings!IsObservable(SetupFor(id), Readings!Only(Of(id)).ratio_mode,
                  Readings!Only(Readings!Ratios(Of(id))), Readings!Median(Of(id)),
                  Readings!Only(Readings!HashesOf(Of(id))), run.identity)
           Seen(id) == Readings!Observation(SetupFor(id), run.identity,
                         Readings!Only(Readings!Ratios(Of(id))), Readings!Median(Of(id)),
                         Readings!Cardinality(Of(id)))
<1>1. run.measured = UNION {MeasuredOf(ends[j]) : j \in KeptOnes(ends)}
  BY LeftFields
<1> HIDE DEF run
<1>2. Readings!Succeeded(run.measured) = UNION {GoodOf(ends[j]) : j \in KeptOnes(ends)}
  BY <1>1 DEF Readings!Succeeded, GoodOf
<1>3. \A j \in KeptOnes(ends) : \A r \in GoodOf(ends[j]) :
        r.config_id = ends[j].id /\ r.engine = ends[j].engine /\ r.ratio_mode = ends[j].mode
  BY RequestsOfEnd DEF GoodOf, MeasuredOf
<1>4. rows = UNION {GoodOf(ends[j]) : j \in SeenOnes(ends)}
  BY <1>2, <1>3 DEF SeenOnes
<1> HIDE DEF rows
<1>5. ids = {ends[j].id : j \in SeenOnes(ends)}
  <2>1. \A j \in SeenOnes(ends) : j \in KeptOnes(ends) /\ \E r : r \in GoodOf(ends[j])
    BY DEF SeenOnes
  <2>2. ASSUME NEW r \in rows PROVE \E j \in SeenOnes(ends) : r.config_id = ends[j].id
    BY <1>3, <1>4, <2>1
  <2>3. ASSUME NEW j \in SeenOnes(ends) PROVE \E r \in rows : r.config_id = ends[j].id
    BY <1>3, <1>4, <2>1
  <2> QED
    BY <2>2, <2>3
<1>6. ASSUME NEW j \in SeenOnes(ends)
      PROVE  /\ Sound(ends[j].id) <=> IsRead(ends, j)
             /\ Seen(ends[j].id) = Observed(ends[j], run.identity)
  <2>1. /\ j \in DOMAIN ends /\ j \in KeptOnes(ends) /\ ends[j].engine = "hybrid-arrow"
        /\ GoodOf(ends[j]) # {}
    BY DEF SeenOnes, KeptOnes
  <2> DEFINE id == ends[j].id
  <2>2. Of(id) = GoodOf(ends[j])
    BY <1>3, <1>4 DEF Distinct, SeenOnes, KeptOnes
  <2>3. Readings!SetupsOf(run, id) = {SetupOf(ends[j], ends[j].status)}
    BY <2>1, SetupOfSession DEF run
  <2> HIDE DEF id, Of
  <2>4. SetupFor(id) = SetupOf(ends[j], ends[j].status)
    BY <2>3, OnlyIsMember
  <2>5. /\ Readings!HashesOf(Of(id)) = {ends[j].hash}
        /\ Readings!Ratios(Of(id)) = {ends[j].ratio}
    BY <2>1, <2>2, GoodRequestsOfEnd
  <2>6. /\ Readings!Only(Readings!HashesOf(Of(id))) = ends[j].hash
        /\ Readings!Only(Readings!Ratios(Of(id))) = ends[j].ratio
        /\ Readings!Cardinality(Readings!HashesOf(Of(id))) = 1
        /\ Readings!Cardinality(Readings!Ratios(Of(id))) = 1
    BY <2>5, OnlyIsMember, SizeOfReadings
  <2>7. Readings!Only(Of(id)).ratio_mode = ends[j].mode
    BY <1>3, <2>1, <2>2, OnlyIsMember
  <2>8. Readings!SetupIsUsable(SetupOf(ends[j], ends[j].status)) <=> ends[j].status = "ok"
    BY <2>1, SetupFieldsOfEnd DEF Readings!SetupIsUsable
  <2>9. Readings!IsObservable(SetupFor(id), Readings!Only(Of(id)).ratio_mode,
          Readings!Only(Readings!Ratios(Of(id))), Readings!Median(Of(id)),
          Readings!Only(Readings!HashesOf(Of(id))), run.identity)
          <=> Observable(ends[j], run.identity)
    BY <2>2, <2>4, <2>6, <2>7, StatusIsNotObserved
  <2>10. Seen(id) = Observed(ends[j], run.identity)
    BY <2>2, <2>4, <2>6, StatusIsNotObserved
  <2>11. Sound(id) <=> IsRead(ends, j)
    BY <2>3, <2>4, <2>6, <2>8, <2>9 DEF IsRead, run
  <2> QED
    BY <2>10, <2>11 DEF id
<1> HIDE DEF ids, Sound, Seen
<1>7. (ids # {} /\ \A id \in ids : Sound(id))
        <=> (SeenOnes(ends) # {} /\ \A j \in SeenOnes(ends) : IsRead(ends, j))
  BY <1>5, <1>6
<1>8. {Seen(id) : id \in ids} = {Observed(ends[j], run.identity) : j \in SeenOnes(ends)}
  BY <1>5, <1>6
<1>9. Readings!LoadRawCsv(run) =
        IF ids # {} /\ \A id \in ids : Sound(id) THEN {Seen(id) : id \in ids} ELSE {}
  BY DEF Readings!LoadRawCsv, rows, ids, Of, Sound, Seen
<1> QED
  BY <1>7, <1>8, <1>9 DEF Directory, run

\* A log tells what its session is worth, and no verdict.
LEMMA LogOfSession ==
  ASSUME NEW end, NEW identity, end.engine = "hybrid-arrow"
  PROVE  Readings!LoadJsonl(LogOf(end), identity) =
           IF /\ ~end.torn /\ end.started /\ GoodOf(end) # {}
              /\ Observable(end, identity)
           THEN {Observed(end, identity)} ELSE {}
<1> DEFINE log == LogOf(end)
           setup == Readings!Only(log.setups)
           rows == Readings!Measured(log)
<1>1. log.torn = end.torn /\ log.requests = RequestsIn(end)
      /\ log.setups = IF end.started THEN {SetupOf(end, "ok")} ELSE {}
  BY DEF LogOf
<1> HIDE DEF log
<1>2. rows = GoodOf(end)
  BY <1>1 DEF Readings!Measured, Readings!Succeeded, GoodOf, MeasuredOf
<1>3. Readings!LoadJsonl(log, identity) =
        IF /\ ~log.torn /\ Readings!Cardinality(log.setups) = 1 /\ Readings!SetupIsUsable(setup)
           /\ rows # {} /\ Readings!Ratios(rows) = {setup.selected}
           /\ Readings!Cardinality(Readings!HashesOf(rows)) = 1
           /\ Readings!IsObservable(setup, setup.ratio_mode, setup.selected,
                Readings!Median(rows), Readings!Only(Readings!HashesOf(rows)), identity)
        THEN {Readings!Observation(setup, identity, setup.selected, Readings!Median(rows),
                                   Readings!Cardinality(rows))}
        ELSE {}
  BY DEF Readings!LoadJsonl
<1> HIDE DEF rows
<1>4. CASE ~end.started \/ GoodOf(end) = {}
  <2>1. ~end.started => Readings!Cardinality(log.setups) = 0
    BY <1>1, SizeOfReadings
  <2> QED
    BY <1>2, <1>3, <1>4, <2>1 DEF log
<1>5. CASE end.started /\ GoodOf(end) # {}
  <2>1. log.setups = {SetupOf(end, "ok")}
    BY <1>1, <1>5
  <2>2. setup = SetupOf(end, "ok") /\ Readings!Cardinality(log.setups) = 1
    BY <2>1, OnlyIsMember, SizeOfReadings
  <2> HIDE DEF setup
  <2>3. /\ setup.ratio_mode = end.mode /\ setup.selected = end.ratio
        /\ Readings!SetupIsUsable(setup)
    BY <2>2, SetupFieldsOfEnd DEF Readings!SetupIsUsable
  <2>4. /\ Readings!HashesOf(rows) = {end.hash} /\ Readings!Ratios(rows) = {end.ratio}
    BY <1>2, <1>5, GoodRequestsOfEnd
  <2>5. /\ Readings!Only(Readings!HashesOf(rows)) = end.hash
        /\ Readings!Cardinality(Readings!HashesOf(rows)) = 1
    BY <2>4, OnlyIsMember, SizeOfReadings
  <2>6. Readings!IsObservable(setup, setup.ratio_mode, setup.selected,
          Readings!Median(rows), Readings!Only(Readings!HashesOf(rows)), identity)
          <=> Observable(end, identity)
    BY <1>2, <2>2, <2>3, <2>5 DEF Observable
  <2>7. Readings!Observation(setup, identity, setup.selected, Readings!Median(rows),
                             Readings!Cardinality(rows)) = Observed(end, identity)
    BY <1>2, <2>2, <2>3 DEF Observed
  <2>8. Readings!LoadJsonl(log, identity) =
          IF ~end.torn /\ Observable(end, identity) THEN {Observed(end, identity)} ELSE {}
    BY <1>1, <1>2, <1>3, <1>5, <2>2, <2>3, <2>4, <2>5, <2>6, <2>7
  <2> QED
    BY <1>5, <2>8 DEF log
<1> QED
  BY <1>4, <1>5

\* A report depends on what was observed alone, if every input had something.
LEMMA ReportsOfObservations ==
  ASSUME NEW inputs, NEW others,
         inputs # <<>>, others # <<>>,
         \A i \in DOMAIN inputs : inputs[i] # {},
         \A i \in DOMAIN others : others[i] # {},
         UNION {inputs[i] : i \in DOMAIN inputs} = UNION {others[i] : i \in DOMAIN others}
  PROVE  Readings!Evaluate(inputs) = Readings!Evaluate(others)
BY DEF Readings!Evaluate

LEMMA NoReport ==
  ASSUME NEW inputs, NEW i \in DOMAIN inputs, inputs[i] = {}
  PROVE  Readings!Evaluate(inputs) = None
BY DEF Readings!Evaluate

LEMMA NoInput == Readings!Evaluate(<<>>) = None
BY DEF Readings!Evaluate

\* The reports of the logs and of the directory are those of the same sessions.
LEMMA ReportsAgree ==
  ASSUME NEW ends,
         \A j \in Hybrids(ends) : Readings!Logs(Left(ends))[j] # {},
         Directory(ends) # {}, Hybrids(ends) = SeenOnes(ends)
  PROVE  Readings!Evaluate(Readings!Logs(Left(ends)))
           = Readings!Evaluate(<<Directory(ends)>>)
<1> DEFINE logs == Readings!Logs(Left(ends))
           identity == Left(ends).identity
<1>1. Left(ends).logs = [j \in Hybrids(ends) |-> LogOf(ends[j])]
  BY LeftFields
<1>2. logs = [j \in Hybrids(ends) |-> Readings!LoadJsonl(LogOf(ends[j]), identity)]
  BY <1>1 DEF Readings!Logs
<1>3. \A j \in Hybrids(ends) : logs[j] = {Observed(ends[j], identity)}
  BY <1>2, LogOfSession DEF Hybrids
<1>4. Directory(ends) = {Observed(ends[j], identity) : j \in Hybrids(ends)}
  BY DEF Directory
<1>5. Hybrids(ends) # {}
  BY <1>4
<1>6. DOMAIN logs = Hybrids(ends)
  BY <1>2
<1> DEFINE others == <<Directory(ends)>>
<1>7. DOMAIN others = {1} /\ others[1] = Directory(ends)
  OBVIOUS
<1> HIDE DEF logs, others
<1>8. UNION {logs[i] : i \in DOMAIN logs} = UNION {others[i] : i \in DOMAIN others}
  BY <1>3, <1>4, <1>6, <1>7
<1>9. logs # <<>> /\ others # <<>>
  <2>1. DOMAIN <<>> = {}
    BY EmptySeq
  <2> QED
    BY <1>5, <1>6, <1>7, <2>1
<1>10. \A i \in DOMAIN others : others[i] # {}
  BY <1>7
<1>11. \A i \in DOMAIN logs : logs[i] # {}
  BY <1>3, <1>6
<1>12. Readings!Evaluate(logs) = Readings!Evaluate(others)
  BY <1>8, <1>9, <1>10, <1>11, ReportsOfObservations
<1> QED
  BY <1>12 DEF logs, others

LEMMA GoodSessionsHaveRequests ==
  ASSUME NEW end, end.ms \in Seq(Int), Len(end.ms) > Warmup
  PROVE  GoodOf(end) # {}
<1> DEFINE i == Warmup + 1
<1>1. Len(end.ms) \in Nat /\ Warmup \in Nat
  BY LenProperties, CountsAreValid
<1>2. /\ i \in 1 .. Len(end.ms) /\ i \in 1 .. Len(end.ms) + 1
      /\ i <= Len(end.ms) /\ ~(i <= Warmup)
  BY <1>1
<1> HIDE DEF i
<1>3. RequestOf(end, i) \in RequestsIn(end)
  <2>1. CASE end.failed
    BY <1>2, <2>1 DEF RequestsIn
  <2>2. CASE ~end.failed
    <3>1. RequestsIn(end) = {RequestOf(end, k) : k \in 1 .. Len(end.ms) + 0}
      BY <2>2 DEF RequestsIn
    <3>2. Len(end.ms) + 0 = Len(end.ms)
      BY <1>1
    <3> QED
      BY <1>2, <3>1, <3>2
  <2> QED
    BY <2>1, <2>2
<1>4. ~RequestOf(end, i).is_warmup /\ RequestOf(end, i).status = "ok"
  BY <1>2 DEF RequestOf
<1> QED
  BY <1>3, <1>4 DEF GoodOf, MeasuredOf

LEMMA RunsAreReadAlike ==
  ASSUME NEW ends \in HybridRuns
  PROVE  Readings!ReadingsAgree(Left(ends))
<1> DEFINE run == Left(ends)
           logs == Readings!Logs(run)
           directory == Readings!Evaluate(<<Directory(ends)>>)
<1>1. /\ Distinct(ends)
      /\ \A j \in DOMAIN ends :
           /\ ends[j].ms \in Seq(Int)
           /\ ends[j].kept => ends[j].started /\ ~ends[j].torn
           /\ ends[j].status = "ok" => ends[j].kept /\ Len(ends[j].ms) > Warmup
  BY EndsAreRecorded DEF Distinct
<1>2. /\ Readings!LoadSummaryCsv(run) = Directory(ends)
      /\ Readings!LoadRawCsv(run) = Directory(ends)
  BY <1>1, SummaryIsDirectory, RawIsDirectory
<1>3. /\ logs = [j \in Hybrids(ends) |-> Readings!LoadJsonl(LogOf(ends[j]), run.identity)]
      /\ DOMAIN logs = Hybrids(ends)
  <2>1. run.logs = [j \in Hybrids(ends) |-> LogOf(ends[j])]
    BY LeftFields
  <2> HIDE DEF run
  <2>2. DOMAIN run.logs = Hybrids(ends) /\ \A j \in Hybrids(ends) : run.logs[j] = LogOf(ends[j])
    BY <2>1
  <2> QED
    BY <2>2 DEF Readings!Logs
<1>4. \A j \in Hybrids(ends) :
        logs[j] = IF /\ ~ends[j].torn /\ ends[j].started /\ GoodOf(ends[j]) # {}
                     /\ Observable(ends[j], run.identity)
                  THEN {Observed(ends[j], run.identity)} ELSE {}
  BY <1>3, LogOfSession DEF Hybrids
<1>5. \A j \in DOMAIN ends : ends[j].status = "ok" => GoodOf(ends[j]) # {}
  BY <1>1, GoodSessionsHaveRequests
<1>6. run.accepted => \A j \in DOMAIN ends : ends[j].kept
  BY LeftFields
<1>7. (\A s \in run.setups : s.status = "ok") => \A j \in DOMAIN ends : ends[j].status = "ok"
  <2>1. \A j \in DOMAIN ends : /\ SetupOf(ends[j], ends[j].status) \in run.setups
                               /\ SetupOf(ends[j], ends[j].status).status = ends[j].status
    <3>1. run.setups = {SetupOf(ends[j], ends[j].status) : j \in DOMAIN ends}
      BY LeftFields
    <3> HIDE DEF run
    <3> QED
      BY <3>1, SetupFieldsOfEnd
  <2> QED
    BY <2>1
<1> HIDE DEF run, logs
<1>8. Directory(ends) = {} => directory = None
  <2>1. 1 \in DOMAIN <<Directory(ends)>> /\ <<Directory(ends)>>[1] = Directory(ends)
    OBVIOUS
  <2> QED
    BY <2>1, NoReport
<1>9. ASSUME NEW j \in Hybrids(ends), logs[j] = {} PROVE Readings!Evaluate(logs) = None
  BY <1>3, <1>9, NoReport
<1>10. ASSUME \A s \in run.setups : s.status = "ok"
       PROVE  Readings!Evaluate(logs) = directory
  <2>1. \A j \in DOMAIN ends : /\ ends[j].status = "ok" /\ ends[j].kept /\ GoodOf(ends[j]) # {}
                               /\ ends[j].started /\ ~ends[j].torn
    BY <1>1, <1>5, <1>7, <1>10
  <2>2. Hybrids(ends) = SeenOnes(ends)
    BY <2>1 DEF Hybrids, SeenOnes, KeptOnes
  <2>3. CASE Hybrids(ends) = {}
    <3>1. logs = <<>>
      BY <1>3, <2>3
    <3>2. Directory(ends) = {}
      BY <2>2, <2>3 DEF Directory
    <3> QED
      BY <1>8, <3>1, <3>2, NoInput
  <2>4. CASE Hybrids(ends) # {} /\ \A j \in Hybrids(ends) : Observable(ends[j], run.identity)
    <3>1. Directory(ends) # {}
      BY <2>1, <2>2, <2>4 DEF Directory, IsRead, run, Hybrids
    <3>2. \A j \in Hybrids(ends) : logs[j] # {}
      BY <1>4, <2>1, <2>4 DEF Hybrids
    <3> QED
      BY <2>2, <3>1, <3>2, ReportsAgree DEF run, logs
  <2>5. CASE \E j \in Hybrids(ends) : ~Observable(ends[j], run.identity)
    <3>1. PICK j \in Hybrids(ends) : ~Observable(ends[j], run.identity)
      BY <2>5
    <3>2. logs[j] = {}
      BY <1>4, <3>1
    <3>3. Directory(ends) = {}
      BY <2>2, <3>1 DEF Directory, IsRead, run
    <3> QED
      BY <1>8, <1>9, <3>2, <3>3
  <2> QED
    BY <2>3, <2>4, <2>5
<1>11. ASSUME run.accepted, Readings!Evaluate(logs) # None, directory # None
       PROVE  Readings!Evaluate(logs) = directory
  <2>1. Directory(ends) # {}
    BY <1>8, <1>11
  <2>2. \A j \in Hybrids(ends) : logs[j] # {}
    BY <1>9, <1>11
  <2>3. \A j \in Hybrids(ends) : GoodOf(ends[j]) # {}
    BY <1>4, <2>2
  <2>4. Hybrids(ends) = SeenOnes(ends)
    BY <1>6, <1>11, <2>3 DEF Hybrids, SeenOnes, KeptOnes
  <2> QED
    BY <2>1, <2>2, <2>4, ReportsAgree DEF run, logs
<1> QED
  BY <1>2, <1>10, <1>11 DEF Readings!ReadingsAgree, run, logs

\* The summary, the raw records and the logs of a run of hybrid sessions give
\* one report, whatever became of its sessions, for any number of sessions and
\* requests (load_summary_csv, load_raw_csv, load_jsonl, evaluate_inputs).
THEOREM ReadingsAreOne == ResultsSpec => []ReadingsAgree
<1> DEFINE Chosen == system = "evaluation" => evaluated \in HybridRuns
<1>1. ResultsInit => Chosen
  BY DEF ResultsInit
<1>2. Chosen /\ [Run(Next)]_resultsVars => Chosen'
  BY DEF Run, resultsVars
<1>3. Chosen => ReadingsAgree
  BY RunsAreReadAlike DEF ReadingsAgree
<1> QED
  BY <1>1, <1>2, <1>3, PTL DEF ResultsSpec
=============================================================================
