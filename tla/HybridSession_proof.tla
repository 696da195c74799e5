------------------------- MODULE HybridSession_proof -------------------------
(***************************************************************************)
(* For any number of callers, tables and options: no GPU request outlives  *)
(* the Execute that started it, what Execute returns does not depend on    *)
(* the schedule or on the requests beside it, and what it returns is the   *)
(* answer over the whole table, wherever the table was cut.                *)
(*                                                                         *)
(* First who runs when; then what rows add up to, where the two ways of    *)
(* partitioning cut, what the children answer; then the answers.  Last the *)
(* scan that the session takes for one step of its CPU child: whatever its *)
(* threads do, it comes to the same.                                       *)
(***************************************************************************)
EXTENDS SessionAndScan, SequenceTheorems, FiniteSetTheorems, TLAPS

\* Types of the state that decides who runs.
ControlType ==
  /\ mutex \in Caller \cup {None}
  /\ phase \in [Caller -> {"idle", "enter", "cpu", "get", "unwind"}]
  /\ task \in [Caller -> {"none", "queued", "running", "done"}]

\* A request is under way only while its Execute is past the launch.
TaskHasCaller ==
  \A c \in Caller : phase[c] \in {"idle", "enter"} => task[c] \in {"none", "done"}

\* The mutex is held exactly by the request that runs.
MutexIsTaken == \A c \in Caller : mutex = c <=> task[c] = "running"

\* The owner destroys a session nobody is in, and it stays so.
DestroyedIsIdle == session = "destroyed" => \A c \in Caller : phase[c] = "idle"

IInv == ControlType /\ TaskHasCaller /\ MutexIsTaken /\ DestroyedIsIdle

-----------------------------------------------------------------------------
LEMMA InitIInv == Init => IInv
BY CallerAssumption
DEF Init, IInv, ControlType, TaskHasCaller, MutexIsTaken, DestroyedIsIdle

\* Steps of a caller's own thread leave every request and the mutex alone,
\* but for queueing one, and end with its request joined.
LEMMA CallerStepIInv ==
  ASSUME IInv, NEW c \in Caller, Call(c) \/ CallerStep(c)
  PROVE  IInv'
<1> USE CallerAssumption
    DEF IInv, ControlType, TaskHasCaller, MutexIsTaken, DestroyedIsIdle, sessionVars
<1>1. CASE Call(c)
  BY <1>1 DEF Call
<1>2. CASE ReturnEmpty(c)
  BY <1>2 DEF ReturnEmpty, Finished
<1>3. CASE GpuOnly(c)
  BY <1>3 DEF GpuOnly
<1>4. CASE CpuOnly(c)
  BY <1>4 DEF CpuOnly
<1>5. CASE Launch(c)
  BY <1>5 DEF Launch
<1>6. CASE LaunchFails(c)
  BY <1>6 DEF LaunchFails, Finished
<1>7. CASE CpuExecute(c)
  BY <1>7 DEF CpuExecute
<1>8. CASE CpuThrows(c)
  BY <1>8 DEF CpuThrows
<1>9. CASE Return(c)
  BY <1>9 DEF Return, Finished, TaskJoined
<1>10. CASE Unwind(c)
  BY <1>10 DEF Unwind, Finished, TaskJoined
<1> QED
  BY <1>1, <1>2, <1>3, <1>4, <1>5, <1>6, <1>7, <1>8, <1>9, <1>10 DEF CallerStep

\* Steps of a GPU request leave every caller where it is.
LEMMA TaskStepIInv ==
  ASSUME IInv, NEW c \in Caller, TaskStep(c)
  PROVE  IInv'
<1> USE CallerAssumption
    DEF IInv, ControlType, TaskHasCaller, MutexIsTaken, DestroyedIsIdle, sessionVars
<1>1. CASE GpuLock(c)
  BY <1>1 DEF GpuLock
<1>2. CASE GpuExecute(c)
  BY <1>2 DEF GpuExecute
<1>3. CASE GpuFails(c)
  BY <1>3 DEF GpuFails
<1> QED
  BY <1>1, <1>2, <1>3 DEF TaskStep

LEMMA NextIInv == IInv /\ [Next]_vars => IInv'
<1> SUFFICES ASSUME IInv, [Next]_vars PROVE IInv'
  OBVIOUS
<1>1. CASE Make \/ MakeFails \/ Destroy
  BY <1>1 DEF IInv, ControlType, TaskHasCaller, MutexIsTaken, DestroyedIsIdle,
              Make, MakeFails, Destroy, callVars
<1>2. ASSUME NEW c \in Caller, Call(c) \/ CallerStep(c) \/ TaskStep(c)
      PROVE  IInv'
  BY <1>2, CallerStepIInv, TaskStepIInv
<1>3. CASE UNCHANGED vars
  BY <1>3 DEF vars, callVars, IInv, ControlType, TaskHasCaller, MutexIsTaken, DestroyedIsIdle
<1> QED
  BY <1>1, <1>2, <1>3 DEF Next

-----------------------------------------------------------------------------
THEOREM Invariance == Spec => []IInv
BY InitIInv, NextIInv, PTL DEF Spec

\* For every number of callers: once Execute has returned, on whichever path,
\* its GPU request is over, and a destroyed session has none
\* (HybridQ5Session::Execute and its comment on joining before inspecting).
THEOREM TasksAreJoined == Spec => []NoTaskOutlivesExecute
<1>1. IInv => NoTaskOutlivesExecute
  BY DEF IInv, ControlType, TaskHasCaller, MutexIsTaken, DestroyedIsIdle, NoTaskOutlivesExecute
<1> QED
  BY <1>1, Invariance, PTL

-----------------------------------------------------------------------------
(***************************************************************************)
(* The results: what each child answers, and what follows from it.         *)
(***************************************************************************)
CpuAnswer == CpuExecution(cut, options.threads)
GpuAnswer == GpuExecution(GpuRows)

\* What a request returns when the machine does not fail.
Expected ==
  IF ~HasCpu /\ ~HasGpu THEN Finish(EmptyPartial)
  ELSE IF ~HasCpu THEN GpuAnswer
  ELSE IF ~HasGpu THEN CpuAnswer
  ELSE JoinedOutcome(CpuAnswer, GpuAnswer)

\* Which children a request has called, by the time it waits for them.
ChildrenCalled ==
  \A c \in Caller :
    /\ phase[c] = "enter" => task[c] = "none"
    /\ phase[c] = "cpu" => HasCpu
    /\ phase[c] \in {"cpu", "get", "unwind"} => (HasGpu <=> task[c] # "none")
    /\ phase[c] = "get" => HasCpu \/ HasGpu

\* The buffers are zeroed under the request that holds the mutex.
DeviceIsReset == \A c \in Caller : task[c] = "running" => device = EmptyPartial

ChildResults ==
  \A c \in Caller :
    /\ phase[c] = "get" /\ HasCpu => cpuResult[c] \in {Failed("io"), CpuAnswer}
    /\ task[c] = "done" => gpuResult[c] \in {Failed("io"), GpuAnswer}

Outcomes ==
  \A c \in Caller :
    phase[c] = "idle" => outcome[c] \in {NoResult, Failed("io"), Failed("unknown"), Expected}

\* Nobody has called a session that is not made yet.
NotMadeIsUnused ==
  session \in {"none", "refused"} =>
    \A c \in Caller : phase[c] = "idle" /\ task[c] = "none" /\ outcome[c] = NoResult

ResultTypes ==
  /\ cpuResult = [c \in Caller |-> cpuResult[c]]
  /\ gpuResult = [c \in Caller |-> gpuResult[c]]
  /\ outcome = [c \in Caller |-> outcome[c]]

RInv ==
  /\ ResultTypes /\ ChildrenCalled /\ DeviceIsReset /\ ChildResults
  /\ Outcomes /\ NotMadeIsUnused

LEMMA InitRInv == Init => RInv
BY DEF Init, RInv, ResultTypes, ChildrenCalled, DeviceIsReset, ChildResults, Outcomes,
       NotMadeIsUnused

\* What the children answer is settled with the session.
LEMMA AnswersAreSettled ==
  ASSUME UNCHANGED sessionVars
  PROVE  /\ HasCpu' = HasCpu /\ HasGpu' = HasGpu
         /\ CpuAnswer' = CpuAnswer /\ GpuAnswer' = GpuAnswer
         /\ Expected' = Expected /\ GpuRows' = GpuRows
BY DEF sessionVars, HasCpu, HasGpu, CpuAnswer, CpuExecution, GpuAnswer, GpuRows, Rows, Expected

LEMMA CallerStepRInv ==
  ASSUME IInv, RInv, NEW c \in Caller, Call(c) \/ CallerStep(c)
  PROVE  RInv'
<1> USE DEF IInv, ControlType, TaskHasCaller, RInv, ResultTypes, ChildrenCalled, DeviceIsReset,
            ChildResults, Outcomes, NotMadeIsUnused
<1>0. UNCHANGED sessionVars
  BY DEF Call, CallerStep, ReturnEmpty, GpuOnly, CpuOnly, Launch, LaunchFails, CpuExecute,
         CpuThrows, Return, Unwind
<1>1. CASE Call(c)
  <2>1. session \notin {"none", "refused"}
    BY <1>1 DEF Call
  <2>2. ChildrenCalled' /\ DeviceIsReset' /\ NotMadeIsUnused'
    BY <1>0, <1>1, <2>1, AnswersAreSettled DEF Call, sessionVars, EmptyPartial
  <2>5. ResultTypes'
    BY <1>1 DEF Call
  <2>3. ChildResults'
    BY <1>0, <1>1, AnswersAreSettled DEF Call, sessionVars
  <2>4. Outcomes'
    BY <1>0, <1>1, AnswersAreSettled DEF Call, sessionVars
  <2> QED
    BY <2>2, <2>3, <2>4, <2>5
<1>2. CASE ReturnEmpty(c)
  BY <1>0, <1>2, AnswersAreSettled DEF ReturnEmpty, Finished, sessionVars, Expected
<1>3. CASE GpuOnly(c)
  BY <1>0, <1>3, AnswersAreSettled DEF GpuOnly, sessionVars
<1>4. CASE CpuOnly(c)
  BY <1>0, <1>4, AnswersAreSettled DEF CpuOnly, sessionVars
<1>5. CASE Launch(c)
  BY <1>0, <1>5, AnswersAreSettled DEF Launch, sessionVars
<1>6. CASE LaunchFails(c)
  BY <1>0, <1>6, AnswersAreSettled DEF LaunchFails, Finished, sessionVars
<1>7. CASE CpuExecute(c)
  BY <1>0, <1>7, AnswersAreSettled DEF CpuExecute, CpuAnswer, sessionVars
<1>8. CASE CpuThrows(c)
  BY <1>0, <1>8, AnswersAreSettled DEF CpuThrows, sessionVars
<1>9. CASE Return(c)
  <2> DEFINE result == IF ~HasCpu THEN gpuResult[c]
                       ELSE IF ~HasGpu THEN cpuResult[c]
                       ELSE JoinedOutcome(cpuResult[c], gpuResult[c])
  <2>1. HasGpu => gpuResult[c] \in {Failed("io"), GpuAnswer}
    BY <1>9 DEF Return, TaskJoined
  <2>2. HasCpu => cpuResult[c] \in {Failed("io"), CpuAnswer}
    BY <1>9 DEF Return
  <2>3. result \in {Failed("io"), Expected}
    <3>1. CASE ~HasCpu
      BY <1>9, <2>1, <3>1 DEF Return, Expected
    <3>2. CASE HasCpu /\ ~HasGpu
      BY <2>2, <3>2 DEF Expected
    <3>3. CASE HasCpu /\ HasGpu
      BY <2>1, <2>2, <3>3 DEF Expected, JoinedOutcome, Failed
    <3> QED
      BY <3>1, <3>2, <3>3
  <2>4. Finished(c, result) /\ UNCHANGED <<device, mutex, task, cpuResult, gpuResult>>
    BY <1>9 DEF Return
  <2> HIDE DEF result
  <2>5. phase[c] = "get" /\ session \notin {"none", "refused"}
    BY <1>9 DEF Return
  <2>6. ResultTypes' /\ ChildrenCalled' /\ DeviceIsReset' /\ NotMadeIsUnused'
    BY <1>0, <2>4, <2>5, AnswersAreSettled DEF Finished, sessionVars
  <2>7. ChildResults'
    BY <1>0, <2>4, AnswersAreSettled DEF Finished
  <2>8. Outcomes'
    BY <1>0, <2>3, <2>4, AnswersAreSettled DEF Finished
  <2> QED
    BY <2>6, <2>7, <2>8
<1>10. CASE Unwind(c)
  <2>1. Finished(c, Failed("unknown")) /\ UNCHANGED <<device, mutex, task, cpuResult, gpuResult>>
    BY <1>10 DEF Unwind
  <2>2. phase[c] = "unwind" /\ session \notin {"none", "refused"}
    BY <1>10 DEF Unwind
  <2>3. ResultTypes' /\ ChildrenCalled' /\ DeviceIsReset' /\ NotMadeIsUnused'
    BY <1>0, <2>1, <2>2, AnswersAreSettled DEF Finished, sessionVars
  <2>4. ChildResults'
    BY <1>0, <2>1, AnswersAreSettled DEF Finished
  <2>5. Outcomes'
    BY <1>0, <2>1, AnswersAreSettled DEF Finished
  <2> QED
    BY <2>3, <2>4, <2>5
<1> QED
  BY <1>1, <1>2, <1>3, <1>4, <1>5, <1>6, <1>7, <1>8, <1>9, <1>10 DEF CallerStep

LEMMA TaskStepRInv ==
  ASSUME IInv, RInv, NEW c \in Caller, TaskStep(c)
  PROVE  RInv'
<1> USE DEF IInv, ControlType, TaskHasCaller, MutexIsTaken, RInv, ResultTypes, ChildrenCalled,
            DeviceIsReset, ChildResults, Outcomes, NotMadeIsUnused
<1>0. UNCHANGED sessionVars
  BY DEF TaskStep, GpuLock, GpuExecute, GpuFails
<1>1. CASE GpuLock(c)
  BY <1>0, <1>1, AnswersAreSettled DEF GpuLock, sessionVars, EmptyPartial
<1>2. CASE GpuExecute(c)
  <2>1. gpuResult' = [gpuResult EXCEPT ![c] = GpuAnswer]
    BY <1>2 DEF GpuExecute, GpuAnswer, GpuExecution
  <2>2. \A d \in Caller : task'[d] # "running"
    BY <1>2, CallerAssumption DEF GpuExecute
  <2> QED
    BY <1>0, <1>2, <2>1, <2>2, AnswersAreSettled DEF GpuExecute, sessionVars
<1>3. CASE GpuFails(c)
  BY <1>0, <1>3, AnswersAreSettled DEF GpuFails, sessionVars, EmptyPartial
<1> QED
  BY <1>1, <1>2, <1>3 DEF TaskStep

\* Making a session settles cut while nobody looks; ending it changes no result.
LEMMA OwnerStepRInv ==
  ASSUME IInv, RInv, Make \/ MakeFails \/ Destroy
  PROVE  RInv'
<1> USE DEF IInv, ControlType, RInv, ResultTypes, ChildrenCalled, DeviceIsReset, ChildResults,
            Outcomes, NotMadeIsUnused, callVars
<1>1. CASE Make
  BY <1>1 DEF Make, EmptyPartial
<1>2. CASE MakeFails
  BY <1>2 DEF MakeFails, EmptyPartial
<1>3. CASE Destroy
  <2>1. /\ HasCpu' = HasCpu /\ HasGpu' = HasGpu /\ CpuAnswer' = CpuAnswer
        /\ GpuAnswer' = GpuAnswer /\ Expected' = Expected
    BY <1>3 DEF Destroy, HasCpu, HasGpu, CpuAnswer, CpuExecution, GpuAnswer, GpuRows, Rows,
                Expected
  <2> QED
    BY <1>3, <2>1 DEF Destroy, EmptyPartial
<1> QED
  BY <1>1, <1>2, <1>3

LEMMA NextRInv == IInv /\ RInv /\ [Next]_vars => RInv'
<1> SUFFICES ASSUME IInv, RInv, [Next]_vars PROVE RInv'
  OBVIOUS
<1>1. ASSUME NEW c \in Caller, Call(c) \/ CallerStep(c) \/ TaskStep(c)
      PROVE  RInv'
  BY <1>1, CallerStepRInv, TaskStepRInv
<1>2. CASE UNCHANGED vars
  <2>1. UNCHANGED sessionVars
    BY <1>2 DEF vars, sessionVars
  <2> QED
    BY <1>2, <2>1, AnswersAreSettled
    DEF vars, callVars, RInv, ResultTypes, ChildrenCalled, DeviceIsReset, ChildResults,
        Outcomes, NotMadeIsUnused, EmptyPartial
<1> QED
  BY <1>1, <1>2, OwnerStepRInv DEF Next

\* For every table, cut, number of threads and number of callers: two requests
\* of one session that no machine failure met return the same thing, the same
\* error included (HybridQ5Session::Execute inspects the CPU's status first).
THEOREM RequestsReproduce == Spec => []RequestsAgree
<1>1. RInv => RequestsAgree
  BY DEF RInv, Outcomes, RequestsAgree, DataOutcome, Returned, Failed
<1> QED
  BY <1>1, Invariance, InitRInv, NextRInv, PTL DEF Spec

-----------------------------------------------------------------------------
(***************************************************************************)
(* Sums over rows.                                                         *)
(***************************************************************************)
SumFold == INSTANCE Folding
  WITH Op <- LAMBDA c, d, v, i : IF i \in d THEN v + c[i].revenue ELSE v

SumAt(rows, n) == SumOver(rows, RowsAt(rows, n))
Gain(row, n) == IF row.nation = n THEN row.revenue ELSE 0
Positions(k) == [i \in 1 .. k |-> i]

LEMMA SumOverIsFold ==
  \A rows, S : SumOver(rows, S) = SumFold!Fold(rows, S, 0, [i \in DOMAIN rows |-> i])
BY DEF SumOver, SumFold!Fold, FoldLeft, MapThenFoldSet, Max,
       SumFold!FoldLeft, SumFold!MapThenFoldSet, SumFold!Max

LEMMA PositionsGrow ==
  ASSUME NEW k \in Nat
  PROVE  /\ Positions(k) \in Seq(Nat) /\ Len(Positions(k)) = k
         /\ Positions(k + 1) = Append(Positions(k), k + 1)
         /\ \A i \in 1 .. k : Positions(k)[i] = i
<1>1. Positions(k) \in Seq(Nat) /\ Len(Positions(k)) = k
      /\ Positions(k + 1) \in Seq(Nat) /\ Len(Positions(k + 1)) = k + 1
  BY DEF Positions
<1>2. /\ \A i \in 1 .. k : Positions(k)[i] = i
      /\ \A i \in 1 .. k + 1 : Positions(k + 1)[i] = i
  BY DEF Positions
<1> DEFINE r == Append(Positions(k), k + 1)
<1>3. /\ r \in Seq(Nat) /\ Len(r) = k + 1 /\ r[k + 1] = k + 1
      /\ \A i \in 1 .. k : r[i] = Positions(k)[i]
  BY <1>1, AppendProperties
<1> HIDE DEF r
<1>4. \A i \in 1 .. k + 1 : Positions(k + 1)[i] = r[i]
  BY <1>2, <1>3
<1>5. Positions(k + 1) = r
  BY <1>1, <1>3, <1>4, SeqEqual
<1> QED
  BY <1>1, <1>2, <1>5 DEF r

LEMMA SumOfNothing == \A n : SumAt(<<>>, n) = 0
<1> TAKE n
<1>1. [i \in DOMAIN <<>> |-> i] = <<>>
  OBVIOUS
<1>2. SumFold!Fold(<<>>, RowsAt(<<>>, n), 0, <<>>) = 0
  BY SumFold!FoldOfNothing
<1> QED
  BY <1>1, <1>2, SumOverIsFold DEF SumAt

LEMMA SumIsInteger ==
  ASSUME NEW rows \in Seq(Row), NEW n
  PROVE  SumAt(rows, n) \in Int
<1> DEFINE X == 1 .. Len(rows)
           S == RowsAt(rows, n)
           p == [i \in DOMAIN rows |-> i]
<1>1. p \in Seq(X)
  OBVIOUS
<1>2. \A i \in X : rows[i].revenue \in Int
  BY DEF Row
<1>3. 0 \in Int /\ \A v \in Int, i \in X : (IF i \in S THEN v + rows[i].revenue ELSE v) \in Int
  BY <1>2
<1> HIDE DEF X, S, p
<1>4. SumFold!Fold(rows, S, 0, p) \in Int
  BY <1>1, <1>3, SumFold!FoldClosed
<1> QED
  BY <1>4, SumOverIsFold DEF SumAt, S, p

\* The rows before the last add up to what they do without it.
LEMMA SumOfAppend ==
  ASSUME NEW rows \in Seq(Row), NEW x \in Row, NEW n
  PROVE  SumAt(Append(rows, x), n) = SumAt(rows, n) + Gain(x, n)
<1> DEFINE k == Len(rows)
           longer == Append(rows, x)
           S == RowsAt(rows, n)
           T == RowsAt(longer, n)
           p == Positions(k)
           F(q, U) == SumFold!Fold(q, U, 0, p)
<1>1. k \in Nat /\ DOMAIN rows = 1 .. k /\ DOMAIN longer = 1 .. k + 1
      /\ (\A i \in 1 .. k : longer[i] = rows[i]) /\ longer[k + 1] = x
  BY AppendProperties
<1> HIDE DEF longer, k
<1>2. /\ \A i \in 1 .. k : i \in T <=> i \in S
      /\ k + 1 \in T <=> x.nation = n
  BY <1>1 DEF RowsAt
<1>3. SumAt(rows, n) = F(rows, S)
  BY <1>1, SumOverIsFold DEF SumAt, Positions
<1>4. SumAt(longer, n) = SumFold!Fold(longer, T, 0, Positions(k + 1))
  BY <1>1, SumOverIsFold DEF SumAt, Positions
<1>5. Positions(k + 1) = Append(p, k + 1) /\ p \in Seq(Nat) /\ Len(p) = k
      /\ \A i \in 1 .. k : p[i] = i
  BY <1>1, PositionsGrow
<1> HIDE DEF S, T, p
<1>6. SumFold!Fold(longer, T, 0, Append(p, k + 1)) =
        IF k + 1 \in T THEN F(longer, T) + longer[k + 1].revenue ELSE F(longer, T)
  <2>1. k + 1 \in Nat
    BY <1>1
  <2> QED
    BY <1>5, <2>1, SumFold!FoldOfAppend
<1>7. F(longer, T) = F(rows, S)
  <2> DEFINE G(j) == SumFold!Fold(rows, S, 0, SubSeq(p, 1, j))
             I == {<<j, G(j)>> : j \in 0 .. k}
  <2>1. G(0) = 0
    <3>1. SubSeq(p, 1, 0) = <<>>
      BY SubSeqEmpty
    <3> QED
      BY <3>1, SumFold!FoldOfNothing
  <2>2. <<0, 0>> \in I
    <3>1. <<0, G(0)>> \in I
      BY <1>1
    <3> HIDE DEF G, I
    <3> QED
      BY <2>1, <3>1
  <2>3. \A j \in 1 .. Len(p) : \A v :
          <<j - 1, v>> \in I =>
            <<j, IF p[j] \in T THEN v + longer[p[j]].revenue ELSE v>> \in I
    <3> SUFFICES ASSUME NEW j \in 1 .. Len(p), NEW v, <<j - 1, v>> \in I
                 PROVE  <<j, IF p[j] \in T THEN v + longer[p[j]].revenue ELSE v>> \in I
      OBVIOUS
    <3>1. j \in 1 .. k /\ p[j] = j /\ j \in Nat
      <4> HIDE DEF G, I
      <4>1. k \in Nat /\ Len(p) = k
        BY <1>1, <1>5
      <4>2. j \in 1 .. k /\ j \in Nat
        BY <4>1
      <4> QED
        BY <1>5, <4>2
    <3>2. v = G(j - 1)
      OBVIOUS
    <3>3. G(j) = IF p[j] \in S THEN G(j - 1) + rows[p[j]].revenue ELSE G(j - 1)
      BY <1>5, SumFold!FoldOfPrefix
    <3>4. <<j, G(j)>> \in I
      BY <1>1, <3>1
    <3> HIDE DEF G, I
    <3> QED
      BY <1>1, <1>2, <3>1, <3>2, <3>3, <3>4
  <2>4. <<Len(p), SumFold!Fold(longer, T, 0, p)>> \in I
    <3> HIDE DEF I
    <3> QED
      BY <1>5, <2>2, <2>3, SumFold!FoldInduction
  <2>5. SumFold!Fold(longer, T, 0, p) = G(k)
    <3> HIDE DEF G
    <3> QED
      BY <1>5, <2>4
  <2>6. SubSeq(p, 1, k) = p
    BY <1>5, SubSeqFull
  <2> QED
    BY <2>5, <2>6
<1> HIDE DEF F
<1>8. SumAt(rows, n) \in Int
  BY SumIsInteger
<1>9. SumAt(longer, n) = SumAt(rows, n) + Gain(x, n)
  <2>1. CASE x.nation = n
    BY <1>1, <1>2, <1>3, <1>4, <1>5, <1>6, <1>7, <2>1 DEF Gain
  <2>2. CASE x.nation # n
    <3>1. SumAt(longer, n) = SumAt(rows, n) /\ Gain(x, n) = 0
      BY <1>1, <1>2, <1>3, <1>4, <1>5, <1>6, <1>7, <2>2 DEF Gain
    <3> QED
      BY <1>8, <3>1
  <2> QED
    BY <2>1, <2>2
<1> QED
  BY <1>9 DEF longer

-----------------------------------------------------------------------------
(***************************************************************************)
(* What rows in a row amount to.                                           *)
(***************************************************************************)
AllValid(rows) == \A i \in DOMAIN rows : rows[i].nation # None => rows[i].valid

Exact(rows) ==
  [sums |-> [n \in Nation |-> SumAt(rows, n)],
   matched |-> Cardinality(Matching(rows)), input |-> Len(rows), status |-> "ok"]

LEMMA AnswerableMeans ==
  ASSUME NEW rows
  PROVE  Answerable(rows) <=> AllValid(rows) /\ \A n \in Nation : SumAt(rows, n) <= MaxI64
BY DEF Answerable, AllValid, SumAt

LEMMA GainIsInteger ==
  ASSUME NEW x \in Row, NEW n
  PROVE  /\ Gain(x, n) \in Int
         /\ n \in Nation /\ (x.nation # None => x.valid) => Gain(x, n) >= 0
BY NoneIsNoNation DEF Gain, Row

LEMMA MatchingOfNothing == Cardinality(Matching(<<>>)) = 0
<1>1. Matching(<<>>) = {}
  BY DEF Matching
<1> QED
  BY <1>1, FS_EmptySet

LEMMA MatchingOfAppend ==
  ASSUME NEW rows \in Seq(Row), NEW x \in Row
  PROVE  /\ Cardinality(Matching(rows)) \in Nat
         /\ Cardinality(Matching(Append(rows, x))) =
              Cardinality(Matching(rows)) + IF x.nation = None THEN 0 ELSE 1
<1> DEFINE k == Len(rows)
           longer == Append(rows, x)
<1>1. k \in Nat /\ DOMAIN rows = 1 .. k /\ DOMAIN longer = 1 .. k + 1
      /\ (\A i \in 1 .. k : longer[i] = rows[i]) /\ longer[k + 1] = x
  BY AppendProperties
<1> HIDE DEF longer, k
<1>2. IsFiniteSet(Matching(rows))
  <2>1. IsFiniteSet(1 .. k)
    BY <1>1, FS_Interval
  <2>2. Matching(rows) \subseteq 1 .. k
    BY <1>1 DEF Matching
  <2> QED
    BY <2>1, <2>2, FS_Subset
<1>3. Cardinality(Matching(rows)) \in Nat
  BY <1>2, FS_CardinalityType
<1>4. CASE x.nation = None
  <2>1. Matching(longer) = Matching(rows)
    BY <1>1, <1>4 DEF Matching
  <2> QED
    BY <1>3, <1>4, <2>1 DEF longer
<1>5. CASE x.nation # None
  <2>1. Matching(longer) = Matching(rows) \cup {k + 1}
    BY <1>1, <1>5 DEF Matching
  <2>2. k + 1 \notin Matching(rows)
    BY <1>1 DEF Matching
  <2>3. Cardinality(Matching(rows) \cup {k + 1}) = Cardinality(Matching(rows)) + 1
    BY <1>2, <2>2, FS_AddElement
  <2> QED
    BY <1>3, <1>5, <2>1, <2>3 DEF longer
<1> QED
  BY <1>4, <1>5

LEMMA ValidOfAppend ==
  ASSUME NEW rows \in Seq(Row), NEW x \in Row
  PROVE  AllValid(Append(rows, x)) <=> AllValid(rows) /\ (x.nation # None => x.valid)
<1> DEFINE k == Len(rows)
           longer == Append(rows, x)
<1>1. k \in Nat /\ DOMAIN rows = 1 .. k /\ DOMAIN longer = 1 .. k + 1
      /\ (\A i \in 1 .. k : longer[i] = rows[i]) /\ longer[k + 1] = x
  BY AppendProperties
<1> HIDE DEF longer, k
<1> QED
  BY <1>1 DEF AllValid, longer

\* Rows that are valid add up to no negative sum.
LEMMA SumsAreNatural ==
  \A rows \in Seq(Row) : AllValid(rows) => \A n \in Nation : SumAt(rows, n) \in Nat
<1> DEFINE T == {rows \in Seq(Row) :
                   AllValid(rows) => \A n \in Nation : SumAt(rows, n) \in Nat}
<1>1. <<>> \in T
  <2>1. \A n \in Nation : SumAt(<<>>, n) \in Nat
    BY SumOfNothing
  <2> QED
    BY <2>1
<1>2. ASSUME NEW rows \in T, NEW x \in Row PROVE Append(rows, x) \in T
  <2>1. Append(rows, x) \in Seq(Row)
    BY AppendProperties
  <2> SUFFICES ASSUME AllValid(Append(rows, x)), NEW n \in Nation
               PROVE  SumAt(Append(rows, x), n) \in Nat
    BY <2>1
  <2>2. AllValid(rows) /\ (x.nation # None => x.valid)
    BY ValidOfAppend
  <2>3. SumAt(rows, n) \in Nat
    BY <2>2
  <2>4. Gain(x, n) \in Nat
    BY <2>2, GainIsInteger
  <2> HIDE DEF T
  <2>5. SumAt(Append(rows, x), n) = SumAt(rows, n) + Gain(x, n)
    BY SumOfAppend DEF T
  <2> QED
    BY <2>3, <2>4, <2>5
<1>3. T \in SUBSET Seq(Row)
  OBVIOUS
<1>4. T = Seq(Row)
  <2> HIDE DEF T
  <2> QED
    BY <1>1, <1>2, <1>3, SumFold!SequenceInduction
<1> QED
  BY <1>4

LEMMA ConcatOfAppend ==
  ASSUME NEW X, NEW a \in Seq(X), NEW b \in Seq(X), NEW x \in X
  PROVE  a \o Append(b, x) = Append(a \o b, x)
<1>1. <<x>> \in Seq(X)
  OBVIOUS
<1>2. Append(b, x) = b \o <<x>>
  BY AppendIsConcat
<1>3. a \o b \in Seq(X)
  BY ConcatProperties
<1>4. Append(a \o b, x) = (a \o b) \o <<x>>
  BY <1>3, AppendIsConcat
<1>5. (a \o b) \o <<x>> = a \o (b \o <<x>>)
  BY <1>1, ConcatAssociative
<1> QED
  BY <1>2, <1>4, <1>5

\* Two parts of a table.
LEMMA PartsAddUp ==
  ASSUME NEW a \in Seq(Row)
  PROVE  \A b \in Seq(Row) :
           /\ \A n : SumAt(a \o b, n) = SumAt(a, n) + SumAt(b, n)
           /\ Cardinality(Matching(a \o b)) =
                Cardinality(Matching(a)) + Cardinality(Matching(b))
           /\ AllValid(a \o b) <=> AllValid(a) /\ AllValid(b)
<1> DEFINE M(rows) == Cardinality(Matching(rows))
           Adds(b) == /\ \A n : SumAt(a \o b, n) = SumAt(a, n) + SumAt(b, n)
                      /\ M(a \o b) = M(a) + M(b)
                      /\ AllValid(a \o b) <=> AllValid(a) /\ AllValid(b)
           T == {b \in Seq(Row) : Adds(b)}
<1>0. ASSUME NEW r \in Seq(Row) PROVE M(r) \in Nat
  <2>1. \A x \in Row : M(r) \in Nat
    BY MatchingOfAppend
  <2>2. CASE Row = {}
    <3>1. r = <<>>
      BY <2>2, EmptySeq
    <3> QED
      BY <3>1, MatchingOfNothing
  <2> QED
    BY <2>1, <2>2
<1>1. <<>> \in T
  <2>1. a \o <<>> = a /\ <<>> \in Seq(Row)
    BY ConcatEmptySeq
  <2>2. \A n : SumAt(a, n) \in Int
    BY SumIsInteger
  <2>3. M(a) \in Nat
    BY <1>0
  <2>4. AllValid(<<>>)
    BY DEF AllValid
  <2> HIDE DEF M
  <2> QED
    BY <2>1, <2>2, <2>3, <2>4, SumOfNothing, MatchingOfNothing DEF M
<1>2. ASSUME NEW b \in T, NEW x \in Row PROVE Append(b, x) \in T
  <2> DEFINE c == Append(b, x)
  <2>1. b \in Seq(Row) /\ c \in Seq(Row) /\ a \o b \in Seq(Row) /\ Adds(b)
        /\ a \o c = Append(a \o b, x)
    BY AppendProperties, ConcatProperties, ConcatOfAppend
  <2>2. \A n : SumAt(a \o c, n) = SumAt(a, n) + SumAt(c, n)
    <3> TAKE n
    <3>1. SumAt(a \o c, n) = SumAt(a \o b, n) + Gain(x, n) /\ SumAt(c, n) = SumAt(b, n) + Gain(x, n)
      BY <2>1, SumOfAppend
    <3>2. SumAt(a, n) \in Int /\ SumAt(b, n) \in Int /\ Gain(x, n) \in Int
      BY <2>1, SumIsInteger, GainIsInteger
    <3>3. SumAt(a \o b, n) = SumAt(a, n) + SumAt(b, n)
      BY <2>1
    <3> HIDE DEF c, T
    <3> QED
      BY <3>1, <3>2, <3>3
  <2>3. M(a \o c) = M(a) + M(c)
    <3>1. M(a \o c) = M(a \o b) + (IF x.nation = None THEN 0 ELSE 1)
          /\ M(c) = M(b) + (IF x.nation = None THEN 0 ELSE 1)
      BY <2>1, MatchingOfAppend
    <3>2. M(a) \in Nat /\ M(b) \in Nat
      BY <1>0, <2>1
    <3>3. M(a \o b) = M(a) + M(b)
      BY <2>1
    <3> HIDE DEF c, T, M
    <3> QED
      BY <3>1, <3>2, <3>3
  <2>4. AllValid(a \o c) <=> AllValid(a) /\ AllValid(c)
    <3>1. /\ AllValid(a \o c) <=> AllValid(a \o b) /\ (x.nation # None => x.valid)
          /\ AllValid(c) <=> AllValid(b) /\ (x.nation # None => x.valid)
      BY <2>1, ValidOfAppend
    <3> QED
      BY <2>1, <3>1
  <2>5. Adds(c) /\ c \in Seq(Row)
    <3> HIDE DEF c, T
    <3> QED
      BY <2>1, <2>2, <2>3, <2>4
  <2> HIDE DEF Adds
  <2> QED
    BY <2>5
<1>3. T \in SUBSET Seq(Row)
  OBVIOUS
<1>4. T = Seq(Row)
  <2> HIDE DEF T
  <2> QED
    BY <1>1, <1>2, <1>3, SumFold!SequenceInduction
<1> QED
  BY <1>4

LEMMA PartsOfAnswerable ==
  ASSUME NEW a \in Seq(Row), NEW b \in Seq(Row)
  PROVE  /\ Answerable(a \o b) <=>
              AllValid(a) /\ AllValid(b) /\ \A n \in Nation : SumAt(a, n) + SumAt(b, n) <= MaxI64
         /\ Answerable(a \o b) => Answerable(a) /\ Answerable(b)
<1>1. Answerable(a \o b) <=>
        AllValid(a) /\ AllValid(b) /\ \A n \in Nation : SumAt(a, n) + SumAt(b, n) <= MaxI64
  BY PartsAddUp, AnswerableMeans
<1>2. ASSUME Answerable(a \o b) PROVE Answerable(a) /\ Answerable(b)
  <2>1. AllValid(a) /\ AllValid(b) /\ \A n \in Nation : SumAt(a, n) + SumAt(b, n) <= MaxI64
    BY <1>1, <1>2
  <2>2. \A n \in Nation : SumAt(a, n) \in Nat /\ SumAt(b, n) \in Nat
    BY <2>1, SumsAreNatural
  <2>3. \A n \in Nation : SumAt(a, n) <= MaxI64 /\ SumAt(b, n) <= MaxI64
    BY <2>1, <2>2, LimitIsNatural
  <2> QED
    BY <2>1, <2>3, AnswerableMeans
<1> QED
  BY <1>1, <1>2

-----------------------------------------------------------------------------
(***************************************************************************)
(* Scanning rows one at a time.                                            *)
(***************************************************************************)
ScanFold == INSTANCE Folding WITH Op <- LAMBDA c, d, v, x : ScanRow(v, x)

Scanned(rows) == FoldLeft(ScanRow, EmptyPartial, rows)

LEMMA ScannedIsFold == \A rows : Scanned(rows) = ScanFold!Fold(0, 0, EmptyPartial, rows)
BY DEF Scanned, ScanFold!Fold, FoldLeft, MapThenFoldSet, Max,
       ScanFold!FoldLeft, ScanFold!MapThenFoldSet, ScanFold!Max

LEMMA ScannedOfAppend ==
  ASSUME NEW rows \in Seq(Row), NEW x \in Row
  PROVE  Scanned(Append(rows, x)) = ScanRow(Scanned(rows), x)
<1>1. ScanFold!Fold(0, 0, EmptyPartial, Append(rows, x)) =
        ScanRow(ScanFold!Fold(0, 0, EmptyPartial, rows), x)
  BY ScanFold!FoldOfAppend
<1> QED
  BY <1>1, ScannedIsFold

\* What a scan of rows yields: their sums if there is an answer, or else an error.
ScanIsRight(rows) ==
  LET p == Scanned(rows) IN
  /\ p.status = "ok" <=> Answerable(rows)
  /\ Answerable(rows) => p = [Exact(rows) EXCEPT !.input = 0]

LEMMA ScansAreRight == \A rows \in Seq(Row) : ScanIsRight(rows)
<1> DEFINE T == {rows \in Seq(Row) : ScanIsRight(rows)}
<1>1. <<>> \in T
  <2>1. Scanned(<<>>) = EmptyPartial
    BY ScannedIsFold, ScanFold!FoldOfNothing
  <2>2. Answerable(<<>>)
    <3>1. AllValid(<<>>)
      BY DEF AllValid
    <3> QED
      BY <3>1, SumOfNothing, LimitIsNatural, AnswerableMeans
  <2>3. EmptyPartial = [Exact(<<>>) EXCEPT !.input = 0]
    BY SumOfNothing, MatchingOfNothing DEF Exact, EmptyPartial
  <2>4. EmptyPartial.status = "ok"
    BY DEF EmptyPartial
  <2>5. ScanIsRight(<<>>)
    BY <2>1, <2>2, <2>3, <2>4 DEF ScanIsRight
  <2> QED
    BY <2>5
<1>2. ASSUME NEW rows \in T, NEW x \in Row PROVE Append(rows, x) \in T
  <2> DEFINE longer == Append(rows, x)
             p == Scanned(rows)
             q == Scanned(longer)
             sums == [n \in Nation |-> SumAt(rows, n)]
             m == x.nation
  <2>1. rows \in Seq(Row) /\ longer \in Seq(Row) /\ ScanIsRight(rows)
    BY AppendProperties
  <2>2. q = ScanRow(p, x)
    BY <2>1, ScannedOfAppend
  <2>3. /\ AllValid(longer) <=> AllValid(rows) /\ (m # None => x.valid)
        /\ \A n : SumAt(longer, n) = SumAt(rows, n) + Gain(x, n)
        /\ \A n : SumAt(rows, n) \in Int /\ Gain(x, n) \in Int
    BY <2>1, ValidOfAppend, SumOfAppend, SumIsInteger, GainIsInteger
  <2>4. /\ p.status = "ok" <=> Answerable(rows)
        /\ Answerable(rows) =>
             p = [sums |-> sums, matched |-> Cardinality(Matching(rows)), input |-> 0,
                  status |-> "ok"]
    BY <2>1 DEF ScanIsRight, Exact
  <2>5. /\ Cardinality(Matching(rows)) \in Nat
        /\ Cardinality(Matching(longer)) =
             Cardinality(Matching(rows)) + IF m = None THEN 0 ELSE 1
    BY <2>1, MatchingOfAppend
  <2>6. m \in Nation \cup {None} /\ x.revenue \in Int
    BY DEF Row
  <2> DEFINE now == [n \in Nation |-> SumAt(longer, n)]
             count == Cardinality(Matching(longer))
             right == [sums |-> now, matched |-> count, input |-> 0, status |-> "ok"]
  <2> HIDE DEF T, longer, p, q
  <2>7. SUFFICES /\ q.status = "ok" <=> Answerable(longer)
                 /\ Answerable(longer) => q = right
    <3>1. Exact(longer) =
            [sums |-> now, matched |-> count, input |-> Len(longer), status |-> "ok"]
      BY DEF Exact
    <3> HIDE DEF now, count
    <3>3. [Exact(longer) EXCEPT !.input = 0] = right
      BY <3>1
    <3> HIDE DEF right
    <3>2. ScanIsRight(longer)
      BY <3>3 DEF ScanIsRight, q
    <3> QED
      BY <2>1, <3>2 DEF T, longer
  <2>8. CASE ~Answerable(rows)
    <3>1. q = p /\ p.status # "ok"
      BY <2>2, <2>4, <2>8 DEF ScanRow
    <3>2. ~Answerable(longer)
      <4> SUFFICES ASSUME Answerable(longer) PROVE FALSE
        OBVIOUS
      <4>1. AllValid(rows) /\ (m # None => x.valid)
            /\ \A n \in Nation : SumAt(rows, n) + Gain(x, n) <= MaxI64
        BY <2>3, AnswerableMeans
      <4>2. \A n \in Nation : Gain(x, n) >= 0
        BY <4>1, GainIsInteger
      <4>3. \A n \in Nation : SumAt(rows, n) <= MaxI64
        BY <2>3, <4>1, <4>2, LimitIsNatural
      <4> QED
        BY <2>8, <4>1, <4>3, AnswerableMeans
    <3> QED
      BY <3>1, <3>2
  <2>9. CASE Answerable(rows) /\ m = None
    <3>1. \A n \in Nation : Gain(x, n) = 0
      BY <2>9, NoneIsNoNation DEF Gain
    <3>2. \A n \in Nation : SumAt(longer, n) = SumAt(rows, n)
      BY <2>3, <3>1
    <3>3. Answerable(longer)
      BY <2>3, <2>9, <3>2, AnswerableMeans
    <3>4. q = p
      BY <2>2, <2>9 DEF ScanRow
    <3>5. now = sums
      BY <3>2
    <3>6. count = Cardinality(Matching(rows))
      BY <2>5, <2>9
    <3> HIDE DEF now, sums, count
    <3> QED
      BY <2>4, <2>9, <3>3, <3>4, <3>5, <3>6
  <2>10. CASE Answerable(rows) /\ m # None /\ ~x.valid
    <3>1. ~Answerable(longer)
      BY <2>3, <2>10, AnswerableMeans
    <3>2. q = [p EXCEPT !.status = "invalid"]
      BY <2>2, <2>4, <2>10 DEF ScanRow
    <3>3. q.status = "invalid"
      BY <2>4, <2>10, <3>2
    <3> QED
      BY <3>1, <3>3
  <2>11. CASE Answerable(rows) /\ m # None /\ x.valid
    <3>1. m \in Nation /\ Gain(x, m) = x.revenue
          /\ \A n \in Nation : n # m => Gain(x, n) = 0
      BY <2>6, <2>11 DEF Gain
    <3>2. SumAt(longer, m) = SumAt(rows, m) + x.revenue
          /\ \A n \in Nation : n # m => SumAt(longer, n) = SumAt(rows, n)
      BY <2>3, <3>1
    <3>3. p.sums = sums /\ p.matched = Cardinality(Matching(rows)) /\ p.input = 0
          /\ p.status = "ok"
      BY <2>4, <2>11
    <3>4. p.sums[m] = SumAt(rows, m)
      BY <3>1, <3>3
    <3>5. CASE ~Fits(p.sums[m], x.revenue)
      <4>1. q = [p EXCEPT !.status = "capacity"]
        BY <2>2, <2>11, <3>3, <3>5 DEF ScanRow
      <4>2. q.status = "capacity"
        BY <2>4, <2>11, <4>1
      <4>3. ~(SumAt(longer, m) <= MaxI64)
        BY <3>2, <3>4, <3>5 DEF Fits
      <4>4. ~Answerable(longer)
        BY <3>1, <4>3, AnswerableMeans
      <4> QED
        BY <4>2, <4>4
    <3>6. CASE Fits(p.sums[m], x.revenue)
      <4>1. q = [p EXCEPT !.sums[m] = @ + x.revenue, !.matched = @ + 1]
        BY <2>2, <2>11, <3>3, <3>6 DEF ScanRow
      <4>2. SumAt(longer, m) <= MaxI64
        BY <3>2, <3>4, <3>6 DEF Fits
      <4>3. Answerable(longer)
        BY <2>3, <2>11, <3>2, <4>2, AnswerableMeans
      <4>4. now = [sums EXCEPT ![m] = @ + x.revenue]
        <5>1. \A n \in Nation : now[n] = [sums EXCEPT ![m] = @ + x.revenue][n]
          BY <3>1, <3>2
        <5> QED
          BY <5>1
      <4>5. count = Cardinality(Matching(rows)) + 1
        BY <2>5, <2>11
      <4> HIDE DEF now, sums, count
      <4>6. p = [sums |-> sums, matched |-> Cardinality(Matching(rows)), input |-> 0,
                 status |-> "ok"]
        BY <2>4, <2>11
      <4>7. q = right
        BY <4>1, <4>4, <4>5, <4>6
      <4> QED
        BY <4>3, <4>7
    <3> QED
      BY <3>5, <3>6
  <2> QED
    BY <2>8, <2>9, <2>10, <2>11
<1>3. T \in SUBSET Seq(Row)
  OBVIOUS
<1>4. T = Seq(Row)
  <2> HIDE DEF T
  <2> QED
    BY <1>1, <1>2, <1>3, SumFold!SequenceInduction
<1> QED
  BY <1>4

-----------------------------------------------------------------------------
(***************************************************************************)
(* Merging what the ranges of a table yield.                               *)
(***************************************************************************)
MergeFold == INSTANCE Folding WITH Op <- LAMBDA c, d, v, p : MergePartial(v, p)

LEMMA MergeIsFold ==
  \A s : FoldLeft(MergePartial, EmptyPartial, s) = MergeFold!Fold(0, 0, EmptyPartial, s)
BY DEF MergeFold!Fold, FoldLeft, MapThenFoldSet, Max,
       MergeFold!FoldLeft, MergeFold!MapThenFoldSet, MergeFold!Max

\* A partial of rows: exact, or with the error that a scan of the rows meets.
Yields(p, rows) ==
  /\ p.status = Scanned(rows).status
  /\ p.status = "ok" => p = Exact(rows)

TooLarge(rows) == \E n \in Nation : SumAt(rows, n) > MaxI64

LEMMA ConcatRows ==
  ASSUME NEW a \in Seq(Row), NEW b \in Seq(Row)
  PROVE  /\ a \o b \in Seq(Row) /\ Len(a \o b) = Len(a) + Len(b)
         /\ Len(a) \in Nat /\ Len(b) \in Nat
BY ConcatProperties, LenProperties

LEMMA CountIsNatural ==
  ASSUME NEW rows \in Seq(Row)
  PROVE  Cardinality(Matching(rows)) \in Nat
<1>1. \A x \in Row : Cardinality(Matching(rows)) \in Nat
  BY MatchingOfAppend
<1>2. CASE Row = {}
  <2>1. rows = <<>>
    BY <1>2, EmptySeq
  <2> QED
    BY <2>1, MatchingOfNothing
<1> QED
  BY <1>1, <1>2

\* Two exact partials whose nations' sums fit make an exact one.
LEMMA ExactsAddUp ==
  ASSUME NEW a \in Seq(Row), NEW b \in Seq(Row)
  PROVE  [sums |-> [n \in Nation |-> Exact(a).sums[n] + Exact(b).sums[n]],
          matched |-> Exact(a).matched + Exact(b).matched,
          input |-> Exact(a).input + Exact(b).input,
          status |-> "ok"] = Exact(a \o b)
<1> DEFINE both == [n \in Nation |-> Exact(a).sums[n] + Exact(b).sums[n]]
           now == [n \in Nation |-> SumAt(a \o b, n)]
           count(r) == Cardinality(Matching(r))
<1>1. \A n \in Nation : Exact(a).sums[n] = SumAt(a, n) /\ Exact(b).sums[n] = SumAt(b, n)
  BY DEF Exact
<1>2. \A n \in Nation : SumAt(a \o b, n) = SumAt(a, n) + SumAt(b, n)
  BY PartsAddUp
<1>3. both = now
  BY <1>1, <1>2
<1>4. Exact(a).matched = count(a) /\ Exact(b).matched = count(b)
      /\ Exact(a).input = Len(a) /\ Exact(b).input = Len(b)
  BY DEF Exact
<1>5. count(a \o b) = count(a) + count(b) /\ Len(a \o b) = Len(a) + Len(b)
  BY PartsAddUp, ConcatRows
<1>6. Exact(a \o b) =
        [sums |-> now, matched |-> count(a \o b), input |-> Len(a \o b), status |-> "ok"]
  BY DEF Exact
<1> HIDE DEF both, now, count
<1>7. [sums |-> both, matched |-> Exact(a).matched + Exact(b).matched,
       input |-> Exact(a).input + Exact(b).input, status |-> "ok"] = Exact(a \o b)
  BY <1>3, <1>4, <1>5, <1>6
<1> QED
  BY <1>7 DEF both

\* The merge of what two parts yield, the first one exact.
LEMMA MergeStep ==
  ASSUME NEW a \in Seq(Row), NEW b \in Seq(Row), Answerable(a), NEW p, Yields(p, b)
  PROVE  LET m == MergePartial(Exact(a), p) IN
         /\ m.status = IF p.status # "ok" THEN p.status
                       ELSE IF TooLarge(a \o b) THEN "capacity" ELSE "ok"
         /\ m.status = "ok" <=> Answerable(a \o b)
         /\ m.status = "ok" => m = Exact(a \o b)
<1> DEFINE m == MergePartial(Exact(a), p)
           e == Exact(a)
           f == Exact(b)
<1>1. e.status = "ok" /\ \A v : [e EXCEPT !.status = v].status = v
  BY DEF Exact
<1>2. /\ p.status = "ok" <=> Answerable(b)
      /\ p.status = "ok" => p = f
  BY ScansAreRight DEF ScanIsRight, Yields
<1>3. \A n \in Nation : /\ e.sums[n] = SumAt(a, n) /\ f.sums[n] = SumAt(b, n)
                        /\ SumAt(a \o b, n) = SumAt(a, n) + SumAt(b, n)
                        /\ SumAt(a, n) \in Int /\ SumAt(b, n) \in Int
  BY PartsAddUp, SumIsInteger DEF Exact
<1>4. CASE p.status # "ok"
  <2>1. m.status = p.status
    BY <1>1, <1>4 DEF MergePartial
  <2>2. ~Answerable(a \o b)
    BY <1>2, <1>4, PartsOfAnswerable
  <2> QED
    BY <1>4, <2>1, <2>2
<1>5. CASE p.status = "ok" /\ TooLarge(a \o b)
  <2>1. PICK n \in Nation : SumAt(a \o b, n) > MaxI64
    BY <1>5 DEF TooLarge
  <2>2. ~Fits(e.sums[n], f.sums[n])
    BY <1>3, <2>1, LimitIsNatural DEF Fits
  <2>3. m = [e EXCEPT !.status = "capacity"]
    BY <1>1, <1>2, <1>5, <2>2 DEF MergePartial
  <2>4. m.status = "capacity"
    BY <1>1, <2>3
  <2>5. ~(SumAt(a \o b, n) <= MaxI64)
    BY <1>3, <2>1, LimitIsNatural
  <2>6. ~Answerable(a \o b)
    BY <2>5, AnswerableMeans
  <2> QED
    BY <1>5, <2>4, <2>6
<1>6. CASE p.status = "ok" /\ ~TooLarge(a \o b)
  <2>1. \A n \in Nation : Fits(e.sums[n], f.sums[n]) /\ SumAt(a, n) + SumAt(b, n) <= MaxI64
    BY <1>3, <1>6, LimitIsNatural DEF Fits, TooLarge
  <2>2. m = [sums |-> [n \in Nation |-> e.sums[n] + f.sums[n]],
             matched |-> e.matched + f.matched,
             input |-> e.input + f.input,
             status |-> "ok"]
    BY <1>1, <1>2, <1>6, <2>1 DEF MergePartial
  <2>3. m = Exact(a \o b)
    BY <2>2, ExactsAddUp
  <2>4. m.status = "ok"
    BY <2>3 DEF Exact
  <2>5. Answerable(a \o b)
    BY <1>2, <1>6, <2>1, AnswerableMeans, PartsOfAnswerable
  <2> QED
    BY <1>6, <2>3, <2>4, <2>5
<1> QED
  BY <1>4, <1>5, <1>6

-----------------------------------------------------------------------------
(***************************************************************************)
(* The ranges of a table.                                                  *)
(***************************************************************************)
Bound(rows, count, w) == (Len(rows) * w) \div count
Before(rows, count, w) == SubSeq(rows, 1, Bound(rows, count, w))
Segment(rows, count, w) ==
  SubSeq(rows, Bound(rows, count, w) + 1, Bound(rows, count, w + 1))

LEMMA RangesInOrder ==
  ASSUME NEW rows \in Seq(Row), NEW count \in Nat \ {0}
  PROVE  /\ Bound(rows, count, 0) = 0 /\ Bound(rows, count, count) = Len(rows)
         /\ \A w \in 0 .. count - 1 :
              /\ Bound(rows, count, w) \in 0 .. Len(rows)
              /\ Bound(rows, count, w + 1) \in 0 .. Len(rows)
              /\ Bound(rows, count, w) <= Bound(rows, count, w + 1)
<1> DEFINE k == Len(rows)
<1>1. k \in Nat
  BY LenProperties
<1> HIDE DEF k
<1>2. ASSUME NEW x \in Nat, NEW y \in Nat, x <= y
      PROVE  (x \div count) \in Nat /\ (y \div count) \in Nat /\ x \div count <= y \div count
  BY <1>2
<1>3. (k * count) \div count = k /\ k * 0 = 0 /\ 0 \div count = 0
  BY <1>1
<1>4. ASSUME NEW w \in 0 .. count - 1
      PROVE  k * w \in Nat /\ k * (w + 1) \in Nat /\ k * count \in Nat
             /\ k * w <= k * (w + 1) /\ k * (w + 1) <= k * count
  <2>1. w \in Nat /\ w + 1 <= count /\ count - (w + 1) \in Nat
    OBVIOUS
  <2>2. k * (count - (w + 1)) \in Nat
    BY <1>1, <2>1
  <2>3. k * count = k * (w + 1) + k * (count - (w + 1)) /\ k * (w + 1) = k * w + k
    BY <1>1, <2>1
  <2>4. k * w \in Nat
    BY <1>1, <2>1
  <2> QED
    BY <1>1, <2>2, <2>3, <2>4
<1>5. ASSUME NEW w \in 0 .. count - 1
      PROVE  /\ (k * w) \div count \in 0 .. k /\ (k * (w + 1)) \div count \in 0 .. k
             /\ (k * w) \div count <= (k * (w + 1)) \div count
  BY <1>1, <1>2, <1>3, <1>4
<1> QED
  BY <1>3, <1>5 DEF Bound, k

LEMMA PrefixesGrow ==
  ASSUME NEW rows \in Seq(Row), NEW count \in Nat \ {0}
  PROVE  /\ Before(rows, count, 0) = <<>> /\ Before(rows, count, count) = rows
         /\ \A w \in 0 .. count - 1 :
              /\ Before(rows, count, w) \in Seq(Row) /\ Segment(rows, count, w) \in Seq(Row)
              /\ Before(rows, count, w + 1) = Before(rows, count, w) \o Segment(rows, count, w)
              /\ Len(Segment(rows, count, w)) = Bound(rows, count, w + 1) - Bound(rows, count, w)
<1>1. Before(rows, count, 0) = <<>>
  BY RangesInOrder, SubSeqEmpty DEF Before
<1>2. Before(rows, count, count) = rows
  BY RangesInOrder, SubSeqFull DEF Before
<1>3. ASSUME NEW w \in 0 .. count - 1
      PROVE  /\ Before(rows, count, w) \in Seq(Row) /\ Segment(rows, count, w) \in Seq(Row)
             /\ Before(rows, count, w + 1) = Before(rows, count, w) \o Segment(rows, count, w)
             /\ Len(Segment(rows, count, w)) = Bound(rows, count, w + 1) - Bound(rows, count, w)
  <2> DEFINE x == Bound(rows, count, w)
             y == Bound(rows, count, w + 1)
             k == Len(rows)
  <2>1. x \in 0 .. k /\ y \in 0 .. k /\ x <= y /\ k \in Nat
    BY RangesInOrder, LenProperties
  <2> HIDE DEF x, y
  <2>2. SubSeq(rows, 1, x) \in Seq(Row) /\ SubSeq(rows, x + 1, y) \in Seq(Row)
        /\ Len(SubSeq(rows, x + 1, y)) = y - x
    BY <2>1, SubSeqProperties
  <2>3. SubSeq(rows, 1, y) = SubSeq(rows, 1, x) \o SubSeq(rows, x + 1, y)
    BY <2>1, ConcatAdjacentSubSeq
  <2> QED
    BY <2>2, <2>3 DEF Before, Segment, x, y
<1> QED
  BY <1>1, <1>2, <1>3

\* A range that cannot be scanned, or up to whose end a nation's sum is too large.
Bad(rows, count, w) ==
  Scanned(Segment(rows, count, w)).status # "ok" \/ TooLarge(Before(rows, count, w + 1))

Blame(rows, count, w) ==
  IF Scanned(Segment(rows, count, w)).status # "ok"
  THEN Scanned(Segment(rows, count, w)).status ELSE "capacity"

FirstBad(rows, count, k, w) ==
  /\ w \in 0 .. k - 1 /\ Bad(rows, count, w)
  /\ \A v \in 0 .. w - 1 : ~Bad(rows, count, v)

IsBlamed(rows, count, status) ==
  status # "ok" /\ \E w : FirstBad(rows, count, count, w) /\ status = Blame(rows, count, w)

\* What the first k ranges have been merged to.
MergedTo(rows, count, k, m) ==
  \/ /\ m.status = "ok" /\ m = Exact(Before(rows, count, k))
     /\ Answerable(Before(rows, count, k))
     /\ \A v \in 0 .. k - 1 : ~Bad(rows, count, v)
  \/ /\ m.status # "ok" /\ ~Answerable(Before(rows, count, k))
     /\ \E w : FirstBad(rows, count, k, w) /\ m.status = Blame(rows, count, w)

LEMMA MergeOneMore ==
  ASSUME NEW rows \in Seq(Row), NEW count \in Nat \ {0}, NEW k \in 0 .. count - 1,
         NEW m, MergedTo(rows, count, k, m), NEW p, Yields(p, Segment(rows, count, k))
  PROVE  MergedTo(rows, count, k + 1, MergePartial(m, p))
<1> DEFINE a == Before(rows, count, k)
           b == Segment(rows, count, k)
           c == Before(rows, count, k + 1)
           r == MergePartial(m, p)
           B(v) == Bad(rows, count, v)
<1>1. a \in Seq(Row) /\ b \in Seq(Row) /\ c = a \o b
  BY PrefixesGrow
<1>2. B(k) <=> p.status # "ok" \/ TooLarge(c)
  BY DEF Bad, Yields
<1>3. CASE m.status # "ok"
  <2>1. r = m
    BY <1>3 DEF MergePartial
  <2>2. PICK w : FirstBad(rows, count, k, w) /\ m.status = Blame(rows, count, w)
    BY <1>3 DEF MergedTo
  <2>3. FirstBad(rows, count, k + 1, w)
    BY <2>2 DEF FirstBad
  <2>4. ~Answerable(c)
    <3>1. ~Answerable(a)
      BY <1>3 DEF MergedTo
    <3> QED
      BY <1>1, <3>1, PartsOfAnswerable
  <2> QED
    BY <1>3, <2>1, <2>2, <2>3, <2>4 DEF MergedTo
<1>4. CASE m.status = "ok"
  <2>1. m = Exact(a) /\ Answerable(a) /\ \A v \in 0 .. k - 1 : ~B(v)
    BY <1>4 DEF MergedTo
  <2> HIDE DEF a, b, c, r, B
  <2>2. /\ r.status = IF p.status # "ok" THEN p.status
                      ELSE IF TooLarge(c) THEN "capacity" ELSE "ok"
        /\ r.status = "ok" <=> Answerable(c)
        /\ r.status = "ok" => r = Exact(c)
    <3>1. Yields(p, b)
      BY DEF b
    <3>2. LET s == MergePartial(Exact(a), p) IN
          /\ s.status = IF p.status # "ok" THEN p.status
                        ELSE IF TooLarge(a \o b) THEN "capacity" ELSE "ok"
          /\ s.status = "ok" <=> Answerable(a \o b)
          /\ s.status = "ok" => s = Exact(a \o b)
      BY <1>1, <2>1, <3>1, MergeStep
    <3> QED
      BY <1>1, <2>1, <3>2 DEF r
  <2>3. CASE r.status = "ok"
    <3>1. ~B(k)
      BY <1>2, <2>2, <2>3
    <3>2. \A v \in 0 .. (k + 1) - 1 : ~B(v)
      BY <2>1, <3>1
    <3> QED
      BY <2>2, <2>3, <3>2 DEF MergedTo, B, c, r
  <2>4. CASE r.status # "ok"
    <3>1. B(k)
      BY <1>2, <2>2, <2>4
    <3>2. FirstBad(rows, count, k + 1, k)
      BY <2>1, <3>1 DEF FirstBad, B
    <3>3. r.status = Blame(rows, count, k)
      BY <2>2, <2>4 DEF Blame, Yields
    <3> QED
      BY <2>2, <2>4, <3>2, <3>3 DEF MergedTo, c, r
  <2> QED
    BY <2>3, <2>4
<1> QED
  BY <1>3, <1>4

LEMMA NothingIsExact ==
  /\ Answerable(<<>>) /\ Exact(<<>>) = EmptyPartial /\ EmptyPartial.status = "ok"
  /\ Scanned(<<>>) = EmptyPartial
<1>1. AllValid(<<>>)
  BY DEF AllValid
<1>2. Answerable(<<>>)
  BY <1>1, SumOfNothing, LimitIsNatural, AnswerableMeans
<1>3. Exact(<<>>) = EmptyPartial
  BY SumOfNothing, MatchingOfNothing DEF Exact, EmptyPartial
<1>4. EmptyPartial.status = "ok"
  BY DEF EmptyPartial
<1>5. Scanned(<<>>) = EmptyPartial
  BY ScannedIsFold, ScanFold!FoldOfNothing
<1> QED
  BY <1>2, <1>3, <1>4, <1>5

\* Whatever the number of ranges, merging what they yield in order gives the exact
\* partial of the table, or the error of its first bad range.
LEMMA MergedRanges ==
  ASSUME NEW rows \in Seq(Row), NEW count \in Nat \ {0},
         NEW X, NEW q \in Seq(X), Len(q) = count,
         \A i \in 1 .. count : Yields(q[i], Segment(rows, count, i - 1))
  PROVE  LET m == FoldLeft(MergePartial, EmptyPartial, q) IN
         /\ Answerable(rows) => m = Exact(rows)
         /\ ~Answerable(rows) =>
              /\ m.status # "ok"
              /\ \E w : FirstBad(rows, count, count, w) /\ m.status = Blame(rows, count, w)
<1> DEFINE G(k) == MergeFold!Fold(0, 0, EmptyPartial, SubSeq(q, 1, k))
           T == {k \in Nat : k <= count => MergedTo(rows, count, k, G(k))}
<1>1. 0 \in T
  <2>1. G(0) = EmptyPartial
    <3>1. SubSeq(q, 1, 0) = <<>>
      BY SubSeqEmpty
    <3> QED
      BY <3>1, MergeFold!FoldOfNothing
  <2>2. Before(rows, count, 0) = <<>>
    BY PrefixesGrow
  <2>3. \A v \in 0 .. 0 - 1 : ~Bad(rows, count, v)
    OBVIOUS
  <2>4. MergedTo(rows, count, 0, EmptyPartial)
    BY <2>2, <2>3, NothingIsExact DEF MergedTo
  <2> HIDE DEF G
  <2> QED
    BY <2>1, <2>4
<1>2. ASSUME NEW k \in T PROVE k + 1 \in T
  <2> SUFFICES ASSUME k + 1 <= count PROVE MergedTo(rows, count, k + 1, G(k + 1))
    OBVIOUS
  <2>1. k \in Nat /\ MergedTo(rows, count, k, G(k))
    OBVIOUS
  <2> HIDE DEF T
  <2>2. k \in 0 .. count - 1 /\ k + 1 \in 1 .. Len(q) /\ (k + 1) - 1 = k
    BY <2>1
  <2>3. G(k + 1) = MergePartial(G((k + 1) - 1), q[k + 1])
    <3>1. \A j \in 1 .. Len(q) : G(j) = MergePartial(G(j - 1), q[j])
      BY MergeFold!FoldOfPrefix
    <3> HIDE DEF G
    <3> QED
      BY <2>2, <3>1
  <2>4. Yields(q[k + 1], Segment(rows, count, k))
    BY <2>2
  <2>5. G(k + 1) = MergePartial(G(k), q[k + 1])
    BY <2>2, <2>3
  <2> HIDE DEF G
  <2>6. MergedTo(rows, count, k + 1, MergePartial(G(k), q[k + 1]))
    BY <2>1, <2>2, <2>4, MergeOneMore
  <2> QED
    BY <2>5, <2>6
<1>3. T = Nat
  <2> HIDE DEF T
  <2>1. T \in SUBSET Nat
    BY DEF T
  <2> QED
    BY <1>1, <1>2, <2>1, MergeFold!SetInduction
<1>4. MergedTo(rows, count, count, G(count))
  BY <1>3
<1>5. G(count) = FoldLeft(MergePartial, EmptyPartial, q)
  <2>1. SubSeq(q, 1, count) = q
    BY SubSeqFull
  <2> QED
    BY <2>1, MergeIsFold
<1>6. Before(rows, count, count) = rows
  BY PrefixesGrow
<1> HIDE DEF G
<1> QED
  BY <1>4, <1>5, <1>6 DEF MergedTo

-----------------------------------------------------------------------------
\* The answer is what an exact partial finishes to.
LEMMA ExactIsFinished ==
  ASSUME NEW rows
  PROVE  Finish(Exact(rows)) = TrueAnswer(rows)
BY DEF Finish, Exact, TrueAnswer, SumAt

LEMMA WorkerCountIsPositive ==
  ASSUME NEW threads \in Int, NEW rows \in Nat
  PROVE  WorkerCount(threads, rows) \in Nat \ {0}
<1> DEFINE x == Max({1, threads})  y == Max({rows, 1})
<1>1. x \in Int /\ x >= 1
  <2>1. \E m \in {1, threads} : \A n \in {1, threads} : m >= n
    OBVIOUS
  <2> QED
    BY <2>1 DEF Max
<1>2. y \in Int /\ y >= 1
  <2>1. \E m \in {rows, 1} : \A n \in {rows, 1} : m >= n
    OBVIOUS
  <2> QED
    BY <2>1 DEF Max
<1>3. Min({x, y}) \in {x, y}
  <2> HIDE DEF x, y
  <2>1. \E m \in {x, y} : \A n \in {x, y} : m <= n
    BY <1>1, <1>2
  <2> QED
    BY <2>1 DEF Min
<1> HIDE DEF x, y
<1>4. WorkerCount(threads, rows) = Min({x, y})
  BY DEF WorkerCount, x, y
<1> QED
  BY <1>1, <1>2, <1>3, <1>4

\* A partial with its rows counted.
Counting(p, n) == [p EXCEPT !.input = n]
Clipped(rows, n) == Counting(Scanned(rows), n)

\* A scan itself counts none.
LEMMA ScannedShape ==
  \A rows \in Seq(Row) :
    LET p == Scanned(rows) IN
    p = [sums |-> p.sums, matched |-> p.matched, input |-> 0, status |-> p.status]
<1> DEFINE Shaped(p) ==
             p = [sums |-> p.sums, matched |-> p.matched, input |-> 0, status |-> p.status]
           T == {rows \in Seq(Row) : Shaped(Scanned(rows))}
<1>1. <<>> \in T
  <2>1. Shaped(EmptyPartial)
    BY DEF EmptyPartial
  <2> HIDE DEF Shaped
  <2> QED
    BY <2>1, NothingIsExact
<1>2. ASSUME NEW rows \in T, NEW x \in Row PROVE Append(rows, x) \in T
  <2> DEFINE p == Scanned(rows)
  <2>1. Append(rows, x) \in Seq(Row) /\ Scanned(Append(rows, x)) = ScanRow(p, x) /\ Shaped(p)
    BY AppendProperties, ScannedOfAppend
  <2> HIDE DEF p
  <2>2. Shaped(ScanRow(p, x))
    <3>1. ScanRow(p, x) = p \/ ScanRow(p, x) = [p EXCEPT !.status = "invalid"]
          \/ ScanRow(p, x) = [p EXCEPT !.status = "capacity"]
          \/ ScanRow(p, x) = [p EXCEPT !.sums[x.nation] = @ + x.revenue, !.matched = @ + 1]
      BY DEF ScanRow
    <3> HIDE DEF T
    <3>2. CASE ScanRow(p, x) = p
      BY <2>1, <3>2
    <3>3. CASE ScanRow(p, x) = [p EXCEPT !.status = "invalid"]
      <4> DEFINE r == ScanRow(p, x)
      <4>1. r = [sums |-> p.sums, matched |-> p.matched, input |-> 0, status |-> "invalid"]
        BY <2>1, <3>3
      <4> QED
        BY <4>1
    <3>4. CASE ScanRow(p, x) = [p EXCEPT !.status = "capacity"]
      <4> DEFINE r == ScanRow(p, x)
      <4>1. r = [sums |-> p.sums, matched |-> p.matched, input |-> 0, status |-> "capacity"]
        BY <2>1, <3>4
      <4> QED
        BY <4>1
    <3>5. CASE ScanRow(p, x) = [p EXCEPT !.sums[x.nation] = @ + x.revenue, !.matched = @ + 1]
      <4> DEFINE r == ScanRow(p, x)
                 old == p.sums
                 count == p.matched
                 stat == p.status
                 sums == [p.sums EXCEPT ![x.nation] = @ + x.revenue]
                 matched == p.matched + 1
      <4>1. r = [p EXCEPT !.sums = sums, !.matched = matched]
        BY <3>5
      <4>3. p = [sums |-> old, matched |-> count, input |-> 0, status |-> stat]
        BY <2>1
      <4> HIDE DEF sums, matched, r, old, count, stat
      <4>2. r = [sums |-> sums, matched |-> matched, input |-> 0, status |-> stat]
        BY <4>1, <4>3
      <4>4. Shaped(r)
        BY <4>2
      <4> HIDE DEF Shaped
      <4> QED
        BY <4>4 DEF r
    <3> QED
      BY <3>1, <3>2, <3>3, <3>4, <3>5
  <2> HIDE DEF Shaped
  <2> QED
    BY <2>1, <2>2
<1>3. T \in SUBSET Seq(Row)
  OBVIOUS
<1>4. T = Seq(Row)
  <2> HIDE DEF T
  <2> QED
    BY <1>1, <1>2, <1>3, ScanFold!SequenceInduction
<1> QED
  BY <1>4

\* A scan is as good as its answer.
LEMMA ScannedYields ==
  ASSUME NEW b \in Seq(Row), NEW n, Scanned(b).status = "ok" => n = Len(b)
  PROVE  Yields(Clipped(b, n), b)
<1> DEFINE p == Scanned(b)
           c == Clipped(b, n)
<1>1. p = [sums |-> p.sums, matched |-> p.matched, input |-> 0, status |-> p.status]
  BY ScannedShape
<1>2. c = [p EXCEPT !.input = n]
  BY DEF Clipped, Counting
<1>3. /\ p.status = "ok" <=> Answerable(b)
      /\ Answerable(b) => p = [Exact(b) EXCEPT !.input = 0]
  BY ScansAreRight DEF ScanIsRight
<1> HIDE DEF p, c
<1>4. c.status = p.status
  BY <1>1, <1>2
<1>5. ASSUME p.status = "ok" PROVE c = Exact(b)
  <2>1. p = [Exact(b) EXCEPT !.input = 0] /\ n = Len(b)
    BY <1>3, <1>5 DEF p
  <2> DEFINE sums == [k \in Nation |-> SumAt(b, k)]
             matched == Cardinality(Matching(b))
  <2>2. Exact(b) = [sums |-> sums, matched |-> matched, input |-> n, status |-> "ok"]
    BY <2>1 DEF Exact
  <2> HIDE DEF sums, matched
  <2>3. p = [sums |-> sums, matched |-> matched, input |-> 0, status |-> "ok"]
    BY <2>1, <2>2
  <2> QED
    BY <1>2, <2>2, <2>3
<1> QED
  BY <1>4, <1>5 DEF Yields, p, c

\* The scan as the hybrid session takes it: one partial per range, merged.
LEMMA ScannedInRanges ==
  ASSUME NEW rows \in Seq(Row), NEW threads \in Int
  PROVE  LET m == ScanInRanges(rows, threads) IN
         /\ Answerable(rows) => m = Exact(rows)
         /\ ~Answerable(rows) => IsBlamed(rows, WorkerCount(threads, Len(rows)), m.status)
<1> DEFINE count == WorkerCount(threads, Len(rows))
           q == [i \in 1 .. count |-> ScanRange(rows, i - 1, count)]
           X == {ScanRange(rows, i - 1, count) : i \in 1 .. count}
<1>1. count \in Nat \ {0}
  BY WorkerCountIsPositive, LenProperties
<1> HIDE DEF count
<1>2. q \in Seq(X) /\ Len(q) = count
  <2>1. q = [i \in 1 .. count |-> q[i]] /\ \A i \in 1 .. count : q[i] \in X
    OBVIOUS
  <2> HIDE DEF q, X
  <2>2. q \in [1 .. count -> X] /\ count \in Nat
    BY <1>1, <2>1
  <2> QED
    BY <2>2, SeqDef, LenProperties
<1>3. ASSUME NEW i \in 1 .. count
      PROVE  Yields(q[i], Segment(rows, count, i - 1))
  <2> DEFINE b == Segment(rows, count, i - 1)
             n == Bound(rows, count, i) - Bound(rows, count, i - 1)
  <2>1. i - 1 \in 0 .. count - 1 /\ (i - 1) + 1 = i
    BY <1>1
  <2>2. b \in Seq(Row) /\ Len(b) = n
    BY <1>1, <2>1, PrefixesGrow
  <2>3. q[i] = Clipped(b, n)
    BY <2>1 DEF ScanRange, WorkerRange, Scanned, Segment, Bound, Clipped, Counting
  <2> HIDE DEF b, q, n
  <2> QED
    BY <2>2, <2>3, ScannedYields DEF b
<1>4. ScanInRanges(rows, threads) = FoldLeft(MergePartial, EmptyPartial, q)
  BY DEF ScanInRanges, count
<1> HIDE DEF q
<1> DEFINE m == FoldLeft(MergePartial, EmptyPartial, q)
<1>5. /\ Answerable(rows) => m = Exact(rows)
      /\ ~Answerable(rows) =>
           /\ m.status # "ok"
           /\ \E w : FirstBad(rows, count, count, w) /\ m.status = Blame(rows, count, w)
  <2> HIDE DEF X, m
  <2>1. \A i \in 1 .. count : Yields(q[i], Segment(rows, count, i - 1))
    BY <1>3
  <2> QED
    BY <1>1, <1>2, <2>1, MergedRanges DEF m
<1> HIDE DEF m
<1>6. ~Answerable(rows) => IsBlamed(rows, count, m.status)
  BY <1>5 DEF IsBlamed
<1> QED
  BY <1>4, <1>5, <1>6 DEF count, m

-----------------------------------------------------------------------------
(***************************************************************************)
(* Neither way of partitioning gives the CPU more rows than there are.     *)
(***************************************************************************)
Slices == Nat \X Nat \X Int

TotalFold == INSTANCE Folding WITH Op <- LAMBDA c, d, v, x : v + x
CutFold == INSTANCE Folding WITH Op <- LAMBDA c, d, v, x : Cut(c, v, x)
AssignFold == INSTANCE Folding WITH Op <- LAMBDA c, d, v, x : Assign(c, d, v, x)

\* Rows of the first k batches.
Upto(lengths, k) == Total(SubSeq(lengths, 1, k))

LEMMA TotalIsFold == \A s : Total(s) = TotalFold!Fold(0, 0, 0, s)
BY DEF Total, TotalFold!Fold, FoldLeft, MapThenFoldSet, Max,
       TotalFold!FoldLeft, TotalFold!MapThenFoldSet, TotalFold!Max

LEMMA TotalOfSequence ==
  /\ Total(<<>>) = 0
  /\ \A s \in Seq(Int), n \in Int : Total(Append(s, n)) = Total(s) + n
<1>1. Total(<<>>) = 0
  BY TotalIsFold, TotalFold!FoldOfNothing
<1>2. ASSUME NEW s \in Seq(Int), NEW n \in Int
      PROVE  Total(Append(s, n)) = Total(s) + n
  <2>1. TotalFold!Fold(0, 0, 0, Append(s, n)) = TotalFold!Fold(0, 0, 0, s) + n
    BY TotalFold!FoldOfAppend
  <2> QED
    BY <2>1, TotalIsFold
<1> QED
  BY <1>1, <1>2

LEMMA BatchesInOrder ==
  ASSUME NEW lengths \in Seq(Nat)
  PROVE  /\ Upto(lengths, 0) = 0 /\ Upto(lengths, Len(lengths)) = Total(lengths)
         /\ Total(lengths) \in Nat
         /\ \A k \in 0 .. Len(lengths) : Upto(lengths, k) \in Nat
         /\ \A k \in 1 .. Len(lengths) : Upto(lengths, k) = Upto(lengths, k - 1) + lengths[k]
<1>0. ASSUME NEW s \in Seq(Nat) PROVE Total(s) \in Nat
  <2>1. 0 \in Nat /\ \A v \in Nat, x \in Nat : v + x \in Nat
    OBVIOUS
  <2>2. TotalFold!Fold(0, 0, 0, s) \in Nat
    BY <2>1, TotalFold!FoldClosed
  <2> QED
    BY <2>2, TotalIsFold
<1>1. Upto(lengths, 0) = 0
  <2>1. SubSeq(lengths, 1, 0) = <<>>
    BY SubSeqEmpty
  <2> QED
    BY <2>1, TotalOfSequence DEF Upto
<1>2. Upto(lengths, Len(lengths)) = Total(lengths)
  BY SubSeqFull DEF Upto
<1>3. ASSUME NEW k \in 0 .. Len(lengths) PROVE Upto(lengths, k) \in Nat
  <2>1. SubSeq(lengths, 1, k) \in Seq(Nat)
    BY SubSeqProperties
  <2> QED
    BY <1>0, <2>1 DEF Upto
<1>4. ASSUME NEW k \in 1 .. Len(lengths)
      PROVE  Upto(lengths, k) = Upto(lengths, k - 1) + lengths[k]
  <2>1. TotalFold!Fold(0, 0, 0, SubSeq(lengths, 1, k)) =
          TotalFold!Fold(0, 0, 0, SubSeq(lengths, 1, k - 1)) + lengths[k]
    BY TotalFold!FoldOfPrefix
  <2> QED
    BY <2>1, TotalIsFold DEF Upto
<1> QED
  BY <1>0, <1>1, <1>2, <1>3, <1>4

LEMMA SliceRowsOfAppend ==
  ASSUME NEW slices \in Seq(Slices), NEW s \in Slices
  PROVE  SliceRows(Append(slices, s)) = SliceRows(slices) + s[3]
<1> DEFINE third(r) == [i \in DOMAIN r |-> r[i][3]]
           longer == Append(slices, s)
<1>1. third(slices) \in Seq(Int) /\ Len(third(slices)) = Len(slices) /\ s[3] \in Int
  <2>1. Len(slices) \in Nat /\ DOMAIN slices = 1 .. Len(slices)
    OBVIOUS
  <2>2. \A i \in 1 .. Len(slices) : slices[i][3] \in Int
    BY <2>1 DEF Slices
  <2>3. s[3] \in Int
    BY DEF Slices
  <2> QED
    BY <2>1, <2>2, <2>3
<1>2. /\ longer \in Seq(Slices) /\ Len(longer) = Len(slices) + 1
      /\ \A i \in 1 .. Len(slices) : longer[i] = slices[i]
      /\ longer[Len(slices) + 1] = s
  BY AppendProperties
<1>3. third(longer) \in Seq(Int) /\ Len(third(longer)) = Len(slices) + 1
  <2>1. Len(longer) \in Nat /\ DOMAIN longer = 1 .. Len(longer)
    BY <1>2
  <2>2. \A i \in 1 .. Len(longer) : longer[i] \in Slices
    BY <1>2, <2>1
  <2>3. \A x \in Slices : x[3] \in Int
    BY DEF Slices
  <2> HIDE DEF longer
  <2>4. third(longer) = [i \in 1 .. Len(longer) |-> longer[i][3]]
    BY <2>1
  <2> QED
    BY <1>2, <2>1, <2>2, <2>3, <2>4
<1>4. \A i \in 1 .. Len(slices) + 1 :
        third(longer)[i] = IF i <= Len(slices) THEN third(slices)[i] ELSE s[3]
  BY <1>2
<1>5. third(longer) = Append(third(slices), s[3])
  <2> DEFINE a == third(longer)  b == Append(third(slices), s[3])
  <2> HIDE DEF third, longer
  <2>1. b \in Seq(Int) /\ Len(b) = Len(slices) + 1
        /\ (\A i \in 1 .. Len(slices) : b[i] = third(slices)[i]) /\ b[Len(slices) + 1] = s[3]
    BY <1>1, AppendProperties
  <2>2. Len(slices) \in Nat /\ Len(a) = Len(b)
    BY <1>3, <2>1
  <2>3. \A i \in 1 .. Len(a) : a[i] = b[i]
    BY <1>3, <1>4, <2>1, <2>2
  <2> HIDE DEF a, b
  <2>4. a \in Seq(Int)
    BY <1>3 DEF a
  <2>5. a = b
    BY <2>1, <2>2, <2>3, <2>4, SeqEqual
  <2> QED
    BY <2>5 DEF a, b
<1>6. SliceRows(longer) = Total(third(longer)) /\ SliceRows(slices) = Total(third(slices))
  BY DEF SliceRows
<1> HIDE DEF third
<1> QED
  BY <1>1, <1>5, <1>6, TotalOfSequence

LEMMA IndicesOfBatches ==
  ASSUME NEW lengths \in Seq(Nat)
  PROVE  /\ Indices(lengths) \in Seq(Nat) /\ Len(Indices(lengths)) = Len(lengths)
         /\ \A i \in 1 .. Len(lengths) : Indices(lengths)[i] = i
BY DEF Indices

\* What partition_batch_lengths has after batches of n rows.
CutWithin(n, p) ==
  /\ p = [cpu |-> p.cpu, gpu |-> p.gpu, remaining |-> p.remaining]
  /\ p.remaining \in Int /\ p.cpu \in Seq(Slices) /\ SliceRows(p.cpu) \in 0 .. n

LEMMA CutStaysWithin ==
  ASSUME NEW lengths \in Seq(Nat), NEW k \in 1 .. Len(lengths), NEW n \in Nat, NEW p,
         CutWithin(n, p)
  PROVE  CutWithin(n + lengths[k], Cut(lengths, p, k))
<1> DEFINE len == lengths[k]
           x == Min({p.remaining, len})
           cpu == AppendSlice(p.cpu, k, 0, x)
           gpu == AppendSlice(p.gpu, k, x, len - x)
<1>1. len \in Nat /\ k \in Nat /\ p.remaining \in Int
  BY DEF CutWithin
<1>2. x \in Int /\ x <= len
  <2> HIDE DEF len
  <2>1. \E m \in {p.remaining, len} : \A j \in {p.remaining, len} : m <= j
    BY <1>1
  <2>2. x \in {p.remaining, len} /\ x <= len
    BY <2>1 DEF Min
  <2> QED
    BY <1>1, <2>2
<1> HIDE DEF x, len
<1>3. p.cpu \in Seq(Slices) /\ SliceRows(p.cpu) \in 0 .. n
  BY DEF CutWithin
<1>4. cpu \in Seq(Slices) /\ SliceRows(cpu) \in 0 .. n + len
  <2>1. CASE x > 0
    <3> DEFINE s == <<k, 0, x>>
    <3>1. s \in Slices /\ s[3] = x
      BY <1>1, <1>2 DEF Slices
    <3>2. cpu = Append(p.cpu, s)
      BY <2>1 DEF AppendSlice
    <3> HIDE DEF cpu, s
    <3>3. SliceRows(cpu) = SliceRows(p.cpu) + x
      <4>1. SliceRows(Append(p.cpu, s)) = SliceRows(p.cpu) + s[3]
        BY <1>3, <3>1, SliceRowsOfAppend
      <4> QED
        BY <3>1, <3>2, <4>1
    <3>4. cpu \in Seq(Slices)
      BY <1>3, <3>1, <3>2, AppendProperties
    <3> QED
      BY <1>1, <1>2, <1>3, <2>1, <3>3, <3>4
  <2>2. CASE ~(x > 0)
    BY <1>1, <1>3, <2>2 DEF AppendSlice
  <2> QED
    BY <2>1, <2>2
<1>5. Cut(lengths, p, k) = [p EXCEPT !.remaining = p.remaining - x, !.cpu = cpu, !.gpu = gpu]
  BY DEF Cut, x, len
<1> HIDE DEF cpu, gpu
<1>6. Cut(lengths, p, k) = [cpu |-> cpu, gpu |-> gpu, remaining |-> p.remaining - x]
  BY <1>5 DEF CutWithin
<1>7. CutWithin(n + len, [cpu |-> cpu, gpu |-> gpu, remaining |-> p.remaining - x])
  BY <1>1, <1>2, <1>4 DEF CutWithin
<1> QED
  BY <1>6, <1>7 DEF len

LEMMA RatioCutIsWithin ==
  ASSUME NEW lengths \in Seq(Nat), NEW r, r[1] \in Nat, r[2] \in Nat \ {0}
  PROVE  PartitionByRatio(lengths, r).cpuRows \in 0 .. Total(lengths)
<1> DEFINE target == CpuTarget(lengths, r)
           base == [cpu |-> <<>>, gpu |-> <<>>, remaining |-> target]
           G(k) == CutFold!Fold(lengths, 0, base, SubSeq(Indices(lengths), 1, k))
           all == CutFold!Fold(lengths, 0, base, Indices(lengths))
           T == {k \in Nat : k <= Len(lengths) => CutWithin(Upto(lengths, k), G(k))}
<1>1. target \in Int
  <2>1. Total(lengths) \in Nat
    BY BatchesInOrder
  <2>2. ASSUME NEW a \in Nat, NEW b \in Nat PROVE a * b \in Nat
    OBVIOUS
  <2>3. ASSUME NEW a \in Nat, NEW b \in Nat \ {0} PROVE a \div b \in Int
    OBVIOUS
  <2>4. 2 * Total(lengths) \in Nat /\ 2 * r[2] \in Nat \ {0}
    BY <2>1
  <2>5. 2 * Total(lengths) * r[1] \in Nat
    BY <2>2, <2>4
  <2>6. 2 * Total(lengths) * r[1] + r[2] \in Nat
    BY <2>5
  <2> QED
    BY <2>3, <2>4, <2>6 DEF CpuTarget
<1> HIDE DEF target
<1>2. 0 \in T
  <2>1. SubSeq(Indices(lengths), 1, 0) = <<>>
    BY SubSeqEmpty
  <2>2. G(0) = base
    BY <2>1, CutFold!FoldOfNothing
  <2>3. SliceRows(<<>>) = 0
    <3>1. [i \in DOMAIN <<>> |-> <<>>[i][3]] = <<>>
      OBVIOUS
    <3> QED
      BY <3>1, TotalOfSequence DEF SliceRows
  <2>4. CutWithin(0, base)
    BY <1>1, <2>3 DEF CutWithin
  <2> HIDE DEF G
  <2> QED
    BY <2>2, <2>4, BatchesInOrder
<1>3. ASSUME NEW k \in T PROVE k + 1 \in T
  <2> SUFFICES ASSUME k + 1 <= Len(lengths)
               PROVE  CutWithin(Upto(lengths, k + 1), G(k + 1))
    OBVIOUS
  <2>1. k \in Nat /\ CutWithin(Upto(lengths, k), G(k))
    OBVIOUS
  <2> HIDE DEF T
  <2>2. k \in 0 .. Len(lengths) /\ k + 1 \in 1 .. Len(lengths) /\ (k + 1) - 1 = k
    BY <2>1
  <2>3. G(k + 1) = Cut(lengths, G(k), k + 1)
    <3>1. \A j \in 1 .. Len(Indices(lengths)) :
            G(j) = Cut(lengths, G(j - 1), Indices(lengths)[j])
      BY IndicesOfBatches, CutFold!FoldOfPrefix
    <3> HIDE DEF G
    <3> QED
      BY <2>2, <3>1, IndicesOfBatches
  <2>4. Upto(lengths, k) \in Nat /\ Upto(lengths, k + 1) = Upto(lengths, k) + lengths[k + 1]
    <3>1. Upto(lengths, k + 1) = Upto(lengths, (k + 1) - 1) + lengths[k + 1]
      BY <2>2, BatchesInOrder
    <3> QED
      BY <2>2, <3>1, BatchesInOrder
  <2> HIDE DEF G
  <2> QED
    BY <2>1, <2>2, <2>3, <2>4, CutStaysWithin
<1>4. T = Nat
  <2> HIDE DEF T
  <2>1. T \in SUBSET Nat
    BY DEF T
  <2> QED
    BY <1>2, <1>3, <2>1, CutFold!SetInduction
<1>5. CutWithin(Total(lengths), G(Len(lengths)))
  <2> HIDE DEF G
  <2>1. Len(lengths) \in Nat
    BY LenProperties
  <2> QED
    BY <1>4, <2>1, BatchesInOrder
<1>6. G(Len(lengths)) = all
  <2>1. SubSeq(Indices(lengths), 1, Len(lengths)) = Indices(lengths)
    BY IndicesOfBatches, SubSeqFull
  <2> QED
    BY <2>1
<1>7. PartitionByRatio(lengths, r).cpuRows = SliceRows(all.cpu)
  BY DEF PartitionByRatio, target, CutFold!Fold, FoldLeft, MapThenFoldSet, Max,
         CutFold!FoldLeft, CutFold!MapThenFoldSet, CutFold!Max
<1> HIDE DEF G, all
<1> QED
  BY <1>5, <1>6, <1>7 DEF CutWithin

\* What partition_batch_lengths_at_boundary has after batches of n rows.
AssignedWithin(n, p) ==
  /\ p = [cpu |-> p.cpu, gpu |-> p.gpu, cpuRows |-> p.cpuRows, gpuRows |-> p.gpuRows]
  /\ p.cpuRows \in 0 .. n

LEMMA BoundaryCutIsWithin ==
  ASSUME NEW lengths \in Seq(Nat), NEW r
  PROVE  PartitionAtBoundary(lengths, r).cpuRows \in 0 .. Total(lengths)
<1> DEFINE boundary == NearestBoundary(lengths, r)
           base == [cpu |-> <<>>, gpu |-> <<>>, cpuRows |-> 0, gpuRows |-> 0]
           G(k) == AssignFold!Fold(lengths, boundary, base, SubSeq(Indices(lengths), 1, k))
           T == {k \in Nat : k <= Len(lengths) => AssignedWithin(Upto(lengths, k), G(k))}
<1>1. PartitionAtBoundary(lengths, r) =
        AssignFold!Fold(lengths, boundary, base, Indices(lengths))
  BY DEF PartitionAtBoundary, AssignFold!Fold, FoldLeft, MapThenFoldSet, Max,
         AssignFold!FoldLeft, AssignFold!MapThenFoldSet, AssignFold!Max
<1> HIDE DEF boundary
<1>2. 0 \in T
  <2>1. SubSeq(Indices(lengths), 1, 0) = <<>>
    BY SubSeqEmpty
  <2>2. G(0) = base
    BY <2>1, AssignFold!FoldOfNothing
  <2>3. AssignedWithin(0, base)
    BY DEF AssignedWithin
  <2> HIDE DEF G
  <2> QED
    BY <2>2, <2>3, BatchesInOrder
<1>3. ASSUME NEW k \in T PROVE k + 1 \in T
  <2> SUFFICES ASSUME k + 1 <= Len(lengths)
               PROVE  AssignedWithin(Upto(lengths, k + 1), G(k + 1))
    OBVIOUS
  <2>1. k \in Nat /\ AssignedWithin(Upto(lengths, k), G(k))
    OBVIOUS
  <2> HIDE DEF T
  <2>2. k \in 0 .. Len(lengths) /\ k + 1 \in 1 .. Len(lengths) /\ (k + 1) - 1 = k
    BY <2>1
  <2>3. G(k + 1) = Assign(lengths, boundary, G(k), k + 1)
    <3>1. \A j \in 1 .. Len(Indices(lengths)) :
            G(j) = Assign(lengths, boundary, G(j - 1), Indices(lengths)[j])
      BY IndicesOfBatches, AssignFold!FoldOfPrefix
    <3> HIDE DEF G
    <3> QED
      BY <2>2, <3>1, IndicesOfBatches
  <2> DEFINE n == Upto(lengths, k)  m == lengths[k + 1]
  <2>4. n \in Nat /\ m \in Nat /\ Upto(lengths, k + 1) = n + m
    <3>1. Upto(lengths, k + 1) = Upto(lengths, (k + 1) - 1) + lengths[k + 1]
      BY <2>2, BatchesInOrder
    <3> QED
      BY <2>2, <3>1, BatchesInOrder
  <2> HIDE DEF G
  <2> DEFINE p == G(k)
             cpu == AppendSlice(p.cpu, k + 1, 0, m)
             gpu == AppendSlice(p.gpu, k + 1, 0, m)
  <2>5. /\ p = [cpu |-> p.cpu, gpu |-> p.gpu, cpuRows |-> p.cpuRows, gpuRows |-> p.gpuRows]
        /\ p.cpuRows \in 0 .. n
    BY <2>1 DEF AssignedWithin
  <2>6. G(k + 1) = IF p.cpuRows < boundary
                   THEN [p EXCEPT !.cpu = cpu, !.cpuRows = p.cpuRows + m]
                   ELSE [p EXCEPT !.gpu = gpu, !.gpuRows = p.gpuRows + m]
    BY <2>3 DEF Assign
  <2> HIDE DEF p, cpu, gpu, n, m
  <2>7. G(k + 1) = IF p.cpuRows < boundary
                   THEN [cpu |-> cpu, gpu |-> p.gpu, cpuRows |-> p.cpuRows + m,
                         gpuRows |-> p.gpuRows]
                   ELSE [cpu |-> p.cpu, gpu |-> gpu, cpuRows |-> p.cpuRows,
                         gpuRows |-> p.gpuRows + m]
    BY <2>5, <2>6
  <2>8. p.cpuRows + m \in 0 .. n + m /\ p.cpuRows \in 0 .. n + m
    BY <2>4, <2>5
  <2>9. AssignedWithin(n + m, G(k + 1))
    BY <2>7, <2>8 DEF AssignedWithin
  <2> QED
    BY <2>4, <2>9
<1>4. T = Nat
  <2> HIDE DEF T
  <2>1. T \in SUBSET Nat
    BY DEF T
  <2> QED
    BY <1>2, <1>3, <2>1, AssignFold!SetInduction
<1>5. AssignedWithin(Total(lengths), G(Len(lengths)))
  <2> HIDE DEF G
  <2>1. Len(lengths) \in Nat
    BY LenProperties
  <2> QED
    BY <1>4, <2>1, BatchesInOrder
<1>6. G(Len(lengths)) = AssignFold!Fold(lengths, boundary, base, Indices(lengths))
  <2>1. SubSeq(Indices(lengths), 1, Len(lengths)) = Indices(lengths)
    BY IndicesOfBatches, SubSeqFull
  <2> QED
    BY <2>1
<1> HIDE DEF G
<1> QED
  BY <1>1, <1>5, <1>6 DEF AssignedWithin

-----------------------------------------------------------------------------
(***************************************************************************)
(* What the children answer.                                               *)
(***************************************************************************)
LEMMA FinishedStatus == \A p : Finish(p).status = p.status
BY DEF Finish, Failed

\* The CPU child: the answer, or an error.
LEMMA CpuAnswers ==
  ASSUME NEW rows \in Seq(Row), NEW threads \in Int
  PROVE  LET r == Finish(ScanInRanges(rows, threads)) IN
         /\ Answerable(rows) => r = TrueAnswer(rows)
         /\ ~Answerable(rows) => r.status # "ok"
<1> DEFINE m == ScanInRanges(rows, threads)
<1>1. /\ Answerable(rows) => m = Exact(rows)
      /\ ~Answerable(rows) => m.status # "ok"
  BY ScannedInRanges DEF IsBlamed
<1> HIDE DEF m
<1>2. Finish(m).status = m.status
  BY FinishedStatus
<1> QED
  BY <1>1, <1>2, ExactIsFinished DEF m

\* The GPU child, over rows it has accepted: the answer, or an error.
LEMMA GpuAnswers ==
  ASSUME NEW rows \in Seq(Row), GpuAccepts(rows)
  PROVE  /\ Answerable(rows) => GpuExecution(rows) = TrueAnswer(rows)
         /\ ~Answerable(rows) => GpuExecution(rows).status # "ok"
<1> DEFINE p == GpuScan(rows, EmptyPartial)
           now == [n \in Nation |-> EmptyPartial.sums[n] + SumAt(rows, n)]
           sums == [n \in Nation |-> SumAt(rows, n)]
           count == Cardinality(Matching(rows))
           status == IF \E n \in Nation : now[n] > MaxI64 THEN "capacity" ELSE "ok"
<1>1. now = sums
  <2>1. \A n \in Nation : EmptyPartial.sums[n] = 0 /\ SumAt(rows, n) \in Int
    BY SumIsInteger DEF EmptyPartial
  <2>2. \A n \in Nation : EmptyPartial.sums[n] + SumAt(rows, n) = SumAt(rows, n)
    BY <2>1
  <2> QED
    BY <2>2
<1>2. EmptyPartial.matched + count = count
  <2>1. EmptyPartial.matched = 0 /\ count \in Nat
    BY CountIsNatural DEF EmptyPartial
  <2> HIDE DEF count
  <2> QED
    BY <2>1
<1>3. p = [sums |-> now, matched |-> EmptyPartial.matched + count, input |-> Len(rows),
           status |-> status]
  BY DEF GpuScan, SumAt
<1>4. status = "ok" <=> Answerable(rows)
  <2>1. AllValid(rows)
    BY DEF GpuAccepts, AllValid
  <2>2. \A n \in Nation : SumAt(rows, n) \in Int
    BY SumIsInteger
  <2>3. status = "ok" <=> ~\E n \in Nation : sums[n] > MaxI64
    BY <1>1
  <2>4. status = "ok" <=> \A n \in Nation : SumAt(rows, n) <= MaxI64
    BY <2>2, <2>3, LimitIsNatural
  <2> QED
    BY <2>1, <2>4, AnswerableMeans
<1>5. Exact(rows) = [sums |-> sums, matched |-> count, input |-> Len(rows), status |-> "ok"]
  BY DEF Exact
<1> HIDE DEF p, now, sums, count, status
<1>6. p.status = status /\ (status = "ok" => p = Exact(rows))
  BY <1>1, <1>2, <1>3, <1>5
<1>7. GpuExecution(rows) = Finish(p)
  BY DEF GpuExecution, p
<1> QED
  BY <1>4, <1>6, <1>7, FinishedStatus, ExactIsFinished

-----------------------------------------------------------------------------
(***************************************************************************)
(* Merging two results by nation name.                                     *)
(***************************************************************************)
NamesOf(f) == {NameOf[n] : n \in {m \in Nation : f[m] # 0}}

LEMMA RevenueByName ==
  ASSUME NEW f \in [Nation -> Nat], NEW r, r.rows = ResultRows(f, NameOf)
  PROVE  /\ Names(r) = NamesOf(f)
         /\ \A n \in Nation : RevenueOf(r, NameOf[n]) = f[n]
<1>1. r.rows = {[name |-> NameOf[n], revenue |-> f[n]] : n \in {m \in Nation : f[m] # 0}}
  BY DEF ResultRows
<1>2. \A row : row \in r.rows <=>
        \E n \in Nation : f[n] # 0 /\ row = [name |-> NameOf[n], revenue |-> f[n]]
  BY <1>1
<1>3. Names(r) = NamesOf(f)
  <2>1. ASSUME NEW x \in Names(r) PROVE x \in NamesOf(f)
    <3>1. PICK row \in r.rows : x = row.name
      BY DEF Names
    <3>2. PICK n \in Nation : f[n] # 0 /\ row = [name |-> NameOf[n], revenue |-> f[n]]
      BY <1>2, <3>1
    <3> QED
      BY <3>1, <3>2 DEF NamesOf
  <2>2. ASSUME NEW x \in NamesOf(f) PROVE x \in Names(r)
    <3>1. PICK n \in Nation : f[n] # 0 /\ x = NameOf[n]
      BY DEF NamesOf
    <3> DEFINE row == [name |-> NameOf[n], revenue |-> f[n]]
    <3>2. row \in r.rows /\ row.name = x
      BY <1>2, <3>1
    <3> QED
      BY <3>2 DEF Names
  <2> QED
    BY <2>1, <2>2
<1>4. ASSUME NEW n \in Nation PROVE RevenueOf(r, NameOf[n]) = f[n]
  <2>1. CASE f[n] # 0
    <3> DEFINE row == [name |-> NameOf[n], revenue |-> f[n]]
               found == CHOOSE x \in r.rows : x.name = NameOf[n]
    <3>1. row \in r.rows /\ row.name = NameOf[n] /\ row.revenue = f[n]
      BY <1>2, <2>1
    <3>2. found \in r.rows /\ found.name = NameOf[n]
      BY <3>1
    <3> HIDE DEF found
    <3>3. PICK m \in Nation : found = [name |-> NameOf[m], revenue |-> f[m]]
      BY <1>2, <3>2
    <3>4. NameOf[m] = NameOf[n] /\ found.revenue = f[m]
      BY <3>2, <3>3
    <3>5. m = n
      BY <3>4, NamesAreDistinct
    <3>6. NameOf[n] \in Names(r)
      BY <2>1, <1>3 DEF NamesOf
    <3> QED
      BY <3>4, <3>5, <3>6 DEF RevenueOf, found
  <2>2. CASE f[n] = 0
    <3>1. NameOf[n] \notin Names(r)
      BY <1>3, <2>2, NamesAreDistinct DEF NamesOf
    <3> QED
      BY <2>2, <3>1 DEF RevenueOf
  <2> QED
    BY <2>1, <2>2
<1> QED
  BY <1>3, <1>4

Plus(f, g) == [n \in Nation |-> f[n] + g[n]]

\* Two results with the sums h together.
Combined(cpu, gpu, h) ==
  IF \E n \in Nation : h[n] > MaxI64 THEN Failed("capacity")
  ELSE [status |-> "ok", rows |-> ResultRows(h, NameOf),
        matched |-> cpu.matched + gpu.matched, input |-> cpu.input + gpu.input]

\* The merge by name adds nation by nation, whatever it is called.
LEMMA MergeAdds ==
  ASSUME NEW f \in [Nation -> Nat], NEW g \in [Nation -> Nat],
         NEW cpu, cpu.rows = ResultRows(f, NameOf), NEW gpu, gpu.rows = ResultRows(g, NameOf)
  PROVE  Merge(cpu, gpu) = Combined(cpu, gpu, Plus(f, g))
<1> DEFINE h == Plus(f, g)
           names == Names(cpu) \cup Names(gpu)
           R(x) == RevenueOf(cpu, x) + RevenueOf(gpu, x)
           sums == [x \in names |-> R(x)]
           self == [x \in names |-> x]
<1>0. h \in [Nation -> Nat] /\ \A n \in Nation : h[n] = f[n] + g[n]
  BY DEF Plus
<1> HIDE DEF h
<1>1. names = NamesOf(f) \cup NamesOf(g)
  BY RevenueByName
<1>2. \A n \in Nation : RevenueOf(cpu, NameOf[n]) = f[n] /\ RevenueOf(gpu, NameOf[n]) = g[n]
  BY RevenueByName
<1>3. \A n \in Nation : R(NameOf[n]) = h[n] /\ h[n] \in Nat
  BY <1>0, <1>2
<1>4. \A n \in Nation : h[n] # 0 => NameOf[n] \in names
  BY <1>0, <1>1 DEF NamesOf
<1>5. \A x \in names : \E n \in Nation : x = NameOf[n] /\ h[n] # 0
  BY <1>0, <1>1 DEF NamesOf
<1>6. (\E x \in names : ~Fits(RevenueOf(cpu, x), RevenueOf(gpu, x)))
        <=> \E n \in Nation : h[n] > MaxI64
  <2>1. ASSUME NEW x \in names, ~Fits(RevenueOf(cpu, x), RevenueOf(gpu, x))
        PROVE  \E n \in Nation : h[n] > MaxI64
    <3>1. PICK n \in Nation : x = NameOf[n]
      BY <1>5
    <3>2. ~(h[n] <= MaxI64)
      BY <1>3, <2>1, <3>1 DEF Fits
    <3>3. h[n] > MaxI64
      BY <1>3, <3>2, LimitIsNatural
    <3> QED
      BY <3>3
  <2>2. ASSUME NEW n \in Nation, h[n] > MaxI64
        PROVE  \E x \in names : ~Fits(RevenueOf(cpu, x), RevenueOf(gpu, x))
    <3>1. NameOf[n] \in names
      BY <1>3, <1>4, <2>2, LimitIsNatural
    <3>2. ~Fits(RevenueOf(cpu, NameOf[n]), RevenueOf(gpu, NameOf[n]))
      BY <1>3, <2>2, LimitIsNatural DEF Fits
    <3> QED
      BY <3>1, <3>2
  <2> QED
    BY <2>1, <2>2
<1>7. ResultRows(sums, self) = ResultRows(h, NameOf)
  <2> HIDE DEF names, R
  <2>1. DOMAIN h = Nation /\ DOMAIN sums = names
    BY <1>0
  <2>2. \A row : row \in ResultRows(sums, self) <=>
          \E x \in names : R(x) # 0 /\ row = [name |-> x, revenue |-> R(x)]
    BY <2>1 DEF ResultRows
  <2>3. \A row : row \in ResultRows(h, NameOf) <=>
          \E n \in Nation : h[n] # 0 /\ row = [name |-> NameOf[n], revenue |-> h[n]]
    BY <2>1 DEF ResultRows
  <2> HIDE DEF sums, self
  <2>4. ASSUME NEW row, row \in ResultRows(sums, self) PROVE row \in ResultRows(h, NameOf)
    BY <1>3, <1>5, <2>2, <2>3, <2>4
  <2>5. ASSUME NEW row, row \in ResultRows(h, NameOf) PROVE row \in ResultRows(sums, self)
    BY <1>3, <1>4, <2>2, <2>3, <2>5
  <2> QED
    BY <2>4, <2>5
<1>8. Merge(cpu, gpu) =
        IF \E x \in names : ~Fits(RevenueOf(cpu, x), RevenueOf(gpu, x))
        THEN Failed("capacity")
        ELSE [status |-> "ok", rows |-> ResultRows(sums, self),
              matched |-> cpu.matched + gpu.matched, input |-> cpu.input + gpu.input]
  BY DEF Merge
<1> HIDE DEF names, sums, self
<1> QED
  BY <1>6, <1>7, <1>8 DEF Combined, h

\* The answers for two parts of a table make the answer for the table.
LEMMA AnswersMerge ==
  ASSUME NEW a \in Seq(Row), NEW b \in Seq(Row), Answerable(a), Answerable(b)
  PROVE  LET m == Merge(TrueAnswer(a), TrueAnswer(b)) IN
         /\ Answerable(a \o b) => m = TrueAnswer(a \o b)
         /\ ~Answerable(a \o b) => m.status # "ok"
<1> DEFINE f == [n \in Nation |-> SumAt(a, n)]
           g == [n \in Nation |-> SumAt(b, n)]
           h == Plus(f, g)
           k == [n \in Nation |-> SumAt(a \o b, n)]
           count(r) == Cardinality(Matching(r))
           m == Merge(TrueAnswer(a), TrueAnswer(b))
<1>1. AllValid(a) /\ AllValid(b)
  BY AnswerableMeans
<1>2. f \in [Nation -> Nat] /\ g \in [Nation -> Nat]
  BY <1>1, SumsAreNatural
<1>3. h = k
  BY PartsAddUp DEF Plus
<1>4. Answerable(a \o b) <=> ~\E n \in Nation : h[n] > MaxI64
  <2>1. \A n \in Nation : h[n] \in Nat /\ h[n] = SumAt(a, n) + SumAt(b, n)
    BY <1>2 DEF Plus
  <2> HIDE DEF f, g, h
  <2>2. (\A n \in Nation : SumAt(a, n) + SumAt(b, n) <= MaxI64) <=> ~\E n \in Nation : h[n] > MaxI64
    BY <2>1, LimitIsNatural
  <2> QED
    BY <1>1, <2>2, PartsOfAnswerable
<1>5. count(a \o b) = count(a) + count(b) /\ Len(a \o b) = Len(a) + Len(b)
  BY PartsAddUp, ConcatRows
<1>6. /\ TrueAnswer(a).rows = ResultRows(f, NameOf)
      /\ TrueAnswer(a).matched = count(a) /\ TrueAnswer(a).input = Len(a)
      /\ TrueAnswer(b).rows = ResultRows(g, NameOf)
      /\ TrueAnswer(b).matched = count(b) /\ TrueAnswer(b).input = Len(b)
  BY DEF TrueAnswer, SumAt
<1>7. TrueAnswer(a \o b) = [status |-> "ok", rows |-> ResultRows(k, NameOf),
                            matched |-> count(a \o b), input |-> Len(a \o b)]
  BY DEF TrueAnswer, SumAt
<1> HIDE DEF f, g, k, count
<1>8. m = Combined(TrueAnswer(a), TrueAnswer(b), h)
  <2> DEFINE c == TrueAnswer(a)  e == TrueAnswer(b)
  <2>1. c.rows = ResultRows(f, NameOf) /\ e.rows = ResultRows(g, NameOf)
    BY <1>6
  <2> HIDE DEF c, e
  <2>2. Merge(c, e) = Combined(c, e, Plus(f, g))
    BY <1>2, <2>1, MergeAdds
  <2> QED
    BY <2>2 DEF c, e
<1> HIDE DEF h
<1> HIDE DEF m
<1>10. Answerable(a \o b) => m = TrueAnswer(a \o b)
  BY <1>3, <1>4, <1>5, <1>6, <1>7, <1>8 DEF Combined
<1>11. ~Answerable(a \o b) => m.status # "ok"
  BY <1>4, <1>8 DEF Combined, Failed
<1> QED
  BY <1>10, <1>11 DEF m

-----------------------------------------------------------------------------
(***************************************************************************)
(* The split does not show.                                                *)
(***************************************************************************)
\* A session that was made has a cut that its options lead to, and a GPU child
\* that has accepted its slice.
SessionIsCut ==
  /\ table \in Tables /\ options \in Options
  /\ session \in {"none", "refused", "made", "destroyed"}
  /\ session \in {"made", "destroyed"} =>
       ValidOptions(options) /\ cut \in Cuts(options) /\ GpuAccepts(GpuRows)

LEMMA InitSessionIsCut == Init => SessionIsCut
BY DEF Init, SessionIsCut

LEMMA NextSessionIsCut == SessionIsCut /\ [Next]_vars => SessionIsCut'
<1> SUFFICES ASSUME SessionIsCut, [Next]_vars PROVE SessionIsCut'
  OBVIOUS
<1>1. CASE Make
  <2>1. ValidOptions(options) /\ cut' \in Cuts(options) /\ session' = "made"
        /\ GpuAccepts(SubSeq(Rows, cut' + 1, Len(Rows))) /\ UNCHANGED <<table, options>>
    BY <1>1 DEF Make
  <2>2. Rows' = Rows /\ GpuRows' = SubSeq(Rows, cut' + 1, Len(Rows))
    BY <2>1 DEF Rows, GpuRows
  <2>3. GpuAccepts(GpuRows)'
    BY <2>1, <2>2 DEF GpuAccepts
  <2>4. Cuts(options)' = Cuts(options) /\ ValidOptions(options)'
    BY <2>1 DEF Cuts, Lengths, Rows, Calibrates, CpuExecution, ValidOptions
  <2> QED
    BY <2>1, <2>3, <2>4 DEF SessionIsCut
<1>2. CASE UNCHANGED <<table, options, cut>> /\ session' \in {session, "refused"}
  <2>1. GpuAccepts(GpuRows)' <=> GpuAccepts(GpuRows)
    BY <1>2 DEF GpuAccepts, GpuRows, Rows
  <2>2. Cuts(options)' = Cuts(options) /\ (ValidOptions(options)' <=> ValidOptions(options))
    BY <1>2 DEF Cuts, Lengths, Rows, Calibrates, CpuExecution, ValidOptions
  <2> QED
    BY <1>2, <2>1, <2>2 DEF SessionIsCut
<1>3. CASE Destroy
  <2>1. GpuAccepts(GpuRows)' <=> GpuAccepts(GpuRows)
    BY <1>3 DEF GpuAccepts, GpuRows, Rows, Destroy
  <2>2. Cuts(options)' = Cuts(options) /\ (ValidOptions(options)' <=> ValidOptions(options))
    BY <1>3 DEF Cuts, Lengths, Rows, Calibrates, CpuExecution, ValidOptions, Destroy
  <2> QED
    BY <1>3, <2>1, <2>2 DEF SessionIsCut, Destroy
<1>4. CASE MakeFails
  BY <1>2, <1>4 DEF MakeFails
<1>5. ASSUME NEW c \in Caller, Call(c) \/ CallerStep(c) \/ TaskStep(c)
      PROVE  UNCHANGED sessionVars
  BY <1>5 DEF Call, CallerStep, ReturnEmpty, GpuOnly, CpuOnly, Launch, LaunchFails, CpuExecute,
              CpuThrows, Return, Unwind, TaskStep, GpuLock, GpuExecute, GpuFails
<1>6. CASE UNCHANGED vars
  BY <1>2, <1>6 DEF vars
<1> QED
  BY <1>1, <1>2, <1>3, <1>4, <1>5, <1>6 DEF Next, sessionVars

\* The cut is a row of the table.
LEMMA CutIsWithin ==
  ASSUME SessionIsCut, session \in {"made", "destroyed"}
  PROVE  /\ Rows \in Seq(Row) /\ Len(Rows) \in Nat /\ cut \in 0 .. Len(Rows)
         /\ options.threads \in Int
<1>1. table \in Tables /\ options \in Options /\ ValidOptions(options) /\ cut \in Cuts(options)
  BY DEF SessionIsCut
<1>2. Rows \in Seq(Row) /\ Lengths \in Seq(Nat) /\ Total(Lengths) = Len(Rows)
  BY <1>1, TablesAreRows DEF Rows, Lengths
<1>3. Len(Rows) \in Nat
  BY <1>2, LenProperties
<1>4. options.threads \in Int /\ options.ratio[1] \in Int /\ options.ratio[2] \in Nat \ {0}
  BY <1>1, OptionsAreTyped
<1>5. CASE options.selection = "fixed"
  <2>1. cut = PartitionByRatio(Lengths, options.ratio).cpuRows
    BY <1>1, <1>5 DEF Cuts
  <2>2. options.ratio[1] \in Nat
    BY <1>1, <1>4, <1>5 DEF ValidOptions, RatioInRange
  <2>3. cut \in 0 .. Total(Lengths)
    BY <1>2, <1>4, <2>1, <2>2, RatioCutIsWithin
  <2> QED
    BY <1>2, <1>3, <1>4, <2>3
<1>6. CASE options.selection # "fixed"
  <2>1. PICK cal \in Calibrations : cut = PartitionAtBoundary(Lengths, Predict(cal)).cpuRows
    BY <1>1, <1>6 DEF Cuts
  <2>2. cut \in 0 .. Total(Lengths)
    BY <1>2, <2>1, BoundaryCutIsWithin
  <2> QED
    BY <1>2, <1>3, <1>4, <2>2
<1> QED
  BY <1>5, <1>6

\* The CPU child's answer, over the first k rows.
LEMMA CpuExecutionIsScan ==
  ASSUME table \in Tables, options \in Options, NEW k \in 0 .. Len(Rows)
  PROVE  CpuExecution(k, options.threads) =
           Finish(ScanInRanges(SubSeq(Rows, 1, k), options.threads))
BY DEF CpuExecution, CpuExecutions, Rows

\* Whatever the cut, what a request returns when the machine does not fail is the
\* answer for the whole table if there is one, and an error if not.
LEMMA ExpectedIsRight ==
  ASSUME SessionIsCut, session \in {"made", "destroyed"}
  PROVE  IF Answerable(Rows) THEN Expected = TrueAnswer(Rows) ELSE Expected.status # "ok"
<1> DEFINE a == SubSeq(Rows, 1, cut)
           b == GpuRows
<1>1. Rows \in Seq(Row) /\ Len(Rows) \in Nat /\ cut \in 0 .. Len(Rows) /\ options.threads \in Int
      /\ table \in Tables /\ options \in Options /\ GpuAccepts(b)
  BY CutIsWithin DEF SessionIsCut
<1>2. a \in Seq(Row) /\ b \in Seq(Row) /\ Rows = a \o b
  <2>1. \A i \in 1 .. Len(Rows) : Rows[i] \in Row
    BY <1>1
  <2>2. a \in Seq(Row) /\ SubSeq(Rows, cut + 1, Len(Rows)) \in Seq(Row)
    BY <1>1, <2>1, SubSeqProperties
  <2>3. SubSeq(Rows, 1, Len(Rows)) = a \o SubSeq(Rows, cut + 1, Len(Rows))
    <3>1. 1 \in 1 .. Len(Rows) + 1 /\ cut \in 1 - 1 .. Len(Rows) /\ Len(Rows) \in cut .. Len(Rows)
      BY <1>1
    <3> QED
      BY <1>1, <3>1, ConcatAdjacentSubSeq
  <2>4. SubSeq(Rows, 1, Len(Rows)) = Rows
    BY <1>1, SubSeqFull
  <2> QED
    BY <2>2, <2>3, <2>4 DEF GpuRows
<1>3. /\ Answerable(a) => CpuAnswer = TrueAnswer(a)
      /\ ~Answerable(a) => CpuAnswer.status # "ok"
  <2>1. CpuAnswer = Finish(ScanInRanges(a, options.threads))
    BY <1>1, CpuExecutionIsScan DEF CpuAnswer
  <2> HIDE DEF a
  <2> QED
    BY <1>1, <1>2, <2>1, CpuAnswers
<1>4. /\ Answerable(b) => GpuAnswer = TrueAnswer(b)
      /\ ~Answerable(b) => GpuAnswer.status # "ok"
  BY <1>1, <1>2, GpuAnswers DEF GpuAnswer
<1>5. HasCpu <=> cut # 0
  BY <1>1 DEF HasCpu
<1>6. HasGpu <=> cut # Len(Rows)
  BY <1>1 DEF HasGpu
<1>7. CASE ~HasCpu /\ ~HasGpu
  <2>1. Rows = <<>>
    BY <1>1, <1>5, <1>6, <1>7, EmptySeq
  <2>2. Expected = Finish(EmptyPartial)
    BY <1>7 DEF Expected
  <2> QED
    BY <2>1, <2>2, NothingIsExact, ExactIsFinished
<1>8. CASE ~HasCpu /\ HasGpu
  <2>1. b = Rows
    BY <1>1, <1>5, <1>8, SubSeqFull DEF GpuRows
  <2>2. Expected = GpuAnswer
    BY <1>8 DEF Expected
  <2> HIDE DEF b
  <2> QED
    BY <1>4, <2>1, <2>2
<1>9. CASE HasCpu /\ ~HasGpu
  <2>1. a = Rows
    BY <1>1, <1>6, <1>9, SubSeqFull
  <2>2. Expected = CpuAnswer
    BY <1>9 DEF Expected
  <2> HIDE DEF a
  <2> QED
    BY <1>3, <2>1, <2>2
<1>10. CASE HasCpu /\ HasGpu
  <2>1. Expected = JoinedOutcome(CpuAnswer, GpuAnswer)
    BY <1>10 DEF Expected
  <2>2. /\ Answerable(Rows) <=> Answerable(a \o b)
        /\ TrueAnswer(Rows) = TrueAnswer(a \o b)
        /\ Answerable(Rows) => Answerable(a) /\ Answerable(b)
    <3> HIDE DEF a, b
    <3>1. Answerable(a \o b) => Answerable(a) /\ Answerable(b)
      BY <1>2, PartsOfAnswerable
    <3> QED
      BY <1>2, <3>1
  <2> HIDE DEF a, b
  <2>3. CASE ~Answerable(a)
    BY <1>3, <2>1, <2>2, <2>3 DEF JoinedOutcome
  <2>4. CASE Answerable(a) /\ ~Answerable(b)
    <3>1. CpuAnswer.status = "ok"
      BY <1>3, <2>4 DEF TrueAnswer
    <3> QED
      BY <1>4, <2>1, <2>2, <2>4, <3>1 DEF JoinedOutcome
  <2>5. CASE Answerable(a) /\ Answerable(b)
    <3>1. CpuAnswer = TrueAnswer(a) /\ GpuAnswer = TrueAnswer(b)
      BY <1>3, <1>4, <2>5
    <3>2. CpuAnswer.status = "ok" /\ GpuAnswer.status = "ok"
      BY <3>1 DEF TrueAnswer
    <3>3. Expected = Merge(TrueAnswer(a), TrueAnswer(b))
      BY <2>1, <3>1, <3>2 DEF JoinedOutcome
    <3>4. /\ Answerable(a \o b) => Merge(TrueAnswer(a), TrueAnswer(b)) = TrueAnswer(a \o b)
          /\ ~Answerable(a \o b) => Merge(TrueAnswer(a), TrueAnswer(b)).status # "ok"
      BY <1>2, <2>5, AnswersMerge
    <3> QED
      BY <2>2, <3>3, <3>4
  <2> QED
    BY <2>3, <2>4, <2>5
<1> QED
  BY <1>7, <1>8, <1>9, <1>10

\* A request that no machine failure met was one of a session that was made.
LEMMA ReturnsExpected ==
  ASSUME RInv, SessionIsCut, NEW c \in Caller, DataOutcome(c)
  PROVE  session \in {"made", "destroyed"} /\ outcome[c] = Expected
<1>1. phase[c] = "idle" /\ outcome[c] # NoResult /\ outcome[c].status \notin {"io", "unknown"}
  BY DEF DataOutcome, Returned
<1>2. outcome[c] = Expected
  BY <1>1 DEF RInv, Outcomes, Failed
<1>3. session \notin {"none", "refused"}
  BY <1>1 DEF RInv, NotMadeIsUnused
<1> QED
  BY <1>2, <1>3 DEF SessionIsCut

\* For every table, cut, number of threads and number of callers: a request that
\* no machine failure met returns the answer for the whole table if there is one,
\* and an error if not (HybridQ5Session::Make and Execute).
THEOREM SplitsDoNotShow == Spec => []SplitDoesNotShow
<1>1. RInv /\ SessionIsCut => SplitDoesNotShow
  BY ReturnsExpected, ExpectedIsRight DEF SplitDoesNotShow
<1> QED
  BY <1>1, Invariance, InitRInv, NextRInv, InitSessionIsCut, NextSessionIsCut, PTL DEF Spec

\* For every table and calibration: a session made automatically returns the
\* answer, since it was made only once both devices had met every row
\* (calibrate_auto_partition).
THEOREM AutomaticSessionsAnswer == Spec => []AutomaticSessionAnswers
<1>1. ASSUME RInv, SessionIsCut, NEW c \in Caller, options.selection = "auto", DataOutcome(c)
      PROVE  outcome[c] = TrueAnswer(Rows)
  <2>1. session \in {"made", "destroyed"} /\ outcome[c] = Expected
    BY <1>1, ReturnsExpected
  <2>2. Rows \in Seq(Row) /\ Len(Rows) \in Nat /\ options.threads \in Int
    BY <1>1, <2>1, CutIsWithin
  <2>3. CpuExecution(Len(Rows), options.threads).status = "ok"
    <3>1. Cuts(options) # {}
      BY <1>1, <2>1 DEF SessionIsCut
    <3> QED
      BY <1>1, <3>1 DEF Cuts, Calibrates
  <2>4. CpuExecution(Len(Rows), options.threads) = Finish(ScanInRanges(Rows, options.threads))
    <3>1. SubSeq(Rows, 1, Len(Rows)) = Rows /\ Len(Rows) \in 0 .. Len(Rows)
      BY <2>2, SubSeqFull
    <3> QED
      BY <1>1, <3>1, CpuExecutionIsScan DEF SessionIsCut
  <2>5. Answerable(Rows)
    BY <2>2, <2>3, <2>4, CpuAnswers
  <2> QED
    BY <1>1, <2>1, <2>5, ExpectedIsRight
<1>2. RInv /\ SessionIsCut => AutomaticSessionAnswers
  BY <1>1 DEF AutomaticSessionAnswers
<1> QED
  BY <1>2, Invariance, InitRInv, NextRInv, InitSessionIsCut, NextSessionIsCut, PTL DEF Spec

-----------------------------------------------------------------------------
(***************************************************************************)
(* The scan of the CPU child, worker by worker.                            *)
(***************************************************************************)
Glue(v, x) == v \o x
ConcatFold == INSTANCE Folding WITH Op <- LAMBDA c, d, v, x : Glue(v, x)

\* Its operators are those of the rows of the session.
LEMMA ScanUsesRows ==
  /\ Cpu!EmptyPartial = EmptyPartial
  /\ \A p, row : Cpu!ScanRow(p, row) = ScanRow(p, row)
  /\ \A p : Cpu!Finish(p) = Finish(p)
  /\ \A r : Cpu!Answerable(r) = Answerable(r) /\ Cpu!TrueAnswer(r) = TrueAnswer(r)
  /\ \A r, n : Cpu!SumOver(r, Cpu!RowsAt(r, n)) = SumAt(r, n)
  /\ \A t, n : Cpu!WorkerCount(t, n) = WorkerCount(t, n)
  /\ \A w, count, n : Cpu!WorkerRange(w, count, n) = WorkerRange(w, count, n)
<1>1. Cpu!EmptyPartial = EmptyPartial
  BY DEF EmptyPartial, Cpu!EmptyPartial
<1>2. \A p, row : Cpu!ScanRow(p, row) = ScanRow(p, row)
  BY DEF ScanRow, Fits, Cpu!ScanRow, Cpu!Fits
<1>3. \A p : Cpu!Finish(p) = Finish(p)
  BY DEF Finish, Failed, ResultRows, Cpu!Finish, Cpu!Failed, Cpu!ResultRows
<1>4. \A r, n : Cpu!SumOver(r, Cpu!RowsAt(r, n)) = SumAt(r, n)
  BY DEF SumAt, SumOver, RowsAt, FoldLeft, MapThenFoldSet, Max,
         Cpu!SumOver, Cpu!RowsAt, Cpu!FoldLeft, Cpu!MapThenFoldSet, Cpu!Max
<1>5. \A r : Cpu!Answerable(r) = Answerable(r)
  BY <1>4 DEF Answerable, Cpu!Answerable, SumAt
<1>6. \A r : Cpu!TrueAnswer(r) = TrueAnswer(r)
  <2> SUFFICES ASSUME NEW r PROVE Cpu!TrueAnswer(r) = TrueAnswer(r)
    OBVIOUS
  <2> DEFINE sums == [n \in Nation |-> SumAt(r, n)]
             whole == [n \in Nation |-> Cpu!SumOver(r, Cpu!RowsAt(r, n))]
  <2>1. whole = sums
    BY <1>4
  <2> HIDE DEF sums, whole
  <2>2. Cpu!ResultRows(whole, NameOf) = ResultRows(sums, NameOf)
    BY <2>1 DEF ResultRows, Cpu!ResultRows
  <2>3. Cpu!Cardinality(Cpu!Matching(r)) = Cardinality(Matching(r))
    <3>1. \A S : Cpu!Cardinality(S) = Cardinality(S)
      BY DEF Cpu!Cardinality, Cardinality
    <3>2. Cpu!Matching(r) = Matching(r)
      BY DEF Matching, Cpu!Matching
    <3> QED
      BY <3>1, <3>2
  <2>4. TrueAnswer(r) = [status |-> "ok", rows |-> ResultRows(sums, NameOf),
                         matched |-> Cardinality(Matching(r)), input |-> Len(r)]
    BY DEF TrueAnswer, SumAt, sums
  <2>5. Cpu!TrueAnswer(r) = [status |-> "ok", rows |-> Cpu!ResultRows(whole, NameOf),
                             matched |-> Cpu!Cardinality(Cpu!Matching(r)), input |-> Len(r)]
    BY DEF Cpu!TrueAnswer, whole
  <2> QED
    BY <2>2, <2>3, <2>4, <2>5
<1>7. \A t, n : Cpu!WorkerCount(t, n) = WorkerCount(t, n)
  BY DEF WorkerCount, Min, Max, Cpu!WorkerCount, Cpu!Min, Cpu!Max
<1>8. \A w, count, n : Cpu!WorkerRange(w, count, n) = WorkerRange(w, count, n)
  BY DEF WorkerRange, Cpu!WorkerRange
<1> QED
  BY <1>1, <1>2, <1>3, <1>4, <1>5, <1>6, <1>7, <1>8

LEMMA ScanFoldsAsRows ==
  /\ \A s : Cpu!FoldLeft(Cpu!MergePartial, Cpu!EmptyPartial, s) =
              FoldLeft(MergePartial, EmptyPartial, s)
  /\ \A s : Cpu!FoldLeft(Cpu!ScanRow, Cpu!EmptyPartial, s) = Scanned(s)
<1>1. \A s : Cpu!FoldLeft(Cpu!MergePartial, Cpu!EmptyPartial, s) =
               FoldLeft(MergePartial, EmptyPartial, s)
  BY DEF FoldLeft, MapThenFoldSet, Max, MergePartial, EmptyPartial, Fits,
         Cpu!FoldLeft, Cpu!MapThenFoldSet, Cpu!Max, Cpu!MergePartial, Cpu!EmptyPartial, Cpu!Fits
<1>2. \A s : Cpu!FoldLeft(Cpu!ScanRow, Cpu!EmptyPartial, s) = Scanned(s)
  BY DEF Scanned, FoldLeft, MapThenFoldSet, Max, ScanRow, EmptyPartial, Fits,
         Cpu!FoldLeft, Cpu!MapThenFoldSet, Cpu!Max, Cpu!ScanRow, Cpu!EmptyPartial, Cpu!Fits
<1> QED
  BY <1>1, <1>2

LEMMA ConcatIsFold == \A s : Cpu!Concat(s) = ConcatFold!Fold(0, 0, <<>>, s)
BY DEF Glue, Cpu!Concat, ConcatFold!Fold, Cpu!FoldLeft, Cpu!MapThenFoldSet, Cpu!Max,
       ConcatFold!FoldLeft, ConcatFold!MapThenFoldSet, ConcatFold!Max

\* A scan that has met an error looks at nothing more.
LEMMA ErrorStays ==
  ASSUME NEW a \in Seq(Row), Scanned(a).status # "ok"
  PROVE  \A b \in Seq(Row) : Scanned(a \o b) = Scanned(a)
<1> DEFINE T == {b \in Seq(Row) : Scanned(a \o b) = Scanned(a)}
<1>1. <<>> \in T
  BY ConcatEmptySeq, EmptySeq
<1>2. ASSUME NEW b \in T, NEW x \in Row PROVE Append(b, x) \in T
  <2>1. b \in Seq(Row) /\ Append(b, x) \in Seq(Row) /\ a \o b \in Seq(Row)
        /\ a \o Append(b, x) = Append(a \o b, x)
    BY AppendProperties, ConcatProperties, ConcatOfAppend
  <2>2. Scanned(Append(a \o b, x)) = ScanRow(Scanned(a \o b), x)
    BY <2>1, ScannedOfAppend
  <2>3. Scanned(a \o b) = Scanned(a)
    OBVIOUS
  <2>4. ScanRow(Scanned(a), x) = Scanned(a)
    BY DEF ScanRow
  <2> QED
    BY <2>1, <2>2, <2>3, <2>4
<1>3. T \in SUBSET Seq(Row)
  OBVIOUS
<1>4. T = Seq(Row)
  <2> HIDE DEF T
  <2> QED
    BY <1>1, <1>2, <1>3, ScanFold!SequenceInduction
<1> QED
  BY <1>4

-----------------------------------------------------------------------------
(***************************************************************************)
(* The batches of a table.                                                 *)
(***************************************************************************)
All(t) == Cpu!Concat(t)
Begin(t, b) == Len(All(SubSeq(t, 1, b - 1)))
End(t, b) == Begin(t, b) + Len(t[b])
Holds(t, b, row) == Begin(t, b) <= row /\ row < End(t, b)
BatchOf(t, row) == CHOOSE b \in DOMAIN t : Holds(t, b, row)

LEMMA BatchesTile ==
  ASSUME NEW t \in Seq(Seq(Row))
  PROVE  /\ All(t) \in Seq(Row) /\ Begin(t, 1) = 0 /\ Begin(t, Len(t) + 1) = Len(All(t))
         /\ \A b \in 1 .. Len(t) : /\ Begin(t, b) \in Nat /\ Len(t[b]) \in Nat
                                   /\ Begin(t, b + 1) = End(t, b)
<1>0. ASSUME NEW s \in Seq(Seq(Row)) PROVE All(s) \in Seq(Row)
  <2> DEFINE S == Seq(Row)
  <2>1. <<>> \in S /\ \A v \in S, x \in S : Glue(v, x) \in S
    BY ConcatProperties, EmptySeq DEF Glue
  <2>2. s \in Seq(S)
    OBVIOUS
  <2> HIDE DEF S
  <2>3. ConcatFold!Fold(0, 0, <<>>, s) \in S
    BY <2>1, <2>2, ConcatFold!FoldClosed
  <2> QED
    BY <2>3, ConcatIsFold DEF S, All
<1>1. Begin(t, 1) = 0
  <2>1. SubSeq(t, 1, 1 - 1) = <<>>
    BY SubSeqEmpty
  <2>2. All(<<>>) = <<>>
    BY ConcatIsFold, ConcatFold!FoldOfNothing DEF All
  <2> QED
    BY <2>1, <2>2, EmptySeq DEF Begin
<1>2. Len(t) \in Nat /\ (Len(t) + 1) - 1 = Len(t)
  BY LenProperties
<1>3. Begin(t, Len(t) + 1) = Len(All(t))
  <2>1. SubSeq(t, 1, Len(t)) = t
    BY SubSeqFull
  <2> QED
    BY <1>2, <2>1 DEF Begin
<1>4. ASSUME NEW b \in 1 .. Len(t)
      PROVE  Begin(t, b) \in Nat /\ Len(t[b]) \in Nat /\ Begin(t, b + 1) = End(t, b)
  <2> DEFINE r == All(SubSeq(t, 1, b - 1))
  <2>1. t[b] \in Seq(Row) /\ Len(t[b]) \in Nat /\ b \in Nat /\ (b + 1) - 1 = b
    BY LenProperties
  <2>2. SubSeq(t, 1, b - 1) \in Seq(Seq(Row))
    BY SubSeqProperties
  <2>3. r \in Seq(Row) /\ Len(r) \in Nat
    BY <1>0, <2>2, LenProperties
  <2>4. All(SubSeq(t, 1, b)) = r \o t[b]
    <3> DEFINE G(j) == ConcatFold!Fold(0, 0, <<>>, SubSeq(t, 1, j))
               S == Seq(Row)
    <3>0. t \in Seq(S)
      OBVIOUS
    <3> HIDE DEF S
    <3>1. \A j \in 1 .. Len(t) : G(j) = Glue(G(j - 1), t[j])
      BY <3>0, ConcatFold!FoldOfPrefix
    <3>2. G(b) = G(b - 1) \o t[b]
      <4> HIDE DEF G
      <4> QED
        BY <3>1 DEF Glue
    <3> QED
      BY <3>2, ConcatIsFold DEF All
  <2> HIDE DEF r
  <2>5. Len(r \o t[b]) = Len(r) + Len(t[b])
    BY <2>1, <2>3, ConcatProperties
  <2> QED
    BY <2>1, <2>3, <2>4, <2>5 DEF Begin, End, r
<1> QED
  BY <1>0, <1>1, <1>3, <1>4

LEMMA BatchesFollow ==
  ASSUME NEW t \in Seq(Seq(Row))
  PROVE  \A c \in Nat : \A b \in 1 .. Len(t) : b < c /\ c <= Len(t) + 1 => End(t, b) <= Begin(t, c)
<1> DEFINE T == {c \in Nat : \A b \in 1 .. Len(t) :
                   b < c /\ c <= Len(t) + 1 => End(t, b) <= Begin(t, c)}
<1>1. 0 \in T
  OBVIOUS
<1>2. ASSUME NEW c \in T PROVE c + 1 \in T
  <2> SUFFICES ASSUME NEW b \in 1 .. Len(t), b < c + 1, c + 1 <= Len(t) + 1
               PROVE  End(t, b) <= Begin(t, c + 1)
    OBVIOUS
  <2>0. c \in Nat /\ Len(t) \in Nat /\ b \in Nat
    BY LenProperties
  <2>9. b < c /\ c <= Len(t) + 1 => End(t, b) <= Begin(t, c)
    OBVIOUS
  <2> HIDE DEF T
  <2>1. c \in 1 .. Len(t)
    BY <2>0
  <2>2. /\ Begin(t, c) \in Nat /\ Len(t[c]) \in Nat /\ Begin(t, c + 1) = End(t, c)
        /\ Begin(t, b) \in Nat /\ Len(t[b]) \in Nat
    BY <2>1, BatchesTile
  <2>3. CASE b = c
    BY <2>2, <2>3 DEF End
  <2>4. CASE b < c
    BY <2>0, <2>1, <2>2, <2>4, <2>9 DEF End
  <2> QED
    BY <2>0, <2>3, <2>4
<1>3. T \in SUBSET Nat
  OBVIOUS
<1>4. T = Nat
  <2> HIDE DEF T
  <2> QED
    BY <1>1, <1>2, <1>3, ConcatFold!SetInduction
<1> QED
  BY <1>4

\* Every row is in one batch.
LEMMA RowHasBatch ==
  ASSUME NEW t \in Seq(Seq(Row)), NEW row \in 0 .. Len(All(t)) - 1
  PROVE  BatchOf(t, row) \in 1 .. Len(t) /\ Holds(t, BatchOf(t, row), row)
<1> DEFINE T == {c \in Nat : c \in 1 .. Len(t) + 1 => row >= Begin(t, c)}
<1>1. Len(t) \in Nat /\ Len(All(t)) \in Nat /\ row \in Nat /\ row < Len(All(t))
      /\ DOMAIN t = 1 .. Len(t)
  BY BatchesTile, LenProperties
<1>2. \E b \in 1 .. Len(t) : Holds(t, b, row)
  <2> SUFFICES ASSUME \A b \in 1 .. Len(t) : ~Holds(t, b, row) PROVE FALSE
    OBVIOUS
  <2>1. 0 \in T
    OBVIOUS
  <2>2. ASSUME NEW c \in T PROVE c + 1 \in T
    <3> SUFFICES ASSUME c + 1 \in 1 .. Len(t) + 1 PROVE row >= Begin(t, c + 1)
      OBVIOUS
    <3>0. c \in Nat /\ (c \in 1 .. Len(t) + 1 => row >= Begin(t, c))
      OBVIOUS
    <3> HIDE DEF T
    <3>1. CASE c = 0
      <4>1. Begin(t, c + 1) = 0
        BY <3>1, BatchesTile
      <4> QED
        BY <1>1, <4>1
    <3>2. CASE c \in 1 .. Len(t)
      <4>1. Begin(t, c) \in Nat /\ Len(t[c]) \in Nat /\ Begin(t, c + 1) = End(t, c)
        BY <3>2, BatchesTile
      <4>2. row >= Begin(t, c) /\ ~Holds(t, c, row)
        BY <1>1, <3>0, <3>2
      <4>3. row >= End(t, c)
        BY <1>1, <4>1, <4>2 DEF Holds, End
      <4> QED
        BY <4>1, <4>3
    <3> QED
      BY <1>1, <3>0, <3>1, <3>2
  <2>3. T \in SUBSET Nat
    OBVIOUS
  <2>4. T = Nat
    <3> HIDE DEF T
    <3> QED
      BY <2>1, <2>2, <2>3, ConcatFold!SetInduction
  <2>5. row >= Begin(t, Len(t) + 1)
    BY <1>1, <2>4
  <2> QED
    BY <1>1, <2>5, BatchesTile
<1> QED
  BY <1>1, <1>2 DEF BatchOf

LEMMA BatchIsUnique ==
  ASSUME NEW t \in Seq(Seq(Row)), NEW b \in 1 .. Len(t), NEW c \in 1 .. Len(t),
         NEW row \in Nat, Holds(t, b, row), Holds(t, c, row)
  PROVE  b = c
<1>1. Len(t) \in Nat
  BY LenProperties
<1>2. ASSUME NEW i \in 1 .. Len(t), NEW j \in 1 .. Len(t), i < j,
             Holds(t, i, row), Holds(t, j, row)
      PROVE  FALSE
  <2>1. End(t, i) <= Begin(t, j)
    BY <1>1, <1>2, BatchesFollow
  <2>2. Begin(t, i) \in Nat /\ Len(t[i]) \in Nat /\ Begin(t, j) \in Nat
    BY BatchesTile
  <2> QED
    BY <1>2, <2>1, <2>2 DEF Holds, End
<1>3. ~(b < c) /\ ~(c < b)
  BY <1>2
<1> QED
  BY <1>1, <1>3

-----------------------------------------------------------------------------
(***************************************************************************)
(* What a worker has counted: the batches it has entered, clipped to its   *)
(* range.                                                                  *)
(***************************************************************************)
Least(a, b) == IF a <= b THEN a ELSE b
Most(a, b) == IF a >= b THEN a ELSE b

InputAt(t, lo, hi, row) ==
  IF row = lo THEN 0 ELSE Least(hi, End(t, BatchOf(t, row - 1))) - lo
EnteredAt(t, lo, hi, row) ==
  LET b == BatchOf(t, row) IN
  IF row = Most(lo, Begin(t, b)) THEN Least(hi, End(t, b)) - row ELSE 0

LEMMA LeastIsMin == \A a, b \in Nat : Cpu!Min({a, b}) = Least(a, b)
<1> SUFFICES ASSUME NEW a \in Nat, NEW b \in Nat PROVE Cpu!Min({a, b}) = Least(a, b)
  OBVIOUS
<1>1. \E m \in {a, b} : \A n \in {a, b} : m <= n
  OBVIOUS
<1>2. Cpu!Min({a, b}) \in {a, b} /\ \A n \in {a, b} : Cpu!Min({a, b}) <= n
  BY <1>1 DEF Cpu!Min
<1> QED
  BY <1>2 DEF Least

LEMMA MostIsMax == \A a, b \in Nat : Cpu!Max({a, b}) = Most(a, b)
<1> SUFFICES ASSUME NEW a \in Nat, NEW b \in Nat PROVE Cpu!Max({a, b}) = Most(a, b)
  OBVIOUS
<1>1. \E m \in {a, b} : \A n \in {a, b} : m >= n
  OBVIOUS
<1>2. Cpu!Max({a, b}) \in {a, b} /\ \A n \in {a, b} : Cpu!Max({a, b}) >= n
  BY <1>1 DEF Cpu!Max
<1> QED
  BY <1>2 DEF Most

\* Entering a batch counts the rows of it that lie in the range.
LEMMA InputGrows ==
  ASSUME NEW t \in Seq(Seq(Row)), NEW lo \in Nat, NEW hi \in 0 .. Len(All(t)),
         NEW row \in lo .. hi - 1
  PROVE  /\ InputAt(t, lo, hi, row) \in Int /\ EnteredAt(t, lo, hi, row) \in Int
         /\ InputAt(t, lo, hi, row) + EnteredAt(t, lo, hi, row) = InputAt(t, lo, hi, row + 1)
<1> DEFINE b == BatchOf(t, row)
           B == Begin(t, b)
           E == End(t, b)
<1>1. Len(All(t)) \in Nat /\ Len(t) \in Nat
  BY BatchesTile, LenProperties
<1>2. row \in 0 .. Len(All(t)) - 1 /\ row \in Nat /\ hi \in Nat /\ row < hi /\ lo <= row
      /\ (row + 1) - 1 = row /\ row + 1 # lo
  BY <1>1
<1>3. b \in 1 .. Len(t) /\ B <= row /\ row < E /\ B \in Nat /\ E \in Nat
  BY <1>2, RowHasBatch, BatchesTile DEF Holds, End
<1>4. InputAt(t, lo, hi, row + 1) = Least(hi, E) - lo
  BY <1>2 DEF InputAt
<1>5. EnteredAt(t, lo, hi, row) = IF row = Most(lo, B) THEN Least(hi, E) - row ELSE 0
  BY DEF EnteredAt
<1>6. CASE row = lo
  <2>1. InputAt(t, lo, hi, row) = 0
    BY <1>6 DEF InputAt
  <2> HIDE DEF b, B, E
  <2>2. Most(lo, B) = row
    BY <1>2, <1>3, <1>6 DEF Most
  <2> QED
    BY <1>2, <1>3, <1>4, <1>5, <1>6, <2>1, <2>2 DEF Least
<1>7. CASE row # lo
  <2> DEFINE c == BatchOf(t, row - 1)
             C == End(t, c)
             A == Begin(t, c)
  <2>1. row - 1 \in 0 .. Len(All(t)) - 1 /\ row - 1 \in Nat
    BY <1>1, <1>2, <1>7
  <2>2. c \in 1 .. Len(t) /\ A <= row - 1 /\ row - 1 < C /\ A \in Nat /\ C \in Nat
    BY <2>1, RowHasBatch, BatchesTile DEF Holds, End
  <2>3. InputAt(t, lo, hi, row) = Least(hi, C) - lo
    BY <1>7 DEF InputAt
  <2>4. CASE B = row
    <3>1. C = row
      <4>1. ~(C > row)
        <5> SUFFICES ASSUME C > row PROVE FALSE
          OBVIOUS
        <5>1. Holds(t, c, row) /\ Holds(t, b, row)
          BY <1>2, <1>3, <2>2 DEF Holds
        <5>2. c = b
          BY <1>2, <1>3, <2>2, <5>1, BatchIsUnique
        <5>3. A = B
          BY <5>2
        <5> HIDE DEF A, B, C, b, c
        <5> QED
          BY <1>2, <2>2, <2>4, <5>3
      <4> HIDE DEF A, B, C, b, c
      <4> QED
        BY <1>2, <2>2, <4>1
    <3> HIDE DEF b, B, E, c, C, A
    <3>2. Most(lo, B) = row
      BY <1>2, <1>3, <2>4 DEF Most
    <3>3. InputAt(t, lo, hi, row) = row - lo
      BY <1>2, <2>3, <3>1 DEF Least
    <3>4. EnteredAt(t, lo, hi, row) = Least(hi, E) - row
      BY <1>5, <3>2
    <3>5. Least(hi, E) \in Int
      BY <1>2, <1>3 DEF Least
    <3> QED
      BY <1>2, <1>4, <3>3, <3>4, <3>5
  <2>5. CASE B # row
    <3>1. Holds(t, b, row - 1) /\ Holds(t, c, row - 1)
      <4>1. B <= row - 1 /\ row - 1 < E
        <5> HIDE DEF b, B, E
        <5> QED
          BY <1>2, <1>3, <2>5
      <4> QED
        BY <2>2, <4>1 DEF Holds
    <3>2. b = c
      BY <1>3, <2>1, <2>2, <3>1, BatchIsUnique
    <3>3. C = E
      BY <3>2
    <3> HIDE DEF b, B, E, c, C, A
    <3>4. Most(lo, B) # row
      BY <1>2, <1>3, <1>7, <2>5 DEF Most
    <3>5. EnteredAt(t, lo, hi, row) = 0
      BY <1>5, <3>4
    <3>6. Least(hi, E) - lo \in Int
      BY <1>2, <1>3 DEF Least
    <3> QED
      BY <1>4, <2>3, <3>3, <3>5, <3>6
  <2> QED
    BY <2>4, <2>5
<1> QED
  BY <1>6, <1>7

\* At the end of a range all of its rows are counted.
LEMMA InputAtEnd ==
  ASSUME NEW t \in Seq(Seq(Row)), NEW lo \in Nat, NEW hi \in 0 .. Len(All(t)), lo <= hi
  PROVE  InputAt(t, lo, hi, hi) = hi - lo
<1> DEFINE b == BatchOf(t, hi - 1)
           E == End(t, b)
<1>1. Len(All(t)) \in Nat /\ hi \in Nat
  BY BatchesTile, LenProperties
<1>2. CASE hi = lo
  BY <1>1, <1>2 DEF InputAt
<1>3. CASE hi # lo
  <2>1. hi - 1 \in 0 .. Len(All(t)) - 1 /\ hi - 1 \in Nat
    BY <1>1, <1>3
  <2>4. b \in 1 .. Len(t) /\ Holds(t, b, hi - 1)
    BY <2>1, RowHasBatch
  <2>5. Begin(t, b) \in Nat /\ Len(t[b]) \in Nat
    BY <2>4, BatchesTile
  <2>2. b \in 1 .. Len(t) /\ hi - 1 < E /\ E \in Nat
    BY <2>4, <2>5 DEF Holds, End
  <2>3. InputAt(t, lo, hi, hi) = Least(hi, E) - lo
    BY <1>3 DEF InputAt
  <2> HIDE DEF E, b
  <2> QED
    BY <1>1, <2>2, <2>3 DEF Least
<1> QED
  BY <1>2, <1>3

\* One more element of a sequence.
LEMMA SubSeqGrows ==
  ASSUME NEW X, NEW s \in Seq(X), NEW lo \in Nat, NEW p \in Nat, lo <= p, p < Len(s)
  PROVE  SubSeq(s, lo + 1, p + 1) = Append(SubSeq(s, lo + 1, p), s[p + 1])
<1> DEFINE a == SubSeq(s, lo + 1, p)
<1>1. Len(s) \in Nat /\ lo + 1 \in 1 .. Len(s) /\ p + 1 \in lo + 1 .. Len(s) /\ (p + 1) - 1 = p
  BY LenProperties
<1>2. SubSeq(s, lo + 1, p + 1) = SubSeq(s, lo + 1, (p + 1) - 1) \o <<s[p + 1]>>
  BY <1>1, SubSeqRecursiveSecond
<1>3. a \in Seq(X) /\ s[p + 1] \in X
  <2>1. \A i \in lo + 1 .. p : s[i] \in X
    BY <1>1
  <2> QED
    BY <1>1, <2>1, SubSeqProperties
<1> HIDE DEF a
<1>4. Append(a, s[p + 1]) = a \o <<s[p + 1]>>
  BY <1>3, AppendIsConcat
<1> QED
  BY <1>1, <1>2, <1>4 DEF a

-----------------------------------------------------------------------------
(***************************************************************************)
(* The workers.                                                            *)
(***************************************************************************)
\* A worker enters a batch.
Entering(p, k) == [p EXCEPT !.input = @ + k]

\* Worker w of count has read the rows of its range before row p.
ReadBy(t, count, w, p) == SubSeq(All(t), Bound(All(t), count, w) + 1, p)
InputBy(t, count, w, p) == InputAt(t, Bound(All(t), count, w), Bound(All(t), count, w + 1), p)

Progress(t, count, w, p, partial, state) ==
  LET read == ReadBy(t, count, w, p) IN
  /\ p \in Bound(All(t), count, w) .. Bound(All(t), count, w + 1)
  /\ \E n \in Int : /\ partial = Clipped(read, n)
                    /\ Scanned(read).status = "ok" => n = InputBy(t, count, w, p)
  /\ state = "done" => p = Bound(All(t), count, w + 1) \/ Scanned(read).status # "ok"

Right(t, count, state, result) ==
  state = "returned" /\ result.status # "unknown" =>
    IF Answerable(All(t)) THEN result = TrueAnswer(All(t))
    ELSE \E w : FirstBad(All(t), count, count, w) /\ result = Failed(Blame(All(t), count, w))

ScanInv ==
  /\ batches \in Seq(Seq(Row)) /\ workers \in Nat \ {0}
  /\ started \in 0 .. workers
  /\ DOMAIN thread = 0 .. workers - 1 /\ DOMAIN pos = 0 .. workers - 1
  /\ DOMAIN partials = 0 .. workers - 1
  /\ caller = "join" => started = workers
  /\ \A w \in 0 .. workers - 1 : Progress(batches, workers, w, pos[w], partials[w], thread[w])
  /\ Right(batches, workers, caller, scanned)

\* Adding a row does not look at the count of rows.
LEMMA InputAside ==
  ASSUME NEW sums, NEW matched, NEW status, NEW x, NEW n, NEW k, NEW q,
         q = [sums |-> sums, matched |-> matched, input |-> 0, status |-> status]
  PROVE  ScanRow(Entering(Counting(q, n), k), x) = Counting(ScanRow(q, x), n + k)
<1> DEFINE m == n + k
           r == [sums |-> sums, matched |-> matched, input |-> m, status |-> status]
           u == Counting(q, n)
<1>1. u = [sums |-> sums, matched |-> matched, input |-> n, status |-> status]
  BY DEF Counting
<1>2. Entering(u, k) = r
  <2> HIDE DEF u
  <2>1. u.input = n
    BY <1>1
  <2>2. Entering(u, k) = [u EXCEPT !.input = m]
    BY <2>1 DEF Entering
  <2> HIDE DEF m
  <2> QED
    BY <1>1, <2>2
<1> HIDE DEF m, u
<1>4. ScanRow(r, x) = [ScanRow(q, x) EXCEPT !.input = m]
  <2>1. CASE status # "ok" \/ x.nation = None
    <3>1. ScanRow(r, x) = r /\ ScanRow(q, x) = q
      BY <2>1 DEF ScanRow
    <3> QED
      BY <3>1
  <2>2. CASE status = "ok" /\ x.nation # None /\ ~x.valid
    <3>1. ScanRow(r, x) = [r EXCEPT !.status = "invalid"]
          /\ ScanRow(q, x) = [q EXCEPT !.status = "invalid"]
      BY <2>2 DEF ScanRow
    <3>2. ScanRow(q, x) = [sums |-> sums, matched |-> matched, input |-> 0, status |-> "invalid"]
      BY <3>1
    <3> QED
      BY <3>1, <3>2
  <2>3. CASE status = "ok" /\ x.nation # None /\ x.valid /\ ~Fits(sums[x.nation], x.revenue)
    <3>1. ScanRow(r, x) = [r EXCEPT !.status = "capacity"]
          /\ ScanRow(q, x) = [q EXCEPT !.status = "capacity"]
      BY <2>3 DEF ScanRow
    <3>2. ScanRow(q, x) = [sums |-> sums, matched |-> matched, input |-> 0, status |-> "capacity"]
      BY <3>1
    <3> QED
      BY <3>1, <3>2
  <2>4. CASE status = "ok" /\ x.nation # None /\ x.valid /\ Fits(sums[x.nation], x.revenue)
    <3> DEFINE s == [sums EXCEPT ![x.nation] = @ + x.revenue]
               c == matched + 1
    <3>1. /\ ScanRow(r, x) = [r EXCEPT !.sums = s, !.matched = c]
          /\ ScanRow(q, x) = [q EXCEPT !.sums = s, !.matched = c]
      BY <2>4 DEF ScanRow
    <3> HIDE DEF s, c
    <3>2. ScanRow(q, x) = [sums |-> s, matched |-> c, input |-> 0, status |-> status]
      BY <3>1
    <3>3. ScanRow(r, x) = [sums |-> s, matched |-> c, input |-> m, status |-> status]
      BY <3>1
    <3> QED
      BY <3>2, <3>3
  <2> QED
    BY <2>1, <2>2, <2>3, <2>4
<1> HIDE DEF r
<1> QED
  BY <1>2, <1>4 DEF m, u, Counting

LEMMA ReadIsRows ==
  ASSUME NEW t \in Seq(Seq(Row)), NEW count \in Nat \ {0}, NEW w \in 0 .. count - 1,
         NEW p, NEW partial, NEW state, Progress(t, count, w, p, partial, state)
  PROVE  ReadBy(t, count, w, p) \in Seq(Row)
<1> DEFINE R == All(t)
           lo == Bound(R, count, w)
           hi == Bound(R, count, w + 1)
<1>1. R \in Seq(Row) /\ Len(R) \in Nat
  BY BatchesTile, LenProperties
<1>2. p \in lo .. hi /\ ReadBy(t, count, w, p) = SubSeq(R, lo + 1, p)
  BY DEF Progress, ReadBy
<1> HIDE DEF R
<1>3. lo \in 0 .. Len(R) /\ hi \in 0 .. Len(R)
  BY <1>1, RangesInOrder
<1> HIDE DEF lo, hi
<1>4. \A i \in lo + 1 .. p : R[i] \in Row
  BY <1>1, <1>2, <1>3
<1>5. lo + 1 \in Int /\ p \in Int
  BY <1>2, <1>3
<1> QED
  BY <1>2, <1>4, <1>5, SubSeqProperties

\* The worker's next row.
LEMMA WorkerReads ==
  ASSUME NEW t \in Seq(Seq(Row)), NEW count \in Nat \ {0}, NEW w \in 0 .. count - 1,
         NEW p \in Int, NEW partial, NEW state, Progress(t, count, w, p, partial, state),
         p < Bound(All(t), count, w + 1), partial.status = "ok"
  PROVE  LET entered == EnteredAt(t, Bound(All(t), count, w), Bound(All(t), count, w + 1), p)
             next == ScanRow(Entering(partial, entered), All(t)[p + 1])
         IN Progress(t, count, w, p + 1, next, "running")
<1> DEFINE R == All(t)
           lo == Bound(R, count, w)
           hi == Bound(R, count, w + 1)
           a == ReadBy(t, count, w, p)
           b == ReadBy(t, count, w, p + 1)
           x == R[p + 1]
           q == Scanned(a)
           k == EnteredAt(t, lo, hi, p)
           next == ScanRow(Entering(partial, k), x)
<1>1. R \in Seq(Row) /\ Len(R) \in Nat
  BY BatchesTile, LenProperties
<1>2. lo \in 0 .. Len(R) /\ hi \in 0 .. Len(R)
  <2> HIDE DEF R
  <2> QED
    BY <1>1, RangesInOrder
<1>3. p \in lo .. hi - 1 /\ p + 1 \in lo .. hi /\ p + 1 \in 1 .. Len(R) /\ p \in Nat
  <2>1. p \in lo .. hi /\ p < hi
    BY DEF Progress
  <2> HIDE DEF lo, hi, R
  <2> QED
    BY <1>1, <1>2, <2>1
<1>4. PICK n \in Int : partial = Clipped(a, n) /\ (q.status = "ok" => n = InputBy(t, count, w, p))
  BY DEF Progress
<1>5. a \in Seq(Row) /\ b = Append(a, x) /\ x \in Row
  <2>1. a = SubSeq(R, lo + 1, p) /\ b = SubSeq(R, lo + 1, p + 1)
    BY DEF ReadBy
  <2> HIDE DEF a, b, lo, hi, R, x
  <2>2. R[p + 1] \in Row /\ lo \in Nat /\ lo <= p /\ p < Len(R)
    BY <1>1, <1>2, <1>3
  <2>3. SubSeq(R, lo + 1, p) \in Seq(Row)
    <3>1. \A i \in lo + 1 .. p : R[i] \in Row
      BY <1>1, <1>2, <1>3
    <3> QED
      BY <1>3, <2>2, <3>1, SubSeqProperties
  <2>4. SubSeq(R, lo + 1, p + 1) = Append(SubSeq(R, lo + 1, p), R[p + 1])
    BY <1>1, <1>3, <2>2, SubSeqGrows
  <2> QED
    BY <2>1, <2>2, <2>3, <2>4 DEF x
<1>6. q = [sums |-> q.sums, matched |-> q.matched, input |-> 0, status |-> q.status]
  BY <1>5, ScannedShape
<1>7. partial = Counting(q, n)
  BY <1>4 DEF Clipped
<1>8. next = Counting(ScanRow(q, x), n + k)
  <2> HIDE DEF q, x, k
  <2> QED
    BY <1>6, <1>7, InputAside
<1>9. ScanRow(q, x) = Scanned(b)
  <2> HIDE DEF a, b, x
  <2> QED
    BY <1>5, ScannedOfAppend
<1>10. q.status = "ok"
  <2> HIDE DEF q
  <2> QED
    BY <1>6, <1>7 DEF Counting
<1>11. n + k = InputBy(t, count, w, p + 1) /\ n + k \in Int
  <2>1. n = InputAt(t, lo, hi, p)
    BY <1>4, <1>10 DEF InputBy
  <2>2. lo \in Nat /\ hi \in 0 .. Len(All(t))
    BY <1>1, <1>2
  <2>3. InputAt(t, lo, hi, p) + k = InputAt(t, lo, hi, p + 1) /\ k \in Int
    <3> HIDE DEF lo, hi
    <3> QED
      BY <1>3, <2>2, InputGrows
  <2>4. InputBy(t, count, w, p + 1) = InputAt(t, lo, hi, p + 1)
    BY DEF InputBy
  <2> HIDE DEF lo, hi, k
  <2> QED
    BY <2>1, <2>3, <2>4
<1>12. next = Clipped(b, n + k)
  BY <1>8, <1>9 DEF Clipped
<1> HIDE DEF R, lo, hi, a, b, x, q, k, next
<1>13. Progress(t, count, w, p + 1, next, "running")
  BY <1>3, <1>11, <1>12 DEF Progress, R, lo, hi, b
<1> QED
  BY <1>13 DEF R, lo, hi, x, k, next

\* A thread that has ended has scanned its range, or as much as it takes to see
\* that the range cannot be scanned.
LEMMA DoneYields ==
  ASSUME NEW t \in Seq(Seq(Row)), NEW count \in Nat \ {0}, NEW w \in 0 .. count - 1,
         NEW p, NEW partial, Progress(t, count, w, p, partial, "done")
  PROVE  Yields(partial, Segment(All(t), count, w))
<1> DEFINE R == All(t)
           lo == Bound(R, count, w)
           hi == Bound(R, count, w + 1)
           a == ReadBy(t, count, w, p)
           b == Segment(R, count, w)
<1>1. R \in Seq(Row) /\ Len(R) \in Nat
  BY BatchesTile, LenProperties
<1>2. lo \in 0 .. Len(R) /\ hi \in 0 .. Len(R) /\ lo <= hi /\ lo \in Nat
  <2> HIDE DEF R
  <2> QED
    BY <1>1, RangesInOrder
<1>3. p \in lo .. hi /\ (p = hi \/ Scanned(a).status # "ok")
  BY DEF Progress
<1>4. PICK n \in Int : /\ partial = Clipped(a, n)
                       /\ Scanned(a).status = "ok" => n = InputBy(t, count, w, p)
  BY DEF Progress
<1>5. a = SubSeq(R, lo + 1, p) /\ b = SubSeq(R, lo + 1, hi)
  BY DEF ReadBy, Segment
<1>6. a \in Seq(Row) /\ b \in Seq(Row) /\ Len(b) = hi - lo
  <2> HIDE DEF a, b, lo, hi, R
  <2>1. \A i \in lo + 1 .. hi : R[i] \in Row
    BY <1>1, <1>2
  <2>2. \A i \in lo + 1 .. p : R[i] \in Row
    BY <1>2, <1>3, <2>1
  <2>3. lo + 1 \in Int /\ hi \in Int /\ p \in Int
    BY <1>2, <1>3
  <2>4. SubSeq(R, lo + 1, hi) \in Seq(Row) /\ SubSeq(R, lo + 1, p) \in Seq(Row)
    BY <2>1, <2>2, <2>3, SubSeqProperties
  <2>5. Len(SubSeq(R, lo + 1, hi)) = hi - lo
    BY <1>2, <2>1, <2>3, SubSeqProperties
  <2> QED
    BY <1>5, <2>4, <2>5
<1>7. CASE p = hi
  <2>1. a = b
    BY <1>5, <1>7
  <2>2. InputBy(t, count, w, p) = hi - lo
    <3>1. InputAt(t, lo, hi, hi) = hi - lo
      BY <1>1, <1>2, InputAtEnd
    <3> QED
      BY <1>7, <3>1 DEF InputBy
  <2> HIDE DEF a, b, lo, hi, R
  <2>3. Scanned(b).status = "ok" => n = Len(b)
    BY <1>4, <1>6, <2>1, <2>2
  <2>4. Yields(Clipped(b, n), b)
    BY <1>6, <2>3, ScannedYields
  <2> QED
    BY <1>4, <2>1, <2>4 DEF b, R
<1>8. CASE Scanned(a).status # "ok"
  <2> DEFINE c == SubSeq(R, p + 1, hi)
  <2>1. b = a \o c /\ c \in Seq(Row)
    <3> HIDE DEF a, b, lo, hi, R
    <3>1. \A i \in p + 1 .. hi : R[i] \in Row
      BY <1>1, <1>2, <1>3
    <3>2. p + 1 \in Int /\ hi \in Int
      BY <1>2, <1>3
    <3>3. c \in Seq(Row)
      BY <3>1, <3>2, SubSeqProperties
    <3>4. SubSeq(R, lo + 1, hi) = SubSeq(R, lo + 1, p) \o SubSeq(R, p + 1, hi)
      BY <1>1, <1>2, <1>3, ConcatAdjacentSubSeq
    <3> QED
      BY <1>5, <3>3, <3>4
  <2> HIDE DEF a, b, c, R, lo, hi
  <2>2. Scanned(b) = Scanned(a)
    BY <1>6, <1>8, <2>1, ErrorStays
  <2>3. Yields(Clipped(b, n), b)
    BY <1>6, <1>8, <2>2, ScannedYields
  <2>4. Clipped(a, n) = Clipped(b, n)
    BY <2>2 DEF Clipped
  <2> QED
    BY <1>4, <2>3, <2>4 DEF b, R
<1> QED
  BY <1>3, <1>7, <1>8

LEMMA ScanRangeIs ==
  ASSUME NEW w
  PROVE  Cpu!WorkerRange(w, workers, Len(Cpu!Rows)) =
           <<Bound(All(batches), workers, w), Bound(All(batches), workers, w + 1)>>
BY DEF Cpu!WorkerRange, Cpu!Rows, All, Bound

LEMMA EnteredIs ==
  ASSUME batches \in Seq(Seq(Row)), workers \in Nat \ {0}, NEW w \in 0 .. workers - 1,
         NEW row \in Bound(All(batches), workers, w) .. Bound(All(batches), workers, w + 1) - 1
  PROVE  Cpu!Entered(w, row) =
           EnteredAt(batches, Bound(All(batches), workers, w), Bound(All(batches), workers, w + 1), row)
<1> DEFINE R == All(batches)
           lo == Bound(R, workers, w)
           hi == Bound(R, workers, w + 1)
           b == BatchOf(batches, row)
<1>1. R \in Seq(Row) /\ Len(R) \in Nat
  BY BatchesTile, LenProperties
<1>2. lo \in 0 .. Len(R) /\ hi \in 0 .. Len(R) /\ lo \in Nat /\ hi \in Nat
  <2> HIDE DEF R
  <2> QED
    BY <1>1, RangesInOrder
<1>3. row \in 0 .. Len(R) - 1
  <2>1. row \in lo .. hi - 1
    OBVIOUS
  <2> HIDE DEF lo, hi, R
  <2> QED
    BY <1>1, <1>2, <2>1
<1>4. Begin(batches, b) \in Nat /\ End(batches, b) \in Nat
  <2>1. b \in 1 .. Len(batches)
    BY <1>3, RowHasBatch
  <2>2. Begin(batches, b) \in Nat /\ Len(batches[b]) \in Nat
    BY <2>1, BatchesTile
  <2> QED
    BY <2>2 DEF End
<1>5. \A i : Cpu!BatchBegin(i) = Begin(batches, i) /\ Cpu!BatchEnd(i) = End(batches, i)
  BY DEF Cpu!BatchBegin, Cpu!BatchEnd, Begin, End, All
<1>6. (CHOOSE i \in DOMAIN batches : Cpu!BatchBegin(i) <= row /\ row < Cpu!BatchEnd(i)) = b
  BY <1>5 DEF BatchOf, Holds
<1>7. Cpu!Max({lo, Begin(batches, b)}) = Most(lo, Begin(batches, b))
  BY <1>2, <1>4, MostIsMax
<1>8. Cpu!Min({hi, End(batches, b)}) = Least(hi, End(batches, b))
  BY <1>2, <1>4, LeastIsMin
<1>9. Cpu!WorkerRange(w, workers, Len(Cpu!Rows)) = <<lo, hi>>
  BY ScanRangeIs
<1>10. Cpu!Entered(w, row) = IF row = Cpu!Max({lo, Begin(batches, b)})
                             THEN Cpu!Min({hi, End(batches, b)}) - row ELSE 0
  <2> DEFINE c == CHOOSE i \in DOMAIN batches : Cpu!BatchBegin(i) <= row /\ row < Cpu!BatchEnd(i)
             r == Cpu!WorkerRange(w, workers, Len(Cpu!Rows))
  <2>1. Cpu!Entered(w, row) = IF row = Cpu!Max({r[1], Cpu!BatchBegin(c)})
                              THEN Cpu!Min({r[2], Cpu!BatchEnd(c)}) - row ELSE 0
    BY DEF Cpu!Entered
  <2>2. c = b /\ r = <<lo, hi>>
    BY <1>6, <1>9
  <2>3. Cpu!BatchBegin(b) = Begin(batches, b) /\ Cpu!BatchEnd(b) = End(batches, b)
    BY <1>5
  <2> HIDE DEF lo, hi, b, R, c, r
  <2>4. r[1] = lo /\ r[2] = hi
    BY <2>2
  <2> QED
    BY <2>1, <2>2, <2>3, <2>4
<1>11. EnteredAt(batches, lo, hi, row) =
         IF row = Most(lo, Begin(batches, b)) THEN Least(hi, End(batches, b)) - row ELSE 0
  BY DEF EnteredAt
<1> QED
  BY <1>7, <1>8, <1>10, <1>11

LEMMA InitScanInv == Cpu!Init => ScanInv
<1> SUFFICES ASSUME Cpu!Init PROVE ScanInv
  OBVIOUS
<1> DEFINE R == All(batches)
<1>1. batches \in Seq(Seq(Row)) /\ R \in Seq(Row) /\ Len(R) \in Nat
  <2>1. batches \in Seq(Seq(Row))
    BY ScansAreTyped DEF Cpu!Init
  <2> QED
    BY <2>1, BatchesTile, LenProperties
<1>2. workers \in Nat \ {0}
  <2>1. PICK n \in Int : workers = WorkerCount(n, Len(R))
    BY ScansAreTyped, ScanUsesRows DEF Cpu!Init, All
  <2> HIDE DEF R
  <2> QED
    BY <1>1, <2>1, WorkerCountIsPositive
<1>3. ASSUME NEW w \in 0 .. workers - 1
      PROVE  Progress(batches, workers, w, pos[w], partials[w], thread[w])
  <2> DEFINE lo == Bound(R, workers, w)
             hi == Bound(R, workers, w + 1)
  <2>1. lo \in 0 .. Len(R) /\ hi \in 0 .. Len(R) /\ lo <= hi
    <3> HIDE DEF R
    <3> QED
      BY <1>1, <1>2, RangesInOrder
  <2>2. pos[w] = lo
    BY DEF Cpu!Init, Cpu!WorkerRange, All, Bound
  <2>3. partials[w] = EmptyPartial /\ thread[w] = "none"
    BY ScanUsesRows DEF Cpu!Init
  <2>4. ReadBy(batches, workers, w, lo) = <<>>
    <3>1. ReadBy(batches, workers, w, lo) = SubSeq(R, lo + 1, lo)
      BY DEF ReadBy
    <3> HIDE DEF R, lo
    <3> QED
      BY <2>1, <3>1, SubSeqEmpty
  <2>5. EmptyPartial = Clipped(<<>>, 0)
    BY NothingIsExact DEF Clipped, Counting, EmptyPartial
  <2>6. InputBy(batches, workers, w, lo) = 0
    BY DEF InputBy, InputAt
  <2>7. lo \in lo .. hi
    <3> HIDE DEF R, lo, hi
    <3> QED
      BY <2>1
  <2> HIDE DEF R
  <2> QED
    BY <2>2, <2>3, <2>4, <2>5, <2>6, <2>7 DEF Progress, R
<1>4. Right(batches, workers, caller, scanned)
  BY DEF Cpu!Init, Right
<1>5. /\ started \in 0 .. workers /\ DOMAIN thread = 0 .. workers - 1
      /\ DOMAIN pos = 0 .. workers - 1 /\ DOMAIN partials = 0 .. workers - 1
      /\ caller = "start"
  BY <1>2 DEF Cpu!Init
<1> QED
  BY <1>1, <1>2, <1>3, <1>4, <1>5 DEF ScanInv

LEMMA KeepScanInv == ScanInv /\ UNCHANGED Cpu!vars => ScanInv'
BY DEF ScanInv, Cpu!vars, Progress, Right

LEMMA ScanKeepsInv ==
  ASSUME ScanInv, NEW v \in DOMAIN thread, Cpu!Scan(v)
  PROVE  ScanInv'
<1> DEFINE R == All(batches)
           lo == Bound(R, workers, v)
           hi == Bound(R, workers, v + 1)
<1>1. v \in 0 .. workers - 1 /\ Progress(batches, workers, v, pos[v], partials[v], thread[v])
  BY DEF ScanInv
<1>2. batches \in Seq(Seq(Row)) /\ workers \in Nat \ {0} /\ R \in Seq(Row) /\ Len(R) \in Nat
  BY BatchesTile, LenProperties DEF ScanInv
<1>3. lo \in 0 .. Len(R) /\ hi \in 0 .. Len(R)
  <2> HIDE DEF R
  <2> QED
    BY <1>1, <1>2, RangesInOrder
<1>4. Cpu!WorkerRange(v, workers, Len(Cpu!Rows))[2] = hi
  <2> HIDE DEF lo, hi
  <2> QED
    BY ScanRangeIs DEF lo, hi
<1>5. UNCHANGED <<batches, workers, started, caller, scanned>> /\ thread[v] = "running"
  BY DEF Cpu!Scan
<1>6. pos[v] \in lo .. hi
  BY <1>1 DEF Progress
<1>7. /\ DOMAIN thread' = 0 .. workers - 1 /\ DOMAIN pos' = 0 .. workers - 1
      /\ DOMAIN partials' = 0 .. workers - 1
      /\ \A w \in 0 .. workers - 1 :
           w # v => pos'[w] = pos[w] /\ partials'[w] = partials[w] /\ thread'[w] = thread[w]
  BY DEF Cpu!Scan, ScanInv
<1>8. Progress(batches, workers, v, pos'[v], partials'[v], thread'[v])
  <2>1. CASE pos[v] >= hi \/ partials[v].status # "ok"
    <3>1. pos' = pos /\ partials' = partials /\ thread'[v] = "done"
      BY <1>1, <1>4, <2>1 DEF Cpu!Scan
    <3> DEFINE read == ReadBy(batches, workers, v, pos[v])
    <3>2. PICK n \in Int : /\ partials[v] = Clipped(read, n)
                           /\ Scanned(read).status = "ok" => n = InputBy(batches, workers, v, pos[v])
      BY <1>1 DEF Progress
    <3>3. partials[v].status = Scanned(read).status
      <4> DEFINE s == Scanned(read)
      <4>1. s = [sums |-> s.sums, matched |-> s.matched, input |-> 0, status |-> s.status]
        <5>1. read \in Seq(Row)
          BY <1>1, <1>2, ReadIsRows
        <5> QED
          BY <5>1, ScannedShape
      <4>2. partials[v] = [s EXCEPT !.input = n]
        BY <3>2 DEF Clipped, Counting
      <4> HIDE DEF s
      <4>3. partials[v].status = s.status
        BY <4>1, <4>2
      <4> QED
        BY <4>3 DEF s
    <3>4. pos[v] = hi \/ Scanned(read).status # "ok"
      <4> HIDE DEF lo, hi, R, read
      <4> QED
        BY <1>3, <1>6, <2>1, <3>3
    <3> QED
      BY <1>6, <3>1, <3>2, <3>4 DEF Progress
  <2>2. CASE ~(pos[v] >= hi \/ partials[v].status # "ok")
    <3> DEFINE k == EnteredAt(batches, lo, hi, pos[v])
    <3> DEFINE e == Cpu!ScanRow(Cpu!Counted(v), Cpu!Rows[pos[v] + 1])
    <3>1. pos' = [pos EXCEPT ![v] = @ + 1] /\ partials' = [partials EXCEPT ![v] = e] /\ thread' = thread
      <4>1. ~(pos[v] >= Cpu!WorkerRange(v, workers, Len(Cpu!Rows))[2] \/ partials[v].status # "ok")
        BY <1>4, <2>2
      <4> QED
        BY <4>1, Zenon DEF Cpu!Scan
    <3> HIDE DEF e
    <3>2. pos'[v] = pos[v] + 1 /\ thread'[v] = "running"
      BY <1>1, <1>5, <3>1 DEF ScanInv
    <3>9. partials'[v] = e
      BY <1>1, <3>1 DEF ScanInv
    <3>3. partials'[v] = ScanRow(Cpu!Counted(v), Cpu!Rows[pos[v] + 1])
      BY <3>9, ScanUsesRows DEF e
    <3>4. pos[v] \in lo .. hi - 1 /\ pos[v] \in Int /\ pos[v] < hi /\ partials[v].status = "ok"
      <4> HIDE DEF lo, hi, R
      <4> QED
        BY <1>3, <1>6, <2>2
    <3>5. Cpu!Entered(v, pos[v]) = k
      BY <1>1, <1>2, <3>4, EnteredIs
    <3>6. Cpu!Rows = R
      BY DEF Cpu!Rows, All
    <3>7. partials'[v] = ScanRow(Entering(partials[v], k), R[pos[v] + 1])
      <4>1. Cpu!Counted(v) = Entering(partials[v], Cpu!Entered(v, pos[v]))
        BY DEF Entering, Cpu!Counted
      <4> HIDE DEF k, R
      <4> QED
        BY <3>3, <3>5, <3>6, <4>1
    <3>8. Progress(batches, workers, v, pos[v] + 1,
                   ScanRow(Entering(partials[v], k), R[pos[v] + 1]), "running")
      BY <1>1, <1>2, <3>4, WorkerReads
    <3> QED
      BY <3>2, <3>7, <3>8
  <2> QED
    BY <2>1, <2>2
<1>9. \A w \in 0 .. workers - 1 : Progress(batches, workers, w, pos'[w], partials'[w], thread'[w])
  BY <1>7, <1>8 DEF ScanInv
<1>10. /\ batches' = batches /\ workers' = workers /\ started' = started /\ caller' = caller
       /\ scanned' = scanned
  BY <1>5
<1> QED
  BY <1>7, <1>9, <1>10 DEF ScanInv, Right

\* Starting, and giving up starting.
LEMMA StartKeepsInv ==
  ASSUME ScanInv, Cpu!StartWorker \/ Cpu!StartFails \/ Cpu!AllStarted
  PROVE  ScanInv'
<1>1. /\ batches' = batches /\ workers' = workers /\ pos' = pos /\ partials' = partials
      /\ scanned' = scanned /\ caller' # "returned" /\ started' \in 0 .. workers
      /\ caller' = "join" => started' = workers
  BY DEF Cpu!StartWorker, Cpu!StartFails, Cpu!AllStarted, ScanInv
<1>2. DOMAIN thread' = 0 .. workers - 1
      /\ \A w \in 0 .. workers - 1 : thread'[w] \in {thread[w], "running"}
  BY DEF Cpu!StartWorker, Cpu!StartFails, Cpu!AllStarted, ScanInv
<1>3. \A w \in 0 .. workers - 1 : Progress(batches, workers, w, pos[w], partials[w], thread'[w])
  <2> SUFFICES ASSUME NEW w \in 0 .. workers - 1
               PROVE  Progress(batches, workers, w, pos[w], partials[w], thread'[w])
    OBVIOUS
  <2>1. Progress(batches, workers, w, pos[w], partials[w], thread[w])
    BY DEF ScanInv
  <2>2. thread'[w] = thread[w] \/ thread'[w] = "running"
    BY <1>2
  <2>3. CASE thread'[w] = "running"
    BY <2>1, <2>3 DEF Progress
  <2> QED
    BY <2>1, <2>2, <2>3
<1> QED
  BY <1>1, <1>2, <1>3 DEF ScanInv, Right

LEMMA MergeKeepsInv ==
  ASSUME ScanInv, Cpu!Merge
  PROVE  ScanInv'
<1> DEFINE R == All(batches)
           q == [i \in 1 .. workers |-> partials[i - 1]]
           X == {partials[i - 1] : i \in 1 .. workers}
           m == FoldLeft(MergePartial, EmptyPartial, q)
<1>1. batches \in Seq(Seq(Row)) /\ workers \in Nat \ {0} /\ R \in Seq(Row)
  BY BatchesTile DEF ScanInv
<1>2. q \in Seq(X) /\ Len(q) = workers
  <2>1. q = [i \in 1 .. workers |-> q[i]] /\ \A i \in 1 .. workers : q[i] \in X
    OBVIOUS
  <2> HIDE DEF q, X
  <2>2. q \in [1 .. workers -> X] /\ workers \in Nat
    BY <1>1, <2>1
  <2> QED
    BY <2>2, SeqDef, LenProperties
<1>3. ASSUME NEW i \in 1 .. workers PROVE Yields(q[i], Segment(R, workers, i - 1))
  <2>1. i - 1 \in 0 .. workers - 1 /\ i - 1 \in 0 .. started - 1
    BY <1>1 DEF Cpu!Merge, ScanInv
  <2>2. thread[i - 1] = "done"
    BY <2>1 DEF Cpu!Merge, Cpu!Joined
  <2>3. Progress(batches, workers, i - 1, pos[i - 1], partials[i - 1], "done")
    BY <2>1, <2>2 DEF ScanInv
  <2>4. Yields(partials[i - 1], Segment(All(batches), workers, i - 1))
    BY <1>1, <2>1, <2>3, DoneYields
  <2> QED
    BY <2>4
<1>4. scanned' = Finish(m)
  <2>1. scanned' = Cpu!Finish(Cpu!FoldLeft(Cpu!MergePartial, Cpu!EmptyPartial, q))
    BY DEF Cpu!Merge
  <2> HIDE DEF q
  <2> QED
    BY <2>1, ScanUsesRows, ScanFoldsAsRows
<1>5. /\ Answerable(R) => m = Exact(R)
      /\ ~Answerable(R) =>
           /\ m.status # "ok"
           /\ \E w : FirstBad(R, workers, workers, w) /\ m.status = Blame(R, workers, w)
  <2> HIDE DEF R, q, X, m
  <2>1. \A i \in 1 .. workers : Yields(q[i], Segment(R, workers, i - 1))
    BY <1>3
  <2> QED
    BY <1>1, <1>2, <2>1, MergedRanges DEF m
<1> HIDE DEF m, q, X, R
<1>6. Right(batches, workers, "returned", scanned')
  <2>1. Answerable(R) => scanned' = TrueAnswer(R)
    BY <1>4, <1>5, ExactIsFinished
  <2>2. m.status # "ok" => scanned' = Failed(m.status)
    BY <1>4 DEF Finish
  <2> QED
    BY <1>5, <2>1, <2>2 DEF Right, R
<1>7. /\ batches' = batches /\ workers' = workers /\ started' = started /\ thread' = thread
      /\ pos' = pos /\ partials' = partials /\ caller' = "returned"
  BY DEF Cpu!Merge
<1> QED
  BY <1>6, <1>7 DEF ScanInv

LEMMA UnwindKeepsInv ==
  ASSUME ScanInv, Cpu!Unwind
  PROVE  ScanInv'
<1>1. /\ batches' = batches /\ workers' = workers /\ started' = started /\ thread' = thread
      /\ pos' = pos /\ partials' = partials /\ caller' = "returned"
      /\ scanned'.status = "unknown"
  BY DEF Cpu!Unwind, Cpu!Failed
<1> QED
  BY <1>1 DEF ScanInv, Right

LEMMA NextScanInv == ScanInv /\ [Cpu!Next]_Cpu!vars => ScanInv'
<1> SUFFICES ASSUME ScanInv, [Cpu!Next]_Cpu!vars PROVE ScanInv'
  OBVIOUS
<1>1. CASE Cpu!StartWorker \/ Cpu!StartFails \/ Cpu!AllStarted
  BY <1>1, StartKeepsInv
<1>2. CASE Cpu!Merge
  BY <1>2, MergeKeepsInv
<1>3. CASE Cpu!Unwind
  BY <1>3, UnwindKeepsInv
<1>4. CASE \E w \in DOMAIN thread : Cpu!Scan(w)
  BY <1>4, ScanKeepsInv
<1>5. CASE UNCHANGED Cpu!vars
  BY <1>5, KeepScanInv
<1> QED
  BY <1>1, <1>2, <1>3, <1>4, <1>5 DEF Cpu!Next

\* The range to blame is the first that is bad.
LEMMA FirstErrorIs ==
  ASSUME batches \in Seq(Seq(Row)), workers \in Nat \ {0},
         NEW w, FirstBad(All(batches), workers, workers, w)
  PROVE  Cpu!FirstError = Blame(All(batches), workers, w)
<1> DEFINE R == All(batches)
           range(v) == Cpu!WorkerRange(v, workers, Len(Cpu!Rows))
           alone(v) == Cpu!FoldLeft(Cpu!ScanRow, Cpu!EmptyPartial,
                                    SubSeq(Cpu!Rows, range(v)[1] + 1, range(v)[2])).status
           heavy(v) == \E n \in Nation :
                         LET rows == SubSeq(Cpu!Rows, 1, range(v)[2]) IN
                         Cpu!SumOver(rows, Cpu!RowsAt(rows, n)) > MaxI64
           bad == {v \in 0 .. workers - 1 : alone(v) # "ok" \/ heavy(v)}
<1>1. Cpu!FirstError = IF alone(Cpu!Min(bad)) # "ok" THEN alone(Cpu!Min(bad)) ELSE "capacity"
  BY DEF Cpu!FirstError
<1>2. Cpu!Rows = R
  BY DEF Cpu!Rows, All
<1>3. \A v : range(v)[1] = Bound(R, workers, v) /\ range(v)[2] = Bound(R, workers, v + 1)
  BY ScanRangeIs
<1> HIDE DEF range
<1>4. \A v : alone(v) = Scanned(Segment(R, workers, v)).status
  BY <1>2, <1>3, ScanFoldsAsRows DEF Segment
<1>5. \A v : heavy(v) <=> TooLarge(Before(R, workers, v + 1))
  BY <1>2, <1>3, ScanUsesRows DEF TooLarge, Before
<1> HIDE DEF alone, heavy
<1>6. bad = {v \in 0 .. workers - 1 : Bad(R, workers, v)}
  BY <1>4, <1>5 DEF Bad
<1> HIDE DEF bad
<1>7. w \in bad /\ \A v \in bad : w <= v
  BY <1>6 DEF FirstBad
<1>8. \A v \in bad : v \in Int
  BY <1>6
<1>9. Cpu!Min(bad) = w
  BY <1>7, <1>8 DEF Cpu!Min
<1>10. alone(w) = Scanned(Segment(R, workers, w)).status
  BY <1>4
<1> QED
  BY <1>1, <1>9, <1>10 DEF Blame

LEMMA RightIsExact == ScanInv => Cpu!ScanIsExact
<1> SUFFICES ASSUME ScanInv, caller = "returned", scanned.status # "unknown"
             PROVE  IF Cpu!Answerable(Cpu!Rows) THEN scanned = Cpu!TrueAnswer(Cpu!Rows)
                    ELSE scanned.status = Cpu!FirstError
  BY DEF Cpu!ScanIsExact
<1> DEFINE R == All(batches)
<1>1. Cpu!Rows = R /\ batches \in Seq(Seq(Row)) /\ workers \in Nat \ {0}
  BY DEF Cpu!Rows, All, ScanInv
<1>2. IF Answerable(R) THEN scanned = TrueAnswer(R)
      ELSE \E w : FirstBad(R, workers, workers, w) /\ scanned.status = Blame(R, workers, w)
  BY DEF ScanInv, Right, Failed
<1>3. \A w : FirstBad(R, workers, workers, w) => Cpu!FirstError = Blame(R, workers, w)
  BY <1>1, FirstErrorIs
<1> HIDE DEF R
<1> QED
  BY <1>1, <1>2, <1>3, ScanUsesRows

\* Whatever the number of threads, the batches and the interleaving: a scan whose
\* threads could all be started returns the answer with every row counted once, or
\* the error of the first bad range (q5_arrow_scan.cpp's merge in worker order).
THEOREM ScansAreExact == PartsSpec => []ScanIsExact
<1> DEFINE Good == part = "scan" => ScanInv
<1>1. PartsInit => Good
  BY InitScanInv DEF PartsInit
<1>2. Good /\ [SessionNext \/ ScanNext]_partsVars => Good'
  BY NextScanInv DEF SessionNext, ScanNext, OfSession, partsVars, scanVars, Cpu!vars
<1>3. Good => ScanIsExact
  BY RightIsExact DEF ScanIsExact
<1> QED
  BY <1>1, <1>2, <1>3, PTL DEF PartsSpec

\* One range is the first to be blamed.
LEMMA FirstBadIsUnique ==
  ASSUME NEW rows, NEW count, NEW v, NEW w,
         FirstBad(rows, count, count, v), FirstBad(rows, count, count, w)
  PROVE  v = w
<1>1. v \in Int /\ w \in Int /\ 0 <= v /\ 0 <= w
  BY DEF FirstBad
<1>2. ~(v < w) /\ ~(w < v)
  BY <1>1 DEF FirstBad
<1> QED
  BY <1>1, <1>2

\* The number of workers was asked for.
CountIsAsked == \E n \in ScanThreads : workers = WorkerCount(n, Len(All(batches)))

LEMMA RightIsExecution ==
  ASSUME ScanInv, CountIsAsked, caller = "returned", scanned.status # "unknown"
  PROVE  \E n \in ScanThreads : scanned = Finish(ScanInRanges(Cpu!Rows, n))
<1> DEFINE R == All(batches)
<1>1. Cpu!Rows = R /\ R \in Seq(Row)
  BY BatchesTile DEF Cpu!Rows, All, ScanInv
<1>2. PICK n \in ScanThreads : workers = WorkerCount(n, Len(R))
  BY DEF CountIsAsked
<1>3. n \in Int
  BY ScansAreTyped
<1> DEFINE m == ScanInRanges(R, n)
<1>4. IF Answerable(R) THEN scanned = TrueAnswer(R)
      ELSE \E w : FirstBad(R, workers, workers, w) /\ scanned = Failed(Blame(R, workers, w))
  BY DEF ScanInv, Right
<1> HIDE DEF R
<1>5. /\ Answerable(R) => m = Exact(R)
      /\ ~Answerable(R) => IsBlamed(R, workers, m.status)
  BY <1>1, <1>2, <1>3, ScannedInRanges
<1> HIDE DEF m
<1>6. CASE Answerable(R)
  <2>1. scanned = Finish(m)
    BY <1>4, <1>5, <1>6, ExactIsFinished
  <2> QED
    BY <1>1, <2>1 DEF m
<1>7. CASE ~Answerable(R)
  <2>1. PICK v : FirstBad(R, workers, workers, v) /\ scanned = Failed(Blame(R, workers, v))
    BY <1>4, <1>7
  <2>2. PICK w : FirstBad(R, workers, workers, w) /\ m.status = Blame(R, workers, w)
    BY <1>5, <1>7 DEF IsBlamed
  <2>3. v = w /\ m.status # "ok"
    BY <1>5, <1>7, <2>1, <2>2, FirstBadIsUnique DEF IsBlamed
  <2>4. scanned = Finish(m)
    BY <2>1, <2>2, <2>3 DEF Finish
  <2> QED
    BY <1>1, <2>4 DEF m
<1> QED
  BY <1>6, <1>7

\* The session may take its CPU child's scan for one step, whatever its table, its
\* threads and their interleaving, errors included (CpuExecution).
THEOREM ScansAreExecutions == PartsSpec => []ScanIsExecution
<1> DEFINE Good == part = "scan" => ScanInv /\ CountIsAsked
<1>1. PartsInit => Good
  <2>1. Cpu!Init => CountIsAsked
    BY ScanUsesRows DEF Cpu!Init, CountIsAsked, All
  <2> QED
    BY <2>1, InitScanInv DEF PartsInit
<1>2. Good /\ [SessionNext \/ ScanNext]_partsVars => Good'
  <2> SUFFICES ASSUME Good, [SessionNext \/ ScanNext]_partsVars, part' = "scan"
               PROVE  ScanInv' /\ CountIsAsked'
    OBVIOUS
  <2>1. ScanInv /\ CountIsAsked /\ [Cpu!Next]_Cpu!vars
    BY DEF SessionNext, ScanNext, OfSession, partsVars, scanVars, Cpu!vars
  <2>2. workers' = workers /\ batches' = batches
    BY <2>1 DEF Cpu!Next, Cpu!StartWorker, Cpu!StartFails, Cpu!AllStarted, Cpu!Merge,
                Cpu!Unwind, Cpu!Scan, Cpu!vars
  <2>3. CountIsAsked'
    BY <2>1, <2>2 DEF CountIsAsked
  <2> QED
    BY <2>1, <2>3, NextScanInv
<1>3. Good => ScanIsExecution
  BY RightIsExecution DEF ScanIsExecution
<1> QED
  BY <1>1, <1>2, <1>3, PTL DEF PartsSpec

-----------------------------------------------------------------------------
(***************************************************************************)
(* A worker runs only if it was started, and the caller returns only when  *)
(* all that were started are done.                                         *)
(***************************************************************************)
WorkersAreJoined ==
  /\ started \in Nat
  /\ thread \in [DOMAIN thread -> {"none", "running", "done"}]
  /\ DOMAIN thread \subseteq Nat
  /\ \A w \in DOMAIN thread : thread[w] = "running" => w < started
  /\ Cpu!NoWorkerOutlivesScan

LEMMA ScanStep ==
  ASSUME WorkersAreJoined, Cpu!Next
  PROVE  WorkersAreJoined'
<1> USE DEF WorkersAreJoined, Cpu!NoWorkerOutlivesScan
<1>1. CASE Cpu!StartWorker
  <2>1. thread' = [w \in DOMAIN thread |-> IF w = started THEN "running" ELSE thread[w]]
    BY <1>1 DEF Cpu!StartWorker
  <2>2. DOMAIN thread' = DOMAIN thread
    BY <2>1
  <2>3. \A w \in DOMAIN thread : thread'[w] = IF w = started THEN "running" ELSE thread[w]
    BY <2>1
  <2>4. started' = started + 1 /\ caller' # "returned"
    BY <1>1 DEF Cpu!StartWorker
  <2> QED
    BY <2>1, <2>2, <2>3, <2>4
<1>2. CASE Cpu!StartFails \/ Cpu!AllStarted
  BY <1>2 DEF Cpu!StartFails, Cpu!AllStarted
<1>3. CASE Cpu!Merge
  BY <1>3 DEF Cpu!Merge, Cpu!Joined
<1>4. CASE Cpu!Unwind
  BY <1>4 DEF Cpu!Unwind, Cpu!Joined
<1>5. ASSUME NEW w \in DOMAIN thread, Cpu!Scan(w)
      PROVE  WorkersAreJoined'
  <2>1. thread[w] = "running" /\ UNCHANGED <<started, caller>>
    BY <1>5 DEF Cpu!Scan
  <2>2. thread' = thread \/ thread' = [thread EXCEPT ![w] = "done"]
    BY <1>5 DEF Cpu!Scan
  <2>3. DOMAIN thread' = DOMAIN thread
    BY <2>2
  <2>4. \A v \in DOMAIN thread : thread'[v] = thread[v] \/ thread'[v] = "done"
    BY <2>2
  <2>5. thread' \in [DOMAIN thread -> {"none", "running", "done"}]
    BY <2>2
  <2> QED
    BY <2>1, <2>3, <2>4, <2>5
<1> QED
  BY <1>1, <1>2, <1>3, <1>4, <1>5 DEF Cpu!Next

\* No worker writes to the partials once the scan has returned and freed them,
\* for any table and number of threads, also when a thread cannot be started
\* (~ThreadGroup).
THEOREM WorkersAreDone == PartsSpec => []NoWorkerOutlivesScan
<1> DEFINE Good == part = "scan" => WorkersAreJoined
<1>1. PartsInit => Good
  BY DEF PartsInit, Cpu!Init, WorkersAreJoined, Cpu!NoWorkerOutlivesScan
<1>2. Good /\ [SessionNext \/ ScanNext]_partsVars => Good'
  <2> SUFFICES ASSUME Good, [SessionNext \/ ScanNext]_partsVars, part' = "scan"
               PROVE  WorkersAreJoined'
    OBVIOUS
  <2>1. WorkersAreJoined /\ (Cpu!Next \/ UNCHANGED scanVars)
    BY DEF SessionNext, ScanNext, OfSession, partsVars
  <2>2. CASE Cpu!Next
    BY <2>1, <2>2, ScanStep
  <2>3. CASE UNCHANGED scanVars
    BY <2>1, <2>3 DEF scanVars, WorkersAreJoined, Cpu!NoWorkerOutlivesScan
  <2> QED
    BY <2>1, <2>2, <2>3
<1>3. Good => NoWorkerOutlivesScan
  BY DEF WorkersAreJoined, NoWorkerOutlivesScan
<1> QED
  BY <1>1, <1>2, <1>3, PTL DEF PartsSpec
=============================================================================
