---------------------------- MODULE HybridSession ----------------------------
(***************************************************************************)
(* HybridQ5Session of q5/src/hybrid/q5_hybrid.cpp: Make splits the lineitem *)
(* table between a CPU and a GPU child session, Execute runs the GPU child  *)
(* on a std::async task beside the CPU child on the calling thread, joins   *)
(* the task, and merges the two results by nation name.  Several threads    *)
(* call Execute of one session at a time.                                   *)
(*                                                                          *)
(* The children are taken at their interfaces: the CPU child is the scan of *)
(* ArrowCpuScan and reads shared state only, the GPU child runs its requests *)
(* under a mutex over one set of device outputs, as in CudaSession.         *)
(* A status is "invalid" or "capacity" where the data is at fault, "io" or  *)
(* "unknown" where the machine is; an allocation failure counts as "io".    *)
(***************************************************************************)
EXTENDS Q5Rows, HybridPartition

CONSTANTS
  Caller,
  Tables,        \* lineitem tables: their rows and the lengths of their batches
  Options,       \* HybridOptions: [selection, ratio, threads]
  Calibrations   \* what an automatic session may measure

ASSUME CallerAssumption == None \notin Caller

\* The batches hold the rows; a ratio is a fraction of whole numbers.
ASSUME TablesAreRows ==
  \A t \in Tables :
    t.rows \in Seq(Row) /\ t.lengths \in Seq(Nat) /\ Total(t.lengths) = Len(t.rows)
ASSUME OptionsAreTyped ==
  \A o \in Options : o.threads \in Int /\ o.ratio[1] \in Int /\ o.ratio[2] \in Nat \ {0}

VARIABLES
  table,
  session,     \* "none", "refused", "made" or "destroyed"
  options,     \* those of the session
  cut,         \* partition.cpu_rows
  device,      \* the GPU child's output buffers
  mutex,       \* who holds the GPU child's execute_mutex, None if free
  phase,       \* each caller: "idle", "enter", "cpu", "get" or "unwind"
  task,        \* its GPU request: "none", "queued", "running" or "done"
  cpuResult,
  gpuResult,
  outcome      \* what its last Execute returned

callVars == <<phase, task, cpuResult, gpuResult, outcome>>
vars == <<table, session, options, cut, device, mutex, callVars>>

NoResult == Failed("none")
Rows == table.rows
Lengths == table.lengths

\* The CPU's slice is the first cut rows, the GPU's the others.
\* Mutant: the GPU-only endpoint's slice, taken for both cases.
GpuRowsFromStart == SubSeq(Rows, 1, Len(Rows) - cut)
GpuRows == SubSeq(Rows, cut + 1, Len(Rows))

HasCpu == cut > 0
HasGpu == cut < Len(Rows)

-----------------------------------------------------------------------------
(***************************************************************************)
(* The child sessions' answers.                                            *)
(***************************************************************************)
\* The CPU child over the first k rows of a table, for each of them once.
CpuExecutions ==
  [t \in Tables |-> [k \in 0 .. Len(t.rows) |-> [n \in {o.threads : o \in Options} |->
     Finish(ScanInRanges(SubSeq(t.rows, 1, k), n))]]]
CpuExecution(k, threads) == CpuExecutions[table][k][threads]

\* prepare_arrow_gpu_input looks at every row, whether it matches or not.
GpuAccepts(rows) == \A i \in DOMAIN rows : rows[i].valid

\* The kernel's additions, in whatever order: the flag is up if and only if
\* a nation's sum is too large (OverflowIffSumTooLarge of GpuKernel).
GpuScan(rows, buffers) ==
  LET sums == [n \in Nation |-> buffers.sums[n] + SumOver(rows, RowsAt(rows, n))] IN
  [sums |-> sums,
   matched |-> buffers.matched + Cardinality(Matching(rows)),
   input |-> Len(rows),
   status |-> IF \E n \in Nation : sums[n] > MaxI64 THEN "capacity" ELSE "ok"]

GpuExecution(rows) == Finish(GpuScan(rows, EmptyPartial))

\* validate_hybrid_calibration_results
ResultsAgree(cpu, gpu, rows) ==
  /\ rows > 0 /\ cpu.input = rows /\ gpu.input = rows
  /\ cpu.matched = gpu.matched
  /\ cpu.rows = gpu.rows

\* Mutant: calibrating on the first batch alone.
CalibratesOnSample(rows, threads) ==
  LET sample == SubSeq(rows, 1, table.lengths[1]) IN
  /\ rows # <<>>
  /\ CpuExecution(Len(sample), threads).status = "ok"
  /\ GpuAccepts(sample) /\ GpuExecution(sample).status = "ok"
  /\ ResultsAgree(CpuExecution(Len(sample), threads), GpuExecution(sample), Len(sample))

\* calibrate_auto_partition up to the prediction: both devices have answered
\* for the whole table, and agree.
Calibrates(rows, threads) ==
  /\ rows # <<>>
  /\ CpuExecution(Len(rows), threads).status = "ok"
  /\ GpuAccepts(rows) /\ GpuExecution(rows).status = "ok"
  /\ ResultsAgree(CpuExecution(Len(rows), threads), GpuExecution(rows), Len(rows))

-----------------------------------------------------------------------------
(***************************************************************************)
(* merge_hybrid_results                                                    *)
(***************************************************************************)
Names(result) == {r.name : r \in result.rows}
RevenueOf(result, name) ==
  IF name \in Names(result)
  THEN (CHOOSE r \in result.rows : r.name = name).revenue ELSE 0

Merge(cpu, gpu) ==
  LET names == Names(cpu) \cup Names(gpu)
      sums == [n \in names |-> RevenueOf(cpu, n) + RevenueOf(gpu, n)]
  IN IF \E n \in names : ~Fits(RevenueOf(cpu, n), RevenueOf(gpu, n))
     THEN Failed("capacity")
     ELSE [status |-> "ok", rows |-> ResultRows(sums, [n \in names |-> n]),
           matched |-> cpu.matched + gpu.matched, input |-> cpu.input + gpu.input]

\* What Execute returns once both children have: the CPU's error goes first.
JoinedOutcome(cpu, gpu) ==
  IF cpu.status # "ok" THEN cpu
  ELSE IF gpu.status # "ok" THEN gpu ELSE Merge(cpu, gpu)

-----------------------------------------------------------------------------
(***************************************************************************)
(* Make                                                                    *)
(***************************************************************************)
RatioInRange(r) == 0 <= r[1] /\ r[1] <= r[2]

ValidOptions(o) ==
  /\ o.selection \in {"fixed", "auto"}
  /\ o.selection = "fixed" => RatioInRange(o.ratio)
  /\ o.threads > 0

\* The partitions the options may lead to; an automatic one goes by times.
Cuts(o) ==
  IF o.selection = "fixed" THEN {PartitionByRatio(Lengths, o.ratio).cpuRows}
  ELSE IF Calibrates(Rows, o.threads)
       THEN {PartitionAtBoundary(Lengths, Predict(cal)).cpuRows :
               cal \in {c \in Calibrations : ValidCalibration(c)}}
  ELSE {}

Init ==
  /\ table \in Tables
  /\ session = "none"
  /\ options \in Options
  /\ cut = 0
  /\ device = EmptyPartial
  /\ mutex = None
  /\ phase = [c \in Caller |-> "idle"]
  /\ task = [c \in Caller |-> "none"]
  /\ cpuResult = [c \in Caller |-> NoResult]
  /\ gpuResult = [c \in Caller |-> NoResult]
  /\ outcome = [c \in Caller |-> NoResult]

\* Both child sessions, each only over a slice that is not empty.
Make ==
  /\ session = "none" /\ ValidOptions(options)
  /\ \E k \in Cuts(options) :
       /\ GpuAccepts(SubSeq(Rows, k + 1, Len(Rows)))
       /\ cut' = k
  /\ session' = "made"
  /\ UNCHANGED <<table, options, device, mutex, callVars>>

\* Options or data at fault, or a child that could not be made.
MakeFails ==
  /\ session = "none"
  /\ session' = "refused"
  /\ UNCHANGED <<table, options, cut, device, mutex, callVars>>

\* The owner destroys the session when no Execute is running any more.
Destroy ==
  /\ session = "made" /\ \A c \in Caller : phase[c] = "idle"
  /\ session' = "destroyed"
  /\ UNCHANGED <<table, options, cut, device, mutex, callVars>>

-----------------------------------------------------------------------------
(***************************************************************************)
(* Execute                                                                 *)
(***************************************************************************)
sessionVars == <<table, session, options, cut>>

Call(c) ==
  /\ session = "made" /\ phase[c] = "idle"
  /\ phase' = [phase EXCEPT ![c] = "enter"]
  /\ task' = [task EXCEPT ![c] = "none"]
  /\ cpuResult' = [cpuResult EXCEPT ![c] = NoResult]
  /\ gpuResult' = [gpuResult EXCEPT ![c] = NoResult]
  /\ outcome' = [outcome EXCEPT ![c] = NoResult]
  /\ UNCHANGED <<sessionVars, device, mutex>>

Finished(c, result) ==
  /\ phase' = [phase EXCEPT ![c] = "idle"]
  /\ outcome' = [outcome EXCEPT ![c] = result]

ReturnEmpty(c) ==
  /\ phase[c] = "enter" /\ ~HasCpu /\ ~HasGpu
  /\ Finished(c, Finish(EmptyPartial))
  /\ UNCHANGED <<sessionVars, device, mutex, task, cpuResult, gpuResult>>

\* The GPU child is called on the caller's own thread.
GpuOnly(c) ==
  /\ phase[c] = "enter" /\ ~HasCpu /\ HasGpu
  /\ phase' = [phase EXCEPT ![c] = "get"]
  /\ task' = [task EXCEPT ![c] = "queued"]
  /\ UNCHANGED <<sessionVars, device, mutex, cpuResult, gpuResult, outcome>>

CpuOnly(c) ==
  /\ phase[c] = "enter" /\ HasCpu /\ ~HasGpu
  /\ phase' = [phase EXCEPT ![c] = "cpu"]
  /\ UNCHANGED <<sessionVars, device, mutex, task, cpuResult, gpuResult, outcome>>

\* std::async(std::launch::async, ...)
Launch(c) ==
  /\ phase[c] = "enter" /\ HasCpu /\ HasGpu
  /\ phase' = [phase EXCEPT ![c] = "cpu"]
  /\ task' = [task EXCEPT ![c] = "queued"]
  /\ UNCHANGED <<sessionVars, device, mutex, cpuResult, gpuResult, outcome>>

LaunchFails(c) ==
  /\ phase[c] = "enter" /\ HasCpu /\ HasGpu
  /\ Finished(c, Failed("unknown"))
  /\ UNCHANGED <<sessionVars, device, mutex, task, cpuResult, gpuResult>>

CpuExecute(c) ==
  /\ phase[c] = "cpu"
  /\ \E r \in {CpuExecution(cut, options.threads), Failed("io")} :
       cpuResult' = [cpuResult EXCEPT ![c] = r]
  /\ phase' = [phase EXCEPT ![c] = "get"]
  /\ UNCHANGED <<sessionVars, device, mutex, task, gpuResult, outcome>>

\* An unexpected exception leaves the CPU child: the future is destroyed.
CpuThrows(c) ==
  /\ phase[c] = "cpu"
  /\ phase' = [phase EXCEPT ![c] = "unwind"]
  /\ UNCHANGED <<sessionVars, device, mutex, task, cpuResult, gpuResult, outcome>>

\* ArrowCudaQ5Session::Execute takes its mutex and resets the outputs.
GpuLock(c) ==
  /\ task[c] = "queued" /\ mutex = None
  /\ mutex' = c
  /\ device' = EmptyPartial
  /\ task' = [task EXCEPT ![c] = "running"]
  /\ UNCHANGED <<sessionVars, phase, cpuResult, gpuResult, outcome>>

GpuExecute(c) ==
  /\ task[c] = "running"
  /\ device' = GpuScan(GpuRows, device)
  /\ gpuResult' = [gpuResult EXCEPT ![c] = Finish(device')]
  /\ task' = [task EXCEPT ![c] = "done"]
  /\ mutex' = None
  /\ UNCHANGED <<sessionVars, phase, cpuResult, outcome>>

\* Mutant: the failed request keeps the mutex.
GpuFailsLocked(c) ==
  /\ task[c] = "running"
  /\ gpuResult' = [gpuResult EXCEPT ![c] = Failed("io")]
  /\ task' = [task EXCEPT ![c] = "done"]
  /\ UNCHANGED <<sessionVars, device, mutex, phase, cpuResult, outcome>>

\* A CUDA call of the request fails.
GpuFails(c) ==
  /\ task[c] = "running"
  /\ gpuResult' = [gpuResult EXCEPT ![c] = Failed("io")]
  /\ task' = [task EXCEPT ![c] = "done"]
  /\ mutex' = None
  /\ UNCHANGED <<sessionVars, device, phase, cpuResult, outcome>>

TaskJoined(c) == task[c] \in {"none", "done"}

\* Mutant: a failed CPU child is reported without waiting for the GPU.
ReturnEarly(c) ==
  /\ phase[c] = "get" /\ (TaskJoined(c) \/ (HasCpu /\ cpuResult[c].status # "ok"))
  /\ Finished(c, IF ~HasCpu THEN gpuResult[c]
                 ELSE IF ~HasGpu THEN cpuResult[c]
                 ELSE JoinedOutcome(cpuResult[c], gpuResult[c]))
  /\ UNCHANGED <<sessionVars, device, mutex, task, cpuResult, gpuResult>>

\* gpu_future.get() comes before either result is looked at.
Return(c) ==
  /\ phase[c] = "get" /\ TaskJoined(c)
  /\ Finished(c, IF ~HasCpu THEN gpuResult[c]
                 ELSE IF ~HasGpu THEN cpuResult[c]
                 ELSE JoinedOutcome(cpuResult[c], gpuResult[c]))
  /\ UNCHANGED <<sessionVars, device, mutex, task, cpuResult, gpuResult>>

\* The destructor of the future joins the task.
Unwind(c) ==
  /\ phase[c] = "unwind" /\ TaskJoined(c)
  /\ Finished(c, Failed("unknown"))
  /\ UNCHANGED <<sessionVars, device, mutex, task, cpuResult, gpuResult>>

\* What a caller's thread does inside Execute, and what its GPU request does.
CallerStep(c) ==
  \/ ReturnEmpty(c) \/ GpuOnly(c) \/ CpuOnly(c) \/ Launch(c) \/ LaunchFails(c)
  \/ CpuExecute(c) \/ CpuThrows(c) \/ Return(c) \/ Unwind(c)
TaskStep(c) == GpuLock(c) \/ GpuExecute(c) \/ GpuFails(c)

Next ==
  \/ Make \/ MakeFails \/ Destroy
  \/ \E c \in Caller : Call(c) \/ CallerStep(c) \/ TaskStep(c)

\* Running threads go on running, and a waiter gets the mutex in the end.
Fairness ==
  \A c \in Caller : WF_vars(CallerStep(c)) /\ SF_vars(TaskStep(c))

Spec == Init /\ [][Next]_vars /\ Fairness

-----------------------------------------------------------------------------
Returned(c) == phase[c] = "idle" /\ outcome[c] # NoResult
DataOutcome(c) == Returned(c) /\ outcome[c].status \notin {"io", "unknown"}

\* Wherever the table is cut, however many threads scan the CPU's share and
\* whatever requests run beside it, a request that no machine failure stopped
\* returns the answer for the whole table if there is one, and an error if not.
SplitDoesNotShow ==
  \A c \in Caller : DataOutcome(c) =>
    IF Answerable(Rows) THEN outcome[c] = TrueAnswer(Rows) ELSE outcome[c].status # "ok"

\* No GPU request outlives the Execute that started it, so none reaches into a
\* destroyed session, or writes where an earlier caller's frame has been.
NoTaskOutlivesExecute ==
  /\ \A c \in Caller : phase[c] = "idle" => task[c] \in {"none", "done"}
  /\ session = "destroyed" => mutex = None

\* Requests of one session that met no machine failure agree, errors included.
RequestsAgree ==
  \A c, d \in Caller : DataOutcome(c) /\ DataOutcome(d) => outcome[c] = outcome[d]

\* A session made automatically never refuses a request because of its data:
\* the calibration has already met every row on both devices.
AutomaticSessionAnswers ==
  \A c \in Caller :
    options.selection = "auto" /\ DataOutcome(c) => outcome[c] = TrueAnswer(Rows)

\* Every request returns, the failed ones included.
ExecuteReturns == \A c \in Caller : phase[c] # "idle" ~> phase[c] = "idle"
=============================================================================
