---------------------------- MODULE CudaSession ----------------------------
(***************************************************************************)
(* ArrowCudaQ5Session of q5/src/cuda/q5_arrow_cuda.cu: a session owns the  *)
(* device buffers of one memory mode and serves requests one at a time     *)
(* under execute_mutex.  A request resets the output buffers unless the    *)
(* outputs_clean flag says they are zero, prefetches managed outputs       *)
(* unless managed_output_on_device, launches the kernel and collects.      *)
(*                                                                         *)
(* Any CUDA call may fail.  The kernel runs concurrently with the host: a  *)
(* failure between the launch and the stop event's synchronisation leaves  *)
(* the request while its kernel may still be adding.  GpuKernel shows what *)
(* one launch adds; here every matching row has revenue 1 and a cell holds *)
(* at most Capacity, so that a buffer is what it has absorbed so far.      *)
(***************************************************************************)
EXTENDS Integers

CONSTANTS
  Caller,     \* host threads that share the session
  NoCaller,
  Mode,       \* ArrowCudaMemoryMode
  RowCount,   \* rows of the data set that match
  Capacity,   \* revenue a cell can hold
  LateFault,  \* whether a call after the launch may fail and leave the context usable
  MaxFaults   \* bound on the failures that leave the context usable

ASSUME ModeAssumption == Mode \in {"copy", "managed", "mapped"}
ASSUME SizeAssumption == RowCount \in Nat /\ Capacity \in Nat /\ MaxFaults \in Nat
ASSUME CallerAssumption == NoCaller \notin Caller
ASSUME FaultAssumption == LateFault \in BOOLEAN

\* What a request returns: nothing yet, an error Status, the CapacityError of
\* an overflow, or a result with its counters.
Failure(kind) == [kind |-> kind, revenue |-> 0, matched |-> 0, prefetched |-> FALSE]
Result(h, p) == [kind |-> "ok", revenue |-> h.revenue, matched |-> h.matched,
                 prefetched |-> p]
IsResult(o) == o.kind = "ok"

Managed == Mode = "managed"

Zeroed == [revenue |-> 0, matched |-> 0, overflow |-> FALSE]

VARIABLES
  session,       \* "none" until Make succeeds
  context,       \* "lost" after an error that CUDA reports ever after
  lock,          \* execute_mutex
  pc,            \* where each caller is
  outputsClean,  \* outputs_clean
  onDevice,      \* managed_output_on_device
  buffer,        \* the three output buffers
  pending,       \* row additions launched and not yet executed
  host,          \* host_revenue, host_matched, host_overflow
  prefetched,    \* whether the request under way measured a prefetch
  outcome,       \* what each caller's last request returned
  faults         \* failures so far that left the context usable

requestVars == <<outputsClean, onDevice, buffer, pending, host, prefetched>>
vars == <<session, context, lock, pc, requestVars, outcome, faults>>

Step(c, from, to) == pc[c] = from /\ pc' = [pc EXCEPT ![c] = to]

Init ==
  /\ session = "none"
  /\ context = "ok"
  /\ lock = NoCaller
  /\ pc = [c \in Caller |-> "idle"]
  /\ outputsClean = FALSE
  /\ onDevice = FALSE
  /\ buffer = Zeroed
  /\ pending = 0
  /\ host = Zeroed
  /\ prefetched = FALSE
  /\ outcome = [c \in Caller |-> Failure("none")]
  /\ faults = 0

(***************************************************************************)
(* Make: staging, allocation and initialize, which zeroes the outputs and  *)
(* leaves managed ones on the host.  A failure yields no session at all.   *)
(***************************************************************************)
Make ==
  /\ session = "none" /\ context = "ok"
  /\ session' = "ready"
  /\ UNCHANGED <<context, lock, pc, requestVars, outcome, faults>>

MakeFails ==
  /\ session = "none"
  /\ session' = "failed"
  /\ UNCHANGED <<context, lock, pc, requestVars, outcome, faults>>

-----------------------------------------------------------------------------
(***************************************************************************)
(* How a CUDA call fails: always once the context is lost, and at most     *)
(* MaxFaults times while it is usable.                                     *)
(***************************************************************************)
CallFails ==
  \/ context = "lost" /\ UNCHANGED faults
  \/ context = "ok" /\ faults < MaxFaults /\ faults' = faults + 1

\* The exception leaves Execute: the guard unlocks and the boundary turns it
\* into a Status.
Raise(c) ==
  /\ lock' = NoCaller
  /\ outcome' = [outcome EXCEPT ![c] = Failure("error")]
  /\ UNCHANGED <<session, context>>

Proceed == UNCHANGED <<session, context, lock, outcome, faults>>

Execute(c) ==
  /\ session = "ready"
  /\ Step(c, "idle", "waiting")
  /\ outcome' = [outcome EXCEPT ![c] = Failure("none")]
  /\ UNCHANGED <<session, context, lock, requestVars, faults>>

\* Mutant: execute_mutex is not taken.
LockShared(c) ==
  /\ Step(c, "waiting", "reset")
  /\ lock' = c
  /\ UNCHANGED <<session, context, requestVars, outcome, faults>>

Lock(c) ==
  /\ lock = NoCaller
  /\ Step(c, "waiting", "reset")
  /\ lock' = c
  /\ UNCHANGED <<session, context, requestVars, outcome, faults>>

SkipReset(c) ==
  /\ Step(c, "reset", "prefetch")
  /\ outputsClean
  /\ Proceed /\ UNCHANGED requestVars

\* std::fill through the managed pointers: the host does not wait for the device.
ResetManaged(c) ==
  /\ Step(c, "reset", "prefetch")
  /\ ~outputsClean /\ Managed
  /\ buffer' = Zeroed
  /\ onDevice' = FALSE
  /\ outputsClean' = TRUE
  /\ Proceed /\ UNCHANGED <<pending, host, prefetched>>

\* cudaMemset on the default stream: behind any kernel launched before it.
ResetDevice(c) ==
  /\ Step(c, "reset", "prefetch")
  /\ ~outputsClean /\ ~Managed /\ context = "ok" /\ pending = 0
  /\ buffer' = Zeroed
  /\ outputsClean' = TRUE
  /\ Proceed /\ UNCHANGED <<onDevice, pending, host, prefetched>>

\* One of the three memsets fails after the earlier ones were queued.
ResetDeviceFails(c) ==
  /\ Step(c, "reset", "idle")
  /\ ~outputsClean /\ ~Managed
  /\ CallFails
  /\ \/ UNCHANGED buffer
     \/ /\ context = "ok" /\ pending = 0
        /\ \/ buffer' = [buffer EXCEPT !.revenue = 0]
           \/ buffer' = [Zeroed EXCEPT !.overflow = buffer.overflow]
  /\ Raise(c) /\ UNCHANGED <<outputsClean, onDevice, pending, host, prefetched>>

SkipPrefetch(c) ==
  /\ Step(c, "prefetch", "launch")
  /\ ~Managed \/ onDevice
  /\ prefetched' = FALSE
  /\ Proceed /\ UNCHANGED <<outputsClean, onDevice, buffer, pending, host>>

Prefetch(c) ==
  /\ Step(c, "prefetch", "launch")
  /\ Managed /\ ~onDevice /\ context = "ok"
  /\ onDevice' = TRUE
  /\ prefetched' = TRUE
  /\ Proceed /\ UNCHANGED <<outputsClean, buffer, pending, host>>

\* An event or the prefetch itself fails, or elapsed_ms fails once the flag is set.
PrefetchFails(c) ==
  /\ Step(c, "prefetch", "idle")
  /\ Managed /\ ~onDevice
  /\ CallFails
  /\ onDevice' \in BOOLEAN
  /\ Raise(c) /\ UNCHANGED <<outputsClean, buffer, pending, host, prefetched>>

Launch(c) ==
  /\ Step(c, "launch", "sync")
  /\ context = "ok"
  /\ outputsClean' = FALSE
  /\ pending' = pending + RowCount
  /\ Proceed /\ UNCHANGED <<onDevice, buffer, host, prefetched>>

\* The start event or the launch fails: no kernel was queued.
LaunchFails(c) ==
  /\ Step(c, "launch", "idle")
  /\ outputsClean' = FALSE
  /\ CallFails
  /\ Raise(c) /\ UNCHANGED <<onDevice, buffer, pending, host, prefetched>>

\* The stop event's synchronisation returns once the kernel is done.
Synchronize(c) ==
  /\ Step(c, "sync", "collect")
  /\ context = "ok" /\ pending = 0
  /\ Proceed /\ UNCHANGED requestVars

\* Recording or waiting for the stop event fails with the kernel queued.
SynchronizeFails(c) ==
  /\ Step(c, "sync", "idle")
  /\ context = "ok" => LateFault
  /\ CallFails
  /\ Raise(c) /\ UNCHANGED requestVars

Collect(c) ==
  /\ Step(c, "collect", "finish")
  /\ context = "ok"
  /\ host' = buffer
  /\ onDevice' = (onDevice /\ ~Managed)
  /\ Proceed /\ UNCHANGED <<outputsClean, buffer, pending, prefetched>>

\* Mutant: the mutex is unlocked by hand, and not on this path.
CollectFailsLocked(c) ==
  /\ Step(c, "collect", "idle")
  /\ CallFails
  /\ outcome' = [outcome EXCEPT ![c] = Failure("error")]
  /\ UNCHANGED <<session, context, lock, requestVars>>

\* A copy or the stop event fails; device modes may have copied some buffers.
CollectFails(c) ==
  /\ Step(c, "collect", "idle")
  /\ CallFails
  /\ \/ UNCHANGED host
     \/ /\ context = "ok" /\ ~Managed
        /\ \/ host' = [host EXCEPT !.revenue = buffer.revenue]
           \/ host' = [buffer EXCEPT !.overflow = host.overflow]
           \/ host' = buffer
  /\ Raise(c) /\ UNCHANGED <<outputsClean, onDevice, buffer, pending, prefetched>>

\* finish_result: the overflow flag becomes a CapacityError.
Finish(c) ==
  /\ Step(c, "finish", "idle")
  /\ lock' = NoCaller
  /\ outcome' = [outcome EXCEPT ![c] =
       IF host.overflow THEN Failure("capacity") ELSE Result(host, prefetched)]
  /\ UNCHANGED <<session, context, requestVars, faults>>

Request(c) ==
  \/ Lock(c) \/ SkipReset(c) \/ ResetManaged(c) \/ ResetDevice(c)
  \/ ResetDeviceFails(c) \/ SkipPrefetch(c) \/ Prefetch(c) \/ PrefetchFails(c)
  \/ Launch(c) \/ LaunchFails(c) \/ Synchronize(c) \/ SynchronizeFails(c)
  \/ Collect(c) \/ CollectFails(c) \/ Finish(c)

-----------------------------------------------------------------------------
\* One row of a launched kernel, as GpuKernel details it.
KernelRow ==
  /\ pending > 0 /\ context = "ok"
  /\ pending' = pending - 1
  /\ buffer' = [revenue  |-> IF buffer.revenue < Capacity THEN buffer.revenue + 1
                             ELSE buffer.revenue,
                matched  |-> buffer.matched + 1,
                overflow |-> buffer.overflow \/ buffer.revenue >= Capacity]
  /\ UNCHANGED <<session, context, lock, pc, outputsClean, onDevice, host,
                 prefetched, outcome, faults>>

\* A sticky error: the kernels under way are gone and every later call fails.
LoseContext ==
  /\ session = "ready" /\ context = "ok"
  /\ context' = "lost"
  /\ pending' = 0
  /\ UNCHANGED <<session, lock, pc, outputsClean, onDevice, buffer, host,
                 prefetched, outcome, faults>>

Next ==
  \/ Make \/ MakeFails \/ KernelRow \/ LoseContext
  \/ \E c \in Caller : Execute(c) \/ Request(c)

(***************************************************************************)
(* The device finishes what was launched, every thread inside Execute      *)
(* runs, and one that waits for a mutex that is released again and again   *)
(* gets it in the end, though in no particular order.                      *)
(***************************************************************************)
Spec ==
  /\ Init /\ [][Next]_vars
  /\ WF_vars(KernelRow)
  /\ \A c \in Caller : SF_vars(Request(c))

-----------------------------------------------------------------------------
Buffers == [revenue : 0 .. Capacity, matched : Nat, overflow : BOOLEAN]
Outcomes == [kind : {"none", "error", "capacity", "ok"}, revenue : 0 .. Capacity,
             matched : Nat, prefetched : BOOLEAN]

\* Type invariant of the session.
TypeOK ==
  /\ session \in {"none", "ready", "failed"}
  /\ context \in {"ok", "lost"}
  /\ lock \in Caller \cup {NoCaller}
  /\ pc \in [Caller -> {"idle", "waiting", "reset", "prefetch", "launch",
                        "sync", "collect", "finish"}]
  /\ outputsClean \in BOOLEAN /\ onDevice \in BOOLEAN /\ prefetched \in BOOLEAN
  /\ buffer \in Buffers /\ host \in Buffers
  /\ pending \in Nat
  /\ outcome \in [Caller -> Outcomes]
  /\ faults \in 0 .. MaxFaults

\* Whatever failed before it, a request that returns rows returns this data
\* set's revenue and match count, once each: no leftover of an earlier request
\* survives the reset, and no other caller's kernel runs into its buffers.
\* It reports overflow only when the data overflows.
ResultIsExact ==
  \A c \in Caller :
    /\ IsResult(outcome[c]) => /\ outcome[c].revenue = RowCount
                               /\ outcome[c].matched = RowCount
                               /\ RowCount <= Capacity
    /\ outcome[c].kind = "capacity" => RowCount > Capacity

\* Skipping the reset on outputs_clean is sound: the flag implies that the
\* buffers are zero and that no kernel is left that could still write to them.
CleanMeansZero == outputsClean => buffer = Zeroed /\ pending = 0

\* "Every request therefore resets from the same residency state before the
\* measured prefetch": a managed request that returns has measured one.
ManagedRequestPrefetches ==
  Managed => \A c \in Caller : IsResult(outcome[c]) => outcome[c].prefetched

-----------------------------------------------------------------------------
\* The residency counter is not part of the answer.
Visible(o) == [o EXCEPT !.prefetched = FALSE]

Endpoint == INSTANCE Q5Endpoint WITH
  None <- Failure("none"),
  Answer <- Result([revenue |-> RowCount, matched |-> RowCount], FALSE),
  Error <- {Failure("error")}
             \cup (IF RowCount > Capacity THEN {Failure("capacity")} ELSE {}),
  phase <- [c \in Caller |-> IF pc[c] = "idle" THEN "idle" ELSE "busy"],
  outcome <- [c \in Caller |-> Visible(outcome[c])]

\* The session implements the promise of a Q5 endpoint: a request changes nothing
\* but its own outcome, which is the answer or an error, and every request
\* returns, since the one before it gave the mutex back on whatever path it left.
ImplementsEndpoint == Endpoint!Spec
=============================================================================
