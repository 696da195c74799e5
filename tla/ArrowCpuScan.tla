---------------------------- MODULE ArrowCpuScan ----------------------------
(***************************************************************************)
(* scan_q5_arrow_lineitem of q5/src/cpu/q5_arrow_scan.cpp: the rows are    *)
(* cut into one range per worker thread, every worker scans the batches    *)
(* its range meets into a partial of its own, and the caller joins them    *)
(* and merges the partials in worker order.  Starting a thread may fail;   *)
(* the thread group then joins the ones that run before the partials go.   *)
(***************************************************************************)
EXTENDS Q5Rows

CONSTANTS
  Tables,   \* lineitem tables: sequences of batches of rows
  Threads   \* requested thread counts

VARIABLES
  table,
  workers,   \* worker_count, 0 until it is known
  started,   \* threads started so far
  thread,    \* state of each worker thread: "none", "running" or "done"
  pos,       \* the next row of each worker
  partials,  \* ScanPartial of each worker
  phase,     \* the caller: "start", "join", "unwind" or "returned"
  outcome

vars == <<table, workers, started, thread, pos, partials, phase, outcome>>

Concat(batches) == FoldLeft(LAMBDA rows, batch : rows \o batch, <<>>, batches)
Rows == Concat(table)

\* First row of each batch, and which batch holds a row.
BatchBegin(b) == Len(Concat(SubSeq(table, 1, b - 1)))
BatchEnd(b) == BatchBegin(b) + Len(table[b])

\* partial->input_rows grows by the whole clipped batch when a worker enters it.
Entered(w, row) ==
  LET b == CHOOSE i \in DOMAIN table : BatchBegin(i) <= row /\ row < BatchEnd(i)
      r == WorkerRange(w, workers, Len(Rows))
  IN IF row = Max({r[1], BatchBegin(b)})
     THEN Min({r[2], BatchEnd(b)}) - row ELSE 0

Counted(w) == [partials[w] EXCEPT !.input = @ + Entered(w, pos[w])]

Init ==
  /\ table \in Tables
  /\ \E t \in Threads : workers = WorkerCount(t, Len(Concat(table)))
  /\ started = 0
  /\ thread = [w \in 0 .. workers - 1 |-> "none"]
  /\ pos = [w \in 0 .. workers - 1 |-> WorkerRange(w, workers, Len(Concat(table)))[1]]
  /\ partials = [w \in 0 .. workers - 1 |-> EmptyPartial]
  /\ phase = "start"
  /\ outcome = Failed("none")

StartWorker ==
  /\ phase = "start" /\ started < workers
  /\ thread' = [thread EXCEPT ![started] = "running"]
  /\ started' = started + 1
  /\ UNCHANGED <<table, workers, pos, partials, phase, outcome>>

\* std::thread throws: ~ThreadGroup joins what was started.
StartFails ==
  /\ phase = "start" /\ started < workers
  /\ phase' = "unwind"
  /\ UNCHANGED <<table, workers, started, thread, pos, partials, outcome>>

AllStarted ==
  /\ phase = "start" /\ started = workers
  /\ phase' = "join"
  /\ UNCHANGED <<table, workers, started, thread, pos, partials, outcome>>

\* One row of worker w; its range done or its status bad ends the thread.
Scan(w) ==
  /\ thread[w] = "running"
  /\ IF pos[w] >= WorkerRange(w, workers, Len(Rows))[2] \/ partials[w].status # "ok"
     THEN thread' = [thread EXCEPT ![w] = "done"] /\ UNCHANGED <<pos, partials>>
     ELSE /\ pos' = [pos EXCEPT ![w] = @ + 1]
          /\ partials' = [partials EXCEPT ![w] = ScanRow(Counted(w), Rows[pos[w] + 1])]
          /\ UNCHANGED thread
  /\ UNCHANGED <<table, workers, started, phase, outcome>>

Joined == \A w \in 0 .. started - 1 : thread[w] = "done"

Merge ==
  /\ phase = "join" /\ Joined
  /\ outcome' = Finish(FoldLeft(MergePartial, EmptyPartial,
                                [i \in 1 .. workers |-> partials[i - 1]]))
  /\ phase' = "returned"
  /\ UNCHANGED <<table, workers, started, thread, pos, partials>>

\* Mutant: the exception leaves before the running workers are joined.
UnwindDetached ==
  /\ phase = "unwind"
  /\ outcome' = Failed("unknown")
  /\ phase' = "returned"
  /\ UNCHANGED <<table, workers, started, thread, pos, partials>>

Unwind ==
  /\ phase = "unwind" /\ Joined
  /\ outcome' = Failed("unknown")
  /\ phase' = "returned"
  /\ UNCHANGED <<table, workers, started, thread, pos, partials>>

Next ==
  \/ StartWorker \/ StartFails \/ AllStarted \/ Merge \/ Unwind
  \/ \E w \in DOMAIN thread : Scan(w)

Spec == Init /\ [][Next]_vars

-----------------------------------------------------------------------------
\* The status of a table that has no answer: that of the first range, in row
\* order, that cannot be scanned by itself or that brings the rows up to its end
\* over LLONG_MAX.
FirstError ==
  LET range(w) == WorkerRange(w, workers, Len(Rows))
      alone(w) == FoldLeft(ScanRow, EmptyPartial,
                           SubSeq(Rows, range(w)[1] + 1, range(w)[2])).status
      heavy(w) == \E n \in Nation :
                    LET rows == SubSeq(Rows, 1, range(w)[2]) IN
                    SumOver(rows, RowsAt(rows, n)) > MaxI64
      first == Min({w \in 0 .. workers - 1 : alone(w) # "ok" \/ heavy(w)})
  IN IF alone(first) # "ok" THEN alone(first) ELSE "capacity"

\* What a scan returns is the data's doing, not the scheduler's.  Whatever the
\* number of threads, the batch boundaries inside their ranges and the
\* interleaving, it is the answer, with every row counted once, or the error that
\* the first bad range causes, though another thread may have met one before;
\* unless a thread could not be started.
ScanIsExact ==
  phase = "returned" /\ outcome.status # "unknown" =>
    IF Answerable(Rows) THEN outcome = TrueAnswer(Rows) ELSE outcome.status = FirstError

\* No worker writes to the partials once the scan has returned and freed them.
NoWorkerOutlivesScan ==
  phase = "returned" => \A w \in DOMAIN thread : thread[w] # "running"
=============================================================================
