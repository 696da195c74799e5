------------------------------ MODULE RadixJoin ------------------------------
(***************************************************************************)
(* hashjoin-cpu/src/parallel_radix_join.c: join_init_run and prj_thread    *)
(* for PRO, with the queues of task_queue.h and the NUMA nodes of          *)
(* cpu_mapping.c.  A key is the pair of clusters that the two passes put   *)
(* it in; RadixPartition has the inside of a parallel pass, so that here a *)
(* thread counts its slice in one step and copies it in another.  A queue  *)
(* is locked for each call, and joins and serial passes work on what only  *)
(* their thread holds: each is one step with the call that leads to it.    *)
(***************************************************************************)
EXTENDS Naturals, FiniteSets, Sequences, FiniteSetsExt, SequencesExt

CONSTANTS Inputs,          \* what is tried: relations R and S, sequences of keys,
                           \* and in skew whether --enable-skewhandling is given
          FanOut,          \* the clusters of each pass are 0 .. FanOut - 1
          NThreads,
          NNodes,          \* get_num_numa_regions
          MemoryNodes,     \* the nodes that the pages of tmpR lie on
          SkewLimit,       \* thresh1: a cluster above it is partitioned by all
          LargeLimit,      \* THR1: a join task above it is joined by all
          None

Clusters == 0 .. FanOut - 1

\* What the options may be; the pages lie on nodes that have a queue.
OptionsOK ==
  /\ {NThreads, NNodes, FanOut} \subseteq Nat \ {0}
  /\ {SkewLimit, LargeLimit} \subseteq Nat
  /\ MemoryNodes \subseteq 0 .. NNodes - 1
  /\ None \notin Clusters
  /\ \A in \in Inputs :
       in.R \in Seq(Clusters \X Clusters) /\ in.S \in Seq(Clusters \X Clusters)

Threads == 0 .. NThreads - 1
Nodes == 0 .. NNodes - 1
Sides == {"R", "S"}

VARIABLES
  rel,         \* the input
  pc,          \* where each thread stands
  arrived,     \* the threads that wait at the barrier
  counted,     \* the rows in the histogram of each thread, by side
  copied,      \* the rows that the pass in progress has put in place, by side
  overwritten, \* a second pass has written over the relations
  partQueue,   \* of each node: clusters of the first pass
  skewQueue,   \* clusters that all threads partition together
  skewTask,    \* the one they are at, or None
  joinQueue,   \* of each node: join tasks
  largeTasks,  \* the large join tasks, for which part_queue of thread 0 serves
  result       \* the matches each thread has found
vars == <<rel, pc, arrived, counted, copied, overwritten, partQueue, skewQueue,
          skewTask, joinQueue, largeTasks, result>>

\* get_numa_id, for the 64 threads that its table lists.
NodeOf(t) == t % NNodes
First(row, x) == rel[x][row][1]
Second(row, x) == rel[x][row][2]
Rows(x) == DOMAIN rel[x]
SkewHandling == rel.skew

Init ==
  /\ rel \in Inputs
  /\ pc = [t \in Threads |-> "start"]
  /\ arrived = {}
  /\ counted = [x \in Sides |-> [t \in Threads |-> {}]]
  /\ copied = [x \in Sides |-> {}]
  /\ overwritten = FALSE
  /\ partQueue = [n \in Nodes |-> <<>>]
  /\ skewQueue = <<>>
  /\ skewTask = None
  /\ joinQueue = [n \in Nodes |-> <<>>]
  /\ largeTasks = <<>>
  /\ result = [t \in Threads |-> 0]

-----------------------------------------------------------------------------
At(t, place) == pc[t] = place /\ t \notin arrived

Goto(t, place) == pc' = [pc EXCEPT ![t] = place] /\ UNCHANGED arrived

\* BARRIER_ARRIVE, and where the thread goes on when all have come.
Arrive(t, place) ==
  /\ pc' = [pc EXCEPT ![t] = place]
  /\ arrived' = IF arrived \cup {t} = Threads THEN {} ELSE arrived \cup {t}

Start(t) ==
  /\ At(t, "start")
  /\ Arrive(t, "count R")
  /\ UNCHANGED <<rel, counted, copied, overwritten, partQueue, skewQueue, skewTask,
                 joinQueue, largeTasks, result>>

\* Mutant: every thread takes an equal share.
SharesEvenly(rows, t) ==
  LET each == Cardinality(rows) \div NThreads
      before(row) == Cardinality({other \in rows : other < row})
  IN  {row \in rows : before(row) >= t * each /\ before(row) < (t + 1) * each}

\* The part of thread t in the rows: the last one takes the remainder too.
Share(rows, t) ==
  LET each == Cardinality(rows) \div NThreads
      before(row) == Cardinality({other \in rows : other < row})
  IN  {row \in rows : /\ before(row) >= t * each
                      /\ t = NThreads - 1 \/ before(row) < (t + 1) * each}

\* The rows of a side that a parallel pass works on.
PassRows(x, clusters) == {row \in Rows(x) : First(row, x) \in clusters}

Count(t, x, here, clusters, there) ==
  /\ At(t, here)
  /\ counted' = [counted EXCEPT ![x][t] = Share(PassRows(x, clusters), t)]
  /\ Arrive(t, there)
  /\ UNCHANGED <<rel, copied, overwritten, partQueue, skewQueue, skewTask,
                 joinQueue, largeTasks, result>>

\* Between S and what follows there is a barrier, between R and S none.
Copy(t, x, here, second, there) ==
  /\ At(t, here)
  /\ copied' = [copied EXCEPT ![x] = @ \cup counted[x][t]]
  /\ overwritten' = (overwritten \/ second)
  /\ IF x = "R" THEN Goto(t, there) ELSE Arrive(t, there)
  /\ UNCHANGED <<rel, counted, partQueue, skewQueue, skewTask, joinQueue, largeTasks,
                 result>>

FirstPass(t) ==
  \/ Count(t, "R", "count R", Clusters, "copy R")
  \/ Copy(t, "R", "copy R", FALSE, "count S")
  \/ Count(t, "S", "count S", Clusters, "copy S")
  \/ Copy(t, "S", "copy S", FALSE, "prepare")

-----------------------------------------------------------------------------
\* What the histograms say of a cluster of the first or of the second pass.
AllCounted(x) == UNION {counted[x][t] : t \in Threads}
TuplesOfFirst(x, c) == Cardinality({row \in AllCounted(x) : First(row, x) = c})
TuplesOfSecond(x, c) == Cardinality({row \in AllCounted(x) : Second(row, x) = c})

Skewed(c) ==
  SkewHandling /\ (TuplesOfFirst("R", c) > SkewLimit \/ TuplesOfFirst("S", c) > SkewLimit)

Joinable(c) == TuplesOfFirst("R", c) > 0 /\ TuplesOfFirst("S", c) > 0

\* Clusters put in front of a queue one after the other: the last one is first.
Stacked(clusters) ==
  CHOOSE q \in [1 .. Cardinality(clusters) -> clusters] :
    \A k \in 1 .. Cardinality(clusters) : \A l \in 1 .. k - 1 : q[l] > q[k]

\* Thread 0 makes the tasks, cluster by cluster, each one at the head of the
\* queue of the node where the first page of the cluster lies.
Prepare(t) ==
  /\ At(t, "prepare")
  /\ Arrive(t, "divide")
  /\ IF t = 0
     THEN \E page \in [Clusters -> MemoryNodes] :
            /\ skewQueue' = Stacked({c \in Clusters : Skewed(c)})
            /\ partQueue' = [n \in Nodes |->
                 Stacked({c \in Clusters : page[c] = n /\ Joinable(c) /\ ~Skewed(c)})]
     ELSE UNCHANGED <<partQueue, skewQueue>>
  /\ UNCHANGED <<rel, counted, copied, overwritten, skewTask, joinQueue, largeTasks,
                 result>>

-----------------------------------------------------------------------------
\* A join task: the rows of R and of S that it joins.
Task(r, s) == [R |-> r, S |-> s]

\* The rows of side x in cluster d of cluster c.
Part(x, c, d) == {row \in copied[x] : First(row, x) = c /\ Second(row, x) = d}
BothSides(c, d) == Part("R", c, d) # {} /\ Part("S", c, d) # {}

\* The tasks of some clusters of c, the last one made in front.
TasksOf(c, clusters) ==
  [k \in 1 .. Cardinality(clusters) |->
     LET d == Stacked(clusters)[k] IN Task(Part("R", c, d), Part("S", c, d))]

\* serial_radix_partition
SerialTasks(c) == TasksOf(c, {d \in Clusters : BothSides(c, d)})

\* Mutant: a thread divides one cluster at most.
DivideOne(t) ==
  /\ At(t, "divide")
  /\ Goto(t, IF SkewHandling THEN "skew" ELSE "collect")
  /\ IF partQueue[NodeOf(t)] # <<>>
     THEN /\ partQueue' = [partQueue EXCEPT ![NodeOf(t)] = Tail(@)]
          /\ joinQueue' = [joinQueue EXCEPT ![NodeOf(t)] =
                             SerialTasks(Head(partQueue[NodeOf(t)])) \o @]
          /\ overwritten' = TRUE
     ELSE UNCHANGED <<partQueue, joinQueue, overwritten>>
  /\ UNCHANGED <<rel, counted, copied, skewQueue, skewTask, largeTasks, result>>

Divide(t) ==
  /\ At(t, "divide")
  /\ IF partQueue[NodeOf(t)] # <<>>
     THEN /\ partQueue' = [partQueue EXCEPT ![NodeOf(t)] = Tail(@)]
          /\ joinQueue' = [joinQueue EXCEPT ![NodeOf(t)] =
                             SerialTasks(Head(partQueue[NodeOf(t)])) \o @]
          /\ overwritten' = TRUE
          /\ UNCHANGED <<pc, arrived>>
     ELSE /\ Goto(t, IF SkewHandling THEN "skew" ELSE "collect")
          /\ UNCHANGED <<partQueue, joinQueue, overwritten>>
  /\ UNCHANGED <<rel, counted, copied, skewQueue, skewTask, largeTasks, result>>

-----------------------------------------------------------------------------
\* Mutant: the last task stays when the queue is empty.
NextSkewTaskStale(t) ==
  /\ At(t, "skew")
  /\ IF t # 0 \/ skewQueue = <<>> THEN UNCHANGED <<skewQueue, skewTask>>
     ELSE skewTask' = Head(skewQueue) /\ skewQueue' = Tail(skewQueue)
  /\ Arrive(t, "skew task")
  /\ UNCHANGED <<rel, counted, copied, overwritten, partQueue, joinQueue, largeTasks,
                 result>>

\* The second pass over a skewed cluster, by all threads.
NextSkewTask(t) ==
  /\ At(t, "skew")
  /\ IF t # 0 THEN UNCHANGED <<skewQueue, skewTask>>
     ELSE IF skewQueue = <<>> THEN skewTask' = None /\ UNCHANGED skewQueue
     ELSE skewTask' = Head(skewQueue) /\ skewQueue' = Tail(skewQueue)
  /\ Arrive(t, "skew task")
  /\ UNCHANGED <<rel, counted, copied, overwritten, partQueue, joinQueue, largeTasks,
                 result>>

\* Each thread replaces its histograms; the room of the cluster is empty.
SkewTask(t) ==
  /\ At(t, "skew task")
  /\ IF skewTask = None
     THEN Goto(t, "collect") /\ UNCHANGED <<counted, copied>>
     ELSE /\ counted' = [x \in Sides |-> [counted[x] EXCEPT ![t] = {}]]
          /\ copied' = [x \in Sides |-> {row \in copied[x] : First(row, x) # skewTask}]
          /\ Arrive(t, "recount R")
  /\ UNCHANGED <<rel, overwritten, partQueue, skewQueue, skewTask, joinQueue,
                 largeTasks, result>>

SecondPass(t) ==
  \/ Count(t, "R", "recount R", {skewTask}, "recopy R")
  \/ Copy(t, "R", "recopy R", TRUE, "recount S")
  \/ Count(t, "S", "recount S", {skewTask}, "recopy S")
  \/ Copy(t, "S", "recopy S", TRUE, "skew tasks")

Large(d) == TuplesOfSecond("R", d) > LargeLimit \/ TuplesOfSecond("S", d) > LargeLimit

\* A large task is shared by the tuples of S, one share for each thread.
SharedTasks(r, s) == [k \in 1 .. NThreads |-> Task(r, Share(s, NThreads - k))]

SkewTasks(t) ==
  /\ At(t, "skew tasks")
  /\ Goto(t, "skew")
  /\ IF t = 0
     THEN LET large == {d \in Clusters : Large(d)}
              small == {d \in Clusters \ large : BothSides(skewTask, d)}
              tasks == TasksOf(skewTask, large)
          IN  /\ joinQueue' = [joinQueue EXCEPT ![NodeOf(0)] = TasksOf(skewTask, small) \o @]
              /\ largeTasks' =
                   FlattenSeq([k \in DOMAIN tasks |-> SharedTasks(tasks[k].R, tasks[k].S)])
                   \o largeTasks
     ELSE UNCHANGED <<joinQueue, largeTasks>>
  /\ UNCHANGED <<rel, counted, copied, overwritten, partQueue, skewQueue, skewTask,
                 result>>

\* The large tasks come to the front of the join queue of thread 0.
Collect(t) ==
  /\ At(t, "collect")
  /\ Arrive(t, "join")
  /\ IF t = 0
     THEN /\ joinQueue' = [joinQueue EXCEPT ![NodeOf(0)] = Reverse(largeTasks) \o @]
          /\ largeTasks' = <<>>
     ELSE UNCHANGED <<joinQueue, largeTasks>>
  /\ UNCHANGED <<rel, counted, copied, overwritten, partQueue, skewQueue, skewTask,
                 result>>

-----------------------------------------------------------------------------
Pairs(r, s) == {p \in r \X s : rel["R"][p[1]] = rel["S"][p[2]]}

\* bucket_chaining_join.  Without a tuple of R its bucket array has no
\* element, and a probe reads behind it: it may find anything.
Found(task) ==
  IF task.R = {} /\ task.S # {} THEN 0 .. 1
  ELSE {Cardinality(Pairs(task.R, task.S))}

Join(t) ==
  /\ At(t, "join")
  /\ IF joinQueue[NodeOf(t)] # <<>>
     THEN /\ joinQueue' = [joinQueue EXCEPT ![NodeOf(t)] = Tail(@)]
          /\ \E n \in Found(Head(joinQueue[NodeOf(t)])) :
               result' = [result EXCEPT ![t] = @ + n]
          /\ UNCHANGED <<pc, arrived>>
     ELSE Arrive(t, "done") /\ UNCHANGED <<joinQueue, result>>
  /\ UNCHANGED <<rel, counted, copied, overwritten, partQueue, skewQueue, skewTask,
                 largeTasks>>

Step(t) ==
  \/ Start(t) \/ FirstPass(t) \/ Prepare(t) \/ Divide(t)
  \/ NextSkewTask(t) \/ SkewTask(t) \/ SecondPass(t) \/ SkewTasks(t)
  \/ Collect(t) \/ Join(t)

Finished == \A t \in Threads : At(t, "done")
Next == (\E t \in Threads : Step(t)) \/ (Finished /\ UNCHANGED vars)
Spec == Init /\ [][Next]_vars /\ \A t \in Threads : WF_vars(Step(t))

-----------------------------------------------------------------------------
Matches(r, s) == Cardinality(Pairs(r, s))
MatchesOf(c) == Matches(PassRows("R", {c}), PassRows("S", {c}))
Expected == Matches(Rows("R"), Rows("S"))
Total == MapThenSumSet(LAMBDA t : result[t], Threads)

\* The number of result tuples that the threads return together is that of
\* the join (@return of PRO in parallel_radix_join.h).
JoinIsExact == Finished => Total = Expected

MatchesOfClusters(q) == FoldFunction(+, 0, [k \in DOMAIN q |-> MatchesOf(q[k])])
MatchesOfTasks(q) == FoldFunction(+, 0, [k \in DOMAIN q |-> Matches(q[k].R, q[k].S)])
InSkewTask == skewTask # None /\ pc[0] \notin {"skew", "collect"}
Pending ==
  FoldFunction(+, 0, [n \in Nodes |-> MatchesOfClusters(partQueue[n])
                                      + MatchesOfTasks(joinQueue[n])])
  + MatchesOfClusters(skewQueue) + MatchesOfTasks(largeTasks)
  + (IF InSkewTask THEN MatchesOf(skewTask) ELSE 0)
Prepared ==
  pc[0] \notin {"start", "count R", "copy R", "count S", "copy S", "prepare"}
InputIsDone == \A t \in Threads : pc[t] \notin {"start", "count R", "copy R", "count S", "copy S"}
\* From the first pass on, every match is in exactly one place: in a cluster
\* that is still to be partitioned, in one join task, or in a result; and the
\* second pass writes over the relations only when no thread reads them any more.
MatchesAreKept ==
  /\ Prepared => Total + Pending = Expected
  /\ overwritten => InputIsDone
=============================================================================
