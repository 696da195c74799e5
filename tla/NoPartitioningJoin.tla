------------------------- MODULE NoPartitioningJoin -------------------------
(***************************************************************************)
(* hashjoin-cpu/src/no_partitioning_join.c: NPO.  Every thread inserts its *)
(* slice of R into one hash table, waits at a barrier, probes the table    *)
(* with its slice of S, waits again and frees the overflow buckets it      *)
(* allocated; the caller joins the threads and adds up their matches.      *)
(*                                                                         *)
(* A bucket is latched by an exchanged byte (lock.h) held in its first     *)
(* node; overflow nodes are linked behind the first.  An insertion is two  *)
(* steps, what it reads and what it writes.  The barrier is a count and    *)
(* the set of threads that sleep (barrier.h).  Statistics, affinity and    *)
(* materialized results are left out.                                      *)
(***************************************************************************)
EXTENDS Naturals, FiniteSets, Sequences, SequencesExt, FiniteSetsExt

CONSTANTS R, S,           \* the relations, as sequences of keys
          NThreads,
          BucketSize,     \* BUCKET_SIZE
          Timing          \* FALSE: built with --enable-timing=no

ASSUME RelationsAreKeys == R \in Seq(Nat) /\ S \in Seq(Nat)
ASSUME SizesArePositive == NThreads \in Nat \ {0} /\ BucketSize \in Nat \ {0}
\* A smaller R has a table of no bucket.
ASSUME TableIsNotEmpty == Len(R) >= BucketSize
ASSUME TimingIsBoolean == Timing \in BOOLEAN

Threads == 0 .. NThreads - 1
Nobody == NThreads

\* The least power of two that is not below v: 1 doubled often enough.
NextPow2(v) == FoldLeft(LAMBDA p, k : IF p < v THEN 2 * p ELSE p, 1, [k \in 1 .. v |-> k])
BucketCount == NextPow2(Len(R) \div BucketSize)
Buckets == 0 .. BucketCount - 1
Hash(key) == key % BucketCount

\* Mutant: the remainder of the division is nobody's.
SliceOfEqualParts(rel, t) ==
  [first |-> t * (Len(rel) \div NThreads) + 1,
   last |-> (t + 1) * (Len(rel) \div NThreads)]

\* The last thread takes the remainder of the division too.
Slice(rel, t) ==
  [first |-> t * (Len(rel) \div NThreads) + 1,
   last |-> IF t = NThreads - 1 THEN Len(rel)
                                ELSE (t + 1) * (Len(rel) \div NThreads)]

VARIABLES
  pc,       \* where each thread stands
  pos,      \* its place in its slice of R, then of S
  seen,     \* what its insertion has read of the bucket
  node,     \* the node of the chain its probe stands at
  matches,  \* its num_results
  latch,    \* the holder of each bucket's latch
  table,    \* each bucket's chain of nodes, the latched one first
  barrier,  \* how many arrived, and who of them sleeps
  freed,    \* the threads that have freed their overflow nodes
  result    \* what the caller returns
vars == <<pc, pos, seen, node, matches, latch, table, barrier, freed, result>>

Phases == {"start", "started", "build", "store", "built", "probe", "probed",
           "free", "done"}
Empty == [owner |-> Nobody, tuples |-> <<>>]
NoResult == Len(R) * Len(S) + 1

Init ==
  /\ pc = [t \in Threads |-> "start"]
  /\ pos = [t \in Threads |-> Slice(R, t).first]
  /\ seen = [t \in Threads |-> <<>>]
  /\ node = [t \in Threads |-> 1]
  /\ matches = [t \in Threads |-> 0]
  /\ latch = [b \in Buckets |-> Nobody]
  /\ table = [b \in Buckets |-> <<Empty>>]
  /\ barrier = [called |-> 0, asleep |-> {}]
  /\ freed = {}
  /\ result = NoResult

-----------------------------------------------------------------------------
(* The barrier of POSIX, or of barrier.h, which is used where there is     *)
(* none, and which a wakeup without a signal would pass.                   *)

\* The last to arrive resets the count and wakes the others.
Arrive(t, next) ==
  /\ barrier' = IF barrier.called + 1 = NThreads
                THEN [called |-> 0, asleep |-> {}]
                ELSE [called |-> barrier.called + 1,
                      asleep |-> barrier.asleep \union {t}]
  /\ pc' = [pc EXCEPT ![t] = next]

Awake(t) == t \notin barrier.asleep

-----------------------------------------------------------------------------
(* build_hashtable_mt.                                                     *)

LatchIsFree(b, t) == latch[b] = Nobody

\* Mutant: the overflow path returns with the latch held.
HolderAfterLeaky(b, chain) == IF Len(chain) > Len(table[b]) THEN latch[b] ELSE Nobody

HolderAfter(b, chain) == Nobody

NodeIsFull(n) == Len(n.tuples) = BucketSize

Add(n, rid) == [n EXCEPT !.tuples = Append(@, rid)]

\* The chain after an insertion into the chain that was read: into the first
\* node, or into the second, or into a new one between them.
Inserted(chain, t, rid) ==
  LET first == Head(chain)
      rest == Tail(chain)
  IN  IF ~NodeIsFull(first) THEN <<Add(first, rid)>> \o rest
      ELSE IF rest # <<>> /\ ~NodeIsFull(Head(rest))
      THEN <<first, Add(Head(rest), rid)>> \o Tail(rest)
      ELSE <<first, [owner |-> t, tuples |-> <<rid>>]>> \o rest

Start(t) ==
  /\ pc[t] = "start"
  /\ Arrive(t, "started")
  /\ UNCHANGED <<pos, seen, node, matches, latch, table, freed, result>>

Begin(t) ==
  /\ pc[t] = "started" /\ Awake(t)
  /\ pc' = [pc EXCEPT ![t] = "build"]
  /\ UNCHANGED <<pos, seen, node, matches, latch, table, barrier, freed, result>>

LatchBucket(t) ==
  /\ pc[t] = "build" /\ pos[t] <= Slice(R, t).last
  /\ LET b == Hash(R[pos[t]])
     IN  /\ LatchIsFree(b, t)
         /\ latch' = [latch EXCEPT ![b] = t]
         /\ seen' = [seen EXCEPT ![t] = table[b]]
  /\ pc' = [pc EXCEPT ![t] = "store"]
  /\ UNCHANGED <<pos, node, matches, table, barrier, freed, result>>

Store(t) ==
  /\ pc[t] = "store"
  /\ LET b == Hash(R[pos[t]])
         chain == Inserted(seen[t], t, pos[t])
     IN  /\ latch' = [latch EXCEPT ![b] = HolderAfter(b, chain)]
         /\ table' = [table EXCEPT ![b] = chain]
  /\ seen' = [seen EXCEPT ![t] = <<>>]
  /\ pos' = [pos EXCEPT ![t] = @ + 1]
  /\ pc' = [pc EXCEPT ![t] = "build"]
  /\ UNCHANGED <<node, matches, barrier, freed, result>>

Built(t) ==
  /\ pc[t] = "build" /\ pos[t] > Slice(R, t).last
  /\ Arrive(t, "built")
  /\ UNCHANGED <<pos, seen, node, matches, latch, table, freed, result>>

-----------------------------------------------------------------------------
(* probe_hashtable, and the end of npo_thread.                             *)

BeginProbe(t) ==
  /\ pc[t] = "built" /\ Awake(t)
  /\ pc' = [pc EXCEPT ![t] = "probe"]
  /\ pos' = [pos EXCEPT ![t] = Slice(S, t).first]
  /\ UNCHANGED <<seen, node, matches, latch, table, barrier, freed, result>>

Chain(t) == table[Hash(S[pos[t]])]
MatchesIn(n, key) == Cardinality({i \in DOMAIN n.tuples : R[n.tuples[i]] = key})

\* A freed node reads as anything its memory may hold by then.
ReadsOf(t) ==
  LET n == Chain(t)[node[t]]
  IN  IF n.owner \in freed THEN 0 .. BucketSize ELSE {MatchesIn(n, S[pos[t]])}

ProbeNode(t) ==
  /\ pc[t] = "probe" /\ pos[t] <= Slice(S, t).last
  /\ \E count \in ReadsOf(t) : matches' = [matches EXCEPT ![t] = @ + count]
  /\ IF node[t] = Len(Chain(t))
     THEN /\ node' = [node EXCEPT ![t] = 1]
          /\ pos' = [pos EXCEPT ![t] = @ + 1]
     ELSE node' = [node EXCEPT ![t] = @ + 1] /\ UNCHANGED pos
  /\ UNCHANGED <<pc, seen, latch, table, barrier, freed, result>>

\* Mutant: the last barrier is for the timing alone.
WaitsAfterProbeNever == FALSE

WaitsAfterProbe == Timing

Probed(t) ==
  /\ pc[t] = "probe" /\ pos[t] > Slice(S, t).last
  /\ IF WaitsAfterProbe THEN Arrive(t, "probed")
     ELSE pc' = [pc EXCEPT ![t] = "free"] /\ UNCHANGED barrier
  /\ UNCHANGED <<pos, seen, node, matches, latch, table, freed, result>>

EndTiming(t) ==
  /\ pc[t] = "probed" /\ Awake(t)
  /\ pc' = [pc EXCEPT ![t] = "free"]
  /\ UNCHANGED <<pos, seen, node, matches, latch, table, barrier, freed, result>>

Free(t) ==
  /\ pc[t] = "free"
  /\ freed' = freed \union {t}
  /\ pc' = [pc EXCEPT ![t] = "done"]
  /\ UNCHANGED <<pos, seen, node, matches, latch, table, barrier, result>>

\* The caller joins every thread before it adds up and frees the table.
Join ==
  /\ result = NoResult
  /\ \A t \in Threads : pc[t] = "done"
  /\ result' = MapThenSumSet(LAMBDA t : matches[t], Threads)
  /\ UNCHANGED <<pc, pos, seen, node, matches, latch, table, barrier, freed>>

Thread(t) ==
  \/ Start(t) \/ Begin(t) \/ LatchBucket(t) \/ Store(t) \/ Built(t)
  \/ BeginProbe(t) \/ ProbeNode(t) \/ Probed(t) \/ EndTiming(t) \/ Free(t)

Next == Join \/ \E t \in Threads : Thread(t)

Spec == Init /\ [][Next]_vars
\* Every thread is scheduled; each latch is held for one insertion of finitely
\* many, so that a spinning thread gets it without a fair lock.
FairSpec == Spec /\ WF_vars(Join) /\ \A t \in Threads : WF_vars(Thread(t))

-----------------------------------------------------------------------------
Rids(b) == FlattenSeq([i \in DOMAIN table[b] |-> table[b][i].tuples])

\* Rows of R that their thread has stored.
StoredBy(t) ==
  IF pc[t] \in {"start", "started", "build", "store"}
  THEN Slice(R, t).first .. pos[t] - 1
  ELSE Slice(R, t).first .. Slice(R, t).last

\* Nobody builds while another thread probes (the barrier between the phases).
ProbeAfterBuild ==
  \A t, u \in Threads :
    ~(pc[t] \in {"probe", "probed", "free", "done"}
       /\ pc[u] \in {"start", "build", "store"})

\* No probe stands at an overflow bucket that its thread has freed.
NoProbeOfFreed ==
  \A t \in Threads : pc[t] = "probe" /\ pos[t] <= Slice(S, t).last =>
    Chain(t)[node[t]].owner \notin freed

\* NPO returns the number of result tuples of the join (no_partitioning_join.h).
JoinIsExact ==
  result # NoResult =>
    result = Cardinality({p \in (DOMAIN R) \X (DOMAIN S) : R[p[1]] = S[p[2]]})
=============================================================================
