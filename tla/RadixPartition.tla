--------------------------- MODULE RadixPartition ---------------------------
(***************************************************************************)
(* hashjoin-cpu/src/parallel_radix_join.c: parallel_radix_partition and    *)
(* parallel_radix_partition_optimized.  The threads reorder one relation   *)
(* by some bits of the key: each counts the tuples of its slice by         *)
(* cluster, waits for the counts of the others, derives where its own      *)
(* tuples of a cluster go, and copies them there.  The optimized form      *)
(* collects the tuples of a cluster in a line and writes whole lines.      *)
(***************************************************************************)
EXTENDS Naturals, FiniteSets, Sequences, FiniteSetsExt, SequencesExt

CONSTANTS Relations,       \* the relations tried, as sequences of keys
          NThreads,
          Shift, Bits,     \* R and D: the bits that tell the cluster
          Padding,         \* tuples left free behind a cluster
          LineTuples,      \* TUPLESPERCACHELINE
          WriteCombining   \* USE_SWWC_OPTIMIZED_PART

\* What the options may be; SMALL_PADDING_TUPLES is three cache lines.
OptionsOK ==
  /\ Relations \subseteq Seq(Nat)
  /\ {NThreads, LineTuples} \subseteq Nat \ {0} /\ {Shift, Bits} \subseteq Nat
  /\ Padding \in Nat /\ Padding >= LineTuples
  /\ WriteCombining \in BOOLEAN

Threads == 0 .. NThreads - 1

\* 1 << n: 1 doubled n times.
Shifted(n) == FoldLeft(LAMBDA p, k : 2 * p, 1, [k \in 1 .. n |-> k])
PassFanOut == Shifted(Bits)
Clusters == 0 .. PassFanOut - 1

VARIABLES
  rel,      \* the relation
  pc,       \* where each thread stands
  pos,      \* its place in its slice; then the clusters it has drained
  hist,     \* its counts, as prefix sums over the clusters
  output,   \* where its part of each cluster starts
  dst,      \* where its next tuple of each cluster goes
  buffer,   \* its line of each cluster
  tmp       \* the partitioned relation: rows, 0 where nothing is known
vars == <<rel, pc, pos, hist, output, dst, buffer, tmp>>

Rows == DOMAIN rel
MemorySize == Len(rel) + PassFanOut * Padding
Garbage == 0
Cluster(row) == (rel[row] \div Shifted(Shift)) % PassFanOut

\* The last thread takes the remainder of the division too.
Slice(t) ==
  [first |-> t * (Len(rel) \div NThreads) + 1,
   last |-> IF t = NThreads - 1 THEN Len(rel)
                                ELSE (t + 1) * (Len(rel) \div NThreads)]

Init ==
  /\ rel \in Relations
  /\ pc = [t \in Threads |-> "count"]
  /\ pos = [t \in Threads |-> Slice(t).first]
  /\ hist = [t \in Threads |-> [c \in Clusters |-> 0]]
  /\ output = [t \in Threads |-> [c \in Clusters |-> 0]]
  /\ dst = [t \in Threads |-> [c \in Clusters |-> 0]]
  /\ buffer = [t \in Threads |-> [c \in Clusters |-> [l \in 0 .. LineTuples - 1 |-> Garbage]]]
  /\ tmp = [a \in 0 .. MemorySize - 1 |-> Garbage]

-----------------------------------------------------------------------------
\* The histogram of the slice, and its prefix sums: my_hist is read by the
\* others only behind the barrier, so it is one step.
Count(t) ==
  /\ pc[t] = "count"
  /\ hist' = [hist EXCEPT ![t] =
       [c \in Clusters |-> Cardinality({row \in Slice(t).first .. Slice(t).last :
                                          Cluster(row) <= c})]]
  /\ pc' = [pc EXCEPT ![t] = "counted"]
  /\ UNCHANGED <<rel, pos, output, dst, buffer, tmp>>

AllCounted == \A u \in Threads : pc[u] # "count"

\* Mutant: the tuples of the threads before are left out.
StartAloneOf(t, c) ==
  LET before == [u \in Threads |-> IF c > 0 THEN hist[u][c - 1] ELSE 0]
  IN  MapThenSumSet(LAMBDA u : before[u], Threads)

\* The tuples of smaller clusters, and those of the cluster that the threads
\* before it have.
StartOf(t, c) ==
  LET before == [u \in Threads |-> IF u < t THEN hist[u][c]
                                   ELSE IF c > 0 THEN hist[u][c - 1] ELSE 0]
  IN  MapThenSumSet(LAMBDA u : before[u], Threads)

Padded(start, c) == start + c * Padding

FindOutput(t) ==
  /\ pc[t] = "counted" /\ AllCounted
  /\ output' = [output EXCEPT ![t] = [c \in Clusters |-> Padded(StartOf(t, c), c)]]
  /\ dst' = [dst EXCEPT ![t] = [c \in Clusters |-> Padded(StartOf(t, c), c)]]
  /\ pc' = [pc EXCEPT ![t] = "copy"]
  /\ UNCHANGED <<rel, pos, hist, buffer, tmp>>

-----------------------------------------------------------------------------
Copying(t) == pc[t] = "copy" /\ pos[t] <= Slice(t).last

Copy(t) ==
  /\ ~WriteCombining /\ Copying(t)
  /\ LET c == Cluster(pos[t])
     IN  /\ tmp' = [tmp EXCEPT ![dst[t][c]] = pos[t]]
         /\ dst' = [dst EXCEPT ![t][c] = @ + 1]
  /\ pos' = [pos EXCEPT ![t] = @ + 1]
  /\ UNCHANGED <<rel, pc, hist, output, buffer>>

\* tmp with the first n tuples of a line written from address a on.
LineWritten(line, a, n) ==
  [b \in DOMAIN tmp |-> IF b \in a .. a + n - 1 THEN line[b - a] ELSE tmp[b]]

\* A full line is written, also the places in it that are not its own.
Combine(t) ==
  /\ WriteCombining /\ Copying(t)
  /\ LET c == Cluster(pos[t])
         slot == dst[t][c]
         place == slot % LineTuples
         line == [buffer[t][c] EXCEPT ![place] = pos[t]]
     IN  /\ buffer' = [buffer EXCEPT ![t][c] = line]
         /\ dst' = [dst EXCEPT ![t][c] = @ + 1]
         /\ tmp' = IF place = LineTuples - 1
                   THEN LineWritten(line, slot - place, LineTuples)
                   ELSE tmp
  /\ pos' = [pos EXCEPT ![t] = @ + 1]
  /\ UNCHANGED <<rel, pc, hist, output>>

Copied(t) ==
  /\ pc[t] = "copy" /\ pos[t] > Slice(t).last
  /\ IF WriteCombining
     THEN pc' = [pc EXCEPT ![t] = "drain"] /\ pos' = [pos EXCEPT ![t] = 0]
     ELSE pc' = [pc EXCEPT ![t] = "done"] /\ UNCHANGED pos
  /\ UNCHANGED <<rel, hist, output, dst, buffer, tmp>>

\* Mutant: the last tuple of the line is forgotten.
RemainderWrittenShort(t, c) ==
  LET size == dst[t][c] % LineTuples
  IN  LineWritten(buffer[t][c], dst[t][c] - size, size - 1)

\* The tuples of a line that is not full.
RemainderWritten(t, c) ==
  LET size == dst[t][c] % LineTuples
  IN  LineWritten(buffer[t][c], dst[t][c] - size, size)

Drain(t) ==
  /\ pc[t] = "drain"
  /\ tmp' = RemainderWritten(t, pos[t])
  /\ IF pos[t] = PassFanOut - 1
     THEN pc' = [pc EXCEPT ![t] = "done"] /\ UNCHANGED pos
     ELSE pos' = [pos EXCEPT ![t] = @ + 1] /\ UNCHANGED pc
  /\ UNCHANGED <<rel, hist, output, dst, buffer>>

Thread(t) ==
  Count(t) \/ FindOutput(t) \/ Copy(t) \/ Combine(t) \/ Copied(t) \/ Drain(t)

Next == \E t \in Threads : Thread(t)

Spec == Init /\ [][Next]_vars

-----------------------------------------------------------------------------
Done == \A t \in Threads : pc[t] = "done"

\* The addresses that prj_thread takes for a cluster from the first thread.
Region(c) ==
  output[0][c] .. IF c = PassFanOut - 1 THEN MemorySize - Padding - 1
                  ELSE output[0][c + 1] - Padding - 1

\* In the end each cluster holds all its tuples, once each, wherever the
\* threads stood while they copied (parallel_radix_partition).
ClustersAreExact ==
  Done => \A c \in Clusters :
    /\ {tmp[a] : a \in Region(c)} = {row \in Rows : Cluster(row) = c}
    /\ Cardinality(Region(c)) = Cardinality({row \in Rows : Cluster(row) = c})
=============================================================================
