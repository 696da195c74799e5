------------------------------ MODULE HashJoins ------------------------------
(***************************************************************************)
(* The hash joins, one at a time: the join with one table that all threads *)
(* share (NPO), the radix join (PRO), and one parallel pass of it from the *)
(* inside, plain and by a single thread that writes whole lines.           *)
(***************************************************************************)
EXTENDS NoPartitioningJoin

CONSTANTS
  Inputs, FanOut, NNodes, MemoryNodes, SkewLimit, LargeLimit, None,  \* of PRO
  Relations, LineRelations, Shift, Bits, Padding, LineTuples         \* of a pass

VARIABLES
  part,    \* "table", "radix", "pass" or "lines"
  joinRel, joinPc, arrived, counted, copied, overwritten, partQueue, skewQueue,
  skewTask, joinQueue, largeTasks, joined,                           \* of PRO
  passRel, passPc, passPos, hist, output, dst, buffer, tmp           \* of a pass

joinVars == <<joinRel, joinPc, arrived, counted, copied, overwritten, partQueue,
              skewQueue, skewTask, joinQueue, largeTasks, joined>>
passVars == <<passRel, passPc, passPos, hist, output, dst, buffer, tmp>>

Radix == INSTANCE RadixJoin WITH rel <- joinRel, pc <- joinPc, result <- joined

Pass == INSTANCE RadixPartition
  WITH WriteCombining <- FALSE, rel <- passRel, pc <- passPc, pos <- passPos

Lines == INSTANCE RadixPartition
  WITH Relations <- LineRelations, NThreads <- 1, WriteCombining <- TRUE,
       rel <- passRel, pc <- passPc, pos <- passPos

ASSUME JoinOptionsOK == Radix!OptionsOK
ASSUME PassOptionsOK == Pass!OptionsOK /\ Lines!OptionsOK

NoJoin ==
  /\ joinRel = None /\ joinPc = None /\ arrived = None /\ counted = None /\ copied = None
  /\ overwritten = None /\ partQueue = None /\ skewQueue = None /\ skewTask = None
  /\ joinQueue = None /\ largeTasks = None /\ joined = None
NoPass ==
  /\ passRel = None /\ passPc = None /\ passPos = None /\ hist = None /\ output = None
  /\ dst = None /\ buffer = None /\ tmp = None

JoinsInit ==
  /\ Init
  /\ \/ part = "table" /\ NoJoin /\ NoPass
     \/ part = "radix" /\ Radix!Init /\ NoPass
     \/ part = "pass" /\ NoJoin /\ Pass!Init
     \/ part = "lines" /\ NoJoin /\ Lines!Init

TableThread(t) == part = "table" /\ Thread(t) /\ UNCHANGED <<part, joinVars, passVars>>
TableEnd == part = "table" /\ Join /\ UNCHANGED <<part, joinVars, passVars>>
RadixThread(t) == part = "radix" /\ Radix!Step(t) /\ UNCHANGED <<part, vars, passVars>>
PassStep == part = "pass" /\ Pass!Next /\ UNCHANGED <<part, vars, joinVars>>
LinesStep == part = "lines" /\ Lines!Next /\ UNCHANGED <<part, vars, joinVars>>

JoinsNext ==
  \/ \E t \in Threads : TableThread(t) \/ RadixThread(t)
  \/ TableEnd \/ PassStep \/ LinesStep

JoinsVars == <<part, vars, joinVars, passVars>>
JoinsSpec ==
  /\ JoinsInit /\ [][JoinsNext]_JoinsVars
  /\ WF_JoinsVars(TableEnd)
  /\ \A t \in Threads : WF_JoinsVars(TableThread(t)) /\ WF_JoinsVars(RadixThread(t))

-----------------------------------------------------------------------------
\* The threads of PRO return together the number of result tuples of the join
\* (@return of PRO in parallel_radix_join.h).
RadixIsExact == part = "radix" => Radix!JoinIsExact

\* From the first pass on, every match is in exactly one place, and nothing is
\* written over while a thread still reads it (prj_thread).
MatchesAreKept == part = "radix" => Radix!MatchesAreKept

\* In the end each cluster holds all its tuples, once each, wherever the
\* threads stood while they copied (parallel_radix_partition).
PassIsExact == part = "pass" => Pass!ClustersAreExact

\* So it does with a single thread that writes whole lines
\* (parallel_radix_partition_optimized).
LinesAreExact == part = "lines" => Lines!ClustersAreExact

\* Every join comes to its end: no thread stays at a latch or at a barrier (NPO,
\* prj_thread).
JoinsReturn ==
  <>(/\ part = "table" => result # NoResult
     /\ part = "radix" => Radix!Finished)
=============================================================================
