--------------------------- MODULE MCHybridSession ---------------------------
(***************************************************************************)
(* The session on tables of up to four rows in two batches: good rows of   *)
(* two nations, a bad row that matches and one that does not.  LLONG_MAX   *)
(* is 3, so a nation's sum may fit neither slice, or both and not their    *)
(* merge.  Fixed ratios put the cut at either end and inside a batch.      *)
(*                                                                         *)
(* The scan, on an empty table and on every table of four rows in batches  *)
(* of one, none and three rows, with one thread and with three: the ranges *)
(* of three start inside the last batch and end across batches.  Two rows  *)
(* of revenue 2 overflow within one worker or only in the merge.           *)
(***************************************************************************)
EXTENDS SessionAndScan

Good(n, r) == [nation |-> n, revenue |-> r, valid |-> TRUE]
Bad(n) == [nation |-> n, revenue |-> 0, valid |-> FALSE]
N == 99
MCNameOf == [n \in 0 .. 1 |-> 1 - n]
Table(pieces) ==
  [rows |-> FlattenSeq(pieces), lengths |-> [i \in DOMAIN pieces |-> Len(pieces[i])]]
MCTables == {Table(b) : b \in
  { <<>>,
    <<<<Good(0, 1), Good(1, 2)>>, <<Good(0, 2), Good(N, 0)>>>>,
    <<<<Good(0, 2), Good(1, 1)>>, <<Good(0, 2)>>>>,
    <<<<Good(0, 2), Good(0, 2)>>, <<Good(1, 2), Good(1, 2)>>>>,
    <<<<Bad(0)>>, <<Good(1, 2), Good(1, 2)>>>>,
    <<<<Good(0, 3)>>, <<Bad(1), Good(1, 1)>>>>,
    <<<<Bad(N), Good(1, 3)>>, <<Good(0, 1)>>>> }}
Fixed(p, q, t) == [selection |-> "fixed", ratio |-> <<p, q>>, threads |-> t]
MCOptions ==
  { Fixed(0, 1, 1), Fixed(1, 2, 1), Fixed(1, 2, 2), Fixed(3, 4, 2), Fixed(1, 1, 2),
    [selection |-> "auto", ratio |-> <<1, 2>>, threads |-> 2] }
MCCalibrations == [cpu : {1, 3}, kernel : {1, 3}, fixed : {0, 1}]

Kinds == {[nation |-> None, revenue |-> 0, valid |-> FALSE], Good(0, 1), Good(1, 2), Bad(1)}
Split(rows, k) == <<SubSeq(rows, 1, k), <<>>, SubSeq(rows, k + 1, Len(rows))>>
MCScanTables == {<<>>} \cup {Split(rows, 1) : rows \in [1 .. 4 -> Kinds]}
=============================================================================
