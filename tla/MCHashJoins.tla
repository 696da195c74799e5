---------------------------- MODULE MCHashJoins ----------------------------
(***************************************************************************)
(* The shared table gets relations whose keys repeat and collide, so that  *)
(* a bucket fills its first node and the overflow nodes of two threads.    *)
(*                                                                         *)
(* The radix join gets short relations over the keys of two clusters in    *)
(* each pass, chosen so that clusters of one side only, of both, of        *)
(* several tuples and above the limits occur, as it is built by default    *)
(* and with --enable-skewhandling.                                         *)
(*                                                                         *)
(* A pass gets every relation of a few keys, those of a single thread with *)
(* lines such that lines fill, stay partly filled and are shared by two    *)
(* clusters.                                                               *)
(***************************************************************************)
EXTENDS HashJoins

MCR == <<1, 3, 1, 2, 1, 5, 1>>
MCS == <<1, 4, 5>>

Keys == {0, 1} \X {0, 1}
MCDefaultInputs ==
  [R : {<<<<0, 0>>, <<1, 1>>, <<0, 1>>>>, <<<<0, 1>>, <<0, 1>>, <<1, 0>>, <<1, 1>>>>},
   S : [1 .. 3 -> Keys], skew : {FALSE}]

\* One cluster above the limits, with tuples of R wherever S has too many.
MCSkewedS == [1 .. 4 -> {<<0, 0>>, <<0, 1>>, <<1, 1>>}]
MCSkewedInputs == [R : {<<<<0, 0>>, <<0, 1>>, <<1, 1>>>>}, S : MCSkewedS, skew : {TRUE}]
MCInputs == MCDefaultInputs \cup MCSkewedInputs
\* And without any.
MCEmptyInputs == [R : {<<<<1, 1>>>>}, S : MCSkewedS, skew : {TRUE}]

MCRelations == [1 .. 5 -> {0, 4, 6}]
MCLineRelations == UNION {[1 .. n -> {0, 2, 4, 6}] : n \in 4 .. 5}
=============================================================================
