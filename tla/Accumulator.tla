---------------------------- MODULE Accumulator ----------------------------
(***************************************************************************)
(* What a Q5 revenue accumulation promises, whoever runs it: items are     *)
(* consumed one at a time in any order; an item is added to its cell when  *)
(* the cell stays within the limit, and raises the flag otherwise.         *)
(***************************************************************************)
EXTENDS Integers

CONSTANTS Item, CellOf, Amount, Cell, Limit

VARIABLES sum, todo, flag

avars == <<sum, todo, flag>>

Init ==
  /\ sum = [c \in Cell |-> 0]
  /\ todo = Item
  /\ flag = FALSE

Add(i) ==
  /\ i \in todo
  /\ sum[CellOf[i]] + Amount[i] <= Limit
  /\ sum' = [sum EXCEPT ![CellOf[i]] = @ + Amount[i]]
  /\ todo' = todo \ {i}
  /\ UNCHANGED flag

Refuse(i) ==
  /\ i \in todo
  /\ sum[CellOf[i]] + Amount[i] > Limit
  /\ flag' = TRUE
  /\ todo' = todo \ {i}
  /\ UNCHANGED sum

Next == \E i \in Item : Add(i) \/ Refuse(i)

Spec == Init /\ [][Next]_avars
=============================================================================
