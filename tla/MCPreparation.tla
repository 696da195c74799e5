--------------------------- MODULE MCPreparation ---------------------------
(***************************************************************************)
(* The preparation of datasets in three settings, chosen at the start: two *)
(* preparers that replace one dataset, of which no removal fails halfway;  *)
(* one preparer alone, of which any call may fail (with two, the handler   *)
(* of one may put back what the removal of the other left: see README);    *)
(* and the three stages of the formal inputs, run after run.               *)
(***************************************************************************)
EXTENDS DatasetSwap

CONSTANTS p1, p2

VARIABLES system, dir, formalPc, existed

Alone == INSTANCE DatasetSwap WITH Failing <- Failing \cup {"remove"}
Formal == INSTANCE FormalPreparation WITH pc <- formalPc

MCVars == <<vars, dir, formalPc, existed, system>>

MCInit ==
  /\ system \in {"pair", "alone", "formal"}
  /\ Init /\ Formal!Init
  /\ system = "formal" => output = None

Swap ==
  /\ system = "pair"
  /\ Next
  /\ UNCHANGED <<dir, formalPc, existed, system>>

SwapAlone ==
  /\ system = "alone"
  /\ Alone!Next
  /\ pc'[p2] = pc[p2]
  /\ UNCHANGED <<dir, formalPc, existed, system>>

Prepare ==
  /\ system = "formal"
  /\ Formal!Next
  /\ UNCHANGED <<vars, system>>

MCNext == Swap \/ SwapAlone \/ Prepare
MCSpec == MCInit /\ [][MCNext]_MCVars

\* No run of prepare_formal_sf10.py rebuilds or takes away a finished stage.
FinishedStagesStay == Formal!FinishedStagesStay
=============================================================================
