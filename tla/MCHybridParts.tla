---------------------------- MODULE MCHybridParts ----------------------------
(***************************************************************************)
(* The parts a hybrid session is made of, one at a time.                   *)
(*                                                                         *)
(* The GPU child: a session in copy mode, in which a call after the launch *)
(* may also fail and leave the context usable, or one in managed mode.     *)
(*                                                                         *)
(* The plan, on every table of at most four batches of at most three rows  *)
(* (empty batches included), quarters as fixed ratios, and small times     *)
(* that put the balance point on and between boundaries.                   *)
(*                                                                         *)
(* The query, on databases of two rows per small table, keys 0 and 1 being *)
(* the ones that can be indexed: all that differ in who belongs where and  *)
(* in one order, and all in which one table is arbitrary, with keys that   *)
(* repeat, are negative or too large, and names that repeat.               *)
(***************************************************************************)
EXTENDS HybridParts

CONSTANT MaxI64

MCPlanLengths == UNION {[1 .. n -> 0 .. 3] : n \in 0 .. 3} \cup [1 .. 4 -> 1 .. 2]
MCPlanRatios == {<<p, 4>> : p \in 0 .. 4} \cup {<<1, 3>>}
MCPlanCalibrations == [cpu : 0 .. 3, kernel : 0 .. 3, fixed : {0, 1, 4}]

Seq2(S) == {<<>>} \cup [1 .. 1 -> S] \cup [1 .. 2 -> S]
RegionRows == [key : -1 .. 1, name : {"ASIA", "EUROPE"}]
NationRows == [key : -1 .. 2, name : {1, 2}, region : {0, 1}]
HomeRows == [key : -1 .. 2, nation : {-1, 0, 1}]
OrderRows == [key : -1 .. 2, customer : {-1, 0, 1}, date : 0 .. 2]
LineRows == [order : -1 .. 1, supplier : {0, 1}, revenue : {0, 2}, valid : BOOLEAN]

Homes == {<<[key |-> 0, nation |-> m], [key |-> 1, nation |-> n]>> : m, n \in 0 .. 2}
AllLines == [i \in 1 .. 6 |-> [order |-> (i - 1) \div 2, supplier |-> (i - 1) % 2,
                              revenue |-> 1, valid |-> TRUE]]
Usual ==
  [region : {<<[key |-> 1, name |-> "ASIA"], [key |-> 0, name |-> "EUROPE"]>>},
   nation : {<<[key |-> 0, name |-> 2, region |-> q], [key |-> 1, name |-> 1, region |-> r]>> :
               q, r \in {0, 1}},
   supplier : Homes, customer : Homes,
   orders : {<<[key |-> 0, customer |-> c, date |-> t], [key |-> 1, customer |-> 1, date |-> 1]>> :
               c \in 0 .. 2, t \in 0 .. 2},
   lineitem : {AllLines}]
Home2 == <<[key |-> 0, nation |-> 0], [key |-> 1, nation |-> 1]>>
Base ==
  [region |-> <<[key |-> 1, name |-> "ASIA"], [key |-> 0, name |-> "EUROPE"]>>,
   nation |-> <<[key |-> 0, name |-> 2, region |-> 1], [key |-> 1, name |-> 1, region |-> 1]>>,
   supplier |-> Home2, customer |-> Home2,
   orders |-> <<[key |-> 0, customer |-> 0, date |-> 1], [key |-> 1, customer |-> 1, date |-> 1]>>,
   lineitem |-> AllLines]
Odd ==
  {[Base EXCEPT !.region = t] : t \in Seq2(RegionRows)}
  \cup {[Base EXCEPT !.nation = t] : t \in Seq2(NationRows)}
  \cup {[Base EXCEPT !.supplier = t] : t \in Seq2(HomeRows)}
  \cup {[Base EXCEPT !.customer = t] : t \in Seq2(HomeRows)}
  \cup {[Base EXCEPT !.orders = t] : t \in Seq2(OrderRows)}
  \cup {[Base EXCEPT !.lineitem = t] : t \in Seq2(LineRows)}
MCDatabases == Usual \cup Odd

Engines == INSTANCE Q5Engines

\* All engines give the answer of the query, cuDF up to groups of revenue 0, or
\* the Arrow engines refuse one that cannot be represented.
EnginesAgree == part = "query" => Engines!EnginesAgree(database, 2)

\* The C++ engines and cuDF answer as the oracle does (README.md:26).
SameRows == part = "query" => Engines!SameRows(database, 2)
=============================================================================
