------------------------------- MODULE Q5Query -------------------------------
(***************************************************************************)
(* TPC-H query 5 as SQL states it (duckdb_q5.py), and the dense lookups    *)
(* from keys to nations that the specialized engines make of the small     *)
(* tables: ArrowQ5Plan, whose builder refuses what it cannot index, and    *)
(* Q5PreparedPlan of the in-memory engines, which takes what it gets.      *)
(*                                                                         *)
(* A database is a record of tables, a table a sequence of rows.  Rows of  *)
(* region, nation, supplier, customer and orders have their primary key in *)
(* the field key.  A lookup is a function from the keys that occur; where  *)
(* the vectors hold -1 or end, it gives None.                              *)
(***************************************************************************)
EXTENDS Integers, Sequences, FiniteSets

CONSTANTS Region,      \* params.region_name
          Start, End,  \* start_date_days, end_date_days
          MaxDirectKey,
          None

InDates(order) == Start <= order.date /\ order.date < End

-----------------------------------------------------------------------------
(* The query: the rows of the six tables that its conditions relate.       *)

Matches(d) ==
  {m \in [line : DOMAIN d.lineitem, order : DOMAIN d.orders, customer : DOMAIN d.customer,
          supplier : DOMAIN d.supplier, nation : DOMAIN d.nation, region : DOMAIN d.region] :
     /\ d.customer[m.customer].key = d.orders[m.order].customer
     /\ d.lineitem[m.line].order = d.orders[m.order].key
     /\ d.lineitem[m.line].supplier = d.supplier[m.supplier].key
     /\ d.supplier[m.supplier].nation = d.nation[m.nation].key
     /\ d.nation[m.nation].region = d.region[m.region].key
     /\ d.customer[m.customer].nation = d.supplier[m.supplier].nation
     /\ d.region[m.region].name = Region
     /\ InDates(d.orders[m.order])}

-----------------------------------------------------------------------------
(* build_arrow_q5_plan.                                                    *)

Keys(table) == {table[i].key : i \in DOMAIN table}
UniqueKeys(table) == \A i, j \in DOMAIN table : table[i].key = table[j].key => i = j
Indexable(table) == UniqueKeys(table) /\ Keys(table) \subseteq 0 .. MaxDirectKey

Named(d) == {i \in DOMAIN d.region : d.region[i].name = Region}

PlanAccepts(d) ==
  /\ UniqueKeys(d.region) /\ \A k \in Keys(d.region) : k >= 0
  /\ \E i \in DOMAIN d.region : Named(d) = {i}
  /\ Indexable(d.nation) /\ Indexable(d.supplier) /\ Indexable(d.customer)
  /\ Indexable(d.orders)

\* nation_in_region
NationsOf(d, region) == {d.nation[i].key : i \in {j \in DOMAIN d.nation : d.nation[j].region = region}}

\* The row of a key, in a table where keys are unique.
RowOf(table, k) == table[CHOOSE i \in DOMAIN table : table[i].key = k]

\* supplier_nation_by_key, customer_nation_by_key
NationByKey(table, nations) ==
  [k \in Keys(table) |-> IF RowOf(table, k).nation \in nations THEN RowOf(table, k).nation ELSE None]

Lookup(map, k) == IF k \in DOMAIN map THEN map[k] ELSE None

\* Mutant: the last day of the year is in, and the first of the next.
OrderNationByKeyInclusive(orders, customers) ==
  [k \in Keys(orders) |->
     IF Start <= RowOf(orders, k).date /\ RowOf(orders, k).date <= End
     THEN Lookup(customers, RowOf(orders, k).customer) ELSE None]

\* order_nation_by_key
OrderNationByKey(orders, customers) ==
  [k \in Keys(orders) |->
     IF InDates(RowOf(orders, k)) THEN Lookup(customers, RowOf(orders, k).customer) ELSE None]

Plan(d) ==
  LET nations == NationsOf(d, d.region[CHOOSE i \in Named(d) : TRUE].key) IN
  [supplier |-> NationByKey(d.supplier, nations),
   order |-> OrderNationByKey(d.orders, NationByKey(d.customer, nations))]

\* The nation a line counts for, as every executor of a plan looks it up.
NationOfLine(line, plan) ==
  LET nation == Lookup(plan.order, line.order) IN
  IF nation = Lookup(plan.supplier, line.supplier) THEN nation ELSE None

-----------------------------------------------------------------------------
(* build_q5_plan_cpu: of several rows with a key the last one counts that   *)
(* passes the filters, of several regions with the name the first.         *)

Last(S) == CHOOSE i \in S : \A j \in S : j <= i
First(S) == CHOOSE i \in S : \A j \in S : i <= j

\* max_key, the keys of a vector sized by it, and valid_key as its domain.
Places(table) == 0 .. Last({-1} \cup Keys(table))

LastNationByKey(table, nations) ==
  [k \in Places(table) |->
     LET written == {i \in DOMAIN table : table[i].key = k /\ table[i].nation \in nations}
     IN IF written = {} THEN None ELSE table[Last(written)].nation]

LastOrderNationByKey(orders, customers) ==
  [k \in Places(orders) |->
     LET written == {i \in DOMAIN orders : /\ orders[i].key = k /\ InDates(orders[i])
                                           /\ orders[i].customer \in DOMAIN customers}
     IN IF written = {} THEN None ELSE customers[orders[Last(written)].customer]]

PreparedPlanExists(d) == Named(d) # {} /\ d.region[First(Named(d))].key >= 0

PreparedPlan(d) ==
  LET nations == {n \in NationsOf(d, d.region[First(Named(d))].key) : n >= 0} IN
  [supplier |-> LastNationByKey(d.supplier, nations),
   order |-> LastOrderNationByKey(d.orders, LastNationByKey(d.customer, nations))]

-----------------------------------------------------------------------------
\* On every database it accepts, the Arrow plan relates lines to nations as
\* the query does: a line counts for a nation exactly if the query matches it
\* there, and the query matches it once (build_arrow_q5_plan, which checks
\* keys because a lookup, unlike a join, would keep one of two equal ones).
PlanIsTheQuery(d) ==
  PlanAccepts(d) =>
    \A l \in DOMAIN d.lineitem :
      LET nation == NationOfLine(d.lineitem[l], Plan(d)) IN
      /\ nation # None <=> \E m \in Matches(d) : m.line = l
      /\ \A m \in Matches(d) : m.line = l => d.nation[m.nation].key = nation
      /\ \A m, n \in Matches(d) : m.line = l /\ n.line = l => m = n
=============================================================================
