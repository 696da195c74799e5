-------------------------- MODULE HybridParts_proof --------------------------
(***************************************************************************)
(* Proofs about the parts of a hybrid session.                             *)
(*                                                                         *)
(* That the plan is the query: each lookup is restated as a sentence about *)
(* rows, and unique keys turn "some row" into "the row".                   *)
(*                                                                         *)
(* That the prediction is optimal: at the balance point both devices take  *)
(* the same time, and any other cut gives one of them more to do.          *)
(*                                                                         *)
(* That the slices tile the table: both loops over the batches are folds,  *)
(* so an invariant of what they have after k batches (the CPU's slices are *)
(* the rows up to the target, the GPU's those after it) holds at the end.  *)
(*                                                                         *)
(* That the results of a CUDA session are exact for every number of        *)
(* callers, every size and any number of failures, in each memory mode in  *)
(* which a failure after the launch is either impossible to survive or     *)
(* harmless: what the buffers hold and what the kernel still has to do add *)
(* up to the data set while a request waits.  From that, the session       *)
(* implements Q5Endpoint, as far as safety goes.                           *)
(***************************************************************************)
EXTENDS HybridParts, SequenceTheorems, TLAPS

\* Where keys are unique, the row of a row's key is that row.
LEMMA RowOfKey ==
  ASSUME NEW rows, Query!UniqueKeys(rows), NEW i \in DOMAIN rows
  PROVE  Query!RowOf(rows, rows[i].key) = rows[i]
BY DEF Query!UniqueKeys, Query!RowOf

\* A supplier or customer has a nation exactly if its row has one of the region.
LEMMA HomeLookup ==
  ASSUME NEW rows, Query!UniqueKeys(rows), NEW nations, None \notin nations,
         NEW k, NEW n, n # None
  PROVE  Query!Lookup(Query!NationByKey(rows, nations), k) = n <=>
           \E i \in DOMAIN rows : rows[i].key = k /\ rows[i].nation = n /\ n \in nations
<1> DEFINE map == Query!NationByKey(rows, nations)
<1>1. DOMAIN map = Query!Keys(rows)
  BY DEF Query!NationByKey
<1>2. CASE k \notin Query!Keys(rows)
  BY <1>1, <1>2 DEF Query!Lookup, Query!Keys
<1>3. CASE k \in Query!Keys(rows)
  <2>1. PICK i \in DOMAIN rows : rows[i].key = k
    BY <1>3 DEF Query!Keys
  <2>2. map[k] = IF rows[i].nation \in nations THEN rows[i].nation ELSE None
    BY <1>3, <2>1, RowOfKey DEF Query!NationByKey
  <2>3. \A j \in DOMAIN rows : rows[j].key = k => j = i
    BY <2>1 DEF Query!UniqueKeys
  <2> QED
    BY <1>1, <1>3, <2>1, <2>2, <2>3 DEF Query!Lookup
<1> QED
  BY <1>2, <1>3

\* An order has the nation of its customer if its date is in the year.
LEMMA OrderLookup ==
  ASSUME NEW orders, Query!UniqueKeys(orders), NEW customers, NEW k, NEW n, n # None
  PROVE  Query!Lookup(Query!OrderNationByKey(orders, customers), k) = n <=>
           \E i \in DOMAIN orders : /\ orders[i].key = k /\ Query!InDates(orders[i])
                                    /\ Query!Lookup(customers, orders[i].customer) = n
<1> DEFINE map == Query!OrderNationByKey(orders, customers)
<1>1. DOMAIN map = Query!Keys(orders)
  BY DEF Query!OrderNationByKey
<1>2. CASE k \notin Query!Keys(orders)
  BY <1>1, <1>2 DEF Query!Lookup, Query!Keys
<1>3. CASE k \in Query!Keys(orders)
  <2>1. PICK i \in DOMAIN orders : orders[i].key = k
    BY <1>3 DEF Query!Keys
  <2>2. map[k] = IF Query!InDates(orders[i]) THEN Query!Lookup(customers, orders[i].customer) ELSE None
    BY <1>3, <2>1, RowOfKey DEF Query!OrderNationByKey
  <2>3. \A j \in DOMAIN orders : orders[j].key = k => j = i
    BY <2>1 DEF Query!UniqueKeys
  <2>4. Query!Lookup(map, k) = map[k]
    BY <1>1, <1>3 DEF Query!Lookup
  <2>5. n = Query!Lookup(map, k) <=> Query!InDates(orders[i]) /\ Query!Lookup(customers, orders[i].customer) = n
    BY <2>2, <2>4
  <2> QED
    BY <2>1, <2>3, <2>5
<1> QED
  BY <1>2, <1>3

\* The Arrow plan answers the query, on every database it accepts: of which
\* sizes, keys and dates ever, provided that -1 is no key (build_arrow_q5_plan).
LEMMA PlanOfAnyDatabase ==
  ASSUME NEW d
  PROVE  Query!PlanIsTheQuery(d)
<1> SUFFICES ASSUME Query!PlanAccepts(d), NEW l \in DOMAIN d.lineitem
             PROVE  LET nation == Query!NationOfLine(d.lineitem[l], Query!Plan(d)) IN
                    /\ nation # None <=> \E m \in Query!Matches(d) : m.line = l
                    /\ \A m \in Query!Matches(d) : m.line = l => d.nation[m.nation].key = nation
                    /\ \A m, n \in Query!Matches(d) : m.line = l /\ n.line = l => m = n
  BY DEF Query!PlanIsTheQuery
<1> DEFINE line == d.lineitem[l]
           region == CHOOSE i \in Query!Named(d) : TRUE
           nations == Query!NationsOf(d, d.region[region].key)
           customers == Query!NationByKey(d.customer, nations)
           nation == Query!NationOfLine(line, Query!Plan(d))
\* The row numbers of the query that belong together, with the nation's key.
           Joined(o, c, s, n) ==
             /\ o \in DOMAIN d.orders /\ c \in DOMAIN d.customer /\ s \in DOMAIN d.supplier
             /\ d.orders[o].key = line.order /\ Query!InDates(d.orders[o])
             /\ d.customer[c].key = d.orders[o].customer /\ d.customer[c].nation = n
             /\ d.supplier[s].key = line.supplier /\ d.supplier[s].nation = n
             /\ n \in nations
<1>1. /\ Query!UniqueKeys(d.region) /\ Query!UniqueKeys(d.nation) /\ Query!UniqueKeys(d.supplier)
      /\ Query!UniqueKeys(d.customer) /\ Query!UniqueKeys(d.orders)
  BY DEF Query!PlanAccepts, Query!Indexable
<1>2. \A r \in DOMAIN d.region : d.region[r].name = Region <=> r = region
  BY DEF Query!PlanAccepts, Query!Named
<1>3. region \in DOMAIN d.region
  BY DEF Query!PlanAccepts, Query!Named
<1>4. None \notin nations
  BY NoneIsNoKey DEF Query!PlanAccepts, Query!Indexable, Query!Keys, Query!NationsOf
<1>5. \A n : n # None =>
        (nation = n <=> \E o, c, s : Joined(o, c, s, n))
  <2> SUFFICES ASSUME NEW n, n # None
               PROVE  nation = n <=> \E o, c, s : Joined(o, c, s, n)
    OBVIOUS
  <2>1. nation = n <=> /\ Query!Lookup(Query!Plan(d).order, line.order) = n
                       /\ Query!Lookup(Query!Plan(d).supplier, line.supplier) = n
    BY DEF Query!NationOfLine
  <2>2. Query!Plan(d).supplier = Query!NationByKey(d.supplier, nations)
        /\ Query!Plan(d).order = Query!OrderNationByKey(d.orders, customers)
    BY DEF Query!Plan
  <2>3. Query!Lookup(Query!Plan(d).supplier, line.supplier) = n <=>
          \E s \in DOMAIN d.supplier : /\ d.supplier[s].key = line.supplier
                                       /\ d.supplier[s].nation = n /\ n \in nations
    <3> HIDE DEF nations
    <3> QED
      BY <1>1, <1>4, <2>2, HomeLookup
  <2>4. Query!Lookup(Query!Plan(d).order, line.order) = n <=>
          \E o \in DOMAIN d.orders : /\ d.orders[o].key = line.order /\ Query!InDates(d.orders[o])
                                     /\ Query!Lookup(customers, d.orders[o].customer) = n
    <3> HIDE DEF customers
    <3>1. Query!Lookup(Query!OrderNationByKey(d.orders, customers), line.order) = n <=>
            \E o \in DOMAIN d.orders : /\ d.orders[o].key = line.order
                                       /\ Query!InDates(d.orders[o])
                                       /\ Query!Lookup(customers, d.orders[o].customer) = n
      BY <1>1, OrderLookup
    <3> QED
      BY <2>2, <3>1
  <2>5. \A k : Query!Lookup(customers, k) = n <=>
          \E c \in DOMAIN d.customer : /\ d.customer[c].key = k
                                       /\ d.customer[c].nation = n /\ n \in nations
    <3> HIDE DEF nations
    <3> QED
      BY <1>1, <1>4, HomeLookup
  <2> HIDE DEF nation, nations, customers, line
  <2> QED
    BY <2>1, <2>3, <2>4, <2>5
\* What the query matches are joined rows, with the rows of nation and region.
<1>6. \A m \in Query!Matches(d) : m.line = l =>
        /\ Joined(m.order, m.customer, m.supplier, d.nation[m.nation].key)
        /\ m.region = region /\ m.nation \in DOMAIN d.nation
  <2> SUFFICES ASSUME NEW m \in Query!Matches(d), m.line = l
               PROVE  /\ Joined(m.order, m.customer, m.supplier, d.nation[m.nation].key)
                      /\ m.region = region /\ m.nation \in DOMAIN d.nation
    OBVIOUS
  <2>1. m.region = region /\ m.nation \in DOMAIN d.nation
    BY <1>2 DEF Query!Matches
  <2>2. d.nation[m.nation].key \in nations
    BY <2>1 DEF Query!Matches, Query!NationsOf
  <2> HIDE DEF nations
  <2> QED
    BY <2>1, <2>2 DEF Query!Matches
<1>7. \A o, c, s, n : Joined(o, c, s, n) =>
        \E m \in Query!Matches(d) : m.line = l
  <2> SUFFICES ASSUME NEW o, NEW c, NEW s, NEW n, Joined(o, c, s, n)
               PROVE  \E m \in Query!Matches(d) : m.line = l
    OBVIOUS
  <2>1. PICK j \in DOMAIN d.nation : d.nation[j].key = n /\ d.nation[j].region = d.region[region].key
    BY DEF Query!NationsOf
  <2> DEFINE m == [line |-> l, order |-> o, customer |-> c, supplier |-> s, nation |-> j,
                   region |-> region]
  <2>2. d.region[region].name = Region
    BY <1>2, <1>3
  <2> HIDE DEF region
  <2>3. m \in Query!Matches(d)
    BY <1>3, <2>1, <2>2 DEF Query!Matches
  <2> QED
    BY <2>3
<1>8. \A m, n \in Query!Matches(d) : m.line = l /\ n.line = l => m = n
  <2> SUFFICES ASSUME NEW m \in Query!Matches(d), NEW n \in Query!Matches(d), m.line = l, n.line = l
               PROVE  m = n
    OBVIOUS
  <2>1. m.order = n.order /\ m.supplier = n.supplier
    BY <1>1 DEF Query!Matches, Query!UniqueKeys
  <2>2. m.customer = n.customer
    BY <1>1, <2>1 DEF Query!Matches, Query!UniqueKeys
  <2>3. m.nation = n.nation
    BY <1>1, <2>1 DEF Query!Matches, Query!UniqueKeys
  <2>4. m.region = n.region
    BY <1>6
  <2> QED
    BY <2>1, <2>2, <2>3, <2>4 DEF Query!Matches
<1>9. \A m \in Query!Matches(d) : m.line = l => d.nation[m.nation].key = nation
  <2> SUFFICES ASSUME NEW m \in Query!Matches(d), m.line = l
               PROVE  d.nation[m.nation].key = nation
    OBVIOUS
  <2>1. Joined(m.order, m.customer, m.supplier, d.nation[m.nation].key)
    BY <1>6
  <2>2. d.nation[m.nation].key # None
    BY <1>4, <2>1
  <2> HIDE DEF nation, Joined
  <2> QED
    BY <1>5, <2>1, <2>2
<1>10. nation # None <=> \E m \in Query!Matches(d) : m.line = l
  <2>1. nation # None => \E o, c, s : Joined(o, c, s, nation)
    <3> HIDE DEF nation, Joined
    <3> QED
      BY <1>5
  <2>2. \A m \in Query!Matches(d) : m.line = l => d.nation[m.nation].key # None
    <3> SUFFICES ASSUME NEW m \in Query!Matches(d), m.line = l
                 PROVE  d.nation[m.nation].key # None
      OBVIOUS
    <3> HIDE DEF nations
    <3> QED
      BY <1>4, <1>6
  <2> HIDE DEF nation, Joined
  <2> QED
    BY <1>7, <1>9, <2>1, <2>2
<1> QED
  BY <1>8, <1>9, <1>10
\* The Arrow plan answers the query, on every database it accepts: of whatever
\* sizes, keys and dates, as long as -1 is no key (build_arrow_q5_plan).
THEOREM PlanAnswersQuery ==
  (\A d : Query!PlanIsTheQuery(d)) /\ (PartsSpec => []PlanIsTheQuery)
<1>1. \A d : Query!PlanIsTheQuery(d)
  BY PlanOfAnyDatabase
<1>2. PlanIsTheQuery
  BY <1>1 DEF PlanIsTheQuery
<1> QED
  BY <1>1, <1>2, PTL

-----------------------------------------------------------------------------
(***************************************************************************)
(* The prediction.  Makespans are fractions of positive denominators.      *)
(***************************************************************************)
Fractions == Int \X (Nat \ {0})

\* To be at least as large is transitive.
LEMMA NotLessIsTransitive ==
  ASSUME NEW x \in Fractions, NEW y \in Fractions, NEW z \in Fractions,
         ~Plan!Less(y, x), ~Plan!Less(z, y)
  PROVE  ~Plan!Less(z, x)
<1> DEFINE a == x[1]  b == x[2]  c == y[1]  d == y[2]  e == z[1]  f == z[2]
<1>1. a \in Int /\ c \in Int /\ e \in Int
      /\ b \in Nat \ {0} /\ d \in Nat \ {0} /\ f \in Nat \ {0}
  BY DEF Fractions
<1>2. a * d <= c * b /\ c * f <= e * d
  BY <1>1 DEF Plan!Less
<1> HIDE DEF a, b, c, d, e, f
<1>3. (a * d) * f <= (c * b) * f
  BY <1>1, <1>2
<1>4. (c * f) * b <= (e * d) * b
  BY <1>1, <1>2
<1>5. d * (a * f) <= d * (e * b)
  BY <1>1, <1>3, <1>4
<1>6. a * f <= e * b
  BY <1>1, <1>5
<1> QED
  BY <1>1, <1>6 DEF Plan!Less, a, b, e, f
LEMMA NotLessIsReflexive ==
  ASSUME NEW x \in Fractions
  PROVE  ~Plan!Less(x, x)
BY DEF Fractions, Plan!Less

Times == [cpu : Int, kernel : Int, fixed : Int]
Cuts == {r \in Nat \X (Nat \ {0}) : r[1] <= r[2]}

\* The time of the GPU, in parts of the ratio's denominator.
GpuShare(cal, p, q) == IF p = q THEN 0 ELSE q * cal.fixed + (q - p) * cal.kernel

\* The makespan is the larger of the two shares.
LEMMA MakespanIsTheLarger ==
  ASSUME NEW cal \in Times, NEW p \in Nat, NEW q \in Nat \ {0}
  PROVE  LET m == Plan!Makespan(cal, <<p, q>>) IN
         /\ m \in Fractions /\ m[2] = q
         /\ m[1] >= p * cal.cpu /\ m[1] >= GpuShare(cal, p, q)
         /\ m[1] \in {p * cal.cpu, GpuShare(cal, p, q)}
<1> DEFINE a == p * cal.cpu  b == GpuShare(cal, p, q)
<1>1. cal.cpu \in Int /\ cal.kernel \in Int /\ cal.fixed \in Int
  BY DEF Times
<1>2. a \in Int
  BY <1>1
<1>3. b \in Int
  <2>1. q * cal.fixed \in Int /\ (q - p) * cal.kernel \in Int
    BY <1>1
  <2> QED
    BY <2>1 DEF GpuShare
<1>4. Plan!Makespan(cal, <<p, q>>) = <<Plan!Max({a, b}), q>>
  BY DEF Plan!Makespan, GpuShare
<1> HIDE DEF a, b
<1>5. \E x \in {a, b} : \A y \in {a, b} : x >= y
  BY <1>2, <1>3
<1>6. Plan!Max({a, b}) \in {a, b} /\ \A y \in {a, b} : Plan!Max({a, b}) >= y
  BY <1>5 DEF Plan!Max
<1>7. Plan!Max({a, b}) \in Int
  BY <1>2, <1>3, <1>6
<1> QED
  BY <1>4, <1>6, <1>7 DEF Fractions, a, b

\* The balance point lies at or below 1.
LEMMA BalancedIsACut ==
  ASSUME NEW cal \in Times, Plan!ValidCalibration(cal)
  PROVE  LET sum == cal.fixed + cal.kernel  whole == cal.cpu + cal.kernel IN
         /\ Plan!Balanced(cal) = <<IF sum <= whole THEN sum ELSE whole, whole>>
         /\ Plan!Balanced(cal) \in Cuts
<1> DEFINE sum == cal.fixed + cal.kernel  whole == cal.cpu + cal.kernel
<1>1. sum \in Nat /\ whole \in Nat \ {0}
  BY DEF Times, Plan!ValidCalibration
<1>2. Plan!Balanced(cal) = <<Plan!Min({sum, whole}), whole>>
  BY DEF Plan!Balanced
<1> HIDE DEF sum, whole
<1>3. \E x \in {sum, whole} : \A y \in {sum, whole} : x <= y
  BY <1>1
<1>4. Plan!Min({sum, whole}) = IF sum <= whole THEN sum ELSE whole
  BY <1>1, <1>3 DEF Plan!Min
<1> QED
  BY <1>1, <1>2, <1>4 DEF Cuts, sum, whole

\* Of two cuts the better one has a makespan no larger than either.
LEMMA BetterIsNotWorse ==
  ASSUME NEW cal \in Times, NEW r \in Cuts, NEW s \in Cuts
  PROVE  LET b == Plan!Better(cal, r, s) IN
         /\ b \in {r, s}
         /\ ~Plan!Less(Plan!Makespan(cal, r), Plan!Makespan(cal, b))
         /\ ~Plan!Less(Plan!Makespan(cal, s), Plan!Makespan(cal, b))
<1> DEFINE x == Plan!Makespan(cal, r)  y == Plan!Makespan(cal, s)
<1>1. r = <<r[1], r[2]>> /\ s = <<s[1], s[2]>>
      /\ r[1] \in Nat /\ s[1] \in Nat /\ r[2] \in Nat \ {0} /\ s[2] \in Nat \ {0}
  BY DEF Cuts
<1>2. x \in Fractions /\ y \in Fractions
  BY <1>1, MakespanIsTheLarger
<1>3. Plan!Better(cal, r, s) = IF Plan!Less(y, x) THEN s ELSE r
  BY DEF Plan!Better
<1> HIDE DEF x, y
<1>4. ~(Plan!Less(x, y) /\ Plan!Less(y, x))
  <2>1. x[1] \in Int /\ y[1] \in Int /\ x[2] \in Int /\ y[2] \in Int
    BY <1>2 DEF Fractions
  <2>2. x[1] * y[2] \in Int /\ y[1] * x[2] \in Int
    BY <2>1
  <2> QED
    BY <2>2 DEF Plan!Less
<1>5. ~Plan!Less(x, x) /\ ~Plan!Less(y, y)
  BY <1>2, NotLessIsReflexive
<1>6. CASE Plan!Less(y, x)
  BY <1>3, <1>4, <1>5, <1>6 DEF x, y
<1>7. CASE ~Plan!Less(y, x)
  BY <1>3, <1>5, <1>7 DEF x, y
<1> QED
  BY <1>6, <1>7
\* No split at all, of whatever denominator, beats the predicted one.  Where the
\* GPU's fixed cost is the larger, every split costs more than the CPU alone;
\* else the mean of the two shares, weighted by the other device's speed, is the
\* same for every split, and equal shares meet it.
LEMMA NoCutIsFaster ==
  ASSUME NEW cal \in Times, Plan!ValidCalibration(cal),
         NEW p \in Nat, NEW q \in Nat \ {0}, p <= q
  PROVE  ~Plan!Less(Plan!Makespan(cal, <<p, q>>), Plan!Makespan(cal, Plan!Predict(cal)))
<1> DEFINE C == cal.cpu  K == cal.kernel  F == cal.fixed
           m == Plan!Makespan(cal, <<p, q>>)
           one == Plan!Makespan(cal, <<1, 1>>)
           balanced == Plan!Makespan(cal, Plan!Balanced(cal))
           predicted == Plan!Makespan(cal, Plan!Predict(cal))
<1>1. C \in Nat /\ K \in Nat /\ F \in Nat /\ C > 0 /\ K > 0
  BY DEF Times, Plan!ValidCalibration
<1>2. m \in Fractions /\ m[2] = q /\ m[1] >= p * C /\ m[1] >= GpuShare(cal, p, q)
  BY MakespanIsTheLarger
<1>3. /\ one \in Fractions /\ balanced \in Fractions /\ predicted \in Fractions
      /\ ~Plan!Less(one, predicted) /\ ~Plan!Less(balanced, predicted)
  <2> DEFINE first == Plan!Better(cal, <<1, 1>>, <<0, 1>>)
             best == Plan!Better(cal, first, Plan!Balanced(cal))
  <2>1. <<1, 1>> \in Cuts /\ <<0, 1>> \in Cuts /\ Plan!Balanced(cal) \in Cuts
    BY BalancedIsACut DEF Cuts
  <2>2. first \in Cuts /\ ~Plan!Less(one, Plan!Makespan(cal, first))
    BY <2>1, BetterIsNotWorse
  <2>3. best \in Cuts /\ best = Plan!Predict(cal)
    BY <2>1, <2>2, BetterIsNotWorse DEF Plan!Predict
  <2> HIDE DEF first
  <2>4. /\ ~Plan!Less(Plan!Makespan(cal, first), Plan!Makespan(cal, best))
        /\ ~Plan!Less(balanced, Plan!Makespan(cal, best))
    BY <2>1, <2>2, BetterIsNotWorse
  <2>5. \A r \in Cuts : Plan!Makespan(cal, r) \in Fractions
    <3> TAKE r \in Cuts
    <3>1. r = <<r[1], r[2]>> /\ r[1] \in Nat /\ r[2] \in Nat \ {0}
      BY DEF Cuts
    <3> QED
      BY <3>1, MakespanIsTheLarger
  <2>6. /\ one \in Fractions /\ balanced \in Fractions
        /\ Plan!Makespan(cal, first) \in Fractions /\ Plan!Makespan(cal, best) \in Fractions
    BY <2>1, <2>2, <2>3, <2>5
  <2>7. predicted = Plan!Makespan(cal, best)
    BY <2>3
  <2> HIDE DEF best, one, balanced, predicted
  <2>8. ~Plan!Less(one, Plan!Makespan(cal, best))
    BY <2>2, <2>4, <2>6, NotLessIsTransitive
  <2> QED
    BY <2>4, <2>6, <2>7, <2>8
<1>4. one[1] = C /\ one[2] = 1
  <2>1. /\ one[2] = 1 /\ one[1] >= 1 * C
        /\ one[1] \in {1 * C, GpuShare(cal, 1, 1)}
    BY MakespanIsTheLarger
  <2> QED
    BY <1>1, <2>1 DEF GpuShare
<1> HIDE DEF m, one, balanced, predicted
<1>5. m[1] \in Int
  BY <1>2 DEF Fractions
<1>6. CASE p = q
  <2>1. m[1] * 1 >= C * q
    BY <1>1, <1>2, <1>5, <1>6
  <2>2. ~Plan!Less(m, one)
    BY <1>1, <1>2, <1>4, <1>5, <2>1 DEF Plan!Less
  <2> QED
    BY <1>2, <1>3, <2>2, NotLessIsTransitive DEF m, predicted
<1>7. CASE p # q /\ F > C
  <2>1. m[1] >= q * F + (q - p) * K
    BY <1>2, <1>7 DEF GpuShare
  <2>2. (q - p) * K \in Nat /\ q * F >= q * C
    BY <1>1, <1>7
  <2>3. q * F \in Int /\ q * C \in Int
    BY <1>1
  <2>4. m[1] * 1 >= C * q
    BY <1>5, <2>1, <2>2, <2>3, <1>1
  <2>5. ~Plan!Less(m, one)
    BY <1>1, <1>2, <1>4, <1>5, <2>4 DEF Plan!Less
  <2> QED
    BY <1>2, <1>3, <2>5, NotLessIsTransitive DEF m, predicted
<1>8. CASE p # q /\ F <= C
  <2>1. Plan!Balanced(cal) = <<F + K, C + K>>
    BY <1>1, <1>8, BalancedIsACut
  <2>2. /\ balanced[2] = C + K
        /\ balanced[1] \in {(F + K) * C, GpuShare(cal, F + K, C + K)}
    <3>1. F + K \in Nat /\ C + K \in Nat \ {0}
      BY <1>1
    <3> QED
      BY <2>1, <3>1, MakespanIsTheLarger DEF balanced
  <2>3. GpuShare(cal, F + K, C + K) <= (F + K) * C
    <3>1. (C + K) * F + ((C + K) - (F + K)) * K = (F + K) * C
      BY <1>1
    <3>2. 0 <= (F + K) * C
      BY <1>1
    <3> QED
      BY <1>1, <3>1, <3>2 DEF GpuShare
  <2>4. balanced[1] \in Int /\ balanced[1] <= (F + K) * C
    <3>1. balanced[1] \in Int
      BY <1>3 DEF Fractions
    <3> QED
      BY <1>1, <2>2, <2>3, <3>1
  <2>5. m[1] >= q * F + (q - p) * K
    BY <1>2, <1>8 DEF GpuShare
  <2>6. m[1] * (C + K) >= ((F + K) * C) * q
    <3>1. m[1] * K >= (p * C) * K
      BY <1>1, <1>2, <1>5
    <3>2. m[1] * C >= (q * F + (q - p) * K) * C
      BY <1>1, <1>5, <2>5
    <3>3. (p * C) * K + (q * F + (q - p) * K) * C = ((F + K) * C) * q
      BY <1>1
    <3>4. m[1] * (C + K) = m[1] * K + m[1] * C
      BY <1>1, <1>5
    <3> QED
      BY <1>1, <1>5, <3>1, <3>2, <3>3, <3>4
  <2>7. ((F + K) * C) * q >= balanced[1] * q
    BY <1>1, <2>4
  <2>8. m[1] * balanced[2] >= balanced[1] * m[2]
    BY <1>1, <1>2, <1>5, <2>2, <2>4, <2>6, <2>7
  <2>9. ~Plan!Less(m, balanced)
    BY <1>1, <1>2, <1>5, <2>2, <2>4, <2>8 DEF Plan!Less
  <2> QED
    BY <1>2, <1>3, <2>9, NotLessIsTransitive DEF m, predicted
<1>9. F > C \/ F <= C
  BY <1>1
<1> QED
  BY <1>6, <1>7, <1>8, <1>9

\* An automatic session that has come to its partition has predicted.
HasPredicted ==
  /\ selection = "auto" => calibration \in PlanCalibrations
  /\ selection = "auto" /\ status = "partition" =>
       Plan!ValidCalibration(calibration) /\ ratio = Plan!Predict(calibration)

\* The predicted ratio is optimal among all splits, for any measured times,
\* although only three ratios are ever compared (predict_hybrid_ratio).
THEOREM PredictionsAreOptimal == Plan!Spec => []PredictionIsOptimal
<1>1. Plan!Init => HasPredicted
  BY DEF Plan!Init, HasPredicted
<1>2. HasPredicted /\ [Plan!Next]_Plan!vars => HasPredicted'
  <2> SUFFICES ASSUME HasPredicted, [Plan!Next]_Plan!vars
               PROVE  HasPredicted'
    OBVIOUS
  <2>1. CASE Plan!PredictRatio
    BY <2>1 DEF HasPredicted, Plan!PredictRatio
  <2>2. CASE Plan!Partition
    BY <2>2 DEF HasPredicted, Plan!Partition
  <2>3. CASE UNCHANGED Plan!vars
    BY <2>3 DEF HasPredicted, Plan!vars
  <2> QED
    BY <2>1, <2>2, <2>3 DEF Plan!Next
<1>3. HasPredicted => PredictionIsOptimal
  <2> SUFFICES ASSUME HasPredicted, selection = "auto", status = "partition",
                      NEW q \in 1 .. 8, NEW p \in 0 .. q
               PROVE  ~Plan!Less(Plan!Makespan(calibration, <<p, q>>),
                                 Plan!Makespan(calibration, ratio))
    BY DEF PredictionIsOptimal, Plan!PredictionIsOptimal
  <2>1. calibration \in Times
    BY TimesAreNumbers DEF HasPredicted, Times
  <2> QED
    BY <2>1, NoCutIsFaster DEF HasPredicted
<1> QED
  BY <1>1, <1>2, <1>3, PTL DEF Plan!Spec

-----------------------------------------------------------------------------
\* The slices an executor is given: a batch, an offset in it and a length.
Positions == Nat \X Nat \X Nat

TotalFold == INSTANCE Folding WITH Op <- LAMBDA c, d, v, x : v + x
AddRows(c, rows, s) ==
  rows \o [k \in 1 .. s[3] |-> Plan!Total(SubSeq(c, 1, s[1] - 1)) + s[2] + k]
RowsFold == INSTANCE Folding WITH Op <- LAMBDA c, d, v, x : AddRows(c, v, x)
CutFold == INSTANCE Folding WITH Op <- LAMBDA c, d, v, x : Plan!Cut(c, v, x)
AssignFold == INSTANCE Folding WITH Op <- LAMBDA c, d, v, x : Plan!Assign(c, d, v, x)

\* Each loop is a fold whose step is an operator (see Folding).
LEMMA TotalIsFold == \A s : Plan!Total(s) = TotalFold!Fold(0, 0, 0, s)
BY DEF Plan!Total, TotalFold!Fold, Plan!FoldLeft, Plan!MapThenFoldSet, Plan!Max,
       TotalFold!FoldLeft, TotalFold!MapThenFoldSet, TotalFold!Max

LEMMA RowsOfIsFold == \A s : Plan!RowsOf(s) = RowsFold!Fold(lengths, 0, <<>>, s)
BY DEF Plan!RowsOf, RowsFold!Fold, Plan!FoldLeft, Plan!MapThenFoldSet, Plan!Max,
       RowsFold!FoldLeft, RowsFold!MapThenFoldSet, RowsFold!Max, AddRows

\* Rows before the batch after the first k.
Before(k) == Plan!Total(SubSeq(lengths, 1, k))

LEMMA TotalOfSequence ==
  /\ Plan!Total(<<>>) = 0
  /\ \A s \in Seq(Nat) : Plan!Total(s) \in Nat
  /\ \A s \in Seq(Nat), n \in Nat : Plan!Total(Append(s, n)) = Plan!Total(s) + n
<1>1. Plan!Total(<<>>) = 0
  BY TotalIsFold, TotalFold!FoldOfNothing
<1>2. ASSUME NEW s \in Seq(Nat) PROVE Plan!Total(s) \in Nat
  <2>1. 0 \in Nat /\ \A v \in Nat, x \in Nat : v + x \in Nat
    OBVIOUS
  <2>2. TotalFold!Fold(0, 0, 0, s) \in Nat
    BY <2>1, TotalFold!FoldClosed
  <2> QED
    BY <2>2, TotalIsFold
<1>3. ASSUME NEW s \in Seq(Nat), NEW n \in Nat
      PROVE  Plan!Total(Append(s, n)) = Plan!Total(s) + n
  <2>1. TotalFold!Fold(0, 0, 0, Append(s, n)) = TotalFold!Fold(0, 0, 0, s) + n
    BY TotalFold!FoldOfAppend
  <2> QED
    BY <2>1, TotalIsFold
<1> QED
  BY <1>1, <1>2, <1>3

LEMMA BeforeBatches ==
  ASSUME lengths \in Seq(Nat)
  PROVE  /\ Before(0) = 0
         /\ Before(Len(lengths)) = Plan!Total(lengths)
         /\ \A k \in 0 .. Len(lengths) : Before(k) \in Nat
         /\ \A k \in 1 .. Len(lengths) : Before(k) = Before(k - 1) + lengths[k]
<1>1. Before(0) = 0
  <2>1. SubSeq(lengths, 1, 0) = <<>>
    BY SubSeqEmpty
  <2> QED
    BY <2>1, TotalOfSequence DEF Before
<1>2. Before(Len(lengths)) = Plan!Total(lengths)
  BY SubSeqFull DEF Before
<1>3. ASSUME NEW k \in 0 .. Len(lengths) PROVE Before(k) \in Nat
  <2>1. SubSeq(lengths, 1, k) \in Seq(Nat)
    BY SubSeqProperties
  <2> QED
    BY <2>1, TotalOfSequence DEF Before
<1>4. ASSUME NEW k \in 1 .. Len(lengths) PROVE Before(k) = Before(k - 1) + lengths[k]
  <2>1. TotalFold!Fold(0, 0, 0, SubSeq(lengths, 1, k)) =
          TotalFold!Fold(0, 0, 0, SubSeq(lengths, 1, k - 1)) + lengths[k]
    BY TotalFold!FoldOfPrefix
  <2> QED
    BY <2>1, TotalIsFold DEF Before
<1> QED
  BY <1>1, <1>2, <1>3, <1>4

-----------------------------------------------------------------------------
\* The slices are the rows a + 1 .. b of the table, in order.
Tiles(slices, a, b) ==
  /\ slices \in Seq(Positions)
  /\ Plan!SliceRows(slices) = b - a
  /\ Plan!RowsOf(slices) = [k \in 1 .. b - a |-> a + k]

LEMMA NoSliceTiles ==
  ASSUME NEW a \in Nat
  PROVE  Tiles(<<>>, a, a)
<1>1. Plan!RowsOf(<<>>) = <<>>
  BY RowsOfIsFold, RowsFold!FoldOfNothing
<1>2. [k \in 1 .. a - a |-> a + k] = <<>>
  OBVIOUS
<1>3. [i \in DOMAIN <<>> |-> <<>>[i][3]] = <<>>
  OBVIOUS
<1>4. Plan!SliceRows(<<>>) = 0
  BY <1>3, TotalOfSequence DEF Plan!SliceRows
<1> QED
  BY <1>1, <1>2, <1>4 DEF Tiles

LEMMA TilesNothing ==
  ASSUME NEW slices, NEW a \in Nat, NEW b \in Nat, Tiles(slices, a, a)
  PROVE  Tiles(slices, b, b)
<1>1. [k \in 1 .. a - a |-> a + k] = [k \in 1 .. b - b |-> b + k]
  OBVIOUS
<1> QED
  BY <1>1 DEF Tiles

LEMMA RowsOfAppend ==
  ASSUME NEW slices \in Seq(Positions), NEW s \in Positions
  PROVE  Plan!RowsOf(Append(slices, s)) =
           Plan!RowsOf(slices) \o [k \in 1 .. s[3] |-> Before(s[1] - 1) + s[2] + k]
<1>1. RowsFold!Fold(lengths, 0, <<>>, Append(slices, s)) =
        AddRows(lengths, RowsFold!Fold(lengths, 0, <<>>, slices), s)
  BY RowsFold!FoldOfAppend
<1> QED
  BY <1>1, RowsOfIsFold DEF Before, AddRows

LEMMA SliceRowsOfAppend ==
  ASSUME NEW slices \in Seq(Positions), NEW s \in Positions
  PROVE  Plan!SliceRows(Append(slices, s)) = Plan!SliceRows(slices) + s[3]
<1> DEFINE third(r) == [i \in DOMAIN r |-> r[i][3]]
           longer == Append(slices, s)
<1>1. third(slices) \in Seq(Nat) /\ Len(third(slices)) = Len(slices) /\ s[3] \in Nat
  <2>1. Len(slices) \in Nat /\ DOMAIN slices = 1 .. Len(slices)
    OBVIOUS
  <2>2. \A i \in 1 .. Len(slices) : slices[i][3] \in Nat
    BY <2>1 DEF Positions
  <2>3. s[3] \in Nat
    BY DEF Positions
  <2> QED
    BY <2>1, <2>2, <2>3
<1>2. /\ longer \in Seq(Positions) /\ Len(longer) = Len(slices) + 1
      /\ \A i \in 1 .. Len(slices) : longer[i] = slices[i]
      /\ longer[Len(slices) + 1] = s
  BY AppendProperties
<1>3. third(longer) \in Seq(Nat) /\ Len(third(longer)) = Len(slices) + 1
  <2>1. Len(longer) \in Nat /\ DOMAIN longer = 1 .. Len(longer)
    BY <1>2
  <2>2. \A i \in 1 .. Len(longer) : longer[i] \in Positions
    BY <1>2, <2>1
  <2>3. \A x \in Positions : x[3] \in Nat
    BY DEF Positions
  <2> HIDE DEF longer
  <2>4. third(longer) = [i \in 1 .. Len(longer) |-> longer[i][3]]
    BY <2>1
  <2> QED
    BY <1>2, <2>1, <2>2, <2>3, <2>4
<1>4. \A i \in 1 .. Len(slices) + 1 :
        third(longer)[i] = IF i <= Len(slices) THEN third(slices)[i] ELSE s[3]
  BY <1>2
<1>5. third(longer) = Append(third(slices), s[3])
  <2> DEFINE a == third(longer)  b == Append(third(slices), s[3])
  <2> HIDE DEF third, longer
  <2>1. b \in Seq(Nat) /\ Len(b) = Len(slices) + 1
        /\ (\A i \in 1 .. Len(slices) : b[i] = third(slices)[i]) /\ b[Len(slices) + 1] = s[3]
    BY <1>1, AppendProperties
  <2>2. Len(slices) \in Nat /\ Len(a) = Len(b)
    BY <1>3, <2>1
  <2>3. \A i \in 1 .. Len(a) : a[i] = b[i]
    BY <1>3, <1>4, <2>1, <2>2
  <2> HIDE DEF a, b
  <2>4. a \in Seq(Nat)
    BY <1>3 DEF a
  <2>5. a = b
    BY <2>1, <2>2, <2>3, <2>4, SeqEqual
  <2> QED
    BY <2>5 DEF a, b
<1>6. Plan!SliceRows(longer) = Plan!Total(third(longer))
      /\ Plan!SliceRows(slices) = Plan!Total(third(slices))
  BY DEF Plan!SliceRows
<1> HIDE DEF third
<1> QED
  BY <1>1, <1>5, <1>6, TotalOfSequence

\* A slice that starts where the others end takes them further.
LEMMA TilesAppend ==
  ASSUME lengths \in Seq(Nat), NEW slices, NEW a \in Nat, NEW b \in Nat, a <= b,
         Tiles(slices, a, b), NEW i \in 1 .. Len(lengths), NEW offset \in Nat,
         NEW length \in Nat, length = 0 \/ Before(i - 1) + offset = b
  PROVE  Tiles(Plan!AppendSlice(slices, i, offset, length), a, b + length)
<1>1. CASE length = 0
  BY <1>1 DEF Plan!AppendSlice, Tiles
<1>2. CASE length > 0
  <2> DEFINE s == <<i, offset, length>>
             new == [k \in 1 .. length |-> b + k]
             old == [k \in 1 .. b - a |-> a + k]
  <2>1. s \in Positions /\ s[1] = i /\ s[2] = offset /\ s[3] = length
    BY DEF Positions
  <2>2. Plan!AppendSlice(slices, i, offset, length) = Append(slices, s)
    BY <1>2 DEF Plan!AppendSlice
  <2>3. slices \in Seq(Positions) /\ Append(slices, s) \in Seq(Positions)
    BY <2>1, AppendProperties DEF Tiles
  <2>4. Plan!SliceRows(Append(slices, s)) = b + length - a
    BY <2>1, <2>3, SliceRowsOfAppend DEF Tiles
  <2>5. Plan!RowsOf(Append(slices, s)) = old \o new
    <3>1. Before(i - 1) + offset = b
      BY <1>2
    <3>2. Plan!RowsOf(slices) = old
      BY DEF Tiles
    <3> HIDE DEF s, old
    <3>3. Plan!RowsOf(Append(slices, s)) =
            old \o [k \in 1 .. length |-> Before(i - 1) + offset + k]
      BY <2>1, <2>3, <3>2, RowsOfAppend
    <3> QED
      BY <3>1, <3>3
  <2>6. old \in Seq(Nat) /\ Len(old) = b - a /\ new \in Seq(Nat) /\ Len(new) = length
    OBVIOUS
  <2>7. old \o new = [k \in 1 .. b + length - a |-> a + k]
    <3> DEFINE all == [k \in 1 .. b + length - a |-> a + k]
    <3>1. all \in Seq(Nat) /\ Len(all) = b + length - a
      OBVIOUS
    <3>2. \A k \in 1 .. Len(old) + Len(new) :
            (old \o new)[k] = IF k <= Len(old) THEN old[k] ELSE new[k - Len(old)]
      BY <2>6, ConcatProperties
    <3>3. old \o new \in Seq(Nat) /\ Len(old \o new) = b + length - a
      BY <2>6, ConcatProperties
    <3>4. \A k \in 1 .. b - a : old[k] = a + k
      OBVIOUS
    <3>5. \A k \in b - a + 1 .. b + length - a : new[k - (b - a)] = a + k
      OBVIOUS
    <3>6. \A k \in 1 .. b + length - a : all[k] = a + k
      OBVIOUS
    <3> HIDE DEF old, new, all
    <3>7. \A k \in 1 .. b + length - a : (old \o new)[k] = all[k]
      <4> SUFFICES ASSUME NEW k \in 1 .. b + length - a PROVE (old \o new)[k] = all[k]
        OBVIOUS
      <4>1. k \in 1 .. Len(old) + Len(new) /\ Len(old) = b - a
        BY <2>6
      <4>2. (old \o new)[k] = IF k <= b - a THEN old[k] ELSE new[k - (b - a)]
        BY <3>2, <4>1
      <4>3. CASE k <= b - a
        BY <3>4, <3>6, <4>2, <4>3
      <4>4. CASE ~(k <= b - a)
        BY <3>5, <3>6, <4>2, <4>4
      <4> QED
        BY <4>3, <4>4
    <3> QED
      BY <3>1, <3>3, <3>7, SeqEqual DEF all
  <2> HIDE DEF s, old, new
  <2> QED
    BY <2>2, <2>3, <2>4, <2>5, <2>7 DEF Tiles
<1> QED
  BY <1>1, <1>2

-----------------------------------------------------------------------------
LEMMA CutIsFold ==
  \A target : CutFold!Fold(lengths, 0, [cpu |-> <<>>, gpu |-> <<>>, remaining |-> target],
                           Plan!Indices(lengths)) =
                Plan!FoldLeft(LAMBDA p, i : Plan!Cut(lengths, p, i),
                              [cpu |-> <<>>, gpu |-> <<>>, remaining |-> target],
                              Plan!Indices(lengths))
BY DEF CutFold!Fold, Plan!FoldLeft, Plan!MapThenFoldSet, Plan!Max,
       CutFold!FoldLeft, CutFold!MapThenFoldSet, CutFold!Max

LEMMA IndicesOfBatches ==
  ASSUME lengths \in Seq(Nat)
  PROVE  /\ Plan!Indices(lengths) \in Seq(Nat)
         /\ Len(Plan!Indices(lengths)) = Len(lengths)
         /\ \A i \in 1 .. Len(lengths) : Plan!Indices(lengths)[i] = i
BY DEF Plan!Indices

\* What partition_batch_lengths has after k batches, with target rows for the
\* CPU: its slices end at the target, or at the rows so far, and the GPU's start there.
CutAfter(k, p, target) ==
  LET c == IF Before(k) <= target THEN Before(k) ELSE target IN
  /\ p = [cpu |-> p.cpu, gpu |-> p.gpu, remaining |-> target - c]
  /\ Tiles(p.cpu, 0, c)
  /\ Tiles(p.gpu, c, Before(k))

LEMMA CutStep ==
  ASSUME lengths \in Seq(Nat), NEW target \in Nat, NEW k \in 1 .. Len(lengths), NEW p,
         CutAfter(k - 1, p, target)
  PROVE  CutAfter(k, Plan!Cut(lengths, p, k), target)
<1> DEFINE b == Before(k - 1)
           n == lengths[k]
           c == IF b <= target THEN b ELSE target
           e == IF b + n <= target THEN b + n ELSE target
           cut == Plan!Min({target - c, n})
<1>1. b \in Nat /\ n \in Nat /\ Before(k) = b + n
  BY BeforeBatches
<1>2. c \in Nat /\ e \in Nat /\ c <= b /\ e <= b + n /\ c <= e
  BY <1>1
<1>3. cut = e - c
  <2> DEFINE m == target - c
  <2>1. m \in Nat
    BY <1>1
  <2> HIDE DEF m
  <2>2. \E x \in {m, n} : \A y \in {m, n} : x <= y
    BY <1>1, <2>1
  <2>3. Plan!Min({m, n}) = IF m <= n THEN m ELSE n
    BY <1>1, <2>1, <2>2 DEF Plan!Min
  <2>4. m = target - c
    BY DEF m
  <2>5. (IF m <= n THEN m ELSE n) = e - c
    <3> HIDE DEF b, n
    <3>1. CASE b <= target
      BY <1>1, <2>4, <3>1
    <3>2. CASE ~(b <= target)
      BY <1>1, <2>4, <3>2
    <3> QED
      BY <3>1, <3>2
  <2>6. cut = Plan!Min({m, n})
    BY DEF m
  <2> HIDE DEF b, n, c, e, cut
  <2> QED
    BY <2>3, <2>5, <2>6
<1>4. /\ p = [cpu |-> p.cpu, gpu |-> p.gpu, remaining |-> target - c]
      /\ Tiles(p.cpu, 0, c) /\ Tiles(p.gpu, c, b)
  BY DEF CutAfter
<1> DEFINE cpu == Plan!AppendSlice(p.cpu, k, 0, cut)
           gpu == Plan!AppendSlice(p.gpu, k, cut, n - cut)
<1>5. Plan!Cut(lengths, p, k) = [cpu |-> cpu, gpu |-> gpu, remaining |-> target - e]
  <2>1. p.remaining = target - c
    BY <1>4
  <2>2. Plan!Cut(lengths, p, k) =
          [p EXCEPT !.remaining = target - c - cut, !.cpu = cpu, !.gpu = gpu]
    BY <2>1 DEF Plan!Cut
  <2>3. target - c - cut = target - e
    BY <1>2, <1>3
  <2> HIDE DEF cpu, gpu, c, e, cut
  <2> QED
    BY <1>4, <2>2, <2>3
<1> HIDE DEF b, n, cut
<1>6. Tiles(cpu, 0, e)
  <2>1. e - c \in Nat /\ (e - c = 0 \/ Before(k - 1) + 0 = c)
    BY <1>1, <1>2 DEF b
  <2> HIDE DEF c, e
  <2>2. Tiles(Plan!AppendSlice(p.cpu, k, 0, e - c), 0, c + (e - c))
    BY <1>2, <1>4, <2>1, TilesAppend
  <2> QED
    BY <1>2, <1>3, <2>2
<1>7. Tiles(gpu, e, b + n)
  <2>1. Tiles(p.gpu, e, b + (e - c))
    <3>1. CASE c = e
      BY <1>1, <1>2, <1>4, <3>1
    <3>2. CASE c # e
      <4>1. c = b /\ b + (e - c) = e
        BY <1>1, <1>2, <3>2
      <4>2. Tiles(p.gpu, b, b)
        BY <1>4, <4>1
      <4> HIDE DEF c, e
      <4>3. Tiles(p.gpu, e, e)
        BY <1>1, <1>2, <4>2, TilesNothing
      <4> QED
        BY <4>1, <4>3
    <3> QED
      BY <3>1, <3>2
  <2>2. e - c \in Nat /\ n - (e - c) \in Nat /\ b + (e - c) \in Nat
        /\ e <= b + (e - c) /\ (b + (e - c)) + (n - (e - c)) = b + n
        /\ Before(k - 1) + (e - c) = b + (e - c)
    <3>1. b = Before(k - 1)
      BY DEF b
    <3>2. b \in Int /\ n \in Int /\ c \in Int /\ e \in Int /\ c <= b /\ e <= b + n /\ c <= e
      BY <1>1, <1>2
    <3>3. e - c <= n
      <4>1. CASE b <= target
        BY <1>1, <4>1
      <4>2. CASE ~(b <= target)
        BY <1>1, <4>2
      <4> QED
        BY <4>1, <4>2
    <3> HIDE DEF b, n, c, e
    <3>4. e - c \in Nat /\ n - (e - c) \in Nat /\ b + (e - c) \in Nat /\ e <= b + (e - c)
      BY <1>1, <3>2, <3>3
    <3>5. (b + (e - c)) + (n - (e - c)) = b + n
      BY <3>2
    <3> QED
      BY <3>1, <3>4, <3>5
  <2> HIDE DEF c, e
  <2>3. Tiles(Plan!AppendSlice(p.gpu, k, e - c, n - (e - c)), e,
              (b + (e - c)) + (n - (e - c)))
    BY <1>2, <2>1, <2>2, TilesAppend
  <2> QED
    BY <1>3, <2>2, <2>3
<1> HIDE DEF cpu, gpu
<1>8. e = IF Before(k) <= target THEN Before(k) ELSE target
  BY <1>1
<1> HIDE DEF e
<1> QED
  BY <1>1, <1>5, <1>6, <1>7, <1>8 DEF CutAfter

LEMMA ProductIsNatural ==
  ASSUME NEW a \in Nat, NEW b \in Nat
  PROVE  a * b \in Nat
OBVIOUS

LEMMA QuotientIsNatural ==
  ASSUME NEW a \in Nat, NEW b \in Nat \ {0}
  PROVE  a \div b \in Nat
OBVIOUS

\* partition_batch_lengths tiles the table.
LEMMA CutTiles ==
  ASSUME lengths \in Seq(Nat), NEW r \in Nat \X (Nat \ {0})
  PROVE  LET p == Plan!PartitionByRatio(lengths, r) IN
         \E c \in 0 .. Plan!Total(lengths) :
           Tiles(p.cpu, 0, c) /\ Tiles(p.gpu, c, Plan!Total(lengths)) /\ p.cpuRows = c
<1> DEFINE target == Plan!CpuTarget(lengths, r)
           total == Plan!Total(lengths)
           base == [cpu |-> <<>>, gpu |-> <<>>, remaining |-> target]
           cut == CutFold!Fold(lengths, 0, base, Plan!Indices(lengths))
           Values == [cpu : Seq(Positions), gpu : Seq(Positions), remaining : Int]
           I == {x \in Nat \X Values : CutAfter(x[1], x[2], target)}
<1>1. total \in Nat
  BY TotalOfSequence
<1>2. target \in Nat
  <2> DEFINE a == 2 * total * r[1] + r[2]  b == 2 * r[2]
  <2>1. r[1] \in Nat /\ r[2] \in Nat \ {0}
    OBVIOUS
  <2>2. 2 * total * r[1] \in Nat
    <3>1. 2 * total \in Nat
      BY <1>1
    <3> QED
      BY <2>1, <3>1, ProductIsNatural
  <2>3. a \in Nat /\ b \in Nat \ {0}
    BY <2>1, <2>2
  <2>4. target = a \div b
    BY DEF Plan!CpuTarget
  <2> HIDE DEF a, b, target
  <2> QED
    BY <2>3, <2>4, QuotientIsNatural
<1> HIDE DEF target
<1>3. <<0, base>> \in I
  <2>1. Before(0) = 0 /\ Tiles(<<>>, 0, 0)
    BY BeforeBatches, NoSliceTiles
  <2>2. base \in Values
    BY <1>2
  <2>3. CutAfter(0, base, target)
    BY <1>2, <2>1 DEF CutAfter
  <2> QED
    BY <2>2, <2>3
<1>4. ASSUME NEW k \in 1 .. Len(lengths), NEW v, <<k - 1, v>> \in I
      PROVE  <<k, Plan!Cut(lengths, v, k)>> \in I
  <2>1. CutAfter(k - 1, v, target) /\ k \in Nat
    BY <1>4
  <2>2. CutAfter(k, Plan!Cut(lengths, v, k), target)
    BY <1>2, <2>1, CutStep
  <2>3. \A w : CutAfter(k, w, target) => w \in Values
    <3>1. Before(k) \in Nat
      BY BeforeBatches
    <3> QED
      BY <1>2, <3>1 DEF CutAfter, Tiles
  <2> QED
    BY <2>1, <2>2, <2>3
<1>5. <<Len(lengths), cut>> \in I
  <2> HIDE DEF I, base
  <2>1. \A k \in 1 .. Len(Plan!Indices(lengths)) : \A v :
          <<k - 1, v>> \in I => <<k, Plan!Cut(lengths, v, Plan!Indices(lengths)[k])>> \in I
    BY <1>4, IndicesOfBatches
  <2>2. <<Len(Plan!Indices(lengths)), cut>> \in I
    BY <1>3, <2>1, IndicesOfBatches, CutFold!FoldInduction
  <2> QED
    BY <2>2, IndicesOfBatches
<1>6. CutAfter(Len(lengths), cut, target)
  <2> HIDE DEF cut
  <2> QED
    BY <1>5
<1>7. /\ Plan!PartitionByRatio(lengths, r).cpu = cut.cpu
      /\ Plan!PartitionByRatio(lengths, r).gpu = cut.gpu
      /\ Plan!PartitionByRatio(lengths, r).cpuRows = Plan!SliceRows(cut.cpu)
  BY CutIsFold DEF Plan!PartitionByRatio, target
<1> DEFINE c == IF total <= target THEN total ELSE target
<1>8. Tiles(cut.cpu, 0, c) /\ Tiles(cut.gpu, c, total)
  <2> HIDE DEF cut
  <2> QED
    BY <1>6, BeforeBatches DEF CutAfter
<1>9. c \in 0 .. total /\ Plan!SliceRows(cut.cpu) = c - 0
  BY <1>1, <1>2, <1>8 DEF Tiles
<1> HIDE DEF cut, c, total
<1> QED
  BY <1>7, <1>8, <1>9 DEF total, c

-----------------------------------------------------------------------------
LEMMA AssignIsFold ==
  ASSUME NEW r
  PROVE  Plan!PartitionAtBoundary(lengths, r) =
           AssignFold!Fold(lengths, Plan!NearestBoundary(lengths, r),
                           [cpu |-> <<>>, gpu |-> <<>>, cpuRows |-> 0, gpuRows |-> 0],
                           Plan!Indices(lengths))
BY DEF Plan!PartitionAtBoundary, AssignFold!Fold, Plan!FoldLeft, Plan!MapThenFoldSet, Plan!Max,
       AssignFold!FoldLeft, AssignFold!MapThenFoldSet, AssignFold!Max

\* What partition_batch_lengths_at_boundary has after k batches: the GPU has
\* rows only once the boundary is reached.
AssignedAfter(k, p, boundary) ==
  /\ p = [cpu |-> p.cpu, gpu |-> p.gpu, cpuRows |-> p.cpuRows, gpuRows |-> p.gpuRows]
  /\ p.cpuRows \in 0 .. Before(k)
  /\ p.gpuRows = Before(k) - p.cpuRows
  /\ p.gpuRows > 0 => ~(p.cpuRows < boundary)
  /\ Tiles(p.cpu, 0, p.cpuRows)
  /\ Tiles(p.gpu, p.cpuRows, Before(k))

LEMMA AssignStep ==
  ASSUME lengths \in Seq(Nat), NEW boundary, NEW k \in 1 .. Len(lengths), NEW p,
         AssignedAfter(k - 1, p, boundary)
  PROVE  AssignedAfter(k, Plan!Assign(lengths, boundary, p, k), boundary)
<1> DEFINE b == Before(k - 1)
           n == lengths[k]
           q == Plan!Assign(lengths, boundary, p, k)
<1>1. b \in Nat /\ n \in Nat /\ Before(k) = b + n
  BY BeforeBatches
<1>2. p.cpuRows \in Nat /\ p.cpuRows <= b /\ p.gpuRows = b - p.cpuRows
  BY <1>1 DEF AssignedAfter
<1>3. CASE p.cpuRows < boundary
  <2> DEFINE cpu == Plan!AppendSlice(p.cpu, k, 0, n)
  <2>1. p.cpuRows = b /\ p.gpuRows = 0
    BY <1>1, <1>2, <1>3 DEF AssignedAfter
  <2>2. q = [p EXCEPT !.cpu = cpu, !.cpuRows = b + n]
    BY <1>3, <2>1 DEF Plan!Assign
  <2>3. Tiles(cpu, 0, b + n)
    <3>1. Tiles(p.cpu, 0, b) /\ 0 \in Nat /\ 0 <= b /\ Before(k - 1) + 0 = b
      BY <1>1, <2>1 DEF AssignedAfter
    <3> HIDE DEF b, n
    <3> QED
      BY <1>1, <3>1, TilesAppend
  <2>4. Tiles(p.gpu, b + n, b + n)
    <3>1. Tiles(p.gpu, b, b)
      BY <2>1 DEF AssignedAfter
    <3> HIDE DEF b, n
    <3> QED
      BY <1>1, <3>1, TilesNothing
  <2> HIDE DEF cpu, b, n
  <2>5. q = [cpu |-> cpu, gpu |-> p.gpu, cpuRows |-> b + n, gpuRows |-> 0]
    BY <2>1, <2>2 DEF AssignedAfter
  <2> HIDE DEF q
  <2> QED
    BY <1>1, <2>3, <2>4, <2>5 DEF AssignedAfter, q
<1>4. CASE ~(p.cpuRows < boundary)
  <2> DEFINE gpu == Plan!AppendSlice(p.gpu, k, 0, n)
  <2>1. q = [p EXCEPT !.gpu = gpu, !.gpuRows = (b - p.cpuRows) + n]
    BY <1>2, <1>4 DEF Plan!Assign
  <2>2. Tiles(gpu, p.cpuRows, b + n)
    <3>1. Tiles(p.gpu, p.cpuRows, b) /\ 0 \in Nat /\ Before(k - 1) + 0 = b
      BY <1>1, <1>2 DEF AssignedAfter
    <3> HIDE DEF b, n
    <3> QED
      BY <1>1, <1>2, <3>1, TilesAppend
  <2> HIDE DEF gpu, b, n
  <2>3. q = [cpu |-> p.cpu, gpu |-> gpu, cpuRows |-> p.cpuRows, gpuRows |-> (b - p.cpuRows) + n]
    BY <2>1 DEF AssignedAfter
  <2>4. Tiles(p.cpu, 0, p.cpuRows)
    BY DEF AssignedAfter
  <2> HIDE DEF q
  <2> QED
    BY <1>1, <1>2, <1>4, <2>2, <2>3, <2>4 DEF AssignedAfter, q
<1> QED
  BY <1>3, <1>4

\* partition_batch_lengths_at_boundary tiles the table.
LEMMA AssignTiles ==
  ASSUME lengths \in Seq(Nat), NEW r
  PROVE  LET p == Plan!PartitionAtBoundary(lengths, r) IN
         \E c \in 0 .. Plan!Total(lengths) :
           Tiles(p.cpu, 0, c) /\ Tiles(p.gpu, c, Plan!Total(lengths)) /\ p.cpuRows = c
<1> DEFINE boundary == Plan!NearestBoundary(lengths, r)
           base == [cpu |-> <<>>, gpu |-> <<>>, cpuRows |-> 0, gpuRows |-> 0]
           p == AssignFold!Fold(lengths, boundary, base, Plan!Indices(lengths))
           Values == [cpu : Seq(Positions), gpu : Seq(Positions), cpuRows : Int, gpuRows : Int]
           I == {x \in Nat \X Values : AssignedAfter(x[1], x[2], boundary)}
<1> HIDE DEF boundary
<1>1. <<0, base>> \in I
  <2>1. Before(0) = 0 /\ Tiles(<<>>, 0, 0)
    BY BeforeBatches, NoSliceTiles
  <2>2. base \in Values
    OBVIOUS
  <2>3. AssignedAfter(0, base, boundary)
    BY <2>1 DEF AssignedAfter
  <2> QED
    BY <2>2, <2>3
<1>2. ASSUME NEW k \in 1 .. Len(lengths), NEW v, <<k - 1, v>> \in I
      PROVE  <<k, Plan!Assign(lengths, boundary, v, k)>> \in I
  <2>1. AssignedAfter(k - 1, v, boundary) /\ k \in Nat
    BY <1>2
  <2>2. AssignedAfter(k, Plan!Assign(lengths, boundary, v, k), boundary)
    BY <2>1, AssignStep
  <2>3. \A w : AssignedAfter(k, w, boundary) => w \in Values
    <3>1. Before(k) \in Nat
      BY BeforeBatches
    <3> QED
      BY <3>1 DEF AssignedAfter, Tiles
  <2> QED
    BY <2>1, <2>2, <2>3
<1>3. <<Len(lengths), p>> \in I
  <2> HIDE DEF I, base
  <2>1. \A k \in 1 .. Len(Plan!Indices(lengths)) : \A v :
          <<k - 1, v>> \in I
            => <<k, Plan!Assign(lengths, boundary, v, Plan!Indices(lengths)[k])>> \in I
    BY <1>2, IndicesOfBatches
  <2>2. <<Len(Plan!Indices(lengths)), p>> \in I
    BY <1>1, <2>1, IndicesOfBatches, AssignFold!FoldInduction
  <2> QED
    BY <2>2, IndicesOfBatches
<1>4. AssignedAfter(Len(lengths), p, boundary)
  <2> HIDE DEF p
  <2> QED
    BY <1>3
<1>5. Plan!PartitionAtBoundary(lengths, r) = p
  BY AssignIsFold DEF boundary
<1> HIDE DEF p
<1> QED
  BY <1>4, <1>5, BeforeBatches DEF AssignedAfter

\* Slices that tile the two sides of a cut tile the table.
LEMMA TilesJoin ==
  ASSUME NEW total \in Nat, NEW c \in 0 .. total, NEW cpu, NEW gpu,
         Tiles(cpu, 0, c), Tiles(gpu, c, total)
  PROVE  /\ Plan!RowsOf(cpu) = [k \in 1 .. c |-> k]
         /\ Plan!RowsOf(cpu) \o Plan!RowsOf(gpu) = [k \in 1 .. total |-> k]
<1> DEFINE old == [k \in 1 .. c |-> k]
           new == [k \in 1 .. total - c |-> c + k]
           all == [k \in 1 .. total |-> k]
<1>1. Plan!RowsOf(cpu) = old
  <2>1. [k \in 1 .. c - 0 |-> 0 + k] = old
    OBVIOUS
  <2> QED
    BY <2>1 DEF Tiles
<1>2. Plan!RowsOf(gpu) = new
  BY DEF Tiles
<1>3. old \in Seq(Nat) /\ new \in Seq(Nat) /\ Len(old) = c /\ Len(new) = total - c
      /\ all \in Seq(Nat) /\ Len(all) = total
  OBVIOUS
<1>4. /\ \A k \in 1 .. c : old[k] = k
      /\ \A k \in 1 .. total - c : new[k] = c + k
      /\ \A k \in 1 .. total : all[k] = k
  OBVIOUS
<1> HIDE DEF old, new, all
<1>5. /\ old \o new \in Seq(Nat) /\ Len(old \o new) = total
      /\ \A k \in 1 .. total :
           (old \o new)[k] = IF k <= c THEN old[k] ELSE new[k - c]
  <2>1. Len(old) + Len(new) = total
    BY <1>3
  <2>2. /\ old \o new \in Seq(Nat) /\ Len(old \o new) = Len(old) + Len(new)
        /\ \A k \in 1 .. Len(old) + Len(new) :
             (old \o new)[k] = IF k <= Len(old) THEN old[k] ELSE new[k - Len(old)]
    BY <1>3, ConcatProperties
  <2> QED
    BY <1>3, <2>1, <2>2
<1>6. \A k \in 1 .. total : (old \o new)[k] = all[k]
  BY <1>4, <1>5
<1>7. old \o new = all
  BY <1>3, <1>5, <1>6, SeqEqual
<1> QED
  BY <1>1, <1>2, <1>7 DEF old, all

PlanIsSound ==
  /\ lengths \in Seq(Nat)
  /\ selection \in {"fixed", "auto"}
  /\ status = "choose" => selection = "auto"
  /\ selection = "fixed" => ratio \in PlanRatios
  /\ Plan!SlicesTileTheTable

LEMMA PlanStep ==
  ASSUME PlanIsSound, Plan!Next
  PROVE  PlanIsSound'
<1>1. CASE Plan!PredictRatio
  BY <1>1 DEF Plan!PredictRatio, PlanIsSound, Plan!SlicesTileTheTable
<1>2. CASE Plan!Partition
  <2> DEFINE p == IF selection = "fixed" THEN Plan!PartitionByRatio(lengths, ratio)
                  ELSE Plan!PartitionAtBoundary(lengths, ratio)
             total == Plan!Total(lengths)
  <2>1. lengths \in Seq(Nat) /\ total \in Nat
    BY TotalOfSequence DEF PlanIsSound
  <2>2. \E c \in 0 .. total : Tiles(p.cpu, 0, c) /\ Tiles(p.gpu, c, total) /\ p.cpuRows = c
    <3>1. CASE selection = "fixed"
      <4>1. ratio \in Nat \X (Nat \ {0})
        BY <3>1, RatiosAreParts DEF PlanIsSound
      <4> QED
        BY <2>1, <3>1, <4>1, CutTiles
    <3>2. CASE selection # "fixed"
      BY <2>1, <3>2, AssignTiles
    <3> QED
      BY <3>1, <3>2
  <2>3. status' # "choose" /\ (status' = "ok" => partition' = p)
    BY <1>2 DEF Plan!Partition
  <2>4. UNCHANGED <<lengths, selection, ratio>>
    BY <1>2 DEF Plan!Partition
  <2> HIDE DEF p, total
  <2>5. /\ Plan!RowsOf(p.cpu) = [k \in 1 .. p.cpuRows |-> k]
        /\ Plan!RowsOf(p.cpu) \o Plan!RowsOf(p.gpu) = [k \in 1 .. total |-> k]
    <3>1. PICK c \in 0 .. total : Tiles(p.cpu, 0, c) /\ Tiles(p.gpu, c, total) /\ p.cpuRows = c
      BY <2>2
    <3>2. /\ Plan!RowsOf(p.cpu) = [k \in 1 .. c |-> k]
          /\ Plan!RowsOf(p.cpu) \o Plan!RowsOf(p.gpu) = [k \in 1 .. total |-> k]
      <4>1. \A cpu, gpu : Tiles(cpu, 0, c) /\ Tiles(gpu, c, total) =>
              /\ Plan!RowsOf(cpu) = [k \in 1 .. c |-> k]
              /\ Plan!RowsOf(cpu) \o Plan!RowsOf(gpu) = [k \in 1 .. total |-> k]
        <5> TAKE cpu, gpu
        <5> HAVE Tiles(cpu, 0, c) /\ Tiles(gpu, c, total)
        <5> QED
          BY <2>1, <3>1, TilesJoin
      <4> QED
        BY <3>1, <4>1, Zenon
    <3> QED
      BY <3>1, <3>2
  <2>6. \A s : Plan!RowsOf(s)' = Plan!RowsOf(s)
    <3>1. (\A s : Plan!RowsOf(s) = RowsFold!Fold(lengths, 0, <<>>, s))'
      BY RowsOfIsFold, PTL
    <3> QED
      BY <2>4, <3>1, RowsOfIsFold
  <2>7. Plan!SlicesTileTheTable'
    BY <2>3, <2>4, <2>5, <2>6 DEF Plan!SlicesTileTheTable, total
  <2> QED
    BY <2>3, <2>4, <2>7 DEF PlanIsSound
<1> QED
  BY <1>1, <1>2 DEF Plan!Next

\* The two slices of a partition tile the table, however its rows are spread
\* over batches and whatever the ratio (partition_batch_lengths,
\* partition_batch_lengths_at_boundary).
THEOREM PartitionsTileTheTable == Plan!Spec => []SlicesTileTheTable
<1>1. Plan!Init => PlanIsSound
  BY LengthsAreNatural DEF Plan!Init, PlanIsSound, Plan!SlicesTileTheTable
<1>2. PlanIsSound /\ [Plan!Next]_Plan!vars => PlanIsSound'
  <2>1. CASE Plan!Next
    BY <2>1, PlanStep
  <2>2. PlanIsSound /\ UNCHANGED Plan!vars => PlanIsSound'
    <3>1. (\A s : Plan!RowsOf(s) = RowsFold!Fold(lengths, 0, <<>>, s))'
      BY RowsOfIsFold, PTL
    <3>2. UNCHANGED Plan!vars => \A s : Plan!RowsOf(s)' = Plan!RowsOf(s)
      BY <3>1, RowsOfIsFold DEF Plan!vars
    <3> QED
      BY <3>2 DEF Plan!vars, PlanIsSound, Plan!SlicesTileTheTable
  <2> QED
    BY <2>1, <2>2
<1>3. PlanIsSound => SlicesTileTheTable
  BY DEF PlanIsSound, SlicesTileTheTable
<1> QED
  BY <1>1, <1>2, <1>3, PTL DEF Plan!Spec

-----------------------------------------------------------------------------
Inside == {"reset", "prefetch", "launch", "sync", "collect", "finish"}

\* execute_mutex: the caller inside Execute is the one that holds it.
MutexHeld == \A c \in Caller : pc[c] \in Inside <=> lock = c

\* Between the reset and the launch the buffers are known to be zero.
ResetBeforeLaunch == \A c \in Caller : pc[c] \in {"prefetch", "launch"} => outputsClean

\* A buffer that has absorbed m rows since it was zeroed.
Absorbed(b, m) ==
  /\ b.matched = m
  /\ b.revenue = (IF m <= Capacity THEN m ELSE Capacity)
  /\ b.overflow <=> m > Capacity

\* While a request waits for its kernel, what is in the buffers and what is
\* still to come add up to the data set; afterwards it is all there.
KernelProgress ==
  \A c \in Caller :
    /\ pc[c] = "sync" /\ context = "ok" =>
         /\ pending <= RowCount
         /\ Absorbed(buffer, RowCount - pending)
    /\ pc[c] = "collect" /\ context = "ok" => pending = 0 /\ Absorbed(buffer, RowCount)
    /\ pc[c] = "finish" => Absorbed(host, RowCount)
    /\ pc[c] # "sync" /\ lock = c => pending = 0 \/ pc[c] = "reset"

\* In managed mode no kernel outlives its request.
NoOrphanKernel ==
  /\ Managed /\ pending > 0 => \E c \in Caller : pc[c] = "sync"
  /\ context = "lost" => pending = 0

IInv ==
  /\ TypeOK
  /\ MutexHeld
  /\ CleanMeansZero
  /\ ResetBeforeLaunch
  /\ KernelProgress
  /\ NoOrphanKernel
  /\ ResultIsExact
-----------------------------------------------------------------------------
USE ModeAssumption, SizeAssumption, CallerAssumption, FaultAssumption

LEMMA TypesOfRecords ==
  /\ Zeroed \in Buffers
  /\ \A k \in {"none", "error", "capacity"} : Failure(k) \in Outcomes
  /\ \A b \in Buffers, p \in BOOLEAN : Result(b, p) \in Outcomes
BY DEF Zeroed, Buffers, Failure, Result, Outcomes

LEMMA PartlyZeroed ==
  \A b \in Buffers : /\ [b EXCEPT !.revenue = 0] \in Buffers
                     /\ [Zeroed EXCEPT !.overflow = b.overflow] \in Buffers
BY DEF Buffers, Zeroed

\* What a buffer that has absorbed m rows holds after one more.
WithOneMore(b) ==
  [revenue  |-> IF b.revenue < Capacity THEN b.revenue + 1 ELSE b.revenue,
   matched  |-> b.matched + 1,
   overflow |-> b.overflow \/ b.revenue >= Capacity]

LEMMA AbsorbOneMore ==
  ASSUME NEW b \in Buffers, NEW m \in Nat, Absorbed(b, m)
  PROVE  Absorbed(WithOneMore(b), m + 1)
<1>1. CASE m < Capacity
  BY <1>1 DEF Absorbed, WithOneMore, Buffers
<1>2. CASE m >= Capacity
  <2>1. b.revenue = Capacity /\ b.revenue >= Capacity
    BY <1>2 DEF Absorbed
  <2>2. WithOneMore(b).revenue = Capacity /\ WithOneMore(b).matched = m + 1
    BY <2>1 DEF WithOneMore, Absorbed
  <2>3. WithOneMore(b).overflow
    BY <2>1 DEF WithOneMore
  <2>4. QED
    BY <1>2, <2>2, <2>3 DEF Absorbed
<1>3. QED
  BY <1>1, <1>2

LEMMA InitEstablishesIInv == Init => IInv
<1> SUFFICES ASSUME Init PROVE IInv
  OBVIOUS
<1>1. TypeOK
  <2>1. outputsClean \in BOOLEAN /\ onDevice \in BOOLEAN /\ prefetched \in BOOLEAN
    BY DEF Init
  <2>2. outcome \in [Caller -> Outcomes]
    BY TypesOfRecords DEF Init
  <2>3. faults \in 0 .. MaxFaults /\ pending \in Nat
    BY DEF Init
  <2>4. QED
    BY <2>1, <2>2, <2>3, TypesOfRecords DEF Init, TypeOK
<1>2. QED
  BY <1>1 DEF Init, IInv, MutexHeld, CleanMeansZero, ResetBeforeLaunch,
       KernelProgress, NoOrphanKernel, ResultIsExact, Inside, Failure, IsResult

LEMMA ExecutePreserves ==
  ASSUME IInv, NEW c \in Caller, Execute(c) PROVE IInv'
<1> USE DEF IInv, TypeOK, Execute, Step, Proceed, Raise, CallFails, requestVars
<1>1. TypeOK'
  BY TypesOfRecords
<1>2. MutexHeld'
  BY DEF MutexHeld, Inside
<1>3. CleanMeansZero' /\ ResetBeforeLaunch'
  BY DEF MutexHeld, Inside, CleanMeansZero, ResetBeforeLaunch
<1>4. KernelProgress'
  BY DEF MutexHeld, Inside, CleanMeansZero, ResetBeforeLaunch, KernelProgress, Absorbed,
         Zeroed, Buffers, NoOrphanKernel
<1>5. NoOrphanKernel'
  BY DEF MutexHeld, Inside, KernelProgress, NoOrphanKernel, CleanMeansZero, ResetBeforeLaunch
<1>6. ResultIsExact'
  BY DEF ResultIsExact, IsResult, Failure, Result, MutexHeld, KernelProgress, Absorbed, Inside, Buffers
<1>7. QED
  BY <1>1, <1>2, <1>3, <1>4, <1>5, <1>6

LEMMA LockPreserves ==
  ASSUME IInv, NEW c \in Caller, Lock(c) PROVE IInv'
<1> USE DEF IInv, TypeOK, Lock, Step, Proceed, Raise, CallFails, requestVars
<1>1. TypeOK'
  BY TypesOfRecords
<1>2. MutexHeld'
  BY DEF MutexHeld, Inside
<1>3. CleanMeansZero' /\ ResetBeforeLaunch'
  BY DEF MutexHeld, Inside, CleanMeansZero, ResetBeforeLaunch
<1>4. KernelProgress'
  BY DEF MutexHeld, Inside, CleanMeansZero, ResetBeforeLaunch, KernelProgress, Absorbed,
         Zeroed, Buffers, NoOrphanKernel
<1>5. NoOrphanKernel'
  BY DEF MutexHeld, Inside, KernelProgress, NoOrphanKernel, CleanMeansZero, ResetBeforeLaunch
<1>6. ResultIsExact'
  BY DEF ResultIsExact, IsResult, Failure, Result, MutexHeld, KernelProgress, Absorbed, Inside, Buffers
<1>7. QED
  BY <1>1, <1>2, <1>3, <1>4, <1>5, <1>6

LEMMA SkipResetPreserves ==
  ASSUME IInv, NEW c \in Caller, SkipReset(c) PROVE IInv'
<1> USE DEF IInv, TypeOK, SkipReset, Step, Proceed, Raise, CallFails, requestVars
<1>1. TypeOK'
  BY TypesOfRecords
<1>2. MutexHeld'
  BY DEF MutexHeld, Inside
<1>3. CleanMeansZero' /\ ResetBeforeLaunch'
  BY DEF MutexHeld, Inside, CleanMeansZero, ResetBeforeLaunch
<1>4. KernelProgress'
  BY DEF MutexHeld, Inside, CleanMeansZero, ResetBeforeLaunch, KernelProgress, Absorbed,
         Zeroed, Buffers, NoOrphanKernel
<1>5. NoOrphanKernel'
  BY DEF MutexHeld, Inside, KernelProgress, NoOrphanKernel, CleanMeansZero, ResetBeforeLaunch
<1>6. ResultIsExact'
  BY DEF ResultIsExact, IsResult, Failure, Result, MutexHeld, KernelProgress, Absorbed, Inside, Buffers
<1>7. QED
  BY <1>1, <1>2, <1>3, <1>4, <1>5, <1>6

LEMMA ResetManagedPreserves ==
  ASSUME IInv, NEW c \in Caller, ResetManaged(c) PROVE IInv'
<1> USE DEF IInv, TypeOK, ResetManaged, NoOrphanKernel, Step, Proceed, Raise, CallFails, requestVars
<1>1. TypeOK'
  BY TypesOfRecords
<1>2. MutexHeld'
  BY DEF MutexHeld, Inside
<1>3. CleanMeansZero' /\ ResetBeforeLaunch'
  BY DEF MutexHeld, Inside, CleanMeansZero, ResetBeforeLaunch
<1>4. KernelProgress'
  BY DEF MutexHeld, Inside, CleanMeansZero, ResetBeforeLaunch, KernelProgress, Absorbed,
         Zeroed, Buffers, NoOrphanKernel
<1>5. NoOrphanKernel'
  BY DEF MutexHeld, Inside, KernelProgress, NoOrphanKernel, CleanMeansZero, ResetBeforeLaunch
<1>6. ResultIsExact'
  BY DEF ResultIsExact, IsResult, Failure, Result, MutexHeld, KernelProgress, Absorbed, Inside, Buffers
<1>7. QED
  BY <1>1, <1>2, <1>3, <1>4, <1>5, <1>6

LEMMA ResetDevicePreserves ==
  ASSUME IInv, NEW c \in Caller, ResetDevice(c) PROVE IInv'
<1> USE DEF IInv, TypeOK, ResetDevice, Step, Proceed, Raise, CallFails, requestVars
<1>1. TypeOK'
  BY TypesOfRecords
<1>2. MutexHeld'
  BY DEF MutexHeld, Inside
<1>3. CleanMeansZero' /\ ResetBeforeLaunch'
  BY DEF MutexHeld, Inside, CleanMeansZero, ResetBeforeLaunch
<1>4. KernelProgress'
  BY DEF MutexHeld, Inside, CleanMeansZero, ResetBeforeLaunch, KernelProgress, Absorbed,
         Zeroed, Buffers, NoOrphanKernel
<1>5. NoOrphanKernel'
  BY DEF MutexHeld, Inside, KernelProgress, NoOrphanKernel, CleanMeansZero, ResetBeforeLaunch
<1>6. ResultIsExact'
  BY DEF ResultIsExact, IsResult, Failure, Result, MutexHeld, KernelProgress, Absorbed, Inside, Buffers
<1>7. QED
  BY <1>1, <1>2, <1>3, <1>4, <1>5, <1>6

LEMMA ResetDeviceFailsPreserves ==
  ASSUME IInv, NEW c \in Caller, ResetDeviceFails(c) PROVE IInv'
<1> USE DEF IInv, TypeOK, ResetDeviceFails, Step, Proceed, Raise, CallFails, requestVars
<1>1. TypeOK'
  <2>1. outcome' \in [Caller -> Outcomes] /\ faults' \in 0 .. MaxFaults
    BY TypesOfRecords
  <2>2. buffer' \in Buffers
    BY PartlyZeroed
  <2>3. QED
    BY <2>1, <2>2
<1>2. MutexHeld'
  BY DEF MutexHeld, Inside
<1>3. CleanMeansZero' /\ ResetBeforeLaunch'
  BY DEF MutexHeld, Inside, CleanMeansZero, ResetBeforeLaunch
<1>4. KernelProgress'
  BY DEF MutexHeld, Inside, CleanMeansZero, ResetBeforeLaunch, KernelProgress, Absorbed,
         Zeroed, Buffers, NoOrphanKernel
<1>5. NoOrphanKernel'
  BY DEF MutexHeld, Inside, KernelProgress, NoOrphanKernel, CleanMeansZero, ResetBeforeLaunch
<1>6. ResultIsExact'
  BY DEF ResultIsExact, IsResult, Failure, Result, MutexHeld, KernelProgress, Absorbed, Inside, Buffers
<1>7. QED
  BY <1>1, <1>2, <1>3, <1>4, <1>5, <1>6

LEMMA SkipPrefetchPreserves ==
  ASSUME IInv, NEW c \in Caller, SkipPrefetch(c) PROVE IInv'
<1> USE DEF IInv, TypeOK, SkipPrefetch, Step, Proceed, Raise, CallFails, requestVars
<1>1. TypeOK'
  BY TypesOfRecords
<1>2. MutexHeld'
  BY DEF MutexHeld, Inside
<1>3. CleanMeansZero' /\ ResetBeforeLaunch'
  BY DEF MutexHeld, Inside, CleanMeansZero, ResetBeforeLaunch
<1>4. KernelProgress'
  BY DEF MutexHeld, Inside, CleanMeansZero, ResetBeforeLaunch, KernelProgress, Absorbed,
         Zeroed, Buffers, NoOrphanKernel
<1>5. NoOrphanKernel'
  BY DEF MutexHeld, Inside, KernelProgress, NoOrphanKernel, CleanMeansZero, ResetBeforeLaunch
<1>6. ResultIsExact'
  BY DEF ResultIsExact, IsResult, Failure, Result, MutexHeld, KernelProgress, Absorbed, Inside, Buffers
<1>7. QED
  BY <1>1, <1>2, <1>3, <1>4, <1>5, <1>6

LEMMA PrefetchPreserves ==
  ASSUME IInv, NEW c \in Caller, Prefetch(c) PROVE IInv'
<1> USE DEF IInv, TypeOK, Prefetch, Step, Proceed, Raise, CallFails, requestVars
<1>1. TypeOK'
  BY TypesOfRecords
<1>2. MutexHeld'
  BY DEF MutexHeld, Inside
<1>3. CleanMeansZero' /\ ResetBeforeLaunch'
  BY DEF MutexHeld, Inside, CleanMeansZero, ResetBeforeLaunch
<1>4. KernelProgress'
  BY DEF MutexHeld, Inside, CleanMeansZero, ResetBeforeLaunch, KernelProgress, Absorbed,
         Zeroed, Buffers, NoOrphanKernel
<1>5. NoOrphanKernel'
  BY DEF MutexHeld, Inside, KernelProgress, NoOrphanKernel, CleanMeansZero, ResetBeforeLaunch
<1>6. ResultIsExact'
  BY DEF ResultIsExact, IsResult, Failure, Result, MutexHeld, KernelProgress, Absorbed, Inside, Buffers
<1>7. QED
  BY <1>1, <1>2, <1>3, <1>4, <1>5, <1>6

LEMMA PrefetchFailsPreserves ==
  ASSUME IInv, NEW c \in Caller, PrefetchFails(c) PROVE IInv'
<1> USE DEF IInv, TypeOK, PrefetchFails, Step, Proceed, Raise, CallFails, requestVars
<1>1. TypeOK'
  BY TypesOfRecords
<1>2. MutexHeld'
  BY DEF MutexHeld, Inside
<1>3. CleanMeansZero' /\ ResetBeforeLaunch'
  BY DEF MutexHeld, Inside, CleanMeansZero, ResetBeforeLaunch
<1>4. KernelProgress'
  BY DEF MutexHeld, Inside, CleanMeansZero, ResetBeforeLaunch, KernelProgress, Absorbed,
         Zeroed, Buffers, NoOrphanKernel
<1>5. NoOrphanKernel'
  BY DEF MutexHeld, Inside, KernelProgress, NoOrphanKernel, CleanMeansZero, ResetBeforeLaunch
<1>6. ResultIsExact'
  BY DEF ResultIsExact, IsResult, Failure, Result, MutexHeld, KernelProgress, Absorbed, Inside, Buffers
<1>7. QED
  BY <1>1, <1>2, <1>3, <1>4, <1>5, <1>6

LEMMA LaunchPreserves ==
  ASSUME IInv, NEW c \in Caller, Launch(c) PROVE IInv'
<1> USE DEF IInv, TypeOK, Launch, Step, Proceed, Raise, CallFails, requestVars
<1>1. TypeOK'
  <2>1. outputsClean' \in BOOLEAN
    OBVIOUS
  <2>2. outcome' \in [Caller -> Outcomes] /\ faults' \in 0 .. MaxFaults
    BY TypesOfRecords
  <2>3. pending' \in Nat
    OBVIOUS
  <2>4. QED
    BY <2>1, <2>2, <2>3
<1>2. MutexHeld'
  BY DEF MutexHeld, Inside
<1>3. CleanMeansZero' /\ ResetBeforeLaunch'
  BY DEF MutexHeld, Inside, CleanMeansZero, ResetBeforeLaunch
<1>4. KernelProgress'
  BY DEF MutexHeld, Inside, CleanMeansZero, ResetBeforeLaunch, KernelProgress, Absorbed,
         Zeroed, Buffers, NoOrphanKernel
<1>5. NoOrphanKernel'
  BY DEF MutexHeld, Inside, KernelProgress, NoOrphanKernel, CleanMeansZero, ResetBeforeLaunch
<1>6. ResultIsExact'
  BY DEF ResultIsExact, IsResult, Failure, Result, MutexHeld, KernelProgress, Absorbed, Inside, Buffers
<1>7. QED
  BY <1>1, <1>2, <1>3, <1>4, <1>5, <1>6

LEMMA LaunchFailsPreserves ==
  ASSUME IInv, NEW c \in Caller, LaunchFails(c) PROVE IInv'
<1> USE DEF IInv, TypeOK, LaunchFails, Step, Proceed, Raise, CallFails, requestVars
<1>1. TypeOK'
  <2>1. outputsClean' \in BOOLEAN
    OBVIOUS
  <2>2. outcome' \in [Caller -> Outcomes] /\ faults' \in 0 .. MaxFaults
    BY TypesOfRecords
  <2>3. pending' \in Nat
    OBVIOUS
  <2>4. QED
    BY <2>1, <2>2, <2>3
<1>2. MutexHeld'
  BY DEF MutexHeld, Inside
<1>3. CleanMeansZero' /\ ResetBeforeLaunch'
  BY DEF MutexHeld, Inside, CleanMeansZero, ResetBeforeLaunch
<1>4. KernelProgress'
  BY DEF MutexHeld, Inside, CleanMeansZero, ResetBeforeLaunch, KernelProgress, Absorbed,
         Zeroed, Buffers, NoOrphanKernel
<1>5. NoOrphanKernel'
  BY DEF MutexHeld, Inside, KernelProgress, NoOrphanKernel, CleanMeansZero, ResetBeforeLaunch
<1>6. ResultIsExact'
  BY DEF ResultIsExact, IsResult, Failure, Result, MutexHeld, KernelProgress, Absorbed, Inside, Buffers
<1>7. QED
  BY <1>1, <1>2, <1>3, <1>4, <1>5, <1>6

LEMMA SynchronizePreserves ==
  ASSUME IInv, NEW c \in Caller, Synchronize(c) PROVE IInv'
<1> USE DEF IInv, TypeOK, Synchronize, Step, Proceed, Raise, CallFails, requestVars
<1>1. TypeOK'
  BY TypesOfRecords
<1>2. MutexHeld'
  BY DEF MutexHeld, Inside
<1>3. CleanMeansZero' /\ ResetBeforeLaunch'
  BY DEF MutexHeld, Inside, CleanMeansZero, ResetBeforeLaunch
<1>4. KernelProgress'
  BY DEF MutexHeld, Inside, CleanMeansZero, ResetBeforeLaunch, KernelProgress, Absorbed,
         Zeroed, Buffers, NoOrphanKernel
<1>5. NoOrphanKernel'
  BY DEF MutexHeld, Inside, KernelProgress, NoOrphanKernel, CleanMeansZero, ResetBeforeLaunch
<1>6. ResultIsExact'
  BY DEF ResultIsExact, IsResult, Failure, Result, MutexHeld, KernelProgress, Absorbed, Inside, Buffers
<1>7. QED
  BY <1>1, <1>2, <1>3, <1>4, <1>5, <1>6

LEMMA SynchronizeFailsPreserves ==
  ASSUME ~(Managed /\ LateFault), IInv, NEW c \in Caller, SynchronizeFails(c) PROVE IInv'
<1> USE DEF IInv, TypeOK, SynchronizeFails, Step, Proceed, Raise, CallFails, requestVars
<1>1. TypeOK'
  BY TypesOfRecords
<1>2. MutexHeld'
  BY DEF MutexHeld, Inside
<1>3. CleanMeansZero' /\ ResetBeforeLaunch'
  BY DEF MutexHeld, Inside, CleanMeansZero, ResetBeforeLaunch
<1>4. KernelProgress'
  BY DEF MutexHeld, Inside, CleanMeansZero, ResetBeforeLaunch, KernelProgress, Absorbed,
         Zeroed, Buffers, NoOrphanKernel
<1>5. NoOrphanKernel'
  BY DEF MutexHeld, Inside, KernelProgress, NoOrphanKernel, CleanMeansZero, ResetBeforeLaunch
<1>6. ResultIsExact'
  BY DEF ResultIsExact, IsResult, Failure, Result, MutexHeld, KernelProgress, Absorbed, Inside, Buffers
<1>7. QED
  BY <1>1, <1>2, <1>3, <1>4, <1>5, <1>6

LEMMA CollectPreserves ==
  ASSUME IInv, NEW c \in Caller, Collect(c) PROVE IInv'
<1> USE DEF IInv, TypeOK, Collect, Step, Proceed, Raise, CallFails, requestVars
<1>1. TypeOK'
  BY TypesOfRecords DEF Buffers
<1>2. MutexHeld'
  BY DEF MutexHeld, Inside
<1>3. CleanMeansZero' /\ ResetBeforeLaunch'
  BY DEF MutexHeld, Inside, CleanMeansZero, ResetBeforeLaunch
<1>4. KernelProgress'
  BY DEF MutexHeld, Inside, CleanMeansZero, ResetBeforeLaunch, KernelProgress, Absorbed,
         Zeroed, Buffers, NoOrphanKernel
<1>5. NoOrphanKernel'
  BY DEF MutexHeld, Inside, KernelProgress, NoOrphanKernel, CleanMeansZero, ResetBeforeLaunch
<1>6. ResultIsExact'
  BY DEF ResultIsExact, IsResult, Failure, Result, MutexHeld, KernelProgress, Absorbed, Inside, Buffers
<1>7. QED
  BY <1>1, <1>2, <1>3, <1>4, <1>5, <1>6

LEMMA CollectFailsPreserves ==
  ASSUME IInv, NEW c \in Caller, CollectFails(c) PROVE IInv'
<1> USE DEF IInv, TypeOK, CollectFails, Step, Proceed, Raise, CallFails, requestVars
<1>1. TypeOK'
  BY TypesOfRecords DEF Buffers
<1>2. MutexHeld'
  BY DEF MutexHeld, Inside
<1>3. CleanMeansZero' /\ ResetBeforeLaunch'
  BY DEF MutexHeld, Inside, CleanMeansZero, ResetBeforeLaunch
<1>4. KernelProgress'
  BY DEF MutexHeld, Inside, CleanMeansZero, ResetBeforeLaunch, KernelProgress, Absorbed,
         Zeroed, Buffers, NoOrphanKernel
<1>5. NoOrphanKernel'
  BY DEF MutexHeld, Inside, KernelProgress, NoOrphanKernel, CleanMeansZero, ResetBeforeLaunch
<1>6. ResultIsExact'
  BY DEF ResultIsExact, IsResult, Failure, Result, MutexHeld, KernelProgress, Absorbed, Inside, Buffers
<1>7. QED
  BY <1>1, <1>2, <1>3, <1>4, <1>5, <1>6

LEMMA FinishPreserves ==
  ASSUME IInv, NEW c \in Caller, Finish(c) PROVE IInv'
<1> USE DEF IInv, TypeOK, Finish, Step, Proceed, Raise, CallFails, requestVars
<1>1. TypeOK'
  BY TypesOfRecords DEF Buffers
<1>2. MutexHeld'
  BY DEF MutexHeld, Inside
<1>3. CleanMeansZero' /\ ResetBeforeLaunch'
  BY DEF MutexHeld, Inside, CleanMeansZero, ResetBeforeLaunch
<1>4. KernelProgress'
  BY DEF MutexHeld, Inside, CleanMeansZero, ResetBeforeLaunch, KernelProgress, Absorbed,
         Zeroed, Buffers, NoOrphanKernel
<1>5. NoOrphanKernel'
  BY DEF MutexHeld, Inside, KernelProgress, NoOrphanKernel, CleanMeansZero, ResetBeforeLaunch
<1>6. ResultIsExact'
  BY DEF ResultIsExact, IsResult, Failure, Result, MutexHeld, KernelProgress, Absorbed, Inside, Buffers
<1>7. QED
  BY <1>1, <1>2, <1>3, <1>4, <1>5, <1>6
LEMMA MakePreserves == ASSUME IInv, Make \/ MakeFails PROVE IInv'
BY DEF Make, MakeFails, requestVars, IInv, TypeOK, MutexHeld, CleanMeansZero,
       ResetBeforeLaunch, KernelProgress, NoOrphanKernel, ResultIsExact

LEMMA KernelRowPreserves == ASSUME IInv, KernelRow PROVE IInv'
<1> USE DEF IInv, TypeOK, KernelRow
<1>1. TypeOK'
  <2>1. (buffer.overflow \/ buffer.revenue >= Capacity) \in BOOLEAN
    OBVIOUS
  <2>2. buffer' \in Buffers /\ pending' \in Nat
    BY <2>1 DEF Buffers
  <2>3. QED
    BY <2>2
<1>2. MutexHeld' /\ ResetBeforeLaunch' /\ ResultIsExact'
  BY DEF MutexHeld, ResetBeforeLaunch, ResultIsExact
<1>3. CleanMeansZero' /\ NoOrphanKernel'
  BY DEF CleanMeansZero, NoOrphanKernel
<1>4. KernelProgress'
  <2> SUFFICES ASSUME NEW c \in Caller, pc[c] = "sync", context = "ok"
               PROVE  /\ pending' <= RowCount
                      /\ Absorbed(buffer', RowCount - pending')
    BY DEF KernelProgress, MutexHeld, Inside
  <2>1. pending <= RowCount /\ Absorbed(buffer, RowCount - pending)
    BY DEF KernelProgress
  <2>2. Absorbed(buffer', (RowCount - pending) + 1)
    BY <2>1, AbsorbOneMore DEF WithOneMore
  <2>3. (RowCount - pending) + 1 = RowCount - pending'
    OBVIOUS
  <2>4. QED
    BY <2>1, <2>2, <2>3
<1>5. QED
  BY <1>1, <1>2, <1>3, <1>4

LEMMA LoseContextPreserves == ASSUME IInv, LoseContext PROVE IInv'
<1> USE DEF IInv, TypeOK, LoseContext
<1>1. TypeOK'
  OBVIOUS
<1>2. MutexHeld' /\ ResetBeforeLaunch' /\ ResultIsExact'
  BY DEF MutexHeld, ResetBeforeLaunch, ResultIsExact
<1>3. CleanMeansZero' /\ NoOrphanKernel' /\ KernelProgress'
  BY DEF CleanMeansZero, NoOrphanKernel, KernelProgress
<1>4. QED
  BY <1>1, <1>2, <1>3

LEMMA StutterPreserves == IInv /\ UNCHANGED vars => IInv'
BY DEF vars, requestVars, IInv, TypeOK, MutexHeld, CleanMeansZero,
       ResetBeforeLaunch, KernelProgress, NoOrphanKernel, ResultIsExact

-----------------------------------------------------------------------------
LEMMA NextPreserves ==
  ASSUME ~(Managed /\ LateFault) PROVE IInv /\ [Next]_vars => IInv'
<1> SUFFICES ASSUME IInv, [Next]_vars PROVE IInv'
  OBVIOUS
<1>1. CASE Make \/ MakeFails \/ KernelRow \/ LoseContext \/ UNCHANGED vars
  BY <1>1, MakePreserves, KernelRowPreserves, LoseContextPreserves, StutterPreserves
<1>2. ASSUME NEW c \in Caller, Execute(c) \/ Request(c) PROVE IInv'
  BY <1>2, ExecutePreserves, LockPreserves, SkipResetPreserves, ResetManagedPreserves,
     ResetDevicePreserves, ResetDeviceFailsPreserves, SkipPrefetchPreserves,
     PrefetchPreserves, PrefetchFailsPreserves, LaunchPreserves, LaunchFailsPreserves,
     SynchronizePreserves, SynchronizeFailsPreserves, CollectPreserves,
     CollectFailsPreserves, FinishPreserves DEF Request
<1>3. QED
  BY <1>1, <1>2 DEF Next

\* The inductive invariant.  In managed mode it needs that no failure after a
\* launch leaves the context usable: the host's std::fill does not wait for a
\* kernel that such a failure leaves behind.
THEOREM Invariance == ~(Managed /\ LateFault) => (Spec => []IInv)
<1> SUFFICES ASSUME ~(Managed /\ LateFault) PROVE Spec => []IInv
  OBVIOUS
<1>1. IInv /\ [Next]_vars => IInv'
  BY NextPreserves
<1>2. QED
  BY InitEstablishesIInv, <1>1, PTL DEF Spec

\* Types of the session's state, cells within capacity included.
THEOREM TypeCorrect == ~(Managed /\ LateFault) => (Spec => []TypeOK)
<1>1. IInv => TypeOK
  BY DEF IInv
<1>2. QED
  BY <1>1, Invariance, PTL

\* A request that returns rows returns the data set's own result, whatever
\* failed before it and whoever else calls.
THEOREM ExactResults == ~(Managed /\ LateFault) => (Spec => []ResultIsExact)
<1>1. IInv => ResultIsExact
  BY DEF IInv
<1>2. QED
  BY <1>1, Invariance, PTL

\* outputs_clean is only ever up over zeroed buffers and an idle device.
THEOREM CleanFlagIsSound == ~(Managed /\ LateFault) => (Spec => []CleanMeansZero)
<1>1. IInv => CleanMeansZero
  BY DEF IInv
<1>2. QED
  BY <1>1, Invariance, PTL

-----------------------------------------------------------------------------
(***************************************************************************)
(* The session implements Q5Endpoint: each of its steps is a call, a       *)
(* return with the answer or an error, or nothing that a caller sees.      *)
(***************************************************************************)
Seen(p) == [c \in Caller |-> IF p[c] = "idle" THEN "idle" ELSE "busy"]
Shown(o) == [c \in Caller |-> Visible(o[c])]

LEMMA VisibleFailure == \A kind : Visible(Failure(kind)) = Failure(kind)
<1> SUFFICES ASSUME NEW kind PROVE Visible(Failure(kind)) = Failure(kind)
  OBVIOUS
<1> DEFINE f == Failure(kind)
           no == FALSE
<1>1. f = [kind |-> kind, revenue |-> 0, matched |-> 0, prefetched |-> no]
  BY DEF Failure
<1> HIDE DEF f, no
<1>2. [f EXCEPT !.prefetched = no] = f
  BY <1>1
<1> QED
  BY <1>2 DEF Visible, f, no

\* A request that moves on inside Execute is not seen.
LEMMA InsideIsUnseen ==
  ASSUME TypeOK, NEW c \in Caller, NEW from, NEW to, from # "idle", to # "idle",
         Step(c, from, to), Proceed \/ UNCHANGED outcome
  PROVE  UNCHANGED Endpoint!evars
<1>1. \A d \in Caller : pc'[d] = "idle" <=> pc[d] = "idle"
  BY DEF Step, TypeOK
<1>2. outcome' = outcome
  BY DEF Proceed
<1> QED
  BY <1>1, <1>2 DEF Endpoint!evars

\* A request that leaves Execute returns what it has put into its outcome.
LEMMA LeavingIsReturn ==
  ASSUME TypeOK, NEW c \in Caller, NEW from, from # "idle", Step(c, from, "idle"),
         NEW o, outcome' = [outcome EXCEPT ![c] = o],
         \/ Visible(o) = Result([revenue |-> RowCount, matched |-> RowCount], FALSE)
         \/ o = Failure("error")
         \/ o = Failure("capacity") /\ RowCount > Capacity
  PROVE  Endpoint!Return(c)
<1> DEFINE p == Seen(pc)
           q == Shown(outcome)
<1>1. p[c] = "busy"
  BY DEF Step, Seen
<1>2. Seen(pc') = [p EXCEPT ![c] = "idle"]
  BY DEF Step, TypeOK, Seen
<1>3. Shown(outcome') = [q EXCEPT ![c] = Visible(o)]
  BY DEF TypeOK, Shown
<1>4. Visible(o) \in {Result([revenue |-> RowCount, matched |-> RowCount], FALSE)}
        \cup ({Failure("error")} \cup (IF RowCount > Capacity THEN {Failure("capacity")} ELSE {}))
  BY VisibleFailure
<1> QED
  BY <1>1, <1>2, <1>3, <1>4 DEF Endpoint!Return, Seen, Shown

LEMMA StepIsEndpointStep ==
  ASSUME TypeOK, ResultIsExact', [Next]_vars
  PROVE  [Endpoint!Next]_(Endpoint!evars)
<1>1. CASE Make \/ MakeFails \/ KernelRow \/ LoseContext \/ UNCHANGED vars
  <2>1. pc' = pc /\ outcome' = outcome
    BY <1>1 DEF Make, MakeFails, KernelRow, LoseContext, vars
  <2> QED
    BY <2>1 DEF Endpoint!evars
<1>2. ASSUME NEW c \in Caller, Execute(c) PROVE Endpoint!Call(c)
  <2>1. Seen(pc)[c] = "idle"
    BY <1>2 DEF Execute, Step, Seen
  <2>2. Seen(pc') = [Seen(pc) EXCEPT ![c] = "busy"]
    BY <1>2 DEF Execute, Step, Seen, TypeOK
  <2>3. Shown(outcome') = [Shown(outcome) EXCEPT ![c] = Failure("none")]
    BY <1>2, VisibleFailure DEF Execute, Shown, TypeOK
  <2> QED
    BY <2>1, <2>2, <2>3 DEF Endpoint!Call, Seen, Shown
<1>3. ASSUME NEW c \in Caller,
             \/ Lock(c) \/ SkipReset(c) \/ ResetManaged(c) \/ ResetDevice(c)
             \/ SkipPrefetch(c) \/ Prefetch(c) \/ Launch(c) \/ Synchronize(c) \/ Collect(c)
      PROVE  UNCHANGED Endpoint!evars
  <2>1. PICK from, to : from # "idle" /\ to # "idle" /\ Step(c, from, to) /\ outcome' = outcome
    BY <1>3 DEF Lock, SkipReset, ResetManaged, ResetDevice, SkipPrefetch, Prefetch, Launch,
                Synchronize, Collect, Proceed
  <2> QED
    BY <2>1, InsideIsUnseen
<1>4. ASSUME NEW c \in Caller,
             \/ ResetDeviceFails(c) \/ PrefetchFails(c) \/ LaunchFails(c)
             \/ SynchronizeFails(c) \/ CollectFails(c)
      PROVE  Endpoint!Return(c)
  <2>1. PICK from : /\ from # "idle" /\ Step(c, from, "idle")
                    /\ outcome' = [outcome EXCEPT ![c] = Failure("error")]
    BY <1>4 DEF ResetDeviceFails, PrefetchFails, LaunchFails, SynchronizeFails, CollectFails, Raise
  <2> QED
    BY <2>1, LeavingIsReturn
<1>5. ASSUME NEW c \in Caller, Finish(c) PROVE Endpoint!Return(c)
  <2> DEFINE o == IF host.overflow THEN Failure("capacity") ELSE Result(host, prefetched)
  <2>1. outcome' = [outcome EXCEPT ![c] = o] /\ Step(c, "finish", "idle")
    BY <1>5 DEF Finish
  <2>2. outcome'[c] = o
    BY <2>1 DEF TypeOK
  <2>3. CASE host.overflow
    <3>1. o = Failure("capacity") /\ o.kind = "capacity"
      BY <2>3 DEF Failure
    <3>2. RowCount > Capacity
      BY <2>2, <3>1 DEF ResultIsExact
    <3> HIDE DEF o
    <3> QED
      BY <2>1, <3>1, <3>2, LeavingIsReturn
  <2>4. CASE ~host.overflow
    <3>1. o = Result(host, prefetched)
      BY <2>4
    <3> HIDE DEF o
    <3>2. IsResult(o) /\ o.revenue = host.revenue /\ o.matched = host.matched
      BY <3>1 DEF Result, IsResult
    <3>3. host.revenue = RowCount /\ host.matched = RowCount
      BY <2>2, <3>2 DEF ResultIsExact
    <3>4. Visible(o) = Result([revenue |-> RowCount, matched |-> RowCount], FALSE)
      <4> DEFINE no == FALSE
                 was == prefetched
      <4>1. o = [kind |-> "ok", revenue |-> RowCount, matched |-> RowCount, prefetched |-> was]
        BY <3>1, <3>3 DEF Result
      <4> HIDE DEF no, was
      <4>2. [o EXCEPT !.prefetched = no] =
              [kind |-> "ok", revenue |-> RowCount, matched |-> RowCount, prefetched |-> no]
        BY <4>1
      <4> QED
        BY <4>2 DEF Visible, Result, no
    <3> QED
      BY <2>1, <3>4, LeavingIsReturn
  <2> QED
    BY <2>3, <2>4
<1> QED
  BY <1>1, <1>2, <1>3, <1>4, <1>5 DEF Next, Request, Endpoint!Next

\* What a caller sees of a CUDA session is what Q5Endpoint allows: each request
\* returns the answer of its data set or an error, and changes no outcome but its
\* own.  (That every request returns is ImplementsEndpoint's other half.)
THEOREM SessionsAreEndpoints ==
  ~(Managed /\ LateFault) => (Spec => Endpoint!Init /\ [][Endpoint!Next]_(Endpoint!evars))
<1> SUFFICES ASSUME ~(Managed /\ LateFault)
             PROVE  Spec => Endpoint!Init /\ [][Endpoint!Next]_(Endpoint!evars)
  OBVIOUS
<1>1. Init => Endpoint!Init
  BY VisibleFailure DEF Init, Endpoint!Init
<1>2. TypeOK /\ ResultIsExact' /\ [Next]_vars => [Endpoint!Next]_(Endpoint!evars)
  BY StepIsEndpointStep
<1> QED
  BY <1>1, <1>2, TypeCorrect, ExactResults, PTL DEF Spec
==============================================================================
