------------------------------ MODULE Q5Engines ------------------------------
(***************************************************************************)
(* What the engines answer on one database: the Arrow engines that scan    *)
(* with ArrowQ5Plan on the CPU, on the GPU or on both (q5_arrow_cpu.cpp,   *)
(* q5_arrow_cuda.cu, q5_hybrid.cpp), Acero's joins (q5_acero.cpp), the     *)
(* in-memory engines on the CPU and the GPU (q5_cpu.cpp, q5_cuda.cu), and  *)
(* cuDF's merges (cudf_q5.py).  Of a line, revenue and valid are what      *)
(* Q5Rows says of a row.  A GPU answers what its kernel adds up when no    *)
(* call fails; how it gets there is the subject of GpuKernel.  A result is  *)
(* a set of rows, whose order is that of Q5Rows.                           *)
(*                                                                         *)
(* A joined row is a record of the numbers of the rows it is made of, so   *)
(* that a line that is joined twice is in the relation twice.              *)
(***************************************************************************)
EXTENDS Q5Query, FiniteSetsExt

CONSTANT MaxI64

NationName(d, m) == d.nation[m.nation].name
Revenue(d, joined) == MapThenSumSet(LAMBDA m : d.lineitem[m.line].revenue, joined)

\* One group for each nation name that occurs.
Groups(d, joined) ==
  {[name |-> name, revenue |-> Revenue(d, {m \in joined : NationName(d, m) = name})] :
     name \in {NationName(d, m) : m \in joined}}

NonZero(rows) == {r \in rows : r.revenue # 0}
Refused == [status |-> "refused", rows |-> {}, matched |-> 0]
Ok(rows, matched) == [status |-> "ok", rows |-> rows, matched |-> matched]

\* The sums fit, and no line that matches has a decimal out of range.
Answerable(d, joined) ==
  /\ \A m \in joined : d.lineitem[m.line].valid
  /\ \A r \in Groups(d, joined) : r.revenue <= MaxI64

\* What the oracle stores, and the same without groups of revenue 0, which
\* the C++ engines do not report.
OracleAnswer(d) == Ok(Groups(d, Matches(d)), Cardinality(Matches(d)))
Answer(d) == [OracleAnswer(d) EXCEPT !.rows = NonZero(@)]

-----------------------------------------------------------------------------
(* execute_q5_arrow_cpu.                                                   *)

Executor(Nation, NameOf) == INSTANCE Q5Rows

ScannedRows(d) ==
  [l \in DOMAIN d.lineitem |->
     [nation |-> NationOfLine(d.lineitem[l], Plan(d)),
      revenue |-> d.lineitem[l].revenue, valid |-> d.lineitem[l].valid]]

ArrowAnswer(d, threads) ==
  LET nations == Keys(d.nation)
      names == [k \in nations |-> RowOf(d.nation, k).name]
      result == Executor(nations, names)!Finish(
                  Executor(nations, names)!ScanInRanges(ScannedRows(d), threads))
  IN IF PlanAccepts(d) /\ result.status = "ok" THEN Ok(result.rows, result.matched) ELSE Refused

-----------------------------------------------------------------------------
(* execute_q5_arrow_gpu_copy, which looks at the decimals of every line,   *)
(* and execute_q5_hybrid, which gives the first lines to the CPU (its       *)
(* options are taken as valid, and the table as one batch).                *)

\* The sums of the nations that lines count for, and how many lines do.
Totals(d, plan) ==
  LET nationOf == [l \in DOMAIN d.lineitem |-> NationOfLine(d.lineitem[l], plan)] IN
  [k \in {nationOf[l] : l \in DOMAIN nationOf} \ {None} |->
     MapThenSumSet(LAMBDA l : d.lineitem[l].revenue, {l \in DOMAIN nationOf : nationOf[l] = k})]
MatchedLines(d, plan) ==
  Cardinality({l \in DOMAIN d.lineitem : NationOfLine(d.lineitem[l], plan) # None})

AllValid(d) == \A l \in DOMAIN d.lineitem : d.lineitem[l].valid

GpuAnswer(d) ==
  IF ~(PlanAccepts(d) /\ AllValid(d)) THEN Refused
  ELSE LET totals == Totals(d, Plan(d)) IN
       IF \E k \in DOMAIN totals : totals[k] > MaxI64 THEN Refused
       ELSE Ok(NonZero({[name |-> RowOf(d.nation, k).name, revenue |-> totals[k]] :
                          k \in DOMAIN totals}),
               MatchedLines(d, Plan(d)))

Merged(cpu, gpu) ==
  LET sum(name) == MapThenSumSet(LAMBDA r : r.revenue, {r \in cpu.rows : r.name = name})
                   + MapThenSumSet(LAMBDA r : r.revenue, {r \in gpu.rows : r.name = name})
      rows == {[name |-> r.name, revenue |-> sum(r.name)] : r \in cpu.rows \cup gpu.rows}
  IN IF \E r \in rows : r.revenue > MaxI64 THEN Refused
     ELSE Ok(NonZero(rows), cpu.matched + gpu.matched)

Partition == INSTANCE HybridPartition

HybridAnswer(d, ratio, threads) ==
  LET cut == Partition!PartitionByRatio(<<Len(d.lineitem)>>, ratio)
      cpu == ArrowAnswer([d EXCEPT !.lineitem = SubSeq(@, 1, cut.cpuRows)], threads)
      gpu == GpuAnswer([d EXCEPT !.lineitem = SubSeq(@, cut.cpuRows + 1, Len(@))])
  IN IF d.lineitem = <<>> THEN Ok({}, 0)
     ELSE IF cut.gpuRows = 0 THEN cpu
     ELSE IF cut.cpuRows = 0 THEN gpu
     ELSE IF Refused \in {cpu, gpu} THEN Refused ELSE Merged(cpu, gpu)

-----------------------------------------------------------------------------
(* execute_q5_acero.                                                       *)

AceroAccepts(d) ==
  /\ UniqueKeys(d.region) /\ UniqueKeys(d.nation) /\ UniqueKeys(d.supplier)
  /\ UniqueKeys(d.customer) /\ UniqueKeys(d.orders)
  /\ Named(d) # {}

CustomerNation(d) ==
  {c \in [customer : DOMAIN d.customer, nation : DOMAIN d.nation, region : Named(d)] :
     /\ d.nation[c.nation].region = d.region[c.region].key
     /\ d.customer[c.customer].nation = d.nation[c.nation].key}

OrderCustomer(d) ==
  {o \in [order : {i \in DOMAIN d.orders : InDates(d.orders[i])}, home : CustomerNation(d)] :
     d.orders[o.order].customer = d.customer[o.home.customer].key}

LineOrder(d) ==
  {l \in [line : DOMAIN d.lineitem, order : OrderCustomer(d)] :
     d.lineitem[l.line].order = d.orders[l.order.order].key}

\* Mutant: the supplier need not be of the customer's nation.
AceroJoinedAbroad(d) ==
  {[line |-> l.line, order |-> l.order, supplier |-> s, nation |-> l.order.home.nation] :
     <<l, s>> \in {<<k, t>> \in LineOrder(d) \X DOMAIN d.supplier :
       d.lineitem[k.line].supplier = d.supplier[t].key}}

AceroJoined(d) ==
  {[line |-> l.line, order |-> l.order, supplier |-> s, nation |-> l.order.home.nation] :
     <<l, s>> \in {<<k, t>> \in LineOrder(d) \X DOMAIN d.supplier :
       /\ d.lineitem[k.line].supplier = d.supplier[t].key
       /\ d.customer[k.order.home.customer].nation = d.supplier[t].nation}}

\* aggregate_exact_revenue adds by name, and refuses what does not fit.
AceroAnswer(d) ==
  LET joined == AceroJoined(d) IN
  IF AceroAccepts(d) /\ Answerable(d, joined)
  THEN Ok(NonZero(Groups(d, joined)), Cardinality(joined)) ELSE Refused

-----------------------------------------------------------------------------
(* execute_q5_cpu, and the kernel of q5_cuda.cu: additions of 64 bits that *)
(* nothing checks, atomic ones on the GPU.                                 *)

Wrapped(sum) == ((sum + MaxI64 + 1) % (2 * (MaxI64 + 1))) - (MaxI64 + 1)

MemoryAnswer(d) ==
  IF ~PreparedPlanExists(d) THEN Refused
  ELSE LET totals == Totals(d, PreparedPlan(d))
           name(k) == d.nation[Last({i \in DOMAIN d.nation : d.nation[i].key = k})].name
       IN Ok(NonZero({[name |-> name(k), revenue |-> Wrapped(totals[k])] : k \in DOMAIN totals}),
             MatchedLines(d, PreparedPlan(d)))

-----------------------------------------------------------------------------
(* _execute_q5 of cudf_q5.py: suppliers and customers are merged with the   *)
(* nations of the region, each for itself, and every group is reported.    *)

SelectedNation(d) ==
  {n \in [nation : DOMAIN d.nation, region : Named(d)] :
     d.nation[n.nation].region = d.region[n.region].key}

CudfJoined(d) ==
  {[line |-> j.line, order |-> j.order, customer |-> j.customer, supplier |-> j.supplier,
    home |-> j.home, nation |-> j.from.nation] :
     j \in {m \in [line : DOMAIN d.lineitem, order : DOMAIN d.orders,
                   customer : DOMAIN d.customer, supplier : DOMAIN d.supplier,
                   home : SelectedNation(d), from : SelectedNation(d)] :
       /\ d.supplier[m.supplier].nation = d.nation[m.from.nation].key
       /\ d.customer[m.customer].nation = d.nation[m.home.nation].key
       /\ InDates(d.orders[m.order])
       /\ d.customer[m.customer].key = d.orders[m.order].customer
       /\ d.lineitem[m.line].order = d.orders[m.order].key
       /\ d.lineitem[m.line].supplier = d.supplier[m.supplier].key
       /\ d.customer[m.customer].nation = d.supplier[m.supplier].nation}}

CudfAnswer(d) ==
  LET joined == CudfJoined(d) IN
  Ok({[r EXCEPT !.revenue = Wrapped(@)] : r \in Groups(d, joined)}, Cardinality(joined))

-----------------------------------------------------------------------------
DistinctNames(d) ==
  \A i, j \in DOMAIN d.nation : d.nation[i].name = d.nation[j].name => i = j

\* On a database with an Arrow plan, whose nations differ in name, all engines
\* give the answer of the query, cuDF up to groups of revenue 0, and those that
\* use the GPU if every line is valid; and if the query has no answer that can
\* be represented, the Arrow engines refuse.
EnginesAgree(d, threads) ==
  LET ratios == {<<0, 1>>, <<1, 2>>, <<1, 1>>} IN
  PlanAccepts(d) /\ DistinctNames(d) =>
    IF Answerable(d, Matches(d))
    THEN LET answer == Answer(d)
             cudf == CudfAnswer(d)
         IN /\ ArrowAnswer(d, threads) = answer
            /\ AceroAnswer(d) = answer
            /\ MemoryAnswer(d) = answer
            /\ [cudf EXCEPT !.rows = NonZero(@)] = answer
            /\ AllValid(d) => \A r \in ratios : HybridAnswer(d, r, threads) = answer
    ELSE /\ ArrowAnswer(d, threads) = Refused
         /\ AceroAnswer(d) = Refused
         /\ \A r \in ratios : HybridAnswer(d, r, threads) = Refused

\* All implementations use the same conditions and the same integer revenue,
\* and are compared with the oracle (README.md:26): where the query can be
\* answered, the C++ engines and cuDF answer as the oracle does.
SameRows(d, threads) ==
  PlanAccepts(d) /\ DistinctNames(d) /\ Answerable(d, Matches(d)) =>
    /\ CudfAnswer(d) = OracleAnswer(d)
    /\ ArrowAnswer(d, threads) = OracleAnswer(d)
=============================================================================
