------------------------------- MODULE Q5Rows -------------------------------
(***************************************************************************)
(* Lineitem rows as the Q5 executors see them once the plan's dense maps   *)
(* have been applied, partial sums over them, and the result they become.  *)
(*                                                                         *)
(* A row is a record:                                                      *)
(*   nation   the common nation of its order and its supplier, None if the *)
(*            keys are out of range or the nations differ                  *)
(*   revenue  price * (100 - discount), meaningful for a valid row         *)
(*   valid    whether both decimals are in range (the price is then not    *)
(*            negative and the discount at most 100)                       *)
(* A partial is a record: sums per nation, matched and input row counts,   *)
(* and a status, "ok", "invalid" or "capacity".                            *)
(***************************************************************************)
EXTENDS Integers, Sequences, SequencesExt

CONSTANTS
  Nation,   \* the nation keys 0 .. max_nation_key
  None,
  NameOf,   \* nation_name_by_key; names are ordered like these numbers
  MaxI64

ASSUME LimitIsNatural == MaxI64 \in Nat
ASSUME NoneIsNoNation == None \notin Nation

\* TPC-H nations have distinct names; build_arrow_q5_plan only checks the keys.
ASSUME NamesAreDistinct == \A m, n \in Nation : NameOf[m] = NameOf[n] => m = n

Row ==
  {row \in [nation : Nation \cup {None}, revenue : Int, valid : BOOLEAN] :
     row.valid => row.revenue >= 0}
Matching(rows) == {i \in DOMAIN rows : rows[i].nation # None}

EmptyPartial == [sums |-> [n \in Nation |-> 0], matched |-> 0, input |-> 0, status |-> "ok"]

\* checked_accumulate and checked_add: nothing is stored on overflow.
Fits(sum, value) == sum + value <= MaxI64

(***************************************************************************)
(* One row of scan_batches.  Only a row that matches has its decimals      *)
(* looked at, and the first bad row ends the scan.                         *)
(***************************************************************************)
ScanRow(partial, row) ==
  IF partial.status # "ok" \/ row.nation = None THEN partial
  ELSE IF ~row.valid THEN [partial EXCEPT !.status = "invalid"]
  ELSE IF ~Fits(partial.sums[row.nation], row.revenue)
       THEN [partial EXCEPT !.status = "capacity"]
  ELSE [partial EXCEPT !.sums[row.nation] = @ + row.revenue, !.matched = @ + 1]

\* Mutant: only the last failed worker is noticed.
MergePartialLastWins(total, partial) ==
  IF partial.status # "ok" THEN [total EXCEPT !.status = partial.status]
  ELSE [sums |-> [n \in Nation |-> total.sums[n] + partial.sums[n]],
        matched |-> total.matched + partial.matched,
        input |-> total.input + partial.input,
        status |-> "ok"]

\* Adding one partial to another, nation by nation, in key order.
MergePartial(total, partial) ==
  IF total.status # "ok" THEN total
  ELSE IF partial.status # "ok" THEN [total EXCEPT !.status = partial.status]
  ELSE IF \E n \in Nation : ~Fits(total.sums[n], partial.sums[n])
       THEN [total EXCEPT !.status = "capacity"]
  ELSE [sums |-> [n \in Nation |-> total.sums[n] + partial.sums[n]],
        matched |-> total.matched + partial.matched,
        input |-> total.input + partial.input,
        status |-> "ok"]

-----------------------------------------------------------------------------
(***************************************************************************)
(* The ranges of rows that worker threads scan.                            *)
(***************************************************************************)

WorkerCount(threads, rows) == Min({Max({1, threads}), Max({rows, 1})})

\* Rows begin .. end-1 of worker w, numbered from 0.
WorkerRange(w, count, rows) == <<(rows * w) \div count, (rows * (w + 1)) \div count>>

\* What range w alone amounts to, and the whole scan.
ScanRange(rows, w, count) ==
  LET r == WorkerRange(w, count, Len(rows)) IN
  [FoldLeft(ScanRow, EmptyPartial, SubSeq(rows, r[1] + 1, r[2])) EXCEPT !.input = r[2] - r[1]]
ScanInRanges(rows, threads) ==
  LET count == WorkerCount(threads, Len(rows)) IN
  FoldLeft(MergePartial, EmptyPartial, [i \in 1 .. count |-> ScanRange(rows, i - 1, count)])

(***************************************************************************)
(* The result rows: nations whose sum is not zero.  Every executor sorts    *)
(* them by decreasing revenue and then by name; distinct names make that    *)
(* order a function of the set, which stands for the sequence here.         *)
(***************************************************************************)
ResultRows(sums, names) ==
  {[name |-> names[n], revenue |-> sums[n]] : n \in {m \in DOMAIN sums : sums[m] # 0}}

Failed(status) == [status |-> status, rows |-> {}, matched |-> 0, input |-> 0]

Finish(partial) ==
  IF partial.status # "ok" THEN Failed(partial.status)
  ELSE [status |-> "ok", rows |-> ResultRows(partial.sums, NameOf),
        matched |-> partial.matched, input |-> partial.input]

-----------------------------------------------------------------------------
(***************************************************************************)
(* The answer, independent of any executor: every matching row counted     *)
(* once, summed over exact integers.                                       *)
(***************************************************************************)
RowsAt(rows, n) == {i \in DOMAIN rows : rows[i].nation = n}
SumOver(rows, S) ==
  FoldLeft(LAMBDA s, i : IF i \in S THEN s + rows[i].revenue ELSE s, 0,
           [i \in DOMAIN rows |-> i])
Answerable(rows) ==
  /\ \A i \in DOMAIN rows : rows[i].nation # None => rows[i].valid
  /\ \A n \in Nation : SumOver(rows, RowsAt(rows, n)) <= MaxI64

TrueAnswer(rows) ==
  [status |-> "ok",
   rows |-> ResultRows([n \in Nation |-> SumOver(rows, RowsAt(rows, n))], NameOf),
   matched |-> Cardinality(Matching(rows)),
   input |-> Len(rows)]
=============================================================================
