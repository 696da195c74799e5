-------------------------- MODULE GpuKernel_proof --------------------------
(***************************************************************************)
(* The accumulation of GpuKernel is exact for every set of rows, every     *)
(* pair of maps and every interleaving of the threads.                     *)
(***************************************************************************)
EXTENDS GpuKernel, FiniteSetTheorems, TLAPS

\* A thread swaps against a copy that is never ahead of its nation's cell.
CopiesAreBehind ==
  \A r \in Row : pc[r] = "swap" => current[r] <= revenue[NationOf(r)]

\* The guards at the top of the kernel sort the rows into those that match
\* and those that leave at once.
PcAgreesWithMatch ==
  \A r \in Row : /\ pc[r] \in {"read", "swap", "added", "overflowed"} => Matches(r)
                 /\ pc[r] = "skipped" => ~Matches(r)

\* The flag is up exactly when some thread gave up, and only then when the
\* nation's true sum does not fit.
FlagHasACause ==
  /\ overflow <=> \E r \in Row : pc[r] = "overflowed"
  /\ overflow => \E n \in Nation : Total[RowsOf(n)] > MaxI64

CountIsExact == matched = Cardinality(Counted)

IInv ==
  /\ TypeOK
  /\ NoLostUpdate
  /\ CopiesAreBehind
  /\ PcAgreesWithMatch
  /\ FlagHasACause
  /\ CountIsExact

-----------------------------------------------------------------------------
\* price * (100 - discount) of a validated row fits in a signed 64 bit word.
LEMMA RevenueFits == \A r \in Row : Revenue(r) \in 0 .. MaxI64
<1> SUFFICES ASSUME NEW r \in Row PROVE Revenue(r) \in 0 .. MaxI64
  OBVIOUS
<1> DEFINE p == Price[r]
           k == 100 - Discount[r]
<1>1. /\ p \in Int /\ p >= 0 /\ p <= MaxI64 \div 100
      /\ k \in Int /\ k >= 0 /\ k <= 100
      /\ MaxI64 \in Nat
  BY InputAssumption DEF ValidRow
<1>2. (MaxI64 \div 100) * 100 <= MaxI64 /\ MaxI64 \div 100 \in Int
  BY <1>1
<1> HIDE DEF p, k
<1>3. p * 100 <= MaxI64
  BY <1>1, <1>2
<1>4. p * k >= 0 /\ p * k <= p * 100
  BY <1>1, Z3
<1>5. p * k \in 0 .. MaxI64
  BY <1>1, <1>3, <1>4
<1>6. QED
  BY <1>5 DEF Revenue, p, k

\* One more row adds its revenue to the sum of a set of rows.
LEMMA TotalOfOneMore ==
  ASSUME NEW S \in SUBSET Row, NEW r \in Row, r \notin S
  PROVE  Total[S \cup {r}] = Total[S] + Revenue(r)
<1>1. {r} \in SUBSET Row /\ S \cap {r} = {}
  OBVIOUS
<1>2. Total[S \cup {r}] = Total[S] + Total[{r}]
  BY <1>1, TotalAssumption
<1>3. QED
  BY <1>2, TotalAssumption

\* A set of rows has no larger sum than a set that contains it.
LEMMA TotalIsMonotone ==
  ASSUME NEW T \in SUBSET Row, NEW S \in SUBSET T
  PROVE  Total[S] <= Total[T] /\ Total[S] \in Nat /\ Total[T] \in Nat
<1>1. T = S \cup (T \ S) /\ S \cap (T \ S) = {} /\ (T \ S) \in SUBSET Row
      /\ S \in SUBSET Row
  OBVIOUS
<1>2. Total[T] = Total[S] + Total[T \ S]
  BY <1>1, TotalAssumption
<1>3. Total[S] \in Nat /\ Total[T] \in Nat /\ Total[T \ S] \in Nat
  BY <1>1, TotalAssumption
<1>4. QED
  BY <1>2, <1>3

\* A matching row belongs to a nation that has a cell.
LEMMA MatchingRows ==
  \A r \in Row : Matches(r) => NationOf(r) \in Nation /\ r \in RowsOf(NationOf(r))
BY DEF Matches, RowsOf

\* The sum of two words that fit below LLONG_MAX does not wrap.
LEMMA NoWrap ==
  ASSUME NEW a \in Nat, NEW b \in Nat, a + b <= MaxI64
  PROVE  AddWord(a, b) = a + b /\ a + b \in Word
BY InputAssumption DEF AddWord, Word

-----------------------------------------------------------------------------
LEMMA InitEstablishesIInv == Init => IInv
<1> SUFFICES ASSUME Init PROVE IInv
  OBVIOUS
<1> USE DEF Init
<1>1. TypeOK
  <2>1. 0 \in Word
    BY InputAssumption DEF Word
  <2>2. QED
    BY <2>1 DEF TypeOK, Finished
<1>2. NoLostUpdate
  <2>1. \A n \in Nation : AddedTo(n) = {}
    BY DEF AddedTo, RowsOf
  <2>2. QED
    BY <2>1, TotalAssumption, InputAssumption DEF NoLostUpdate
<1>3. CopiesAreBehind /\ PcAgreesWithMatch /\ FlagHasACause
  BY DEF CopiesAreBehind, PcAgreesWithMatch, FlagHasACause
<1>4. CountIsExact
  <2>1. Counted = {}
    BY DEF Counted
  <2>2. QED
    BY <2>1, FS_EmptySet DEF CountIsExact
<1>5. QED
  BY <1>1, <1>2, <1>3, <1>4 DEF IInv

\* Steps that leave the cells and the set of threads that have added alone.
LEMMA SameCells ==
  ASSUME NoLostUpdate, UNCHANGED revenue,
         \A r \in Row : pc'[r] = "added" <=> pc[r] = "added"
  PROVE  NoLostUpdate'
<1>1. \A n \in Nation : AddedTo(n)' = AddedTo(n)
  BY DEF AddedTo, RowsOf, Matches, NationOf
<1>2. QED
  BY <1>1 DEF NoLostUpdate

\* Steps of a thread between two pcs at both of which its row is counted.
LEMMA SameCount ==
  ASSUME CountIsExact, UNCHANGED matched, Counted' = Counted
  PROVE  CountIsExact'
BY DEF CountIsExact

LEMMA SkipPreserves ==
  ASSUME IInv, NEW r \in Row, Skip(r) PROVE IInv'
<1> USE DEF IInv, Skip
<1>1. TypeOK'
  BY DEF TypeOK, Finished
<1>2. NoLostUpdate'
  BY SameCells DEF TypeOK
<1>3. CopiesAreBehind' /\ PcAgreesWithMatch'
  BY DEF CopiesAreBehind, PcAgreesWithMatch, TypeOK, Matches, NationOf
<1>4. FlagHasACause'
  BY DEF FlagHasACause, TypeOK, RowsOf, Matches, NationOf
<1>5. Counted' = Counted
  BY DEF Counted, TypeOK
<1>6. QED
  BY <1>1, <1>2, <1>3, <1>4, <1>5, SameCount

LEMMA CountMatchPreserves ==
  ASSUME IInv, NEW r \in Row, CountMatch(r) PROVE IInv'
<1> USE DEF IInv, CountMatch
<1>1. TypeOK'
  BY DEF TypeOK, Finished
<1>2. NoLostUpdate'
  BY SameCells DEF TypeOK
<1>3. CopiesAreBehind' /\ PcAgreesWithMatch'
  BY DEF CopiesAreBehind, PcAgreesWithMatch, TypeOK, Matches, NationOf
<1>4. FlagHasACause'
  BY DEF FlagHasACause, TypeOK, RowsOf, Matches, NationOf
<1>5. CountIsExact'
  <2>1. Counted' = Counted \cup {r} /\ r \notin Counted
    BY DEF Counted, TypeOK
  <2>2. IsFiniteSet(Counted)
    BY InputAssumption, FS_Subset DEF Counted
  <2>3. Cardinality(Counted') = Cardinality(Counted) + 1
    BY <2>1, <2>2, FS_AddElement
  <2>4. QED
    BY <2>3 DEF CountIsExact
<1>6. QED
  BY <1>1, <1>2, <1>3, <1>4, <1>5

LEMMA ReadRevenuePreserves ==
  ASSUME IInv, NEW r \in Row, ReadRevenue(r) PROVE IInv'
<1> USE DEF IInv, ReadRevenue
<1>0. NationOf(r) \in Nation
  BY MatchingRows DEF PcAgreesWithMatch
<1>1. TypeOK'
  BY <1>0 DEF TypeOK, Finished
<1>2. NoLostUpdate'
  BY SameCells DEF TypeOK
<1>3. CopiesAreBehind'
  BY <1>0, InputAssumption DEF CopiesAreBehind, TypeOK, Word, NationOf
<1>4. PcAgreesWithMatch'
  BY DEF PcAgreesWithMatch, TypeOK, Matches, NationOf
<1>5. FlagHasACause'
  BY DEF FlagHasACause, TypeOK, RowsOf, Matches, NationOf
<1>6. Counted' = Counted
  BY DEF Counted, TypeOK
<1>7. QED
  BY <1>1, <1>2, <1>3, <1>4, <1>5, <1>6, SameCount

LEMMA RetryPreserves ==
  ASSUME IInv, NEW r \in Row, Retry(r) PROVE IInv'
<1> USE DEF IInv, Retry
<1>0. NationOf(r) \in Nation
  BY MatchingRows DEF PcAgreesWithMatch
<1>1. TypeOK'
  BY <1>0 DEF TypeOK
<1>2. NoLostUpdate'
  BY SameCells
<1>3. CopiesAreBehind'
  BY <1>0, InputAssumption DEF CopiesAreBehind, TypeOK, Word, NationOf
<1>4. PcAgreesWithMatch' /\ FlagHasACause'
  BY DEF PcAgreesWithMatch, FlagHasACause, RowsOf, Matches, NationOf
<1>5. Counted' = Counted
  BY DEF Counted
<1>6. QED
  BY <1>1, <1>2, <1>3, <1>4, <1>5, SameCount

\* The compare-and-swap found the cell as the thread had read it.
LEMMA SwapPreserves ==
  ASSUME IInv, NEW r \in Row, Swap(r) PROVE IInv'
<1> USE DEF IInv, Swap
<1> DEFINE m == NationOf(r)
<1>0. /\ m \in Nation /\ r \in RowsOf(m)
      /\ Revenue(r) \in 0 .. MaxI64
      /\ revenue[m] \in Nat /\ MaxI64 \in Nat
  BY MatchingRows, RevenueFits, InputAssumption DEF PcAgreesWithMatch, TypeOK, Word
<1>1. AddWord(current[r], Revenue(r)) = revenue[m] + Revenue(r)
      /\ revenue[m] + Revenue(r) \in Word
      /\ revenue[m] + Revenue(r) <= MaxI64
  BY <1>0, NoWrap DEF Fits
<1>2. revenue' = [revenue EXCEPT ![m] = revenue[m] + Revenue(r)]
  BY <1>1
<1>3. TypeOK'
  BY <1>0, <1>1, <1>2 DEF TypeOK, Finished
<1>4. NoLostUpdate'
  <2> SUFFICES ASSUME NEW n \in Nation
               PROVE  revenue'[n] = Total[AddedTo(n)'] /\ revenue'[n] <= MaxI64
    BY DEF NoLostUpdate
  <2>1. CASE n = m
    <3>1. AddedTo(n)' = AddedTo(n) \cup {r} /\ r \notin AddedTo(n)
          /\ AddedTo(n) \in SUBSET Row
      BY <1>0, <2>1 DEF AddedTo, RowsOf, TypeOK, Matches, NationOf
    <3>2. Total[AddedTo(n)'] = Total[AddedTo(n)] + Revenue(r)
      BY <3>1, TotalOfOneMore
    <3>3. revenue'[n] = revenue[n] + Revenue(r)
      BY <1>0, <1>2, <2>1 DEF TypeOK
    <3>4. QED
      BY <1>1, <2>1, <3>2, <3>3 DEF NoLostUpdate
  <2>2. CASE n # m
    <3>1. AddedTo(n)' = AddedTo(n)
      BY <2>2 DEF AddedTo, RowsOf, TypeOK, Matches, NationOf
    <3>2. revenue'[n] = revenue[n]
      BY <1>2, <2>2 DEF TypeOK
    <3>3. QED
      BY <3>1, <3>2 DEF NoLostUpdate
  <2>3. QED
    BY <2>1, <2>2
<1>5. CopiesAreBehind'
  <2> SUFFICES ASSUME NEW s \in Row, pc'[s] = "swap"
               PROVE  current[s] <= revenue'[NationOf(s)]
    BY DEF CopiesAreBehind, NationOf
  <2>1. s # r /\ pc[s] = "swap" /\ NationOf(s) \in Nation
    BY MatchingRows DEF TypeOK, PcAgreesWithMatch
  <2>2. current[s] <= revenue[NationOf(s)]
    BY <2>1 DEF CopiesAreBehind
  <2>3. revenue[NationOf(s)] <= revenue'[NationOf(s)]
    BY <1>0, <1>2, <2>1, InputAssumption DEF TypeOK, Word
  <2>4. current[s] \in Nat /\ revenue[NationOf(s)] \in Nat /\ revenue'[NationOf(s)] \in Nat
    BY <1>3, <2>1, InputAssumption DEF TypeOK, Word
  <2>5. QED
    BY <2>2, <2>3, <2>4
<1>6. PcAgreesWithMatch'
  BY DEF PcAgreesWithMatch, TypeOK, Matches, NationOf
<1>7. FlagHasACause'
  BY DEF FlagHasACause, TypeOK, RowsOf, Matches, NationOf
<1>8. Counted' = Counted
  BY DEF Counted, TypeOK
<1>9. QED
  BY <1>3, <1>4, <1>5, <1>6, <1>7, <1>8, SameCount

\* A thread gives up only when its nation really cannot hold all its rows:
\* its copy is behind the cell, and the cell is a partial sum without it.
LEMMA RaiseOverflowPreserves ==
  ASSUME IInv, NEW r \in Row, RaiseOverflow(r) PROVE IInv'
<1> USE DEF IInv, RaiseOverflow
<1> DEFINE m == NationOf(r)
<1>0. /\ m \in Nation /\ r \in RowsOf(m)
      /\ Revenue(r) \in 0 .. MaxI64
      /\ revenue[m] \in Nat /\ current[r] \in Nat /\ MaxI64 \in Nat
  BY MatchingRows, RevenueFits, InputAssumption DEF PcAgreesWithMatch, TypeOK, Word
<1>1. TypeOK'
  BY DEF TypeOK, Finished
<1>2. NoLostUpdate'
  BY SameCells DEF TypeOK
<1>3. CopiesAreBehind' /\ PcAgreesWithMatch'
  BY DEF CopiesAreBehind, PcAgreesWithMatch, TypeOK, Matches, NationOf
<1>4. Total[RowsOf(m)] > MaxI64
  <2>1. r \notin AddedTo(m) /\ AddedTo(m) \in SUBSET Row
        /\ AddedTo(m) \cup {r} \in SUBSET RowsOf(m) /\ RowsOf(m) \in SUBSET Row
    BY <1>0 DEF AddedTo, RowsOf
  <2>2. Total[AddedTo(m) \cup {r}] = revenue[m] + Revenue(r)
    BY <1>0, <2>1, TotalOfOneMore DEF NoLostUpdate
  <2>3. Total[AddedTo(m) \cup {r}] <= Total[RowsOf(m)] /\ Total[RowsOf(m)] \in Nat
    BY <2>1, TotalIsMonotone
  <2>4. current[r] <= revenue[m] /\ current[r] + Revenue(r) > MaxI64
    BY <1>0 DEF CopiesAreBehind, Fits
  <2>5. QED
    BY <1>0, <2>2, <2>3, <2>4
<1>5. FlagHasACause'
  BY <1>0, <1>4 DEF FlagHasACause, TypeOK, RowsOf, Matches, NationOf
<1>6. Counted' = Counted
  BY DEF Counted, TypeOK
<1>7. QED
  BY <1>1, <1>2, <1>3, <1>5, <1>6, SameCount

\* Stuttering steps.
LEMMA StutterPreserves == IInv /\ UNCHANGED vars => IInv'
<1> SUFFICES ASSUME IInv, UNCHANGED vars PROVE IInv'
  OBVIOUS
<1> USE DEF IInv, vars
<1>1. TypeOK'
  BY DEF TypeOK
<1>2. NoLostUpdate'
  BY SameCells
<1>3. CopiesAreBehind' /\ PcAgreesWithMatch' /\ FlagHasACause'
  BY DEF CopiesAreBehind, PcAgreesWithMatch, FlagHasACause, RowsOf, Matches, NationOf
<1>4. Counted' = Counted
  BY DEF Counted
<1>5. QED
  BY <1>1, <1>2, <1>3, <1>4, SameCount

-----------------------------------------------------------------------------
\* The inductive invariant: the cells are partial sums, copies lag behind
\* them, and the flag has a cause.
THEOREM Invariance == Spec => []IInv
<1>1. IInv /\ [Next]_vars => IInv'
  BY SkipPreserves, CountMatchPreserves, ReadRevenuePreserves, RetryPreserves,
     SwapPreserves, RaiseOverflowPreserves, StutterPreserves DEF Next, Thread
<1>2. QED
  BY InitEstablishesIInv, <1>1, PTL DEF Spec

\* The kernel's device state keeps its types.
THEOREM TypeCorrect == Spec => []TypeOK
BY Invariance, PTL DEF IInv

\* No update of a cell is lost or applied twice, and no cell passes LLONG_MAX.
THEOREM NoUpdateLost == Spec => []NoLostUpdate
BY Invariance, PTL DEF IInv

\* The overflow flag is a function of the data: the interleaving of the
\* threads cannot raise it when the sums fit, nor hide a sum that does not.
THEOREM OverflowIsDeterministic == Spec => []OverflowIffSumTooLarge
<1>1. IInv => OverflowIffSumTooLarge
  <2> SUFFICES ASSUME IInv, GridDone, NEW n \in Nation, Total[RowsOf(n)] > MaxI64
               PROVE  overflow
    BY DEF OverflowIffSumTooLarge, IInv, FlagHasACause
  <2> USE DEF IInv
  <2>1. AddedTo(n) # RowsOf(n)
    <3> SUFFICES ASSUME AddedTo(n) = RowsOf(n) PROVE FALSE
      OBVIOUS
    <3>1. Total[RowsOf(n)] <= MaxI64
      BY DEF NoLostUpdate
    <3>2. Total[RowsOf(n)] \in Nat /\ MaxI64 \in Nat
      BY TotalAssumption, InputAssumption DEF RowsOf
    <3>3. QED
      BY <3>1, <3>2
  <2>2. PICK r \in RowsOf(n) : pc[r] # "added"
    BY <2>1 DEF AddedTo
  <2>3. pc[r] = "overflowed"
    BY <2>2 DEF GridDone, Finished, PcAgreesWithMatch, RowsOf
  <2>4. QED
    BY <2>2, <2>3 DEF FlagHasACause, RowsOf
<1>2. QED
  BY <1>1, Invariance, PTL

\* When the grid is done and the flag is down the host reads exact sums and
\* an exact match count.
THEOREM ResultIsExact == Spec => []ResultExact
<1>1. IInv => ResultExact
  <2> SUFFICES ASSUME IInv, GridDone, ~overflow
               PROVE  /\ \A n \in Nation : revenue[n] = Total[RowsOf(n)]
                      /\ matched = Cardinality({r \in Row : Matches(r)})
    BY DEF ResultExact
  <2> USE DEF IInv
  <2>1. \A r \in Row : pc[r] = IF Matches(r) THEN "added" ELSE "skipped"
    BY DEF GridDone, Finished, FlagHasACause, PcAgreesWithMatch
  <2>2. \A n \in Nation : AddedTo(n) = RowsOf(n)
    BY <2>1 DEF AddedTo, RowsOf
  <2>3. Counted = {r \in Row : Matches(r)}
    BY <2>1 DEF Counted
  <2>4. QED
    BY <2>2, <2>3 DEF NoLostUpdate, CountIsExact
<1>2. QED
  BY <1>1, Invariance, PTL

-----------------------------------------------------------------------------
(***************************************************************************)
(* The lock-free loop implements the one-step-per-row accumulator: a       *)
(* successful swap is an Add, giving up is a Refuse, all else stutters.    *)
(***************************************************************************)
Todo == {r \in Row : Matches(r) /\ pc[r] \notin Finished}

LEMMA AccumulatorInit == Init => Accumulator!Init
BY DEF Init, Accumulator!Init, Finished

LEMMA AccumulatorStep == IInv /\ [Next]_vars => [Accumulator!Next]_(Accumulator!avars)
<1> SUFFICES ASSUME IInv, [Next]_vars
             PROVE  Accumulator!Next \/ UNCHANGED Accumulator!avars
  OBVIOUS
<1> USE DEF IInv
<1>1. CASE UNCHANGED vars
  BY <1>1 DEF vars, Accumulator!avars, Matches, NationOf
<1>2. ASSUME NEW r \in Row, Skip(r) \/ CountMatch(r) \/ ReadRevenue(r) \/ Retry(r)
      PROVE  UNCHANGED Accumulator!avars
  <2>1. UNCHANGED <<revenue, overflow>>
    BY <1>2 DEF Skip, CountMatch, ReadRevenue, Retry
  <2>2. Todo' = Todo
    BY <1>2 DEF Skip, CountMatch, ReadRevenue, Retry, Todo, TypeOK, Finished,
                Matches, NationOf
  <2>3. QED
    BY <2>1, <2>2 DEF Accumulator!avars, Todo
<1>3. ASSUME NEW r \in Row, Swap(r)
      PROVE  Accumulator!Add(r)
  <2>0. /\ Matches(r) /\ NationOf(r) \in Nation
        /\ Revenue(r) \in 0 .. MaxI64 /\ MaxI64 \in Nat
        /\ revenue[NationOf(r)] \in Nat
    BY <1>3, MatchingRows, RevenueFits, InputAssumption
       DEF Swap, PcAgreesWithMatch, TypeOK, Word
  <2>1. revenue[NationOf(r)] + Revenue(r) <= MaxI64
    BY <1>3, <2>0 DEF Swap, Fits
  <2>2. revenue' = [revenue EXCEPT ![NationOf(r)] = revenue[NationOf(r)] + Revenue(r)]
    <3>1. AddWord(revenue[NationOf(r)], Revenue(r)) = revenue[NationOf(r)] + Revenue(r)
      BY <2>0, <2>1, NoWrap
    <3>2. QED
      BY <1>3, <3>1 DEF Swap
  <2>3. Todo' = Todo \ {r} /\ r \in Todo
    BY <1>3, <2>0 DEF Swap, Todo, TypeOK, Finished, Matches, NationOf
  <2>4. overflow' = overflow
    BY <1>3 DEF Swap
  <2>5. QED
    BY <2>0, <2>1, <2>2, <2>3, <2>4 DEF Accumulator!Add, Todo
<1>4. ASSUME NEW r \in Row, RaiseOverflow(r)
      PROVE  Accumulator!Refuse(r)
  <2>0. /\ Matches(r) /\ NationOf(r) \in Nation
        /\ Revenue(r) \in 0 .. MaxI64 /\ MaxI64 \in Nat
        /\ revenue[NationOf(r)] \in Nat /\ current[r] \in Nat
    BY <1>4, MatchingRows, RevenueFits, InputAssumption
       DEF RaiseOverflow, PcAgreesWithMatch, TypeOK, Word
  <2>1. revenue[NationOf(r)] + Revenue(r) > MaxI64
    BY <1>4, <2>0 DEF RaiseOverflow, Fits, CopiesAreBehind
  <2>2. Todo' = Todo \ {r} /\ r \in Todo
    BY <1>4, <2>0 DEF RaiseOverflow, Todo, TypeOK, Finished, Matches, NationOf
  <2>3. overflow' = TRUE /\ revenue' = revenue
    BY <1>4 DEF RaiseOverflow
  <2>4. QED
    BY <2>0, <2>1, <2>2, <2>3 DEF Accumulator!Refuse, Todo
<1>5. ASSUME NEW r \in Row, Swap(r) \/ RaiseOverflow(r)
      PROVE  Accumulator!Next
  <2>1. Matches(r)
    BY <1>5 DEF Swap, RaiseOverflow, PcAgreesWithMatch
  <2>2. QED
    BY <1>3, <1>4, <1>5, <2>1 DEF Accumulator!Next
<1>6. QED
  BY <1>1, <1>2, <1>5 DEF Next, Thread

\* Every run of the kernel is a run of the abstract accumulator.
THEOREM KernelImplementsAccumulator == Spec => ImplementsAccumulator
<1>1. Spec => [][Accumulator!Next]_(Accumulator!avars)
  BY Invariance, AccumulatorStep, PTL DEF Spec
<1>2. QED
  BY <1>1, AccumulatorInit, PTL DEF Spec, ImplementsAccumulator, Accumulator!Spec
=============================================================================
