----------------------------- MODULE GpuKernel -----------------------------
(***************************************************************************)
(* The Q5 kernel of q5/src/cuda/q5_arrow_cuda.cu: one CUDA thread per      *)
(* lineitem row looks the row's two keys up in the dense maps of the plan, *)
(* counts the match and adds the row's revenue to its nation with a        *)
(* compare-and-swap loop that refuses to pass LLONG_MAX and raises one     *)
(* shared overflow flag instead.  Every device atomic is one step here, so *)
(* that threads interleave between the read and the compare-and-swap.      *)
(***************************************************************************)
EXTENDS Integers, FiniteSets

CONSTANTS
  Row,          \* the rows of the slice, one thread each
  OrderKey,     \* [Row -> Int], the column l_orderkey
  SupplierKey,  \* [Row -> Int], the column l_suppkey
  Price,        \* [Row -> Nat], l_extendedprice in cents
  Discount,     \* [Row -> Nat], l_discount in hundredths
  OrderMap,     \* order_nation_by_key: 0 .. size-1 -> nation, -1 for none
  SupplierMap,  \* supplier_nation_by_key, likewise
  NationCount,  \* length of revenue_by_nation
  MaxI64,       \* LLONG_MAX
  Total         \* Total[S] is the sum of the revenues of the rows of S

Nation == 0 .. NationCount - 1

(***************************************************************************)
(* unsigned long long: the sum of two words wraps at twice the first value *)
(* that a signed 64 bit integer cannot hold.                               *)
(***************************************************************************)
Word == 0 .. 2 * MaxI64 + 1
AddWord(a, b) == IF a + b \in Word THEN a + b ELSE a + b - 2 * (MaxI64 + 1)

Revenue(r) == Price[r] * (100 - Discount[r])

(***************************************************************************)
(* What prepare_arrow_gpu_input has checked of every row before the launch *)
(***************************************************************************)
ValidRow(r) == Price[r] \in 0 .. MaxI64 \div 100 /\ Discount[r] \in 0 .. 100

ASSUME InputAssumption ==
  /\ IsFiniteSet(Row)
  /\ NationCount \in Nat
  /\ MaxI64 \in Nat
  /\ OrderKey \in [Row -> Int] /\ SupplierKey \in [Row -> Int]
  /\ Price \in [Row -> Int] /\ Discount \in [Row -> Int]
  /\ \A k \in DOMAIN OrderMap : OrderMap[k] \in Int
  /\ \A k \in DOMAIN SupplierMap : SupplierMap[k] \in Int
  /\ \A r \in Row : ValidRow(r)

ASSUME TotalAssumption ==
  /\ Total \in [SUBSET Row -> Nat]
  /\ Total[{}] = 0
  /\ \A r \in Row : Total[{r}] = Revenue(r)
  /\ \A S, T \in SUBSET Row :
       S \cap T = {} => Total[S \cup T] = Total[S] + Total[T]

NationOf(r) == OrderMap[OrderKey[r]]

Matches(r) ==
  /\ OrderKey[r] \in DOMAIN OrderMap
  /\ SupplierKey[r] \in DOMAIN SupplierMap
  /\ NationOf(r) \in Nation
  /\ SupplierMap[SupplierKey[r]] = NationOf(r)

RowsOf(n) == {r \in Row : Matches(r) /\ NationOf(r) = n}

VARIABLES
  revenue,   \* revenue_by_nation
  matched,   \* *matched_rows
  overflow,  \* *overflow # 0
  pc,        \* where each thread is
  current    \* the thread's local copy of its nation's revenue

vars == <<revenue, matched, overflow, pc, current>>

Finished == {"skipped", "added", "overflowed"}

Init ==
  /\ revenue = [n \in Nation |-> 0]
  /\ matched = 0
  /\ overflow = FALSE
  /\ pc = [r \in Row |-> "start"]
  /\ current = [r \in Row |-> 0]

Skip(r) ==
  /\ pc[r] = "start" /\ ~Matches(r)
  /\ pc' = [pc EXCEPT ![r] = "skipped"]
  /\ UNCHANGED <<revenue, matched, overflow, current>>

CountMatch(r) ==
  /\ pc[r] = "start" /\ Matches(r)
  /\ matched' = matched + 1
  /\ pc' = [pc EXCEPT ![r] = "read"]
  /\ UNCHANGED <<revenue, overflow, current>>

ReadRevenue(r) ==
  /\ pc[r] = "read"
  /\ current' = [current EXCEPT ![r] = revenue[NationOf(r)]]
  /\ pc' = [pc EXCEPT ![r] = "swap"]
  /\ UNCHANGED <<revenue, matched, overflow>>

\* Mutant: the limit itself is refused.
FitsStrictly(r) == current[r] < MaxI64 - Revenue(r)

Fits(r) == current[r] <= MaxI64 - Revenue(r)

\* Mutant: the thread gives up without raising the flag.
RaiseOverflowSilent(r) ==
  /\ pc[r] = "swap" /\ ~Fits(r)
  /\ pc' = [pc EXCEPT ![r] = "overflowed"]
  /\ UNCHANGED <<revenue, matched, overflow, current>>

RaiseOverflow(r) ==
  /\ pc[r] = "swap" /\ ~Fits(r)
  /\ overflow' = TRUE
  /\ pc' = [pc EXCEPT ![r] = "overflowed"]
  /\ UNCHANGED <<revenue, matched, current>>

\* Mutant: a plain store instead of the compare-and-swap.
SwapUnchecked(r) ==
  /\ pc[r] = "swap" /\ Fits(r)
  /\ revenue' = [revenue EXCEPT ![NationOf(r)] = AddWord(current[r], Revenue(r))]
  /\ pc' = [pc EXCEPT ![r] = "added"]
  /\ UNCHANGED <<matched, overflow, current>>

Swap(r) ==
  /\ pc[r] = "swap" /\ Fits(r)
  /\ revenue[NationOf(r)] = current[r]
  /\ revenue' = [revenue EXCEPT ![NationOf(r)] = AddWord(current[r], Revenue(r))]
  /\ pc' = [pc EXCEPT ![r] = "added"]
  /\ UNCHANGED <<matched, overflow, current>>

\* Mutant: the loop keeps comparing with its first copy.
RetryStale(r) ==
  /\ pc[r] = "swap" /\ Fits(r)
  /\ revenue[NationOf(r)] # current[r]
  /\ UNCHANGED vars

Retry(r) ==
  /\ pc[r] = "swap" /\ Fits(r)
  /\ revenue[NationOf(r)] # current[r]
  /\ current' = [current EXCEPT ![r] = revenue[NationOf(r)]]
  /\ UNCHANGED <<revenue, matched, overflow, pc>>

Thread(r) ==
  \/ Skip(r) \/ CountMatch(r) \/ ReadRevenue(r)
  \/ RaiseOverflow(r) \/ Swap(r) \/ Retry(r)

Next == \E r \in Row : Thread(r)

(***************************************************************************)
(* A launched grid runs to completion: no thread waits for another, so it  *)
(* is enough that the device goes on scheduling each one.                  *)
(***************************************************************************)
Spec == Init /\ [][Next]_vars /\ \A r \in Row : WF_vars(Thread(r))

-----------------------------------------------------------------------------
GridDone == \A r \in Row : pc[r] \in Finished

AddedTo(n) == {r \in RowsOf(n) : pc[r] = "added"}
Counted == {r \in Row : pc[r] \in {"read", "swap", "added", "overflowed"}}

\* Type invariant of the kernel's device state.
TypeOK ==
  /\ revenue \in [Nation -> Word]
  /\ matched \in Nat
  /\ overflow \in BOOLEAN
  /\ pc \in [Row -> {"start", "read", "swap"} \cup Finished]
  /\ current \in [Row -> Word]

\* checked_atomic_add loses no update and applies none twice: whatever the
\* interleaving, a nation's cell is the sum of the rows that left the loop
\* through a successful compare-and-swap, and it never passes LLONG_MAX.
NoLostUpdate == \A n \in Nation : revenue[n] = Total[AddedTo(n)] /\ revenue[n] <= MaxI64

\* When the grid is done the flag depends on the data alone, not on the order
\* of the threads: it is up exactly when some nation's true sum does not fit.
\* finish_result may therefore trust the cells whenever the flag is down.
OverflowIffSumTooLarge ==
  GridDone => (overflow <=> \E n \in Nation : Total[RowsOf(n)] > MaxI64)

\* What the host may rely on after the stop event: without the flag, every
\* cell is the exact sum of its nation and the match counter counts its rows.
ResultExact ==
  GridDone /\ ~overflow =>
    /\ \A n \in Nation : revenue[n] = Total[RowsOf(n)]
    /\ matched = Cardinality({r \in Row : Matches(r)})

\* The compare-and-swap loops end: a retry needs another thread's success.
GridTerminates == <>GridDone

-----------------------------------------------------------------------------
(***************************************************************************)
(* The abstract accumulator: the rows that match are added one at a time,  *)
(* each in one step, in some order.                                        *)
(***************************************************************************)
Accumulator == INSTANCE Accumulator WITH
  Item <- {r \in Row : Matches(r)},
  CellOf <- [r \in {s \in Row : Matches(s)} |-> NationOf(r)],
  Amount <- [r \in {s \in Row : Matches(s)} |-> Revenue(r)],
  Cell <- Nation,
  Limit <- MaxI64,
  sum <- revenue,
  todo <- {r \in Row : Matches(r) /\ pc[r] \notin Finished},
  flag <- overflow

\* The lock-free loop implements the atomic addition.
ImplementsAccumulator == Accumulator!Spec
=============================================================================
