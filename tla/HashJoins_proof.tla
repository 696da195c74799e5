---------------------------- MODULE HashJoins_proof ----------------------------
(***************************************************************************)
(* Theorems about the hash joins, for all relations and any number of      *)
(* threads.                                                                *)
(*                                                                         *)
(* NoPartitioningJoin, with the barrier that the timing adds.  Nobody      *)
(* probes what is still being built, or is freed already: threads are      *)
(* never more than one barrier apart, the ones that sleep having passed    *)
(* one barrier more than the ones that are awake.  And the join is exact:  *)
(* a chain holds what was stored in its bucket, each row in one place,     *)
(* and a thread has counted the pairs it has passed.  Slices tile both     *)
(* relations, so that the table holds all of R when the probes begin, and  *)
(* the threads' pairs are all of them, once.                               *)
(*                                                                         *)
(* RadixPartition, without write-combining lines.  A pass is a stable sort *)
(* by clusters: the prefix sums of all threads say how many rows come      *)
(* before the part of a thread, its pointers how many come before its next *)
(* row, so that no two rows have one place and those of a cluster fill it. *)
(*                                                                         *)
(* RadixJoin, with and without skew handling.  The threads are in one of a *)
(* few eras, and the eras say which threads may be awake where and what    *)
(* the passes have put in place.  From the tasks of thread 0 on the books  *)
(* balance: the results, the clusters and join tasks of every queue and    *)
(* the skewed cluster that all threads are at have together the matches of *)
(* the join.  In the end every queue is empty, if some thread polls it.    *)
(***************************************************************************)
EXTENDS HashJoins, FiniteSetTheorems, SequenceTheorems, TLAPS

Doubling == INSTANCE Folding
  WITH Op <- LAMBDA c, d, p, k : IF p < c THEN 2 * p ELSE p

-----------------------------------------------------------------------------
(***************************************************************************)
(* Sums of natural numbers over a finite set, in whatever order.           *)
(***************************************************************************)
TotalOf(f, Z) == MapThenSumSet(LAMBDA i : f[i], Z)

\* The function on sets of indices that the sum chooses.
Some(s) == CHOOSE x \in s : TRUE
Adds(it, f, Z) ==
  it = [s \in SUBSET Z |-> IF s = {} THEN 0 ELSE f[Some(s)] + it[s \ {Some(s)}]]

LEMMA TotalIsChosen ==
  ASSUME NEW f, NEW Z
  PROVE  TotalOf(f, Z) = (CHOOSE it : Adds(it, f, Z))[Z]
BY DEF TotalOf, MapThenSumSet, MapThenFoldSet, Adds, Some

\* Induction: what holds of the empty set, and with each further element, holds
\* of a finite set; H has the sets it holds of.
LEMMA GrowingInduction ==
  ASSUME NEW Z, IsFiniteSet(Z), NEW H, {} \in H,
         \A U \in SUBSET Z : \A x \in Z \ U : U \in H => U \cup {x} \in H
  PROVE  Z \in H
<1> DEFINE T == {n \in Nat : \A U \in SUBSET Z : Cardinality(U) = n => U \in H}
<1>1. \A U \in SUBSET Z : IsFiniteSet(U) /\ Cardinality(U) \in Nat
  BY FS_Subset, FS_CardinalityType
<1>2. 0 \in T
  BY <1>1, FS_EmptySet
<1>3. ASSUME NEW n \in T PROVE n + 1 \in T
  <2> SUFFICES ASSUME NEW U \in SUBSET Z, Cardinality(U) = n + 1 PROVE U \in H
    OBVIOUS
  <2>1. n \in Nat
    OBVIOUS
  <2>2. U # {}
    <3>1. ASSUME U = {} PROVE FALSE
      <4>1. Cardinality(U) = 0
        BY <3>1, FS_EmptySet
      <4> HIDE DEF T
      <4> QED
        BY <2>1, <4>1
    <3> QED
      BY <3>1
  <2>3. PICK x \in U : TRUE
    BY <2>2
  <2>4. Cardinality(U \ {x}) = n
    <3>1. Cardinality(U \ {x}) = Cardinality(U) - 1
      BY <1>1, FS_RemoveElement
    <3> HIDE DEF T
    <3> QED
      BY <2>1, <3>1
  <2>5. U \ {x} \in H
    BY <2>4
  <2>6. (U \ {x}) \cup {x} = U /\ x \in Z \ (U \ {x}) /\ U \ {x} \in SUBSET Z
    BY <2>3
  <2>7. (U \ {x}) \cup {x} \in H
    BY <2>5, <2>6
  <2> QED
    BY <2>6, <2>7
<1>4. T = Nat
  <2> HIDE DEF T
  <2>1. T \in SUBSET Nat
    BY DEF T
  <2> QED
    BY <1>2, <1>3, <2>1, Doubling!SetInduction
<1> QED
  BY <1>1, <1>4

LEMMA AddsExists ==
  ASSUME NEW f, NEW Z, IsFiniteSet(Z)
  PROVE  \E it : Adds(it, f, Z)
<1> DEFINE all == SUBSET Z
           Rhs(it, s) == IF s = {} THEN 0 ELSE f[Some(s)] + it[s \ {Some(s)}]
           T == {n \in Nat : \E it : \A s \in all : Cardinality(s) <= n => it[s] = Rhs(it, s)}
<1>1. \A s \in all : IsFiniteSet(s) /\ Cardinality(s) \in Nat
  BY FS_Subset, FS_CardinalityType
<1>2. \A s \in all : s # {} =>
        s \ {Some(s)} \in all /\ Cardinality(s \ {Some(s)}) = Cardinality(s) - 1
  BY <1>1, FS_RemoveElement DEF Some
<1>3. 0 \in T
  <2> DEFINE it == [s \in all |-> 0]
  <2>1. \A s \in all : Cardinality(s) <= 0 => it[s] = Rhs(it, s)
    <3> SUFFICES ASSUME NEW s \in all, Cardinality(s) <= 0 PROVE it[s] = Rhs(it, s)
      OBVIOUS
    <3>1. Cardinality(s) = 0
      BY <1>1
    <3>2. s = {}
      BY <1>1, <3>1, FS_EmptySet
    <3> QED
      BY <3>2
  <2> QED
    BY <2>1
<1>4. ASSUME NEW n \in T PROVE n + 1 \in T
  <2>1. n \in Nat
    OBVIOUS
  <2>2. PICK it : \A s \in all : Cardinality(s) <= n => it[s] = Rhs(it, s)
    OBVIOUS
  <2> DEFINE jt == [s \in all |-> Rhs(it, s)]
  <2>3. ASSUME NEW s \in all, Cardinality(s) <= n + 1 PROVE jt[s] = Rhs(jt, s)
    <3>1. CASE s = {}
      BY <3>1
    <3>2. CASE s # {}
      <4> DEFINE r == s \ {Some(s)}
      <4>1. r \in all /\ Cardinality(r) <= n
        <5> HIDE DEF T
        <5> QED
          BY <1>1, <1>2, <2>1, <2>3, <3>2
      <4>2. jt[r] = Rhs(it, r)
        BY <4>1
      <4>3. it[r] = Rhs(it, r)
        BY <2>2, <4>1
      <4>4. jt[s] = f[Some(s)] + it[r]
        BY <3>2
      <4>5. Rhs(jt, s) = f[Some(s)] + jt[r]
        BY <3>2
      <4> QED
        BY <4>2, <4>3, <4>4, <4>5
    <3> QED
      BY <3>1, <3>2
  <2>4. n + 1 \in Nat
    BY <2>1
  <2> HIDE DEF jt, Rhs
  <2> QED
    BY <2>3, <2>4
<1>5. T = Nat
  <2> HIDE DEF T
  <2>1. T \in SUBSET Nat
    BY DEF T
  <2> QED
    BY <1>3, <1>4, <2>1, Doubling!SetInduction
<1>6. Cardinality(Z) \in T
  BY <1>1, <1>5
<1>7. PICK it : \A s \in all : Cardinality(s) <= Cardinality(Z) => it[s] = Rhs(it, s)
  BY <1>6
<1>8. \A s \in all : Cardinality(s) <= Cardinality(Z)
  BY FS_Subset
<1> DEFINE jt == [s \in all |-> it[s]]
<1>9. \A s \in all : jt[s] = Rhs(jt, s)
  BY <1>2, <1>7, <1>8
<1>10. jt = [s \in all |-> jt[s]]
  OBVIOUS
<1> HIDE DEF jt
<1>11. jt = [s \in all |-> Rhs(jt, s)]
  BY <1>9, <1>10
<1>12. Adds(jt, f, Z)
  BY <1>11 DEF Adds
<1> QED
  BY <1>12

\* Sums over smaller sets are values of the same function.
Agree(f, g, Z) == \A i \in Z : f[i] = g[i]

LEMMA AddsAgree ==
  ASSUME NEW f, NEW g, NEW Z, IsFiniteSet(Z), NEW it, Adds(it, f, Z),
         NEW U \in SUBSET Z, NEW jt, Adds(jt, g, U), Agree(f, g, U)
  PROVE  it[U] = jt[U]
<1> DEFINE T == {n \in Nat : \A s \in SUBSET U : Cardinality(s) = n => it[s] = jt[s]}
<1>1. \A s \in SUBSET U : IsFiniteSet(s) /\ Cardinality(s) \in Nat /\ s \in SUBSET Z
  BY FS_Subset, FS_CardinalityType
<1>2. /\ \A s \in SUBSET Z : it[s] = IF s = {} THEN 0 ELSE f[Some(s)] + it[s \ {Some(s)}]
      /\ \A s \in SUBSET U : jt[s] = IF s = {} THEN 0 ELSE g[Some(s)] + jt[s \ {Some(s)}]
  BY DEF Adds
<1>3. 0 \in T
  BY <1>1, <1>2, FS_EmptySet
<1>4. ASSUME NEW n \in T PROVE n + 1 \in T
  <2> SUFFICES ASSUME NEW s \in SUBSET U, Cardinality(s) = n + 1 PROVE it[s] = jt[s]
    OBVIOUS
  <2>1. n \in Nat
    OBVIOUS
  <2> DEFINE r == s \ {Some(s)}
  <2>2. CASE s = {}
    BY <1>2, <2>2
  <2>3. CASE s # {}
    <3>1. Some(s) \in s
      BY <2>3 DEF Some
    <3>2. Cardinality(r) = n /\ r \in SUBSET U
      <4>1. Cardinality(r) = Cardinality(s) - 1
        BY <1>1, <3>1, FS_RemoveElement
      <4> HIDE DEF T
      <4> QED
        BY <2>1, <4>1
    <3>3. it[r] = jt[r] /\ f[Some(s)] = g[Some(s)]
      BY <3>1, <3>2 DEF Agree
    <3> HIDE DEF T
    <3> QED
      BY <1>1, <1>2, <2>3, <3>3
  <2> QED
    BY <2>2, <2>3
<1>5. T = Nat
  <2> HIDE DEF T
  <2>1. T \in SUBSET Nat
    BY DEF T
  <2> QED
    BY <1>3, <1>4, <2>1, Doubling!SetInduction
<1> QED
  BY <1>1, <1>5

\* The sum takes out one element after the other.
LEMMA TotalUnfolds ==
  ASSUME NEW f, NEW Z, IsFiniteSet(Z)
  PROVE  /\ TotalOf(f, {}) = 0
         /\ Z # {} => TotalOf(f, Z) = f[Some(Z)] + TotalOf(f, Z \ {Some(Z)})
<1>1. \A U \in SUBSET Z : IsFiniteSet(U)
  BY FS_Subset
<1> DEFINE it(U) == CHOOSE j : Adds(j, f, U)
<1>2. \A U \in SUBSET Z : Adds(it(U), f, U)
  BY <1>1, AddsExists
<1>3. \A U \in SUBSET Z : TotalOf(f, U) = it(U)[U]
  BY TotalIsChosen
<1> HIDE DEF it
<1>4. ASSUME NEW U \in SUBSET Z PROVE it(Z)[U] = it(U)[U]
  <2> DEFINE i == it(Z)
             j == it(U)
  <2>1. Adds(i, f, Z) /\ Adds(j, f, U)
    BY <1>2
  <2> HIDE DEF i, j
  <2>2. i[U] = j[U]
    <3>1. Agree(f, f, U)
      BY DEF Agree
    <3> QED
      BY <2>1, <3>1, AddsAgree
  <2> QED
    BY <2>2 DEF i, j
<1>5. Adds(it(Z), f, Z)
  BY <1>2
<1>6. \A U \in SUBSET Z : it(Z)[U] = IF U = {} THEN 0 ELSE f[Some(U)] + it(Z)[U \ {Some(U)}]
  BY <1>5 DEF Adds
<1>7. Z \ {Some(Z)} \in SUBSET Z /\ {} \in SUBSET Z /\ Z \in SUBSET Z
  OBVIOUS
<1>8. \A U \in SUBSET Z : TotalOf(f, U) = it(Z)[U]
  BY <1>3, <1>4
<1> QED
  BY <1>6, <1>7, <1>8

\* Functions with the same values on a set have the same sum over it.
LEMMA TotalsAgree ==
  ASSUME NEW f, NEW g, NEW Z, IsFiniteSet(Z), \A i \in Z : f[i] = g[i]
  PROVE  TotalOf(f, Z) = TotalOf(g, Z)
<1> DEFINE it == CHOOSE j : Adds(j, f, Z)
           jt == CHOOSE j : Adds(j, g, Z)
<1>1. Adds(it, f, Z) /\ Adds(jt, g, Z)
  BY AddsExists
<1>2. TotalOf(f, Z) = it[Z] /\ TotalOf(g, Z) = jt[Z]
  BY TotalIsChosen
<1> HIDE DEF it, jt
<1>3. it[Z] = jt[Z]
  <2>1. Agree(f, g, Z)
    BY DEF Agree
  <2> QED
    BY <1>1, <2>1, AddsAgree
<1> QED
  BY <1>2, <1>3

LEMMA TotalIsNat ==
  ASSUME NEW Z, IsFiniteSet(Z), NEW f, \A i \in Z : f[i] \in Nat
  PROVE  TotalOf(f, Z) \in Nat
<1> DEFINE T == {n \in Nat : \A U \in SUBSET Z : Cardinality(U) = n => TotalOf(f, U) \in Nat}
<1>1. \A U \in SUBSET Z : IsFiniteSet(U) /\ Cardinality(U) \in Nat
  BY FS_Subset, FS_CardinalityType
<1>2. 0 \in T
  BY <1>1, FS_EmptySet, TotalUnfolds
<1>3. ASSUME NEW n \in T PROVE n + 1 \in T
  <2> SUFFICES ASSUME NEW U \in SUBSET Z, Cardinality(U) = n + 1 PROVE TotalOf(f, U) \in Nat
    OBVIOUS
  <2>1. n \in Nat
    OBVIOUS
  <2>2. CASE U = {}
    BY <1>1, <2>2, TotalUnfolds
  <2>3. CASE U # {}
    <3>1. Some(U) \in U /\ U \ {Some(U)} \in SUBSET Z
      BY <2>3 DEF Some
    <3>2. Cardinality(U \ {Some(U)}) = n
      <4>1. Cardinality(U \ {Some(U)}) = Cardinality(U) - 1
        BY <1>1, <3>1, FS_RemoveElement
      <4> HIDE DEF T
      <4> QED
        BY <2>1, <4>1
    <3>3. TotalOf(f, U \ {Some(U)}) \in Nat /\ f[Some(U)] \in Nat
      BY <3>1, <3>2
    <3>4. TotalOf(f, U) = f[Some(U)] + TotalOf(f, U \ {Some(U)})
      BY <1>1, <2>3, TotalUnfolds
    <3> QED
      BY <3>3, <3>4
  <2> QED
    BY <2>2, <2>3
<1>4. T = Nat
  <2> HIDE DEF T
  <2>1. T \in SUBSET Nat
    BY DEF T
  <2> QED
    BY <1>2, <1>3, <2>1, Doubling!SetInduction
<1> QED
  BY <1>1, <1>4

\* Any element may be taken out.
LEMMA TotalWithout ==
  ASSUME NEW Z, IsFiniteSet(Z), NEW f, \A i \in Z : f[i] \in Nat
  PROVE  /\ TotalOf(f, Z) \in Nat
         /\ \A x \in Z : TotalOf(f, Z) = f[x] + TotalOf(f, Z \ {x})
<1> DEFINE Fine(U) == /\ TotalOf(f, U) \in Nat
                      /\ \A x \in U : TotalOf(f, U) = f[x] + TotalOf(f, U \ {x})
           T == {n \in Nat : \A U \in SUBSET Z : Cardinality(U) = n => Fine(U)}
<1>1. \A U \in SUBSET Z : IsFiniteSet(U) /\ Cardinality(U) \in Nat
  BY FS_Subset, FS_CardinalityType
<1>2. \A U \in SUBSET Z : \A x \in U :
        U \ {x} \in SUBSET Z /\ Cardinality(U \ {x}) = Cardinality(U) - 1
  BY <1>1, FS_RemoveElement
<1>3. 0 \in T
  <2> SUFFICES ASSUME NEW U \in SUBSET Z, Cardinality(U) = 0 PROVE Fine(U)
    <3> HIDE DEF Fine
    <3> QED
      OBVIOUS
  <2>1. U = {}
    BY <1>1, FS_EmptySet
  <2> QED
    BY <1>1, <2>1, TotalUnfolds
<1>4. ASSUME NEW n \in T PROVE n + 1 \in T
  <2> SUFFICES ASSUME NEW U \in SUBSET Z, Cardinality(U) = n + 1 PROVE Fine(U)
    <3> HIDE DEF Fine
    <3> QED
      OBVIOUS
  <2>1. n \in Nat
    OBVIOUS
  <2>2. \A x \in U : U \ {x} \in SUBSET Z /\ Cardinality(U \ {x}) = n
    <3> HIDE DEF T
    <3> QED
      BY <1>2, <2>1
  <2>3. \A x \in U : Fine(U \ {x})
    <3> HIDE DEF Fine
    <3> QED
      BY <2>2
  <2>4. U # {}
    <3>1. Cardinality({}) = 0
      BY FS_EmptySet
    <3> HIDE DEF T
    <3> QED
      BY <2>1, <3>1
  <2> DEFINE y == Some(U)
             rest == U \ {y}
  <2>5. y \in U
    BY <2>4 DEF Some
  <2>6. TotalOf(f, U) = f[y] + TotalOf(f, rest)
    BY <1>1, <2>4, TotalUnfolds
  <2> HIDE DEF y
  <2>7. TotalOf(f, rest) \in Nat /\ f[y] \in Nat
    BY <2>3, <2>5
  <2>8. ASSUME NEW x \in U, x # y PROVE TotalOf(f, U) = f[x] + TotalOf(f, U \ {x})
    <3>1. TotalOf(f, rest) = f[x] + TotalOf(f, rest \ {x})
      BY <2>3, <2>5, <2>8
    <3>2. TotalOf(f, U \ {x}) = f[y] + TotalOf(f, (U \ {x}) \ {y})
      BY <2>3, <2>5, <2>8
    <3>3. rest \ {x} = (U \ {x}) \ {y}
      OBVIOUS
    <3>4. f[x] \in Nat /\ f[y] \in Nat /\ TotalOf(f, rest \ {x}) \in Nat
      <4>1. IsFiniteSet(rest \ {x}) /\ \A i \in rest \ {x} : f[i] \in Nat
        BY <1>1
      <4> QED
        BY <2>5, <4>1, TotalIsNat
    <3> HIDE DEF rest
    <3> QED
      BY <2>6, <3>1, <3>2, <3>3, <3>4
  <2>9. \A x \in U : TotalOf(f, U) = f[x] + TotalOf(f, U \ {x})
    BY <2>6, <2>8
  <2>10. TotalOf(f, U) \in Nat
    <3> HIDE DEF rest
    <3> QED
      BY <2>6, <2>7
  <2> QED
    BY <2>9, <2>10
<1>5. T = Nat
  <2> HIDE DEF T
  <2>1. T \in SUBSET Nat
    BY DEF T
  <2> QED
    BY <1>3, <1>4, <2>1, Doubling!SetInduction
<1> QED
  BY <1>1, <1>5

\* One more element adds its value.
LEMMA TotalWith ==
  ASSUME NEW Z, IsFiniteSet(Z), NEW x, x \notin Z,
         NEW f, \A i \in Z \cup {x} : f[i] \in Nat
  PROVE  TotalOf(f, Z \cup {x}) = f[x] + TotalOf(f, Z)
<1>1. IsFiniteSet(Z \cup {x})
  BY FS_AddElement
<1>2. (Z \cup {x}) \ {x} = Z
  OBVIOUS
<1>3. TotalOf(f, Z \cup {x}) = f[x] + TotalOf(f, (Z \cup {x}) \ {x})
  BY <1>1, TotalWithout
<1> QED
  BY <1>2, <1>3

\* Sums over sets that have nothing in common.
LEMMA TotalOfUnion ==
  ASSUME NEW Z, IsFiniteSet(Z), NEW U, IsFiniteSet(U), Z \cap U = {},
         NEW f, \A i \in Z \cup U : f[i] \in Nat
  PROVE  TotalOf(f, Z \cup U) = TotalOf(f, Z) + TotalOf(f, U)
<1> DEFINE H == {V \in SUBSET U : TotalOf(f, Z \cup V) = TotalOf(f, Z) + TotalOf(f, V)}
<1>1. TotalOf(f, Z) \in Nat
  BY TotalIsNat
<1>2. {} \in H
  <2>1. Z \cup {} = Z /\ TotalOf(f, {}) = 0
    BY TotalUnfolds
  <2> QED
    BY <1>1, <2>1
<1>3. ASSUME NEW V \in SUBSET U, NEW x \in U \ V, V \in H PROVE V \cup {x} \in H
  <2>1. IsFiniteSet(V) /\ IsFiniteSet(Z \cup V)
    BY FS_Subset, FS_Union
  <2>2. TotalOf(f, V \cup {x}) = f[x] + TotalOf(f, V)
    BY <2>1, TotalWith
  <2>3. x \notin Z \cup V /\ Z \cup (V \cup {x}) = (Z \cup V) \cup {x}
        /\ \A i \in (Z \cup V) \cup {x} : f[i] \in Nat
    BY <1>3
  <2> DEFINE both == Z \cup V
  <2> HIDE DEF both
  <2>4. TotalOf(f, both \cup {x}) = f[x] + TotalOf(f, both)
    BY <2>1, <2>3, TotalWith DEF both
  <2>5. TotalOf(f, V) \in Nat /\ f[x] \in Nat
    BY <2>1, TotalIsNat
  <2>6. TotalOf(f, Z \cup V) = TotalOf(f, Z) + TotalOf(f, V)
    BY <1>3
  <2>7. TotalOf(f, Z \cup (V \cup {x})) = f[x] + (TotalOf(f, Z) + TotalOf(f, V))
    BY <2>3, <2>4, <2>6 DEF both
  <2>8. TotalOf(f, Z \cup (V \cup {x})) = TotalOf(f, Z) + TotalOf(f, V \cup {x})
    BY <1>1, <2>2, <2>5, <2>7
  <2> QED
    BY <2>8
<1>4. U \in H
  <2> HIDE DEF H
  <2> QED
    BY <1>2, <1>3, GrowingInduction
<1> QED
  BY <1>4

LEMMA TotalOfZeros ==
  ASSUME NEW Z, IsFiniteSet(Z), NEW f, \A i \in Z : f[i] = 0
  PROVE  TotalOf(f, Z) = 0
<1> DEFINE H == {V \in SUBSET Z : TotalOf(f, V) = 0}
<1>1. {} \in H
  BY TotalUnfolds
<1>2. ASSUME NEW V \in SUBSET Z, NEW x \in Z \ V, V \in H PROVE V \cup {x} \in H
  <2>1. IsFiniteSet(V)
    BY FS_Subset
  <2>2. \A i \in V \cup {x} : f[i] = 0 /\ f[i] \in Nat
    BY <1>2
  <2>3. TotalOf(f, V \cup {x}) = f[x] + TotalOf(f, V)
    BY <1>2, <2>1, <2>2, TotalWith
  <2>4. TotalOf(f, V) = 0 /\ f[x] = 0
    BY <1>2
  <2> QED
    BY <2>3, <2>4
<1>3. Z \in H
  <2> HIDE DEF H
  <2> QED
    BY <1>1, <1>2, GrowingInduction
<1> QED
  BY <1>3

\* Where the value is 0 there is nothing to add.
LEMMA TotalOnPart ==
  ASSUME NEW Z, IsFiniteSet(Z), NEW U \in SUBSET Z,
         NEW f, \A i \in U : f[i] \in Nat, \A i \in Z \ U : f[i] = 0
  PROVE  TotalOf(f, Z) = TotalOf(f, U)
<1> DEFINE rest == Z \ U
<1>1. IsFiniteSet(U) /\ IsFiniteSet(rest) /\ U \cap rest = {} /\ U \cup rest = Z
  BY FS_Subset
<1>2. TotalOf(f, rest) = 0
  BY <1>1, TotalOfZeros
<1>3. \A i \in U \cup rest : f[i] \in Nat
  OBVIOUS
<1> HIDE DEF rest
<1>4. TotalOf(f, U \cup rest) = TotalOf(f, U) + TotalOf(f, rest)
  BY <1>1, <1>3, TotalOfUnion
<1>5. TotalOf(f, U) \in Nat
  BY <1>1, TotalIsNat
<1> QED
  BY <1>1, <1>2, <1>4, <1>5

\* One value that changes.
LEMMA TotalChanged ==
  ASSUME NEW Z, IsFiniteSet(Z), NEW b \in Z,
         NEW f, \A i \in Z : f[i] \in Nat, NEW g, \A i \in Z : g[i] \in Nat,
         \A i \in Z : i # b => g[i] = f[i]
  PROVE  TotalOf(g, Z) + f[b] = TotalOf(f, Z) + g[b]
<1> DEFINE rest == Z \ {b}
<1>1. IsFiniteSet(rest)
  BY FS_Subset
<1>2. TotalOf(g, rest) = TotalOf(f, rest)
  BY <1>1, TotalsAgree
<1>3. TotalOf(g, Z) = g[b] + TotalOf(g, rest) /\ TotalOf(f, Z) = f[b] + TotalOf(f, rest)
  BY TotalWithout
<1>4. TotalOf(f, rest) \in Nat /\ f[b] \in Nat /\ g[b] \in Nat
  BY <1>1, TotalIsNat
<1> HIDE DEF rest
<1> QED
  BY <1>2, <1>3, <1>4

\* The same values under other indices: h takes those of Z to those of U.
Carries(h, f, Z, g, U) ==
  /\ \A i \in Z : f[i] \in Nat /\ h[i] \in U /\ g[h[i]] = f[i]
  /\ \A i, j \in Z : h[i] = h[j] => i = j
  /\ \A u \in U : \E i \in Z : h[i] = u

LEMMA TotalMoved ==
  ASSUME NEW Z, IsFiniteSet(Z), NEW f, NEW h, NEW g, NEW U, Carries(h, f, Z, g, U)
  PROVE  TotalOf(g, U) = TotalOf(f, Z)
<1>0. /\ \A i \in Z : f[i] \in Nat /\ h[i] \in U /\ g[h[i]] = f[i]
      /\ \A i, j \in Z : h[i] = h[j] => i = j
      /\ \A u \in U : \E i \in Z : h[i] = u
  BY DEF Carries
<1> DEFINE H == {V \in SUBSET Z : /\ IsFiniteSet({h[i] : i \in V})
                                  /\ TotalOf(g, {h[i] : i \in V}) = TotalOf(f, V)}
<1>1. {} \in H
  <2>1. {h[i] : i \in {}} = {}
    OBVIOUS
  <2>2. TotalOf(f, {}) = 0 /\ TotalOf(g, {}) = 0 /\ IsFiniteSet({})
    BY TotalUnfolds, FS_EmptySet
  <2> QED
    BY <2>1, <2>2
<1>2. ASSUME NEW V \in SUBSET Z, NEW x \in Z \ V, V \in H PROVE V \cup {x} \in H
  <2> DEFINE there == {h[i] : i \in V}
  <2>1. {h[i] : i \in V \cup {x}} = there \cup {h[x]}
    OBVIOUS
  <2>2. h[x] \notin there /\ \A i \in there \cup {h[x]} : g[i] \in Nat
    BY <1>0
  <2>3. IsFiniteSet(there) /\ IsFiniteSet(V) /\ TotalOf(g, there) = TotalOf(f, V)
    BY <1>2, FS_Subset
  <2>4. TotalOf(f, V \cup {x}) = f[x] + TotalOf(f, V)
    BY <1>0, <2>3, TotalWith
  <2> HIDE DEF there
  <2>5. TotalOf(g, there \cup {h[x]}) = g[h[x]] + TotalOf(g, there)
    BY <2>2, <2>3, TotalWith
  <2>6. IsFiniteSet(there \cup {h[x]})
    BY <2>3, FS_AddElement
  <2> QED
    BY <1>0, <2>1, <2>3, <2>4, <2>5, <2>6
<1>3. Z \in H
  <2> HIDE DEF H
  <2> QED
    BY <1>1, <1>2, GrowingInduction
<1>4. {h[i] : i \in Z} = U
  BY <1>0
<1> QED
  BY <1>3, <1>4

\* Sums of sums over sets that have nothing in common.
LEMMA TotalOfTotals ==
  ASSUME NEW N, IsFiniteSet(N), NEW X, IsFiniteSet(X), NEW D, \A n \in N : D[n] \in SUBSET X,
         \A n, m \in N : n # m => D[n] \cap D[m] = {},
         NEW w, \A i \in X : w[i] \in Nat,
         NEW f, \A n \in N : f[n] = TotalOf(w, D[n])
  PROVE  TotalOf(f, N) = TotalOf(w, UNION {D[n] : n \in N})
<1> DEFINE All(V) == UNION {D[n] : n \in V}
           H == {V \in SUBSET N : TotalOf(f, V) = TotalOf(w, All(V))}
<1>1. {} \in H
  <2>1. All({}) = {}
    OBVIOUS
  <2>2. TotalOf(f, {}) = 0 /\ TotalOf(w, {}) = 0
    BY TotalUnfolds, FS_EmptySet
  <2> HIDE DEF All
  <2> QED
    BY <2>1, <2>2
<1>2. ASSUME NEW V \in SUBSET N, NEW x \in N \ V, V \in H PROVE V \cup {x} \in H
  <2>1. All(V \cup {x}) = All(V) \cup D[x] /\ All(V) \cap D[x] = {}
    OBVIOUS
  <2>2. All(V) \in SUBSET X /\ D[x] \in SUBSET X
    OBVIOUS
  <2>3. TotalOf(f, V) = TotalOf(w, All(V)) /\ f[x] = TotalOf(w, D[x])
    BY <1>2
  <2> HIDE DEF All
  <2>4. IsFiniteSet(All(V)) /\ IsFiniteSet(D[x]) /\ IsFiniteSet(V)
    BY <2>2, FS_Subset
  <2>5. TotalOf(w, All(V) \cup D[x]) = TotalOf(w, All(V)) + TotalOf(w, D[x])
    BY <2>1, <2>2, <2>4, TotalOfUnion
  <2>6. \A n \in N : f[n] \in Nat
    <3> SUFFICES ASSUME NEW n \in N PROVE f[n] \in Nat
      OBVIOUS
    <3>1. IsFiniteSet(D[n]) /\ \A i \in D[n] : w[i] \in Nat
      BY FS_Subset
    <3> QED
      BY <3>1, TotalIsNat
  <2>7. TotalOf(f, V \cup {x}) = f[x] + TotalOf(f, V)
    BY <2>4, <2>6, TotalWith
  <2>8. TotalOf(w, All(V)) \in Nat /\ f[x] \in Nat
    BY <2>2, <2>4, <2>6, TotalIsNat
  <2>9. TotalOf(w, All(V \cup {x})) = TotalOf(w, All(V) \cup D[x])
    BY <2>1
  <2>10. TotalOf(w, All(V) \cup D[x]) = f[x] + TotalOf(w, All(V))
    BY <2>3, <2>5, <2>8
  <2>11. TotalOf(f, V \cup {x}) = TotalOf(w, All(V \cup {x}))
    BY <2>3, <2>7, <2>9, <2>10
  <2> QED
    BY <2>11
<1>3. N \in H
  <2> HIDE DEF H
  <2> QED
    BY <1>1, <1>2, GrowingInduction
<1> QED
  BY <1>3

\* Sets that have nothing in common have together as many elements as their union.
LEMMA TotalOfSizes ==
  ASSUME NEW N, IsFiniteSet(N), NEW X, IsFiniteSet(X), NEW D, \A n \in N : D[n] \in SUBSET X,
         \A n, m \in N : n # m => D[n] \cap D[m] = {},
         NEW f, \A n \in N : f[n] = Cardinality(D[n])
  PROVE  TotalOf(f, N) = Cardinality(UNION {D[n] : n \in N})
<1> DEFINE All(V) == UNION {D[n] : n \in V}
           H == {V \in SUBSET N : TotalOf(f, V) = Cardinality(All(V))}
<1>1. {} \in H
  <2>1. All({}) = {}
    OBVIOUS
  <2>2. TotalOf(f, {}) = 0 /\ Cardinality({}) = 0
    BY TotalUnfolds, FS_EmptySet
  <2> HIDE DEF All
  <2> QED
    BY <2>1, <2>2
<1>2. ASSUME NEW V \in SUBSET N, NEW x \in N \ V, V \in H PROVE V \cup {x} \in H
  <2>1. All(V \cup {x}) = All(V) \cup D[x] /\ All(V) \cap D[x] = {}
    OBVIOUS
  <2>2. All(V) \in SUBSET X /\ D[x] \in SUBSET X
    OBVIOUS
  <2>3. TotalOf(f, V) = Cardinality(All(V)) /\ f[x] = Cardinality(D[x])
    BY <1>2
  <2> HIDE DEF All
  <2>4. IsFiniteSet(All(V)) /\ IsFiniteSet(D[x]) /\ IsFiniteSet(V)
    BY <2>2, FS_Subset
  <2>5. Cardinality(All(V) \cup D[x])
          = Cardinality(All(V)) + Cardinality(D[x]) - Cardinality(All(V) \cap D[x])
    BY <2>4, FS_Union
  <2>6. \A n \in N : f[n] \in Nat
    <3> SUFFICES ASSUME NEW n \in N PROVE f[n] \in Nat
      OBVIOUS
    <3>1. IsFiniteSet(D[n])
      BY FS_Subset
    <3> QED
      BY <3>1, FS_CardinalityType
  <2>7. TotalOf(f, V \cup {x}) = f[x] + TotalOf(f, V)
    BY <2>4, <2>6, TotalWith
  <2>8. Cardinality(All(V)) \in Nat /\ f[x] \in Nat /\ Cardinality(All(V) \cap D[x]) = 0
    BY <2>1, <2>4, <2>6, FS_CardinalityType, FS_EmptySet
  <2>9. Cardinality(All(V \cup {x})) = Cardinality(All(V) \cup D[x])
    BY <2>1
  <2>10. Cardinality(All(V) \cup D[x]) = f[x] + Cardinality(All(V))
    BY <2>3, <2>5, <2>8
  <2>11. TotalOf(f, V \cup {x}) = Cardinality(All(V \cup {x}))
    BY <2>3, <2>7, <2>9, <2>10
  <2> QED
    BY <2>11
<1>3. N \in H
  <2> HIDE DEF H
  <2> QED
    BY <1>1, <1>2, GrowingInduction
<1> QED
  BY <1>3

-----------------------------------------------------------------------------
(***************************************************************************)
(* What the elements of a queue add up to, w giving the value of each.     *)
(***************************************************************************)
QueueTotal(w, q) == TotalOf([k \in DOMAIN q |-> w[q[k]]], DOMAIN q)

LEMMA PositionsAreFinite ==
  ASSUME NEW X, NEW q \in Seq(X)
  PROVE  DOMAIN q = 1 .. Len(q) /\ Len(q) \in Nat /\ IsFiniteSet(DOMAIN q)
<1>1. DOMAIN q = 1 .. Len(q) /\ Len(q) \in Nat
  OBVIOUS
<1>2. IsFiniteSet(1 .. Len(q))
  BY <1>1, FS_Interval
<1> QED
  BY <1>1, <1>2

LEMMA QueueIsNat ==
  ASSUME NEW X, NEW w, \A x \in X : w[x] \in Nat, NEW q \in Seq(X)
  PROVE  QueueTotal(w, q) \in Nat
<1> DEFINE f == [k \in DOMAIN q |-> w[q[k]]]
<1>1. \A k \in DOMAIN q : f[k] \in Nat
  OBVIOUS
<1> HIDE DEF f
<1>2. TotalOf(f, DOMAIN q) \in Nat
  BY <1>1, PositionsAreFinite, TotalIsNat
<1> QED
  BY <1>2 DEF QueueTotal, f

LEMMA QueueOfNothing ==
  ASSUME NEW w PROVE QueueTotal(w, <<>>) = 0
<1>1. DOMAIN <<>> = {}
  OBVIOUS
<1>2. \A f : TotalOf(f, {}) = 0
  BY FS_EmptySet, TotalUnfolds
<1> QED
  BY <1>1, <1>2 DEF QueueTotal

LEMMA QueueOfAppend ==
  ASSUME NEW X, NEW w, \A x \in X : w[x] \in Nat, NEW q \in Seq(X), NEW x \in X
  PROVE  QueueTotal(w, Append(q, x)) = QueueTotal(w, q) + w[x]
<1> DEFINE r == Append(q, x)
           n == Len(q)
           f == [k \in DOMAIN q |-> w[q[k]]]
           g == [k \in DOMAIN r |-> w[r[k]]]
<1>1. n \in Nat /\ DOMAIN q = 1 .. n /\ DOMAIN r = 1 .. n + 1 /\ r \in Seq(X)
      /\ r[n + 1] = x /\ \A k \in 1 .. n : r[k] = q[k]
  OBVIOUS
<1>2. \A k \in 1 .. n + 1 : g[k] \in Nat
  OBVIOUS
<1>3. g[n + 1] = w[x] /\ \A k \in 1 .. n : g[k] = f[k]
  BY <1>1
<1>4. IsFiniteSet(1 .. n) /\ IsFiniteSet(1 .. n + 1)
  BY <1>1, FS_Interval
<1>5. (1 .. n + 1) \ {n + 1} = 1 .. n /\ n + 1 \in 1 .. n + 1
  BY <1>1
<1> HIDE DEF f, g, r, n
<1>6. TotalOf(g, 1 .. n + 1) = g[n + 1] + TotalOf(g, (1 .. n + 1) \ {n + 1})
  BY <1>2, <1>4, <1>5, TotalWithout
<1>7. TotalOf(g, 1 .. n) = TotalOf(f, 1 .. n)
  BY <1>3, <1>4, TotalsAgree
<1>8. QueueTotal(w, q) = TotalOf(f, 1 .. n) /\ QueueTotal(w, r) = TotalOf(g, 1 .. n + 1)
  BY <1>1 DEF QueueTotal, f, g
<1>9. QueueTotal(w, q) \in Nat /\ w[x] \in Nat
  BY QueueIsNat
<1>11. TotalOf(g, 1 .. n + 1) = g[n + 1] + TotalOf(g, 1 .. n)
  BY <1>5, <1>6
<1>10. QueueTotal(w, r) = QueueTotal(w, q) + w[x]
  BY <1>3, <1>7, <1>8, <1>9, <1>11
<1> QED
  BY <1>10 DEF r

LEMMA QueueOfConcat ==
  ASSUME NEW X, NEW w, \A x \in X : w[x] \in Nat, NEW p \in Seq(X), NEW q \in Seq(X)
  PROVE  QueueTotal(w, p \o q) = QueueTotal(w, p) + QueueTotal(w, q)
<1> DEFINE T == {s \in Seq(X) : QueueTotal(w, p \o s) = QueueTotal(w, p) + QueueTotal(w, s)}
<1>0. QueueTotal(w, p) \in Nat
  BY QueueIsNat
<1>1. <<>> \in T
  <2>1. p \o <<>> = p /\ <<>> \in Seq(X)
    OBVIOUS
  <2> QED
    BY <1>0, <2>1, QueueOfNothing
<1>2. ASSUME NEW s \in T, NEW x \in X PROVE Append(s, x) \in T
  <2>1. s \in Seq(X) /\ p \o s \in Seq(X) /\ Append(s, x) \in Seq(X)
        /\ p \o Append(s, x) = Append(p \o s, x)
    OBVIOUS
  <2>2. QueueTotal(w, p \o s) = QueueTotal(w, p) + QueueTotal(w, s)
    OBVIOUS
  <2> DEFINE ps == p \o s
  <2> HIDE DEF ps, T
  <2>3. QueueTotal(w, Append(ps, x)) = QueueTotal(w, ps) + w[x]
    BY <2>1, QueueOfAppend DEF ps
  <2>4. QueueTotal(w, Append(s, x)) = QueueTotal(w, s) + w[x]
    BY <2>1, QueueOfAppend
  <2>5. QueueTotal(w, s) \in Nat /\ w[x] \in Nat
    BY <2>1, QueueIsNat
  <2>6. QueueTotal(w, Append(ps, x)) = QueueTotal(w, p) + QueueTotal(w, Append(s, x))
    BY <1>0, <2>2, <2>3, <2>4, <2>5 DEF ps
  <2> QED
    BY <2>1, <2>6 DEF T, ps
<1>3. T = Seq(X)
  <2> HIDE DEF T
  <2>1. T \in SUBSET Seq(X)
    BY DEF T
  <2> QED
    BY <1>1, <1>2, <2>1, Doubling!SequenceInduction
<1> QED
  BY <1>3

LEMMA QueueOfOne ==
  ASSUME NEW X, NEW w, \A x \in X : w[x] \in Nat, NEW x \in X
  PROVE  QueueTotal(w, <<x>>) = w[x]
<1>1. <<>> \in Seq(X) /\ Append(<<>>, x) = <<x>> /\ w[x] \in Nat
  OBVIOUS
<1>2. QueueTotal(w, Append(<<>>, x)) = QueueTotal(w, <<>>) + w[x]
  BY <1>1, QueueOfAppend
<1> QED
  BY <1>1, <1>2, QueueOfNothing

LEMMA QueueOfHead ==
  ASSUME NEW X, NEW w, \A x \in X : w[x] \in Nat, NEW q \in Seq(X), q # <<>>
  PROVE  /\ Head(q) \in X /\ Tail(q) \in Seq(X) /\ w[Head(q)] \in Nat
         /\ QueueTotal(w, Tail(q)) \in Nat
         /\ QueueTotal(w, q) = w[Head(q)] + QueueTotal(w, Tail(q))
<1>1. Head(q) \in X /\ Tail(q) \in Seq(X) /\ <<Head(q)>> \in Seq(X)
      /\ q = <<Head(q)>> \o Tail(q)
  OBVIOUS
<1>2. \A p \in Seq(X), r \in Seq(X) :
        QueueTotal(w, p \o r) = QueueTotal(w, p) + QueueTotal(w, r)
  BY QueueOfConcat
<1>3. QueueTotal(w, <<Head(q)>>) = w[Head(q)]
  BY <1>1, QueueOfOne
<1>4. QueueTotal(w, Tail(q)) \in Nat
  BY <1>1, QueueIsNat
<1>5. QueueTotal(w, q) = QueueTotal(w, <<Head(q)>>) + QueueTotal(w, Tail(q))
  BY <1>1, <1>2
<1> QED
  BY <1>1, <1>3, <1>4, <1>5

LEMMA QueueReversed ==
  ASSUME NEW X, NEW w, \A x \in X : w[x] \in Nat, NEW q \in Seq(X)
  PROVE  Reverse(q) \in Seq(X) /\ QueueTotal(w, Reverse(q)) = QueueTotal(w, q)
<1> DEFINE T == {s \in Seq(X) : /\ Reverse(s) \in Seq(X)
                                /\ QueueTotal(w, Reverse(s)) = QueueTotal(w, s)}
<1>1. <<>> \in T
  <2>1. Reverse(<<>>) = <<>> /\ <<>> \in Seq(X)
    BY DEF Reverse
  <2> QED
    BY <2>1
<1>2. ASSUME NEW s \in T, NEW x \in X PROVE Append(s, x) \in T
  <2>1. s \in Seq(X) /\ Reverse(s) \in Seq(X) /\ Append(s, x) \in Seq(X) /\ <<x>> \in Seq(X)
        /\ QueueTotal(w, Reverse(s)) = QueueTotal(w, s)
    OBVIOUS
  <2> HIDE DEF T
  <2>2. Reverse(Append(s, x)) = <<x>> \o Reverse(s)
    BY <2>1 DEF Reverse
  <2> DEFINE r == Reverse(s)
  <2> HIDE DEF r
  <2>3. QueueTotal(w, <<x>> \o r) = QueueTotal(w, <<x>>) + QueueTotal(w, r)
    BY <2>1, QueueOfConcat DEF r
  <2>4. QueueTotal(w, <<x>>) = w[x] /\ w[x] \in Nat /\ QueueTotal(w, s) \in Nat
    BY <2>1, QueueOfOne, QueueIsNat
  <2>5. QueueTotal(w, Append(s, x)) = QueueTotal(w, s) + w[x]
    BY <2>1, QueueOfAppend
  <2>6. <<x>> \o r \in Seq(X)
    BY <2>1 DEF r
  <2>7. QueueTotal(w, <<x>> \o r) = QueueTotal(w, Append(s, x))
    BY <2>1, <2>3, <2>4, <2>5 DEF r
  <2> QED
    BY <2>1, <2>2, <2>6, <2>7 DEF T, r
<1>3. T = Seq(X)
  <2> HIDE DEF T
  <2>1. T \in SUBSET Seq(X)
    BY DEF T
  <2> QED
    BY <1>1, <1>2, <2>1, Doubling!SequenceInduction
<1> QED
  BY <1>3

\* A queue that holds each element of a set in one place.
LEMMA QueueOfSet ==
  ASSUME NEW C, NEW w, \A x \in C : w[x] \in Nat, NEW q \in Seq(C),
         \A k, l \in 1 .. Len(q) : q[k] = q[l] => k = l,
         \A c \in C : \E k \in 1 .. Len(q) : q[k] = c
  PROVE  QueueTotal(w, q) = TotalOf(w, C)
<1> DEFINE f == [k \in DOMAIN q |-> w[q[k]]]
           Z == DOMAIN q
<1>1. Z = 1 .. Len(q) /\ IsFiniteSet(Z)
  BY PositionsAreFinite
<1>2. \A k \in Z : f[k] \in Nat /\ q[k] \in C /\ w[q[k]] = f[k]
  OBVIOUS
<1>3. (\A k, l \in Z : q[k] = q[l] => k = l) /\ \A c \in C : \E k \in Z : q[k] = c
  BY <1>1
<1>4. Carries(q, f, Z, w, C)
  <2> HIDE DEF f, Z
  <2> QED
    BY <1>2, <1>3 DEF Carries
<1>5. TotalOf(w, C) = TotalOf(f, Z)
  <2> HIDE DEF f, Z
  <2> QED
    BY <1>1, <1>4, TotalMoved
<1> QED
  BY <1>5 DEF QueueTotal, f, Z

-----------------------------------------------------------------------------
(***************************************************************************)
(* A sequence of queues put one behind the other.                          *)
(***************************************************************************)
Flattens(fl, qs, n) ==
  fl = [i \in 1 .. n |-> IF i = 1 THEN qs[i] ELSE fl[i - 1] \o qs[i]]

LEMMA FlattensExists ==
  ASSUME NEW qs, NEW n \in Nat
  PROVE  \E fl : Flattens(fl, qs, n)
<1> DEFINE T == {k \in Nat : \E fl : Flattens(fl, qs, k)}
<1>1. 0 \in T
  <2>1. 1 .. 0 = {}
    OBVIOUS
  <2>2. Flattens([i \in 1 .. 0 |-> qs], qs, 0)
    BY <2>1 DEF Flattens
  <2> QED
    BY <2>2
<1>2. ASSUME NEW k \in T PROVE k + 1 \in T
  <2>1. PICK fl : Flattens(fl, qs, k)
    OBVIOUS
  <2>2. k \in Nat
    OBVIOUS
  <2> DEFINE gl == [i \in 1 .. k + 1 |-> IF i = 1 THEN qs[i] ELSE fl[i - 1] \o qs[i]]
  <2>3. \A i \in 1 .. k : fl[i] = IF i = 1 THEN qs[i] ELSE fl[i - 1] \o qs[i]
    BY <2>1 DEF Flattens
  <2> HIDE DEF T
  <2>4. \A i \in 1 .. k : gl[i] = fl[i]
    BY <2>2, <2>3
  <2>5. \A i \in 1 .. k + 1 : i # 1 => i - 1 \in 1 .. k
    BY <2>2
  <2>6. \A i \in 1 .. k + 1 : gl[i] = IF i = 1 THEN qs[i] ELSE gl[i - 1] \o qs[i]
    BY <2>4, <2>5
  <2>7. gl = [i \in 1 .. k + 1 |-> gl[i]]
    OBVIOUS
  <2> HIDE DEF gl
  <2>8. Flattens(gl, qs, k + 1)
    BY <2>6, <2>7 DEF Flattens
  <2> QED
    BY <2>2, <2>8 DEF T
<1>3. T = Nat
  <2> HIDE DEF T
  <2>1. T \in SUBSET Nat
    BY DEF T
  <2> QED
    BY <1>1, <1>2, <2>1, Doubling!SetInduction
<1> QED
  BY <1>3

EachTotal(f, w, qs) == \A k \in 1 .. Len(qs) : f[k] = QueueTotal(w, qs[k])

LEMMA QueueFlattened ==
  ASSUME NEW X, NEW w, \A x \in X : w[x] \in Nat, NEW qs \in Seq(Seq(X)),
         NEW f, EachTotal(f, w, qs)
  PROVE  /\ FlattenSeq(qs) \in Seq(X)
         /\ QueueTotal(w, FlattenSeq(qs)) = TotalOf(f, 1 .. Len(qs))
<1> DEFINE n == Len(qs)
           fl == CHOOSE g : Flattens(g, qs, n)
<1>0. \A k \in 1 .. Len(qs) : f[k] = QueueTotal(w, qs[k])
  BY DEF EachTotal
<1>1. n \in Nat /\ \A k \in 1 .. n : qs[k] \in Seq(X)
  OBVIOUS
<1>2. FlattenSeq(qs) = IF n = 0 THEN qs ELSE fl[n]
  BY DEF FlattenSeq, Flattens
<1>3. Flattens(fl, qs, n)
  <2> HIDE DEF n
  <2> QED
    BY <1>1, FlattensExists
<1> HIDE DEF fl
<1>4. CASE n = 0
  <2>1. qs = <<>>
    BY <1>4
  <2>2. 1 .. 0 = {} /\ <<>> \in Seq(X)
    OBVIOUS
  <2>3. TotalOf(f, {}) = 0
    BY FS_EmptySet, TotalUnfolds
  <2> QED
    BY <1>2, <1>4, <2>1, <2>2, <2>3, QueueOfNothing
<1>5. CASE n # 0
  <2> DEFINE T == {k \in Nat : k + 1 <= n => /\ fl[k + 1] \in Seq(X)
                                             /\ QueueTotal(w, fl[k + 1]) = TotalOf(f, 1 .. k + 1)}
  <2>1. \A k \in 1 .. n : fl[k] = IF k = 1 THEN qs[k] ELSE fl[k - 1] \o qs[k]
    BY <1>3 DEF Flattens
  <2>2. \A k \in 1 .. n : f[k] = QueueTotal(w, qs[k]) /\ f[k] \in Nat
    BY <1>0, <1>1, QueueIsNat
  <2>3. ASSUME NEW k \in Nat, k + 1 \in 1 .. n
        PROVE  TotalOf(f, 1 .. k + 1) = f[k + 1] + TotalOf(f, 1 .. k)
    <3>1. IsFiniteSet(1 .. k + 1) /\ (1 .. k + 1) \ {k + 1} = 1 .. k /\ k + 1 \in 1 .. k + 1
      BY FS_Interval
    <3>2. \A i \in 1 .. k + 1 : f[i] \in Nat
      BY <1>1, <2>2, <2>3
    <3>3. TotalOf(f, 1 .. k + 1) = f[k + 1] + TotalOf(f, (1 .. k + 1) \ {k + 1})
      <4> DEFINE Z == 1 .. k + 1
      <4> HIDE DEF Z
      <4> QED
        BY <3>1, <3>2, TotalWithout DEF Z
    <3> QED
      BY <3>1, <3>3
  <2>4. TotalOf(f, 1 .. 0) = 0
    <3>1. 1 .. 0 = {}
      OBVIOUS
    <3> QED
      BY <3>1, FS_EmptySet, TotalUnfolds
  <2> HIDE DEF n
  <2>5. 0 \in T
    <3>1. 0 + 1 \in 1 .. n /\ 0 + 1 = 1
      BY <1>1, <1>5
    <3>2. fl[1] = qs[1] /\ qs[1] \in Seq(X)
      BY <1>1, <2>1, <3>1
    <3>3. TotalOf(f, 1 .. 1) = f[1] + TotalOf(f, 1 .. 0)
      BY <2>3, <3>1
    <3>4. f[1] \in Nat /\ f[1] = QueueTotal(w, qs[1])
      BY <2>2, <3>1
    <3> QED
      BY <2>4, <3>2, <3>3, <3>4
  <2>6. ASSUME NEW k \in T PROVE k + 1 \in T
    <3> SUFFICES ASSUME k + 2 <= n
                 PROVE  /\ fl[k + 2] \in Seq(X)
                        /\ QueueTotal(w, fl[k + 2]) = TotalOf(f, 1 .. k + 2)
      OBVIOUS
    <3>1. k \in Nat /\ fl[k + 1] \in Seq(X) /\ QueueTotal(w, fl[k + 1]) = TotalOf(f, 1 .. k + 1)
      BY <1>1
    <3> HIDE DEF T
    <3>2. k + 2 \in 1 .. n /\ k + 2 # 1 /\ (k + 2) - 1 = k + 1 /\ (k + 1) + 1 = k + 2
          /\ k + 1 \in Nat
      BY <1>1, <3>1
    <3>3. fl[k + 2] = fl[k + 1] \o qs[k + 2] /\ qs[k + 2] \in Seq(X)
      BY <1>1, <2>1, <3>2
    <3>4. TotalOf(f, 1 .. k + 2) = f[k + 2] + TotalOf(f, 1 .. k + 1)
      BY <2>3, <3>2
    <3> DEFINE p == fl[k + 1]
               r == qs[k + 2]
    <3>8. p \in Seq(X) /\ r \in Seq(X)
      BY <3>1, <3>3
    <3> HIDE DEF p, r
    <3>9. p \o r \in Seq(X)
      BY <3>8
    <3>5. QueueTotal(w, p \o r) = QueueTotal(w, p) + QueueTotal(w, r)
      BY <3>8, QueueOfConcat
    <3>6. QueueTotal(w, p) \in Nat /\ QueueTotal(w, r) \in Nat
      BY <3>8, QueueIsNat
    <3>7. f[k + 2] = QueueTotal(w, r)
      BY <2>2, <3>2 DEF r
    <3> QED
      BY <3>1, <3>3, <3>4, <3>5, <3>6, <3>7, <3>9 DEF p, r
  <2>7. T = Nat
    <3> HIDE DEF T
    <3>1. T \in SUBSET Nat
      BY DEF T
    <3> QED
      BY <2>5, <2>6, <3>1, Doubling!SetInduction
  <2>8. n - 1 \in Nat /\ (n - 1) + 1 = n
    BY <1>1, <1>5
  <2>9. n - 1 \in T
    BY <2>7, <2>8
  <2>10. fl[n] \in Seq(X) /\ QueueTotal(w, fl[n]) = TotalOf(f, 1 .. n)
    BY <1>1, <2>8, <2>9
  <2> QED
    BY <1>2, <1>5, <2>10 DEF n
<1> QED
  BY <1>4, <1>5

\* How many barriers a thread has passed, or sleeps at, when it stands at p.
StageOf(p) == IF p = "start" THEN 0
              ELSE IF p \in {"started", "build", "store"} THEN 1
              ELSE IF p \in {"built", "probe"} THEN 2
              ELSE 3
Waiting == {"started", "built", "probed"}

Aligned(k) ==
  \A t \in Threads :
    StageOf(pc[t]) = IF t \in barrier.asleep THEN k + 1 ELSE k

BarrierInv ==
  /\ pc \in [Threads -> Phases]
  /\ barrier.asleep \subseteq Threads
  /\ barrier.called = Cardinality(barrier.asleep)
  /\ barrier.called < NThreads
  /\ \A t \in barrier.asleep : pc[t] \in Waiting
  /\ \E k \in 0 .. 3 : Aligned(k)
  /\ freed \subseteq {t \in Threads : pc[t] = "done"}

LEMMA ThreadsAreFinite ==
  IsFiniteSet(Threads) /\ Cardinality(Threads) = NThreads
<1> DEFINE Top == NThreads - 1
<1>1. 0 \in Int /\ Top \in Int /\ 0 <= Top
  BY SizesArePositive
<1>2. IsFiniteSet(0 .. Top) /\ Cardinality(0 .. Top) = IF 0 > Top THEN 0 ELSE Top - 0 + 1
  <2> HIDE DEF Top
  <2> QED BY <1>1, FS_Interval
<1> QED BY <1>1, <1>2, SizesArePositive DEF Threads

LEMMA StageIsNat == \A p \in Phases : StageOf(p) \in 0 .. 3
BY DEF Phases, StageOf

\* A thread that arrives sleeps one stage on, or is the last one and finds
\* all the others asleep at that stage.
LEMMA ArriveStep ==
  ASSUME BarrierInv, NEW t \in Threads, t \notin barrier.asleep,
         NEW next \in Waiting, StageOf(next) = StageOf(pc[t]) + 1,
         pc[t] # "done", Arrive(t, next), UNCHANGED freed
  PROVE  BarrierInv'
<1> DEFINE A == barrier.asleep
<1>1. IsFiniteSet(A) /\ Cardinality(A) \in Nat
  BY ThreadsAreFinite, FS_Subset, FS_CardinalityType DEF BarrierInv
<1>2. Cardinality(A \union {t}) = Cardinality(A) + 1
  BY <1>1, FS_AddElement
<1>3. pc' = [pc EXCEPT ![t] = next] /\ next \in Phases
  BY DEF Arrive, Waiting, Phases
<1>4. pc' \in [Threads -> Phases]
  BY <1>3 DEF BarrierInv
<1>5. (freed \subseteq {u \in Threads : pc[u] = "done"})'
  BY <1>3 DEF BarrierInv
<1>6. PICK k \in 0 .. 3 : Aligned(k)
  BY DEF BarrierInv
<1>7. StageOf(next) = k + 1 /\ k + 1 \in 0 .. 3
  <2>1. StageOf(pc[t]) = k
    BY <1>6 DEF Aligned
  <2>2. StageOf(next) \in 0 .. 3
    BY <1>3, StageIsNat
  <2> QED BY <2>1, <2>2
<1>8. \A u \in Threads : u # t => pc'[u] = pc[u]
  BY <1>3 DEF BarrierInv
<1>9. pc'[t] = next
  BY <1>3 DEF BarrierInv
<1>10. CASE barrier.called + 1 = NThreads
  <2>1. A \union {t} = Threads
    BY <1>1, <1>2, <1>10, ThreadsAreFinite, FS_Subset DEF BarrierInv
  <2>2. barrier'.called = 0 /\ barrier'.asleep = {}
    BY <1>10 DEF Arrive
  <2>3. Aligned(k + 1)'
    <3> SUFFICES ASSUME NEW u \in Threads PROVE StageOf(pc'[u]) = k + 1
      BY <2>2 DEF Aligned
    <3>1. CASE u = t
      BY <3>1, <1>7, <1>9
    <3>2. CASE u # t
      BY <3>2, <2>1, <1>6, <1>8 DEF Aligned
    <3> QED BY <3>1, <3>2
  <2>4. 0 < NThreads /\ Cardinality({}) = 0
    BY SizesArePositive, FS_EmptySet
  <2>5. (\E j \in 0 .. 3 : Aligned(j))'
    BY <2>3, <1>7
  <2> QED BY <2>2, <2>4, <2>5, <1>4, <1>5 DEF BarrierInv
<1>11. CASE barrier.called + 1 # NThreads
  <2>1. barrier'.called = barrier.called + 1 /\ barrier'.asleep = A \union {t}
    BY <1>11 DEF Arrive
  <2>2. barrier'.called = Cardinality(barrier'.asleep) /\ barrier'.called < NThreads
    BY <2>1, <1>1, <1>2, <1>11, SizesArePositive DEF BarrierInv
  <2>3. \A u \in barrier'.asleep : pc'[u] \in Waiting
    BY <2>1, <1>8, <1>9 DEF BarrierInv
  <2>4. Aligned(k)'
    <3> SUFFICES ASSUME NEW u \in Threads
                 PROVE  StageOf(pc'[u]) = IF u \in barrier'.asleep THEN k + 1 ELSE k
      BY DEF Aligned
    <3>1. CASE u = t
      BY <3>1, <2>1, <1>7, <1>9
    <3>2. CASE u # t
      BY <3>2, <2>1, <1>6, <1>8 DEF Aligned
    <3> QED BY <3>1, <3>2
  <2>5. (barrier.asleep \subseteq Threads)'
    BY <2>1 DEF BarrierInv
  <2>6. (\E j \in 0 .. 3 : Aligned(j))'
    BY <2>4
  <2> QED BY <2>2, <2>3, <2>5, <2>6, <1>4, <1>5 DEF BarrierInv
<1> QED BY <1>10, <1>11

\* A thread that is awake moves within its stage.
LEMMA StepWithinStage ==
  ASSUME BarrierInv, NEW t \in Threads, t \notin barrier.asleep,
         NEW next \in Phases, StageOf(next) = StageOf(pc[t]),
         pc' = [pc EXCEPT ![t] = next], UNCHANGED barrier,
         (freed' = freed \/ (freed' = freed \union {t} /\ next = "done")),
         pc[t] # "done"
  PROVE  BarrierInv'
<1>1. pc' \in [Threads -> Phases]
  BY DEF BarrierInv
<1>2. pc'[t] = next /\ \A u \in Threads : u # t => pc'[u] = pc[u]
  BY DEF BarrierInv
<1>3. PICK k \in 0 .. 3 : Aligned(k)
  BY DEF BarrierInv
<1>4. Aligned(k)'
  BY <1>2, <1>3 DEF Aligned
<1>5. \A u \in barrier'.asleep : pc'[u] \in Waiting
  BY <1>2 DEF BarrierInv
<1>6. freed' \subseteq {u \in Threads : pc'[u] = "done"}
  BY <1>2 DEF BarrierInv
<1>7. (\E j \in 0 .. 3 : Aligned(j))'
  BY <1>4
<1> QED BY <1>1, <1>5, <1>6, <1>7 DEF BarrierInv

\* The joins are done one at a time: what is not the shared table leaves it.
LEMMA TableSteps ==
  /\ JoinsInit => Init
  /\ [JoinsNext]_JoinsVars => [Next]_vars
<1>1. JoinsInit => Init
  BY DEF JoinsInit
<1>2. ASSUME [JoinsNext]_JoinsVars PROVE [Next]_vars
  <2>1. CASE UNCHANGED JoinsVars
    BY <2>1 DEF JoinsVars
  <2>2. CASE JoinsNext
    BY <2>2 DEF JoinsNext, TableThread, RadixThread, TableEnd, PassStep, LinesStep, Next
  <2> QED
    BY <1>2, <2>1, <2>2
<1> QED
  BY <1>1, <1>2

LEMMA InitBarrier == Init => BarrierInv
<1> SUFFICES ASSUME Init PROVE BarrierInv
  OBVIOUS
<1>1. Cardinality({}) = 0
  BY FS_EmptySet
<1>2. Aligned(0)
  BY DEF Init, Aligned, StageOf
<1> QED BY <1>1, <1>2, SizesArePositive DEF Init, BarrierInv, Phases

\* One step of a thread: it arrives, or it moves within its stage.
LEMMA ThreadStep ==
  ASSUME Timing, BarrierInv, NEW t \in Threads, Thread(t)
  PROVE  BarrierInv'
<1> DEFINE Arrives(next) ==
             /\ t \notin barrier.asleep /\ next \in Waiting /\ pc[t] # "done"
             /\ StageOf(next) = StageOf(pc[t]) + 1
             /\ Arrive(t, next) /\ UNCHANGED freed
           Moves(next) ==
             /\ t \notin barrier.asleep /\ next \in Phases /\ pc[t] # "done"
             /\ StageOf(next) = StageOf(pc[t])
             /\ pc' = [pc EXCEPT ![t] = next] /\ UNCHANGED barrier
             /\ (freed' = freed \/ (freed' = freed \union {t} /\ next = "done"))
<1>1. ASSUME NEW next, Arrives(next) PROVE BarrierInv'
  BY <1>1, ArriveStep
<1>2. ASSUME NEW next, Moves(next) PROVE BarrierInv'
  BY <1>2, StepWithinStage
<1>3. pc[t] \notin Waiting => t \notin barrier.asleep
  BY DEF BarrierInv
<1>4. pc \in [Threads -> Phases]
  BY DEF BarrierInv
<1>5. Start(t) => Arrives("started")
  BY <1>3 DEF Start, StageOf, Waiting
<1>6. Begin(t) => Moves("build")
  BY DEF Begin, Awake, StageOf, Phases
<1>7. LatchBucket(t) => Moves("store")
  BY <1>3 DEF LatchBucket, StageOf, Phases, Waiting
<1>8. Store(t) => Moves("build")
  BY <1>3 DEF Store, StageOf, Phases, Waiting
<1>9. Built(t) => Arrives("built")
  BY <1>3 DEF Built, StageOf, Waiting
<1>10. BeginProbe(t) => Moves("probe")
  BY DEF BeginProbe, Awake, StageOf, Phases
<1>11. ProbeNode(t) => Moves("probe")
  <2> SUFFICES ASSUME ProbeNode(t) PROVE Moves("probe")
    OBVIOUS
  <2>1. pc[t] = "probe" /\ pc' = pc /\ UNCHANGED <<barrier, freed>>
    BY DEF ProbeNode
  <2>2. pc' = [pc EXCEPT ![t] = "probe"]
    BY <2>1, <1>4
  <2> QED BY <2>1, <2>2, <1>3 DEF StageOf, Phases, Waiting
<1>12. Probed(t) => Arrives("probed")
  BY <1>3 DEF Probed, WaitsAfterProbe, StageOf, Waiting
<1>13. EndTiming(t) => Moves("free")
  BY DEF EndTiming, Awake, StageOf, Phases
<1>14. Free(t) => Moves("done")
  BY <1>3 DEF Free, StageOf, Phases, Waiting
<1> HIDE DEF Arrives, Moves
<1> QED BY <1>1, <1>2, <1>5, <1>6, <1>7, <1>8, <1>9, <1>10, <1>11, <1>12,
           <1>13, <1>14 DEF Thread

\* With the barrier that the timing adds, the threads are never more than one
\* barrier apart.
THEOREM ThreadsStayAligned ==
  ASSUME Timing
  PROVE  JoinsSpec => []BarrierInv
<1>1. BarrierInv /\ [Next]_vars => BarrierInv'
  <2> SUFFICES ASSUME BarrierInv, [Next]_vars PROVE BarrierInv'
    OBVIOUS
  <2>1. CASE UNCHANGED <<pc, barrier, freed>>
    BY <2>1 DEF BarrierInv, Aligned
  <2>2. ASSUME NEW t \in Threads, Thread(t) PROVE BarrierInv'
    BY <2>2, ThreadStep
  <2>3. CASE Join
    BY <2>1, <2>3 DEF Join
  <2>5. CASE UNCHANGED vars
    BY <2>1, <2>5 DEF vars
  <2> QED BY <2>2, <2>3, <2>5 DEF Next
<1> QED BY <1>1, InitBarrier, TableSteps, PTL DEF JoinsSpec

\* No thread builds while another one probes.
THEOREM BuildersAndProbersAreApart ==
  ASSUME Timing
  PROVE  JoinsSpec => []ProbeAfterBuild
<1>1. BarrierInv => ProbeAfterBuild
  <2> SUFFICES ASSUME BarrierInv, NEW t \in Threads, NEW u \in Threads,
                      pc[t] \in {"probe", "probed", "free", "done"},
                      pc[u] \in {"start", "build", "store"}
               PROVE  FALSE
    BY DEF ProbeAfterBuild
  <2>1. PICK k \in 0 .. 3 : Aligned(k)
    BY DEF BarrierInv
  <2>2. u \notin barrier.asleep /\ StageOf(pc[u]) <= 1
    BY DEF BarrierInv, Waiting, StageOf
  <2>3. StageOf(pc[u]) = k
    BY <2>1, <2>2 DEF Aligned
  <2>4. pc[t] # "probed" => StageOf(pc[t]) = k
    BY <2>1 DEF Aligned, BarrierInv, Waiting
  <2>5. pc[t] = "probed" => StageOf(pc[t]) = 3 /\ StageOf(pc[t]) <= k + 1
    BY <2>1 DEF Aligned, StageOf
  <2>6. pc[t] # "probed" => StageOf(pc[t]) >= 2
    BY DEF StageOf
  <2> QED BY <2>2, <2>3, <2>4, <2>5, <2>6
<1> QED BY <1>1, ThreadsStayAligned, PTL

Building == {"start", "started", "build", "store"}

\* While a thread probes, nobody builds and nothing is freed.
LEMMA ProbesAreAlone ==
  ASSUME BarrierInv, NEW t \in Threads, pc[t] = "probe"
  PROVE  freed = {} /\ \A u \in Threads : pc[u] \notin Building
<1>1. PICK k \in 0 .. 3 : Aligned(k)
  BY DEF BarrierInv
<1>2. k = 2
  <2>1. t \notin barrier.asleep /\ StageOf(pc[t]) = 2
    BY DEF BarrierInv, Waiting, StageOf
  <2> QED
    BY <1>1, <2>1 DEF Aligned
<1>3. ASSUME NEW u \in Threads PROVE pc[u] \notin Building /\ pc[u] # "done"
  <2>1. StageOf(pc[u]) = IF u \in barrier.asleep THEN 3 ELSE 2
    BY <1>1, <1>2 DEF Aligned
  <2>2. pc[u] \notin Building
    BY <2>1 DEF StageOf, Building
  <2>3. ASSUME pc[u] = "done" PROVE FALSE
    BY <2>1, <2>3 DEF StageOf, BarrierInv, Waiting
  <2> QED
    BY <2>2, <2>3
<1> QED
  BY <1>3 DEF BarrierInv

\* No probe stands at an overflow bucket that its thread has freed: with the
\* timing's barrier nobody still probes, or has yet to, at the first free.
THEOREM NoUseAfterFree ==
  ASSUME Timing
  PROVE  JoinsSpec => []NoProbeOfFreed
<1>1. BarrierInv => NoProbeOfFreed
  BY ProbesAreAlone DEF NoProbeOfFreed
<1> QED BY <1>1, ThreadsStayAligned, PTL

-----------------------------------------------------------------------------
(***************************************************************************)
(* The slices of a relation.                                               *)
(***************************************************************************)
Within(rel, t) == Slice(rel, t).first .. Slice(rel, t).last
Part(rel) == Len(rel) \div NThreads

LEMMA PartIsNat ==
  ASSUME NEW rel \in Seq(Nat)
  PROVE  Part(rel) \in Nat /\ NThreads * Part(rel) <= Len(rel)
<1>1. Len(rel) \in Nat /\ NThreads \in Nat \ {0}
  BY SizesArePositive
<1> QED
  BY <1>1 DEF Part

\* Slices end where the next begins.
LEMMA SliceBounds ==
  ASSUME NEW rel \in Seq(Nat), NEW t \in Threads
  PROVE  /\ Slice(rel, t).first \in Nat \ {0} /\ Slice(rel, t).last \in Nat
         /\ Slice(rel, t).first <= Slice(rel, t).last + 1
         /\ Slice(rel, t).last <= Len(rel)
<1> DEFINE q == Part(rel)
<1>1. q \in Nat /\ NThreads * q <= Len(rel) /\ Len(rel) \in Nat /\ NThreads \in Nat \ {0}
  BY PartIsNat, SizesArePositive
<1>2. t \in Nat /\ t + 1 <= NThreads
  BY SizesArePositive DEF Threads
<1>3. t * q \in Nat /\ (t + 1) * q = t * q + q
  <2> HIDE DEF q
  <2> QED
    BY <1>1, <1>2
<1>4. (t + 1) * q <= NThreads * q
  <2> DEFINE d == NThreads - (t + 1)
  <2>1. d \in Nat /\ NThreads = (t + 1) + d
    BY <1>1, <1>2
  <2> HIDE DEF d, q
  <2>2. NThreads * q = (t + 1) * q + d * q /\ d * q >= 0
    BY <1>1, <1>2, <2>1
  <2> QED
    BY <1>1, <1>2, <1>3, <2>2
<1>5. /\ Slice(rel, t).first = t * q + 1
      /\ Slice(rel, t).last = IF t = NThreads - 1 THEN Len(rel) ELSE (t + 1) * q
  BY DEF Slice, Part
<1> HIDE DEF q
<1>6. CASE t = NThreads - 1
  BY <1>1, <1>2, <1>3, <1>4, <1>5, <1>6
<1>7. CASE t # NThreads - 1
  BY <1>1, <1>2, <1>3, <1>4, <1>5, <1>7
<1> QED
  BY <1>6, <1>7

\* No two threads have a row in common.
LEMMA SlicesAreApart ==
  ASSUME NEW rel \in Seq(Nat), NEW t \in Threads, NEW u \in Threads, t < u
  PROVE  Slice(rel, t).last < Slice(rel, u).first
<1> DEFINE q == Part(rel)
<1>1. q \in Nat /\ NThreads \in Nat \ {0}
  BY PartIsNat, SizesArePositive
<1>2. t \in Nat /\ u \in Nat /\ t + 1 <= u /\ u <= NThreads - 1
  BY SizesArePositive DEF Threads
<1>3. (t + 1) * q <= u * q
  <2> DEFINE d == u - (t + 1)
  <2>1. d \in Nat /\ u = (t + 1) + d
    BY <1>2
  <2> HIDE DEF d, q
  <2>2. u * q = (t + 1) * q + d * q /\ d * q \in Nat /\ (t + 1) * q \in Nat
    BY <1>1, <1>2, <2>1
  <2> QED
    BY <2>2
<1>4. t # NThreads - 1
  BY <1>1, <1>2
<1>5. Slice(rel, t).last = (t + 1) * q /\ Slice(rel, u).first = u * q + 1
  BY <1>4 DEF Slice, Part
<1> HIDE DEF q
<1>6. (t + 1) * q \in Nat /\ u * q \in Nat
  BY <1>1, <1>2
<1> QED
  BY <1>3, <1>5, <1>6

\* Every row is in the slice of some thread.
LEMMA RowHasThread ==
  ASSUME NEW rel \in Seq(Nat), NEW i \in 1 .. Len(rel)
  PROVE  \E t \in Threads : i \in Within(rel, t)
<1> DEFINE q == Part(rel)
           T == {j \in Nat : i <= j * q =>
                   \E t \in Nat : t < j /\ t * q + 1 <= i /\ i <= (t + 1) * q}
<1>1. q \in Nat /\ NThreads \in Nat \ {0} /\ Len(rel) \in Nat /\ i \in Nat
  BY PartIsNat, SizesArePositive
<1>2. T = Nat
  <2> HIDE DEF q
  <2>1. 0 \in T
    BY <1>1
  <2>2. ASSUME NEW j \in T PROVE j + 1 \in T
    <3> SUFFICES ASSUME i <= (j + 1) * q
                 PROVE  \E t \in Nat : t < j + 1 /\ t * q + 1 <= i /\ i <= (t + 1) * q
      OBVIOUS
    <3>1. j \in Nat
      OBVIOUS
    <3>2. CASE i <= j * q
      <4>1. PICK t \in Nat : t < j /\ t * q + 1 <= i /\ i <= (t + 1) * q
        BY <3>2
      <4>2. t < j + 1
        BY <3>1, <4>1
      <4> QED
        BY <4>1, <4>2
    <3>3. CASE ~(i <= j * q)
      <4>1. j * q \in Nat
        BY <1>1, <3>1
      <4>2. j * q + 1 <= i /\ j < j + 1
        BY <1>1, <3>1, <3>3, <4>1
      <4> QED
        BY <3>1, <4>2
    <3> QED
      BY <3>2, <3>3
  <2> HIDE DEF T
  <2>3. T \in SUBSET Nat
    BY DEF T
  <2> QED
    BY <2>1, <2>2, <2>3, Doubling!SetInduction
<1> DEFINE last == NThreads - 1
<1>3. last \in Threads /\ last \in Nat
  BY <1>1 DEF Threads
<1>4. CASE i <= last * q
  <2>1. last \in T
    BY <1>2, <1>3
  <2>2. PICK t \in Nat : t < last /\ t * q + 1 <= i /\ i <= (t + 1) * q
    BY <1>4, <2>1
  <2>3. t \in Threads /\ t # NThreads - 1
    BY <1>1, <2>2 DEF Threads
  <2>4. Slice(rel, t).first = t * q + 1 /\ Slice(rel, t).last = (t + 1) * q
    BY <2>3 DEF Slice, Part
  <2> HIDE DEF q
  <2>5. i \in Within(rel, t)
    BY <1>1, <2>2, <2>4 DEF Within
  <2> QED
    BY <2>3, <2>5
<1>5. CASE ~(i <= last * q)
  <2>1. Slice(rel, last).first = last * q + 1 /\ Slice(rel, last).last = Len(rel)
    BY DEF Slice, Part
  <2> HIDE DEF q
  <2>2. last * q \in Nat
    BY <1>1, <1>3
  <2>3. i \in Within(rel, last)
    BY <1>1, <1>5, <2>1, <2>2 DEF Within
  <2> QED
    BY <1>3, <2>3
<1> QED
  BY <1>4, <1>5

-----------------------------------------------------------------------------
(***************************************************************************)
(* The buckets.                                                            *)
(***************************************************************************)
LEMMA TableHasBuckets == BucketCount \in Nat \ {0}
<1> DEFINE v == Len(R) \div BucketSize
           ks == [k \in 1 .. v |-> k]
           Pos == Nat \ {0}
<1>1. v \in Nat
  BY RelationsAreKeys, SizesArePositive
<1>2. ks \in Seq(Nat)
  <2> HIDE DEF v
  <2> QED
    BY <1>1
<1>3. BucketCount = Doubling!Fold(v, 0, 1, ks)
  BY DEF BucketCount, NextPow2, Doubling!Fold, FoldLeft, MapThenFoldSet, Max,
         Doubling!FoldLeft, Doubling!MapThenFoldSet, Doubling!Max
<1>4. 1 \in Pos /\ \A p \in Pos, x \in Nat : (IF p < v THEN 2 * p ELSE p) \in Pos
  <2> HIDE DEF v
  <2> QED
    BY <1>1
<1>5. Doubling!Fold(v, 0, 1, ks) \in Pos
  <2> HIDE DEF v, ks, Pos
  <2> QED
    BY <1>1, <1>2, <1>4, Doubling!FoldClosed
<1> QED
  BY <1>3, <1>5

LEMMA HashIsBucket == \A key \in Nat : Hash(key) \in Buckets
<1> SUFFICES ASSUME NEW key \in Nat PROVE Hash(key) \in Buckets
  OBVIOUS
<1> DEFINE b == BucketCount
<1>1. b \in Nat /\ b > 0
  BY TableHasBuckets
<1> HIDE DEF b
<1>2. key % b \in 0 .. b - 1
  BY <1>1
<1> QED
  BY <1>2 DEF Hash, Buckets, b

-----------------------------------------------------------------------------
(***************************************************************************)
(* The sum of what the threads have counted.                               *)
(***************************************************************************)
SumOf(m) == MapThenSumSet(LAMBDA t : m[t], Threads)

\* Threads that have counted sets with nothing in common have together counted
\* their union.
LEMMA SumOfApart ==
  ASSUME NEW X, IsFiniteSet(X), NEW c \in [Threads -> SUBSET X],
         \A t, u \in Threads : t # u => c[t] \cap c[u] = {},
         NEW m, \A t \in Threads : m[t] = Cardinality(c[t])
  PROVE  SumOf(m) = Cardinality(UNION {c[t] : t \in Threads})
<1>1. SumOf(m) = TotalOf(m, Threads)
  BY DEF SumOf, TotalOf
<1>2. \A t \in Threads : c[t] \in SUBSET X
  OBVIOUS
<1>3. TotalOf(m, Threads) = Cardinality(UNION {c[t] : t \in Threads})
  BY <1>2, ThreadsAreFinite, TotalOfSizes
<1> QED
  BY <1>1, <1>3

-----------------------------------------------------------------------------
(***************************************************************************)
(* What a chain holds: each of its rows in one place.                      *)
(***************************************************************************)
Nodes == [owner : Threads \union {Nobody}, tuples : Seq(DOMAIN R)]
Held(n) == {n.tuples[i] : i \in DOMAIN n.tuples}
Apart(n) == \A i, j \in DOMAIN n.tuples : n.tuples[i] = n.tuples[j] => i = j

Holds(chain, rids) ==
  /\ chain \in Seq(Nodes) /\ chain # <<>>
  /\ \A i \in DOMAIN chain : Apart(chain[i])
  /\ \A i, j \in DOMAIN chain : i # j => Held(chain[i]) \cap Held(chain[j]) = {}
  /\ \A rid : rid \in rids <=> \E i \in DOMAIN chain : rid \in Held(chain[i])

LEMMA AddKeepsOwner ==
  ASSUME NEW n, NEW o, NEW q, NEW rid, n = [owner |-> o, tuples |-> q]
  PROVE  Add(n, rid) = [owner |-> o, tuples |-> Append(q, rid)]
<1> DEFINE r == Append(q, rid)
<1>1. n.tuples = q
  OBVIOUS
<1>2. Add(n, rid) = [n EXCEPT !.tuples = r]
  BY <1>1 DEF Add
<1> HIDE DEF r
<1>3. [n EXCEPT !.tuples = r] = [owner |-> o, tuples |-> r]
  OBVIOUS
<1> QED
  BY <1>2, <1>3 DEF r

LEMMA AddIsHeld ==
  ASSUME NEW n \in Nodes, Apart(n), NEW rid \in DOMAIN R, rid \notin Held(n)
  PROVE  /\ Add(n, rid) \in Nodes /\ Apart(Add(n, rid))
         /\ Held(Add(n, rid)) = Held(n) \union {rid}
<1> DEFINE q == n.tuples
           r == Append(q, rid)
<1>1. n.owner \in Threads \union {Nobody} /\ q \in Seq(DOMAIN R)
      /\ n = [owner |-> n.owner, tuples |-> q]
  BY DEF Nodes
<1>2. Add(n, rid) = [owner |-> n.owner, tuples |-> r]
  <2> DEFINE o == n.owner
  <2>1. n = [owner |-> o, tuples |-> q]
    BY <1>1
  <2> HIDE DEF o, q
  <2> QED
    BY <2>1, AddKeepsOwner
<1>3. /\ r \in Seq(DOMAIN R) /\ Len(q) \in Nat
      /\ DOMAIN q = 1 .. Len(q) /\ DOMAIN r = 1 .. Len(q) + 1
      /\ r[Len(q) + 1] = rid /\ \A i \in 1 .. Len(q) : r[i] = q[i]
  <2> HIDE DEF q
  <2> QED
    BY <1>1
<1>4. Add(n, rid).tuples = r /\ Add(n, rid) \in Nodes
  BY <1>1, <1>2, <1>3 DEF Nodes
<1> HIDE DEF r
<1>5. \A i \in DOMAIN q : q[i] # rid
  BY DEF Held
<1>6. Apart(Add(n, rid))
  <2> SUFFICES ASSUME NEW i \in DOMAIN r, NEW j \in DOMAIN r, r[i] = r[j] PROVE i = j
    BY <1>4 DEF Apart
  <2>1. \A a, b \in DOMAIN q : q[a] = q[b] => a = b
    BY DEF Apart
  <2> HIDE DEF q
  <2> QED
    BY <1>3, <1>5, <2>1
<1>7. Held(Add(n, rid)) = {r[i] : i \in DOMAIN r}
  BY <1>4 DEF Held
<1>8. Held(n) = {q[i] : i \in DOMAIN q}
  BY DEF Held
<1>9. {r[i] : i \in DOMAIN r} = {q[i] : i \in DOMAIN q} \union {rid}
  <2> HIDE DEF q
  <2>1. \A i \in DOMAIN r : r[i] \in {q[j] : j \in DOMAIN q} \union {rid}
    BY <1>3
  <2>2. \A j \in DOMAIN q : j \in DOMAIN r /\ q[j] = r[j]
    BY <1>3
  <2>3. Len(q) + 1 \in DOMAIN r
    BY <1>3
  <2> QED
    BY <1>3, <2>1, <2>2, <2>3
<1> QED
  BY <1>4, <1>6, <1>7, <1>8, <1>9

\* A row more in the node at place k.
LEMMA OneNodeMore ==
  ASSUME NEW chain, NEW rids, Holds(chain, rids), NEW rid \in DOMAIN R, rid \notin rids,
         NEW d \in Seq(Nodes), Len(d) = Len(chain), NEW k \in DOMAIN chain,
         d[k] = Add(chain[k], rid),
         \A i \in DOMAIN chain : i # k => d[i] = chain[i]
  PROVE  Holds(d, rids \union {rid})
<1>1. chain \in Seq(Nodes) /\ chain[k] \in Nodes /\ DOMAIN d = DOMAIN chain /\ d # <<>>
  BY DEF Holds
<1>2. \A i \in DOMAIN chain : rid \notin Held(chain[i])
  BY DEF Holds
<1>3. d[k] \in Nodes /\ Apart(d[k]) /\ Held(d[k]) = Held(chain[k]) \union {rid}
  BY <1>1, <1>2, AddIsHeld DEF Holds
<1>4. \A i \in DOMAIN d : Apart(d[i])
  BY <1>1, <1>3 DEF Holds
<1>5. \A i \in DOMAIN d : Held(d[i]) = IF i = k THEN Held(chain[i]) \union {rid} ELSE Held(chain[i])
  BY <1>1, <1>3
<1>6. \A i, j \in DOMAIN d : i # j => Held(d[i]) \cap Held(d[j]) = {}
  BY <1>1, <1>2, <1>5 DEF Holds
<1>7. \A r : r \in rids \union {rid} <=> \E i \in DOMAIN d : r \in Held(d[i])
  BY <1>1, <1>5 DEF Holds
<1> QED
  BY <1>1, <1>4, <1>6, <1>7 DEF Holds

\* A node more at the second place, with one row.
LEMMA OneRowMore ==
  ASSUME NEW chain, NEW rids, Holds(chain, rids), NEW rid \in DOMAIN R, rid \notin rids,
         NEW d \in Seq(Nodes), Len(d) = Len(chain) + 1,
         d[1] = chain[1], d[2].tuples = <<rid>>,
         \A i \in 2 .. Len(chain) : d[i + 1] = chain[i]
  PROVE  Holds(d, rids \union {rid})
<1>1. /\ chain \in Seq(Nodes) /\ Len(chain) \in Nat \ {0} /\ DOMAIN chain = 1 .. Len(chain)
      /\ DOMAIN d = 1 .. Len(chain) + 1 /\ d # <<>>
  <2>1. chain \in Seq(Nodes) /\ chain # <<>>
    BY DEF Holds
  <2> QED
    BY <2>1, EmptySeq
<1>2. \A i \in DOMAIN chain : rid \notin Held(chain[i])
  BY DEF Holds
<1>3. Held(d[2]) = {rid} /\ Apart(d[2])
  <2>1. DOMAIN <<rid>> = {1} /\ <<rid>>[1] = rid
    OBVIOUS
  <2> QED
    BY <2>1 DEF Held, Apart
<1> DEFINE Old(i) == IF i = 1 THEN 1 ELSE i - 1
<1>4. ASSUME NEW i \in DOMAIN d, i # 2 PROVE Old(i) \in DOMAIN chain /\ d[i] = chain[Old(i)]
  <2>1. CASE i = 1
    BY <1>1, <2>1
  <2>2. CASE i # 1
    <3>1. i - 1 \in 2 .. Len(chain) /\ (i - 1) + 1 = i
      BY <1>1, <1>4, <2>2
    <3>2. d[(i - 1) + 1] = chain[i - 1]
      BY <3>1
    <3> QED
      BY <1>1, <2>2, <3>1, <3>2
  <2> QED
    BY <2>1, <2>2
<1>5. \A i, j \in DOMAIN d : i # 2 /\ j # 2 /\ i # j => Old(i) # Old(j)
  BY <1>1
<1>6. \A j \in DOMAIN chain : \E i \in DOMAIN d : i # 2 /\ Old(i) = j
  <2> SUFFICES ASSUME NEW j \in DOMAIN chain PROVE \E i \in DOMAIN d : i # 2 /\ Old(i) = j
    OBVIOUS
  <2>1. CASE j = 1
    BY <1>1, <2>1
  <2>2. CASE j # 1
    <3>1. j + 1 \in DOMAIN d /\ j + 1 # 2 /\ Old(j + 1) = j
      BY <1>1, <2>2
    <3> QED
      BY <3>1
  <2> QED
    BY <2>1, <2>2
<1>7. 2 \in DOMAIN d
  BY <1>1
<1> HIDE DEF Old
<1>8. \A i \in DOMAIN d : Apart(d[i])
  BY <1>3, <1>4 DEF Holds
<1>9. \A i, j \in DOMAIN d : i # j => Held(d[i]) \cap Held(d[j]) = {}
  <2> SUFFICES ASSUME NEW i \in DOMAIN d, NEW j \in DOMAIN d, i # j
               PROVE  Held(d[i]) \cap Held(d[j]) = {}
    OBVIOUS
  <2>1. CASE i = 2
    BY <1>2, <1>3, <1>4, <2>1
  <2>2. CASE j = 2
    BY <1>2, <1>3, <1>4, <2>2
  <2>3. CASE i # 2 /\ j # 2
    BY <1>4, <1>5, <2>3 DEF Holds
  <2> QED
    BY <2>1, <2>2, <2>3
<1>10. ASSUME NEW r PROVE r \in rids \union {rid} <=> \E i \in DOMAIN d : r \in Held(d[i])
  <2>1. ASSUME NEW i \in DOMAIN d, r \in Held(d[i]) PROVE r \in rids \union {rid}
    <3>1. CASE i = 2
      BY <1>3, <2>1, <3>1
    <3>2. CASE i # 2
      BY <1>4, <2>1, <3>2 DEF Holds
    <3> QED
      BY <3>1, <3>2
  <2>2. ASSUME r \in rids PROVE \E i \in DOMAIN d : r \in Held(d[i])
    <3>1. PICK j \in DOMAIN chain : r \in Held(chain[j])
      BY <2>2 DEF Holds
    <3>2. PICK i \in DOMAIN d : i # 2 /\ Old(i) = j
      BY <1>6
    <3> QED
      BY <1>4, <3>1, <3>2
  <2>3. ASSUME r = rid PROVE \E i \in DOMAIN d : r \in Held(d[i])
    BY <1>3, <1>7, <2>3
  <2> QED
    BY <2>1, <2>2, <2>3
<1> QED
  BY <1>1, <1>8, <1>9, <1>10 DEF Holds

\* An insertion adds the row, wherever it finds room.
LEMMA InsertedHolds ==
  ASSUME NEW chain, NEW rids, Holds(chain, rids), NEW rid \in DOMAIN R, rid \notin rids,
         NEW t \in Threads
  PROVE  Holds(Inserted(chain, t, rid), rids \union {rid})
<1> DEFINE first == Head(chain)
           rest == Tail(chain)
           n == Len(chain)
<1>1. /\ chain \in Seq(Nodes) /\ n \in Nat \ {0} /\ DOMAIN chain = 1 .. n
      /\ 1 \in DOMAIN chain
  <2>1. chain \in Seq(Nodes) /\ chain # <<>>
    BY DEF Holds
  <2> QED
    BY <2>1, EmptySeq
<1>2. /\ first = chain[1] /\ first \in Nodes
      /\ rest \in Seq(Nodes) /\ Len(rest) = n - 1
      /\ \A i \in 1 .. n - 1 : rest[i] = chain[i + 1]
  <2> HIDE DEF n
  <2>1. chain \in Seq(Nodes) /\ chain # <<>>
    BY DEF Holds
  <2>2. Len(chain) = n
    BY DEF n
  <2> QED
    BY <1>1, <2>1, <2>2, HeadTailProperties
<1>3. \A i \in DOMAIN chain : Add(chain[i], rid) \in Nodes
  <2>1. \A i \in DOMAIN chain : chain[i] \in Nodes /\ Apart(chain[i]) /\ rid \notin Held(chain[i])
    BY <1>1 DEF Holds
  <2> QED
    BY <2>1, AddIsHeld
<1> HIDE DEF first, rest
<1>4. CASE ~NodeIsFull(first)
  <2> DEFINE d == <<Add(first, rid)>> \o rest
  <2>1. Inserted(chain, t, rid) = d
    BY <1>4 DEF Inserted, first, rest
  <2>2. /\ d \in Seq(Nodes) /\ Len(d) = n
        /\ d[1] = Add(chain[1], rid)
        /\ \A i \in DOMAIN chain : i # 1 => d[i] = chain[i]
    <3> DEFINE x == Add(first, rid)
    <3>1. x \in Nodes /\ x = Add(chain[1], rid)
      BY <1>1, <1>2, <1>3
    <3> HIDE DEF x, n
    <3>2. <<x>> \in Seq(Nodes) /\ Len(<<x>>) = 1 /\ <<x>>[1] = x
      BY <3>1
    <3>3. /\ <<x>> \o rest \in Seq(Nodes) /\ Len(<<x>> \o rest) = 1 + (n - 1)
          /\ \A i \in 1 .. 1 + (n - 1) :
               (<<x>> \o rest)[i] = IF i <= 1 THEN <<x>>[i] ELSE rest[i - 1]
      BY <1>1, <1>2, <3>2, ConcatProperties
    <3>4. \A i \in 2 .. n : rest[i - 1] = chain[i]
      <4> SUFFICES ASSUME NEW i \in 2 .. n PROVE rest[i - 1] = chain[i]
        OBVIOUS
      <4>1. i - 1 \in 1 .. n - 1 /\ (i - 1) + 1 = i
        BY <1>1
      <4>2. rest[i - 1] = chain[(i - 1) + 1]
        BY <1>2, <4>1
      <4> QED
        BY <4>1, <4>2
    <3>5. \A i \in 2 .. n : (<<x>> \o rest)[i] = chain[i]
      BY <1>1, <3>3, <3>4
    <3>6. (<<x>> \o rest)[1] = x /\ Len(<<x>> \o rest) = n
      BY <1>1, <3>2, <3>3
    <3>7. d = <<x>> \o rest
      BY DEF x
    <3> QED
      BY <1>1, <3>1, <3>3, <3>5, <3>6, <3>7
  <2> HIDE DEF d
  <2>3. Holds(d, rids \union {rid})
    BY <1>1, <2>2, OneNodeMore
  <2> QED
    BY <2>1, <2>3
<1>5. CASE NodeIsFull(first) /\ rest # <<>> /\ ~NodeIsFull(Head(rest))
  <2> DEFINE d == <<first, Add(Head(rest), rid)>> \o Tail(rest)
  <2>1. Inserted(chain, t, rid) = d
    BY <1>5 DEF Inserted, first, rest
  <2>2. /\ d \in Seq(Nodes) /\ Len(d) = n /\ 2 \in DOMAIN chain
        /\ d[2] = Add(chain[2], rid)
        /\ \A i \in DOMAIN chain : i # 2 => d[i] = chain[i]
    <3> DEFINE x == Add(Head(rest), rid)
               tail == Tail(rest)
    <3>0. n >= 2 /\ Len(rest) # 0
      BY <1>1, <1>2, <1>5, EmptySeq
    <3>1. Head(rest) = chain[2] /\ 2 \in DOMAIN chain
      <4>1. Head(rest) = rest[1] /\ 1 \in 1 .. n - 1 /\ 2 \in 1 .. n
        BY <1>1, <1>2, <1>5, <3>0, HeadTailProperties
      <4> QED
        BY <1>1, <1>2, <4>1
    <3>2. /\ tail \in Seq(Nodes) /\ Len(tail) = n - 2
          /\ \A i \in 1 .. n - 2 : tail[i] = rest[i + 1]
      <4> HIDE DEF n
      <4>1. tail \in Seq(Nodes) /\ Len(tail) = Len(rest) - 1
            /\ \A i \in 1 .. Len(tail) : tail[i] = rest[i + 1]
        BY <1>2, <1>5, HeadTailProperties
      <4> QED
        BY <1>1, <1>2, <4>1
    <3>3. x \in Nodes /\ x = Add(chain[2], rid)
      BY <1>3, <3>1
    <3> HIDE DEF x, n, tail
    <3>4. <<first, x>> \in Seq(Nodes) /\ Len(<<first, x>>) = 2
          /\ <<first, x>>[1] = first /\ <<first, x>>[2] = x
      BY <1>2, <3>3
    <3>5. /\ <<first, x>> \o tail \in Seq(Nodes) /\ Len(<<first, x>> \o tail) = 2 + (n - 2)
          /\ \A i \in 1 .. 2 + (n - 2) :
               (<<first, x>> \o tail)[i] = IF i <= 2 THEN <<first, x>>[i] ELSE tail[i - 2]
      BY <1>1, <3>2, <3>4, ConcatProperties
    <3>6. \A i \in 3 .. n : tail[i - 2] = chain[i]
      <4> SUFFICES ASSUME NEW i \in 3 .. n PROVE tail[i - 2] = chain[i]
        OBVIOUS
      <4>1. i - 2 \in 1 .. n - 2 /\ (i - 2) + 1 \in 1 .. n - 1 /\ ((i - 2) + 1) + 1 = i
        BY <1>1
      <4>2. tail[i - 2] = rest[(i - 2) + 1] /\ rest[(i - 2) + 1] = chain[((i - 2) + 1) + 1]
        BY <1>2, <3>2, <4>1
      <4> QED
        BY <4>1, <4>2
    <3>7. \A i \in 3 .. n : (<<first, x>> \o tail)[i] = chain[i]
      BY <1>1, <3>5, <3>6
    <3>8. (<<first, x>> \o tail)[1] = first /\ (<<first, x>> \o tail)[2] = x
          /\ Len(<<first, x>> \o tail) = n
      BY <1>1, <3>0, <3>4, <3>5
    <3>9. d = <<first, x>> \o tail
      BY DEF x, tail
    <3> HIDE DEF d
    <3>10. \A i \in DOMAIN chain : i # 2 => d[i] = chain[i]
      BY <1>1, <1>2, <3>7, <3>8, <3>9
    <3>11. d \in Seq(Nodes)
      BY <3>5, <3>9
    <3> QED
      BY <3>1, <3>3, <3>8, <3>9, <3>10, <3>11
  <2> HIDE DEF d
  <2>3. Holds(d, rids \union {rid})
    BY <1>1, <2>2, OneNodeMore
  <2> QED
    BY <2>1, <2>3
<1>6. CASE NodeIsFull(first) /\ ~(rest # <<>> /\ ~NodeIsFull(Head(rest)))
  <2> DEFINE x == [owner |-> t, tuples |-> <<rid>>]
             d == <<first, x>> \o rest
  <2>1. Inserted(chain, t, rid) = d
    BY <1>6 DEF Inserted, first, rest
  <2>2. /\ d \in Seq(Nodes) /\ Len(d) = n + 1
        /\ d[1] = chain[1] /\ d[2] = x
        /\ \A i \in 2 .. n : d[i + 1] = chain[i]
    <3>1. x \in Nodes
      BY DEF Nodes
    <3> HIDE DEF x, n
    <3>2. <<first, x>> \in Seq(Nodes) /\ Len(<<first, x>>) = 2
          /\ <<first, x>>[1] = first /\ <<first, x>>[2] = x
      BY <1>2, <3>1
    <3>3. /\ <<first, x>> \o rest \in Seq(Nodes) /\ Len(<<first, x>> \o rest) = 2 + (n - 1)
          /\ \A i \in 1 .. 2 + (n - 1) :
               (<<first, x>> \o rest)[i] = IF i <= 2 THEN <<first, x>>[i] ELSE rest[i - 2]
      BY <1>1, <1>2, <3>2, ConcatProperties
    <3>4. ASSUME NEW i \in 2 .. n PROVE (<<first, x>> \o rest)[i + 1] = chain[i]
      <4>1. i - 1 \in 1 .. n - 1 /\ (i - 1) + 1 = i /\ i + 1 \in 1 .. 2 + (n - 1)
            /\ ~(i + 1 <= 2) /\ (i + 1) - 2 = i - 1
        BY <1>1
      <4>2. rest[i - 1] = chain[(i - 1) + 1]
        BY <1>2, <4>1
      <4>3. (<<first, x>> \o rest)[i + 1] = rest[(i + 1) - 2]
        BY <3>3, <4>1
      <4> QED
        BY <4>1, <4>2, <4>3
    <3>5. (<<first, x>> \o rest)[1] = first /\ (<<first, x>> \o rest)[2] = x
          /\ Len(<<first, x>> \o rest) = n + 1
      BY <1>1, <3>2, <3>3
    <3>6. d = <<first, x>> \o rest
      OBVIOUS
    <3>7. first = chain[1]
      BY <1>2
    <3> HIDE DEF d
    <3> QED
      BY <3>3, <3>4, <3>5, <3>6, <3>7
  <2>3. x.tuples = <<rid>>
    OBVIOUS
  <2> HIDE DEF d, x
  <2>4. Holds(d, rids \union {rid})
    BY <1>1, <2>2, <2>3, OneRowMore
  <2> QED
    BY <2>1, <2>4
<1> QED
  BY <1>4, <1>5, <1>6

-----------------------------------------------------------------------------
(***************************************************************************)
(* The build: the table holds what the threads have stored.                *)
(***************************************************************************)
BucketOf(t) == Hash(R[pos[t]])
IsStored(rid) == \E t \in Threads : rid \in StoredBy(t)
RowsIn(b) == {rid \in DOMAIN R : Hash(R[rid]) = b /\ IsStored(rid)}

Types ==
  /\ pos \in [Threads -> Nat] /\ seen \in [Threads -> Seq(Nodes)]
  /\ latch \in [Buckets -> Threads \union {Nobody}]
  /\ table \in [Buckets -> Seq(Nodes)]

TableHolds == \A b \in Buckets : Holds(table[b], RowsIn(b))

BuildersInSlice ==
  \A t \in Threads : pc[t] \in Building =>
    pos[t] \in Slice(R, t).first .. Slice(R, t).last + 1

\* What a thread that is about to store has read is still there.
LatchedIsSeen ==
  \A t \in Threads : pc[t] = "store" =>
    /\ pos[t] <= Slice(R, t).last
    /\ latch[BucketOf(t)] = t /\ seen[t] = table[BucketOf(t)]

BuildInv == Types /\ TableHolds /\ BuildersInSlice /\ LatchedIsSeen

LEMMA RowsAreKeys ==
  ASSUME NEW t \in Threads
  PROVE  \A i \in Within(R, t) : i \in DOMAIN R /\ R[i] \in Nat /\ Hash(R[i]) \in Buckets
<1>1. R \in Seq(Nat) /\ DOMAIN R = 1 .. Len(R) /\ Len(R) \in Nat
  BY RelationsAreKeys
<1>2. \A i \in Within(R, t) : i \in 1 .. Len(R)
  BY <1>1, SliceBounds DEF Within
<1> QED
  BY <1>1, <1>2, HashIsBucket

\* Steps that store nothing and latch nothing.
LEMMA NothingStored ==
  ASSUME BuildInv, UNCHANGED <<table, latch, seen>>, pos' \in [Threads -> Nat],
         \A u \in Threads :
           /\ StoredBy(u)' = StoredBy(u)
           /\ pc'[u] \in Building => pc[u] \in Building /\ pos'[u] = pos[u]
           /\ pc'[u] = "store" => pc[u] = "store"
  PROVE  BuildInv'
<1>1. \A rid : IsStored(rid)' <=> IsStored(rid)
  BY DEF IsStored
<1>2. \A b : RowsIn(b)' = RowsIn(b)
  BY <1>1 DEF RowsIn
<1>3. TableHolds'
  BY <1>2 DEF BuildInv, TableHolds
<1>4. BuildersInSlice'
  BY DEF BuildInv, BuildersInSlice
<1>5. LatchedIsSeen'
  <2> SUFFICES ASSUME NEW t \in Threads, pc'[t] = "store"
               PROVE  /\ pos'[t] <= Slice(R, t).last
                      /\ latch[BucketOf(t)'] = t /\ seen[t] = table[BucketOf(t)']
    BY DEF LatchedIsSeen
  <2>1. pc[t] = "store" /\ pos'[t] = pos[t]
    BY DEF Building
  <2>2. BucketOf(t)' = BucketOf(t)
    BY <2>1 DEF BucketOf
  <2> QED
    BY <2>1, <2>2 DEF BuildInv, LatchedIsSeen
<1> QED
  BY <1>3, <1>4, <1>5 DEF BuildInv, Types

LEMMA LatchKeepsBuild ==
  ASSUME BuildInv, pc \in [Threads -> Phases], NEW t \in Threads, LatchBucket(t)
  PROVE  BuildInv'
<1> DEFINE b == BucketOf(t)
<1>1. /\ pc[t] = "build" /\ pos[t] <= Slice(R, t).last /\ latch[b] = Nobody
      /\ latch' = [latch EXCEPT ![b] = t] /\ seen' = [seen EXCEPT ![t] = table[b]]
      /\ pc' = [pc EXCEPT ![t] = "store"] /\ UNCHANGED <<pos, table>>
  BY DEF LatchBucket, LatchIsFree, BucketOf
<1>2. pos[t] \in Within(R, t) /\ b \in Buckets
  <2>1. pos[t] \in Within(R, t)
    BY <1>1, SliceBounds, RelationsAreKeys DEF BuildInv, BuildersInSlice, Building, Within
  <2> QED
    BY <2>1, RowsAreKeys DEF BucketOf
<1> HIDE DEF b
<1>3. \A u \in Threads : StoredBy(u)' = StoredBy(u)
  BY <1>1 DEF StoredBy
<1>4. \A c : RowsIn(c)' = RowsIn(c)
  <2>1. \A rid : IsStored(rid)' <=> IsStored(rid)
    BY <1>3 DEF IsStored
  <2> QED
    BY <2>1 DEF RowsIn
<1>5. TableHolds'
  BY <1>1, <1>4 DEF BuildInv, TableHolds
<1>6. BuildersInSlice'
  BY <1>1 DEF BuildInv, BuildersInSlice, Building
<1>7. LatchedIsSeen'
  <2> SUFFICES ASSUME NEW u \in Threads, pc'[u] = "store"
               PROVE  /\ pos[u] <= Slice(R, u).last
                      /\ latch'[BucketOf(u)] = u /\ seen'[u] = table[BucketOf(u)]
    BY <1>1 DEF LatchedIsSeen, BucketOf
  <2>1. CASE u = t
    BY <1>1, <1>2, <2>1 DEF b, BuildInv, Types
  <2>2. CASE u # t
    <3>1. pc[u] = "store"
      BY <1>1, <2>2
    <3>2. /\ pos[u] <= Slice(R, u).last /\ latch[BucketOf(u)] = u
          /\ seen[u] = table[BucketOf(u)]
      BY <3>1 DEF BuildInv, LatchedIsSeen
    <3>3. u # Nobody
      BY SizesArePositive DEF Threads, Nobody
    <3>4. BucketOf(u) # b
      BY <1>1, <3>2, <3>3
    <3> QED
      BY <1>1, <2>2, <3>2, <3>4 DEF BuildInv, Types
  <2> QED
    BY <2>1, <2>2
<1>8. Types'
  BY <1>1, <1>2 DEF BuildInv, Types
<1> QED
  BY <1>5, <1>6, <1>7, <1>8 DEF BuildInv

\* A row that its thread has not yet stored is stored by nobody.
LEMMA NotYetStored ==
  ASSUME BuildInv, NEW t \in Threads, pc[t] = "store"
  PROVE  ~IsStored(pos[t])
<1> SUFFICES ASSUME NEW u \in Threads, pos[t] \in StoredBy(u) PROVE FALSE
  BY DEF IsStored
<1>1. pos[t] \in Within(R, t) /\ pos[t] \in Nat
  BY SliceBounds, RelationsAreKeys
  DEF BuildInv, LatchedIsSeen, BuildersInSlice, Building, Within, Types
<1>2. u # t
  BY <1>1, SliceBounds, RelationsAreKeys DEF StoredBy
<1>3. pos[t] \in Within(R, u)
  <2>1. CASE pc[u] \in Building
    <3>1. pos[u] \in Nat /\ pos[u] <= Slice(R, u).last + 1
      BY <2>1, SliceBounds, RelationsAreKeys DEF BuildInv, BuildersInSlice, Types
    <3>2. StoredBy(u) = Slice(R, u).first .. pos[u] - 1
      BY <2>1 DEF StoredBy, Building
    <3> QED
      BY <1>1, <3>1, <3>2, SliceBounds, RelationsAreKeys DEF Within
  <2>2. CASE pc[u] \notin Building
    BY <2>2 DEF StoredBy, Within, Building
  <2> QED
    BY <2>1, <2>2
<1>4. t \in Nat /\ u \in Nat
  BY SizesArePositive DEF Threads
<1>5. CASE t < u
  <2>1. Slice(R, t).last < Slice(R, u).first
    BY <1>5, SlicesAreApart, RelationsAreKeys
  <2> QED
    BY <1>1, <1>3, <2>1, SliceBounds, RelationsAreKeys DEF Within
<1>6. CASE u < t
  <2>1. Slice(R, u).last < Slice(R, t).first
    BY <1>6, SlicesAreApart, RelationsAreKeys
  <2> QED
    BY <1>1, <1>3, <2>1, SliceBounds, RelationsAreKeys DEF Within
<1> QED
  BY <1>2, <1>4, <1>5, <1>6

LEMMA StoreKeepsBuild ==
  ASSUME BuildInv, pc \in [Threads -> Phases], NEW t \in Threads, Store(t)
  PROVE  BuildInv'
<1> DEFINE b == BucketOf(t)
           p == pos[t]
           chain == Inserted(seen[t], t, p)
<1>1. /\ pc[t] = "store"
      /\ latch' = [latch EXCEPT ![b] = Nobody] /\ table' = [table EXCEPT ![b] = chain]
      /\ seen' = [seen EXCEPT ![t] = <<>>] /\ pos' = [pos EXCEPT ![t] = pos[t] + 1]
      /\ pc' = [pc EXCEPT ![t] = "build"]
  BY DEF Store, HolderAfter, BucketOf
<1>2. /\ p \in Within(R, t) /\ p \in Nat /\ b \in Buckets /\ p \in DOMAIN R
      /\ p <= Slice(R, t).last /\ seen[t] = table[b] /\ latch[b] = t
  <2>1. p \in Within(R, t) /\ p \in Nat
    BY <1>1, SliceBounds, RelationsAreKeys
    DEF BuildInv, LatchedIsSeen, BuildersInSlice, Building, Within, Types
  <2>2. p <= Slice(R, t).last /\ seen[t] = table[b] /\ latch[b] = t
    BY <1>1 DEF BuildInv, LatchedIsSeen
  <2>3. b \in Buckets /\ p \in DOMAIN R
    BY <2>1, RowsAreKeys DEF BucketOf
  <2> QED
    BY <2>1, <2>2, <2>3
<1>3. Hash(R[p]) = b
  BY DEF BucketOf
<1>4. ~IsStored(p)
  BY <1>1, NotYetStored
<1>5. Holds(chain, RowsIn(b) \union {p})
  <2>1. Holds(table[b], RowsIn(b)) /\ p \notin RowsIn(b)
    BY <1>2, <1>4 DEF BuildInv, TableHolds, RowsIn
  <2> HIDE DEF b, p
  <2>2. Holds(Inserted(table[b], t, p), RowsIn(b) \union {p})
    BY <1>2, <2>1, InsertedHolds
  <2> QED
    BY <1>2, <2>2
<1> HIDE DEF b, chain
<1>6. /\ StoredBy(t)' = StoredBy(t) \union {p}
      /\ \A u \in Threads : u # t => StoredBy(u)' = StoredBy(u)
  <2>1. pc'[t] = "build" /\ pos'[t] = p + 1 /\ p + 1 \in Nat
    BY <1>1, <1>2 DEF BuildInv, Types
  <2>2. StoredBy(t)' = Slice(R, t).first .. (p + 1) - 1
    BY <2>1 DEF StoredBy
  <2>3. StoredBy(t) = Slice(R, t).first .. p - 1
    BY <1>1 DEF StoredBy
  <2>4. StoredBy(t)' = StoredBy(t) \union {p}
    <3> HIDE DEF p
    <3>1. Slice(R, t).first \in Nat /\ Slice(R, t).first <= p
      BY <1>2, SliceBounds, RelationsAreKeys DEF Within
    <3> QED
      BY <1>2, <2>2, <2>3, <3>1
  <2>5. ASSUME NEW u \in Threads, u # t PROVE StoredBy(u)' = StoredBy(u)
    <3>1. pc'[u] = pc[u] /\ pos'[u] = pos[u]
      BY <1>1, <2>5 DEF BuildInv, Types
    <3> QED
      BY <3>1 DEF StoredBy
  <2> QED
    BY <2>4, <2>5
<1>7. \A rid : IsStored(rid)' <=> IsStored(rid) \/ rid = p
  BY <1>6 DEF IsStored
<1>8. \A c : RowsIn(c)' = IF c = b THEN RowsIn(c) \union {p} ELSE RowsIn(c)
  BY <1>2, <1>3, <1>7 DEF RowsIn
<1>9. chain \in Seq(Nodes)
  BY <1>5 DEF Holds
<1>10. TableHolds'
  <2> SUFFICES ASSUME NEW c \in Buckets PROVE Holds(table'[c], RowsIn(c)')
    BY DEF TableHolds
  <2>1. CASE c = b
    BY <1>1, <1>5, <1>8, <2>1 DEF BuildInv, Types
  <2>2. CASE c # b
    BY <1>1, <1>8, <2>2 DEF BuildInv, Types, TableHolds
  <2> QED
    BY <2>1, <2>2
<1>11. BuildersInSlice'
  <2> SUFFICES ASSUME NEW u \in Threads, pc'[u] \in Building
               PROVE  pos'[u] \in Slice(R, u).first .. Slice(R, u).last + 1
    BY DEF BuildersInSlice
  <2>1. CASE u = t
    <3>1. pos'[u] = p + 1
      BY <1>1, <2>1 DEF BuildInv, Types
    <3> QED
      BY <1>2, <2>1, <3>1, SliceBounds, RelationsAreKeys DEF Within
  <2>2. CASE u # t
    BY <1>1, <2>2 DEF BuildInv, Types, BuildersInSlice
  <2> QED
    BY <2>1, <2>2
<1>12. LatchedIsSeen'
  <2> SUFFICES ASSUME NEW u \in Threads, pc'[u] = "store"
               PROVE  /\ pos'[u] <= Slice(R, u).last
                      /\ latch'[BucketOf(u)'] = u /\ seen'[u] = table'[BucketOf(u)']
    BY DEF LatchedIsSeen
  <2>1. u # t
    BY <1>1
  <2>2. pc[u] = "store" /\ pos'[u] = pos[u] /\ seen'[u] = seen[u]
    BY <1>1, <2>1 DEF BuildInv, Types
  <2>3. BucketOf(u)' = BucketOf(u)
    BY <2>2 DEF BucketOf
  <2>4. /\ pos[u] <= Slice(R, u).last /\ latch[BucketOf(u)] = u
        /\ seen[u] = table[BucketOf(u)]
    BY <2>2 DEF BuildInv, LatchedIsSeen
  <2>5. BucketOf(u) # b
    BY <1>2, <2>1, <2>4
  <2>6. latch'[BucketOf(u)] = latch[BucketOf(u)] /\ table'[BucketOf(u)] = table[BucketOf(u)]
    BY <1>1, <2>5 DEF BuildInv, Types
  <2> QED
    BY <2>2, <2>3, <2>4, <2>6
<1>13. Types'
  <2>1. <<>> \in Seq(Nodes)
    OBVIOUS
  <2>2. p + 1 \in Nat
    BY <1>2
  <2> QED
    BY <1>1, <1>2, <1>9, <2>1, <2>2 DEF BuildInv, Types
<1> QED
  BY <1>10, <1>11, <1>12, <1>13 DEF BuildInv

\* A step of one thread that leaves the table alone: it stays a builder and
\* where it is, or its slice is stored.
LEMMA QuietStep ==
  ASSUME BuildInv, pc \in [Threads -> Phases], NEW t \in Threads, NEW next,
         pc' = [pc EXCEPT ![t] = next], next # "store",
         UNCHANGED <<table, latch, seen>>, pos' \in [Threads -> Nat],
         \A u \in Threads : u # t => pos'[u] = pos[u],
         \/ pc[t] \in Building /\ next \in Building /\ pos'[t] = pos[t]
         \/ pc[t] \in Building /\ next \notin Building /\ pos[t] > Slice(R, t).last
         \/ pc[t] \notin Building /\ next \notin Building
  PROVE  BuildInv'
<1>1. pc'[t] = next /\ \A u \in Threads : u # t => pc'[u] = pc[u]
  OBVIOUS
<1>2. ASSUME NEW u \in Threads, u # t PROVE StoredBy(u)' = StoredBy(u)
  <2>1. pc'[u] = pc[u] /\ pos'[u] = pos[u]
    BY <1>1, <1>2
  <2> QED
    BY <2>1 DEF StoredBy
<1>3. StoredBy(t)' = StoredBy(t)
  <2>1. CASE pc[t] \in Building /\ next \in Building /\ pos'[t] = pos[t]
    BY <1>1, <2>1 DEF StoredBy, Building
  <2>2. CASE pc[t] \in Building /\ next \notin Building /\ pos[t] > Slice(R, t).last
    <3>1. pos[t] \in Nat /\ pos[t] - 1 = Slice(R, t).last
      BY <2>2, SliceBounds, RelationsAreKeys DEF BuildInv, BuildersInSlice, Types
    <3> QED
      BY <1>1, <2>2, <3>1 DEF StoredBy, Building
  <2>3. CASE pc[t] \notin Building /\ next \notin Building
    BY <1>1, <2>3 DEF StoredBy, Building
  <2> QED
    BY <2>1, <2>2, <2>3
<1>4. \A u \in Threads :
        /\ StoredBy(u)' = StoredBy(u)
        /\ pc'[u] \in Building => pc[u] \in Building /\ pos'[u] = pos[u]
        /\ pc'[u] = "store" => pc[u] = "store"
  <2>1. \A u \in Threads : pc'[u] \in Building => pc[u] \in Building /\ pos'[u] = pos[u]
    BY <1>1
  <2>2. \A u \in Threads : pc'[u] = "store" => pc[u] = "store"
    BY <1>1
  <2>3. \A u \in Threads : StoredBy(u)' = StoredBy(u)
    BY <1>2, <1>3
  <2> QED
    BY <2>1, <2>2, <2>3
<1> QED
  BY <1>4, NothingStored

LEMMA InitBuild == Init => BuildInv
<1> SUFFICES ASSUME Init PROVE BuildInv
  OBVIOUS
<1>1. Empty \in Nodes /\ <<Empty>> \in Seq(Nodes)
  <2>1. <<>> \in Seq(DOMAIN R)
    OBVIOUS
  <2>2. Empty \in Nodes
    BY <2>1 DEF Empty, Nodes
  <2> HIDE DEF Nodes
  <2> QED
    BY <2>2
<1>2. \A t \in Threads : pc[t] = "start" /\ pos[t] = Slice(R, t).first
  BY DEF Init
<1>3. \A rid : ~IsStored(rid)
  <2> SUFFICES ASSUME NEW t \in Threads, NEW rid \in StoredBy(t) PROVE FALSE
    BY DEF IsStored
  <2>1. StoredBy(t) = Slice(R, t).first .. Slice(R, t).first - 1
    BY <1>2 DEF StoredBy
  <2>2. Slice(R, t).first \in Nat
    BY SliceBounds, RelationsAreKeys
  <2> QED
    BY <2>1, <2>2
<1>4. Holds(<<Empty>>, {})
  <2> DEFINE c == <<Empty>>
  <2>1. c # <<>> /\ DOMAIN c = {1} /\ c[1] = Empty
    OBVIOUS
  <2>2. Empty.tuples = <<>> /\ DOMAIN <<>> = {}
    BY DEF Empty
  <2>3. Held(Empty) = {} /\ Apart(Empty)
    BY <2>2 DEF Held, Apart
  <2>4. c \in Seq(Nodes)
    BY <1>1
  <2> HIDE DEF c
  <2> QED
    BY <2>1, <2>3, <2>4 DEF Holds, c
<1>5. TableHolds
  <2> SUFFICES ASSUME NEW b \in Buckets PROVE Holds(table[b], RowsIn(b))
    BY DEF TableHolds
  <2>1. RowsIn(b) = {}
    BY <1>3 DEF RowsIn
  <2>2. table[b] = <<Empty>>
    BY DEF Init
  <2> QED
    BY <1>4, <2>1, <2>2
<1>6. BuildersInSlice
  BY <1>2, SliceBounds, RelationsAreKeys DEF BuildersInSlice
<1>7. LatchedIsSeen
  BY <1>2 DEF LatchedIsSeen
<1>8. Types
  <2>1. pos \in [Threads -> Nat]
    BY SliceBounds, RelationsAreKeys DEF Init
  <2>2. seen \in [Threads -> Seq(Nodes)]
    <3>1. <<>> \in Seq(Nodes)
      OBVIOUS
    <3> QED
      BY <3>1 DEF Init
  <2>3. latch \in [Buckets -> Threads \union {Nobody}]
    BY DEF Init
  <2>4. table \in [Buckets -> Seq(Nodes)]
    BY <1>1 DEF Init
  <2> QED
    BY <2>1, <2>2, <2>3, <2>4 DEF Types
<1> QED
  BY <1>5, <1>6, <1>7, <1>8 DEF BuildInv

LEMMA NextKeepsBuild ==
  ASSUME BuildInv, BarrierInv, [Next]_vars
  PROVE  BuildInv'
<1>1. pc \in [Threads -> Phases] /\ pos \in [Threads -> Nat]
  BY DEF BarrierInv, BuildInv, Types
<1>2. CASE UNCHANGED <<pc, pos, table, latch, seen>>
  BY <1>2, NothingStored, <1>1 DEF StoredBy
<1>3. ASSUME NEW t \in Threads, Thread(t) PROVE BuildInv'
  <2>1. CASE Start(t)
    <3>1. /\ pc[t] = "start" /\ pc' = [pc EXCEPT ![t] = "started"]
          /\ UNCHANGED <<pos, table, latch, seen>>
      BY <2>1 DEF Start, Arrive
    <3> QED
      BY <1>1, <3>1, QuietStep DEF Building
  <2>2. CASE Begin(t)
    <3>1. /\ pc[t] = "started" /\ pc' = [pc EXCEPT ![t] = "build"]
          /\ UNCHANGED <<pos, table, latch, seen>>
      BY <2>2 DEF Begin
    <3> QED
      BY <1>1, <3>1, QuietStep DEF Building
  <2>3. CASE LatchBucket(t)
    BY <1>1, <2>3, LatchKeepsBuild
  <2>4. CASE Store(t)
    BY <1>1, <2>4, StoreKeepsBuild
  <2>5. CASE Built(t)
    <3>1. /\ pc[t] = "build" /\ pos[t] > Slice(R, t).last /\ pc' = [pc EXCEPT ![t] = "built"]
          /\ UNCHANGED <<pos, table, latch, seen>>
      BY <2>5 DEF Built, Arrive
    <3> QED
      BY <1>1, <3>1, QuietStep DEF Building
  <2>6. CASE BeginProbe(t)
    <3>1. /\ pc[t] = "built" /\ pc' = [pc EXCEPT ![t] = "probe"]
          /\ pos' = [pos EXCEPT ![t] = Slice(S, t).first]
          /\ UNCHANGED <<table, latch, seen>>
      BY <2>6 DEF BeginProbe
    <3>2. Slice(S, t).first \in Nat
      BY SliceBounds, RelationsAreKeys
    <3>3. pos' \in [Threads -> Nat] /\ \A u \in Threads : u # t => pos'[u] = pos[u]
      BY <1>1, <3>1, <3>2
    <3> QED
      BY <1>1, <3>1, <3>3, QuietStep DEF Building
  <2>7. CASE ProbeNode(t)
    <3>1. /\ pc[t] = "probe" /\ pc' = pc
          /\ pos' = pos \/ pos' = [pos EXCEPT ![t] = pos[t] + 1]
          /\ UNCHANGED <<table, latch, seen>>
      BY <2>7 DEF ProbeNode
    <3>2. pos' \in [Threads -> Nat] /\ \A u \in Threads : u # t => pos'[u] = pos[u]
      BY <1>1, <3>1
    <3>3. pc' = [pc EXCEPT ![t] = "probe"]
      BY <1>1, <3>1
    <3> QED
      BY <1>1, <3>1, <3>2, <3>3, QuietStep DEF Building
  <2>8. CASE Probed(t)
    <3>1. PICK next \in {"probed", "free"} : pc' = [pc EXCEPT ![t] = next]
      BY <2>8 DEF Probed, Arrive
    <3>2. pc[t] = "probe" /\ UNCHANGED <<pos, table, latch, seen>>
      BY <2>8 DEF Probed
    <3>3. next # "store" /\ next \notin Building
      BY DEF Building
    <3> QED
      BY <1>1, <3>1, <3>2, <3>3, QuietStep DEF Building
  <2>9. CASE EndTiming(t)
    <3>1. /\ pc[t] = "probed" /\ pc' = [pc EXCEPT ![t] = "free"]
          /\ UNCHANGED <<pos, table, latch, seen>>
      BY <2>9 DEF EndTiming
    <3> QED
      BY <1>1, <3>1, QuietStep DEF Building
  <2>10. CASE Free(t)
    <3>1. /\ pc[t] = "free" /\ pc' = [pc EXCEPT ![t] = "done"]
          /\ UNCHANGED <<pos, table, latch, seen>>
      BY <2>10 DEF Free
    <3> QED
      BY <1>1, <3>1, QuietStep DEF Building
  <2> QED
    BY <1>3, <2>1, <2>2, <2>3, <2>4, <2>5, <2>6, <2>7, <2>8, <2>9, <2>10 DEF Thread
<1>4. CASE Join
  BY <1>2, <1>4 DEF Join
<1>5. CASE UNCHANGED vars
  BY <1>2, <1>5 DEF vars
<1> QED
  BY <1>3, <1>4, <1>5 DEF Next

-----------------------------------------------------------------------------
(***************************************************************************)
(* The probe: each thread has counted the pairs it has passed.             *)
(***************************************************************************)
Pairs == {p \in (DOMAIN R) \X (DOMAIN S) : R[p[1]] = S[p[2]]}
Mine(t) == {p \in Pairs : p[2] \in Within(S, t)}

\* The pairs of a thread before row i of S, and those of row i that are in the
\* first nodes of its chain.
Found(t, i, nodes) ==
  {p \in Mine(t) : \/ p[2] < i
                   \/ p[2] = i /\ \E j \in 1 .. nodes : p[1] \in Held(table[Hash(S[i])][j])}

Counts(t) ==
  /\ pc[t] \in Building \union {"built"} => matches[t] = 0 /\ node[t] = 1
  /\ pc[t] = "probe" =>
       /\ pos[t] \in Slice(S, t).first .. Slice(S, t).last + 1
       /\ pos[t] <= Slice(S, t).last => node[t] \in 1 .. Len(Chain(t))
       /\ matches[t] = Cardinality(Found(t, pos[t], node[t] - 1))
  /\ pc[t] \in {"probed", "free", "done"} => matches[t] = Cardinality(Mine(t))

CountInv ==
  /\ matches \in [Threads -> Nat] /\ node \in [Threads -> Nat]
  /\ \A t \in Threads : Counts(t)

LEMMA PairsAreFinite ==
  /\ IsFiniteSet(Pairs) /\ IsFiniteSet(DOMAIN R)
  /\ \A Q : Q \subseteq Pairs => IsFiniteSet(Q) /\ Cardinality(Q) \in Nat
<1>1. DOMAIN R = 1 .. Len(R) /\ DOMAIN S = 1 .. Len(S) /\ Len(R) \in Int /\ Len(S) \in Int
  BY RelationsAreKeys
<1>2. IsFiniteSet(1 .. Len(R)) /\ IsFiniteSet(1 .. Len(S))
  BY <1>1, FS_Interval
<1>3. IsFiniteSet((DOMAIN R) \X (DOMAIN S))
  BY <1>1, <1>2, FS_Product
<1>4. IsFiniteSet(Pairs)
  BY <1>3, FS_Subset DEF Pairs
<1> QED
  BY <1>1, <1>2, <1>4, FS_Subset, FS_CardinalityType

\* Then the table holds all of R.
LEMMA TableIsFull ==
  ASSUME BuildInv, \A u \in Threads : pc[u] \notin Building, NEW rid \in DOMAIN R
  PROVE  rid \in RowsIn(Hash(R[rid]))
<1>1. rid \in 1 .. Len(R)
  BY RelationsAreKeys
<1>2. PICK u \in Threads : rid \in Within(R, u)
  BY <1>1, RowHasThread, RelationsAreKeys
<1>3. StoredBy(u) = Within(R, u)
  BY DEF StoredBy, Within, Building
<1> QED
  BY <1>2, <1>3 DEF RowsIn, IsStored

\* What a probe counts in a node are the pairs of its row with the node's rows.
LEMMA MatchesAreHeld ==
  ASSUME NEW n \in Nodes, Apart(n), NEW i \in DOMAIN S
  PROVE  MatchesIn(n, S[i]) = Cardinality({p \in Pairs : p[2] = i /\ p[1] \in Held(n)})
<1> DEFINE q == n.tuples
           D == {j \in DOMAIN q : R[q[j]] = S[i]}
           E == {p \in Pairs : p[2] = i /\ p[1] \in Held(n)}
           f == [j \in D |-> <<q[j], i>>]
<1>1. q \in Seq(DOMAIN R) /\ DOMAIN q = 1 .. Len(q) /\ Len(q) \in Int
  BY DEF Nodes
<1>2. IsFiniteSet(D)
  <2>1. IsFiniteSet(1 .. Len(q))
    <3> HIDE DEF q
    <3> QED
      BY <1>1, FS_Interval
  <2>2. D \in SUBSET (1 .. Len(q))
    BY <1>1
  <2> HIDE DEF D, q
  <2> QED
    BY <2>1, <2>2, FS_Subset
<1>3. \A j \in D : q[j] \in DOMAIN R /\ q[j] \in Held(n)
  BY <1>1 DEF Held
<1>4. \A j \in D : f[j] \in E
  BY <1>3 DEF Pairs
<1>5. \A j, k \in D : f[j] = f[k] => j = k
  <2> SUFFICES ASSUME NEW j \in D, NEW k \in D, f[j] = f[k] PROVE j = k
    OBVIOUS
  <2>1. <<q[j], i>> = <<q[k], i>>
    OBVIOUS
  <2>2. n.tuples[j] = n.tuples[k] /\ j \in DOMAIN n.tuples /\ k \in DOMAIN n.tuples
    BY <2>1
  <2> QED
    BY <2>2 DEF Apart
<1>6. \A p \in E : \E j \in D : f[j] = p
  <2> SUFFICES ASSUME NEW p \in E PROVE \E j \in D : f[j] = p
    OBVIOUS
  <2>1. p = <<p[1], p[2]>> /\ p[2] = i /\ R[p[1]] = S[i]
    BY DEF Pairs
  <2>2. PICK j \in DOMAIN q : q[j] = p[1]
    BY DEF Held
  <2>3. j \in D
    BY <2>1, <2>2
  <2> QED
    BY <2>1, <2>2, <2>3
<1>7. ExistsBijection(D, E)
  <2> DEFINE g == f
  <2>1. g \in [D -> E]
    BY <1>4
  <2> HIDE DEF D, E
  <2>2. \A j, k \in D : g[j] = g[k] => j = k
    BY <1>5
  <2>3. \A p \in E : \E j \in D : g[j] = p
    BY <1>6
  <2> HIDE DEF g
  <2> QED
    BY <2>1, <2>2, <2>3 DEF ExistsBijection, Bijection, Injection, Surjection, IsInjective
<1>8. Cardinality(D) = Cardinality(E)
  <2> HIDE DEF D, E
  <2> QED
    BY <1>2, <1>7, FS_Bijection
<1> QED
  BY <1>8 DEF MatchesIn

-----------------------------------------------------------------------------
LEMMA ProbeCounts ==
  ASSUME BuildInv, BarrierInv, CountInv, NEW t \in Threads,
         pc[t] = "probe", pos[t] <= Slice(S, t).last, NEW count \in ReadsOf(t)
  PROVE  /\ node[t] \in Nat \ {0} /\ pos[t] \in DOMAIN S /\ pos[t] \in Nat
         /\ count \in Nat
         /\ matches[t] + count = Cardinality(Found(t, pos[t], node[t]))
         /\ node[t] = Len(Chain(t)) => Found(t, pos[t], node[t]) = Found(t, pos[t] + 1, 0)
<1> DEFINE i == pos[t]
           k == node[t]
           n == Chain(t)[k]
           before == Found(t, i, k - 1)
           after == Found(t, i, k)
           new == {p \in Pairs : p[2] = i /\ p[1] \in Held(n)}
<1>1. /\ i \in Within(S, t) /\ i \in DOMAIN S /\ i \in Nat
      /\ k \in 1 .. Len(Chain(t)) /\ matches[t] = Cardinality(before)
  <2>1. /\ i \in Slice(S, t).first .. Slice(S, t).last + 1
        /\ k \in 1 .. Len(Chain(t)) /\ matches[t] = Cardinality(before)
    BY DEF CountInv, Counts
  <2>2. i \in Within(S, t) /\ i \in 1 .. Len(S)
    BY <2>1, SliceBounds, RelationsAreKeys DEF Within
  <2> QED
    BY <2>1, <2>2, RelationsAreKeys
<1>2. S[i] \in Nat /\ Hash(S[i]) \in Buckets
  BY <1>1, RelationsAreKeys, HashIsBucket
<1>3. /\ Holds(Chain(t), RowsIn(Hash(S[i]))) /\ Chain(t) = table[Hash(S[i])]
      /\ Len(Chain(t)) \in Nat /\ DOMAIN Chain(t) = 1 .. Len(Chain(t))
  <2>1. Holds(Chain(t), RowsIn(Hash(S[i]))) /\ Chain(t) = table[Hash(S[i])]
    BY <1>2 DEF Chain, BuildInv, TableHolds
  <2>2. Chain(t) \in Seq(Nodes)
    BY <2>1 DEF Holds
  <2> QED
    BY <2>1, <2>2
<1>4. n \in Nodes /\ Apart(n)
  <2>1. Chain(t) \in Seq(Nodes) /\ k \in DOMAIN Chain(t) /\ Apart(Chain(t)[k])
    BY <1>1, <1>3 DEF Holds
  <2> QED
    BY <2>1
<1>5. count = Cardinality(new)
  <2>1. freed = {}
    BY ProbesAreAlone
  <2>2. count = MatchesIn(n, S[i])
    BY <2>1 DEF ReadsOf
  <2> HIDE DEF n, i
  <2> QED
    BY <1>1, <1>4, <2>2, MatchesAreHeld
<1>6. after = before \union new
  <2>1. new \subseteq Mine(t)
    BY <1>1 DEF Mine
  <2>2. ASSUME NEW p \in Mine(t)
        PROVE  p \in after <=> p \in before \/ p \in new
    <3>1. CASE p[2] # i
      BY <3>1 DEF Found
    <3>2. CASE p[2] = i
      <4>1. p \in after <=> \E j \in 1 .. k : p[1] \in Held(Chain(t)[j])
        BY <1>1, <1>3, <3>2 DEF Found
      <4>2. p \in before <=> \E j \in 1 .. k - 1 : p[1] \in Held(Chain(t)[j])
        BY <1>1, <1>3, <3>2 DEF Found
      <4>3. p \in new <=> p[1] \in Held(Chain(t)[k])
        BY <3>2 DEF Mine
      <4>4. \A j : j \in 1 .. k <=> j \in 1 .. k - 1 \/ j = k
        BY <1>1, <1>3
      <4> HIDE DEF k, i, before, after, new
      <4> QED
        BY <4>1, <4>2, <4>3, <4>4
    <3> QED
      BY <3>1, <3>2
  <2>3. after \subseteq Mine(t) /\ before \subseteq Mine(t)
    BY DEF Found
  <2> HIDE DEF after, before, new
  <2> QED
    BY <2>1, <2>2, <2>3
<1>7. before \cap new = {}
  <2> SUFFICES ASSUME NEW p \in before, p \in new PROVE FALSE
    OBVIOUS
  <2>1. p[2] = i /\ p[1] \in Held(Chain(t)[k])
    OBVIOUS
  <2>2. PICK j \in 1 .. k - 1 : p[1] \in Held(Chain(t)[j])
    BY <1>1, <1>3, <2>1 DEF Found
  <2>3. j \in DOMAIN Chain(t) /\ k \in DOMAIN Chain(t) /\ j # k
    BY <1>1, <1>3
  <2> QED
    BY <1>3, <2>1, <2>2, <2>3 DEF Holds
<1>8. before \subseteq Pairs /\ new \subseteq Pairs
  BY DEF Found, Mine
<1>9. Cardinality(after) = matches[t] + count
  <2>1. IsFiniteSet(before) /\ IsFiniteSet(new) /\ Cardinality(before) \in Nat
        /\ Cardinality(new) \in Nat
    BY <1>8, PairsAreFinite
  <2> HIDE DEF before, new, after
  <2>2. Cardinality(before \union new) =
          Cardinality(before) + Cardinality(new) - Cardinality(before \cap new)
    BY <2>1, FS_Union
  <2>3. Cardinality(before \cap new) = 0
    BY <1>7, FS_EmptySet
  <2> QED
    BY <1>1, <1>5, <1>6, <2>1, <2>2, <2>3
<1>10. count \in Nat
  BY <1>5, <1>8, PairsAreFinite
<1>11. ASSUME k = Len(Chain(t)) PROVE after = Found(t, i + 1, 0)
  <2>1. ASSUME NEW p \in Mine(t), p[2] = i PROVE \E j \in 1 .. k : p[1] \in Held(Chain(t)[j])
    <3>1. p[1] \in DOMAIN R /\ R[p[1]] = S[i]
      BY <2>1 DEF Mine, Pairs
    <3>2. p[1] \in RowsIn(Hash(S[i]))
      BY <3>1, ProbesAreAlone, TableIsFull
    <3> QED
      BY <1>3, <1>11, <3>2 DEF Holds
  <2>2. ASSUME NEW p \in Mine(t) PROVE p \in after <=> p[2] <= i
    <3>1. p[2] \in Nat
      BY RelationsAreKeys DEF Mine, Pairs
    <3>2. CASE p[2] = i
      BY <1>1, <1>3, <2>1, <3>2 DEF Found
    <3>3. CASE p[2] # i
      BY <1>1, <3>1, <3>3 DEF Found
    <3> QED
      BY <3>2, <3>3
  <2>3. ASSUME NEW p \in Mine(t) PROVE p \in Found(t, i + 1, 0) <=> p[2] <= i
    <3>1. p[2] \in Nat
      BY RelationsAreKeys DEF Mine, Pairs
    <3>2. p \in Found(t, i + 1, 0) <=> p[2] < i + 1
      BY DEF Found
    <3> QED
      BY <1>1, <3>1, <3>2
  <2>4. after \subseteq Mine(t) /\ Found(t, i + 1, 0) \subseteq Mine(t)
    BY DEF Found
  <2> HIDE DEF after
  <2> QED
    BY <2>2, <2>3, <2>4
<1> QED
  BY <1>1, <1>3, <1>9, <1>10, <1>11

LEMMA InitCount == Init => CountInv
BY DEF Init, CountInv, Counts, Building

\* Steps of the others leave a thread's count as it is.
LEMMA OthersCount ==
  ASSUME NEW u \in Threads, Counts(u), table' = table \/ pc[u] # "probe",
         pc'[u] = pc[u], pos'[u] = pos[u], node'[u] = node[u], matches'[u] = matches[u]
  PROVE  Counts(u)'
<1>1. CASE pc[u] # "probe"
  BY <1>1 DEF Counts
<1>2. CASE pc[u] = "probe" /\ table' = table
  <2>1. Chain(u)' = Chain(u)
    BY <1>2 DEF Chain
  <2>2. Found(u, pos[u], node[u] - 1)' = Found(u, pos[u], node[u] - 1)
    BY <1>2 DEF Found
  <2> QED
    BY <1>2, <2>1, <2>2 DEF Counts
<1> QED
  BY <1>1, <1>2

LEMMA CountsKept ==
  ASSUME CountInv, NEW t \in Threads, Counts(t)', NEW next,
         pc \in [Threads -> Phases], pc' = [pc EXCEPT ![t] = next],
         matches' \in [Threads -> Nat], node' \in [Threads -> Nat],
         \A u \in Threads : u # t =>
           pos'[u] = pos[u] /\ node'[u] = node[u] /\ matches'[u] = matches[u],
         table' = table \/ \A u \in Threads : pc[u] # "probe"
  PROVE  CountInv'
<1> SUFFICES ASSUME NEW u \in Threads, u # t PROVE Counts(u)'
  BY DEF CountInv
<1>1. Counts(u) /\ pc'[u] = pc[u]
  BY DEF CountInv
<1> QED
  BY <1>1, OthersCount

\* Before the first row nothing is found, and after the last row all is.
LEMMA FoundAtEnds ==
  ASSUME NEW t \in Threads
  PROVE  /\ Cardinality(Found(t, Slice(S, t).first, 0)) = 0
         /\ \A i \in Nat : \A k : i > Slice(S, t).last => Found(t, i, k) = Mine(t)
<1> DEFINE first == Slice(S, t).first
           last == Slice(S, t).last
<1>1. first \in Nat /\ last \in Nat
  BY SliceBounds, RelationsAreKeys
<1>2. \A p \in Mine(t) : p[2] \in Nat /\ first <= p[2] /\ p[2] <= last
  BY <1>1 DEF Mine, Within
<1> HIDE DEF first, last
<1>3. Found(t, first, 0) = {}
  <2> SUFFICES ASSUME NEW p \in Found(t, first, 0) PROVE FALSE
    OBVIOUS
  <2>1. p \in Mine(t) /\ (p[2] < first \/ (p[2] = first /\ \E j \in 1 .. 0 : TRUE))
    BY DEF Found
  <2> QED
    BY <1>1, <1>2, <2>1
<1>4. \A i \in Nat : \A k : i > last => Found(t, i, k) = Mine(t)
  <2> SUFFICES ASSUME NEW i \in Nat, NEW k, i > last PROVE Found(t, i, k) = Mine(t)
    OBVIOUS
  <2>1. \A p \in Mine(t) : p[2] < i
    BY <1>1, <1>2
  <2> QED
    BY <2>1 DEF Found
<1> QED
  BY <1>3, <1>4, FS_EmptySet DEF first, last

\* An empty chain is none: there is always a first node.
LEMMA ChainHasNode ==
  ASSUME BuildInv, NEW i \in DOMAIN S
  PROVE  1 \in 1 .. Len(table[Hash(S[i])])
<1>1. Hash(S[i]) \in Buckets
  BY RelationsAreKeys, HashIsBucket
<1>2. table[Hash(S[i])] \in Seq(Nodes) /\ table[Hash(S[i])] # <<>>
  BY <1>1 DEF BuildInv, TableHolds, Holds
<1> QED
  BY <1>2, EmptySeq

LEMMA BeginKeepsCount ==
  ASSUME BuildInv, CountInv, pc \in [Threads -> Phases], NEW t \in Threads, BeginProbe(t)
  PROVE  CountInv'
<1>1. /\ pc[t] = "built" /\ pc' = [pc EXCEPT ![t] = "probe"]
      /\ pos' = [pos EXCEPT ![t] = Slice(S, t).first]
      /\ UNCHANGED <<node, matches, table>>
  BY DEF BeginProbe
<1>2. matches[t] = 0 /\ node[t] = 1
  BY <1>1 DEF CountInv, Counts
<1>3. pos \in [Threads -> Nat]
  BY DEF BuildInv, Types
<1>4. /\ Slice(S, t).first \in Nat \ {0} /\ Slice(S, t).last \in Nat
      /\ Slice(S, t).first <= Slice(S, t).last + 1 /\ Slice(S, t).last <= Len(S)
  BY SliceBounds, RelationsAreKeys
<1>5. pos'[t] = Slice(S, t).first /\ pc'[t] = "probe"
  BY <1>1, <1>3
<1>6. pos'[t] <= Slice(S, t).last => node'[t] \in 1 .. Len(Chain(t)')
  <2> SUFFICES ASSUME pos'[t] <= Slice(S, t).last PROVE node'[t] \in 1 .. Len(Chain(t)')
    OBVIOUS
  <2>1. pos'[t] \in DOMAIN S
    BY <1>4, <1>5, RelationsAreKeys
  <2>2. Chain(t)' = table[Hash(S[pos'[t]])]
    BY <1>1 DEF Chain
  <2> QED
    BY <1>1, <1>2, <2>1, <2>2, ChainHasNode
<1>7. matches'[t] = Cardinality(Found(t, pos[t], node[t] - 1)')
  <2>1. Found(t, pos[t], node[t] - 1)' = Found(t, Slice(S, t).first, 0)
    <3>1. node'[t] - 1 = 0
      BY <1>1, <1>2
    <3> QED
      BY <1>1, <1>5, <3>1 DEF Found
  <2> QED
    BY <1>1, <1>2, <2>1, FoundAtEnds
<1>8. Counts(t)'
  BY <1>4, <1>5, <1>6, <1>7 DEF Counts, Building
<1> QED
  BY <1>1, <1>3, <1>8, CountsKept DEF CountInv

LEMMA ProbeKeepsCount ==
  ASSUME BuildInv, BarrierInv, CountInv, NEW t \in Threads, ProbeNode(t)
  PROVE  CountInv'
<1>0. pc \in [Threads -> Phases] /\ pos \in [Threads -> Nat]
      /\ matches \in [Threads -> Nat] /\ node \in [Threads -> Nat]
  BY DEF BarrierInv, BuildInv, Types, CountInv
<1>1. PICK count \in ReadsOf(t) : matches' = [matches EXCEPT ![t] = matches[t] + count]
  BY DEF ProbeNode
<1>2. /\ pc[t] = "probe" /\ pos[t] <= Slice(S, t).last /\ UNCHANGED <<pc, table>>
      /\ IF node[t] = Len(Chain(t))
         THEN node' = [node EXCEPT ![t] = 1] /\ pos' = [pos EXCEPT ![t] = pos[t] + 1]
         ELSE node' = [node EXCEPT ![t] = node[t] + 1] /\ UNCHANGED pos
  BY DEF ProbeNode
<1>3. /\ node[t] \in Nat \ {0} /\ pos[t] \in DOMAIN S /\ pos[t] \in Nat
      /\ count \in Nat
      /\ matches[t] + count = Cardinality(Found(t, pos[t], node[t]))
      /\ node[t] = Len(Chain(t)) => Found(t, pos[t], node[t]) = Found(t, pos[t] + 1, 0)
  BY <1>2, ProbeCounts
<1>4. /\ Slice(S, t).first \in Nat \ {0} /\ Slice(S, t).last \in Nat
      /\ Slice(S, t).first <= Slice(S, t).last + 1 /\ Slice(S, t).last <= Len(S)
  BY SliceBounds, RelationsAreKeys
<1>5. pos[t] \in Slice(S, t).first .. Slice(S, t).last + 1
      /\ node[t] \in 1 .. Len(Chain(t))
  BY <1>2 DEF CountInv, Counts
<1>6. matches'[t] = Cardinality(Found(t, pos[t], node[t]))
  BY <1>0, <1>1, <1>3
<1>7. \A i, k : Found(t, i, k)' = Found(t, i, k)
  BY <1>2 DEF Found
<1>8. Counts(t)'
  <2>1. CASE node[t] = Len(Chain(t))
    <3>1. node'[t] = 1 /\ pos'[t] = pos[t] + 1 /\ pc'[t] = "probe"
      BY <1>0, <1>2, <2>1
    <3>2. pos'[t] \in Slice(S, t).first .. Slice(S, t).last + 1
      BY <1>2, <1>3, <1>4, <1>5, <3>1
    <3>3. pos'[t] <= Slice(S, t).last => node'[t] \in 1 .. Len(Chain(t)')
      <4> SUFFICES ASSUME pos'[t] <= Slice(S, t).last PROVE node'[t] \in 1 .. Len(Chain(t)')
        OBVIOUS
      <4>1. pos'[t] \in DOMAIN S
        BY <1>3, <1>4, <3>1, RelationsAreKeys
      <4>2. Chain(t)' = table[Hash(S[pos'[t]])]
        BY <1>2 DEF Chain
      <4> QED
        BY <3>1, <4>1, <4>2, ChainHasNode
    <3>4. Found(t, pos[t], node[t] - 1)' = Found(t, pos[t] + 1, 0)
      <4>1. node'[t] - 1 = 0
        BY <3>1
      <4> QED
        BY <1>2, <3>1, <4>1 DEF Found
    <3>5. matches'[t] = Cardinality(Found(t, pos[t], node[t] - 1)')
      BY <1>3, <1>6, <2>1, <3>4
    <3> QED
      BY <3>1, <3>2, <3>3, <3>5 DEF Counts, Building
  <2>2. CASE node[t] # Len(Chain(t))
    <3>1. node'[t] = node[t] + 1 /\ pos'[t] = pos[t] /\ pc'[t] = "probe"
      BY <1>0, <1>2, <2>2
    <3>2. Chain(t)' = Chain(t)
      BY <1>2, <3>1 DEF Chain
    <3>3. node'[t] \in 1 .. Len(Chain(t)')
      <4>1. Len(Chain(t)) \in Nat
        <5>1. Hash(S[pos[t]]) \in Buckets
          BY <1>3, RelationsAreKeys, HashIsBucket
        <5>2. Chain(t) \in Seq(Nodes)
          BY <5>1 DEF Chain, BuildInv, Types
        <5> QED
          BY <5>2
      <4> QED
        BY <1>3, <1>5, <2>2, <3>1, <3>2, <4>1
    <3>4. Found(t, pos[t], node[t] - 1)' = Found(t, pos[t], node[t])
      <4>1. node'[t] - 1 = node[t]
        BY <1>3, <3>1
      <4> QED
        BY <1>2, <3>1, <4>1 DEF Found
    <3> QED
      BY <1>5, <1>6, <3>1, <3>3, <3>4 DEF Counts, Building
  <2> QED
    BY <2>1, <2>2
<1>9. pc' = [pc EXCEPT ![t] = "probe"]
  BY <1>0, <1>2
<1>10. /\ matches' \in [Threads -> Nat] /\ node' \in [Threads -> Nat]
       /\ \A u \in Threads : u # t =>
            pos'[u] = pos[u] /\ node'[u] = node[u] /\ matches'[u] = matches[u]
  <2>1. matches[t] + count \in Nat /\ node[t] + 1 \in Nat
    BY <1>0, <1>3
  <2>2. matches' \in [Threads -> Nat] /\ \A u \in Threads : u # t => matches'[u] = matches[u]
    BY <1>0, <1>1, <2>1
  <2>3. CASE node[t] = Len(Chain(t))
    <3>1. node' = [node EXCEPT ![t] = 1] /\ pos' = [pos EXCEPT ![t] = pos[t] + 1]
      BY <1>2, <2>3
    <3>2. 1 \in Nat
      OBVIOUS
    <3>3. node' \in [Threads -> Nat] /\ \A u \in Threads : u # t => node'[u] = node[u]
      BY <1>0, <3>1, <3>2
    <3>4. \A u \in Threads : u # t => pos'[u] = pos[u]
      BY <1>0, <3>1
    <3> QED
      BY <2>2, <3>3, <3>4
  <2>4. CASE node[t] # Len(Chain(t))
    BY <1>0, <1>2, <2>1, <2>2, <2>4
  <2> QED
    BY <2>3, <2>4
<1> QED
  BY <1>0, <1>2, <1>8, <1>9, <1>10, CountsKept

LEMMA NextKeepsCount ==
  ASSUME BuildInv, BarrierInv, CountInv, [Next]_vars
  PROVE  CountInv'
<1>0. pc \in [Threads -> Phases] /\ pos \in [Threads -> Nat]
      /\ matches \in [Threads -> Nat] /\ node \in [Threads -> Nat]
  BY DEF BarrierInv, BuildInv, Types, CountInv
<1>1. CASE UNCHANGED <<pc, pos, node, matches, table>>
  BY <1>1, OthersCount DEF CountInv
<1> DEFINE Quiet(t, next) ==
      /\ pc' = [pc EXCEPT ![t] = next] /\ UNCHANGED <<node, matches>>
      /\ \A u \in Threads : u # t => pos'[u] = pos[u]
<1>2. ASSUME NEW t \in Threads, NEW next, Quiet(t, next), Counts(t)',
             table' = table \/ \A u \in Threads : pc[u] # "probe"
      PROVE  CountInv'
  BY <1>0, <1>2, CountsKept
<1>3. ASSUME NEW t \in Threads, Thread(t) PROVE CountInv'
  <2>0. Counts(t)
    BY DEF CountInv
  <2>1. CASE Start(t)
    <3>1. Quiet(t, "started") /\ table' = table /\ pc[t] = "start" /\ pc'[t] = "started"
      BY <1>0, <2>1 DEF Start, Arrive
    <3>2. Counts(t)'
      BY <2>0, <3>1 DEF Counts, Building
    <3> QED
      BY <1>2, <3>1, <3>2
  <2>2. CASE Begin(t)
    <3>1. Quiet(t, "build") /\ table' = table /\ pc[t] = "started" /\ pc'[t] = "build"
      BY <1>0, <2>2 DEF Begin
    <3>2. Counts(t)'
      BY <2>0, <3>1 DEF Counts, Building
    <3> QED
      BY <1>2, <3>1, <3>2
  <2>3. CASE LatchBucket(t)
    <3>1. Quiet(t, "store") /\ table' = table /\ pc[t] = "build" /\ pc'[t] = "store"
      BY <1>0, <2>3 DEF LatchBucket
    <3>2. Counts(t)'
      BY <2>0, <3>1 DEF Counts, Building
    <3> QED
      BY <1>2, <3>1, <3>2
  <2>4. CASE Store(t)
    <3>1. Quiet(t, "build") /\ pc[t] = "store" /\ pc'[t] = "build"
      BY <1>0, <2>4 DEF Store
    <3>2. Counts(t)'
      BY <2>0, <3>1 DEF Counts, Building
    <3>3. \A u \in Threads : pc[u] # "probe"
      BY <3>1, ProbesAreAlone DEF Building
    <3> QED
      BY <1>2, <3>1, <3>2, <3>3
  <2>5. CASE Built(t)
    <3>1. Quiet(t, "built") /\ table' = table /\ pc[t] = "build" /\ pc'[t] = "built"
      BY <1>0, <2>5 DEF Built, Arrive
    <3>2. Counts(t)'
      BY <2>0, <3>1 DEF Counts, Building
    <3> QED
      BY <1>2, <3>1, <3>2
  <2>6. CASE BeginProbe(t)
    BY <1>0, <2>6, BeginKeepsCount
  <2>7. CASE ProbeNode(t)
    BY <2>7, ProbeKeepsCount
  <2>8. CASE Probed(t)
    <3>1. PICK next \in {"probed", "free"} : pc' = [pc EXCEPT ![t] = next]
      BY <2>8 DEF Probed, Arrive
    <3>2. /\ pc[t] = "probe" /\ pos[t] > Slice(S, t).last
          /\ UNCHANGED <<pos, node, matches, table>>
      BY <2>8 DEF Probed
    <3>3. matches[t] = Cardinality(Mine(t))
      <4>1. matches[t] = Cardinality(Found(t, pos[t], node[t] - 1))
        BY <2>0, <3>2 DEF Counts
      <4>2. pos[t] \in Nat
        BY <1>0
      <4> QED
        BY <3>2, <4>1, <4>2, FoundAtEnds
    <3>4. pc'[t] = next
      BY <1>0, <3>1
    <3>5. Counts(t)'
      BY <3>2, <3>3, <3>4 DEF Counts, Building, Mine
    <3> QED
      BY <1>2, <3>1, <3>2, <3>5
  <2>9. CASE EndTiming(t)
    <3>1. Quiet(t, "free") /\ table' = table /\ pc[t] = "probed" /\ pc'[t] = "free"
      BY <1>0, <2>9 DEF EndTiming
    <3>2. Counts(t)'
      BY <2>0, <3>1 DEF Counts, Building, Mine
    <3> QED
      BY <1>2, <3>1, <3>2
  <2>10. CASE Free(t)
    <3>1. Quiet(t, "done") /\ table' = table /\ pc[t] = "free" /\ pc'[t] = "done"
      BY <1>0, <2>10 DEF Free
    <3>2. Counts(t)'
      BY <2>0, <3>1 DEF Counts, Building, Mine
    <3> QED
      BY <1>2, <3>1, <3>2
  <2> QED
    BY <1>3, <2>1, <2>2, <2>3, <2>4, <2>5, <2>6, <2>7, <2>8, <2>9, <2>10 DEF Thread
<1>4. CASE Join
  BY <1>1, <1>4 DEF Join
<1>5. CASE UNCHANGED vars
  BY <1>1, <1>5 DEF vars
<1> QED
  BY <1>3, <1>4, <1>5 DEF Next

-----------------------------------------------------------------------------
\* Each pair is that of one thread.
LEMMA PairsAreShared ==
  /\ \A t, u \in Threads : t # u => Mine(t) \cap Mine(u) = {}
  /\ UNION {Mine(t) : t \in Threads} = Pairs
<1>1. ASSUME NEW t \in Threads, NEW u \in Threads, t < u PROVE Mine(t) \cap Mine(u) = {}
  <2> SUFFICES ASSUME NEW p \in Mine(t), p \in Mine(u) PROVE FALSE
    OBVIOUS
  <2>1. p[2] \in Within(S, t) /\ p[2] \in Within(S, u)
    BY DEF Mine
  <2>2. Slice(S, t).last < Slice(S, u).first
    BY <1>1, SlicesAreApart, RelationsAreKeys
  <2> QED
    BY <2>1, <2>2, SliceBounds, RelationsAreKeys DEF Within
<1>2. ASSUME NEW t \in Threads, NEW u \in Threads, t # u PROVE Mine(t) \cap Mine(u) = {}
  <2>1. t \in Nat /\ u \in Nat
    BY SizesArePositive DEF Threads
  <2>2. CASE t < u
    BY <1>1, <2>2
  <2>3. CASE u < t
    BY <1>1, <2>3
  <2> QED
    BY <1>2, <2>1, <2>2, <2>3
<1>3. ASSUME NEW p \in Pairs PROVE \E t \in Threads : p \in Mine(t)
  <2>1. p[2] \in 1 .. Len(S)
    BY RelationsAreKeys DEF Pairs
  <2>2. PICK t \in Threads : p[2] \in Within(S, t)
    BY <2>1, RowHasThread, RelationsAreKeys
  <2> QED
    BY <2>2 DEF Mine
<1>4. \A t \in Threads : Mine(t) \subseteq Pairs
  BY DEF Mine
<1> QED
  BY <1>2, <1>3, <1>4

LEMMA JoinAddsUp ==
  ASSUME CountInv, Join
  PROVE  result' = Cardinality(Pairs)
<1> DEFINE c == [t \in Threads |-> Mine(t)]
<1>1. c \in [Threads -> SUBSET Pairs]
  BY DEF Mine
<1>2. \A t, u \in Threads : t # u => c[t] \cap c[u] = {}
  BY PairsAreShared
<1>3. \A t \in Threads : matches[t] = Cardinality(c[t])
  BY DEF Join, CountInv, Counts
<1>4. UNION {c[t] : t \in Threads} = Pairs
  BY PairsAreShared
<1>5. result' = SumOf(matches)
  BY DEF Join, SumOf
<1>6. SumOf(matches) = Cardinality(UNION {c[t] : t \in Threads})
  <2> HIDE DEF c
  <2> QED
    BY <1>1, <1>2, <1>3, PairsAreFinite, SumOfApart
<1> QED
  BY <1>4, <1>5, <1>6

\* The join counts each result tuple once: for all relations, any number of
\* threads and every interleaving of their insertions and probes.
THEOREM JoinsAreExact ==
  ASSUME Timing
  PROVE  JoinsSpec => []JoinIsExact
<1>1. Init => JoinIsExact
  BY DEF Init, JoinIsExact
<1>2. CountInv /\ JoinIsExact /\ [Next]_vars => JoinIsExact'
  <2> SUFFICES ASSUME CountInv, JoinIsExact, [Next]_vars PROVE JoinIsExact'
    OBVIOUS
  <2>1. CASE Join
    BY <2>1, JoinAddsUp DEF JoinIsExact, Pairs
  <2>2. CASE result' = result
    BY <2>2 DEF JoinIsExact
  <2>3. ASSUME NEW t \in Threads, Thread(t) PROVE result' = result
    BY <2>3 DEF Thread, Start, Begin, LatchBucket, Store, Built, BeginProbe, ProbeNode,
                Probed, EndTiming, Free
  <2>4. CASE UNCHANGED vars
    BY <2>2, <2>4 DEF vars
  <2> QED
    BY <2>1, <2>2, <2>3, <2>4 DEF Next
<1> QED
  BY <1>1, <1>2, InitBuild, InitCount, NextKeepsBuild, NextKeepsCount, ThreadsStayAligned,
     TableSteps, PTL DEF JoinsSpec

-----------------------------------------------------------------------------
(***************************************************************************)
(* A parallel pass of the radix join, as it is built by default.           *)
(***************************************************************************)
Shifting == INSTANCE Folding WITH Op <- LAMBDA c, d, p, k : 2 * p

Fan == Pass!PassFanOut
ClusterIn(rel, row) == (rel[row] \div Pass!Shifted(Shift)) % Fan

\* A pass is a stable sort by clusters: before the tuples of cluster c from row
\* i on come those of smaller clusters, and those of c in earlier rows.
Before(rel, c, i) ==
  {row \in DOMAIN rel : \/ ClusterIn(rel, row) < c
                        \/ ClusterIn(rel, row) = c /\ row < i}
Place(rel, c, i) == Cardinality(Before(rel, c, i)) + c * Padding
Addr(rel, row) == Place(rel, ClusterIn(rel, row), row)
Bunch(rel, c) == {row \in DOMAIN rel : ClusterIn(rel, row) = c}

LEMMA ShiftedIsPositive == \A n \in Nat : Pass!Shifted(n) \in Nat \ {0}
<1> SUFFICES ASSUME NEW n \in Nat PROVE Pass!Shifted(n) \in Nat \ {0}
  OBVIOUS
<1> DEFINE ks == [k \in 1 .. n |-> k]
           Pos == Nat \ {0}
<1>1. ks \in Seq(Nat)
  OBVIOUS
<1>2. Pass!Shifted(n) = Shifting!Fold(0, 0, 1, ks)
  BY DEF Pass!Shifted, Shifting!Fold, Pass!FoldLeft, Pass!MapThenFoldSet, Pass!Max,
         Shifting!FoldLeft, Shifting!MapThenFoldSet, Shifting!Max
<1>3. 1 \in Pos /\ \A p \in Pos, x \in Nat : 2 * p \in Pos
  OBVIOUS
<1>4. Shifting!Fold(0, 0, 1, ks) \in Pos
  <2> HIDE DEF ks, Pos
  <2> QED
    BY <1>1, <1>3, Shifting!FoldClosed
<1> QED
  BY <1>2, <1>4

LEMMA FanIsPositive == Pass!OptionsOK => Fan \in Nat \ {0}
<1>1. Pass!OptionsOK => Bits \in Nat
  BY DEF Pass!OptionsOK
<1> QED
  BY <1>1, ShiftedIsPositive DEF Fan, Pass!PassFanOut

LEMMA ClustersOfRows ==
  ASSUME Pass!OptionsOK, NEW rel \in Seq(Nat), NEW row \in DOMAIN rel
  PROVE  ClusterIn(rel, row) \in 0 .. Fan - 1
<1> DEFINE s == Pass!Shifted(Shift)
           f == Fan
           v == rel[row] \div s
<1>1. s \in Nat /\ s > 0 /\ f \in Nat /\ f > 0
  <2>1. Shift \in Nat /\ Bits \in Nat
    BY DEF Pass!OptionsOK
  <2>2. Pass!Shifted(Shift) \in Nat \ {0} /\ Pass!Shifted(Bits) \in Nat \ {0}
    BY <2>1, ShiftedIsPositive
  <2>3. s \in Nat \ {0} /\ f \in Nat \ {0}
    BY <2>2 DEF Fan, Pass!PassFanOut
  <2> HIDE DEF s, f
  <2> QED
    BY <2>3
<1> HIDE DEF s, f
<1>2. v \in Nat
  BY <1>1
<1> HIDE DEF v
<1>3. v % f \in 0 .. f - 1
  BY <1>1, <1>2
<1> QED
  BY <1>3 DEF ClusterIn, v, s, f

LEMMA RowsAreFinite ==
  ASSUME NEW rel \in Seq(Nat)
  PROVE  /\ DOMAIN rel = 1 .. Len(rel) /\ Len(rel) \in Nat
         /\ IsFiniteSet(DOMAIN rel) /\ Cardinality(DOMAIN rel) = Len(rel)
<1>1. DOMAIN rel = 1 .. Len(rel) /\ Len(rel) \in Nat
  OBVIOUS
<1>2. PICK n \in Nat : n = Len(rel)
  BY <1>1
<1>3. IsFiniteSet(1 .. n)
  BY FS_Interval
<1>4. Cardinality(1 .. n) = n
  <2>1. Cardinality(1 .. n) = IF 1 > n THEN 0 ELSE n - 1 + 1
    BY FS_Interval
  <2> QED
    BY <2>1
<1> QED
  BY <1>1, <1>2, <1>3, <1>4

LEMMA BeforeIsFinite ==
  ASSUME NEW rel \in Seq(Nat), NEW c, NEW i
  PROVE  /\ IsFiniteSet(Before(rel, c, i))
         /\ Cardinality(Before(rel, c, i)) \in Nat
         /\ Before(rel, c, i) \in SUBSET (DOMAIN rel)
<1>2. IsFiniteSet(DOMAIN rel)
  BY RowsAreFinite
<1>3. Before(rel, c, i) \in SUBSET (DOMAIN rel)
  BY DEF Before
<1> QED
  BY <1>2, <1>3, FS_Subset, FS_CardinalityType

\* Past a row, its own cluster goes on by one place and the others stay.
LEMMA PlacePastRow ==
  ASSUME Pass!OptionsOK, NEW rel \in Seq(Nat), NEW row \in DOMAIN rel,
         NEW c \in 0 .. Fan - 1
  PROVE  Place(rel, c, row + 1) =
           IF c = ClusterIn(rel, row) THEN Place(rel, c, row) + 1 ELSE Place(rel, c, row)
<1> DEFINE b == Before(rel, c, row)
           p == c * Padding
<1>1. row \in Nat /\ DOMAIN rel \subseteq Nat
  OBVIOUS
<1>2. ClusterIn(rel, row) \in Nat /\ c \in Nat
  BY ClustersOfRows
<1>3. c = ClusterIn(rel, row) => row \notin b
  BY <1>1, <1>2 DEF Before
<1>4. Before(rel, c, row + 1) = IF c = ClusterIn(rel, row) THEN b \cup {row} ELSE b
  BY <1>1 DEF Before
<1>5. IsFiniteSet(b) /\ Cardinality(b) \in Nat
  BY BeforeIsFinite
<1>6. p \in Nat
  BY <1>2 DEF Pass!OptionsOK
<1> HIDE DEF b, p
<1>7. c = ClusterIn(rel, row) => Cardinality(b \cup {row}) = Cardinality(b) + 1
  BY <1>3, <1>5, FS_AddElement
<1> QED
  BY <1>4, <1>5, <1>6, <1>7 DEF Place, b, p

\* Rows have places of their own: a row that comes before another one, in its
\* cluster or in a smaller one, is placed before it.
LEMMA PlacesAreOrdered ==
  ASSUME Pass!OptionsOK, NEW rel \in Seq(Nat), NEW a \in DOMAIN rel, NEW b \in DOMAIN rel,
         \/ ClusterIn(rel, a) < ClusterIn(rel, b)
         \/ ClusterIn(rel, a) = ClusterIn(rel, b) /\ a < b
  PROVE  Addr(rel, a) < Addr(rel, b)
<1> DEFINE c == ClusterIn(rel, a)
           d == ClusterIn(rel, b)
           ba == Before(rel, c, a)
           bb == Before(rel, d, b)
<1>1. a \in Nat /\ b \in Nat /\ DOMAIN rel \subseteq Nat
  OBVIOUS
<1>2. c \in Nat /\ d \in Nat /\ \A row \in DOMAIN rel : ClusterIn(rel, row) \in Nat
  BY ClustersOfRows
<1>3. a \notin ba /\ ba \cup {a} \in SUBSET bb
  <2> HIDE DEF c, d
  <2>1. a \notin ba
    BY <1>1, <1>2 DEF Before, c
  <2>2. a \in bb
    BY <1>1, <1>2 DEF Before, c, d
  <2>3. \A row \in ba : row \in bb
    BY <1>1, <1>2 DEF Before, c, d
  <2> QED
    BY <2>1, <2>2, <2>3
<1>4. /\ IsFiniteSet(ba) /\ Cardinality(ba) \in Nat
      /\ IsFiniteSet(bb) /\ Cardinality(bb) \in Nat
  BY BeforeIsFinite
<1>5. Cardinality(ba) < Cardinality(bb)
  <2> HIDE DEF ba, bb
  <2>1. Cardinality(ba \cup {a}) = Cardinality(ba) + 1
    BY <1>3, <1>4, FS_AddElement
  <2>2. Cardinality(ba \cup {a}) <= Cardinality(bb)
    BY <1>3, <1>4, FS_Subset
  <2> QED
    BY <1>4, <2>1, <2>2
<1>6. c * Padding \in Nat /\ d * Padding \in Nat /\ c * Padding <= d * Padding
  <2> DEFINE e == d - c
  <2>1. e \in Nat /\ d = c + e /\ Padding \in Nat
    BY <1>2 DEF Pass!OptionsOK
  <2> HIDE DEF c, d, e
  <2>2. c * Padding \in Nat /\ e * Padding \in Nat /\ (c + e) * Padding = c * Padding + e * Padding
    BY <1>2, <2>1
  <2> QED
    BY <2>1, <2>2
<1> QED
  <2> HIDE DEF ba, bb
  <2>1. Addr(rel, a) = Cardinality(ba) + c * Padding /\ Addr(rel, b) = Cardinality(bb) + d * Padding
    BY DEF Addr, Place, ba, bb
  <2> QED
    BY <1>4, <1>5, <1>6, <2>1

LEMMA PlacesAreApart ==
  ASSUME Pass!OptionsOK, NEW rel \in Seq(Nat), NEW a \in DOMAIN rel, NEW b \in DOMAIN rel,
         a # b
  PROVE  Addr(rel, a) \in Nat /\ Addr(rel, a) # Addr(rel, b)
<1>1. a \in Nat /\ b \in Nat /\ ClusterIn(rel, a) \in Nat /\ ClusterIn(rel, b) \in Nat
  BY ClustersOfRows
<1>2. \A row \in {a, b} : Addr(rel, row) \in Nat
  <2> SUFFICES ASSUME NEW row \in {a, b} PROVE Addr(rel, row) \in Nat
    OBVIOUS
  <2> DEFINE p == ClusterIn(rel, row) * Padding
             n == Cardinality(Before(rel, ClusterIn(rel, row), row))
  <2>1. p \in Nat
    BY <1>1 DEF Pass!OptionsOK
  <2>2. n \in Nat
    BY BeforeIsFinite
  <2> HIDE DEF p, n
  <2>3. n + p \in Nat
    BY <2>1, <2>2
  <2> QED
    BY <2>3 DEF Addr, Place, p, n
<1>3. \/ ClusterIn(rel, a) < ClusterIn(rel, b)
      \/ ClusterIn(rel, a) = ClusterIn(rel, b) /\ a < b
      \/ ClusterIn(rel, b) < ClusterIn(rel, a)
      \/ ClusterIn(rel, b) = ClusterIn(rel, a) /\ b < a
  BY <1>1
<1>4. Addr(rel, a) < Addr(rel, b) \/ Addr(rel, b) < Addr(rel, a)
  BY <1>3, PlacesAreOrdered
<1> QED
  BY <1>2, <1>4

\* What smaller clusters have, and where a cluster begins and ends.
Smaller(rel, c) == {row \in DOMAIN rel : ClusterIn(rel, row) < c}

LEMMA ClustersFollow ==
  ASSUME Pass!OptionsOK, NEW rel \in Seq(Nat), NEW c \in 0 .. Fan - 1
  PROVE  /\ Before(rel, c, 1) = Smaller(rel, c)
         /\ IsFiniteSet(Bunch(rel, c)) /\ Cardinality(Bunch(rel, c)) \in Nat
         /\ Cardinality(Smaller(rel, c)) \in Nat
         /\ Cardinality(Smaller(rel, c + 1)) =
              Cardinality(Smaller(rel, c)) + Cardinality(Bunch(rel, c))
         /\ Cardinality(Smaller(rel, Fan)) = Len(rel)
<1>1. DOMAIN rel = 1 .. Len(rel) /\ Len(rel) \in Nat /\ c \in Nat /\ Fan \in Int
  BY ShiftedIsPositive DEF Pass!OptionsOK, Fan, Pass!PassFanOut
<1>2. \A row \in DOMAIN rel : ClusterIn(rel, row) \in 0 .. Fan - 1 /\ row >= 1
  BY <1>1, ClustersOfRows
<1>3. IsFiniteSet(DOMAIN rel) /\ Cardinality(DOMAIN rel) = Len(rel)
  BY RowsAreFinite
<1>4. Bunch(rel, c) \in SUBSET (DOMAIN rel) /\ Smaller(rel, c) \in SUBSET (DOMAIN rel)
  BY DEF Bunch, Smaller
<1>5. /\ IsFiniteSet(Bunch(rel, c)) /\ Cardinality(Bunch(rel, c)) \in Nat
      /\ IsFiniteSet(Smaller(rel, c)) /\ Cardinality(Smaller(rel, c)) \in Nat
  BY <1>3, <1>4, FS_Subset, FS_CardinalityType
<1>6. Before(rel, c, 1) = Smaller(rel, c)
  BY <1>1, <1>2 DEF Before, Smaller
<1>7. /\ Smaller(rel, c + 1) = Smaller(rel, c) \cup Bunch(rel, c)
      /\ Smaller(rel, c) \cap Bunch(rel, c) = {}
  BY <1>1, <1>2 DEF Smaller, Bunch
<1>8. Cardinality(Smaller(rel, c + 1)) = Cardinality(Smaller(rel, c)) + Cardinality(Bunch(rel, c))
  <2> DEFINE x == Smaller(rel, c)
             y == Bunch(rel, c)
  <2>1. IsFiniteSet(x) /\ IsFiniteSet(y) /\ x \cap y = {}
        /\ Cardinality(x) \in Nat /\ Cardinality(y) \in Nat
    BY <1>5, <1>7
  <2> HIDE DEF x, y
  <2>2. Cardinality(x \cup y) = Cardinality(x) + Cardinality(y) - Cardinality(x \cap y)
    BY <2>1, FS_Union
  <2>3. Cardinality(x \cap y) = 0
    BY <2>1, FS_EmptySet
  <2>4. Cardinality(x \cup y) = Cardinality(x) + Cardinality(y)
    BY <2>1, <2>2, <2>3
  <2> QED
    BY <1>7, <2>4 DEF x, y
<1>9. Smaller(rel, Fan) = DOMAIN rel
  BY <1>1, <1>2 DEF Smaller
<1> QED
  BY <1>3, <1>5, <1>6, <1>8, <1>9

\* The rows of a thread that it has counted for the clusters up to c.
UpTo(rel, u, c) == {row \in Within(rel, u) : ClusterIn(rel, row) <= c}

LEMMA PassOperators ==
  /\ \A s : Pass!Cardinality(s) = Cardinality(s)
  /\ Pass!Threads = Threads
  /\ Pass!Clusters = 0 .. Fan - 1
  /\ \A t : Pass!Slice(t) = Slice(passRel, t)
  /\ \A row : Pass!Cluster(row) = ClusterIn(passRel, row)
BY DEF Pass!Cardinality, Cardinality, Pass!Threads, Threads, Pass!Clusters, Fan,
       Pass!Slice, Slice, Pass!Cluster, ClusterIn

LEMMA WithinIsFinite ==
  ASSUME NEW rel \in Seq(Nat), NEW u \in Threads, NEW c
  PROVE  /\ Within(rel, u) \in SUBSET (DOMAIN rel)
         /\ UpTo(rel, u, c) \in SUBSET (DOMAIN rel)
         /\ IsFiniteSet(UpTo(rel, u, c)) /\ Cardinality(UpTo(rel, u, c)) \in Nat
<1>1. DOMAIN rel = 1 .. Len(rel) /\ Len(rel) \in Nat
  OBVIOUS
<1>2. Slice(rel, u).first \in Nat \ {0} /\ Slice(rel, u).last \in Nat
      /\ Slice(rel, u).last <= Len(rel)
  BY SliceBounds
<1>3. Within(rel, u) \in SUBSET (DOMAIN rel)
  BY <1>1, <1>2 DEF Within
<1>4. UpTo(rel, u, c) \in SUBSET (DOMAIN rel)
  BY <1>3 DEF UpTo
<1>5. IsFiniteSet(DOMAIN rel)
  BY RowsAreFinite
<1> QED
  BY <1>3, <1>4, <1>5, FS_Subset, FS_CardinalityType

\* A row before the slice of t is in the slice of an earlier thread.
LEMMA EarlierSlices ==
  ASSUME NEW rel \in Seq(Nat), NEW t \in Threads, NEW u \in Threads, NEW row \in Within(rel, u)
  PROVE  row < Slice(rel, t).first <=> u < t
<1>1. /\ Slice(rel, t).first \in Nat /\ Slice(rel, u).first \in Nat
      /\ Slice(rel, t).last \in Nat /\ Slice(rel, u).last \in Nat
      /\ Slice(rel, t).first <= Slice(rel, t).last + 1
  BY SliceBounds
<1>2. row \in Nat /\ Slice(rel, u).first <= row /\ row <= Slice(rel, u).last
  BY <1>1 DEF Within
<1>3. t \in Nat /\ u \in Nat
  BY SizesArePositive DEF Threads
<1>4. CASE u < t
  <2>1. Slice(rel, u).last < Slice(rel, t).first
    BY <1>4, SlicesAreApart
  <2> QED
    BY <1>1, <1>2, <1>4, <2>1
<1>5. CASE u = t
  BY <1>1, <1>2, <1>3, <1>5
<1>6. CASE t < u
  <2>1. Slice(rel, t).last < Slice(rel, u).first
    BY <1>6, SlicesAreApart
  <2> QED
    BY <1>1, <1>2, <1>3, <1>6, <2>1
<1> QED
  BY <1>3, <1>4, <1>5, <1>6

Counted(u) == \A c \in 0 .. Fan - 1 : hist[u][c] = Cardinality(UpTo(passRel, u, c))

\* The prefix sums of all threads say where the part of a thread begins.
LEMMA StartIsPlace ==
  ASSUME Pass!OptionsOK, passRel \in Seq(Nat), \A u \in Threads : Counted(u),
         NEW t \in Threads, NEW c \in 0 .. Fan - 1
  PROVE  Pass!StartOf(t, c) = Cardinality(Before(passRel, c, Slice(passRel, t).first))
<1> DEFINE X == DOMAIN passRel
           share(u) == IF u < t THEN UpTo(passRel, u, c)
                      ELSE IF c > 0 THEN UpTo(passRel, u, c - 1) ELSE {}
           parts == [u \in Threads |-> share(u)]
           m == [u \in Threads |-> IF u < t THEN hist[u][c]
                                   ELSE IF c > 0 THEN hist[u][c - 1] ELSE 0]
<1>1. Pass!StartOf(t, c) = SumOf(m)
  BY PassOperators DEF Pass!StartOf, SumOf, Pass!MapThenSumSet, MapThenSumSet,
     Pass!MapThenFoldSet, MapThenFoldSet
<1>2. c \in Nat /\ (c > 0 => c - 1 \in 0 .. Fan - 1)
  BY FanIsPositive
<1>3. IsFiniteSet(X)
  BY RowsAreFinite
<1>4. \A u \in Threads : share(u) \in SUBSET X
  BY WithinIsFinite
<1>5. \A u \in Threads : m[u] = Cardinality(parts[u])
  <2> SUFFICES ASSUME NEW u \in Threads PROVE m[u] = Cardinality(parts[u])
    OBVIOUS
  <2>1. Cardinality({}) = 0
    BY FS_EmptySet
  <2> QED
    BY <1>2, <2>1 DEF Counted
<1>6. \A u \in Threads : share(u) \subseteq Within(passRel, u)
  BY DEF UpTo
<1>7. \A u, v \in Threads : u # v => parts[u] \cap parts[v] = {}
  <2> SUFFICES ASSUME NEW u \in Threads, NEW v \in Threads, u # v,
                      NEW row \in Within(passRel, u), row \in Within(passRel, v)
               PROVE  FALSE
    BY <1>6
  <2>1. u \in Int /\ v \in Int
    BY SizesArePositive DEF Threads
  <2>2. row < Slice(passRel, v).first <=> u < v
    BY EarlierSlices
  <2>3. row < Slice(passRel, u).first <=> v < u
    BY EarlierSlices
  <2>4. row < Slice(passRel, v).first <=> v < v
    BY EarlierSlices
  <2>5. row < Slice(passRel, u).first <=> u < u
    BY EarlierSlices
  <2> QED
    BY <2>1, <2>2, <2>3, <2>4, <2>5
<1>8. UNION {parts[u] : u \in Threads} = Before(passRel, c, Slice(passRel, t).first)
  <2>1. ASSUME NEW row \in X
        PROVE  row \in UNION {parts[u] : u \in Threads}
                 <=> row \in Before(passRel, c, Slice(passRel, t).first)
    <3>1. PICK u \in Threads : row \in Within(passRel, u)
      BY <2>1, RowHasThread
    <3>2. row < Slice(passRel, t).first <=> u < t
      BY <3>1, EarlierSlices
    <3>3. ClusterIn(passRel, row) \in Nat
      BY ClustersOfRows
    <3>4. row \in share(u) <=> row \in Before(passRel, c, Slice(passRel, t).first)
      BY <1>2, <3>1, <3>2, <3>3 DEF UpTo, Before
    <3>5. \A v \in Threads : row \in parts[v] => v = u
      <4> SUFFICES ASSUME NEW v \in Threads, row \in Within(passRel, v), v # u PROVE FALSE
        BY <1>6
      <4>1. u \in Int /\ v \in Int /\ ~(v < v) /\ ~(u < u)
        BY SizesArePositive DEF Threads
      <4>2. /\ row < Slice(passRel, v).first <=> u < v
            /\ row < Slice(passRel, v).first <=> v < v
            /\ row < Slice(passRel, u).first <=> v < u
            /\ row < Slice(passRel, u).first <=> u < u
        BY <3>1, EarlierSlices
      <4> QED
        BY <4>1, <4>2
    <3> HIDE DEF share
    <3> QED
      BY <3>4, <3>5
  <2>2. Before(passRel, c, Slice(passRel, t).first) \in SUBSET X
    BY BeforeIsFinite
  <2> QED
    BY <1>4, <2>1, <2>2
<1>9. parts \in [Threads -> SUBSET X]
  BY <1>4
<1> HIDE DEF X, parts, m, share
<1> QED
  BY <1>1, <1>3, <1>5, <1>7, <1>8, <1>9, SumOfApart

FirstRow(t) == Slice(passRel, t).first
LastRow(t) == Slice(passRel, t).last
Ints == [Threads -> [0 .. Fan - 1 -> Nat]]

\* The inductive invariant of a pass: whoever has counted has the sizes of its
\* parts, whoever copies has in its pointers the places of its next tuples,
\* and what a thread has copied is where it belongs.
PassTypes ==
  /\ passRel \in Seq(Nat)
  /\ passPc \in [Threads -> {"count", "counted", "copy", "done"}]
  /\ passPos \in [Threads -> Nat]
  /\ hist \in Ints /\ output \in Ints /\ dst \in Ints
  /\ tmp \in [0 .. Pass!MemorySize - 1 -> Nat]

PointersAreRight(t) ==
  \A c \in 0 .. Fan - 1 :
    /\ output[t][c] = Place(passRel, c, FirstRow(t))
    /\ dst[t][c] = Place(passRel, c, passPos[t])

CopiesArePlaced(t) ==
  \A row \in FirstRow(t) .. passPos[t] - 1 : tmp[Addr(passRel, row)] = row

PassInv ==
  /\ PassTypes
  /\ \A t \in Threads :
       /\ passPos[t] \in FirstRow(t) .. LastRow(t) + 1
       /\ passPc[t] # "count" => Counted(t)
       /\ passPc[t] \in {"count", "counted"} => passPos[t] = FirstRow(t)
       /\ passPc[t] \in {"copy", "done"} => PointersAreRight(t)
       /\ passPc[t] = "done" => passPos[t] = LastRow(t) + 1
       /\ CopiesArePlaced(t)

LEMMA InitPass == ASSUME Pass!OptionsOK, Pass!Init PROVE PassInv
<1>1. passRel \in Seq(Nat)
  BY DEF Pass!OptionsOK, Pass!Init
<1>2. \A t \in Threads : /\ FirstRow(t) \in Nat /\ LastRow(t) \in Nat
                         /\ FirstRow(t) \in FirstRow(t) .. LastRow(t) + 1
  BY <1>1, SliceBounds DEF FirstRow, LastRow
<1>3. /\ passPos = [t \in Threads |-> FirstRow(t)]
      /\ passPc = [t \in Threads |-> "count"]
      /\ hist = [t \in Threads |-> [c \in 0 .. Fan - 1 |-> 0]]
      /\ output = [t \in Threads |-> [c \in 0 .. Fan - 1 |-> 0]]
      /\ dst = [t \in Threads |-> [c \in 0 .. Fan - 1 |-> 0]]
      /\ tmp = [a \in 0 .. Pass!MemorySize - 1 |-> 0]
  BY PassOperators DEF Pass!Init, FirstRow, Pass!Garbage
<1>4. PassTypes
  BY <1>1, <1>2, <1>3 DEF PassTypes, Ints
<1>5. \A t \in Threads : CopiesArePlaced(t)
  <2> SUFFICES ASSUME NEW t \in Threads PROVE FirstRow(t) .. passPos[t] - 1 = {}
    BY DEF CopiesArePlaced
  <2> QED
    BY <1>2, <1>3
<1> QED
  BY <1>2, <1>3, <1>4, <1>5 DEF PassInv

\* What a thread that steps leaves as it is.
LEMMA ThreadKept ==
  ASSUME passRel' = passRel, NEW t \in Threads,
         passPc'[t] = passPc[t], passPos'[t] = passPos[t], hist'[t] = hist[t],
         output'[t] = output[t], dst'[t] = dst[t]
  PROVE  /\ FirstRow(t)' = FirstRow(t) /\ LastRow(t)' = LastRow(t)
         /\ Counted(t)' <=> Counted(t)
         /\ PointersAreRight(t)' <=> PointersAreRight(t)
<1>1. FirstRow(t)' = FirstRow(t) /\ LastRow(t)' = LastRow(t)
  BY DEF FirstRow, LastRow
<1> QED
  BY <1>1 DEF Counted, PointersAreRight

LEMMA CountKeepsPass ==
  ASSUME Pass!OptionsOK, PassInv, NEW t \in Threads, Pass!Count(t)
  PROVE  PassInv'
<1> DEFINE h == [c \in 0 .. Fan - 1 |-> Cardinality(UpTo(passRel, t, c))]
<1>1. passRel \in Seq(Nat)
  BY DEF PassInv, PassTypes
<1>2. h \in [0 .. Fan - 1 -> Nat]
  BY <1>1, WithinIsFinite
<1>3. /\ UNCHANGED <<passRel, passPos, output, dst, tmp>>
      /\ hist' = [hist EXCEPT ![t] = h]
      /\ passPc' = [passPc EXCEPT ![t] = "counted"] /\ passPc[t] = "count"
  <2>1. \A c \in 0 .. Fan - 1 :
          {row \in Pass!Slice(t).first .. Pass!Slice(t).last : Pass!Cluster(row) <= c}
            = UpTo(passRel, t, c)
    BY PassOperators DEF UpTo, Within
  <2>2. [c \in Pass!Clusters |->
          Pass!Cardinality({row \in Pass!Slice(t).first .. Pass!Slice(t).last :
                              Pass!Cluster(row) <= c})]
            = h
    BY <2>1, PassOperators
  <2> HIDE DEF h
  <2> QED
    BY <2>2 DEF Pass!Count
<1> HIDE DEF h
<1>4. /\ hist' \in Ints /\ hist'[t] = h /\ \A u \in Threads \ {t} : hist'[u] = hist[u]
      /\ passPc' \in [Threads -> {"count", "counted", "copy", "done"}]
      /\ passPc'[t] = "counted" /\ \A u \in Threads \ {t} : passPc'[u] = passPc[u]
  BY <1>2, <1>3 DEF PassInv, PassTypes, Ints
<1>5. PassTypes'
  BY <1>3, <1>4 DEF PassInv, PassTypes, Ints, Pass!MemorySize
<1>6. Counted(t)'
  <2>1. \A c \in 0 .. Fan - 1 : hist'[t][c] = Cardinality(UpTo(passRel', t, c))
    BY <1>3, <1>4 DEF h
  <2> QED
    BY <2>1 DEF Counted
<1>7. \A u \in Threads : CopiesArePlaced(u)' <=> CopiesArePlaced(u)
  BY <1>3 DEF CopiesArePlaced, FirstRow
<1>8. \A u \in Threads : FirstRow(u)' = FirstRow(u) /\ LastRow(u)' = LastRow(u)
  BY <1>3 DEF FirstRow, LastRow
<1>9. \A u \in Threads \ {t} : Counted(u)' <=> Counted(u)
  BY <1>3, <1>4, ThreadKept
<1>10. \A u \in Threads \ {t} : PointersAreRight(u)' <=> PointersAreRight(u)
  BY <1>3, <1>4, ThreadKept
<1> QED
  BY <1>3, <1>4, <1>5, <1>6, <1>7, <1>8, <1>9, <1>10 DEF PassInv

LEMMA FindOutputKeepsPass ==
  ASSUME Pass!OptionsOK, PassInv, NEW t \in Threads, Pass!FindOutput(t)
  PROVE  PassInv'
<1> DEFINE p == [c \in 0 .. Fan - 1 |-> Place(passRel, c, FirstRow(t))]
<1>1. passRel \in Seq(Nat) /\ \A u \in Threads : Counted(u)
  BY PassOperators DEF PassInv, PassTypes, Pass!FindOutput, Pass!AllCounted
<1>2. \A c \in 0 .. Fan - 1 : Pass!Padded(Pass!StartOf(t, c), c) = p[c] /\ p[c] \in Nat
  <2> SUFFICES ASSUME NEW c \in 0 .. Fan - 1
               PROVE  Pass!Padded(Pass!StartOf(t, c), c) = p[c] /\ p[c] \in Nat
    OBVIOUS
  <2> DEFINE n == Cardinality(Before(passRel, c, FirstRow(t)))
             q == c * Padding
  <2>1. n \in Nat
    BY <1>1, BeforeIsFinite
  <2>2. q \in Nat
    BY FanIsPositive DEF Pass!OptionsOK
  <2>3. Pass!StartOf(t, c) = n
    BY <1>1, StartIsPlace DEF FirstRow
  <2> HIDE DEF n, q
  <2>4. n + q \in Nat
    BY <2>1, <2>2
  <2> QED
    BY <2>3, <2>4 DEF Pass!Padded, Place, n, q
<1>3. /\ UNCHANGED <<passRel, passPos, hist, tmp>>
      /\ output' = [output EXCEPT ![t] = p]
      /\ dst' = [dst EXCEPT ![t] = p]
      /\ passPc' = [passPc EXCEPT ![t] = "copy"] /\ passPc[t] = "counted"
  <2>1. [c \in 0 .. Fan - 1 |-> Pass!Padded(Pass!StartOf(t, c), c)] = p
    BY <1>2
  <2> QED
    BY <2>1, PassOperators DEF Pass!FindOutput
<1>4. p \in [0 .. Fan - 1 -> Nat]
  BY <1>2
<1>5. passPos[t] = FirstRow(t)
  BY <1>3 DEF PassInv
<1>6. /\ output' \in Ints /\ output'[t] = p /\ \A u \in Threads \ {t} : output'[u] = output[u]
      /\ dst' \in Ints /\ dst'[t] = p /\ \A u \in Threads \ {t} : dst'[u] = dst[u]
      /\ passPc' \in [Threads -> {"count", "counted", "copy", "done"}]
      /\ passPc'[t] = "copy" /\ \A u \in Threads \ {t} : passPc'[u] = passPc[u]
  <2> HIDE DEF p
  <2> QED
    BY <1>3, <1>4 DEF PassInv, PassTypes, Ints
<1>7. PassTypes'
  BY <1>3, <1>6 DEF PassInv, PassTypes, Ints, Pass!MemorySize
<1>8. \A u \in Threads : FirstRow(u)' = FirstRow(u) /\ LastRow(u)' = LastRow(u)
  BY <1>3 DEF FirstRow, LastRow
<1>9. PointersAreRight(t)'
  BY <1>3, <1>5, <1>6, <1>8 DEF PointersAreRight
<1>10. \A u \in Threads : CopiesArePlaced(u)' <=> CopiesArePlaced(u)
  BY <1>3 DEF CopiesArePlaced, FirstRow
<1>11. \A u \in Threads : Counted(u)' <=> Counted(u)
  BY <1>3 DEF Counted
<1>12. \A u \in Threads \ {t} : PointersAreRight(u)' <=> PointersAreRight(u)
  BY <1>3, <1>6, ThreadKept
<1> HIDE DEF p
<1> QED
  BY <1>3, <1>6, <1>7, <1>8, <1>9, <1>10, <1>11, <1>12 DEF PassInv

\* A place is inside the memory of the pass.
LEMMA PlacesAreInMemory ==
  ASSUME Pass!OptionsOK, passRel \in Seq(Nat), NEW row \in DOMAIN passRel
  PROVE  Addr(passRel, row) \in 0 .. Pass!MemorySize - 1
<1> DEFINE c == ClusterIn(passRel, row)
           b == Before(passRel, c, row)
           n == Len(passRel)
<1>1. c \in 0 .. Fan - 1 /\ Fan \in Nat /\ Padding \in Nat /\ n \in Nat
  BY ClustersOfRows, FanIsPositive DEF Pass!OptionsOK
<1>2. DOMAIN passRel = 1 .. n /\ IsFiniteSet(DOMAIN passRel) /\ Cardinality(DOMAIN passRel) = n
  BY RowsAreFinite
<1>3. IsFiniteSet(b) /\ Cardinality(b) \in Nat /\ b \in SUBSET (DOMAIN passRel)
  BY BeforeIsFinite
<1>4. row \in Nat /\ c \in Nat
  BY <1>1
<1>5. row \notin b
  BY <1>4 DEF Before
<1>6. b \cup {row} \in SUBSET (DOMAIN passRel)
  BY <1>3
<1>7. Cardinality(b) + 1 <= n
  <2> HIDE DEF b, n
  <2>1. Cardinality(b \cup {row}) = Cardinality(b) + 1
    BY <1>3, <1>5, FS_AddElement
  <2>2. Cardinality(b \cup {row}) <= n
    BY <1>2, <1>6, FS_Subset
  <2> QED
    BY <2>1, <2>2
<1>8. c * Padding \in Nat /\ Fan * Padding \in Nat /\ c * Padding <= Fan * Padding
  <2> DEFINE d == Fan - c
  <2>1. d \in Nat /\ Fan = c + d
    BY <1>1
  <2> HIDE DEF c, d
  <2>2. d * Padding \in Nat /\ c * Padding \in Nat
        /\ (c + d) * Padding = c * Padding + d * Padding
    BY <1>1, <1>4, <2>1
  <2> QED
    BY <2>1, <2>2
<1>9. /\ Addr(passRel, row) = Cardinality(b) + c * Padding
      /\ Pass!MemorySize = n + Fan * Padding
  BY DEF Addr, Place, Pass!MemorySize, Fan
<1> DEFINE p == c * Padding
           q == Fan * Padding
           k == Cardinality(b)
<1>10. /\ k \in Nat /\ n \in Nat /\ p \in Nat /\ q \in Nat /\ k + 1 <= n /\ p <= q
       /\ Addr(passRel, row) = k + p /\ Pass!MemorySize = n + q
  BY <1>1, <1>3, <1>7, <1>8, <1>9
<1> HIDE DEF b, c, n, p, q, k
<1> QED
  BY <1>10

LEMMA CopyKeepsPass ==
  ASSUME Pass!OptionsOK, PassInv, NEW t \in Threads, Pass!Copy(t)
  PROVE  PassInv'
<1> DEFINE i == passPos[t]
           c == ClusterIn(passRel, i)
           a == Addr(passRel, i)
           q == [dst[t] EXCEPT ![c] = a + 1]
<1>1. /\ passRel \in Seq(Nat) /\ DOMAIN passRel = 1 .. Len(passRel) /\ Len(passRel) \in Nat
      /\ passPc[t] = "copy" /\ PointersAreRight(t)
      /\ i \in FirstRow(t) .. LastRow(t) + 1 /\ i <= LastRow(t)
  BY PassOperators DEF PassInv, PassTypes, Pass!Copy, Pass!Copying, LastRow
<1>2. \A u \in Threads : FirstRow(u) \in Nat \ {0} /\ LastRow(u) \in Nat
                         /\ LastRow(u) <= Len(passRel)
  BY <1>1, SliceBounds DEF FirstRow, LastRow
<1>3. i \in Nat /\ i \in DOMAIN passRel /\ i \in Within(passRel, t)
  BY <1>1, <1>2 DEF Within, FirstRow, LastRow
<1>4. c \in 0 .. Fan - 1 /\ dst[t][c] = a /\ a \in 0 .. Pass!MemorySize - 1 /\ a \in Nat
  <2>1. c \in 0 .. Fan - 1
    BY <1>1, <1>3, ClustersOfRows
  <2>2. dst[t][c] = a
    BY <1>1, <2>1 DEF PointersAreRight, Addr
  <2>3. a \in 0 .. Pass!MemorySize - 1
    BY <1>1, <1>3, PlacesAreInMemory
  <2> QED
    BY <2>1, <2>2, <2>3
<1>5. /\ UNCHANGED <<passRel, passPc, hist, output>>
      /\ tmp' = [tmp EXCEPT ![a] = i]
      /\ passPos' = [passPos EXCEPT ![t] = i + 1]
      /\ dst' = [dst EXCEPT ![t] = q]
  <2>1. /\ UNCHANGED <<passRel, passPc, hist, output>>
        /\ tmp' = [tmp EXCEPT ![dst[t][c]] = i]
        /\ passPos' = [passPos EXCEPT ![t] = i + 1]
        /\ dst' = [dst EXCEPT ![t] = [dst[t] EXCEPT ![c] = dst[t][c] + 1]]
    BY PassOperators DEF Pass!Copy
  <2> HIDE DEF a, c, i
  <2> QED
    BY <1>4, <2>1 DEF q
<1>6. dst[t] \in [0 .. Fan - 1 -> Nat] /\ q \in [0 .. Fan - 1 -> Nat]
  <2>1. dst[t] \in [0 .. Fan - 1 -> Nat]
    BY DEF PassInv, PassTypes, Ints
  <2> HIDE DEF a, c
  <2> QED
    BY <1>4, <2>1 DEF q
<1>7. \A d \in 0 .. Fan - 1 : q[d] = Place(passRel, d, i + 1)
  <2> SUFFICES ASSUME NEW d \in 0 .. Fan - 1 PROVE q[d] = Place(passRel, d, i + 1)
    OBVIOUS
  <2>1. dst[t][d] = Place(passRel, d, i)
    BY <1>1 DEF PointersAreRight
  <2>2. Place(passRel, d, i + 1) = IF d = c THEN Place(passRel, d, i) + 1 ELSE Place(passRel, d, i)
    BY <1>1, <1>3, PlacePastRow
  <2>3. a = Place(passRel, c, i)
    BY DEF Addr
  <2>4. q[d] = IF d = c THEN a + 1 ELSE dst[t][d]
    <3> HIDE DEF a, c
    <3> QED
      BY <1>4, <1>6 DEF q
  <2> HIDE DEF a, c, i, q
  <2> QED
    BY <2>1, <2>2, <2>3, <2>4
<1>8. /\ dst' \in Ints /\ dst'[t] = q /\ \A u \in Threads \ {t} : dst'[u] = dst[u]
      /\ passPos' \in [Threads -> Nat] /\ passPos'[t] = i + 1
      /\ \A u \in Threads \ {t} : passPos'[u] = passPos[u]
      /\ tmp' \in [0 .. Pass!MemorySize - 1 -> Nat] /\ tmp'[a] = i
      /\ \A b \in 0 .. Pass!MemorySize - 1 : b # a => tmp'[b] = tmp[b]
  <2>1. /\ dst \in Ints /\ passPos \in [Threads -> Nat]
        /\ tmp \in [0 .. Pass!MemorySize - 1 -> Nat]
    BY DEF PassInv, PassTypes
  <2> HIDE DEF q, a, i
  <2> QED
    BY <1>3, <1>4, <1>5, <1>6, <2>1 DEF Ints
<1>9. PassTypes'
  <2> HIDE DEF q, a, i
  <2> QED
    BY <1>5, <1>8 DEF PassInv, PassTypes, Ints, Pass!MemorySize
<1>10. \A u \in Threads : FirstRow(u)' = FirstRow(u) /\ LastRow(u)' = LastRow(u)
  BY <1>5 DEF FirstRow, LastRow
<1>11. PointersAreRight(t)'
  <2>1. \A d \in 0 .. Fan - 1 : output'[t][d] = Place(passRel, d, FirstRow(t))
    BY <1>1, <1>5 DEF PointersAreRight
  <2>2. \A d \in 0 .. Fan - 1 : dst'[t][d] = Place(passRel, d, passPos'[t])
    BY <1>7, <1>8
  <2> HIDE DEF q, a, i
  <2> QED
    BY <1>5, <1>10, <2>1, <2>2 DEF PointersAreRight
<1>12. ASSUME NEW u \in Threads, NEW row \in FirstRow(u) .. passPos'[u] - 1
       PROVE  tmp'[Addr(passRel, row)] = row
  <2>1. row \in Within(passRel, u) /\ row \in DOMAIN passRel
    <3>1. passPos'[u] - 1 <= LastRow(u)
      <4>1. \A v \in Threads : passPos[v] \in FirstRow(v) .. LastRow(v) + 1
        BY DEF PassInv
      <4>2. LastRow(u) \in Nat /\ FirstRow(u) \in Nat
        BY <1>2
      <4>3. CASE u # t
        <5>1. passPos'[u] = passPos[u]
          BY <1>8, <4>3
        <5>2. passPos[u] \in FirstRow(u) .. LastRow(u) + 1
          BY <4>1
        <5> QED
          BY <4>2, <5>1, <5>2
      <4>4. CASE u = t
        <5>1. passPos'[u] = i + 1
          BY <1>8, <4>4
        <5>2. i \in Nat /\ i <= LastRow(u)
          BY <1>1, <1>3, <4>4
        <5> HIDE DEF i
        <5> QED
          BY <4>2, <5>1, <5>2
      <4> QED
        BY <4>3, <4>4
    <3>2. passPos'[u] \in Nat
      BY <1>8
    <3> QED
      BY <1>1, <1>2, <3>1, <3>2 DEF Within, FirstRow, LastRow
  <2>2. CASE row = i
    BY <1>8, <2>2
  <2>3. CASE row # i
    <3>1. tmp[Addr(passRel, row)] = row
      <4>1. row \in FirstRow(u) .. passPos[u] - 1
        <5> HIDE DEF i
        <5>1. CASE u # t
          BY <1>8, <5>1
        <5>2. CASE u = t
          BY <1>2, <1>3, <1>8, <2>3, <5>2 DEF i
        <5> QED
          BY <5>1, <5>2
      <4> QED
        BY <4>1 DEF PassInv, CopiesArePlaced
    <3>2. Addr(passRel, row) # a
      BY <1>1, <1>3, <2>1, <2>3, PlacesAreApart
    <3>3. Addr(passRel, row) \in 0 .. Pass!MemorySize - 1
      BY <1>1, <2>1, PlacesAreInMemory
    <3> HIDE DEF a
    <3> QED
      BY <1>8, <3>1, <3>2, <3>3
  <2> QED
    BY <2>2, <2>3
<1>13. \A u \in Threads : CopiesArePlaced(u)'
  BY <1>5, <1>10, <1>12 DEF CopiesArePlaced
<1>14. \A u \in Threads \ {t} : PointersAreRight(u)' <=> PointersAreRight(u)
  BY <1>5, <1>8, ThreadKept
<1>15. \A u \in Threads : Counted(u)' <=> Counted(u)
  BY <1>5 DEF Counted
<1>16. passPos'[t] \in FirstRow(t) .. LastRow(t) + 1
  BY <1>1, <1>2, <1>3, <1>8
<1> HIDE DEF i, a, c, q
<1> QED
  BY <1>1, <1>5, <1>8, <1>9, <1>10, <1>11, <1>13, <1>14, <1>15, <1>16 DEF PassInv

LEMMA CopiedKeepsPass ==
  ASSUME Pass!OptionsOK, PassInv, NEW t \in Threads, Pass!Copied(t)
  PROVE  PassInv'
<1>1. /\ UNCHANGED <<passRel, passPos, hist, output, dst, tmp>>
      /\ passPc' = [passPc EXCEPT ![t] = "done"] /\ passPc[t] = "copy"
      /\ passPos[t] > LastRow(t)
  BY PassOperators DEF Pass!Copied, LastRow
<1>2. /\ passPc' \in [Threads -> {"count", "counted", "copy", "done"}]
      /\ passPc'[t] = "done" /\ \A u \in Threads \ {t} : passPc'[u] = passPc[u]
  BY <1>1 DEF PassInv, PassTypes
<1>3. PassTypes'
  BY <1>1, <1>2 DEF PassInv, PassTypes, Ints, Pass!MemorySize
<1>4. \A u \in Threads : /\ FirstRow(u)' = FirstRow(u) /\ LastRow(u)' = LastRow(u)
                         /\ Counted(u)' <=> Counted(u)
                         /\ PointersAreRight(u)' <=> PointersAreRight(u)
                         /\ CopiesArePlaced(u)' <=> CopiesArePlaced(u)
  BY <1>1 DEF FirstRow, LastRow, Counted, PointersAreRight, CopiesArePlaced
<1>5. passPos[t] = LastRow(t) + 1
  <2>1. FirstRow(t) \in Nat /\ LastRow(t) \in Nat
    BY SliceBounds DEF PassInv, PassTypes, FirstRow, LastRow
  <2> QED
    BY <1>1, <2>1 DEF PassInv
<1> QED
  BY <1>1, <1>2, <1>3, <1>4, <1>5 DEF PassInv

LEMMA NextKeepsPass ==
  ASSUME Pass!OptionsOK, PassInv, [Pass!Next]_Pass!vars
  PROVE  PassInv'
<1>1. CASE UNCHANGED Pass!vars
  BY <1>1 DEF Pass!vars, PassInv, PassTypes, Ints, FirstRow, LastRow, Counted,
     PointersAreRight, CopiesArePlaced, Pass!MemorySize
<1>2. CASE Pass!Next
  <2>1. PICK t \in Threads : Pass!Thread(t)
    BY <1>2, PassOperators DEF Pass!Next
  <2>2. ~Pass!Combine(t)
    BY DEF Pass!Combine
  <2>3. ~Pass!Drain(t)
    BY <2>1 DEF Pass!Drain, PassInv, PassTypes
  <2> QED
    BY <2>1, <2>2, <2>3, CountKeepsPass, FindOutputKeepsPass, CopyKeepsPass,
       CopiedKeepsPass DEF Pass!Thread
<1> QED
  BY <1>1, <1>2

\* The region of a cluster begins with the place of its first row, and is as
\* long as the cluster is large.
LEMMA RegionIsPlaces ==
  ASSUME Pass!OptionsOK, PassInv, Pass!Done, NEW c \in 0 .. Fan - 1
  PROVE  LET first == Place(passRel, c, 1)
         IN  /\ first \in Nat
             /\ Pass!Region(c) = first .. first + Cardinality(Bunch(passRel, c)) - 1
<1> DEFINE first == Place(passRel, c, 1)
           k == Cardinality(Smaller(passRel, c))
           b == Cardinality(Bunch(passRel, c))
           p == c * Padding
<1>1. passRel \in Seq(Nat) /\ Fan \in Nat \ {0} /\ Padding \in Nat /\ c \in Nat
  BY FanIsPositive DEF PassInv, PassTypes, Pass!OptionsOK
<1>2. 0 \in Threads
  BY SizesArePositive DEF Threads
<1>3. FirstRow(0) = 1
  <2>1. FirstRow(0) = 0 * Part(passRel) + 1
    BY DEF FirstRow, Slice, Part
  <2>2. Part(passRel) \in Nat
    BY <1>1, PartIsNat
  <2> QED
    BY <2>1, <2>2
<1>4. \A d \in 0 .. Fan - 1 : output[0][d] = Place(passRel, d, 1)
  <2>1. passPc[0] = "done"
    BY <1>2, PassOperators DEF Pass!Done
  <2> QED
    BY <1>2, <1>3, <2>1 DEF PassInv, PointersAreRight
<1>5. /\ k \in Nat /\ b \in Nat /\ Before(passRel, c, 1) = Smaller(passRel, c)
      /\ Cardinality(Smaller(passRel, c + 1)) = k + b
      /\ Cardinality(Smaller(passRel, Fan)) = Len(passRel)
  BY <1>1, ClustersFollow
<1>6. p \in Nat /\ (c + 1) * Padding = p + Padding
  <2> HIDE DEF p
  <2>1. c * Padding \in Nat /\ (c + 1) * Padding = c * Padding + Padding
    BY <1>1
  <2> QED
    BY <2>1 DEF p
<1>7. first = k + p
  BY <1>5 DEF Place
<1>8. CASE c = Fan - 1
  <2>1. k + b = Len(passRel)
    <3>1. c + 1 = Fan
      BY <1>1, <1>8
    <3> QED
      BY <1>5, <3>1
  <2>2. Pass!MemorySize = k + b + (p + Padding)
    <3>1. Fan = c + 1
      BY <1>1, <1>8
    <3>2. Pass!MemorySize = Len(passRel) + Fan * Padding
      BY DEF Pass!MemorySize, Fan
    <3> QED
      BY <1>6, <2>1, <3>1, <3>2
  <2>3. Pass!Region(c) = first .. Pass!MemorySize - Padding - 1
    BY <1>4, <1>8 DEF Pass!Region, Fan
  <2>4. first + b - 1 = Pass!MemorySize - Padding - 1
    <3> HIDE DEF first, k, b, p
    <3> QED
      BY <1>1, <1>5, <1>6, <1>7, <2>2
  <2>5. first \in Nat
    <3> HIDE DEF first, k, p
    <3> QED
      BY <1>5, <1>6, <1>7
  <2> QED
    BY <2>3, <2>4, <2>5
<1>9. CASE c # Fan - 1
  <2>1. c + 1 \in 0 .. Fan - 1
    BY <1>1, <1>9
  <2>2. output[0][c + 1] = k + b + (p + Padding)
    <3>1. Before(passRel, c + 1, 1) = Smaller(passRel, c + 1)
      BY <1>1, <2>1, ClustersFollow
    <3> QED
      BY <1>4, <1>5, <1>6, <2>1, <3>1 DEF Place
  <2>3. Pass!Region(c) = first .. output[0][c + 1] - Padding - 1
    BY <1>4, <1>9 DEF Pass!Region, Fan
  <2>4. first + b - 1 = output[0][c + 1] - Padding - 1
    <3> HIDE DEF first, k, b, p
    <3> QED
      BY <1>1, <1>5, <1>6, <1>7, <2>2
  <2>5. first \in Nat
    <3> HIDE DEF first, k, p
    <3> QED
      BY <1>5, <1>6, <1>7
  <2> QED
    BY <2>3, <2>4, <2>5
<1> QED
  BY <1>8, <1>9

\* Each row of a cluster has its place in the region, so they fill it.
LEMMA RowsFillRegion ==
  ASSUME Pass!OptionsOK, PassInv, NEW c \in 0 .. Fan - 1, NEW first,
         first = Place(passRel, c, 1), first \in Nat
  PROVE  {Addr(passRel, row) : row \in Bunch(passRel, c)}
           = first .. first + Cardinality(Bunch(passRel, c)) - 1
<1> DEFINE B == Bunch(passRel, c)
           b == Cardinality(B)
           I == first .. first + b - 1
           f == [row \in B |-> Addr(passRel, row)]
<1>1. passRel \in Seq(Nat) /\ Fan \in Nat \ {0} /\ Padding \in Nat /\ c \in Nat
  BY FanIsPositive DEF PassInv, PassTypes, Pass!OptionsOK
<1>2. /\ IsFiniteSet(B) /\ b \in Nat /\ B \in SUBSET (DOMAIN passRel)
      /\ Before(passRel, c, 1) = Smaller(passRel, c)
      /\ Cardinality(Smaller(passRel, c)) \in Nat
      /\ Cardinality(Smaller(passRel, c + 1)) = Cardinality(Smaller(passRel, c)) + b
  BY <1>1, ClustersFollow DEF Bunch
<1>3. ASSUME NEW row \in B PROVE Addr(passRel, row) \in I
  <2> DEFINE x == Smaller(passRel, c)
             y == Before(passRel, c, row)
             z == Smaller(passRel, c + 1)
             p == c * Padding
  <2>1. row \in DOMAIN passRel /\ ClusterIn(passRel, row) = c /\ row \in Nat
    BY <1>1, <1>3 DEF Bunch
  <2>2. \A i \in DOMAIN passRel : ClusterIn(passRel, i) \in Nat
    BY <1>1, ClustersOfRows
  <2>3. x \in SUBSET y /\ y \cup {row} \in SUBSET z /\ row \notin y
    <3>1. \A i \in x : i \in y
      BY DEF Smaller, Before
    <3>2. \A i \in y : i \in z
      BY <1>1, <2>2 DEF Smaller, Before
    <3>3. row \in z /\ row \notin y
      BY <1>1, <2>1 DEF Smaller, Before
    <3> QED
      BY <3>1, <3>2, <3>3
  <2>4. IsFiniteSet(y) /\ Cardinality(y) \in Nat
    BY <1>1, BeforeIsFinite
  <2>5. IsFiniteSet(z)
    <3>1. z \in SUBSET (DOMAIN passRel)
      BY DEF Smaller
    <3> QED
      BY <1>1, <3>1, RowsAreFinite, FS_Subset
  <2>6. Cardinality(x) <= Cardinality(y) /\ Cardinality(y) + 1 <= Cardinality(z)
    <3> HIDE DEF x, y, z
    <3>1. Cardinality(x) <= Cardinality(y)
      BY <2>3, <2>4, FS_Subset
    <3>2. Cardinality(y \cup {row}) = Cardinality(y) + 1
      BY <2>3, <2>4, FS_AddElement
    <3>3. Cardinality(y \cup {row}) <= Cardinality(z)
      BY <2>3, <2>5, FS_Subset
    <3> QED
      BY <3>1, <3>2, <3>3
  <2>7. first = Cardinality(x) + p /\ Addr(passRel, row) = Cardinality(y) + p
    BY <1>2, <2>1 DEF Place, Addr
  <2>8. p \in Nat
    BY <1>1
  <2>9. Cardinality(x) \in Nat /\ Cardinality(z) = Cardinality(x) + b
    BY <1>2
  <2> HIDE DEF x, y, z, p, b
  <2> QED
    BY <1>2, <2>4, <2>6, <2>7, <2>8, <2>9
<1>4. IsFiniteSet(I) /\ Cardinality(I) = b
  <2> HIDE DEF b
  <2>1. first \in Int /\ first + b - 1 \in Int
    BY <1>2
  <2>2. /\ IsFiniteSet(first .. first + b - 1)
        /\ Cardinality(first .. first + b - 1)
             = IF first > first + b - 1 THEN 0 ELSE (first + b - 1) - first + 1
    BY <2>1, FS_Interval
  <2> QED
    BY <1>2, <2>2
<1>5. f \in Injection(B, I)
  <2>1. f \in [B -> I]
    BY <1>3
  <2>2. \A r, s \in B : f[r] = f[s] => r = s
    BY <1>1, <1>2, PlacesAreApart
  <2> HIDE DEF f, I, B
  <2> QED
    BY <2>1, <2>2 DEF Injection, IsInjective
<1>6. f \in Surjection(B, I)
  <2> HIDE DEF f, I, B, b
  <2> QED
    BY <1>4, <1>5, FS_Injection DEF b
<1>7. I = {f[row] : row \in B}
  <2>1. \A a \in I : \E row \in B : f[row] = a
    <3> HIDE DEF f, I, B
    <3> QED
      BY <1>6 DEF Surjection
  <2> HIDE DEF I
  <2> QED
    BY <1>3, <2>1
<1> QED
  BY <1>7

LEMMA PassSorts == ASSUME Pass!OptionsOK, PassInv PROVE Pass!ClustersAreExact
<1> SUFFICES ASSUME Pass!Done, NEW c \in 0 .. Fan - 1
             PROVE  /\ {tmp[a] : a \in Pass!Region(c)} = Bunch(passRel, c)
                    /\ Cardinality(Pass!Region(c)) = Cardinality(Bunch(passRel, c))
  BY PassOperators DEF Pass!ClustersAreExact, Bunch, Pass!Rows
<1> DEFINE first == Place(passRel, c, 1)
           B == Bunch(passRel, c)
           b == Cardinality(B)
           I == Pass!Region(c)
<1>1. passRel \in Seq(Nat) /\ c \in Nat
  BY DEF PassInv, PassTypes
<1>2. first \in Nat /\ I = first .. first + b - 1
  BY RegionIsPlaces
<1>3. I = {Addr(passRel, row) : row \in B}
  <2> HIDE DEF I, b
  <2> QED
    BY <1>2, RowsFillRegion DEF b
<1>4. ASSUME NEW row \in DOMAIN passRel PROVE tmp[Addr(passRel, row)] = row
  <2>1. PICK t \in Threads : row \in Within(passRel, t)
    BY <1>1, RowHasThread, RowsAreFinite
  <2>2. passPc[t] = "done"
    BY PassOperators DEF Pass!Done
  <2>3. passPos[t] = LastRow(t) + 1 /\ CopiesArePlaced(t)
    BY <2>2 DEF PassInv
  <2>4. LastRow(t) \in Nat
    BY <1>1, SliceBounds DEF LastRow
  <2>5. passPos[t] - 1 = LastRow(t)
    BY <2>3, <2>4
  <2> QED
    BY <2>1, <2>3, <2>5 DEF CopiesArePlaced, Within, FirstRow, LastRow
<1>5. B \in SUBSET (DOMAIN passRel)
  BY DEF Bunch
<1>6. {tmp[a] : a \in I} = B
  <2> HIDE DEF I, B
  <2> QED
    BY <1>3, <1>4, <1>5
<1>7. b \in Nat
  BY <1>1, ClustersFollow
<1>8. Cardinality(I) = b
  <2> HIDE DEF first, b, I
  <2>1. first \in Int /\ first + b - 1 \in Int
    BY <1>2, <1>7
  <2>2. Cardinality(first .. first + b - 1)
          = IF first > first + b - 1 THEN 0 ELSE (first + b - 1) - first + 1
    BY <2>1, FS_Interval
  <2> QED
    BY <1>2, <1>7, <2>2
<1> QED
  BY <1>6, <1>8

\* A parallel pass puts every tuple in its cluster, once, whatever the relation,
\* the number of threads and the bits, and however their copies interleave
\* (parallel_radix_partition).
THEOREM PassesAreExact ==
  JoinsSpec => []PassIsExact
<1>0. Pass!OptionsOK
  BY PassOptionsOK
<1>1. JoinsInit => (part = "pass" => PassInv)
  BY <1>0, InitPass DEF JoinsInit
<1>2. (part = "pass" => PassInv) /\ [JoinsNext]_JoinsVars => (part = "pass" => PassInv)'
  <2> SUFFICES ASSUME part = "pass" => PassInv, [JoinsNext]_JoinsVars, part' = "pass"
               PROVE  PassInv'
    OBVIOUS
  <2>1. part = "pass" /\ [Pass!Next]_Pass!vars
    <3>1. CASE UNCHANGED JoinsVars
      BY <3>1 DEF JoinsVars, passVars, Pass!vars
    <3>2. CASE JoinsNext
      BY <3>2 DEF JoinsNext, TableThread, RadixThread, TableEnd, PassStep, LinesStep,
         passVars, Pass!vars
    <3> QED
      BY <3>1, <3>2
  <2> QED
    BY <1>0, <2>1, NextKeepsPass
<1>3. (part = "pass" => PassInv) => PassIsExact
  BY <1>0, PassSorts DEF PassIsExact
<1> QED
  BY <1>1, <1>2, <1>3, PTL DEF JoinsSpec

-----------------------------------------------------------------------------
(***************************************************************************)
(* The radix join around its passes.                                       *)
(***************************************************************************)
Groups == 0 .. FanOut - 1
RNodes == 0 .. NNodes - 1

LEMMA JoinOptions ==
  /\ FanOut \in Nat \ {0} /\ NNodes \in Nat \ {0} /\ NThreads \in Nat \ {0}
  /\ SkewLimit \in Nat /\ LargeLimit \in Nat
  /\ MemoryNodes \subseteq RNodes /\ None \notin Groups
  /\ \A in \in Inputs : in.R \in Seq(Groups \X Groups) /\ in.S \in Seq(Groups \X Groups)
  /\ Radix!Threads = Threads /\ Radix!Clusters = Groups /\ Radix!Nodes = RNodes
  /\ 0 \in Threads
BY JoinOptionsOK, SizesArePositive
   DEF Radix!OptionsOK, Radix!Clusters, Groups, RNodes, Radix!Threads, Threads, Radix!Nodes

LEMMA NodeHasQueue ==
  ASSUME NEW t \in Threads
  PROVE  Radix!NodeOf(t) \in RNodes
<1>1. t \in Nat /\ NNodes \in Nat \ {0}
  BY JoinOptions, SizesArePositive DEF Threads
<1> QED
  BY <1>1 DEF Radix!NodeOf, RNodes

LEMMA GroupsAreFinite == IsFiniteSet(Groups) /\ IsFiniteSet(RNodes)
<1>1. 0 \in Int /\ FanOut - 1 \in Int /\ NNodes - 1 \in Int
  BY JoinOptions
<1> QED
  BY <1>1, FS_Interval DEF Groups, RNodes

-----------------------------------------------------------------------------
(***************************************************************************)
(* The order of a queue.                                                   *)
(***************************************************************************)
Falling(q, n) == \A k \in 1 .. n : \A l \in 1 .. k - 1 : q[l] > q[k]

LEMMA FallingExists ==
  ASSUME NEW m \in Nat
  PROVE  \A C \in SUBSET (0 .. m - 1) : \E q \in [1 .. Cardinality(C) -> C] :
           Falling(q, Cardinality(C))
<1> DEFINE Has(C) == \E q \in [1 .. Cardinality(C) -> C] : Falling(q, Cardinality(C))
           T == {n \in Nat : \A C \in SUBSET (0 .. n - 1) : Has(C)}
<1>1. 0 \in T
  <2> SUFFICES ASSUME NEW C \in SUBSET (0 .. 0 - 1) PROVE Has(C)
    <3> HIDE DEF Has
    <3> QED
      OBVIOUS
  <2>1. C = {} /\ Cardinality(C) = 0
    <3>1. 0 .. 0 - 1 = {}
      OBVIOUS
    <3>2. C = {}
      BY <3>1
    <3> QED
      BY <3>2, FS_EmptySet
  <2>2. 1 .. 0 = {}
    OBVIOUS
  <2>3. [k \in 1 .. 0 |-> 0] \in [1 .. Cardinality(C) -> C]
    BY <2>1, <2>2
  <2> QED
    BY <2>1, <2>2, <2>3 DEF Falling
<1>2. ASSUME NEW n \in T PROVE n + 1 \in T
  <2> SUFFICES ASSUME NEW C \in SUBSET (0 .. (n + 1) - 1) PROVE Has(C)
    <3> HIDE DEF Has
    <3> QED
      OBVIOUS
  <2>1. n \in Nat
    OBVIOUS
  <2> DEFINE D == C \ {n}
             s == Cardinality(D)
  <2>2. D \in SUBSET (0 .. n - 1)
    BY <2>1
  <2>3. PICK q \in [1 .. s -> D] : Falling(q, s)
    BY <2>2
  <2>4. CASE n \notin C
    <3>1. D = C
      BY <2>4
    <3> QED
      BY <2>3, <3>1
  <2>5. CASE n \in C
    <3>1. IsFiniteSet(D) /\ s \in Nat
      <4>1. IsFiniteSet(0 .. n - 1)
        BY <2>1, FS_Interval
      <4> QED
        BY <2>2, <4>1, FS_Subset, FS_CardinalityType
    <3>2. C = D \cup {n} /\ n \notin D
      BY <2>5
    <3>3. Cardinality(C) = s + 1
      BY <3>1, <3>2, FS_AddElement
    <3> DEFINE r == [k \in 1 .. s + 1 |-> IF k = 1 THEN n ELSE q[k - 1]]
    <3> HIDE DEF s
    <3>4. r \in [1 .. s + 1 -> C]
      BY <2>3, <2>5, <3>1, <3>2
    <3>5. \A k \in 1 .. s + 1 : \A l \in 1 .. k - 1 : r[l] > r[k]
      <4> SUFFICES ASSUME NEW k \in 1 .. s + 1, NEW l \in 1 .. k - 1 PROVE r[l] > r[k]
        OBVIOUS
      <4>1. k - 1 \in 1 .. s /\ l \in 1 .. s + 1 /\ k # 1
        BY <3>1
      <4>2. q[k - 1] \in D
        BY <2>3, <4>1
      <4>3. q[k - 1] < n /\ q[k - 1] \in Nat
        <5>1. q[k - 1] \in 0 .. n - 1
          BY <2>2, <4>2
        <5> QED
          BY <2>1, <5>1
      <4>4. r[k] = q[k - 1]
        BY <4>1
      <4>5. CASE l = 1
        <5>1. r[l] = n
          BY <4>1, <4>5
        <5> HIDE DEF r
        <5> QED
          BY <2>1, <4>3, <4>4, <5>1
      <4>6. CASE l # 1
        <5>1. r[l] = q[l - 1] /\ l - 1 \in 1 .. (k - 1) - 1
          BY <4>1, <4>6
        <5>2. q[l - 1] > q[k - 1]
          BY <2>3, <4>1, <5>1 DEF Falling
        <5> QED
          BY <4>4, <5>1, <5>2
      <4> QED
        BY <4>5, <4>6
    <3> HIDE DEF r
    <3> QED
      BY <3>3, <3>4, <3>5 DEF Falling
  <2> QED
    BY <2>4, <2>5
<1> HIDE DEF T
<1>3. T \in SUBSET Nat
  BY DEF T
<1>4. T = Nat
  BY <1>1, <1>2, <1>3, Doubling!SetInduction
<1> QED
  BY <1>4 DEF T

\* A stacked queue holds each of its clusters in one place.
LEMMA StackedHolds ==
  ASSUME NEW C \in SUBSET Groups
  PROVE  /\ IsFiniteSet(C) /\ Radix!Stacked(C) \in Seq(C)
         /\ Len(Radix!Stacked(C)) = Cardinality(C) /\ Cardinality(C) \in Nat
         /\ \A k, l \in 1 .. Cardinality(C) : Radix!Stacked(C)[k] = Radix!Stacked(C)[l] => k = l
         /\ \A c \in C : \E k \in 1 .. Cardinality(C) : Radix!Stacked(C)[k] = c
<1> DEFINE n == Cardinality(C)
           q == Radix!Stacked(C)
<1>1. FanOut \in Nat
  BY JoinOptions
<1>2. C \in SUBSET (0 .. FanOut - 1) /\ C \in SUBSET Nat
  BY <1>1 DEF Groups
<1>3. IsFiniteSet(C) /\ n \in Nat
  <2>1. IsFiniteSet(0 .. FanOut - 1)
    BY <1>1, FS_Interval
  <2> QED
    BY <1>2, <2>1, FS_Subset, FS_CardinalityType
<1>4. q \in [1 .. n -> C] /\ Falling(q, n)
  <2>1. \E p \in [1 .. n -> C] : Falling(p, n)
    BY <1>1, <1>2, FallingExists
  <2>2. q = CHOOSE p \in [1 .. n -> C] : \A k \in 1 .. n : \A l \in 1 .. k - 1 : p[l] > p[k]
    BY DEF Radix!Stacked, Radix!Cardinality, Cardinality
  <2> HIDE DEF n, q
  <2> QED
    BY <2>1, <2>2 DEF Falling
<1> HIDE DEF q
<1>5. \A k, l \in 1 .. n : q[k] = q[l] => k = l
  <2> HIDE DEF n
  <2> SUFFICES ASSUME NEW k \in 1 .. n, NEW l \in 1 .. n, q[k] = q[l], k # l PROVE FALSE
    OBVIOUS
  <2>1. q[k] \in Nat /\ q[l] \in Nat
    BY <1>2, <1>4
  <2>2. CASE k < l
    <3>1. k \in 1 .. l - 1
      BY <1>3, <2>2
    <3>2. q[k] > q[l]
      BY <1>4, <3>1 DEF Falling
    <3> QED
      BY <2>1, <3>2
  <2>3. CASE l < k
    <3>1. l \in 1 .. k - 1
      BY <1>3, <2>3
    <3>2. q[l] > q[k]
      BY <1>4, <3>1 DEF Falling
    <3> QED
      BY <2>1, <3>2
  <2> QED
    BY <1>3, <2>2, <2>3
<1>6. q \in Injection(1 .. n, C)
  BY <1>4, <1>5 DEF Injection, IsInjective
<1>7. q \in Surjection(1 .. n, C)
  <2>1. IsFiniteSet(1 .. n) /\ Cardinality(1 .. n) = n
    <3> HIDE DEF n
    <3>1. 1 \in Int /\ n \in Int
      BY <1>3
    <3> QED
      BY <1>3, <3>1, FS_Interval
  <2> QED
    BY <1>3, <1>6, <2>1, FS_Injection
<1>8. \A c \in C : \E k \in 1 .. n : q[k] = c
  BY <1>7 DEF Surjection
<1> QED
  BY <1>3, <1>4, <1>5, <1>8 DEF q

-----------------------------------------------------------------------------
(***************************************************************************)
(* The shares of the threads.                                              *)
(***************************************************************************)
Rank(rows, i) == Cardinality({other \in rows : other < i})

\* The share of a thread is the slice of it in the rows as they are ordered.
LEMMA ShareIsSlice ==
  ASSUME NEW rows \in SUBSET Nat, IsFiniteSet(rows), NEW i \in rows
  PROVE  \E z \in Seq(Nat) :
           /\ Rank(rows, i) + 1 \in 1 .. Len(z)
           /\ \A t \in Threads :
                i \in Radix!Share(rows, t) <=> Rank(rows, i) + 1 \in Within(z, t)
<1> DEFINE n == Cardinality(rows)
           q == n \div NThreads
           z == [k \in 1 .. n |-> 0]
           r == Rank(rows, i)
<1>1. n \in Nat /\ NThreads \in Nat \ {0} /\ q \in Nat
  <2>1. n \in Nat /\ NThreads \in Nat \ {0}
    BY FS_CardinalityType, JoinOptions
  <2> QED
    BY <2>1
<1>2. r \in Nat /\ r + 1 <= n
  <2> DEFINE before == {other \in rows : other < i}
  <2>1. before \in SUBSET (rows \ {i})
    OBVIOUS
  <2>2. IsFiniteSet(rows \ {i}) /\ Cardinality(rows \ {i}) = n - 1
    BY FS_RemoveElement
  <2> HIDE DEF before
  <2>3. IsFiniteSet(before) /\ Cardinality(before) <= n - 1
    BY <2>1, <2>2, FS_Subset
  <2>4. Cardinality(before) \in Nat
    BY <2>3, FS_CardinalityType
  <2> HIDE DEF n
  <2> QED
    BY <1>1, <2>3, <2>4 DEF Rank, before
<1>3. z \in Seq(Nat) /\ Len(z) = n
  BY <1>1
<1>4. ASSUME NEW t \in Threads
      PROVE  i \in Radix!Share(rows, t) <=> r + 1 \in Within(z, t)
  <2>1. i \in Radix!Share(rows, t) <=> r >= t * q /\ (t = NThreads - 1 \/ r < (t + 1) * q)
    BY DEF Radix!Share, Rank, Radix!Cardinality, Cardinality
  <2>2. Slice(z, t).first = t * q + 1
        /\ Slice(z, t).last = IF t = NThreads - 1 THEN n ELSE (t + 1) * q
    BY <1>3 DEF Slice
  <2>3. t * q \in Nat /\ (t + 1) * q \in Nat
    <3>1. q \in Nat /\ t \in Nat
      BY <1>1 DEF Threads
    <3> HIDE DEF q
    <3> QED
      BY <3>1
  <2> HIDE DEF q, z, r, n
  <2>4. CASE t = NThreads - 1
    BY <1>1, <1>2, <2>1, <2>2, <2>3, <2>4 DEF Within
  <2>5. CASE t # NThreads - 1
    BY <1>1, <1>2, <2>1, <2>2, <2>3, <2>5 DEF Within
  <2> QED
    BY <2>4, <2>5
<1>5. r + 1 \in 1 .. Len(z)
  <2> HIDE DEF r, z, n
  <2> QED
    BY <1>1, <1>2, <1>3
<1> QED
  BY <1>3, <1>4, <1>5

\* The shares of the threads are all rows, each once.
LEMMA SharesCover ==
  ASSUME NEW rows \in SUBSET Nat, IsFiniteSet(rows)
  PROVE  /\ \A t : Radix!Share(rows, t) \in SUBSET rows
         /\ \A i \in rows : \E t \in Threads : i \in Radix!Share(rows, t)
         /\ \A t, u \in Threads : t # u => Radix!Share(rows, t) \cap Radix!Share(rows, u) = {}
<1>1. \A t : Radix!Share(rows, t) \in SUBSET rows
  BY DEF Radix!Share
<1>2. ASSUME NEW i \in rows PROVE \E t \in Threads : i \in Radix!Share(rows, t)
  <2>1. PICK z \in Seq(Nat) :
          /\ Rank(rows, i) + 1 \in 1 .. Len(z)
          /\ \A v \in Threads :
               i \in Radix!Share(rows, v) <=> Rank(rows, i) + 1 \in Within(z, v)
    BY ShareIsSlice
  <2>2. PICK t \in Threads : Rank(rows, i) + 1 \in Within(z, t)
    BY <2>1, RowHasThread
  <2> QED
    BY <2>1, <2>2
<1>3. ASSUME NEW t \in Threads, NEW u \in Threads, t < u, NEW i \in rows,
             i \in Radix!Share(rows, t), i \in Radix!Share(rows, u)
      PROVE  FALSE
  <2>1. PICK z \in Seq(Nat) : \A v \in Threads :
          i \in Radix!Share(rows, v) <=> Rank(rows, i) + 1 \in Within(z, v)
    BY ShareIsSlice
  <2>2. Rank(rows, i) + 1 \in Within(z, t) /\ Rank(rows, i) + 1 \in Within(z, u)
    BY <1>3, <2>1
  <2>3. Slice(z, t).last < Slice(z, u).first
    BY <1>3, SlicesAreApart
  <2> QED
    BY <2>2, <2>3, SliceBounds DEF Within
<1>4. \A t, u \in Threads : t # u => t < u \/ u < t
  BY SizesArePositive DEF Threads
<1>5. \A t, u \in Threads : t # u => Radix!Share(rows, t) \cap Radix!Share(rows, u) = {}
  BY <1>1, <1>3, <1>4
<1> QED
  BY <1>1, <1>2, <1>5

-----------------------------------------------------------------------------
(***************************************************************************)
(* The barriers, and what the passes have done between them.               *)
(***************************************************************************)
RowsOf(x) == DOMAIN joinRel[x]
ShareOf(x, clusters, t) == Radix!Share(Radix!PassRows(x, clusters), t)

Reads == {"start", "count R", "copy R", "count S", "copy S"}
Skewing == {"skew", "skew task", "recount R", "recopy R", "recount S", "recopy S",
            "skew tasks"}
Tasked == {"collect", "join", "done"}
Places == Reads \cup {"prepare", "divide"} \cup Skewing \cup Tasked

\* Some threads stand at awake, the ones that have arrived sleep at asleep.
InEra(awake, asleep) ==
  \A t \in Threads : joinPc[t] \in IF t \in arrived THEN asleep ELSE awake

\* Where a thread has copied its share of a side in a pass, or counted it.
CopiedAt(x) ==
  IF x = "R" THEN {"count S", "copy S", "prepare", "recount S", "recopy S", "skew tasks"}
  ELSE {"prepare", "skew tasks"}
CountedAt(x) ==
  CopiedAt(x) \cup IF x = "R" THEN {"copy R", "recopy R"} ELSE {"copy S", "recopy S"}

\* While a pass works on some clusters, the others and the shares that were
\* copied are in place.
PassData(clusters) ==
  \A x \in {"R", "S"} :
    /\ copied[x] \in SUBSET RowsOf(x)
    /\ \A row \in RowsOf(x) :
         row \in copied[x] <=>
           \/ row \notin Radix!PassRows(x, clusters)
           \/ \E t \in Threads : joinPc[t] \in CopiedAt(x) /\ row \in ShareOf(x, clusters, t)
    /\ \A t \in Threads : joinPc[t] \in CountedAt(x) => counted[x][t] = ShareOf(x, clusters, t)

Whole == \A x \in {"R", "S"} : copied[x] = RowsOf(x)
Shared(clusters) ==
  \A x \in {"R", "S"} : \A t \in Threads : counted[x][t] = ShareOf(x, clusters, t)
Cleared(c) == \A x \in {"R", "S"} : copied[x] = RowsOf(x) \ Radix!PassRows(x, {c})

Reading ==
  /\ \/ InEra({"start"}, {"count R"})
     \/ InEra({"count R"}, {"copy R"})
     \/ InEra({"copy R", "count S"}, {"copy S"})
     \/ InEra({"copy S"}, {"prepare"})
  /\ PassData(Groups)
Preparing == InEra({"prepare"}, {"divide"}) /\ Whole /\ Shared(Groups)
Tasking ==
  /\ joinRel.skew
  /\ InEra({"divide", "skew tasks", "skew"}, {"skew task"})
  /\ Whole
  /\ joinPc[0] = "skew tasks" => \E c \in Groups : skewTask = c /\ Shared({c})
Collecting ==
  /\ InEra({IF joinRel.skew THEN "skew task" ELSE "divide", "collect"}, {"join"})
  /\ skewTask = None /\ Whole
Clearing ==
  /\ joinRel.skew
  /\ InEra({"skew task"}, {"recount R"})
  /\ \E c \in Groups : skewTask = c /\ IF arrived = {} THEN Whole ELSE Cleared(c)
Rereading ==
  /\ joinRel.skew
  /\ \/ InEra({"recount R"}, {"recopy R"})
     \/ InEra({"recopy R", "recount S"}, {"recopy S"})
     \/ InEra({"recopy S"}, {"skew tasks"})
  /\ \E c \in Groups : skewTask = c /\ PassData({c})
Joining == (InEra({"join"}, {"done"}) \/ InEra({"done"}, {})) /\ Whole

JoinTypes ==
  /\ joinRel \in Inputs
  /\ joinPc \in [Threads -> Places]
  /\ arrived \in SUBSET Threads /\ arrived # Threads
  /\ counted \in [{"R", "S"} -> [Threads -> SUBSET Nat]]
  /\ copied \in [{"R", "S"} -> SUBSET Nat]

PhaseInv ==
  /\ JoinTypes
  /\ Reading \/ Preparing \/ Tasking \/ Collecting \/ Clearing \/ Rereading \/ Joining

LEMMA RowsAreNumbers ==
  ASSUME joinRel \in Inputs, NEW x \in {"R", "S"}
  PROVE  /\ Len(joinRel[x]) \in Nat /\ RowsOf(x) = 1 .. Len(joinRel[x])
         /\ RowsOf(x) \in SUBSET Nat /\ IsFiniteSet(RowsOf(x))
         /\ \A row \in RowsOf(x) : joinRel[x][row] \in Groups \X Groups
<1>1. joinRel.R \in Seq(Groups \X Groups) /\ joinRel.S \in Seq(Groups \X Groups)
  BY JoinOptions
<1>2. joinRel[x] \in Seq(Groups \X Groups)
  BY <1>1
<1>3. Len(joinRel[x]) \in Nat /\ RowsOf(x) = 1 .. Len(joinRel[x])
  BY <1>2 DEF RowsOf
<1>4. IsFiniteSet(1 .. Len(joinRel[x]))
  BY <1>3, FS_Interval
<1> QED
  BY <1>2, <1>3, <1>4 DEF RowsOf

LEMMA SharesOfPass ==
  ASSUME joinRel \in Inputs, NEW x \in {"R", "S"}, NEW clusters
  PROVE  /\ Radix!PassRows(x, clusters) \in SUBSET RowsOf(x)
         /\ Radix!PassRows(x, Groups) = RowsOf(x)
         /\ \A t \in Threads : /\ ShareOf(x, clusters, t) \in SUBSET Radix!PassRows(x, clusters)
                               /\ ShareOf(x, clusters, t) \in SUBSET RowsOf(x)
                               /\ ShareOf(x, clusters, t) \in SUBSET Nat
         /\ \A row \in Radix!PassRows(x, clusters) :
              \E t \in Threads : row \in ShareOf(x, clusters, t)
<1> DEFINE rows == Radix!PassRows(x, clusters)
<1>1. rows \in SUBSET RowsOf(x)
  BY DEF Radix!PassRows, Radix!Rows, RowsOf
<1>2. Radix!PassRows(x, Groups) = RowsOf(x)
  BY RowsAreNumbers DEF Radix!PassRows, Radix!Rows, RowsOf, Radix!First
<1>3. RowsOf(x) \in SUBSET Nat /\ IsFiniteSet(RowsOf(x))
  BY RowsAreNumbers
<1> HIDE DEF rows
<1>4. rows \in SUBSET Nat /\ IsFiniteSet(rows)
  BY <1>1, <1>3, FS_Subset
<1>5. /\ \A t : Radix!Share(rows, t) \in SUBSET rows
      /\ \A i \in rows : \E t \in Threads : i \in Radix!Share(rows, t)
  BY <1>4, SharesCover
<1>6. \A t : ShareOf(x, clusters, t) = Radix!Share(rows, t)
  BY DEF ShareOf, rows
<1> QED
  BY <1>1, <1>2, <1>4, <1>5, <1>6 DEF rows

-----------------------------------------------------------------------------
\* A thread that arrives sleeps in the era, or is the last one and wakes all.
LEMMA ArriveInEra ==
  ASSUME JoinTypes, NEW a, NEW s, InEra(a, s), NEW t \in Threads, t \notin arrived,
         NEW p \in s, p \in Places, Radix!Arrive(t, p)
  PROVE  /\ joinPc' \in [Threads -> Places] /\ joinPc'[t] = p
         /\ \A u \in Threads : u # t => joinPc'[u] = joinPc[u]
         /\ arrived' \in SUBSET Threads /\ arrived' # Threads
         /\ \/ InEra(a, s)' /\ arrived' = arrived \cup {t}
            \/ arrived' = {} /\ \A u \in Threads : joinPc'[u] \in s
<1>1. joinPc' = [joinPc EXCEPT ![t] = p]
      /\ arrived' = IF arrived \cup {t} = Threads THEN {} ELSE arrived \cup {t}
  BY JoinOptions DEF Radix!Arrive
<1>2. joinPc' \in [Threads -> Places] /\ joinPc'[t] = p
      /\ \A u \in Threads : u # t => joinPc'[u] = joinPc[u]
  BY <1>1 DEF JoinTypes
<1>3. CASE arrived \cup {t} = Threads
  <2>1. \A u \in Threads : joinPc'[u] \in s
    BY <1>2, <1>3 DEF InEra
  <2> QED
    BY <1>1, <1>2, <1>3, <2>1
<1>4. CASE arrived \cup {t} # Threads
  <2>1. arrived' = arrived \cup {t}
    BY <1>1, <1>4
  <2>2. InEra(a, s)'
    BY <1>2, <2>1 DEF InEra
  <2> QED
    BY <1>2, <1>4, <2>1, <2>2 DEF JoinTypes
<1> QED
  BY <1>3, <1>4

LEMMA GotoInEra ==
  ASSUME JoinTypes, NEW a, NEW s, InEra(a, s), NEW t \in Threads, t \notin arrived,
         NEW p \in a, p \in Places, Radix!Goto(t, p)
  PROVE  /\ joinPc' \in [Threads -> Places] /\ joinPc'[t] = p
         /\ \A u \in Threads : u # t => joinPc'[u] = joinPc[u]
         /\ arrived' = arrived
         /\ InEra(a, s)'
BY DEF Radix!Goto, JoinTypes, InEra

\* What an awake thread tells of the era.
LEMMA AwakeTells ==
  ASSUME PhaseInv, NEW t \in Threads, t \notin arrived
  PROVE  /\ joinPc[t] = "start" => InEra({"start"}, {"count R"}) /\ PassData(Groups)
         /\ joinPc[t] = "count R" => InEra({"count R"}, {"copy R"}) /\ PassData(Groups)
         /\ joinPc[t] \in {"copy R", "count S"} =>
              InEra({"copy R", "count S"}, {"copy S"}) /\ PassData(Groups)
         /\ joinPc[t] = "copy S" => InEra({"copy S"}, {"prepare"}) /\ PassData(Groups)
         /\ joinPc[t] = "prepare" => Preparing
         /\ joinPc[t] = "divide" => IF joinRel.skew THEN Tasking ELSE Collecting
         /\ joinPc[t] \in {"skew", "skew tasks"} => Tasking
         /\ joinPc[t] = "skew task" => (joinRel.skew /\ Collecting) \/ Clearing
         /\ joinPc[t] = "recount R" => InEra({"recount R"}, {"recopy R"}) /\ Rereading
         /\ joinPc[t] \in {"recopy R", "recount S"} =>
              InEra({"recopy R", "recount S"}, {"recopy S"}) /\ Rereading
         /\ joinPc[t] = "recopy S" => InEra({"recopy S"}, {"skew tasks"}) /\ Rereading
         /\ joinPc[t] = "collect" => Collecting
         /\ joinPc[t] = "join" => InEra({"join"}, {"done"}) /\ Whole
         /\ joinPc[t] = "done" => InEra({"done"}, {}) /\ Whole
<1>1. \A a, s : InEra(a, s) => joinPc[t] \in a
  BY DEF InEra
<1>2. CASE Reading
  BY <1>1, <1>2 DEF Reading
<1>3. CASE Preparing
  BY <1>1, <1>3 DEF Preparing
<1>4. CASE Tasking
  BY <1>1, <1>4 DEF Tasking
<1>5. CASE Collecting
  BY <1>1, <1>5 DEF Collecting
<1>6. CASE Clearing
  BY <1>1, <1>6 DEF Clearing
<1>7. CASE Rereading
  <2>1. joinPc[t] \in {"recount R", "recopy R", "recount S", "recopy S"}
    BY <1>1, <1>7 DEF Rereading
  <2> QED
    BY <1>1, <1>7, <2>1 DEF Rereading
<1>8. CASE Joining
  BY <1>1, <1>8 DEF Joining
<1> QED
  BY <1>2, <1>3, <1>4, <1>5, <1>6, <1>7, <1>8 DEF PhaseInv

\* An era that begins with all threads awake.
LEMMA EraBegins ==
  ASSUME arrived' = {}, NEW a, NEW s, NEW b, s \subseteq a,
         \A u \in Threads : joinPc'[u] \in s
  PROVE  InEra(a, b)'
BY DEF InEra

-----------------------------------------------------------------------------
(***************************************************************************)
(* A pass.                                                                 *)
(***************************************************************************)
\* The places a thread goes through with a side.
Counting(x, here, there) ==
  <<x, here, there>> \in
    {<<"R", "count R", "copy R">>, <<"S", "count S", "copy S">>,
     <<"R", "recount R", "recopy R">>, <<"S", "recount S", "recopy S">>}
Copying(x, here, there) ==
  <<x, here, there>> \in
    {<<"R", "copy R", "count S">>, <<"S", "copy S", "prepare">>,
     <<"R", "recopy R", "recount S">>, <<"S", "recopy S", "skew tasks">>}

LEMMA PassPlaces ==
  /\ \A x, here, there : Counting(x, here, there) =>
       /\ here \in Places /\ there \in Places /\ x \in {"R", "S"}
       /\ \A y \in {"R", "S"} : /\ here \in CopiedAt(y) <=> there \in CopiedAt(y)
                                /\ y # x /\ there \in CountedAt(y) => here \in CountedAt(y)
  /\ \A x, here, there : Copying(x, here, there) =>
       /\ here \in Places /\ there \in Places /\ x \in {"R", "S"}
       /\ here \notin CopiedAt(x) /\ here \in CountedAt(x) /\ there \in CopiedAt(x)
       /\ \A y \in {"R", "S"} : /\ there \in CountedAt(y) => here \in CountedAt(y)
                                /\ y # x => (here \in CopiedAt(y) <=> there \in CopiedAt(y))
<1>1. ASSUME NEW x, NEW here, NEW there, Counting(x, here, there)
      PROVE  /\ here \in Places /\ there \in Places /\ x \in {"R", "S"}
             /\ \A y \in {"R", "S"} :
                  /\ here \in CopiedAt(y) <=> there \in CopiedAt(y)
                  /\ y # x /\ there \in CountedAt(y) => here \in CountedAt(y)
  BY <1>1 DEF Counting, Places, Reads, Skewing, CopiedAt, CountedAt
<1>2. ASSUME NEW x, NEW here, NEW there, Copying(x, here, there)
      PROVE  /\ here \in Places /\ there \in Places /\ x \in {"R", "S"}
             /\ here \notin CopiedAt(x) /\ here \in CountedAt(x) /\ there \in CopiedAt(x)
             /\ \A y \in {"R", "S"} :
                  /\ there \in CountedAt(y) => here \in CountedAt(y)
                  /\ y # x => (here \in CopiedAt(y) <=> there \in CopiedAt(y))
  BY <1>2 DEF Copying, Places, Reads, Skewing, CopiedAt, CountedAt
<1> QED
  BY <1>1, <1>2

\* The shares, the rows and what is in place stay while the relation does.
LEMMA SharesStay ==
  ASSUME joinRel' = joinRel
  PROVE  /\ \A x, clusters, t : ShareOf(x, clusters, t)' = ShareOf(x, clusters, t)
         /\ \A x : RowsOf(x)' = RowsOf(x)
         /\ \A x, clusters : Radix!PassRows(x, clusters)' = Radix!PassRows(x, clusters)
BY DEF ShareOf, RowsOf, Radix!Share, Radix!PassRows, Radix!Rows, Radix!First

LEMMA CountInPass ==
  ASSUME JoinTypes, NEW clusters, PassData(clusters), NEW t \in Threads,
         NEW x, NEW here, NEW there, Counting(x, here, there),
         Radix!Count(t, x, here, clusters, there)
  PROVE  /\ joinRel' = joinRel
         /\ counted' \in [{"R", "S"} -> [Threads -> SUBSET Nat]]
         /\ copied' = copied /\ skewTask' = skewTask
         /\ joinPc[t] = here /\ t \notin arrived /\ Radix!Arrive(t, there)
         /\ PassData(clusters)'
<1>1. /\ joinRel' = joinRel /\ copied' = copied /\ skewTask' = skewTask
      /\ joinPc[t] = here /\ t \notin arrived
      /\ Radix!Arrive(t, there)
      /\ counted' = [counted EXCEPT ![x][t] = ShareOf(x, clusters, t)]
  BY DEF Radix!Count, Radix!At, ShareOf
<1>2. joinPc' = [joinPc EXCEPT ![t] = there]
  BY <1>1 DEF Radix!Arrive
<1>3. x \in {"R", "S"} /\ joinRel \in Inputs /\ joinPc \in [Threads -> Places]
      /\ counted \in [{"R", "S"} -> [Threads -> SUBSET Nat]]
  BY PassPlaces DEF JoinTypes
<1>4. ShareOf(x, clusters, t) \in SUBSET Nat
  BY <1>3, SharesOfPass
<1>5. /\ counted' \in [{"R", "S"} -> [Threads -> SUBSET Nat]]
      /\ counted'[x][t] = ShareOf(x, clusters, t)
      /\ \A y \in {"R", "S"} : \A u \in Threads :
           y # x \/ u # t => counted'[y][u] = counted[y][u]
  BY <1>1, <1>3, <1>4
<1>6. /\ joinPc'[t] = there
      /\ \A u \in Threads : u # t => joinPc'[u] = joinPc[u]
  BY <1>2, <1>3
<1>7. /\ \A y \in {"R", "S"} : here \in CopiedAt(y) <=> there \in CopiedAt(y)
      /\ \A y \in {"R", "S"} : y # x /\ there \in CountedAt(y) => here \in CountedAt(y)
  BY PassPlaces
<1>8. /\ \A y, u : ShareOf(y, clusters, u)' = ShareOf(y, clusters, u)
      /\ \A y : RowsOf(y)' = RowsOf(y)
      /\ \A y : Radix!PassRows(y, clusters)' = Radix!PassRows(y, clusters)
  BY <1>1, SharesStay
<1>9. ASSUME NEW y \in {"R", "S"}
      PROVE  /\ copied'[y] \in SUBSET RowsOf(y)
             /\ \A row \in RowsOf(y) :
                  row \in copied'[y] <=>
                    \/ row \notin Radix!PassRows(y, clusters)
                    \/ \E u \in Threads : /\ joinPc'[u] \in CopiedAt(y)
                                          /\ row \in ShareOf(y, clusters, u)
             /\ \A u \in Threads :
                  joinPc'[u] \in CountedAt(y) => counted'[y][u] = ShareOf(y, clusters, u)
  <2>1. \A u \in Threads : joinPc'[u] \in CopiedAt(y) <=> joinPc[u] \in CopiedAt(y)
    BY <1>1, <1>6, <1>7
  <2>2. copied'[y] \in SUBSET RowsOf(y)
        /\ \A row \in RowsOf(y) :
             row \in copied'[y] <=>
               \/ row \notin Radix!PassRows(y, clusters)
               \/ \E u \in Threads : joinPc'[u] \in CopiedAt(y) /\ row \in ShareOf(y, clusters, u)
    BY <1>1, <2>1 DEF PassData
  <2>3. ASSUME NEW u \in Threads, joinPc'[u] \in CountedAt(y)
        PROVE  counted'[y][u] = ShareOf(y, clusters, u)
    <3>1. CASE y = x /\ u = t
      BY <1>5, <3>1
    <3>2. CASE y # x \/ u # t
      <4>1. counted'[y][u] = counted[y][u]
        BY <1>5, <3>2
      <4>2. joinPc[u] \in CountedAt(y)
        BY <1>1, <1>6, <1>7, <2>3, <3>2
      <4> QED
        BY <4>1, <4>2 DEF PassData
    <3> QED
      BY <3>1, <3>2
  <2> QED
    BY <2>2, <2>3
<1>10. PassData(clusters)'
  BY <1>8, <1>9 DEF PassData
<1> QED
  BY <1>1, <1>5, <1>10

LEMMA CopyInPass ==
  ASSUME JoinTypes, NEW clusters, PassData(clusters), NEW t \in Threads,
         NEW x, NEW here, NEW second, NEW there, Copying(x, here, there),
         Radix!Copy(t, x, here, second, there)
  PROVE  /\ joinRel' = joinRel /\ counted' = counted /\ skewTask' = skewTask
         /\ copied' \in [{"R", "S"} -> SUBSET Nat]
         /\ joinPc[t] = here /\ t \notin arrived
         /\ IF x = "R" THEN Radix!Goto(t, there) ELSE Radix!Arrive(t, there)
         /\ PassData(clusters)'
<1>1. /\ joinRel' = joinRel /\ counted' = counted /\ skewTask' = skewTask
      /\ joinPc[t] = here /\ t \notin arrived
      /\ IF x = "R" THEN Radix!Goto(t, there) ELSE Radix!Arrive(t, there)
      /\ copied' = [copied EXCEPT ![x] = @ \cup counted[x][t]]
  BY DEF Radix!Copy, Radix!At
<1>2. joinPc' = [joinPc EXCEPT ![t] = there]
  BY <1>1 DEF Radix!Arrive, Radix!Goto
<1>3. x \in {"R", "S"} /\ joinRel \in Inputs /\ joinPc \in [Threads -> Places]
      /\ copied \in [{"R", "S"} -> SUBSET Nat]
  BY PassPlaces DEF JoinTypes
<1>4. counted[x][t] = ShareOf(x, clusters, t)
  BY <1>1, <1>3, PassPlaces DEF PassData
<1>5. ShareOf(x, clusters, t) \in SUBSET Radix!PassRows(x, clusters)
      /\ ShareOf(x, clusters, t) \in SUBSET Nat
      /\ ShareOf(x, clusters, t) \in SUBSET RowsOf(x)
  BY <1>3, SharesOfPass
<1>6. /\ copied' \in [{"R", "S"} -> SUBSET Nat]
      /\ copied'[x] = copied[x] \cup ShareOf(x, clusters, t)
      /\ \A y \in {"R", "S"} : y # x => copied'[y] = copied[y]
  BY <1>1, <1>3, <1>4, <1>5
<1>7. /\ joinPc'[t] = there
      /\ \A u \in Threads : u # t => joinPc'[u] = joinPc[u]
  BY <1>2, <1>3
<1>8. /\ here \notin CopiedAt(x) /\ here \in CountedAt(x) /\ there \in CopiedAt(x)
      /\ \A y \in {"R", "S"} : there \in CountedAt(y) => here \in CountedAt(y)
      /\ \A y \in {"R", "S"} : y # x => (here \in CopiedAt(y) <=> there \in CopiedAt(y))
  BY PassPlaces
<1>9. /\ \A y, u : ShareOf(y, clusters, u)' = ShareOf(y, clusters, u)
      /\ \A y : RowsOf(y)' = RowsOf(y)
      /\ \A y : Radix!PassRows(y, clusters)' = Radix!PassRows(y, clusters)
  BY <1>1, SharesStay
<1>10. ASSUME NEW y \in {"R", "S"}
       PROVE  /\ copied'[y] \in SUBSET RowsOf(y)
              /\ \A row \in RowsOf(y) :
                   row \in copied'[y] <=>
                     \/ row \notin Radix!PassRows(y, clusters)
                     \/ \E u \in Threads : /\ joinPc'[u] \in CopiedAt(y)
                                           /\ row \in ShareOf(y, clusters, u)
              /\ \A u \in Threads :
                   joinPc'[u] \in CountedAt(y) => counted[y][u] = ShareOf(y, clusters, u)
  <2>1. copied[y] \in SUBSET RowsOf(y)
        /\ \A row \in RowsOf(y) :
             row \in copied[y] <=>
               \/ row \notin Radix!PassRows(y, clusters)
               \/ \E u \in Threads : joinPc[u] \in CopiedAt(y) /\ row \in ShareOf(y, clusters, u)
    BY DEF PassData
  <2>2. \A u \in Threads : joinPc'[u] \in CountedAt(y) => counted[y][u] = ShareOf(y, clusters, u)
    BY <1>1, <1>7, <1>8 DEF PassData
  <2>3. CASE y = x
    <3>1. \A u \in Threads :
            joinPc'[u] \in CopiedAt(y) <=> joinPc[u] \in CopiedAt(y) \/ u = t
      BY <1>1, <1>7, <1>8, <2>3
    <3> QED
      BY <1>5, <1>6, <2>1, <2>2, <2>3, <3>1
  <2>4. CASE y # x
    <3>1. \A u \in Threads : joinPc'[u] \in CopiedAt(y) <=> joinPc[u] \in CopiedAt(y)
      BY <1>1, <1>7, <1>8, <2>4
    <3> QED
      BY <1>6, <2>1, <2>2, <2>4, <3>1
  <2> QED
    BY <2>3, <2>4
<1>11. PassData(clusters)'
  BY <1>1, <1>9, <1>10 DEF PassData
<1> QED
  BY <1>1, <1>6, <1>11

\* When all threads are behind the pass, everything is in place.
LEMMA PassEnds ==
  ASSUME joinRel \in Inputs, joinRel' = joinRel, NEW clusters, PassData(clusters)',
         \A t \in Threads : joinPc'[t] \in CopiedAt("S")
  PROVE  Whole' /\ Shared(clusters)'
<1>1. \A t \in Threads : \A x \in {"R", "S"} :
        joinPc'[t] \in CopiedAt(x) /\ joinPc'[t] \in CountedAt(x)
  BY DEF CopiedAt, CountedAt
<1>2. Shared(clusters)'
  BY <1>1 DEF PassData, Shared
<1>3. ASSUME NEW x \in {"R", "S"} PROVE copied'[x] = RowsOf(x)'
  <2>1. \A row \in Radix!PassRows(x, clusters) :
          \E t \in Threads : row \in ShareOf(x, clusters, t)
    BY SharesOfPass
  <2>2. \A row \in Radix!PassRows(x, clusters)' :
          \E t \in Threads : row \in ShareOf(x, clusters, t)'
    BY <2>1, SharesStay
  <2> QED
    BY <1>1, <2>2 DEF PassData
<1> QED
  BY <1>2, <1>3 DEF Whole

\* Before a pass nothing of its clusters is in place.
LEMMA PassBegins ==
  ASSUME NEW clusters
  PROVE  /\ /\ \A x \in {"R", "S"} : copied[x] = RowsOf(x) \ Radix!PassRows(x, clusters)
            /\ \A t \in Threads : joinPc[t] \notin CountedAt("R") \cup CountedAt("S")
            => PassData(clusters)
         /\ /\ \A x \in {"R", "S"} : copied'[x] = RowsOf(x)' \ Radix!PassRows(x, clusters)'
            /\ \A t \in Threads : joinPc'[t] \notin CountedAt("R") \cup CountedAt("S")
            => PassData(clusters)'
<1>1. ASSUME \A t \in Threads : joinPc[t] \notin CountedAt("R") \cup CountedAt("S")
      PROVE  \A t \in Threads : \A x \in {"R", "S"} :
               joinPc[t] \notin CopiedAt(x) /\ joinPc[t] \notin CountedAt(x)
  BY <1>1 DEF CopiedAt, CountedAt
<1>2. ASSUME \A t \in Threads : joinPc'[t] \notin CountedAt("R") \cup CountedAt("S")
      PROVE  \A t \in Threads : \A x \in {"R", "S"} :
               joinPc'[t] \notin CopiedAt(x) /\ joinPc'[t] \notin CountedAt(x)
  BY <1>2 DEF CopiedAt, CountedAt
<1> QED
  BY <1>1, <1>2 DEF PassData

-----------------------------------------------------------------------------
(***************************************************************************)
(* Every step of a thread leads from an era to itself or to the next one.  *)
(***************************************************************************)
LEMMA PhaseBegins ==
  ASSUME Radix!Init
  PROVE  PhaseInv
<1>1. /\ joinRel \in Inputs /\ joinPc = [t \in Threads |-> "start"] /\ arrived = {}
      /\ counted = [x \in {"R", "S"} |-> [t \in Threads |-> {}]]
      /\ copied = [x \in {"R", "S"} |-> {}]
  BY JoinOptions DEF Radix!Init, Radix!Sides
<1>2. JoinTypes
  <2>1. arrived \in SUBSET Threads /\ arrived # Threads
    BY <1>1, JoinOptions
  <2>2. joinPc \in [Threads -> Places]
    BY <1>1 DEF Places, Reads
  <2>3. counted \in [{"R", "S"} -> [Threads -> SUBSET Nat]]
    BY <1>1
  <2>4. copied \in [{"R", "S"} -> SUBSET Nat]
    BY <1>1
  <2> QED
    BY <1>1, <2>1, <2>2, <2>3, <2>4 DEF JoinTypes
<1>3. InEra({"start"}, {"count R"})
  BY <1>1 DEF InEra
<1>4. \A x \in {"R", "S"} : copied[x] = RowsOf(x) \ Radix!PassRows(x, Groups)
  BY <1>1, SharesOfPass
<1>5. \A t \in Threads : joinPc[t] \notin CountedAt("R") \cup CountedAt("S")
  BY <1>1 DEF CountedAt, CopiedAt
<1>6. PassData(Groups)
  BY <1>4, <1>5, PassBegins
<1> QED
  BY <1>2, <1>3, <1>6 DEF PhaseInv, Reading

LEMMA TypesStay ==
  ASSUME JoinTypes, joinRel' = joinRel, joinPc' \in [Threads -> Places],
         arrived' \in SUBSET Threads, arrived' # Threads,
         counted' \in [{"R", "S"} -> [Threads -> SUBSET Nat]],
         copied' \in [{"R", "S"} -> SUBSET Nat]
  PROVE  JoinTypes'
BY DEF JoinTypes

\* What is in place stays when no thread copies.
LEMMA PlacedStays ==
  ASSUME joinRel' = joinRel, counted' = counted, copied' = copied
  PROVE  /\ Whole => Whole'
         /\ \A clusters : Shared(clusters) => Shared(clusters)'
<1>1. Whole => Whole'
  BY DEF Whole, RowsOf
<1>2. ASSUME NEW clusters, Shared(clusters) PROVE Shared(clusters)'
  BY <1>2, SharesStay DEF Shared
<1> QED
  BY <1>1, <1>2

LEMMA StartKeepsPhase ==
  ASSUME PhaseInv, NEW t \in Threads, Radix!Start(t)
  PROVE  PhaseInv'
<1>1. /\ joinPc[t] = "start" /\ t \notin arrived /\ Radix!Arrive(t, "count R")
      /\ joinRel' = joinRel /\ counted' = counted /\ copied' = copied
  BY DEF Radix!Start, Radix!At
<1>2. InEra({"start"}, {"count R"}) /\ PassData(Groups) /\ JoinTypes
  BY <1>1, AwakeTells DEF PhaseInv
<1>3. "count R" \in Places
  BY DEF Places, Reads
<1>4. /\ joinPc' \in [Threads -> Places]
      /\ arrived' \in SUBSET Threads /\ arrived' # Threads
      /\ \/ InEra({"start"}, {"count R"})'
         \/ arrived' = {} /\ \A u \in Threads : joinPc'[u] \in {"count R"}
  BY <1>1, <1>2, <1>3, ArriveInEra
<1>5. JoinTypes'
  BY <1>1, <1>2, <1>4, TypesStay DEF JoinTypes
<1>6. PassData(Groups)'
  <2>1. \A u \in Threads : joinPc[u] \in {"start", "count R"}
    BY <1>2 DEF InEra
  <2>2. \A u \in Threads : joinPc'[u] \in {"start", "count R"}
    BY <1>4 DEF InEra
  <2>3. /\ \A u \in Threads : joinPc[u] \notin CountedAt("R") \cup CountedAt("S")
        /\ \A u \in Threads : joinPc'[u] \notin CountedAt("R") \cup CountedAt("S")
    BY <2>1, <2>2 DEF CopiedAt, CountedAt
  <2>4. \A x \in {"R", "S"} : copied[x] = RowsOf(x) \ Radix!PassRows(x, Groups)
    <3>1. \A x \in {"R", "S"} : \A u \in Threads : joinPc[u] \notin CopiedAt(x)
      BY <2>3 DEF CountedAt, CopiedAt
    <3> QED
      BY <1>2, <3>1 DEF PassData
  <2>5. \A x \in {"R", "S"} : copied'[x] = RowsOf(x)' \ Radix!PassRows(x, Groups)'
    <3> SUFFICES ASSUME NEW x \in {"R", "S"}
                 PROVE  copied'[x] = RowsOf(x)' \ Radix!PassRows(x, Groups)'
      OBVIOUS
    <3>1. RowsOf(x)' = RowsOf(x)
      BY <1>1, SharesStay
    <3>2. Radix!PassRows(x, Groups)' = Radix!PassRows(x, Groups)
      BY <1>1, SharesStay
    <3>3. copied'[x] = copied[x] /\ copied[x] = RowsOf(x) \ Radix!PassRows(x, Groups)
      BY <1>1, <2>4
    <3> QED
      BY <3>1, <3>2, <3>3
  <2> QED
    BY <2>3, <2>5, PassBegins
<1>7. Reading'
  <2>1. CASE InEra({"start"}, {"count R"})'
    BY <1>6, <2>1 DEF Reading
  <2>2. CASE arrived' = {} /\ \A u \in Threads : joinPc'[u] \in {"count R"}
    <3>1. InEra({"count R"}, {"copy R"})'
      BY <2>2, EraBegins
    <3> QED
      BY <1>6, <3>1 DEF Reading
  <2> QED
    BY <1>4, <2>1, <2>2
<1> QED
  BY <1>5, <1>7 DEF PhaseInv

LEMMA FirstCountKeepsPhase ==
  ASSUME PhaseInv, NEW t \in Threads, NEW x, NEW here, NEW there,
         Counting(x, here, there), here \in Reads,
         Radix!Count(t, x, here, Groups, there)
  PROVE  PhaseInv'
<1>0. \/ x = "R" /\ here = "count R" /\ there = "copy R"
      \/ x = "S" /\ here = "count S" /\ there = "copy S"
  BY DEF Counting, Reads
<1>1. joinPc[t] = here /\ t \notin arrived
  BY DEF Radix!Count, Radix!At
<1> DEFINE a == IF x = "R" THEN {"count R"} ELSE {"copy R", "count S"}
           b == IF x = "R" THEN {"copy R", "count S"} ELSE {"copy S"}
           c == IF x = "R" THEN {"copy S"} ELSE {"prepare"}
<1>2. InEra(a, {there}) /\ PassData(Groups) /\ JoinTypes
  <2>1. PassData(Groups) /\ JoinTypes
    BY <1>0, <1>1, AwakeTells DEF PhaseInv
  <2>2. CASE x = "R"
    BY <1>0, <1>1, <2>1, <2>2, AwakeTells
  <2>3. CASE x = "S"
    BY <1>0, <1>1, <2>1, <2>3, AwakeTells
  <2> QED
    BY <1>0, <2>2, <2>3
<1>3. /\ joinRel' = joinRel
      /\ counted' \in [{"R", "S"} -> [Threads -> SUBSET Nat]]
      /\ copied' = copied
      /\ Radix!Arrive(t, there)
      /\ PassData(Groups)'
  BY <1>1, <1>2, CountInPass
<1>4. there \in Places /\ {there} \subseteq b
  BY <1>0, PassPlaces
<1>5. /\ joinPc' \in [Threads -> Places]
      /\ arrived' \in SUBSET Threads /\ arrived' # Threads
      /\ \/ InEra(a, {there})'
         \/ arrived' = {} /\ \A u \in Threads : joinPc'[u] \in {there}
  <2> HIDE DEF a
  <2> QED
    BY <1>1, <1>2, <1>3, <1>4, ArriveInEra
<1>6. JoinTypes'
  BY <1>2, <1>3, <1>5, TypesStay DEF JoinTypes
<1>7. InEra(a, {there})' \/ InEra(b, c)'
  <2> HIDE DEF a, b, c
  <2> QED
    BY <1>4, <1>5, EraBegins
<1>8. Reading'
  <2>1. CASE x = "R"
    <3>1. there = "copy R"
      BY <1>0, <2>1
    <3>2. InEra({"count R"}, {"copy R"})' \/ InEra({"copy R", "count S"}, {"copy S"})'
      BY <1>7, <2>1, <3>1
    <3> QED
      BY <1>3, <3>2 DEF Reading
  <2>2. CASE x = "S"
    <3>1. there = "copy S"
      BY <1>0, <2>2
    <3>2. InEra({"copy R", "count S"}, {"copy S"})' \/ InEra({"copy S"}, {"prepare"})'
      BY <1>7, <2>2, <3>1
    <3> QED
      BY <1>3, <3>2 DEF Reading
  <2> QED
    BY <1>0, <2>1, <2>2
<1> QED
  BY <1>6, <1>8 DEF PhaseInv

LEMMA FirstCopyKeepsPhase ==
  ASSUME PhaseInv, NEW t \in Threads, NEW x, NEW here, NEW there,
         Copying(x, here, there), here \in Reads,
         Radix!Copy(t, x, here, FALSE, there)
  PROVE  PhaseInv'
<1>0. \/ x = "R" /\ here = "copy R" /\ there = "count S"
      \/ x = "S" /\ here = "copy S" /\ there = "prepare"
  BY DEF Copying, Reads
<1>1. joinPc[t] = here /\ t \notin arrived
  BY DEF Radix!Copy, Radix!At
<1>2. PassData(Groups) /\ JoinTypes
  BY <1>0, <1>1, AwakeTells DEF PhaseInv
<1>3. /\ joinRel' = joinRel /\ counted' = counted
      /\ copied' \in [{"R", "S"} -> SUBSET Nat]
      /\ IF x = "R" THEN Radix!Goto(t, there) ELSE Radix!Arrive(t, there)
      /\ PassData(Groups)'
  BY <1>1, <1>2, CopyInPass
<1>4. there \in Places
  BY PassPlaces
<1>5. CASE x = "R"
  <2>1. InEra({"copy R", "count S"}, {"copy S"}) /\ Radix!Goto(t, there) /\ there = "count S"
    BY <1>0, <1>1, <1>3, <1>5, AwakeTells
  <2>2. /\ joinPc' \in [Threads -> Places] /\ arrived' = arrived
        /\ InEra({"copy R", "count S"}, {"copy S"})'
    BY <1>1, <1>2, <1>4, <2>1, GotoInEra
  <2>3. JoinTypes'
    BY <1>2, <1>3, <2>2, TypesStay DEF JoinTypes
  <2> QED
    BY <1>3, <2>2, <2>3 DEF PhaseInv, Reading
<1>6. CASE x = "S"
  <2>1. InEra({"copy S"}, {"prepare"}) /\ Radix!Arrive(t, there) /\ there = "prepare"
    BY <1>0, <1>1, <1>3, <1>6, AwakeTells
  <2>2. /\ joinPc' \in [Threads -> Places]
        /\ arrived' \in SUBSET Threads /\ arrived' # Threads
        /\ \/ InEra({"copy S"}, {"prepare"})'
           \/ arrived' = {} /\ \A u \in Threads : joinPc'[u] \in {"prepare"}
    BY <1>1, <1>2, <1>4, <2>1, ArriveInEra
  <2>3. JoinTypes'
    BY <1>2, <1>3, <2>2, TypesStay DEF JoinTypes
  <2>4. CASE InEra({"copy S"}, {"prepare"})'
    BY <1>3, <2>3, <2>4 DEF PhaseInv, Reading
  <2>5. CASE arrived' = {} /\ \A u \in Threads : joinPc'[u] \in {"prepare"}
    <3>1. \A u \in Threads : joinPc'[u] \in CopiedAt("S")
      BY <2>5 DEF CopiedAt
    <3>2. Whole' /\ Shared(Groups)'
      BY <1>2, <1>3, <3>1, PassEnds DEF JoinTypes
    <3>3. InEra({"prepare"}, {"divide"})'
      BY <2>5, EraBegins
    <3> QED
      BY <2>3, <3>2, <3>3 DEF PhaseInv, Preparing
  <2> QED
    BY <2>2, <2>4, <2>5
<1> QED
  BY <1>0, <1>5, <1>6

LEMMA PrepareKeepsPhase ==
  ASSUME PhaseInv, joinPc[0] \notin Skewing => skewTask = None,
         NEW t \in Threads, Radix!Prepare(t)
  PROVE  PhaseInv'
<1>1. /\ joinPc[t] = "prepare" /\ t \notin arrived /\ Radix!Arrive(t, "divide")
      /\ joinRel' = joinRel /\ counted' = counted /\ copied' = copied /\ skewTask' = skewTask
  BY DEF Radix!Prepare, Radix!At
<1>2. InEra({"prepare"}, {"divide"}) /\ Whole /\ Shared(Groups) /\ JoinTypes
  BY <1>1, AwakeTells DEF PhaseInv, Preparing
<1>3. "divide" \in Places
  BY DEF Places
<1>4. /\ joinPc' \in [Threads -> Places]
      /\ arrived' \in SUBSET Threads /\ arrived' # Threads
      /\ \/ InEra({"prepare"}, {"divide"})'
         \/ arrived' = {} /\ \A u \in Threads : joinPc'[u] \in {"divide"}
  BY <1>1, <1>2, <1>3, ArriveInEra
<1>5. JoinTypes'
  BY <1>1, <1>2, <1>4, TypesStay DEF JoinTypes
<1>6. Whole' /\ Shared(Groups)'
  BY <1>1, <1>2, PlacedStays
<1>7. CASE InEra({"prepare"}, {"divide"})'
  BY <1>5, <1>6, <1>7 DEF PhaseInv, Preparing
<1>8. CASE arrived' = {} /\ \A u \in Threads : joinPc'[u] \in {"divide"}
  <2>1. CASE joinRel.skew
    <3>1. InEra({"divide", "skew tasks", "skew"}, {"skew task"})'
      BY <1>8, EraBegins
    <3>2. joinPc'[0] # "skew tasks"
      BY <1>8, JoinOptions
    <3> QED
      BY <1>1, <1>5, <1>6, <2>1, <3>1, <3>2 DEF PhaseInv, Tasking
  <2>2. CASE ~joinRel.skew
    <3>1. InEra({"divide", "collect"}, {"join"})'
      BY <1>8, EraBegins
    <3>2. joinPc[0] \in {"prepare", "divide"}
      BY <1>2, JoinOptions DEF InEra
    <3>3. skewTask' = None
      BY <1>1, <3>2 DEF Skewing
    <3> QED
      BY <1>1, <1>5, <1>6, <2>2, <3>1, <3>3 DEF PhaseInv, Collecting
  <2> QED
    BY <2>1, <2>2
<1> QED
  BY <1>4, <1>7, <1>8

LEMMA DivideKeepsPhase ==
  ASSUME PhaseInv, NEW t \in Threads, Radix!Divide(t)
  PROVE  PhaseInv'
<1> DEFINE next == IF joinRel.skew THEN "skew" ELSE "collect"
<1>1. /\ joinPc[t] = "divide" /\ t \notin arrived
      /\ joinRel' = joinRel /\ counted' = counted /\ copied' = copied /\ skewTask' = skewTask
      /\ (joinPc' = joinPc /\ arrived' = arrived) \/ Radix!Goto(t, next)
  BY DEF Radix!Divide, Radix!At, Radix!SkewHandling
<1>2. JoinTypes /\ Whole /\ IF joinRel.skew THEN Tasking ELSE Collecting
  BY <1>1, AwakeTells DEF PhaseInv, Tasking, Collecting
<1>3. Whole' /\ \A c : Shared({c}) => Shared({c})'
  BY <1>1, <1>2, PlacedStays
<1> DEFINE a == IF joinRel.skew THEN {"divide", "skew tasks", "skew"}
                ELSE {"divide", "collect"}
           s == IF joinRel.skew THEN {"skew task"} ELSE {"join"}
<1>4. InEra(a, s)
  BY <1>2 DEF Tasking, Collecting
<1>5. next \in a /\ next \in Places /\ next # "skew tasks"
  BY DEF Places, Skewing, Tasked
<1>6. /\ joinPc' \in [Threads -> Places] /\ arrived' = arrived
      /\ \A u \in Threads : joinPc'[u] \in {joinPc[u], next}
      /\ \A e, f : e = a /\ f = s => InEra(e, f)'
  <2> HIDE DEF next, a, s
  <2>1. PICK e, f : e = a /\ f = s
    OBVIOUS
  <2>2. CASE joinPc' = joinPc /\ arrived' = arrived
    <3>1. InEra(e, f)'
      BY <1>4, <2>1, <2>2 DEF InEra
    <3> QED
      BY <1>2, <2>1, <2>2, <3>1 DEF JoinTypes
  <2>3. CASE Radix!Goto(t, next)
    <3>1. PICK p : p = next
      OBVIOUS
    <3>2. Radix!Goto(t, p) /\ InEra(e, f) /\ p \in e /\ p \in Places
      BY <1>4, <1>5, <2>1, <2>3, <3>1
    <3>3. /\ joinPc' \in [Threads -> Places] /\ joinPc'[t] = p
          /\ \A u \in Threads : u # t => joinPc'[u] = joinPc[u]
          /\ arrived' = arrived
          /\ InEra(e, f)'
      BY <1>1, <1>2, <3>2, GotoInEra
    <3> QED
      BY <2>1, <3>1, <3>3
  <2> QED
    BY <1>1, <2>2, <2>3
<1>7. JoinTypes'
  BY <1>1, <1>2, <1>6, TypesStay DEF JoinTypes
<1>8. CASE joinRel.skew
  <2>1. InEra({"divide", "skew tasks", "skew"}, {"skew task"})'
    BY <1>6, <1>8
  <2>2. joinPc'[0] = "skew tasks" => \E c \in Groups : skewTask' = c /\ Shared({c})'
    <3>1. joinPc'[0] = "skew tasks" => joinPc[0] = "skew tasks"
      BY <1>5, <1>6, JoinOptions
    <3> QED
      BY <1>1, <1>2, <1>3, <1>8, <3>1 DEF Tasking
  <2> QED
    BY <1>1, <1>3, <1>7, <1>8, <2>1, <2>2 DEF PhaseInv, Tasking
<1>9. CASE ~joinRel.skew
  <2>1. InEra({"divide", "collect"}, {"join"})' /\ skewTask' = None
    BY <1>1, <1>2, <1>6, <1>9 DEF Collecting
  <2> QED
    BY <1>1, <1>3, <1>7, <1>9, <2>1 DEF PhaseInv, Collecting
<1> QED
  BY <1>8, <1>9

LEMMA NextSkewTaskKeepsPhase ==
  ASSUME PhaseInv, NEW t \in Threads, Radix!NextSkewTask(t),
         skewTask \in Groups \cup {None}, skewQueue \in Seq(Groups)
  PROVE  PhaseInv'
<1>1. /\ joinPc[t] = "skew" /\ t \notin arrived /\ Radix!Arrive(t, "skew task")
      /\ joinRel' = joinRel /\ counted' = counted /\ copied' = copied
      /\ IF t # 0 THEN skewTask' = skewTask
         ELSE IF skewQueue = <<>> THEN skewTask' = None ELSE skewTask' = Head(skewQueue)
  BY DEF Radix!NextSkewTask, Radix!At
<1>2. JoinTypes /\ Tasking
  BY <1>1, AwakeTells DEF PhaseInv
<1>3. joinRel.skew /\ Whole /\ InEra({"divide", "skew tasks", "skew"}, {"skew task"})
  BY <1>2 DEF Tasking
<1>4. Whole' /\ \A c : Shared({c}) => Shared({c})'
  BY <1>1, <1>3, PlacedStays
<1>5. skewTask' \in Groups \cup {None}
  <2>1. skewQueue # <<>> => Head(skewQueue) \in Groups
    OBVIOUS
  <2> QED
    BY <1>1, <2>1
<1>6. "skew task" \in Places
  BY DEF Places, Skewing
<1>7. /\ joinPc' \in [Threads -> Places]
      /\ arrived' \in SUBSET Threads /\ arrived' # Threads
      /\ \/ InEra({"divide", "skew tasks", "skew"}, {"skew task"})'
         \/ arrived' = {} /\ \A u \in Threads : joinPc'[u] \in {"skew task"}
  BY <1>1, <1>2, <1>3, <1>6, ArriveInEra
<1>11. joinPc'[t] = "skew task" /\ \A u \in Threads : u # t => joinPc'[u] = joinPc[u]
  BY <1>1, <1>2 DEF Radix!Arrive, JoinTypes
<1>8. JoinTypes'
  BY <1>1, <1>2, <1>7, TypesStay DEF JoinTypes
<1>9. CASE InEra({"divide", "skew tasks", "skew"}, {"skew task"})'
  <2>1. joinPc'[0] = "skew tasks" => \E c \in Groups : skewTask' = c /\ Shared({c})'
    <3>1. CASE t = 0
      BY <1>11, <3>1
    <3>2. CASE t # 0
      <4>1. joinPc'[0] = joinPc[0] /\ skewTask' = skewTask
        BY <1>1, <1>11, <3>2, JoinOptions
      <4> QED
        BY <1>2, <1>4, <4>1 DEF Tasking
    <3> QED
      BY <3>1, <3>2
  <2> QED
    BY <1>1, <1>3, <1>4, <1>8, <1>9, <2>1 DEF PhaseInv, Tasking
<1>10. CASE arrived' = {} /\ \A u \in Threads : joinPc'[u] \in {"skew task"}
  <2>1. CASE skewTask' = None
    <3>1. InEra({"skew task", "collect"}, {"join"})'
      BY <1>10, EraBegins
    <3> QED
      BY <1>1, <1>3, <1>4, <1>8, <2>1, <3>1 DEF PhaseInv, Collecting
  <2>2. CASE skewTask' \in Groups
    <3>1. InEra({"skew task"}, {"recount R"})'
      BY <1>10, EraBegins
    <3> QED
      BY <1>1, <1>3, <1>4, <1>8, <1>10, <2>2, <3>1 DEF PhaseInv, Clearing
  <2> QED
    BY <1>5, <2>1, <2>2
<1> QED
  BY <1>7, <1>9, <1>10

LEMMA SkewTaskKeepsPhase ==
  ASSUME PhaseInv, NEW t \in Threads, Radix!SkewTask(t)
  PROVE  PhaseInv'
<1>1. /\ joinPc[t] = "skew task" /\ t \notin arrived
      /\ joinRel' = joinRel /\ skewTask' = skewTask
      /\ IF skewTask = None
         THEN Radix!Goto(t, "collect") /\ counted' = counted /\ copied' = copied
         ELSE /\ counted' = [x \in {"R", "S"} |-> [counted[x] EXCEPT ![t] = {}]]
              /\ copied' = [x \in {"R", "S"} |->
                              {row \in copied[x] : Radix!First(row, x) # skewTask}]
              /\ Radix!Arrive(t, "recount R")
  BY DEF Radix!SkewTask, Radix!At, Radix!Sides
<1>2. JoinTypes /\ ((joinRel.skew /\ Collecting) \/ Clearing)
  BY <1>1, AwakeTells DEF PhaseInv
<1>3. CASE joinRel.skew /\ Collecting
  <2>1. skewTask = None /\ Whole /\ InEra({"skew task", "collect"}, {"join"})
    BY <1>3 DEF Collecting
  <2>2. Radix!Goto(t, "collect") /\ counted' = counted /\ copied' = copied
    BY <1>1, <2>1
  <2>3. Whole'
    BY <1>1, <2>1, <2>2, PlacedStays
  <2>4. "collect" \in Places
    BY DEF Places, Tasked
  <2>5. /\ joinPc' \in [Threads -> Places] /\ arrived' = arrived
        /\ InEra({"skew task", "collect"}, {"join"})'
    BY <1>1, <1>2, <2>1, <2>2, <2>4, GotoInEra
  <2>6. JoinTypes'
    BY <1>1, <1>2, <2>2, <2>5, TypesStay DEF JoinTypes
  <2> QED
    BY <1>1, <1>3, <2>1, <2>3, <2>5, <2>6 DEF PhaseInv, Collecting
<1>4. CASE Clearing
  <2>1. PICK c \in Groups : skewTask = c /\ IF arrived = {} THEN Whole ELSE Cleared(c)
    BY <1>4 DEF Clearing
  <2>2. joinRel.skew /\ InEra({"skew task"}, {"recount R"}) /\ skewTask # None
    BY <1>4, <2>1, JoinOptions DEF Clearing
  <2>3. /\ counted' = [x \in {"R", "S"} |-> [counted[x] EXCEPT ![t] = {}]]
        /\ copied' = [x \in {"R", "S"} |-> {row \in copied[x] : Radix!First(row, x) # c}]
        /\ Radix!Arrive(t, "recount R")
    BY <1>1, <2>1, <2>2
  <2>4. "recount R" \in Places
    BY DEF Places, Skewing
  <2>5. /\ joinPc' \in [Threads -> Places]
        /\ arrived' \in SUBSET Threads /\ arrived' # Threads
        /\ \/ InEra({"skew task"}, {"recount R"})' /\ arrived' = arrived \cup {t}
           \/ arrived' = {} /\ \A u \in Threads : joinPc'[u] \in {"recount R"}
    BY <1>1, <1>2, <2>2, <2>3, <2>4, ArriveInEra
  <2>6. counted' \in [{"R", "S"} -> [Threads -> SUBSET Nat]]
        /\ copied' \in [{"R", "S"} -> SUBSET Nat]
    BY <1>2, <2>3 DEF JoinTypes
  <2>7. JoinTypes'
    BY <1>1, <1>2, <2>5, <2>6, TypesStay
  <2>8. \A x \in {"R", "S"} : copied'[x] = RowsOf(x) \ Radix!PassRows(x, {c})
    <3> SUFFICES ASSUME NEW x \in {"R", "S"}
                 PROVE  copied'[x] = RowsOf(x) \ Radix!PassRows(x, {c})
      OBVIOUS
    <3>1. Radix!PassRows(x, {c}) = {row \in RowsOf(x) : Radix!First(row, x) = c}
      BY DEF Radix!PassRows, Radix!Rows, RowsOf
    <3>2. copied[x] = RowsOf(x) \/ copied[x] = RowsOf(x) \ Radix!PassRows(x, {c})
      BY <2>1 DEF Whole, Cleared
    <3> QED
      BY <2>3, <3>1, <3>2
  <2>9. \A x \in {"R", "S"} : copied'[x] = RowsOf(x)' \ Radix!PassRows(x, {c})'
    <3> SUFFICES ASSUME NEW x \in {"R", "S"}
                 PROVE  copied'[x] = RowsOf(x)' \ Radix!PassRows(x, {c})'
      OBVIOUS
    <3>1. RowsOf(x)' = RowsOf(x)
      BY <1>1, SharesStay
    <3>2. Radix!PassRows(x, {c})' = Radix!PassRows(x, {c})
      BY <1>1, SharesStay
    <3> QED
      BY <2>8, <3>1, <3>2
  <2>10. CASE InEra({"skew task"}, {"recount R"})' /\ arrived' = arrived \cup {t}
    <3>1. Cleared(c)' /\ arrived' # {}
      BY <2>9, <2>10 DEF Cleared
    <3> QED
      BY <1>1, <2>1, <2>2, <2>7, <2>10, <3>1 DEF PhaseInv, Clearing
  <2>11. CASE arrived' = {} /\ \A u \in Threads : joinPc'[u] \in {"recount R"}
    <3>1. InEra({"recount R"}, {"recopy R"})'
      BY <2>11, EraBegins
    <3>2. \A u \in Threads : joinPc'[u] \notin CountedAt("R") \cup CountedAt("S")
      BY <2>11 DEF CountedAt, CopiedAt
    <3>3. PassData({c})'
      BY <2>9, <3>2, PassBegins
    <3> QED
      BY <1>1, <2>1, <2>2, <2>7, <3>1, <3>3 DEF PhaseInv, Rereading
  <2> QED
    BY <2>5, <2>10, <2>11
<1> QED
  BY <1>2, <1>3, <1>4

LEMMA SecondCountKeepsPhase ==
  ASSUME PhaseInv, NEW t \in Threads, NEW x, NEW here, NEW there,
         Counting(x, here, there), here \in Skewing,
         Radix!Count(t, x, here, {skewTask}, there)
  PROVE  PhaseInv'
<1>0. \/ x = "R" /\ here = "recount R" /\ there = "recopy R"
      \/ x = "S" /\ here = "recount S" /\ there = "recopy S"
  BY DEF Counting, Skewing
<1>1. joinPc[t] = here /\ t \notin arrived
  BY DEF Radix!Count, Radix!At
<1> DEFINE a == IF x = "R" THEN {"recount R"} ELSE {"recopy R", "recount S"}
           b == IF x = "R" THEN {"recopy R", "recount S"} ELSE {"recopy S"}
           e == IF x = "R" THEN {"recopy S"} ELSE {"skew tasks"}
<1>2. InEra(a, {there}) /\ Rereading /\ JoinTypes
  <2>1. Rereading /\ JoinTypes
    BY <1>0, <1>1, AwakeTells DEF PhaseInv
  <2>2. CASE x = "R"
    BY <1>0, <1>1, <2>1, <2>2, AwakeTells
  <2>3. CASE x = "S"
    BY <1>0, <1>1, <2>1, <2>3, AwakeTells
  <2> QED
    BY <1>0, <2>2, <2>3
<1>3. PICK c \in Groups : skewTask = c /\ PassData({c})
  BY <1>2 DEF Rereading
<1>4. Radix!Count(t, x, here, {c}, there)
  BY <1>3
<1>5. /\ joinRel' = joinRel /\ skewTask' = skewTask
      /\ counted' \in [{"R", "S"} -> [Threads -> SUBSET Nat]]
      /\ copied' = copied
      /\ Radix!Arrive(t, there)
      /\ PassData({c})'
  BY <1>1, <1>2, <1>3, <1>4, CountInPass
<1>6. there \in Places /\ {there} \subseteq b
  BY <1>0, PassPlaces
<1>7. /\ joinPc' \in [Threads -> Places]
      /\ arrived' \in SUBSET Threads /\ arrived' # Threads
      /\ \/ InEra(a, {there})'
         \/ arrived' = {} /\ \A u \in Threads : joinPc'[u] \in {there}
  <2> HIDE DEF a
  <2> QED
    BY <1>1, <1>2, <1>5, <1>6, ArriveInEra
<1>8. JoinTypes'
  BY <1>2, <1>5, <1>7, TypesStay DEF JoinTypes
<1>9. InEra(a, {there})' \/ InEra(b, e)'
  <2> HIDE DEF a, b, e
  <2> QED
    BY <1>6, <1>7, EraBegins
<1>10. joinRel'.skew
  BY <1>2, <1>5 DEF Rereading
<1>11. \E d \in Groups : skewTask' = d /\ PassData({d})'
  BY <1>3, <1>5
<1>12. Rereading'
  <2>1. CASE x = "R"
    <3>1. there = "recopy R"
      BY <1>0, <2>1
    <3>2. InEra({"recount R"}, {"recopy R"})' \/ InEra({"recopy R", "recount S"}, {"recopy S"})'
      BY <1>9, <2>1, <3>1
    <3> QED
      BY <1>10, <1>11, <3>2 DEF Rereading
  <2>2. CASE x = "S"
    <3>1. there = "recopy S"
      BY <1>0, <2>2
    <3>2. InEra({"recopy R", "recount S"}, {"recopy S"})' \/ InEra({"recopy S"}, {"skew tasks"})'
      BY <1>9, <2>2, <3>1
    <3> QED
      BY <1>10, <1>11, <3>2 DEF Rereading
  <2> QED
    BY <1>0, <2>1, <2>2
<1> QED
  BY <1>8, <1>12 DEF PhaseInv

LEMMA SecondCopyKeepsPhase ==
  ASSUME PhaseInv, NEW t \in Threads, NEW x, NEW here, NEW there,
         Copying(x, here, there), here \in Skewing,
         Radix!Copy(t, x, here, TRUE, there)
  PROVE  PhaseInv'
<1>0. \/ x = "R" /\ here = "recopy R" /\ there = "recount S"
      \/ x = "S" /\ here = "recopy S" /\ there = "skew tasks"
  BY DEF Copying, Skewing
<1>1. joinPc[t] = here /\ t \notin arrived
  BY DEF Radix!Copy, Radix!At
<1>2. Rereading /\ JoinTypes
  BY <1>0, <1>1, AwakeTells DEF PhaseInv
<1>3. PICK c \in Groups : skewTask = c /\ PassData({c})
  BY <1>2 DEF Rereading
<1>4. /\ joinRel' = joinRel /\ counted' = counted /\ skewTask' = skewTask
      /\ copied' \in [{"R", "S"} -> SUBSET Nat]
      /\ IF x = "R" THEN Radix!Goto(t, there) ELSE Radix!Arrive(t, there)
      /\ PassData({c})'
  BY <1>1, <1>2, <1>3, CopyInPass
<1>5. there \in Places
  BY PassPlaces
<1>6. joinRel'.skew /\ \E d \in Groups : skewTask' = d /\ PassData({d})'
  BY <1>2, <1>3, <1>4 DEF Rereading
<1>7. CASE x = "R"
  <2>1. InEra({"recopy R", "recount S"}, {"recopy S"}) /\ Radix!Goto(t, there)
        /\ there = "recount S"
    BY <1>0, <1>1, <1>4, <1>7, AwakeTells
  <2>2. /\ joinPc' \in [Threads -> Places] /\ arrived' = arrived
        /\ InEra({"recopy R", "recount S"}, {"recopy S"})'
    BY <1>1, <1>2, <1>5, <2>1, GotoInEra
  <2>3. JoinTypes'
    BY <1>2, <1>4, <2>2, TypesStay DEF JoinTypes
  <2> QED
    BY <1>6, <2>2, <2>3 DEF PhaseInv, Rereading
<1>8. CASE x = "S"
  <2>1. InEra({"recopy S"}, {"skew tasks"}) /\ Radix!Arrive(t, there) /\ there = "skew tasks"
    BY <1>0, <1>1, <1>4, <1>8, AwakeTells
  <2>2. /\ joinPc' \in [Threads -> Places]
        /\ arrived' \in SUBSET Threads /\ arrived' # Threads
        /\ \/ InEra({"recopy S"}, {"skew tasks"})'
           \/ arrived' = {} /\ \A u \in Threads : joinPc'[u] \in {"skew tasks"}
    BY <1>1, <1>2, <1>5, <2>1, ArriveInEra
  <2>3. JoinTypes'
    BY <1>2, <1>4, <2>2, TypesStay DEF JoinTypes
  <2>4. CASE InEra({"recopy S"}, {"skew tasks"})'
    BY <1>6, <2>3, <2>4 DEF PhaseInv, Rereading
  <2>5. CASE arrived' = {} /\ \A u \in Threads : joinPc'[u] \in {"skew tasks"}
    <3>1. \A u \in Threads : joinPc'[u] \in CopiedAt("S")
      BY <2>5 DEF CopiedAt
    <3>2. Whole' /\ Shared({c})'
      BY <1>2, <1>4, <3>1, PassEnds DEF JoinTypes
    <3>3. InEra({"divide", "skew tasks", "skew"}, {"skew task"})'
      BY <2>5, EraBegins
    <3>4. \E d \in Groups : skewTask' = d /\ Shared({d})'
      BY <1>3, <1>4, <3>2
    <3> QED
      BY <1>6, <2>3, <3>2, <3>3, <3>4 DEF PhaseInv, Tasking
  <2> QED
    BY <2>2, <2>4, <2>5
<1> QED
  BY <1>0, <1>7, <1>8

LEMMA SkewTasksKeepsPhase ==
  ASSUME PhaseInv, NEW t \in Threads, Radix!SkewTasks(t)
  PROVE  PhaseInv'
<1>1. /\ joinPc[t] = "skew tasks" /\ t \notin arrived /\ Radix!Goto(t, "skew")
      /\ joinRel' = joinRel /\ counted' = counted /\ copied' = copied /\ skewTask' = skewTask
  BY DEF Radix!SkewTasks, Radix!At
<1>2. JoinTypes /\ Tasking
  BY <1>1, AwakeTells DEF PhaseInv
<1>3. joinRel.skew /\ Whole /\ InEra({"divide", "skew tasks", "skew"}, {"skew task"})
  BY <1>2 DEF Tasking
<1>4. Whole' /\ \A c : Shared({c}) => Shared({c})'
  BY <1>1, <1>3, PlacedStays
<1>5. "skew" \in Places
  BY DEF Places, Skewing
<1>6. /\ joinPc' \in [Threads -> Places] /\ joinPc'[t] = "skew"
      /\ \A u \in Threads : u # t => joinPc'[u] = joinPc[u]
      /\ arrived' = arrived
      /\ InEra({"divide", "skew tasks", "skew"}, {"skew task"})'
  BY <1>1, <1>2, <1>3, <1>5, GotoInEra
<1>7. JoinTypes'
  BY <1>1, <1>2, <1>6, TypesStay DEF JoinTypes
<1>8. joinPc'[0] = "skew tasks" => \E c \in Groups : skewTask' = c /\ Shared({c})'
  <2>1. joinPc'[0] = "skew tasks" => joinPc[0] = "skew tasks"
    BY <1>6, JoinOptions
  <2> QED
    BY <1>1, <1>2, <1>4, <2>1 DEF Tasking
<1> QED
  BY <1>1, <1>3, <1>4, <1>6, <1>7, <1>8 DEF PhaseInv, Tasking

LEMMA CollectKeepsPhase ==
  ASSUME PhaseInv, NEW t \in Threads, Radix!Collect(t)
  PROVE  PhaseInv'
<1>1. /\ joinPc[t] = "collect" /\ t \notin arrived /\ Radix!Arrive(t, "join")
      /\ joinRel' = joinRel /\ counted' = counted /\ copied' = copied /\ skewTask' = skewTask
  BY DEF Radix!Collect, Radix!At
<1>2. JoinTypes /\ Collecting
  BY <1>1, AwakeTells DEF PhaseInv
<1>3. PICK a : a = {IF joinRel.skew THEN "skew task" ELSE "divide", "collect"}
  OBVIOUS
<1>4. skewTask = None /\ Whole /\ InEra(a, {"join"})
  BY <1>2, <1>3 DEF Collecting
<1>5. Whole'
  BY <1>1, <1>4, PlacedStays
<1>6. "join" \in Places
  BY DEF Places, Tasked
<1>7. /\ joinPc' \in [Threads -> Places]
      /\ arrived' \in SUBSET Threads /\ arrived' # Threads
      /\ \/ InEra(a, {"join"})'
         \/ arrived' = {} /\ \A u \in Threads : joinPc'[u] \in {"join"}
  BY <1>1, <1>2, <1>4, <1>6, ArriveInEra
<1>8. JoinTypes'
  BY <1>1, <1>2, <1>7, TypesStay DEF JoinTypes
<1>9. CASE InEra(a, {"join"})'
  <2>1. a = {IF joinRel'.skew THEN "skew task" ELSE "divide", "collect"}
    BY <1>1, <1>3
  <2> QED
    BY <1>1, <1>4, <1>5, <1>8, <1>9, <2>1 DEF PhaseInv, Collecting
<1>10. CASE arrived' = {} /\ \A u \in Threads : joinPc'[u] \in {"join"}
  <2>1. InEra({"join"}, {"done"})'
    BY <1>10, EraBegins
  <2> QED
    BY <1>5, <1>8, <2>1 DEF PhaseInv, Joining
<1> QED
  BY <1>7, <1>9, <1>10

LEMMA JoinKeepsPhase ==
  ASSUME PhaseInv, NEW t \in Threads, Radix!Join(t)
  PROVE  PhaseInv'
<1>1. /\ joinPc[t] = "join" /\ t \notin arrived
      /\ joinRel' = joinRel /\ counted' = counted /\ copied' = copied
      /\ (joinPc' = joinPc /\ arrived' = arrived) \/ Radix!Arrive(t, "done")
  BY DEF Radix!Join, Radix!At
<1>2. JoinTypes /\ InEra({"join"}, {"done"}) /\ Whole
  BY <1>1, AwakeTells DEF PhaseInv
<1>3. Whole'
  BY <1>1, <1>2, PlacedStays
<1>4. CASE joinPc' = joinPc /\ arrived' = arrived
  <2>1. JoinTypes'
    BY <1>1, <1>2, <1>4, TypesStay DEF JoinTypes
  <2>2. InEra({"join"}, {"done"})'
    BY <1>2, <1>4 DEF InEra
  <2> QED
    BY <1>3, <2>1, <2>2 DEF PhaseInv, Joining
<1>5. CASE Radix!Arrive(t, "done")
  <2>1. "done" \in Places
    BY DEF Places, Tasked
  <2>2. /\ joinPc' \in [Threads -> Places]
        /\ arrived' \in SUBSET Threads /\ arrived' # Threads
        /\ \/ InEra({"join"}, {"done"})'
           \/ arrived' = {} /\ \A u \in Threads : joinPc'[u] \in {"done"}
    BY <1>1, <1>2, <1>5, <2>1, ArriveInEra
  <2>3. JoinTypes'
    BY <1>1, <1>2, <2>2, TypesStay DEF JoinTypes
  <2>4. InEra({"join"}, {"done"})' \/ InEra({"done"}, {})'
    BY <2>2, EraBegins
  <2> QED
    BY <1>3, <2>3, <2>4 DEF PhaseInv, Joining
<1> QED
  BY <1>1, <1>4, <1>5

\* What the queues must hold for a step to keep the eras.
SkewReady ==
  /\ joinPc[0] \notin Skewing => skewTask = None
  /\ skewTask \in Groups \cup {None} /\ skewQueue \in Seq(Groups)

LEMMA StepKeepsPhase ==
  ASSUME PhaseInv, SkewReady, NEW t \in Threads, Radix!Step(t)
  PROVE  PhaseInv'
<1>1. CASE Radix!Start(t)
  BY <1>1, StartKeepsPhase
<1>2. CASE Radix!FirstPass(t)
  <2>1. CASE Radix!Count(t, "R", "count R", Groups, "copy R")
    <3>1. Counting("R", "count R", "copy R") /\ "count R" \in Reads
      BY DEF Counting, Reads
    <3> QED
      BY <2>1, <3>1, FirstCountKeepsPhase
  <2>2. CASE Radix!Copy(t, "R", "copy R", FALSE, "count S")
    <3>1. Copying("R", "copy R", "count S") /\ "copy R" \in Reads
      BY DEF Copying, Reads
    <3> QED
      BY <2>2, <3>1, FirstCopyKeepsPhase
  <2>3. CASE Radix!Count(t, "S", "count S", Groups, "copy S")
    <3>1. Counting("S", "count S", "copy S") /\ "count S" \in Reads
      BY DEF Counting, Reads
    <3> QED
      BY <2>3, <3>1, FirstCountKeepsPhase
  <2>4. CASE Radix!Copy(t, "S", "copy S", FALSE, "prepare")
    <3>1. Copying("S", "copy S", "prepare") /\ "copy S" \in Reads
      BY DEF Copying, Reads
    <3> QED
      BY <2>4, <3>1, FirstCopyKeepsPhase
  <2> QED
    BY <1>2, <2>1, <2>2, <2>3, <2>4, JoinOptions DEF Radix!FirstPass
<1>3. CASE Radix!Prepare(t)
  BY <1>3, PrepareKeepsPhase DEF SkewReady
<1>4. CASE Radix!Divide(t)
  BY <1>4, DivideKeepsPhase
<1>5. CASE Radix!NextSkewTask(t)
  BY <1>5, NextSkewTaskKeepsPhase DEF SkewReady
<1>6. CASE Radix!SkewTask(t)
  BY <1>6, SkewTaskKeepsPhase
<1>7. CASE Radix!SecondPass(t)
  <2>1. CASE Radix!Count(t, "R", "recount R", {skewTask}, "recopy R")
    <3>1. Counting("R", "recount R", "recopy R") /\ "recount R" \in Skewing
      BY DEF Counting, Skewing
    <3> QED
      BY <2>1, <3>1, SecondCountKeepsPhase
  <2>2. CASE Radix!Copy(t, "R", "recopy R", TRUE, "recount S")
    <3>1. Copying("R", "recopy R", "recount S") /\ "recopy R" \in Skewing
      BY DEF Copying, Skewing
    <3> QED
      BY <2>2, <3>1, SecondCopyKeepsPhase
  <2>3. CASE Radix!Count(t, "S", "recount S", {skewTask}, "recopy S")
    <3>1. Counting("S", "recount S", "recopy S") /\ "recount S" \in Skewing
      BY DEF Counting, Skewing
    <3> QED
      BY <2>3, <3>1, SecondCountKeepsPhase
  <2>4. CASE Radix!Copy(t, "S", "recopy S", TRUE, "skew tasks")
    <3>1. Copying("S", "recopy S", "skew tasks") /\ "recopy S" \in Skewing
      BY DEF Copying, Skewing
    <3> QED
      BY <2>4, <3>1, SecondCopyKeepsPhase
  <2> QED
    BY <1>7, <2>1, <2>2, <2>3, <2>4 DEF Radix!SecondPass
<1>8. CASE Radix!SkewTasks(t)
  BY <1>8, SkewTasksKeepsPhase
<1>9. CASE Radix!Collect(t)
  BY <1>9, CollectKeepsPhase
<1>10. CASE Radix!Join(t)
  BY <1>10, JoinKeepsPhase
<1> QED
  BY <1>1, <1>2, <1>3, <1>4, <1>5, <1>6, <1>7, <1>8, <1>9, <1>10 DEF Radix!Step

-----------------------------------------------------------------------------
(***************************************************************************)
(* What there is to find: the matches of clusters and of their cells.      *)
(***************************************************************************)
PairsOf(r, s) == {p \in r \X s : joinRel["R"][p[1]] = joinRel["S"][p[2]]}
AllPairs == PairsOf(RowsOf("R"), RowsOf("S"))
Cell(x, c, d) == {row \in RowsOf(x) : joinRel[x][row] = <<c, d>>}
InGroup(x, c) == {row \in RowsOf(x) : joinRel[x][row][1] = c}

JoinTasks == [R : (SUBSET RowsOf("R")) \ {{}}, S : SUBSET RowsOf("S")]
GroupWeight == [c \in Groups |-> Cardinality(PairsOf(InGroup("R", c), InGroup("S", c)))]
TaskWeight == [task \in JoinTasks |-> Cardinality(PairsOf(task.R, task.S))]
CellWeight(c) == [d \in Groups |-> Cardinality(PairsOf(Cell("R", c, d), Cell("S", c, d)))]

LEMMA PairsArePairs ==
  /\ \A r, s : /\ Radix!Pairs(r, s) = PairsOf(r, s)
               /\ Radix!Matches(r, s) = Cardinality(PairsOf(r, s))
  /\ \A x, c : Radix!PassRows(x, {c}) = InGroup(x, c)
  /\ \A c : Radix!MatchesOf(c) = Cardinality(PairsOf(InGroup("R", c), InGroup("S", c)))
  /\ Radix!Expected = Cardinality(AllPairs)
<1>1. \A r, s : Radix!Pairs(r, s) = PairsOf(r, s)
  BY DEF Radix!Pairs, PairsOf
<1>2. \A r, s : Radix!Matches(r, s) = Cardinality(PairsOf(r, s))
  BY <1>1 DEF Radix!Matches, Radix!Cardinality, Cardinality
<1>3. \A x, c : Radix!PassRows(x, {c}) = InGroup(x, c)
  BY DEF Radix!PassRows, Radix!Rows, Radix!First, RowsOf, InGroup
<1>4. \A c : Radix!MatchesOf(c) = Cardinality(PairsOf(InGroup("R", c), InGroup("S", c)))
  BY <1>2, <1>3 DEF Radix!MatchesOf
<1>5. Radix!Expected = Cardinality(AllPairs)
  BY <1>2 DEF Radix!Expected, AllPairs, Radix!Rows, RowsOf
<1> QED
  BY <1>1, <1>2, <1>3, <1>4, <1>5

LEMMA MatchesAreFinite ==
  ASSUME joinRel \in Inputs, NEW r \in SUBSET RowsOf("R"), NEW s \in SUBSET RowsOf("S")
  PROVE  /\ IsFiniteSet(PairsOf(r, s)) /\ Cardinality(PairsOf(r, s)) \in Nat
         /\ PairsOf(r, s) \in SUBSET AllPairs /\ IsFiniteSet(AllPairs)
         /\ r = {} \/ s = {} => Cardinality(PairsOf(r, s)) = 0
<1>1. IsFiniteSet(RowsOf("R")) /\ IsFiniteSet(RowsOf("S"))
  BY RowsAreNumbers
<1>2. IsFiniteSet(RowsOf("R") \X RowsOf("S"))
  BY <1>1, FS_Product
<1>3. AllPairs \in SUBSET (RowsOf("R") \X RowsOf("S"))
  BY DEF AllPairs, PairsOf
<1>4. IsFiniteSet(AllPairs)
  BY <1>2, <1>3, FS_Subset
<1>5. PairsOf(r, s) \in SUBSET AllPairs
  BY DEF AllPairs, PairsOf
<1>6. IsFiniteSet(PairsOf(r, s)) /\ Cardinality(PairsOf(r, s)) \in Nat
  BY <1>4, <1>5, FS_Subset, FS_CardinalityType
<1>7. ASSUME r = {} \/ s = {} PROVE Cardinality(PairsOf(r, s)) = 0
  <2>1. PairsOf(r, s) = {}
    BY <1>7 DEF PairsOf
  <2> QED
    BY <2>1, FS_EmptySet
<1> QED
  BY <1>4, <1>5, <1>6, <1>7

LEMMA PairHasCell ==
  ASSUME joinRel \in Inputs, NEW p \in AllPairs
  PROVE  \E c, d \in Groups : p \in PairsOf(Cell("R", c, d), Cell("S", c, d))
<1>1. /\ p \in RowsOf("R") \X RowsOf("S") /\ joinRel["R"][p[1]] = joinRel["S"][p[2]]
      /\ p[1] \in RowsOf("R") /\ p[2] \in RowsOf("S") /\ p = <<p[1], p[2]>>
  BY DEF AllPairs, PairsOf
<1>2. joinRel["R"][p[1]] \in Groups \X Groups
  BY <1>1, RowsAreNumbers
<1>3. PICK c, d \in Groups : joinRel["R"][p[1]] = <<c, d>>
  BY <1>2
<1>4. p[1] \in Cell("R", c, d) /\ p[2] \in Cell("S", c, d)
  BY <1>1, <1>3 DEF Cell
<1> QED
  BY <1>1, <1>4 DEF PairsOf

LEMMA CellsAreRows ==
  /\ \A x, c : InGroup(x, c) \in SUBSET RowsOf(x)
  /\ \A x, c, d : Cell(x, c, d) \in SUBSET RowsOf(x) /\ Cell(x, c, d) \in SUBSET InGroup(x, c)
BY DEF InGroup, Cell

\* The matches of the join are those of the clusters.
LEMMA GroupsAddUp ==
  ASSUME joinRel \in Inputs
  PROVE  /\ \A c \in Groups : GroupWeight[c] \in Nat
         /\ TotalOf(GroupWeight, Groups) = Radix!Expected
<1> DEFINE D == [c \in Groups |-> PairsOf(InGroup("R", c), InGroup("S", c))]
<1>1. \A c \in Groups : /\ D[c] \in SUBSET AllPairs /\ IsFiniteSet(AllPairs)
                        /\ GroupWeight[c] = Cardinality(D[c]) /\ GroupWeight[c] \in Nat
  BY CellsAreRows, MatchesAreFinite DEF GroupWeight
<1>2. IsFiniteSet(AllPairs)
  BY MatchesAreFinite
<1>3. \A c, e \in Groups : c # e => D[c] \cap D[e] = {}
  <2> SUFFICES ASSUME NEW c \in Groups, NEW e \in Groups, NEW p \in D[c], p \in D[e]
               PROVE  c = e
    OBVIOUS
  <2>1. p[1] \in InGroup("R", c) /\ p[1] \in InGroup("R", e)
    BY DEF PairsOf
  <2> QED
    BY <2>1 DEF InGroup
<1>4. UNION {D[c] : c \in Groups} = AllPairs
  <2>1. ASSUME NEW p \in AllPairs PROVE \E c \in Groups : p \in D[c]
    <3>1. PICK c, d \in Groups : p \in PairsOf(Cell("R", c, d), Cell("S", c, d))
      BY PairHasCell
    <3>2. p \in PairsOf(InGroup("R", c), InGroup("S", c))
      BY <3>1, CellsAreRows DEF PairsOf
    <3> QED
      BY <3>2
  <2> HIDE DEF D
  <2>2. \A p \in UNION {D[c] : c \in Groups} : p \in AllPairs
    BY <1>1
  <2>3. \A p \in AllPairs : p \in UNION {D[c] : c \in Groups}
    BY <2>1
  <2> QED
    BY <2>2, <2>3
<1>5. TotalOf(GroupWeight, Groups) = Cardinality(UNION {D[c] : c \in Groups})
  <2> HIDE DEF D
  <2> QED
    BY <1>1, <1>2, <1>3, GroupsAreFinite, TotalOfSizes
<1> QED
  BY <1>1, <1>4, <1>5, PairsArePairs

\* The matches of a cluster are those of its cells.
LEMMA CellsAddUp ==
  ASSUME joinRel \in Inputs, NEW c \in Groups
  PROVE  /\ \A d \in Groups : CellWeight(c)[d] \in Nat
         /\ TotalOf(CellWeight(c), Groups) = GroupWeight[c]
<1> DEFINE D == [d \in Groups |-> PairsOf(Cell("R", c, d), Cell("S", c, d))]
           P == PairsOf(InGroup("R", c), InGroup("S", c))
<1>1. IsFiniteSet(P) /\ P \in SUBSET AllPairs
  BY CellsAreRows, MatchesAreFinite
<1>2. \A d \in Groups : /\ D[d] \in SUBSET P
                        /\ CellWeight(c)[d] = Cardinality(D[d]) /\ CellWeight(c)[d] \in Nat
  <2> SUFFICES ASSUME NEW d \in Groups
               PROVE  /\ D[d] \in SUBSET P
                      /\ CellWeight(c)[d] = Cardinality(D[d]) /\ CellWeight(c)[d] \in Nat
    OBVIOUS
  <2>1. Cardinality(PairsOf(Cell("R", c, d), Cell("S", c, d))) \in Nat
    BY CellsAreRows, MatchesAreFinite
  <2>2. PairsOf(Cell("R", c, d), Cell("S", c, d)) \in SUBSET P
    BY CellsAreRows DEF PairsOf
  <2> QED
    BY <2>1, <2>2 DEF CellWeight
<1>3. \A d, e \in Groups : d # e => D[d] \cap D[e] = {}
  <2> SUFFICES ASSUME NEW d \in Groups, NEW e \in Groups, NEW p \in D[d], p \in D[e]
               PROVE  d = e
    OBVIOUS
  <2>1. p[1] \in Cell("R", c, d) /\ p[1] \in Cell("R", c, e)
    BY DEF PairsOf
  <2>2. <<c, d>> = <<c, e>>
    BY <2>1 DEF Cell
  <2> QED
    BY <2>2
<1>4. UNION {D[d] : d \in Groups} = P
  <2>1. ASSUME NEW p \in P PROVE \E d \in Groups : p \in D[d]
    <3>1. p \in AllPairs
      BY <1>1
    <3>2. PICK b, d \in Groups : p \in PairsOf(Cell("R", b, d), Cell("S", b, d))
      BY <3>1, PairHasCell
    <3>3. p[1] \in InGroup("R", c) /\ p[1] \in Cell("R", b, d)
      BY <3>2 DEF PairsOf
    <3>4. b = c
      BY <3>3 DEF InGroup, Cell
    <3> QED
      BY <3>2, <3>4
  <2> HIDE DEF D, P
  <2>2. \A p \in UNION {D[d] : d \in Groups} : p \in P
    BY <1>2
  <2>3. \A p \in P : p \in UNION {D[d] : d \in Groups}
    BY <2>1
  <2> QED
    BY <2>2, <2>3
<1>5. PICK w : w = CellWeight(c)
  OBVIOUS
<1>6. TotalOf(w, Groups) = Cardinality(UNION {D[d] : d \in Groups})
  <2> HIDE DEF D, P
  <2> QED
    BY <1>1, <1>2, <1>3, <1>5, GroupsAreFinite, TotalOfSizes
<1>7. GroupWeight[c] = Cardinality(P)
  BY DEF GroupWeight
<1> QED
  BY <1>2, <1>4, <1>5, <1>6, <1>7

\* The matches of a task are those of the shares of it.
LEMMA SharesAddUp ==
  ASSUME joinRel \in Inputs, NEW r \in SUBSET RowsOf("R"), NEW s \in SUBSET RowsOf("S"),
         NEW w, \A t \in Threads : w[t] = Cardinality(PairsOf(r, Radix!Share(s, t)))
  PROVE  /\ \A t \in Threads : w[t] \in Nat
         /\ TotalOf(w, Threads) = Cardinality(PairsOf(r, s))
<1> DEFINE D == [t \in Threads |-> PairsOf(r, Radix!Share(s, t))]
           P == PairsOf(r, s)
<1>1. /\ \A t : Radix!Share(s, t) \in SUBSET s
      /\ \A i \in s : \E t \in Threads : i \in Radix!Share(s, t)
      /\ \A t, u \in Threads : t # u => Radix!Share(s, t) \cap Radix!Share(s, u) = {}
  <2>1. s \in SUBSET Nat /\ IsFiniteSet(s)
    BY RowsAreNumbers, FS_Subset
  <2> QED
    BY <2>1, SharesCover
<1>2. IsFiniteSet(P)
  BY MatchesAreFinite
<1>3. \A t \in Threads : /\ D[t] \in SUBSET P
                         /\ w[t] = Cardinality(D[t]) /\ w[t] \in Nat
  <2> SUFFICES ASSUME NEW t \in Threads
               PROVE  D[t] \in SUBSET P /\ w[t] = Cardinality(D[t]) /\ w[t] \in Nat
    OBVIOUS
  <2>1. Radix!Share(s, t) \in SUBSET s /\ Radix!Share(s, t) \in SUBSET RowsOf("S")
    BY <1>1
  <2>2. Cardinality(PairsOf(r, Radix!Share(s, t))) \in Nat
    BY <2>1, MatchesAreFinite
  <2>3. PairsOf(r, Radix!Share(s, t)) \in SUBSET P
    BY <2>1 DEF PairsOf
  <2> QED
    BY <2>2, <2>3
<1>4. \A t, u \in Threads : t # u => D[t] \cap D[u] = {}
  <2> SUFFICES ASSUME NEW t \in Threads, NEW u \in Threads, t # u, NEW p \in D[t], p \in D[u]
               PROVE  FALSE
    OBVIOUS
  <2>1. p[2] \in Radix!Share(s, t) /\ p[2] \in Radix!Share(s, u)
    BY DEF PairsOf
  <2> QED
    BY <1>1, <2>1
<1>5. UNION {D[t] : t \in Threads} = P
  <2>1. ASSUME NEW p \in P PROVE \E t \in Threads : p \in D[t]
    <3>1. p[1] \in r /\ p[2] \in s /\ p = <<p[1], p[2]>>
          /\ joinRel["R"][p[1]] = joinRel["S"][p[2]]
      BY DEF PairsOf
    <3>2. PICK t \in Threads : p[2] \in Radix!Share(s, t)
      BY <1>1, <3>1
    <3> QED
      BY <3>1, <3>2 DEF PairsOf
  <2> HIDE DEF D, P
  <2>2. \A p \in UNION {D[t] : t \in Threads} : p \in P
    BY <1>3
  <2>3. \A p \in P : p \in UNION {D[t] : t \in Threads}
    BY <2>1
  <2> QED
    BY <2>2, <2>3
<1>6. TotalOf(w, Threads) = Cardinality(UNION {D[t] : t \in Threads})
  <2> HIDE DEF D, P
  <2> QED
    BY <1>2, <1>3, <1>4, ThreadsAreFinite, TotalOfSizes
<1> QED
  BY <1>3, <1>5, <1>6

-----------------------------------------------------------------------------
(***************************************************************************)
(* The tasks of a cluster.                                                 *)
(***************************************************************************)
LEMMA PartIsCell ==
  ASSUME joinRel \in Inputs, Whole
  PROVE  \A c, d : /\ Radix!Part("R", c, d) = Cell("R", c, d)
                   /\ Radix!Part("S", c, d) = Cell("S", c, d)
<1>1. ASSUME NEW x \in {"R", "S"}, NEW c, NEW d
      PROVE  Radix!Part(x, c, d) = Cell(x, c, d)
  <2>1. Radix!Part(x, c, d) =
          {row \in RowsOf(x) : joinRel[x][row][1] = c /\ joinRel[x][row][2] = d}
    BY DEF Radix!Part, Radix!First, Radix!Second, Whole
  <2>2. \A row \in RowsOf(x) : joinRel[x][row] = <<joinRel[x][row][1], joinRel[x][row][2]>>
    <3>1. \A row \in RowsOf(x) : joinRel[x][row] \in Groups \X Groups
      BY RowsAreNumbers
    <3> QED
      BY <3>1
  <2>3. \A row \in RowsOf(x) :
          joinRel[x][row][1] = c /\ joinRel[x][row][2] = d <=> joinRel[x][row] = <<c, d>>
    BY <2>2
  <2> QED
    BY <2>1, <2>3 DEF Cell
<1> QED
  BY <1>1

LEMMA TaskWeightIsNat ==
  ASSUME joinRel \in Inputs
  PROVE  \A task \in JoinTasks : TaskWeight[task] \in Nat
<1> SUFFICES ASSUME NEW task \in JoinTasks PROVE TaskWeight[task] \in Nat
  OBVIOUS
<1>1. task.R \in SUBSET RowsOf("R") /\ task.S \in SUBSET RowsOf("S")
  BY DEF JoinTasks
<1>2. Cardinality(PairsOf(task.R, task.S)) \in Nat
  BY <1>1, MatchesAreFinite
<1> QED
  BY <1>2 DEF TaskWeight

LEMMA TasksOfHold ==
  ASSUME joinRel \in Inputs, Whole, NEW c \in Groups, NEW D \in SUBSET Groups,
         \A d \in D : Cell("R", c, d) # {}
  PROVE  /\ Radix!TasksOf(c, D) \in Seq(JoinTasks)
         /\ QueueTotal(TaskWeight, Radix!TasksOf(c, D)) = TotalOf(CellWeight(c), D)
<1> DEFINE n == Cardinality(D)
           q == Radix!Stacked(D)
           tasks == Radix!TasksOf(c, D)
           one(d) == [R |-> Cell("R", c, d), S |-> Cell("S", c, d)]
<1>1. /\ IsFiniteSet(D) /\ q \in Seq(D) /\ Len(q) = n /\ n \in Nat
      /\ \A k, l \in 1 .. n : q[k] = q[l] => k = l
      /\ \A d \in D : \E k \in 1 .. n : q[k] = d
  BY StackedHolds
<1>2. tasks = [k \in 1 .. n |-> one(q[k])]
  <2>1. \A d : Radix!Task(Radix!Part("R", c, d), Radix!Part("S", c, d)) = one(d)
    BY PartIsCell DEF Radix!Task
  <2>2. tasks = [k \in 1 .. n |->
                   Radix!Task(Radix!Part("R", c, q[k]), Radix!Part("S", c, q[k]))]
    BY DEF Radix!TasksOf, Radix!Cardinality, Cardinality
  <2> QED
    BY <2>1, <2>2
<1>3. \A d \in D : one(d) \in JoinTasks /\ TaskWeight[one(d)] = CellWeight(c)[d]
                   /\ CellWeight(c)[d] \in Nat
  <2> SUFFICES ASSUME NEW d \in D
               PROVE  one(d) \in JoinTasks /\ TaskWeight[one(d)] = CellWeight(c)[d]
                      /\ CellWeight(c)[d] \in Nat
    OBVIOUS
  <2>1. Cell("R", c, d) \in (SUBSET RowsOf("R")) \ {{}} /\ Cell("S", c, d) \in SUBSET RowsOf("S")
    BY CellsAreRows
  <2>2. one(d) \in JoinTasks
    BY <2>1 DEF JoinTasks
  <2>3. TaskWeight[one(d)] = Cardinality(PairsOf(Cell("R", c, d), Cell("S", c, d)))
    BY <2>2 DEF TaskWeight
  <2>4. d \in Groups
    OBVIOUS
  <2> QED
    BY <2>2, <2>3, <2>4, CellsAddUp DEF CellWeight
<1> HIDE DEF n, q, tasks, one
<1>4. DOMAIN q = 1 .. n /\ \A k \in 1 .. n : q[k] \in D
  BY <1>1
<1>5. tasks \in Seq(JoinTasks) /\ DOMAIN tasks = 1 .. n
  <2>1. \A k \in 1 .. n : one(q[k]) \in JoinTasks
    BY <1>3, <1>4
  <2> QED
    BY <1>1, <1>2, <2>1
<1>6. PICK w : w = CellWeight(c)
  OBVIOUS
<1>7. QueueTotal(TaskWeight, tasks) = QueueTotal(w, q)
  <2> DEFINE f == [k \in DOMAIN tasks |-> TaskWeight[tasks[k]]]
             g == [k \in DOMAIN q |-> w[q[k]]]
  <2>1. \A k \in 1 .. n : f[k] = g[k]
    BY <1>2, <1>3, <1>4, <1>5, <1>6
  <2>2. IsFiniteSet(1 .. n)
    BY <1>1, FS_Interval
  <2> HIDE DEF f, g
  <2>3. TotalOf(f, 1 .. n) = TotalOf(g, 1 .. n)
    BY <2>1, <2>2, TotalsAgree
  <2> QED
    BY <1>4, <1>5, <2>3 DEF QueueTotal, f, g
<1>8. QueueTotal(w, q) = TotalOf(w, D)
  BY <1>1, <1>3, <1>6, QueueOfSet
<1> QED
  BY <1>5, <1>6, <1>7, <1>8 DEF tasks

LEMMA EmptyCells ==
  ASSUME joinRel \in Inputs, NEW c \in Groups, NEW d \in Groups,
         Cell("R", c, d) = {} \/ Cell("S", c, d) = {}
  PROVE  CellWeight(c)[d] = 0
<1>1. Cardinality(PairsOf(Cell("R", c, d), Cell("S", c, d))) = 0
  BY CellsAreRows, MatchesAreFinite
<1> QED
  BY <1>1 DEF CellWeight

\* The tasks that a thread makes of a cluster have all its matches.
LEMMA SerialTasksHold ==
  ASSUME joinRel \in Inputs, Whole, NEW c \in Groups
  PROVE  /\ Radix!SerialTasks(c) \in Seq(JoinTasks)
         /\ QueueTotal(TaskWeight, Radix!SerialTasks(c)) = GroupWeight[c]
<1> DEFINE D == {d \in Groups : Radix!BothSides(c, d)}
<1>1. \A d : Radix!BothSides(c, d) <=> Cell("R", c, d) # {} /\ Cell("S", c, d) # {}
  BY PartIsCell DEF Radix!BothSides
<1>2. D \in SUBSET Groups /\ \A d \in D : Cell("R", c, d) # {}
  BY <1>1
<1>3. Radix!SerialTasks(c) = Radix!TasksOf(c, D)
  BY JoinOptions DEF Radix!SerialTasks
<1>4. PICK w : w = CellWeight(c)
  OBVIOUS
<1>5. \A d \in Groups : w[d] \in Nat
  BY <1>4, CellsAddUp
<1>6. \A d \in Groups \ D : w[d] = 0
  BY <1>1, <1>4, EmptyCells
<1> HIDE DEF D
<1>7. TotalOf(w, Groups) = TotalOf(w, D)
  <2>1. \A d \in D : w[d] \in Nat
    BY <1>2, <1>5
  <2> QED
    BY <1>2, <1>6, <2>1, GroupsAreFinite, TotalOnPart
<1>8. /\ Radix!TasksOf(c, D) \in Seq(JoinTasks)
      /\ QueueTotal(TaskWeight, Radix!TasksOf(c, D)) = TotalOf(w, D)
  BY <1>2, <1>4, TasksOfHold
<1>9. TotalOf(w, Groups) = GroupWeight[c]
  BY <1>4, CellsAddUp
<1> QED
  BY <1>3, <1>7, <1>8, <1>9

\* The tasks that a large task is divided into have its matches.
LEMMA SharedTasksHold ==
  ASSUME joinRel \in Inputs, NEW task \in JoinTasks
  PROVE  /\ Radix!SharedTasks(task.R, task.S) \in Seq(JoinTasks)
         /\ QueueTotal(TaskWeight, Radix!SharedTasks(task.R, task.S)) = TaskWeight[task]
<1> DEFINE one(t) == [R |-> task.R, S |-> Radix!Share(task.S, t)]
           f == [t \in Threads |-> Cardinality(PairsOf(task.R, Radix!Share(task.S, t)))]
           tasks == Radix!SharedTasks(task.R, task.S)
<1>1. /\ task.R \in (SUBSET RowsOf("R")) \ {{}} /\ task.S \in SUBSET RowsOf("S")
      /\ NThreads \in Nat \ {0}
  BY SizesArePositive DEF JoinTasks
<1>2. tasks = [k \in 1 .. NThreads |-> one(NThreads - k)]
  BY DEF Radix!SharedTasks, Radix!Task
<1>3. \A t \in Threads : one(t) \in JoinTasks /\ TaskWeight[one(t)] = f[t]
  <2> SUFFICES ASSUME NEW t \in Threads
               PROVE  one(t) \in JoinTasks /\ TaskWeight[one(t)] = f[t]
    OBVIOUS
  <2>1. Radix!Share(task.S, t) \in SUBSET task.S
    BY DEF Radix!Share
  <2>2. Radix!Share(task.S, t) \in SUBSET RowsOf("S")
    BY <1>1, <2>1
  <2>3. one(t) \in JoinTasks
    BY <1>1, <2>2 DEF JoinTasks
  <2> QED
    BY <2>3 DEF TaskWeight
<1>4. (\A t \in Threads : f[t] \in Nat)
      /\ TotalOf(f, Threads) = Cardinality(PairsOf(task.R, task.S))
  <2>1. \A t \in Threads : f[t] = Cardinality(PairsOf(task.R, Radix!Share(task.S, t)))
    OBVIOUS
  <2>2. task.R \in SUBSET RowsOf("R") /\ task.S \in SUBSET RowsOf("S")
    BY <1>1
  <2> HIDE DEF f
  <2> QED
    BY <2>1, <2>2, SharesAddUp
<1>5. TaskWeight[task] = Cardinality(PairsOf(task.R, task.S))
  BY DEF TaskWeight
<1> HIDE DEF f, tasks, one
<1>6. /\ \A k \in 1 .. NThreads : NThreads - k \in Threads
      /\ \A k, l \in 1 .. NThreads : NThreads - k = NThreads - l => k = l
      /\ \A t \in Threads : NThreads - t \in 1 .. NThreads /\ NThreads - (NThreads - t) = t
  BY <1>1 DEF Threads
<1>7. tasks \in Seq(JoinTasks) /\ DOMAIN tasks = 1 .. NThreads
  <2>1. \A k \in 1 .. NThreads : one(NThreads - k) \in JoinTasks
    BY <1>3, <1>6
  <2> QED
    BY <1>1, <1>2, <2>1
<1>8. QueueTotal(TaskWeight, tasks) = TotalOf(f, Threads)
  <2> DEFINE h == [k \in 1 .. NThreads |-> NThreads - k]
             g == [k \in DOMAIN tasks |-> TaskWeight[tasks[k]]]
  <2>1. \A k \in 1 .. NThreads : g[k] = f[h[k]] /\ h[k] \in Threads
    BY <1>2, <1>3, <1>6, <1>7
  <2>2. \A k \in 1 .. NThreads : g[k] \in Nat /\ h[k] \in Threads /\ f[h[k]] = g[k]
    BY <1>4, <2>1
  <2>3. \A k, l \in 1 .. NThreads : h[k] = h[l] => k = l
    BY <1>6
  <2>4. \A t \in Threads : \E k \in 1 .. NThreads : h[k] = t
    BY <1>6
  <2>5. IsFiniteSet(1 .. NThreads)
    BY <1>1, FS_Interval
  <2> HIDE DEF g, h
  <2>6. Carries(h, g, 1 .. NThreads, f, Threads)
    BY <2>2, <2>3, <2>4 DEF Carries
  <2>7. TotalOf(f, Threads) = TotalOf(g, 1 .. NThreads)
    BY <2>5, <2>6, TotalMoved
  <2> QED
    BY <1>7, <2>7 DEF QueueTotal, g
<1> QED
  BY <1>4, <1>5, <1>7, <1>8 DEF tasks

\* The shared tasks of a sequence of tasks have the matches of the sequence.
LEMMA LargeTasksHold ==
  ASSUME joinRel \in Inputs, NEW tasks \in Seq(JoinTasks), NEW qs,
         qs = [k \in DOMAIN tasks |-> Radix!SharedTasks(tasks[k].R, tasks[k].S)]
  PROVE  /\ FlattenSeq(qs) \in Seq(JoinTasks)
         /\ QueueTotal(TaskWeight, FlattenSeq(qs)) = QueueTotal(TaskWeight, tasks)
<1>1. PICK X, w : X = JoinTasks /\ w = TaskWeight
  OBVIOUS
<1>2. \A x \in X : w[x] \in Nat
  BY <1>1, TaskWeightIsNat
<1> DEFINE f == [k \in DOMAIN tasks |-> w[tasks[k]]]
<1>3. DOMAIN tasks = 1 .. Len(tasks) /\ Len(tasks) \in Nat
      /\ \A k \in DOMAIN tasks : tasks[k] \in JoinTasks
  OBVIOUS
<1>4. \A k \in DOMAIN tasks : qs[k] \in Seq(X) /\ f[k] = QueueTotal(w, qs[k])
  BY <1>1, <1>3, SharedTasksHold
<1>5. qs \in Seq(Seq(X)) /\ Len(qs) = Len(tasks)
  BY <1>3, <1>4
<1> HIDE DEF f
<1>6. /\ FlattenSeq(qs) \in Seq(X)
      /\ QueueTotal(w, FlattenSeq(qs)) = TotalOf(f, 1 .. Len(qs))
  <2>1. EachTotal(f, w, qs)
    BY <1>3, <1>4, <1>5 DEF EachTotal
  <2>2. \A p \in Seq(Seq(X)) : EachTotal(f, w, p) =>
          FlattenSeq(p) \in Seq(X) /\ QueueTotal(w, FlattenSeq(p)) = TotalOf(f, 1 .. Len(p))
    BY <1>2, QueueFlattened
  <2> QED
    BY <1>5, <2>1, <2>2
<1>7. TotalOf(f, 1 .. Len(qs)) = QueueTotal(w, tasks)
  BY <1>3, <1>5 DEF QueueTotal, f
<1> QED
  BY <1>1, <1>6, <1>7

-----------------------------------------------------------------------------
(***************************************************************************)
(* Where the matches are.                                                  *)
(***************************************************************************)
QueueTypes ==
  /\ skewTask \in Groups \cup {None}
  /\ partQueue \in [RNodes -> Seq(Groups)] /\ joinQueue \in [RNodes -> Seq(JoinTasks)]
  /\ skewQueue \in Seq(Groups) /\ largeTasks \in Seq(JoinTasks)
  /\ joined \in [Threads -> Nat]

NodeWeights(w, v, p, j) == [n \in RNodes |-> QueueTotal(w, p[n]) + QueueTotal(v, j[n])]
AtNode == NodeWeights(GroupWeight, TaskWeight, partQueue, joinQueue)
InTask == IF Radix!InSkewTask THEN GroupWeight[skewTask] ELSE 0

LEMMA FoldsAreTotals ==
  /\ \A q : Radix!MatchesOfClusters(q) =
              TotalOf([k \in DOMAIN q |-> Radix!MatchesOf(q[k])],
                      DOMAIN [k \in DOMAIN q |-> Radix!MatchesOf(q[k])])
  /\ \A q : Radix!MatchesOfTasks(q) =
              TotalOf([k \in DOMAIN q |-> Radix!Matches(q[k].R, q[k].S)],
                      DOMAIN [k \in DOMAIN q |-> Radix!Matches(q[k].R, q[k].S)])
  /\ Radix!Total = TotalOf(joined, Threads)
<1>1. \A q : Radix!MatchesOfClusters(q) =
               TotalOf([k \in DOMAIN q |-> Radix!MatchesOf(q[k])],
                       DOMAIN [k \in DOMAIN q |-> Radix!MatchesOf(q[k])])
  BY DEF Radix!MatchesOfClusters, Radix!FoldFunction, Radix!FoldFunctionOnSet,
     Radix!MapThenFoldSet, TotalOf, MapThenSumSet, MapThenFoldSet
<1>2. \A q : Radix!MatchesOfTasks(q) =
               TotalOf([k \in DOMAIN q |-> Radix!Matches(q[k].R, q[k].S)],
                       DOMAIN [k \in DOMAIN q |-> Radix!Matches(q[k].R, q[k].S)])
  BY DEF Radix!MatchesOfTasks, Radix!FoldFunction, Radix!FoldFunctionOnSet,
     Radix!MapThenFoldSet, TotalOf, MapThenSumSet, MapThenFoldSet
<1>3. Radix!Total = TotalOf(joined, Threads)
  BY DEF Radix!Total, Radix!MapThenSumSet, Radix!MapThenFoldSet, Radix!Threads,
     TotalOf, MapThenSumSet, MapThenFoldSet, Threads
<1> QED
  BY <1>1, <1>2, <1>3

LEMMA MatchesOfQueues ==
  ASSUME joinRel \in Inputs
  PROVE  /\ \A q \in Seq(Groups) : /\ Radix!MatchesOfClusters(q) = QueueTotal(GroupWeight, q)
                                   /\ QueueTotal(GroupWeight, q) \in Nat
         /\ \A q \in Seq(JoinTasks) : /\ Radix!MatchesOfTasks(q) = QueueTotal(TaskWeight, q)
                                      /\ QueueTotal(TaskWeight, q) \in Nat
<1>1. ASSUME NEW q \in Seq(Groups)
      PROVE  /\ Radix!MatchesOfClusters(q) = QueueTotal(GroupWeight, q)
             /\ QueueTotal(GroupWeight, q) \in Nat
  <2> DEFINE f == [k \in DOMAIN q |-> Radix!MatchesOf(q[k])]
             g == [k \in DOMAIN q |-> GroupWeight[q[k]]]
  <2>1. \A k \in DOMAIN q : q[k] \in Groups
    OBVIOUS
  <2>2. \A k \in DOMAIN q : f[k] = g[k]
    BY <2>1, PairsArePairs DEF GroupWeight
  <2>3. Radix!MatchesOfClusters(q) = TotalOf(f, DOMAIN f)
    BY FoldsAreTotals
  <2>4. DOMAIN f = DOMAIN q /\ IsFiniteSet(DOMAIN q)
    BY PositionsAreFinite
  <2> HIDE DEF f, g
  <2>5. TotalOf(f, DOMAIN q) = TotalOf(g, DOMAIN q)
    BY <2>2, <2>4, TotalsAgree
  <2>6. Radix!MatchesOfClusters(q) = QueueTotal(GroupWeight, q)
    BY <2>3, <2>4, <2>5 DEF QueueTotal, g
  <2>7. \A c \in Groups : GroupWeight[c] \in Nat
    BY GroupsAddUp
  <2>8. QueueTotal(GroupWeight, q) \in Nat
    BY <2>7, QueueIsNat
  <2> QED
    BY <2>6, <2>8
<1>2. ASSUME NEW q \in Seq(JoinTasks)
      PROVE  /\ Radix!MatchesOfTasks(q) = QueueTotal(TaskWeight, q)
             /\ QueueTotal(TaskWeight, q) \in Nat
  <2> DEFINE f == [k \in DOMAIN q |-> Radix!Matches(q[k].R, q[k].S)]
             g == [k \in DOMAIN q |-> TaskWeight[q[k]]]
  <2>1. \A k \in DOMAIN q : q[k] \in JoinTasks
    OBVIOUS
  <2>2. \A k \in DOMAIN q : f[k] = g[k]
    BY <2>1, PairsArePairs DEF TaskWeight
  <2>3. Radix!MatchesOfTasks(q) = TotalOf(f, DOMAIN f)
    BY FoldsAreTotals
  <2>4. DOMAIN f = DOMAIN q /\ IsFiniteSet(DOMAIN q)
    BY PositionsAreFinite
  <2> HIDE DEF f, g
  <2>5. TotalOf(f, DOMAIN q) = TotalOf(g, DOMAIN q)
    BY <2>2, <2>4, TotalsAgree
  <2>6. Radix!MatchesOfTasks(q) = QueueTotal(TaskWeight, q)
    BY <2>3, <2>4, <2>5 DEF QueueTotal, g
  <2>7. \A task \in JoinTasks : TaskWeight[task] \in Nat
    BY TaskWeightIsNat
  <2>8. QueueTotal(TaskWeight, q) \in Nat
    BY <2>7, QueueIsNat
  <2> QED
    BY <2>6, <2>8
<1> QED
  BY <1>1, <1>2

LEMMA PendingIsTotal ==
  ASSUME joinRel \in Inputs, QueueTypes
  PROVE  /\ Radix!Pending = TotalOf(AtNode, RNodes) + QueueTotal(GroupWeight, skewQueue)
                            + QueueTotal(TaskWeight, largeTasks) + InTask
         /\ Radix!Total = TotalOf(joined, Threads)
         /\ TotalOf(AtNode, RNodes) \in Nat /\ InTask \in Nat
         /\ QueueTotal(GroupWeight, skewQueue) \in Nat
         /\ QueueTotal(TaskWeight, largeTasks) \in Nat
         /\ TotalOf(joined, Threads) \in Nat
         /\ \A n \in RNodes : AtNode[n] \in Nat
<1> DEFINE f == [n \in Radix!Nodes |-> Radix!MatchesOfClusters(partQueue[n])
                                       + Radix!MatchesOfTasks(joinQueue[n])]
<1>1. Radix!Pending =
        TotalOf(f, DOMAIN f) + Radix!MatchesOfClusters(skewQueue)
        + Radix!MatchesOfTasks(largeTasks)
        + (IF Radix!InSkewTask THEN Radix!MatchesOf(skewTask) ELSE 0)
  BY DEF Radix!Pending, Radix!FoldFunction, Radix!FoldFunctionOnSet,
     Radix!MapThenFoldSet, TotalOf, MapThenSumSet, MapThenFoldSet
<1>2. DOMAIN f = RNodes
  BY JoinOptions
<1>3. \A n \in RNodes : f[n] = AtNode[n] /\ AtNode[n] \in Nat
  BY MatchesOfQueues, JoinOptions DEF AtNode, NodeWeights, QueueTypes
<1> HIDE DEF f
<1>4. TotalOf(f, RNodes) = TotalOf(AtNode, RNodes) /\ TotalOf(AtNode, RNodes) \in Nat
  BY <1>3, GroupsAreFinite, TotalsAgree, TotalIsNat
<1>5. /\ Radix!MatchesOfClusters(skewQueue) = QueueTotal(GroupWeight, skewQueue)
      /\ Radix!MatchesOfTasks(largeTasks) = QueueTotal(TaskWeight, largeTasks)
      /\ QueueTotal(GroupWeight, skewQueue) \in Nat
      /\ QueueTotal(TaskWeight, largeTasks) \in Nat
  BY MatchesOfQueues DEF QueueTypes
<1>6. (IF Radix!InSkewTask THEN Radix!MatchesOf(skewTask) ELSE 0) = InTask /\ InTask \in Nat
  <2>1. CASE Radix!InSkewTask
    <3>1. skewTask \in Groups
      BY <2>1 DEF Radix!InSkewTask, QueueTypes
    <3>2. Radix!MatchesOf(skewTask) = GroupWeight[skewTask] /\ GroupWeight[skewTask] \in Nat
      BY <3>1, PairsArePairs, GroupsAddUp DEF GroupWeight
    <3> QED
      BY <2>1, <3>2 DEF InTask
  <2>2. CASE ~Radix!InSkewTask
    BY <2>2 DEF InTask
  <2> QED
    BY <2>1, <2>2
<1>7. TotalOf(joined, Threads) \in Nat
  <2>1. \A t \in Threads : joined[t] \in Nat
    BY DEF QueueTypes
  <2> QED
    BY <2>1, ThreadsAreFinite, TotalIsNat
<1> QED
  BY <1>1, <1>2, <1>3, <1>4, <1>5, <1>6, <1>7, FoldsAreTotals

-----------------------------------------------------------------------------
(***************************************************************************)
(* What moving clusters and tasks does to the totals.                      *)
(***************************************************************************)
Weights(w, v, X) == (\A c \in Groups : w[c] \in Nat) /\ \A x \in X : v[x] \in Nat
Queues(p, j, X) == p \in [RNodes -> Seq(Groups)] /\ j \in [RNodes -> Seq(X)]

LEMMA NodeWeightsAreNat ==
  ASSUME NEW X, NEW w, NEW v, Weights(w, v, X), NEW p, NEW j, Queues(p, j, X)
  PROVE  /\ \A n \in RNodes : /\ QueueTotal(w, p[n]) \in Nat /\ QueueTotal(v, j[n]) \in Nat
                              /\ NodeWeights(w, v, p, j)[n] =
                                   QueueTotal(w, p[n]) + QueueTotal(v, j[n])
                              /\ NodeWeights(w, v, p, j)[n] \in Nat
         /\ TotalOf(NodeWeights(w, v, p, j), RNodes) \in Nat
<1>1. ASSUME NEW n \in RNodes
      PROVE  /\ QueueTotal(w, p[n]) \in Nat /\ QueueTotal(v, j[n]) \in Nat
             /\ NodeWeights(w, v, p, j)[n] = QueueTotal(w, p[n]) + QueueTotal(v, j[n])
             /\ NodeWeights(w, v, p, j)[n] \in Nat
  <2>1. p[n] \in Seq(Groups) /\ j[n] \in Seq(X)
    BY DEF Queues
  <2>2. QueueTotal(w, p[n]) \in Nat
    BY <2>1, QueueIsNat DEF Weights
  <2>3. QueueTotal(v, j[n]) \in Nat
    BY <2>1, QueueIsNat DEF Weights
  <2>4. NodeWeights(w, v, p, j)[n] = QueueTotal(w, p[n]) + QueueTotal(v, j[n])
    BY DEF NodeWeights
  <2> QED
    BY <2>2, <2>3, <2>4
<1>2. PICK f : f = NodeWeights(w, v, p, j)
  OBVIOUS
<1>3. TotalOf(f, RNodes) \in Nat
  BY <1>1, <1>2, GroupsAreFinite, TotalIsNat
<1> QED
  BY <1>1, <1>2, <1>3

\* Only the queues of one node change.
ChangedAt(b, p, j, r, k) ==
  \A n \in RNodes : n # b => r[n] = p[n] /\ k[n] = j[n]

Replaces(w, v, X, b, p, j, r, k) ==
  Weights(w, v, X) /\ Queues(p, j, X) /\ Queues(r, k, X) /\ ChangedAt(b, p, j, r, k)

Balances(w, v, b, p, j, r, k) ==
  TotalOf(NodeWeights(w, v, r, k), RNodes) + (QueueTotal(w, p[b]) + QueueTotal(v, j[b]))
  = TotalOf(NodeWeights(w, v, p, j), RNodes) + (QueueTotal(w, r[b]) + QueueTotal(v, k[b]))

LEMMA NodeChanged ==
  ASSUME NEW X, NEW w, NEW v, NEW p, NEW j, NEW r, NEW k, NEW b \in RNodes,
         Replaces(w, v, X, b, p, j, r, k)
  PROVE  Balances(w, v, b, p, j, r, k)
<1>1. PICK f, g : f = NodeWeights(w, v, p, j) /\ g = NodeWeights(w, v, r, k)
  OBVIOUS
<1>2. \A n \in RNodes : f[n] = QueueTotal(w, p[n]) + QueueTotal(v, j[n]) /\ f[n] \in Nat
  BY <1>1, NodeWeightsAreNat DEF Replaces
<1>3. \A n \in RNodes : g[n] = QueueTotal(w, r[n]) + QueueTotal(v, k[n]) /\ g[n] \in Nat
  BY <1>1, NodeWeightsAreNat DEF Replaces
<1>4. \A n \in RNodes : n # b => g[n] = f[n]
  BY <1>2, <1>3 DEF Replaces, ChangedAt
<1>5. TotalOf(g, RNodes) + f[b] = TotalOf(f, RNodes) + g[b]
  BY <1>2, <1>3, <1>4, GroupsAreFinite, TotalChanged
<1> QED
  BY <1>1, <1>2, <1>3, <1>5 DEF Balances

\* The queue of tasks of a node replaced.
LEMMA QueueReplaced ==
  ASSUME NEW X, NEW p, NEW j, Queues(p, j, X), NEW b \in RNodes, NEW s \in Seq(X),
         NEW k, k = [j EXCEPT ![b] = s]
  PROVE  Queues(p, k, X) /\ k[b] = s /\ ChangedAt(b, p, j, p, k)
<1>1. p \in [RNodes -> Seq(Groups)] /\ j \in [RNodes -> Seq(X)]
  BY DEF Queues
<1>2. k \in [RNodes -> Seq(X)] /\ k[b] = s /\ \A n \in RNodes : n # b => k[n] = j[n]
  BY <1>1
<1> QED
  BY <1>1, <1>2 DEF Queues, ChangedAt

\* The queue of clusters of a node, and its tasks, replaced.
SetAt(b, p, j, r, k, u, s) == r = [p EXCEPT ![b] = u] /\ k = [j EXCEPT ![b] = s]

LEMMA QueuesReplaced ==
  ASSUME NEW X, NEW p, NEW j, Queues(p, j, X), NEW b \in RNodes,
         NEW u \in Seq(Groups), NEW s \in Seq(X),
         NEW r, NEW k, SetAt(b, p, j, r, k, u, s)
  PROVE  Queues(r, k, X) /\ r[b] = u /\ k[b] = s /\ ChangedAt(b, p, j, r, k)
<1>1. p \in [RNodes -> Seq(Groups)] /\ j \in [RNodes -> Seq(X)]
  BY DEF Queues
<1>2. k \in [RNodes -> Seq(X)] /\ k[b] = s /\ \A n \in RNodes : n # b => k[n] = j[n]
  BY <1>1 DEF SetAt
<1>3. r \in [RNodes -> Seq(Groups)] /\ r[b] = u /\ \A n \in RNodes : n # b => r[n] = p[n]
  BY <1>1 DEF SetAt
<1> QED
  BY <1>2, <1>3 DEF Queues, ChangedAt

\* Tasks put in front of the queue of a node.
LEMMA TasksPushed ==
  ASSUME NEW X, NEW w, NEW v, Weights(w, v, X), NEW p, NEW j, Queues(p, j, X),
         NEW b \in RNodes, NEW q \in Seq(X), NEW k, Queues(p, k, X),
         k[b] = q \o j[b], ChangedAt(b, p, j, p, k)
  PROVE  /\ QueueTotal(v, q) \in Nat
         /\ TotalOf(NodeWeights(w, v, p, k), RNodes) =
              TotalOf(NodeWeights(w, v, p, j), RNodes) + QueueTotal(v, q)
<1>1. p[b] \in Seq(Groups) /\ j[b] \in Seq(X) /\ q \o j[b] \in Seq(X)
  BY DEF Queues
<1>2. QueueTotal(v, q \o j[b]) = QueueTotal(v, q) + QueueTotal(v, j[b])
  <2>1. \A x \in X : v[x] \in Nat
    BY DEF Weights
  <2> QED
    BY <1>1, <2>1, QueueOfConcat
<1>3. QueueTotal(v, q) \in Nat
  BY QueueIsNat DEF Weights
<1>4. TotalOf(NodeWeights(w, v, p, k), RNodes) \in Nat
      /\ TotalOf(NodeWeights(w, v, p, j), RNodes) \in Nat
      /\ QueueTotal(w, p[b]) \in Nat /\ QueueTotal(v, j[b]) \in Nat
  BY NodeWeightsAreNat
<1>5. TotalOf(NodeWeights(w, v, p, k), RNodes) + (QueueTotal(w, p[b]) + QueueTotal(v, j[b]))
      = TotalOf(NodeWeights(w, v, p, j), RNodes) + (QueueTotal(w, p[b]) + QueueTotal(v, k[b]))
  <2>1. Replaces(w, v, X, b, p, j, p, k)
    BY DEF Replaces
  <2>2. Balances(w, v, b, p, j, p, k)
    BY <2>1, NodeChanged
  <2> QED
    BY <2>2 DEF Balances
<1> QED
  BY <1>2, <1>3, <1>4, <1>5

\* The first cluster of a node replaced by tasks of the same weight.
Divides(w, v, X, b, p, j, r, k, q) ==
  /\ Weights(w, v, X) /\ Queues(p, j, X) /\ Queues(r, k, X) /\ ChangedAt(b, p, j, r, k)
  /\ p[b] # <<>> /\ r[b] = Tail(p[b])
  /\ q \in Seq(X) /\ k[b] = q \o j[b] /\ QueueTotal(v, q) = w[Head(p[b])]

LEMMA ClusterDivided ==
  ASSUME NEW w, NEW v, NEW X, NEW b \in RNodes, NEW p, NEW j, NEW r, NEW k, NEW q,
         Divides(w, v, X, b, p, j, r, k, q)
  PROVE  TotalOf(NodeWeights(w, v, r, k), RNodes) = TotalOf(NodeWeights(w, v, p, j), RNodes)
<1> USE DEF Divides
<1>1. p[b] \in Seq(Groups) /\ j[b] \in Seq(X) /\ q \o j[b] \in Seq(X)
  BY DEF Queues
<1>2. /\ Tail(p[b]) \in Seq(Groups) /\ w[Head(p[b])] \in Nat
      /\ QueueTotal(w, Tail(p[b])) \in Nat
      /\ QueueTotal(w, p[b]) = w[Head(p[b])] + QueueTotal(w, Tail(p[b]))
  <2>1. \A c \in Groups : w[c] \in Nat
    BY DEF Weights
  <2> QED
    BY <1>1, <2>1, QueueOfHead
<1>3. QueueTotal(v, q \o j[b]) = QueueTotal(v, q) + QueueTotal(v, j[b])
  <2>1. \A x \in X : v[x] \in Nat
    BY DEF Weights
  <2> QED
    BY <1>1, <2>1, QueueOfConcat
<1>4. TotalOf(NodeWeights(w, v, r, k), RNodes) \in Nat
      /\ TotalOf(NodeWeights(w, v, p, j), RNodes) \in Nat
      /\ QueueTotal(v, j[b]) \in Nat
  BY NodeWeightsAreNat
<1>5. TotalOf(NodeWeights(w, v, r, k), RNodes) + (QueueTotal(w, p[b]) + QueueTotal(v, j[b]))
      = TotalOf(NodeWeights(w, v, p, j), RNodes) + (QueueTotal(w, r[b]) + QueueTotal(v, k[b]))
  <2>1. Replaces(w, v, X, b, p, j, r, k)
    BY DEF Replaces
  <2>2. Balances(w, v, b, p, j, r, k)
    BY <2>1, NodeChanged
  <2> QED
    BY <2>2 DEF Balances
<1> QED
  BY <1>2, <1>3, <1>4, <1>5

\* The first task of a node taken out.
LEMMA TaskTaken ==
  ASSUME NEW X, NEW w, NEW v, Weights(w, v, X), NEW p, NEW j, Queues(p, j, X),
         NEW b \in RNodes, j[b] # <<>>,
         NEW k, Queues(p, k, X), k[b] = Tail(j[b]), ChangedAt(b, p, j, p, k)
  PROVE  /\ Head(j[b]) \in X /\ v[Head(j[b])] \in Nat
         /\ TotalOf(NodeWeights(w, v, p, j), RNodes) =
              TotalOf(NodeWeights(w, v, p, k), RNodes) + v[Head(j[b])]
<1>1. p[b] \in Seq(Groups) /\ j[b] \in Seq(X)
  BY DEF Queues
<1>2. /\ Head(j[b]) \in X /\ Tail(j[b]) \in Seq(X) /\ v[Head(j[b])] \in Nat
      /\ QueueTotal(v, Tail(j[b])) \in Nat
      /\ QueueTotal(v, j[b]) = v[Head(j[b])] + QueueTotal(v, Tail(j[b]))
  <2>1. \A x \in X : v[x] \in Nat
    BY DEF Weights
  <2> QED
    BY <1>1, <2>1, QueueOfHead
<1>3. TotalOf(NodeWeights(w, v, p, k), RNodes) \in Nat
      /\ TotalOf(NodeWeights(w, v, p, j), RNodes) \in Nat
      /\ QueueTotal(w, p[b]) \in Nat
  BY NodeWeightsAreNat
<1>4. TotalOf(NodeWeights(w, v, p, k), RNodes) + (QueueTotal(w, p[b]) + QueueTotal(v, j[b]))
      = TotalOf(NodeWeights(w, v, p, j), RNodes) + (QueueTotal(w, p[b]) + QueueTotal(v, k[b]))
  <2>1. Replaces(w, v, X, b, p, j, p, k)
    BY DEF Replaces
  <2>2. Balances(w, v, b, p, j, p, k)
    BY <2>1, NodeChanged
  <2> QED
    BY <2>2 DEF Balances
<1>5. QueueTotal(v, k[b]) = QueueTotal(v, Tail(j[b]))
  OBVIOUS
<1>6. PICK now, before, c, d, e, h :
        /\ now = TotalOf(NodeWeights(w, v, p, k), RNodes) /\ c = QueueTotal(w, p[b])
        /\ before = TotalOf(NodeWeights(w, v, p, j), RNodes) /\ d = QueueTotal(v, j[b])
        /\ e = QueueTotal(v, Tail(j[b])) /\ h = v[Head(j[b])]
  OBVIOUS
<1>7. now \in Nat /\ before \in Nat /\ c \in Nat /\ e \in Nat /\ h \in Nat /\ d = h + e
  BY <1>2, <1>3, <1>6
<1>8. now + (c + d) = before + (c + e)
  BY <1>4, <1>5, <1>6
<1>9. before = now + h
  BY <1>7, <1>8
<1> QED
  BY <1>2, <1>6, <1>9

\* What a thread has found added to its result.
ResultGrows(g, h, t, m) ==
  /\ \A u \in Threads : g[u] \in Nat
  /\ h[t] = g[t] + m
  /\ \A u \in Threads : u # t => h[u] = g[u]

LEMMA FoundAdded ==
  ASSUME NEW g, NEW h, NEW t \in Threads, NEW m \in Nat, ResultGrows(g, h, t, m)
  PROVE  /\ TotalOf(g, Threads) \in Nat
         /\ TotalOf(h, Threads) = TotalOf(g, Threads) + m
<1>1. \A u \in Threads : g[u] \in Nat
  BY DEF ResultGrows
<1>2. h[t] = g[t] + m
  BY DEF ResultGrows
<1>3. \A u \in Threads : u # t => h[u] = g[u]
  BY DEF ResultGrows
<1>4. \A u \in Threads : h[u] \in Nat
  BY <1>1, <1>2, <1>3
<1>5. TotalOf(h, Threads) + g[t] = TotalOf(g, Threads) + h[t]
  BY <1>1, <1>3, <1>4, ThreadsAreFinite, TotalChanged
<1>6. TotalOf(g, Threads) \in Nat /\ TotalOf(h, Threads) \in Nat
  BY <1>1, <1>4, ThreadsAreFinite, TotalIsNat
<1> QED
  BY <1>1, <1>2, <1>5, <1>6

AllOf(C, N) == UNION {C[n] : n \in N}
SplitBy(f, N, w, X, C) ==
  /\ \A n \in N : C[n] \in SUBSET X
  /\ \A n, m \in N : n # m => C[n] \cap C[m] = {}
  /\ \A i \in X : w[i] \in Nat
  /\ \A n \in N : f[n] = TotalOf(w, C[n])

LEMMA TotalOfParts ==
  ASSUME NEW f, NEW N, IsFiniteSet(N), NEW w, NEW X, IsFiniteSet(X), NEW C,
         SplitBy(f, N, w, X, C)
  PROVE  TotalOf(f, N) = TotalOf(w, AllOf(C, N))
<1>1. \A n \in N : C[n] \in SUBSET X
  BY DEF SplitBy
<1>2. \A n, m \in N : n # m => C[n] \cap C[m] = {}
  BY DEF SplitBy
<1>3. (\A i \in X : w[i] \in Nat) /\ \A n \in N : f[n] = TotalOf(w, C[n])
  BY DEF SplitBy
<1>4. TotalOf(f, N) = TotalOf(w, UNION {C[n] : n \in N})
  BY <1>1, <1>2, <1>3, TotalOfTotals
<1> QED
  BY <1>4 DEF AllOf

\* All clusters of some set, each one in the queue of its node.
Placed(p, j, D, page) ==
  /\ \A c \in D : page[c] \in RNodes
  /\ p = [n \in RNodes |-> Radix!Stacked({c \in D : page[c] = n})]
  /\ j = [n \in RNodes |-> <<>>]

LEMMA ClustersPlaced ==
  ASSUME NEW w, \A c \in Groups : w[c] \in Nat, NEW D \in SUBSET Groups, NEW page,
         NEW p, NEW j, Placed(p, j, D, page), NEW v
  PROVE  /\ p \in [RNodes -> Seq(Groups)]
         /\ TotalOf(NodeWeights(w, v, p, j), RNodes) = TotalOf(w, D)
<1>0. /\ \A c \in D : page[c] \in RNodes
      /\ p = [n \in RNodes |-> Radix!Stacked({c \in D : page[c] = n})]
      /\ j = [n \in RNodes |-> <<>>]
  BY DEF Placed
<1> DEFINE C == [n \in RNodes |-> {c \in D : page[c] = n}]
<1>1. \A n \in RNodes : C[n] \in SUBSET D /\ C[n] \in SUBSET Groups /\ p[n] = Radix!Stacked(C[n])
  BY <1>0
<1>2. \A n, m \in RNodes : n # m => C[n] \cap C[m] = {}
  OBVIOUS
<1>3. UNION {C[n] : n \in RNodes} = D
  BY <1>0
<1> HIDE DEF C
<1>4. ASSUME NEW n \in RNodes
      PROVE  p[n] \in Seq(Groups) /\ QueueTotal(w, p[n]) = TotalOf(w, C[n])
  <2>1. PICK E : E = C[n]
    OBVIOUS
  <2>2. PICK q : q = Radix!Stacked(E)
    OBVIOUS
  <2>3. E \in SUBSET Groups
    BY <1>1, <2>1
  <2>4. /\ q \in Seq(E) /\ Len(q) = Cardinality(E)
        /\ \A k, l \in 1 .. Len(q) : q[k] = q[l] => k = l
        /\ \A c \in E : \E k \in 1 .. Len(q) : q[k] = c
    BY <2>2, <2>3, StackedHolds
  <2>5. \A c \in E : w[c] \in Nat
    BY <2>3
  <2>6. QueueTotal(w, q) = TotalOf(w, E)
    BY <2>4, <2>5, QueueOfSet
  <2>7. q \in Seq(Groups)
    BY <2>3, <2>4
  <2> QED
    BY <1>1, <2>1, <2>2, <2>6, <2>7
<1>5. p \in [RNodes -> Seq(Groups)]
  BY <1>0, <1>4
<1>6. PICK f : f = NodeWeights(w, v, p, j)
  OBVIOUS
<1>7. IsFiniteSet(D) /\ \A c \in D : w[c] \in Nat
  BY GroupsAreFinite, FS_Subset
<1>8. \A n \in RNodes : f[n] = TotalOf(w, C[n])
  <2> SUFFICES ASSUME NEW n \in RNodes PROVE f[n] = TotalOf(w, C[n])
    OBVIOUS
  <2>1. f[n] = QueueTotal(w, p[n]) + QueueTotal(v, <<>>)
    BY <1>0, <1>6 DEF NodeWeights
  <2>2. QueueTotal(v, <<>>) = 0
    BY QueueOfNothing
  <2>3. C[n] \in SUBSET Groups /\ IsFiniteSet(C[n])
    BY <1>1, GroupsAreFinite, FS_Subset
  <2>4. PICK E : E = C[n]
    OBVIOUS
  <2>5. TotalOf(w, E) \in Nat
    BY <2>3, <2>4, TotalIsNat
  <2> QED
    BY <1>4, <2>1, <2>2, <2>4, <2>5
<1>9. SplitBy(f, RNodes, w, D, C)
  BY <1>1, <1>2, <1>7, <1>8 DEF SplitBy
<1>10. TotalOf(f, RNodes) = TotalOf(w, AllOf(C, RNodes))
  BY <1>9, <1>7, GroupsAreFinite, TotalOfParts
<1>11. AllOf(C, RNodes) = D
  BY <1>3 DEF AllOf
<1> QED
  BY <1>5, <1>6, <1>10, <1>11

-----------------------------------------------------------------------------
(***************************************************************************)
(* The invariant of the radix join.                                        *)
(***************************************************************************)
OverInv == overwritten => \A t \in Threads : joinPc[t] \notin Reads

Polled(n) == \E t \in Threads : Radix!NodeOf(t) = n
DrainInv ==
  /\ \A t \in Threads : joinPc[t] \in Skewing \cup Tasked => partQueue[Radix!NodeOf(t)] = <<>>
  /\ \A t \in Threads : joinPc[t] = "done" => joinQueue[Radix!NodeOf(t)] = <<>>
  /\ \A n \in RNodes : ~Polled(n) => partQueue[n] = <<>> /\ joinQueue[n] = <<>>

ZeroInv ==
  /\ joinPc[0] \notin Skewing => skewTask = None
  /\ joinPc[0] \in Tasked => skewQueue = <<>>
  /\ joinPc[0] = "skew task" /\ skewTask = None => skewQueue = <<>>
  /\ ~joinRel.skew => skewQueue = <<>>
  /\ joinPc[0] \in {"join", "done"} => largeTasks = <<>>

Blank ==
  /\ partQueue = [n \in RNodes |-> <<>>] /\ joinQueue = [n \in RNodes |-> <<>>]
  /\ skewQueue = <<>> /\ largeTasks = <<>>
  /\ \A t \in Threads : joined[t] = 0

Accounts(a, b, c, d, x, e) ==
  /\ a \in Nat /\ b \in Nat /\ c \in Nat /\ d \in Nat /\ x \in Nat /\ e \in Nat
  /\ a + b + c + d + x = e
Ledger(w, v, p, j, sq, lt, g, x) ==
  Accounts(TotalOf(g, Threads), TotalOf(NodeWeights(w, v, p, j), RNodes),
           QueueTotal(w, sq), QueueTotal(v, lt), x, TotalOf(w, Groups))
Books(w, v, p, j, sq, lt, g, x) ==
  /\ w = GroupWeight /\ v = TaskWeight /\ p = partQueue /\ j = joinQueue
  /\ sq = skewQueue /\ lt = largeTasks /\ g = joined /\ x = InTask
Accounted ==
  \E w, v, p, j, sq, lt, g, x :
    Books(w, v, p, j, sq, lt, g, x) /\ Ledger(w, v, p, j, sq, lt, g, x)

Unprepared == Reads \cup {"prepare"}
SumInv == IF joinPc[0] \in Unprepared THEN Blank ELSE Accounted

RadixInv == PhaseInv /\ QueueTypes /\ OverInv /\ DrainInv /\ ZeroInv /\ SumInv
QueueInv == QueueTypes /\ OverInv /\ DrainInv /\ ZeroInv /\ SumInv

-----------------------------------------------------------------------------
LEMMA WeightsStay ==
  ASSUME joinRel' = joinRel
  PROVE  GroupWeight' = GroupWeight /\ TaskWeight' = TaskWeight /\ JoinTasks' = JoinTasks
BY DEF GroupWeight, TaskWeight, JoinTasks, PairsOf, InGroup, RowsOf

LEMMA WeightsAreNat ==
  ASSUME joinRel \in Inputs, QueueTypes
  PROVE  Weights(GroupWeight, TaskWeight, JoinTasks) /\ Queues(partQueue, joinQueue, JoinTasks)
<1>1. \A c \in Groups : GroupWeight[c] \in Nat
  BY GroupsAddUp
<1>2. \A task \in JoinTasks : TaskWeight[task] \in Nat
  BY TaskWeightIsNat
<1> QED
  BY <1>1, <1>2 DEF Weights, Queues, QueueTypes

LEMMA ThreadMoves ==
  ASSUME JoinTypes, NEW t \in Threads, NEW p, Radix!Goto(t, p) \/ Radix!Arrive(t, p)
  PROVE  joinPc'[t] = p /\ \A u \in Threads : u # t => joinPc'[u] = joinPc[u]
BY DEF JoinTypes, Radix!Goto, Radix!Arrive

\* The books of the next state.
LEMMA LedgerGoesOn ==
  ASSUME joinRel' = joinRel, NEW w, NEW v, w = GroupWeight, v = TaskWeight,
         NEW p, NEW j, NEW sq, NEW lt, NEW g, NEW x,
         partQueue' = p, joinQueue' = j, skewQueue' = sq, largeTasks' = lt, joined' = g,
         InTask' = x, Ledger(w, v, p, j, sq, lt, g, x)
  PROVE  Accounted'
<1>1. GroupWeight' = w /\ TaskWeight' = v
  BY WeightsStay
<1>2. Books(w, v, p, j, sq, lt, g, x)'
  BY <1>1 DEF Books
<1> QED
  BY <1>2 DEF Accounted

LEMMA RadixBegins ==
  ASSUME Radix!Init
  PROVE  RadixInv
<1>1. PhaseInv
  BY PhaseBegins
<1>2. /\ joinPc = [t \in Threads |-> "start"] /\ overwritten = FALSE
      /\ partQueue = [n \in RNodes |-> <<>>] /\ joinQueue = [n \in RNodes |-> <<>>]
      /\ skewQueue = <<>> /\ skewTask = None /\ largeTasks = <<>>
      /\ joined = [t \in Threads |-> 0]
  BY JoinOptions DEF Radix!Init
<1>3. QueueTypes
  <2>1. <<>> \in Seq(Groups) /\ <<>> \in Seq(JoinTasks)
    OBVIOUS
  <2> QED
    BY <1>2, <2>1 DEF QueueTypes
<1>4. \A t \in Threads : joinPc[t] = "start" /\ Radix!NodeOf(t) \in RNodes
  BY <1>2, NodeHasQueue
<1>5. DrainInv
  BY <1>2, <1>4 DEF DrainInv, Skewing, Tasked
<1>6. ZeroInv
  BY <1>2, <1>4, JoinOptions DEF ZeroInv, Skewing, Tasked
<1>7. Blank
  BY <1>2 DEF Blank
<1>8. SumInv
  BY <1>4, <1>7, JoinOptions DEF SumInv, Unprepared, Reads
<1> QED
  BY <1>1, <1>2, <1>3, <1>5, <1>6, <1>8 DEF RadixInv, OverInv

\* A step that moves nothing.
LEMMA NothingMoves ==
  ASSUME joinRel \in Inputs, joinRel' = joinRel, QueueTypes, partQueue' = partQueue,
         joinQueue' = joinQueue, skewQueue' = skewQueue, skewTask' = skewTask,
         largeTasks' = largeTasks, joined' = joined
  PROVE  /\ QueueTypes'
         /\ Blank => Blank'
         /\ InTask' = InTask /\ Accounted => Accounted'
<1>1. QueueTypes'
  BY WeightsStay DEF QueueTypes
<1>2. Blank => Blank'
  BY DEF Blank
<1>3. ASSUME InTask' = InTask, Accounted PROVE Accounted'
  <2>1. PICK w, v, p, j, sq, lt, g, x :
          Books(w, v, p, j, sq, lt, g, x) /\ Ledger(w, v, p, j, sq, lt, g, x)
    BY <1>3 DEF Accounted
  <2>2. /\ w = GroupWeight /\ v = TaskWeight /\ partQueue' = p /\ joinQueue' = j
        /\ skewQueue' = sq /\ largeTasks' = lt /\ joined' = g /\ InTask' = x
    BY <1>3, <2>1 DEF Books
  <2> QED
    BY <2>1, <2>2, LedgerGoesOn
<1> QED
  BY <1>1, <1>2, <1>3

-----------------------------------------------------------------------------
(***************************************************************************)
(* The steps that leave the queues alone.                                  *)
(***************************************************************************)
LEMMA DrainStays ==
  ASSUME DrainInv, NEW b \in RNodes, Polled(b),
         \A n \in RNodes : n # b => partQueue'[n] = partQueue[n] /\ joinQueue'[n] = joinQueue[n],
         partQueue[b] = <<>> => partQueue'[b] = <<>>,
         \/ joinQueue[b] = <<>> => joinQueue'[b] = <<>>
         \/ \A u \in Threads : joinPc'[u] # "done",
         \A u \in Threads : joinPc'[u] \in Skewing \cup Tasked =>
           joinPc[u] \in Skewing \cup Tasked \/ partQueue[Radix!NodeOf(u)] = <<>>,
         \A u \in Threads : joinPc'[u] = "done" =>
           joinPc[u] = "done" \/ joinQueue[Radix!NodeOf(u)] = <<>>
  PROVE  DrainInv'
<1>1. \A u \in Threads : Radix!NodeOf(u)' = Radix!NodeOf(u)
  BY DEF Radix!NodeOf
<1>2. ASSUME NEW u \in Threads, joinPc'[u] \in Skewing \cup Tasked
      PROVE  partQueue'[Radix!NodeOf(u)] = <<>>
  <2>1. partQueue[Radix!NodeOf(u)] = <<>>
    BY <1>2 DEF DrainInv
  <2> QED
    BY <2>1, NodeHasQueue
<1>3. ASSUME NEW u \in Threads, joinPc'[u] = "done"
      PROVE  joinQueue'[Radix!NodeOf(u)] = <<>>
  <2>1. joinQueue[Radix!NodeOf(u)] = <<>>
    BY <1>3 DEF DrainInv
  <2> QED
    BY <1>3, <2>1, NodeHasQueue
<1>4. \A n : Polled(n)' <=> Polled(n)
  BY <1>1 DEF Polled
<1>5. ASSUME NEW n \in RNodes, ~Polled(n)
      PROVE  partQueue'[n] = <<>> /\ joinQueue'[n] = <<>>
  BY <1>5 DEF DrainInv
<1> QED
  BY <1>1, <1>2, <1>3, <1>4, <1>5 DEF DrainInv

LEMMA NodeIsPolled ==
  ASSUME NEW t \in Threads
  PROVE  Radix!NodeOf(t) \in RNodes /\ Polled(Radix!NodeOf(t))
BY NodeHasQueue DEF Polled

LEMMA OverStays ==
  ASSUME OverInv, JoinTypes, NEW t \in Threads, overwritten' => overwritten,
         NEW there, Radix!Goto(t, there) \/ Radix!Arrive(t, there),
         there \in Reads => joinPc[t] \in Reads
  PROVE  OverInv'
<1>1. joinPc'[t] = there /\ \A u \in Threads : u # t => joinPc'[u] = joinPc[u]
  BY ThreadMoves
<1> QED
  BY <1>1 DEF OverInv

Still ==
  /\ joinRel' = joinRel /\ partQueue' = partQueue /\ joinQueue' = joinQueue
  /\ skewQueue' = skewQueue /\ skewTask' = skewTask /\ largeTasks' = largeTasks
  /\ joined' = joined
QuietMove(t, here, there) ==
  /\ there \in Skewing \cup Tasked =>
       here \in Skewing \cup Tasked \/ partQueue[Radix!NodeOf(t)] = <<>>
  /\ there = "done" => joinQueue[Radix!NodeOf(t)] = <<>>
  /\ t = 0 => /\ here \in Unprepared <=> there \in Unprepared
              /\ \/ skewTask = None
                 \/ here \in {"skew", "collect"} <=> there \in {"skew", "collect"}
              /\ there \notin Skewing => here \notin Skewing \/ skewTask = None
              /\ there \in Tasked => \/ here \in Tasked \/ skewQueue = <<>>
                                    \/ (here = "skew task" /\ skewTask = None)
              /\ there # "skew task"
              /\ there \in {"join", "done"} => here \in {"join", "done"}

LEMMA QueuesRest ==
  ASSUME RadixInv, NEW t \in Threads, NEW here, NEW there, joinPc[t] = here,
         Radix!Goto(t, there) \/ Radix!Arrive(t, there), Still, QuietMove(t, here, there)
  PROVE  QueueTypes' /\ DrainInv' /\ ZeroInv' /\ SumInv'
<1>1. JoinTypes /\ joinRel \in Inputs /\ QueueTypes /\ DrainInv /\ ZeroInv /\ SumInv
  BY DEF RadixInv, PhaseInv, JoinTypes
<1>2. joinPc'[t] = there /\ \A u \in Threads : u # t => joinPc'[u] = joinPc[u]
  BY <1>1, ThreadMoves
<1>3. 0 \in Threads
  BY JoinOptions
<1>4. /\ QueueTypes'
      /\ Blank => Blank'
      /\ InTask' = InTask /\ Accounted => Accounted'
  BY <1>1, NothingMoves DEF Still
<1>5. joinPc'[0] \in Unprepared <=> joinPc[0] \in Unprepared
  BY <1>2, <1>3 DEF QuietMove
<1>6. InTask' = InTask
  <2>1. skewTask' = skewTask /\ GroupWeight' = GroupWeight
    BY WeightsStay DEF Still
  <2>2. Radix!InSkewTask' <=> Radix!InSkewTask
    BY <1>2, <1>3, <2>1 DEF Radix!InSkewTask, QuietMove
  <2> QED
    BY <2>1, <2>2 DEF InTask
<1>7. SumInv'
  BY <1>1, <1>4, <1>5, <1>6 DEF SumInv
<1>8. DrainInv'
  <2>1. Radix!NodeOf(t) \in RNodes /\ Polled(Radix!NodeOf(t))
    BY NodeIsPolled
  <2>2. \A u \in Threads : joinPc'[u] \in Skewing \cup Tasked =>
          joinPc[u] \in Skewing \cup Tasked \/ partQueue[Radix!NodeOf(u)] = <<>>
    BY <1>2 DEF QuietMove
  <2>3. \A u \in Threads : joinPc'[u] = "done" =>
          joinPc[u] = "done" \/ joinQueue[Radix!NodeOf(u)] = <<>>
    BY <1>2 DEF QuietMove
  <2> QED
    BY <1>1, <2>1, <2>2, <2>3, DrainStays DEF Still
<1>9. ZeroInv'
  <2>1. CASE t = 0
    <3>1. joinPc'[0] = there /\ joinPc[0] = here
      BY <1>2, <2>1
    <3>2. joinPc'[0] \notin Skewing => skewTask = None
      BY <1>1, <2>1, <3>1 DEF QuietMove, ZeroInv
    <3>3. joinPc'[0] \in Tasked => skewQueue = <<>>
      BY <1>1, <2>1, <3>1 DEF QuietMove, ZeroInv
    <3>4. joinPc'[0] # "skew task"
      BY <2>1, <3>1 DEF QuietMove
    <3>5. joinPc'[0] \in {"join", "done"} => largeTasks = <<>>
      BY <1>1, <2>1, <3>1 DEF QuietMove, ZeroInv
    <3> QED
      BY <1>1, <3>2, <3>3, <3>4, <3>5 DEF ZeroInv, Still
  <2>2. CASE t # 0
    <3>1. joinPc'[0] = joinPc[0]
      BY <1>2, <1>3, <2>2
    <3> QED
      BY <1>1, <3>1 DEF ZeroInv, Still
  <2> QED
    BY <2>1, <2>2
<1> QED
  BY <1>4, <1>7, <1>8, <1>9

LEMMA QuietSuffices ==
  ASSUME RadixInv, NEW t \in Threads, NEW here, NEW there, joinPc[t] = here,
         Radix!Goto(t, there) \/ Radix!Arrive(t, there), Still, QuietMove(t, here, there),
         overwritten' = overwritten, there \in Reads => here \in Reads
  PROVE  QueueInv'
<1>1. QueueTypes' /\ DrainInv' /\ ZeroInv' /\ SumInv'
  BY QueuesRest
<1>2. OverInv /\ JoinTypes
  BY DEF RadixInv, PhaseInv
<1>3. OverInv'
  BY <1>2, OverStays
<1> QED
  BY <1>1, <1>3 DEF QueueInv

LEMMA StartKeepsQueues ==
  ASSUME RadixInv, NEW t \in Threads, Radix!Start(t)
  PROVE  QueueInv'
<1>1. /\ joinPc[t] = "start" /\ Radix!Arrive(t, "count R") /\ Still
      /\ overwritten' = overwritten
  BY DEF Radix!Start, Radix!At, Still
<1>2. QuietMove(t, "start", "count R") /\ "start" \in Reads
  BY DEF QuietMove, Skewing, Tasked, Unprepared, Reads
<1> QED
  BY <1>1, <1>2, QuietSuffices

LEMMA FirstCountKeepsQueues ==
  ASSUME RadixInv, NEW t \in Threads, NEW x, NEW here, NEW there,
         Counting(x, here, there), here \in Reads, Radix!Count(t, x, here, Groups, there)
  PROVE  QueueInv'
<1>1. \/ here = "count R" /\ there = "copy R"
      \/ here = "count S" /\ there = "copy S"
  BY DEF Counting, Reads
<1>2. /\ joinPc[t] = here /\ Radix!Arrive(t, there) /\ Still /\ overwritten' = overwritten
  BY DEF Radix!Count, Radix!At, Still
<1>3. QuietMove(t, here, there)
  BY <1>1 DEF QuietMove, Skewing, Tasked, Unprepared, Reads
<1> QED
  BY <1>2, <1>3, QuietSuffices

LEMMA FirstCopyKeepsQueues ==
  ASSUME RadixInv, NEW t \in Threads, NEW x, NEW here, NEW there,
         Copying(x, here, there), here \in Reads, Radix!Copy(t, x, here, FALSE, there)
  PROVE  QueueInv'
<1>1. \/ here = "copy R" /\ there = "count S"
      \/ here = "copy S" /\ there = "prepare"
  BY DEF Copying, Reads
<1>2. joinPc[t] = here /\ (Radix!Goto(t, there) \/ Radix!Arrive(t, there))
  BY DEF Radix!Copy, Radix!At
<1>3. Still
  BY DEF Radix!Copy, Still
<1>4. overwritten' => overwritten
  <2>1. overwritten' = (overwritten \/ FALSE)
    BY DEF Radix!Copy
  <2> QED
    BY <2>1
<1>5. QuietMove(t, here, there)
  BY <1>1 DEF QuietMove, Skewing, Tasked, Unprepared, Reads
<1>6. QueueTypes' /\ DrainInv' /\ ZeroInv' /\ SumInv'
  BY <1>2, <1>3, <1>5, QueuesRest
<1>7. OverInv /\ JoinTypes
  BY DEF RadixInv, PhaseInv
<1>8. OverInv'
  BY <1>2, <1>4, <1>7, OverStays
<1> QED
  BY <1>6, <1>8 DEF QueueInv

LEMMA SecondCountKeepsQueues ==
  ASSUME RadixInv, NEW t \in Threads, NEW x, NEW here, NEW there,
         Counting(x, here, there), here \in Skewing,
         Radix!Count(t, x, here, {skewTask}, there)
  PROVE  QueueInv'
<1>1. \/ here = "recount R" /\ there = "recopy R"
      \/ here = "recount S" /\ there = "recopy S"
  BY DEF Counting, Skewing
<1>2. /\ joinPc[t] = here /\ Radix!Arrive(t, there) /\ Still /\ overwritten' = overwritten
  BY DEF Radix!Count, Radix!At, Still
<1>3. QuietMove(t, here, there) /\ there \notin Reads
  BY <1>1 DEF QuietMove, Skewing, Tasked, Unprepared, Reads
<1> QED
  BY <1>2, <1>3, QuietSuffices

LEMMA SecondCopyKeepsQueues ==
  ASSUME RadixInv, NEW t \in Threads, NEW x, NEW here, NEW there,
         Copying(x, here, there), here \in Skewing, Radix!Copy(t, x, here, TRUE, there)
  PROVE  QueueInv'
<1>1. \/ here = "recopy R" /\ there = "recount S"
      \/ here = "recopy S" /\ there = "skew tasks"
  BY DEF Copying, Skewing
<1>2. /\ joinPc[t] = here /\ t \notin arrived
      /\ Radix!Goto(t, there) \/ Radix!Arrive(t, there)
  BY DEF Radix!Copy, Radix!At
<1>3. Still
  BY DEF Radix!Copy, Still
<1>4. QuietMove(t, here, there) /\ there \notin Reads
  BY <1>1 DEF QuietMove, Skewing, Tasked, Unprepared, Reads
<1>5. QueueTypes' /\ DrainInv' /\ ZeroInv' /\ SumInv'
  BY <1>2, <1>3, <1>4, QueuesRest
<1>6. JoinTypes /\ Rereading
  BY <1>1, <1>2, AwakeTells DEF RadixInv, PhaseInv
<1>7. \A u \in Threads : joinPc[u] \notin Reads
  BY <1>6 DEF Rereading, InEra, Reads
<1>8. OverInv'
  <2>1. \A u \in Threads : joinPc'[u] \notin Reads
    BY <1>2, <1>4, <1>6, <1>7, ThreadMoves
  <2> QED
    BY <2>1 DEF OverInv
<1> QED
  BY <1>5, <1>8 DEF QueueInv

LEMMA SkewTaskKeepsQueues ==
  ASSUME RadixInv, NEW t \in Threads, Radix!SkewTask(t)
  PROVE  QueueInv'
<1>1. joinPc[t] = "skew task" /\ Still /\ overwritten' = overwritten
  BY DEF Radix!SkewTask, Radix!At, Still
<1>2. CASE skewTask = None
  <2>1. Radix!Goto(t, "collect")
    BY <1>2 DEF Radix!SkewTask
  <2>2. QuietMove(t, "skew task", "collect") /\ "collect" \notin Reads
    BY <1>2 DEF QuietMove, Skewing, Tasked, Unprepared, Reads
  <2> QED
    BY <1>1, <2>1, <2>2, QuietSuffices
<1>3. CASE skewTask # None
  <2>1. Radix!Arrive(t, "recount R")
    BY <1>3 DEF Radix!SkewTask
  <2>2. QuietMove(t, "skew task", "recount R") /\ "recount R" \notin Reads
    BY DEF QuietMove, Skewing, Tasked, Unprepared, Reads
  <2> QED
    BY <1>1, <2>1, <2>2, QuietSuffices
<1> QED
  BY <1>2, <1>3

\* The steps of the other threads where thread 0 alone makes the tasks.
LEMMA OthersKeepQueues ==
  ASSUME RadixInv, NEW t \in Threads, t # 0,
         \/ Radix!Prepare(t) \/ Radix!NextSkewTask(t) \/ Radix!SkewTasks(t) \/ Radix!Collect(t)
  PROVE  QueueInv'
<1>1. CASE Radix!Prepare(t)
  <2>1. /\ joinPc[t] = "prepare" /\ Radix!Arrive(t, "divide") /\ Still
        /\ overwritten' = overwritten
    BY <1>1 DEF Radix!Prepare, Radix!At, Still
  <2>2. QuietMove(t, "prepare", "divide") /\ "divide" \notin Reads
    BY DEF QuietMove, Skewing, Tasked, Reads
  <2> QED
    BY <2>1, <2>2, QuietSuffices
<1>2. CASE Radix!NextSkewTask(t)
  <2>1. /\ joinPc[t] = "skew" /\ Radix!Arrive(t, "skew task") /\ Still
        /\ overwritten' = overwritten
    BY <1>2 DEF Radix!NextSkewTask, Radix!At, Still
  <2>2. QuietMove(t, "skew", "skew task") /\ "skew task" \notin Reads
    BY DEF QuietMove, Skewing, Tasked, Reads
  <2> QED
    BY <2>1, <2>2, QuietSuffices
<1>3. CASE Radix!SkewTasks(t)
  <2>1. /\ joinPc[t] = "skew tasks" /\ Radix!Goto(t, "skew") /\ Still
        /\ overwritten' = overwritten
    BY <1>3 DEF Radix!SkewTasks, Radix!At, Still
  <2>2. QuietMove(t, "skew tasks", "skew") /\ "skew" \notin Reads
    BY DEF QuietMove, Skewing, Tasked, Reads
  <2> QED
    BY <2>1, <2>2, QuietSuffices
<1>4. CASE Radix!Collect(t)
  <2>1. /\ joinPc[t] = "collect" /\ Radix!Arrive(t, "join") /\ Still
        /\ overwritten' = overwritten
    BY <1>4 DEF Radix!Collect, Radix!At, Still
  <2>2. QuietMove(t, "collect", "join") /\ "join" \notin Reads
    BY DEF QuietMove, Skewing, Tasked, Reads
  <2> QED
    BY <2>1, <2>2, QuietSuffices
<1> QED
  BY <1>1, <1>2, <1>3, <1>4

-----------------------------------------------------------------------------
(***************************************************************************)
(* Thread 0 makes the tasks.                                               *)
(***************************************************************************)
\* Every node that pages lie on has a thread that takes its tasks.
PagesArePolled == MemoryNodes \subseteq {Radix!NodeOf(t) : t \in Threads}

LEMMA TwoParts ==
  ASSUME NEW w, \A c \in Groups : w[c] \in Nat, NEW K \in SUBSET Groups,
         NEW D \in SUBSET Groups, K \cap D = {}, \A c \in Groups \ (K \cup D) : w[c] = 0
  PROVE  /\ TotalOf(w, Groups) = TotalOf(w, K) + TotalOf(w, D)
         /\ TotalOf(w, K) \in Nat /\ TotalOf(w, D) \in Nat /\ TotalOf(w, Groups) \in Nat
<1>1. IsFiniteSet(K) /\ IsFiniteSet(D) /\ IsFiniteSet(Groups)
  BY GroupsAreFinite, FS_Subset
<1>2. PICK U : U = K \cup D
  OBVIOUS
<1>3. U \in SUBSET Groups /\ (\A c \in U : w[c] \in Nat) /\ \A c \in Groups \ U : w[c] = 0
  BY <1>2
<1>4. TotalOf(w, Groups) = TotalOf(w, U)
  BY <1>1, <1>3, TotalOnPart
<1>5. \A c \in K \cup D : w[c] \in Nat
  BY <1>2, <1>3
<1>6. TotalOf(w, K \cup D) = TotalOf(w, K) + TotalOf(w, D)
  BY <1>1, <1>5, TotalOfUnion
<1>7. TotalOf(w, K) \in Nat /\ TotalOf(w, D) \in Nat /\ TotalOf(w, Groups) \in Nat
  BY <1>1, TotalIsNat
<1> QED
  BY <1>2, <1>4, <1>6, <1>7

LEMMA StackedTotal ==
  ASSUME NEW w, \A c \in Groups : w[c] \in Nat, NEW K \in SUBSET Groups
  PROVE  /\ Radix!Stacked(K) \in Seq(Groups)
         /\ QueueTotal(w, Radix!Stacked(K)) = TotalOf(w, K)
<1>1. PICK q : q = Radix!Stacked(K)
  OBVIOUS
<1>2. /\ q \in Seq(K) /\ \A k, l \in 1 .. Len(q) : q[k] = q[l] => k = l
      /\ \A c \in K : \E k \in 1 .. Len(q) : q[k] = c
  BY <1>1, StackedHolds
<1>3. (\A c \in K : w[c] \in Nat) /\ q \in Seq(Groups)
  BY <1>2
<1>4. QueueTotal(w, q) = TotalOf(w, K)
  BY <1>2, <1>3, QueueOfSet
<1> QED
  BY <1>1, <1>3, <1>4

LEMMA StackedNothing == Radix!Stacked({}) = <<>>
<1>1. {} \in SUBSET Groups
  OBVIOUS
<1>2. PICK q : q = Radix!Stacked({})
  OBVIOUS
<1>3. q \in Seq({})
  BY <1>1, <1>2, StackedHolds
<1>4. q = <<>>
  BY <1>3
<1> QED
  BY <1>2, <1>4

\* When all have counted, the histograms together have every row.
LEMMA AllIsCounted ==
  ASSUME joinRel \in Inputs, NEW C, Shared(C), NEW x \in {"R", "S"}
  PROVE  Radix!AllCounted(x) = Radix!PassRows(x, C)
<1>1. /\ \A t \in Threads : ShareOf(x, C, t) \in SUBSET Radix!PassRows(x, C)
      /\ \A row \in Radix!PassRows(x, C) : \E t \in Threads : row \in ShareOf(x, C, t)
  BY SharesOfPass
<1>2. \A t \in Threads : counted[x][t] = ShareOf(x, C, t)
  BY DEF Shared
<1>3. Radix!AllCounted(x) = UNION {counted[x][t] : t \in Threads}
  BY JoinOptions DEF Radix!AllCounted
<1>4. \A row : row \in UNION {counted[x][t] : t \in Threads} <=> row \in Radix!PassRows(x, C)
  BY <1>1, <1>2
<1> QED
  BY <1>3, <1>4

LEMMA UnjoinableIsEmpty ==
  ASSUME joinRel \in Inputs, Shared(Groups), NEW c \in Groups, ~Radix!Joinable(c)
  PROVE  GroupWeight[c] = 0
<1>1. ASSUME NEW x \in {"R", "S"}
      PROVE  /\ Radix!TuplesOfFirst(x, c) = Cardinality(InGroup(x, c))
             /\ IsFiniteSet(InGroup(x, c)) /\ Cardinality(InGroup(x, c)) \in Nat
  <2>1. Radix!AllCounted(x) = RowsOf(x)
    BY AllIsCounted, SharesOfPass
  <2>2. {row \in Radix!AllCounted(x) : Radix!First(row, x) = c} = InGroup(x, c)
    BY <2>1 DEF InGroup, Radix!First
  <2>3. IsFiniteSet(InGroup(x, c))
    BY CellsAreRows, RowsAreNumbers, FS_Subset
  <2> QED
    BY <2>2, <2>3, FS_CardinalityType
       DEF Radix!TuplesOfFirst, Radix!Cardinality, Cardinality
<1>2. PICK x \in {"R", "S"} : ~(Radix!TuplesOfFirst(x, c) > 0)
  BY DEF Radix!Joinable
<1>3. Cardinality(InGroup(x, c)) = 0
  <2>1. PICK n : n = Cardinality(InGroup(x, c))
    OBVIOUS
  <2>2. n \in Nat /\ ~(n > 0)
    BY <1>1, <1>2, <2>1
  <2> QED
    BY <2>1, <2>2
<1>4. InGroup(x, c) = {}
  BY <1>1, <1>3, FS_EmptySet
<1>5. Cardinality(PairsOf(InGroup("R", c), InGroup("S", c))) = 0
  BY <1>4, CellsAreRows, MatchesAreFinite
<1> QED
  BY <1>5 DEF GroupWeight

LEMMA PreparePlaces ==
  ASSUME RadixInv, PagesArePolled, Radix!Prepare(0)
  PROVE  /\ joinPc[0] = "prepare" /\ 0 \notin arrived /\ Radix!Arrive(0, "divide")
         /\ joinRel' = joinRel /\ skewTask' = skewTask /\ joinQueue' = joinQueue
         /\ largeTasks' = largeTasks /\ joined' = joined /\ overwritten' = overwritten
         /\ \E K, D \in SUBSET Groups : \E page \in [Groups -> MemoryNodes] :
              /\ K \cap D = {} /\ \A c \in Groups \ (K \cup D) : ~Radix!Joinable(c)
              /\ ~joinRel.skew => K = {}
              /\ skewQueue' = Radix!Stacked(K)
              /\ partQueue' = [n \in RNodes |-> Radix!Stacked({c \in D : page[c] = n})]
<1>1. /\ joinPc[0] = "prepare" /\ 0 \notin arrived /\ Radix!Arrive(0, "divide")
      /\ joinRel' = joinRel /\ skewTask' = skewTask /\ joinQueue' = joinQueue
      /\ largeTasks' = largeTasks /\ joined' = joined /\ overwritten' = overwritten
  BY DEF Radix!Prepare, Radix!At
<1>2. PICK page \in [Groups -> MemoryNodes] :
        /\ skewQueue' = Radix!Stacked({c \in Groups : Radix!Skewed(c)})
        /\ partQueue' = [n \in RNodes |->
             Radix!Stacked({c \in Groups :
                              page[c] = n /\ Radix!Joinable(c) /\ ~Radix!Skewed(c)})]
  <2>1. Radix!Clusters = Groups /\ Radix!Nodes = RNodes
    BY JoinOptions
  <2>2. \E page \in [Radix!Clusters -> MemoryNodes] :
          /\ skewQueue' = Radix!Stacked({c \in Radix!Clusters : Radix!Skewed(c)})
          /\ partQueue' = [n \in Radix!Nodes |->
               Radix!Stacked({c \in Radix!Clusters :
                                page[c] = n /\ Radix!Joinable(c) /\ ~Radix!Skewed(c)})]
    BY DEF Radix!Prepare
  <2> QED
    BY <2>1, <2>2
<1> DEFINE K == {c \in Groups : Radix!Skewed(c)}
           D == {c \in Groups : Radix!Joinable(c) /\ ~Radix!Skewed(c)}
<1>3. \A n : {c \in Groups : page[c] = n /\ Radix!Joinable(c) /\ ~Radix!Skewed(c)}
             = {c \in D : page[c] = n}
  <2> SUFFICES ASSUME NEW n
               PROVE  {c \in Groups : page[c] = n /\ Radix!Joinable(c) /\ ~Radix!Skewed(c)}
                      = {c \in D : page[c] = n}
    OBVIOUS
  <2> QED
    OBVIOUS
<1>4. \A c \in Groups \ (K \cup D) : ~Radix!Joinable(c)
  OBVIOUS
<1>5. ~joinRel.skew => K = {}
  BY DEF Radix!Skewed, Radix!SkewHandling
<1>6. K \in SUBSET Groups /\ D \in SUBSET Groups /\ K \cap D = {}
  OBVIOUS
<1>7. partQueue' = [n \in RNodes |-> Radix!Stacked({c \in D : page[c] = n})]
  <2> HIDE DEF D
  <2> QED
    BY <1>2, <1>3
<1>8. skewQueue' = Radix!Stacked(K)
  BY <1>2
<1> HIDE DEF K, D
<1> QED
  BY <1>1, <1>4, <1>5, <1>6, <1>7, <1>8

LEMMA PrepareKeepsQueues ==
  ASSUME RadixInv, PagesArePolled, Radix!Prepare(0)
  PROVE  QueueInv'
<1>1. /\ joinPc[0] = "prepare" /\ 0 \notin arrived /\ Radix!Arrive(0, "divide")
      /\ joinRel' = joinRel /\ skewTask' = skewTask /\ joinQueue' = joinQueue
      /\ largeTasks' = largeTasks /\ joined' = joined /\ overwritten' = overwritten
  BY PreparePlaces
<1>2. PICK K, D \in SUBSET Groups, page \in [Groups -> MemoryNodes] :
        /\ K \cap D = {} /\ \A c \in Groups \ (K \cup D) : ~Radix!Joinable(c)
        /\ ~joinRel.skew => K = {}
        /\ skewQueue' = Radix!Stacked(K)
        /\ partQueue' = [n \in RNodes |-> Radix!Stacked({c \in D : page[c] = n})]
  BY PreparePlaces
<1>3. JoinTypes /\ Preparing /\ QueueTypes /\ joinRel \in Inputs /\ 0 \in Threads
  BY <1>1, AwakeTells, JoinOptions DEF RadixInv, PhaseInv, JoinTypes
<1>4. InEra({"prepare"}, {"divide"}) /\ Shared(Groups)
  BY <1>3 DEF Preparing
<1>5. Blank /\ skewTask = None
  BY <1>1 DEF RadixInv, SumInv, ZeroInv, Unprepared, Skewing
<1>6. PICK w, v : w = GroupWeight /\ v = TaskWeight
  OBVIOUS
<1>7. \A c \in Groups : w[c] \in Nat
  BY <1>3, <1>6, GroupsAddUp
<1>8. \A c \in Groups \ (K \cup D) : w[c] = 0
  BY <1>2, <1>3, <1>4, <1>6, UnjoinableIsEmpty
<1>9. /\ TotalOf(w, Groups) = TotalOf(w, K) + TotalOf(w, D)
      /\ TotalOf(w, K) \in Nat /\ TotalOf(w, D) \in Nat /\ TotalOf(w, Groups) \in Nat
  BY <1>2, <1>7, <1>8, TwoParts
<1>10. PICK p, j, sq, lt, g :
         p = partQueue' /\ j = joinQueue' /\ sq = skewQueue' /\ lt = largeTasks' /\ g = joined'
  OBVIOUS
<1>11. sq \in Seq(Groups) /\ QueueTotal(w, sq) = TotalOf(w, K)
  BY <1>2, <1>7, <1>10, StackedTotal
<1>12. \A c \in D : page[c] \in RNodes
  BY <1>2, JoinOptions
<1>13. p \in [RNodes -> Seq(Groups)] /\ TotalOf(NodeWeights(w, v, p, j), RNodes) = TotalOf(w, D)
  <2>1. /\ p = [n \in RNodes |-> Radix!Stacked({c \in D : page[c] = n})]
        /\ j = [n \in RNodes |-> <<>>]
    BY <1>1, <1>2, <1>5, <1>10 DEF Blank
  <2>2. Placed(p, j, D, page)
    BY <1>12, <2>1 DEF Placed
  <2> QED
    BY <1>7, <2>2, ClustersPlaced
<1>14. QueueTypes'
  BY <1>1, <1>3, <1>10, <1>11, <1>13, WeightsStay DEF QueueTypes
<1>15. TotalOf(g, Threads) = 0 /\ QueueTotal(v, lt) = 0
  <2>1. (\A t \in Threads : g[t] = 0) /\ lt = <<>>
    BY <1>1, <1>5, <1>10 DEF Blank
  <2> QED
    BY <2>1, ThreadsAreFinite, TotalOfZeros, QueueOfNothing
<1>16. InTask' = 0
  BY <1>1, <1>5 DEF InTask, Radix!InSkewTask
<1>17. Ledger(w, v, p, j, sq, lt, g, 0)
  BY <1>9, <1>11, <1>13, <1>15 DEF Ledger, Accounts
<1>18. Accounted'
  BY <1>1, <1>6, <1>10, <1>16, <1>17, LedgerGoesOn
<1>19. joinPc'[0] = "divide" /\ \A u \in Threads : joinPc'[u] \in {"prepare", "divide"}
  <2>1. joinPc'[0] = "divide" /\ \A u \in Threads : u # 0 => joinPc'[u] = joinPc[u]
    BY <1>1, <1>3, ThreadMoves
  <2>2. \A u \in Threads : joinPc[u] \in {"prepare", "divide"}
    BY <1>4 DEF InEra
  <2> QED
    BY <2>1, <2>2
<1>20. SumInv'
  BY <1>18, <1>19 DEF SumInv, Unprepared, Reads
<1>21. OverInv'
  BY <1>19 DEF OverInv, Reads
<1>22. ZeroInv'
  <2>1. ~joinRel'.skew => skewQueue' = <<>>
    BY <1>1, <1>2, StackedNothing
  <2> QED
    BY <1>1, <1>5, <1>19, <2>1 DEF ZeroInv, Skewing, Tasked
<1>23. DrainInv'
  <2>1. ASSUME NEW n \in RNodes, ~Polled(n) PROVE partQueue'[n] = <<>> /\ joinQueue'[n] = <<>>
    <3>1. n \notin MemoryNodes
      BY <2>1 DEF PagesArePolled, Polled
    <3>2. {c \in D : page[c] = n} = {}
      BY <1>2, <3>1
    <3>3. partQueue'[n] = <<>>
      BY <1>2, <3>2, StackedNothing
    <3> QED
      BY <1>1, <1>5, <3>3 DEF Blank
  <2>2. \A n : Polled(n)' <=> Polled(n)
    BY DEF Polled, Radix!NodeOf
  <2> QED
    BY <1>19, <2>1, <2>2 DEF DrainInv, Skewing, Tasked
<1> QED
  BY <1>14, <1>20, <1>21, <1>22, <1>23 DEF QueueInv

-----------------------------------------------------------------------------
(***************************************************************************)
(* A cluster divided, a skewed one taken up.                               *)
(***************************************************************************)
LEMMA DivideEra ==
  ASSUME PhaseInv, NEW t \in Threads, joinPc[t] = "divide", t \notin arrived
  PROVE  /\ JoinTypes /\ joinRel \in Inputs /\ Whole
         /\ \A u \in Threads : joinPc[u] \notin Unprepared /\ joinPc[u] # "done"
<1>1. JoinTypes /\ IF joinRel.skew THEN Tasking ELSE Collecting
  BY AwakeTells DEF PhaseInv
<1>2. CASE joinRel.skew
  BY <1>1, <1>2 DEF Tasking, InEra, Unprepared, Reads, JoinTypes
<1>3. CASE ~joinRel.skew
  BY <1>1, <1>3 DEF Collecting, InEra, Unprepared, Reads, JoinTypes
<1> QED
  BY <1>2, <1>3

LEMMA DivideKeepsQueues ==
  ASSUME RadixInv, NEW t \in Threads, Radix!Divide(t)
  PROVE  QueueInv'
<1>1. /\ joinPc[t] = "divide" /\ t \notin arrived /\ joinRel' = joinRel
      /\ skewQueue' = skewQueue /\ skewTask' = skewTask
      /\ largeTasks' = largeTasks /\ joined' = joined
  BY DEF Radix!Divide, Radix!At
<1>2. PICK b : b = Radix!NodeOf(t)
  OBVIOUS
<1>3. b \in RNodes /\ Polled(b)
  BY <1>2, NodeIsPolled
<1>4. /\ JoinTypes /\ joinRel \in Inputs /\ Whole /\ 0 \in Threads
      /\ \A u \in Threads : joinPc[u] \notin Unprepared /\ joinPc[u] # "done"
  BY <1>1, DivideEra, JoinOptions DEF RadixInv
<1>5. QueueTypes /\ DrainInv /\ ZeroInv /\ SumInv /\ OverInv
  BY DEF RadixInv
<1>6. CASE partQueue[b] = <<>>
  <2>1. /\ Radix!Goto(t, IF joinRel.skew THEN "skew" ELSE "collect")
        /\ partQueue' = partQueue /\ joinQueue' = joinQueue /\ overwritten' = overwritten
    BY <1>2, <1>6 DEF Radix!Divide, Radix!SkewHandling
  <2>2. Still
    BY <1>1, <2>1 DEF Still
  <2>3. PICK there : there = IF joinRel.skew THEN "skew" ELSE "collect"
    OBVIOUS
  <2>4. t = 0 => skewTask = None /\ (~joinRel.skew => skewQueue = <<>>)
    BY <1>1, <1>5 DEF ZeroInv, Skewing
  <2>5. QuietMove(t, "divide", there) /\ there \notin Reads
    BY <1>2, <1>6, <2>3, <2>4 DEF QuietMove, Skewing, Tasked, Unprepared, Reads
  <2> QED
    BY <1>1, <2>1, <2>2, <2>3, <2>5, QuietSuffices
<1>7. CASE partQueue[b] # <<>>
  <2>1. PICK c, q : c = Head(partQueue[b]) /\ q = Radix!SerialTasks(c)
    OBVIOUS
  <2>2. /\ joinPc' = joinPc /\ overwritten' = TRUE
        /\ partQueue' = [partQueue EXCEPT ![b] = Tail(partQueue[b])]
        /\ joinQueue' = [joinQueue EXCEPT ![b] = q \o joinQueue[b]]
    BY <1>2, <1>7, <2>1 DEF Radix!Divide
  <2>3. PICK p, j, r, k :
          p = partQueue /\ j = joinQueue /\ r = partQueue' /\ k = joinQueue'
    OBVIOUS
  <2>4. p[b] \in Seq(Groups) /\ j[b] \in Seq(JoinTasks) /\ p[b] # <<>>
    BY <1>3, <1>5, <1>7, <2>3 DEF QueueTypes
  <2>5. c \in Groups /\ Tail(p[b]) \in Seq(Groups)
    BY <2>1, <2>3, <2>4
  <2>6. q \in Seq(JoinTasks) /\ QueueTotal(TaskWeight, q) = GroupWeight[c]
    BY <1>4, <2>1, <2>5, SerialTasksHold
  <2>7. PICK w, v, X : w = GroupWeight /\ v = TaskWeight /\ X = JoinTasks
    OBVIOUS
  <2>8. Weights(w, v, X) /\ Queues(p, j, X)
    BY <1>4, <1>5, <2>3, <2>7, WeightsAreNat
  <2>9. q \o j[b] \in Seq(X)
    BY <2>4, <2>6, <2>7
  <2>10. r = [p EXCEPT ![b] = Tail(p[b])] /\ k = [j EXCEPT ![b] = q \o j[b]]
    BY <2>2, <2>3
  <2>11. /\ Queues(r, k, X) /\ r[b] = Tail(p[b]) /\ k[b] = q \o j[b]
         /\ ChangedAt(b, p, j, r, k)
    <3>1. PICK u, s : u = Tail(p[b]) /\ s = q \o j[b]
      OBVIOUS
    <3>2. u \in Seq(Groups) /\ s \in Seq(X) /\ SetAt(b, p, j, r, k, u, s)
      BY <2>5, <2>9, <2>10, <3>1 DEF SetAt
    <3> QED
      BY <1>3, <2>8, <3>1, <3>2, QueuesReplaced
  <2>12. QueueTotal(v, q) = w[Head(p[b])]
    BY <2>1, <2>3, <2>6, <2>7
  <2>13. TotalOf(NodeWeights(w, v, r, k), RNodes) = TotalOf(NodeWeights(w, v, p, j), RNodes)
    <3>1. Divides(w, v, X, b, p, j, r, k, q)
      BY <2>4, <2>6, <2>7, <2>8, <2>11, <2>12 DEF Divides
    <3> QED
      BY <1>3, <3>1, ClusterDivided
  <2>14. QueueTypes'
    <3>1. JoinTasks' = X
      BY <1>1, <2>7, WeightsStay
    <3> QED
      BY <1>1, <1>5, <2>3, <2>7, <2>11, <3>1 DEF QueueTypes, Queues
  <2>15. Accounted
    BY <1>4, <1>5 DEF SumInv
  <2>16. Accounted'
    <3>1. PICK sq, lt, g, x :
            Books(w, v, p, j, sq, lt, g, x) /\ Ledger(w, v, p, j, sq, lt, g, x)
      BY <2>3, <2>7, <2>15 DEF Accounted, Books
    <3>2. Ledger(w, v, r, k, sq, lt, g, x)
      BY <2>13, <3>1 DEF Ledger
    <3>3. InTask' = x
      <4>1. GroupWeight' = GroupWeight
        BY <1>1, WeightsStay
      <4> QED
        BY <1>1, <2>2, <3>1, <4>1 DEF InTask, Radix!InSkewTask, Books
    <3>4. skewQueue' = sq /\ largeTasks' = lt /\ joined' = g
      BY <1>1, <3>1 DEF Books
    <3> QED
      BY <1>1, <2>3, <2>7, <3>2, <3>3, <3>4, LedgerGoesOn
  <2>17. SumInv'
    BY <1>4, <2>2, <2>16 DEF SumInv
  <2>18. OverInv'
    BY <1>4, <2>2 DEF OverInv, Unprepared
  <2>19. ZeroInv'
    BY <1>1, <1>5, <2>2 DEF ZeroInv
  <2>20. DrainInv'
    <3>1. \A n \in RNodes : n # b => partQueue'[n] = partQueue[n] /\ joinQueue'[n] = joinQueue[n]
      BY <2>3, <2>11 DEF ChangedAt
    <3>2. \A u \in Threads : joinPc'[u] # "done" /\ joinPc'[u] = joinPc[u]
      BY <1>4, <2>2
    <3> QED
      BY <1>3, <1>5, <1>7, <3>1, <3>2, DrainStays
  <2> QED
    BY <2>14, <2>17, <2>18, <2>19, <2>20 DEF QueueInv
<1> QED
  BY <1>6, <1>7

LEMMA NextSkewTaskKeepsQueues ==
  ASSUME RadixInv, Radix!NextSkewTask(0)
  PROVE  QueueInv'
<1>1. /\ joinPc[0] = "skew" /\ 0 \notin arrived /\ Radix!Arrive(0, "skew task")
      /\ joinRel' = joinRel /\ partQueue' = partQueue /\ joinQueue' = joinQueue
      /\ largeTasks' = largeTasks /\ joined' = joined /\ overwritten' = overwritten
      /\ IF skewQueue = <<>> THEN skewTask' = None /\ skewQueue' = skewQueue
         ELSE skewTask' = Head(skewQueue) /\ skewQueue' = Tail(skewQueue)
  BY DEF Radix!NextSkewTask, Radix!At
<1>2. QueueTypes /\ DrainInv /\ ZeroInv /\ SumInv /\ OverInv /\ PhaseInv /\ 0 \in Threads
  BY JoinOptions DEF RadixInv
<1>3. JoinTypes /\ Tasking /\ joinRel \in Inputs /\ joinRel.skew
  BY <1>1, <1>2, AwakeTells DEF PhaseInv, Tasking, JoinTypes
<1>4. joinPc'[0] = "skew task" /\ \A u \in Threads : u # 0 => joinPc'[u] = joinPc[u]
  BY <1>1, <1>2, <1>3, ThreadMoves
<1>5. OverInv'
  <2>1. "skew task" \notin Reads
    BY DEF Reads
  <2> QED
    BY <1>1, <1>2, <1>3, <2>1, OverStays
<1>6. DrainInv'
  <2>1. Radix!NodeOf(0) \in RNodes /\ Polled(Radix!NodeOf(0))
    BY <1>2, NodeIsPolled
  <2>2. \A u \in Threads : joinPc'[u] \in Skewing \cup Tasked => joinPc[u] \in Skewing \cup Tasked
    BY <1>1, <1>4 DEF Skewing
  <2>3. \A u \in Threads : joinPc'[u] = "done" => joinPc[u] = "done"
    BY <1>4
  <2> QED
    BY <1>1, <1>2, <2>1, <2>2, <2>3, DrainStays
<1>7. PICK w, v, p, j, sq, lt, g, x :
        Books(w, v, p, j, sq, lt, g, x) /\ Ledger(w, v, p, j, sq, lt, g, x)
  BY <1>1, <1>2 DEF SumInv, Unprepared, Reads, Accounted
<1>8. x = 0 /\ sq = skewQueue /\ w = GroupWeight /\ sq \in Seq(Groups)
  BY <1>1, <1>2, <1>7 DEF Books, InTask, Radix!InSkewTask, QueueTypes
<1>9. \A c \in Groups : w[c] \in Nat
  BY <1>3, <1>8, GroupsAddUp
<1>10. PICK s, h : s = skewQueue' /\ h = InTask'
  OBVIOUS
<1>11. /\ s \in Seq(Groups) /\ skewTask' \in Groups \cup {None}
       /\ QueueTotal(w, s) \in Nat /\ h \in Nat /\ QueueTotal(w, sq) = QueueTotal(w, s) + h
       /\ skewTask' = None => s = <<>>
  <2>1. CASE sq = <<>>
    <3>1. h = 0 /\ s = sq /\ skewTask' = None
      BY <1>1, <1>8, <1>10, <2>1 DEF InTask, Radix!InSkewTask
    <3>2. QueueTotal(w, sq) = 0
      BY <2>1, QueueOfNothing
    <3> QED
      BY <1>8, <2>1, <3>1, <3>2
  <2>2. CASE sq # <<>>
    <3>1. /\ Head(sq) \in Groups /\ Tail(sq) \in Seq(Groups) /\ w[Head(sq)] \in Nat
          /\ QueueTotal(w, Tail(sq)) \in Nat
          /\ QueueTotal(w, sq) = w[Head(sq)] + QueueTotal(w, Tail(sq))
      BY <1>8, <1>9, <2>2, QueueOfHead
    <3>2. skewTask' = Head(sq) /\ s = Tail(sq)
      BY <1>1, <1>8, <1>10, <2>2
    <3>3. skewTask' # None /\ GroupWeight' = w
      BY <1>1, <1>8, <3>1, <3>2, JoinOptions, WeightsStay
    <3>4. h = w[Head(sq)]
      BY <1>4, <1>10, <3>2, <3>3 DEF InTask, Radix!InSkewTask
    <3>5. PICK m, n : m = w[Head(sq)] /\ n = QueueTotal(w, s)
      OBVIOUS
    <3>6. m \in Nat /\ n \in Nat /\ QueueTotal(w, sq) = m + n /\ h = m
      BY <3>1, <3>2, <3>4, <3>5
    <3>7. QueueTotal(w, sq) = n + h
      BY <3>6
    <3> QED
      BY <3>1, <3>2, <3>3, <3>5, <3>6, <3>7
  <2> QED
    BY <2>1, <2>2
<1>12. Ledger(w, v, p, j, s, lt, g, h)
  <2>1. PICK ta, tb, tc, td, te, td2 :
          /\ ta = TotalOf(g, Threads) /\ tb = TotalOf(NodeWeights(w, v, p, j), RNodes)
          /\ tc = QueueTotal(w, sq) /\ td = QueueTotal(v, lt) /\ te = TotalOf(w, Groups)
          /\ td2 = QueueTotal(w, s)
    OBVIOUS
  <2>2. Accounts(ta, tb, tc, td, 0, te)
    BY <1>7, <1>8, <2>1 DEF Ledger
  <2>3. Accounts(ta, tb, td2, td, h, te)
    BY <1>11, <2>1, <2>2 DEF Accounts
  <2> QED
    BY <2>1, <2>3 DEF Ledger
<1>13. Accounted'
  <2>1. v = TaskWeight /\ partQueue' = p /\ joinQueue' = j /\ largeTasks' = lt /\ joined' = g
    BY <1>1, <1>7 DEF Books
  <2> QED
    BY <1>1, <1>8, <1>10, <1>12, <2>1, LedgerGoesOn
<1>14. SumInv'
  BY <1>4, <1>13 DEF SumInv, Unprepared, Reads
<1>15. QueueTypes'
  BY <1>1, <1>2, <1>10, <1>11, WeightsStay DEF QueueTypes
<1>16. ZeroInv'
  BY <1>1, <1>3, <1>4, <1>10, <1>11 DEF ZeroInv, Skewing, Tasked
<1> QED
  BY <1>5, <1>6, <1>14, <1>15, <1>16 DEF QueueInv

-----------------------------------------------------------------------------
(***************************************************************************)
(* The tasks of a skewed cluster, and the join.                            *)
(***************************************************************************)
\* With skew handling, no cluster of the second pass has so many tuples of S
\* that its join is shared by all, and no tuple of R.
LargeHasBuild ==
  \A in \in Inputs : in.skew => \A c, d \in Groups :
    Cardinality({row \in DOMAIN in["S"] : in["S"][row] = <<c, d>>}) > LargeLimit =>
      \E row \in DOMAIN in["R"] : in["R"][row] = <<c, d>>

LEMMA SameOperators ==
  /\ \A q : Radix!FlattenSeq(q) = FlattenSeq(q)
  /\ \A q : Radix!Reverse(q) = Reverse(q)
BY DEF Radix!FlattenSeq, FlattenSeq, Radix!Reverse, Reverse

LEMMA SecondCounts ==
  ASSUME joinRel \in Inputs, NEW c \in Groups, Shared({c}), NEW d \in Groups,
         NEW x \in {"R", "S"}
  PROVE  /\ Radix!TuplesOfSecond(x, d) = Cardinality(Cell(x, c, d))
         /\ Cardinality(Cell(x, c, d)) \in Nat
         /\ Cell(x, c, d) = {} => Cardinality(Cell(x, c, d)) = 0
<1>1. Radix!AllCounted(x) = InGroup(x, c)
  BY AllIsCounted, PairsArePairs
<1>2. \A row \in InGroup(x, c) : Radix!Second(row, x) = d <=> joinRel[x][row] = <<c, d>>
  <2> SUFFICES ASSUME NEW row \in InGroup(x, c)
               PROVE  Radix!Second(row, x) = d <=> joinRel[x][row] = <<c, d>>
    OBVIOUS
  <2>1. row \in RowsOf(x) /\ joinRel[x][row][1] = c
    BY DEF InGroup
  <2>2. joinRel[x][row] \in Groups \X Groups
    BY <2>1, RowsAreNumbers
  <2>3. joinRel[x][row] = <<joinRel[x][row][1], joinRel[x][row][2]>>
    BY <2>2
  <2> QED
    BY <2>1, <2>3 DEF Radix!Second
<1>3. {row \in InGroup(x, c) : joinRel[x][row] = <<c, d>>} = Cell(x, c, d)
  <2>1. \A row \in Cell(x, c, d) : row \in InGroup(x, c) /\ joinRel[x][row] = <<c, d>>
    BY CellsAreRows DEF Cell
  <2>2. \A row \in InGroup(x, c) : joinRel[x][row] = <<c, d>> => row \in Cell(x, c, d)
    BY DEF InGroup, Cell
  <2> QED
    BY <2>1, <2>2
<1>4. {row \in Radix!AllCounted(x) : Radix!Second(row, x) = d} = Cell(x, c, d)
  BY <1>1, <1>2, <1>3
<1>5. Radix!TuplesOfSecond(x, d) = Cardinality(Cell(x, c, d))
  BY <1>4 DEF Radix!TuplesOfSecond, Radix!Cardinality, Cardinality
<1>6. IsFiniteSet(Cell(x, c, d))
  BY CellsAreRows, RowsAreNumbers, FS_Subset
<1> QED
  BY <1>5, <1>6, FS_CardinalityType, FS_EmptySet

LEMMA LargeHasTuples ==
  ASSUME joinRel \in Inputs, joinRel.skew, LargeHasBuild, NEW c \in Groups, Shared({c}),
         NEW d \in Groups, Radix!Large(d)
  PROVE  Cell("R", c, d) # {}
<1>1. LargeLimit \in Nat
  BY JoinOptions
<1>2. CASE Radix!TuplesOfSecond("R", d) > LargeLimit
  <2>1. PICK n : n = Cardinality(Cell("R", c, d))
    OBVIOUS
  <2>2. n \in Nat /\ n > LargeLimit /\ (Cell("R", c, d) = {} => n = 0)
    BY <1>2, <2>1, SecondCounts
  <2> QED
    BY <1>1, <2>2
<1>3. CASE Radix!TuplesOfSecond("S", d) > LargeLimit
  <2>1. Cardinality(Cell("S", c, d)) > LargeLimit
    BY <1>3, SecondCounts
  <2>2. Cell("S", c, d) = {row \in DOMAIN joinRel["S"] : joinRel["S"][row] = <<c, d>>}
    BY DEF Cell, RowsOf
  <2>3. \E row \in DOMAIN joinRel["R"] : joinRel["R"][row] = <<c, d>>
    BY <2>1, <2>2 DEF LargeHasBuild
  <2> QED
    BY <2>3 DEF Cell, RowsOf
<1> QED
  BY <1>2, <1>3 DEF Radix!Large

\* The tasks of a skewed cluster hold its matches.
Larges == {d \in Groups : Radix!Large(d)}
Smalls(c) == {d \in Groups \ Larges : Radix!BothSides(c, d)}
SharesOf(tasks) == [k \in DOMAIN tasks |-> Radix!SharedTasks(tasks[k].R, tasks[k].S)]

LEMMA SkewedIsDivided ==
  ASSUME joinRel \in Inputs, joinRel.skew, LargeHasBuild, Whole, NEW c \in Groups, Shared({c}),
         NEW q, q = Radix!TasksOf(c, Smalls(c)),
         NEW s, s = FlattenSeq(SharesOf(Radix!TasksOf(c, Larges)))
  PROVE  /\ q \in Seq(JoinTasks) /\ s \in Seq(JoinTasks)
         /\ QueueTotal(TaskWeight, q) \in Nat /\ QueueTotal(TaskWeight, s) \in Nat
         /\ GroupWeight[c] = QueueTotal(TaskWeight, q) + QueueTotal(TaskWeight, s)
<1>1. PICK L, D, w : L = Larges /\ D = Smalls(c) /\ w = CellWeight(c)
  OBVIOUS
<1>2. L \in SUBSET Groups /\ D \in SUBSET Groups /\ L \cap D = {}
  BY <1>1 DEF Larges, Smalls
<1>3. \A d : Radix!BothSides(c, d) <=> Cell("R", c, d) # {} /\ Cell("S", c, d) # {}
  BY PartIsCell DEF Radix!BothSides
<1>4. /\ \A d \in L : Cell("R", c, d) # {}
      /\ \A d \in D : Cell("R", c, d) # {}
  BY <1>1, <1>3, LargeHasTuples DEF Larges, Smalls
<1>5. (\A d \in Groups : w[d] \in Nat) /\ TotalOf(w, Groups) = GroupWeight[c]
  BY <1>1, CellsAddUp
<1>6. \A d \in Groups \ (L \cup D) : w[d] = 0
  <2> SUFFICES ASSUME NEW d \in Groups, d \notin L, d \notin D PROVE w[d] = 0
    OBVIOUS
  <2>1. Cell("R", c, d) = {} \/ Cell("S", c, d) = {}
    BY <1>1, <1>3 DEF Larges, Smalls
  <2> QED
    BY <1>1, <2>1, EmptyCells
<1>7. /\ TotalOf(w, Groups) = TotalOf(w, L) + TotalOf(w, D)
      /\ TotalOf(w, L) \in Nat /\ TotalOf(w, D) \in Nat
  BY <1>2, <1>5, <1>6, TwoParts
<1>8. q \in Seq(JoinTasks) /\ QueueTotal(TaskWeight, q) = TotalOf(w, D)
  BY <1>1, <1>2, <1>4, TasksOfHold
<1>9. PICK tasks : tasks = Radix!TasksOf(c, L)
  OBVIOUS
<1>10. tasks \in Seq(JoinTasks) /\ QueueTotal(TaskWeight, tasks) = TotalOf(w, L)
  BY <1>1, <1>2, <1>4, <1>9, TasksOfHold
<1>11. s \in Seq(JoinTasks) /\ QueueTotal(TaskWeight, s) = QueueTotal(TaskWeight, tasks)
  <2>1. PICK qs : qs = SharesOf(tasks)
    OBVIOUS
  <2>2. qs = [k \in DOMAIN tasks |-> Radix!SharedTasks(tasks[k].R, tasks[k].S)]
    BY <2>1 DEF SharesOf
  <2>3. /\ FlattenSeq(qs) \in Seq(JoinTasks)
        /\ QueueTotal(TaskWeight, FlattenSeq(qs)) = QueueTotal(TaskWeight, tasks)
    BY <1>10, <2>2, LargeTasksHold
  <2> QED
    BY <1>1, <1>9, <2>1, <2>3
<1>12. PICK a, b : a = TotalOf(w, L) /\ b = TotalOf(w, D)
  OBVIOUS
<1>13. a \in Nat /\ b \in Nat /\ GroupWeight[c] = b + a
  BY <1>5, <1>7, <1>12
<1> QED
  BY <1>8, <1>10, <1>11, <1>12, <1>13

\* Tasks pushed at a node, from the state and from what it becomes.
Pushes(k, b, q) == k = [joinQueue EXCEPT ![b] = q \o joinQueue[b]]
PushedWeight(k, q) ==
  \A w, v, p, j : w = GroupWeight /\ v = TaskWeight /\ p = partQueue /\ j = joinQueue =>
    TotalOf(NodeWeights(w, v, p, k), RNodes) =
      TotalOf(NodeWeights(w, v, p, j), RNodes) + QueueTotal(v, q)

Pushing(w, v, X, b, p, j, k, q) ==
  /\ Weights(w, v, X) /\ Queues(p, j, X) /\ b \in RNodes /\ q \in Seq(X)
  /\ k = [j EXCEPT ![b] = q \o j[b]]
Pushed(w, v, X, b, p, j, k, q) ==
  /\ k \in [RNodes -> Seq(X)] /\ \A n \in RNodes : n # b => k[n] = j[n]
  /\ QueueTotal(v, q) \in Nat
  /\ TotalOf(NodeWeights(w, v, p, k), RNodes) =
       TotalOf(NodeWeights(w, v, p, j), RNodes) + QueueTotal(v, q)

LEMMA PushingAdds ==
  ASSUME NEW w, NEW v, NEW X, NEW b, NEW p, NEW j, NEW k, NEW q,
         Pushing(w, v, X, b, p, j, k, q)
  PROVE  Pushed(w, v, X, b, p, j, k, q)
<1>1. Weights(w, v, X) /\ Queues(p, j, X) /\ b \in RNodes /\ q \in Seq(X)
  BY DEF Pushing
<1>2. q \o j[b] \in Seq(X)
  <2>1. j[b] \in Seq(X)
    BY <1>1 DEF Queues
  <2> QED
    BY <1>1, <2>1
<1>3. Queues(p, k, X) /\ k[b] = q \o j[b] /\ ChangedAt(b, p, j, p, k)
  <2>1. j \in [RNodes -> Seq(X)] /\ p \in [RNodes -> Seq(Groups)]
    BY <1>1 DEF Queues
  <2>2. PICK s : s = q \o j[b]
    OBVIOUS
  <2>3. k = [j EXCEPT ![b] = s] /\ s \in Seq(X)
    BY <1>2, <2>2 DEF Pushing
  <2>4. k \in [RNodes -> Seq(X)] /\ k[b] = s /\ \A n \in RNodes : n # b => k[n] = j[n]
    BY <1>1, <2>1, <2>3
  <2> QED
    BY <2>1, <2>2, <2>4 DEF Queues, ChangedAt
<1>4. /\ QueueTotal(v, q) \in Nat
      /\ TotalOf(NodeWeights(w, v, p, k), RNodes) =
           TotalOf(NodeWeights(w, v, p, j), RNodes) + QueueTotal(v, q)
  BY <1>1, <1>3, TasksPushed
<1>5. k \in [RNodes -> Seq(X)] /\ \A n \in RNodes : n # b => k[n] = j[n]
  BY <1>3 DEF Queues, ChangedAt
<1> QED
  BY <1>4, <1>5 DEF Pushed

LEMMA PushedAt ==
  ASSUME joinRel \in Inputs, QueueTypes, NEW b \in RNodes, NEW q \in Seq(JoinTasks),
         NEW k, Pushes(k, b, q)
  PROVE  /\ k \in [RNodes -> Seq(JoinTasks)]
         /\ \A n \in RNodes : n # b => k[n] = joinQueue[n]
         /\ PushedWeight(k, q) /\ QueueTotal(TaskWeight, q) \in Nat
<1>1. PICK w, v, p, j, X :
        w = GroupWeight /\ v = TaskWeight /\ p = partQueue /\ j = joinQueue /\ X = JoinTasks
  OBVIOUS
<1>2. Weights(w, v, X) /\ Queues(p, j, X)
  BY <1>1, WeightsAreNat
<1>3. Pushing(w, v, X, b, p, j, k, q)
  BY <1>1, <1>2 DEF Pushes, Pushing
<1>4. Pushed(w, v, X, b, p, j, k, q)
  BY <1>3, PushingAdds
<1>5. PushedWeight(k, q)
  BY <1>1, <1>4 DEF PushedWeight, Pushed
<1> QED
  BY <1>1, <1>4, <1>5 DEF Pushed

LEMMA SkewTasksKeepsQueues ==
  ASSUME RadixInv, LargeHasBuild, Radix!SkewTasks(0)
  PROVE  QueueInv'
<1>1. /\ joinPc[0] = "skew tasks" /\ 0 \notin arrived /\ Radix!Goto(0, "skew")
      /\ joinRel' = joinRel /\ partQueue' = partQueue /\ skewQueue' = skewQueue
      /\ skewTask' = skewTask /\ joined' = joined /\ overwritten' = overwritten
  BY DEF Radix!SkewTasks, Radix!At
<1>2. QueueTypes /\ DrainInv /\ ZeroInv /\ SumInv /\ OverInv /\ PhaseInv /\ 0 \in Threads
  BY JoinOptions DEF RadixInv
<1>3. JoinTypes /\ Tasking /\ joinRel \in Inputs /\ joinRel.skew /\ Whole
  BY <1>1, <1>2, AwakeTells DEF PhaseInv, Tasking, JoinTypes
<1>4. PICK c \in Groups : skewTask = c /\ Shared({c})
  BY <1>1, <1>3 DEF Tasking
<1>5. PICK b : b = Radix!NodeOf(0)
  OBVIOUS
<1>6. b \in RNodes /\ Polled(b)
  BY <1>2, <1>5, NodeIsPolled
<1>7. PICK q, s : q = Radix!TasksOf(c, Smalls(c))
                  /\ s = FlattenSeq(SharesOf(Radix!TasksOf(c, Larges)))
  OBVIOUS
<1>8. /\ joinQueue' = [joinQueue EXCEPT ![b] = q \o joinQueue[b]]
      /\ largeTasks' = s \o largeTasks
  <2>1. Radix!Clusters = Groups
    BY JoinOptions
  <2> DEFINE large == {d \in Radix!Clusters : Radix!Large(d)}
             small == {d \in Radix!Clusters \ large : Radix!BothSides(skewTask, d)}
             tasks == Radix!TasksOf(skewTask, large)
  <2>2. /\ joinQueue' = [joinQueue EXCEPT ![b] = Radix!TasksOf(skewTask, small) \o joinQueue[b]]
        /\ largeTasks' =
             Radix!FlattenSeq([k \in DOMAIN tasks |->
                                 Radix!SharedTasks(tasks[k].R, tasks[k].S)]) \o largeTasks
    BY <1>5 DEF Radix!SkewTasks
  <2>3. large = Larges /\ small = Smalls(c)
    BY <1>4, <2>1 DEF Larges, Smalls
  <2>4. tasks = Radix!TasksOf(c, Larges)
    BY <1>4, <2>3
  <2>5. [k \in DOMAIN tasks |-> Radix!SharedTasks(tasks[k].R, tasks[k].S)]
        = SharesOf(Radix!TasksOf(c, Larges))
    <3> HIDE DEF tasks
    <3> QED
      BY <2>4 DEF SharesOf
  <2> HIDE DEF tasks, small, large
  <2>6. joinQueue' = [joinQueue EXCEPT ![b] = q \o joinQueue[b]]
    BY <1>4, <1>7, <2>2, <2>3
  <2>7. largeTasks' = s \o largeTasks
    BY <1>7, <2>2, <2>5, SameOperators
  <2> QED
    BY <2>6, <2>7
<1>9. /\ q \in Seq(JoinTasks) /\ s \in Seq(JoinTasks)
      /\ QueueTotal(TaskWeight, q) \in Nat /\ QueueTotal(TaskWeight, s) \in Nat
      /\ GroupWeight[c] = QueueTotal(TaskWeight, q) + QueueTotal(TaskWeight, s)
  BY <1>3, <1>4, <1>7, SkewedIsDivided
<1>10. PICK k, l : k = joinQueue' /\ l = largeTasks'
  OBVIOUS
<1>11. /\ k \in [RNodes -> Seq(JoinTasks)] /\ \A n \in RNodes : n # b => k[n] = joinQueue[n]
       /\ PushedWeight(k, q)
  <2>1. Pushes(k, b, q)
    BY <1>8, <1>10 DEF Pushes
  <2> QED
    BY <1>2, <1>3, <1>6, <1>9, <2>1, PushedAt
<1>12. /\ l \in Seq(JoinTasks)
       /\ QueueTotal(TaskWeight, l) = QueueTotal(TaskWeight, s) + QueueTotal(TaskWeight, largeTasks)
       /\ QueueTotal(TaskWeight, largeTasks) \in Nat
  <2>1. PICK v, X : v = TaskWeight /\ X = JoinTasks
    OBVIOUS
  <2>2. largeTasks \in Seq(X) /\ s \in Seq(X) /\ l = s \o largeTasks
    BY <1>2, <1>8, <1>9, <1>10, <2>1 DEF QueueTypes
  <2>3. \A x \in X : v[x] \in Nat
    BY <1>3, <2>1, TaskWeightIsNat
  <2>4. QueueTotal(v, s \o largeTasks) = QueueTotal(v, s) + QueueTotal(v, largeTasks)
    BY <2>2, <2>3, QueueOfConcat
  <2>5. QueueTotal(v, largeTasks) \in Nat
    BY <2>2, <2>3, QueueIsNat
  <2>6. l \in Seq(X)
    BY <2>2
  <2> QED
    BY <2>1, <2>2, <2>4, <2>5, <2>6
<1>13. QueueTypes'
  BY <1>1, <1>2, <1>10, <1>11, <1>12, WeightsStay DEF QueueTypes
<1>14. joinPc'[0] = "skew" /\ \A u \in Threads : u # 0 => joinPc'[u] = joinPc[u]
  BY <1>1, <1>2, <1>3, ThreadMoves
<1>15. OverInv'
  <2>1. "skew" \notin Reads
    BY DEF Reads
  <2> QED
    BY <1>1, <1>2, <1>3, <2>1, OverStays
<1>16. ZeroInv'
  <2>1. /\ joinPc'[0] \in Skewing /\ joinPc'[0] \notin Tasked
        /\ joinPc'[0] \notin {"skew task", "join", "done"}
    BY <1>14 DEF Skewing, Tasked
  <2> QED
    BY <1>1, <1>3, <2>1 DEF ZeroInv
<1>17. DrainInv'
  <2>1. \A u \in Threads : joinPc'[u] # "done"
    <3>1. \A u \in Threads : joinPc[u] # "done"
      BY <1>3 DEF Tasking, InEra
    <3> QED
      BY <1>14, <3>1
  <2>2. \A u \in Threads : joinPc'[u] \in Skewing \cup Tasked => joinPc[u] \in Skewing \cup Tasked
    BY <1>1, <1>14 DEF Skewing
  <2> QED
    BY <1>1, <1>2, <1>6, <1>10, <1>11, <2>1, <2>2, DrainStays
<1>18. PICK w, v, p, j, sq, lt, g, x :
         Books(w, v, p, j, sq, lt, g, x) /\ Ledger(w, v, p, j, sq, lt, g, x)
  BY <1>1, <1>2 DEF SumInv, Unprepared, Reads, Accounted
<1>19. x = GroupWeight[c] /\ InTask' = 0
  <2>1. c # None
    BY JoinOptions
  <2>2. InTask = GroupWeight[c]
    BY <1>1, <1>4, <2>1 DEF InTask, Radix!InSkewTask
  <2>3. InTask' = 0
    BY <1>14 DEF InTask, Radix!InSkewTask
  <2> QED
    BY <1>18, <2>2, <2>3 DEF Books
<1>20. Ledger(w, v, p, k, sq, l, g, 0)
  <2>1. w = GroupWeight /\ v = TaskWeight /\ p = partQueue /\ j = joinQueue /\ lt = largeTasks
    BY <1>18 DEF Books
  <2>2. PICK ta, tb, tc, td, te, tq, ts, tk, tl :
          /\ ta = TotalOf(g, Threads) /\ tb = TotalOf(NodeWeights(w, v, p, j), RNodes)
          /\ tc = QueueTotal(w, sq) /\ td = QueueTotal(v, lt) /\ te = TotalOf(w, Groups)
          /\ tq = QueueTotal(v, q) /\ ts = QueueTotal(v, s)
          /\ tk = TotalOf(NodeWeights(w, v, p, k), RNodes) /\ tl = QueueTotal(v, l)
    OBVIOUS
  <2>3. tk = tb + tq
    BY <1>11, <2>1, <2>2 DEF PushedWeight
  <2>4. tl = ts + td /\ x = tq + ts /\ tq \in Nat /\ ts \in Nat
    BY <1>9, <1>12, <1>19, <2>1, <2>2
  <2>5. Accounts(ta, tb, tc, td, x, te)
    BY <1>18, <2>2 DEF Ledger
  <2>6. Accounts(ta, tk, tc, tl, 0, te)
    BY <2>3, <2>4, <2>5 DEF Accounts
  <2> QED
    BY <2>2, <2>6 DEF Ledger
<1>21. Accounted'
  <2>1. w = GroupWeight /\ v = TaskWeight /\ partQueue' = p /\ skewQueue' = sq /\ joined' = g
    BY <1>1, <1>18 DEF Books
  <2> QED
    BY <1>1, <1>10, <1>19, <1>20, <2>1, LedgerGoesOn
<1>22. SumInv'
  BY <1>14, <1>21 DEF SumInv, Unprepared, Reads
<1> QED
  BY <1>13, <1>15, <1>16, <1>17, <1>22 DEF QueueInv

LEMMA CollectKeepsQueues ==
  ASSUME RadixInv, Radix!Collect(0)
  PROVE  QueueInv'
<1>1. /\ joinPc[0] = "collect" /\ 0 \notin arrived /\ Radix!Arrive(0, "join")
      /\ joinRel' = joinRel /\ partQueue' = partQueue /\ skewQueue' = skewQueue
      /\ skewTask' = skewTask /\ joined' = joined /\ overwritten' = overwritten
      /\ largeTasks' = <<>>
  BY DEF Radix!Collect, Radix!At
<1>2. QueueTypes /\ DrainInv /\ ZeroInv /\ SumInv /\ OverInv /\ PhaseInv /\ 0 \in Threads
  BY JoinOptions DEF RadixInv
<1>3. JoinTypes /\ Collecting /\ joinRel \in Inputs
  BY <1>1, <1>2, AwakeTells DEF PhaseInv, JoinTypes
<1>4. PICK b, q, k : b = Radix!NodeOf(0) /\ q = Reverse(largeTasks) /\ k = joinQueue'
  OBVIOUS
<1>5. b \in RNodes /\ Polled(b)
  BY <1>2, <1>4, NodeIsPolled
<1>6. /\ q \in Seq(JoinTasks) /\ QueueTotal(TaskWeight, largeTasks) \in Nat
      /\ QueueTotal(TaskWeight, q) = QueueTotal(TaskWeight, largeTasks)
  <2>1. PICK v, X : v = TaskWeight /\ X = JoinTasks
    OBVIOUS
  <2>2. largeTasks \in Seq(X) /\ \A x \in X : v[x] \in Nat
    BY <1>2, <1>3, <2>1, TaskWeightIsNat DEF QueueTypes
  <2>3. /\ Reverse(largeTasks) \in Seq(X)
        /\ QueueTotal(v, Reverse(largeTasks)) = QueueTotal(v, largeTasks)
    BY <2>2, QueueReversed
  <2>4. QueueTotal(v, largeTasks) \in Nat
    BY <2>2, QueueIsNat
  <2> QED
    BY <1>4, <2>1, <2>3, <2>4
<1>7. Pushes(k, b, q)
  <2>1. joinQueue' = [joinQueue EXCEPT ![Radix!NodeOf(0)] =
                        Radix!Reverse(largeTasks) \o joinQueue[Radix!NodeOf(0)]]
    BY DEF Radix!Collect
  <2>2. Radix!Reverse(largeTasks) = q
    BY <1>4, SameOperators
  <2> QED
    BY <1>4, <2>1, <2>2 DEF Pushes
<1>8. /\ k \in [RNodes -> Seq(JoinTasks)] /\ \A n \in RNodes : n # b => k[n] = joinQueue[n]
      /\ PushedWeight(k, q)
  BY <1>2, <1>3, <1>5, <1>6, <1>7, PushedAt
<1>9. QueueTypes'
  <2>1. <<>> \in Seq(JoinTasks)
    OBVIOUS
  <2> QED
    BY <1>1, <1>2, <1>4, <1>8, <2>1, WeightsStay DEF QueueTypes
<1>10. joinPc'[0] = "join" /\ \A u \in Threads : u # 0 => joinPc'[u] = joinPc[u]
  BY <1>1, <1>2, <1>3, ThreadMoves
<1>11. OverInv'
  <2>1. "join" \notin Reads
    BY DEF Reads
  <2> QED
    BY <1>1, <1>2, <1>3, <2>1, OverStays
<1>12. ZeroInv'
  BY <1>1, <1>2, <1>10 DEF ZeroInv, Skewing, Tasked
<1>13. DrainInv'
  <2>1. \A u \in Threads : joinPc'[u] # "done"
    <3>1. \A u \in Threads : joinPc[u] # "done"
      BY <1>3 DEF Collecting, InEra
    <3> QED
      BY <1>10, <3>1
  <2>2. \A u \in Threads : joinPc'[u] \in Skewing \cup Tasked => joinPc[u] \in Skewing \cup Tasked
    BY <1>1, <1>10 DEF Tasked
  <2> QED
    BY <1>1, <1>2, <1>4, <1>5, <1>8, <2>1, <2>2, DrainStays
<1>14. PICK w, v, p, j, sq, lt, g, x :
         Books(w, v, p, j, sq, lt, g, x) /\ Ledger(w, v, p, j, sq, lt, g, x)
  BY <1>1, <1>2 DEF SumInv, Unprepared, Reads, Accounted
<1>15. x = 0 /\ InTask' = 0
  <2>1. skewTask = None /\ skewTask' = None
    BY <1>1, <1>3 DEF Collecting
  <2>2. InTask = 0 /\ InTask' = 0
    BY <2>1 DEF InTask, Radix!InSkewTask
  <2> QED
    BY <1>14, <2>2 DEF Books
<1>16. Ledger(w, v, p, k, sq, <<>>, g, 0)
  <2>1. w = GroupWeight /\ v = TaskWeight /\ p = partQueue /\ j = joinQueue /\ lt = largeTasks
    BY <1>14 DEF Books
  <2>2. PICK ta, tb, tc, td, te, tq, tk :
          /\ ta = TotalOf(g, Threads) /\ tb = TotalOf(NodeWeights(w, v, p, j), RNodes)
          /\ tc = QueueTotal(w, sq) /\ td = QueueTotal(v, lt) /\ te = TotalOf(w, Groups)
          /\ tq = QueueTotal(v, q) /\ tk = TotalOf(NodeWeights(w, v, p, k), RNodes)
    OBVIOUS
  <2>3. tk = tb + tq
    BY <1>8, <2>1, <2>2 DEF PushedWeight
  <2>4. tq = td
    BY <1>6, <2>1, <2>2
  <2>5. Accounts(ta, tb, tc, td, 0, te)
    BY <1>14, <1>15, <2>2 DEF Ledger
  <2>6. Accounts(ta, tk, tc, 0, 0, te)
    BY <2>3, <2>4, <2>5 DEF Accounts
  <2>7. QueueTotal(v, <<>>) = 0
    BY QueueOfNothing
  <2> QED
    BY <2>2, <2>6, <2>7 DEF Ledger
<1>17. Accounted'
  <2>1. w = GroupWeight /\ v = TaskWeight /\ partQueue' = p /\ skewQueue' = sq /\ joined' = g
    BY <1>1, <1>14 DEF Books
  <2> QED
    BY <1>1, <1>4, <1>15, <1>16, <2>1, LedgerGoesOn
<1>18. SumInv'
  BY <1>10, <1>17 DEF SumInv, Unprepared, Reads
<1> QED
  BY <1>9, <1>11, <1>12, <1>13, <1>18 DEF QueueInv

\* A task at the head of a queue, taken, and the result of who takes it.
Takes(w, v, X, b, p, j, k, h) ==
  /\ Weights(w, v, X) /\ Queues(p, j, X) /\ b \in RNodes /\ j[b] # <<>>
  /\ k = [j EXCEPT ![b] = Tail(j[b])] /\ h = Head(j[b])
Taken(w, v, X, b, p, j, k, h) ==
  /\ k \in [RNodes -> Seq(X)] /\ \A n \in RNodes : n # b => k[n] = j[n]
  /\ h \in X /\ v[h] \in Nat
  /\ TotalOf(NodeWeights(w, v, p, j), RNodes) =
       TotalOf(NodeWeights(w, v, p, k), RNodes) + v[h]

LEMMA TakingLessens ==
  ASSUME NEW w, NEW v, NEW X, NEW b, NEW p, NEW j, NEW k, NEW h,
         Takes(w, v, X, b, p, j, k, h)
  PROVE  Taken(w, v, X, b, p, j, k, h)
<1>1. /\ Weights(w, v, X) /\ Queues(p, j, X) /\ b \in RNodes /\ j[b] # <<>> /\ h = Head(j[b])
  BY DEF Takes
<1>2. j \in [RNodes -> Seq(X)] /\ p \in [RNodes -> Seq(Groups)]
  BY <1>1 DEF Queues
<1>3. Queues(p, k, X) /\ k[b] = Tail(j[b]) /\ ChangedAt(b, p, j, p, k)
  <2>1. PICK s : s = Tail(j[b])
    OBVIOUS
  <2>2. s \in Seq(X)
    <3>1. j[b] \in Seq(X)
      BY <1>1, <1>2
    <3> QED
      BY <1>1, <2>1, <3>1
  <2>3. k = [j EXCEPT ![b] = s]
    BY <2>1 DEF Takes
  <2>4. k \in [RNodes -> Seq(X)] /\ k[b] = s /\ \A n \in RNodes : n # b => k[n] = j[n]
    BY <1>1, <1>2, <2>2, <2>3
  <2> QED
    BY <1>2, <2>1, <2>4 DEF Queues, ChangedAt
<1>4. /\ Head(j[b]) \in X /\ v[Head(j[b])] \in Nat
      /\ TotalOf(NodeWeights(w, v, p, j), RNodes) =
           TotalOf(NodeWeights(w, v, p, k), RNodes) + v[Head(j[b])]
  BY <1>1, <1>3, TaskTaken
<1>5. k \in [RNodes -> Seq(X)] /\ \A n \in RNodes : n # b => k[n] = j[n]
  BY <1>3 DEF Queues, ChangedAt
<1> QED
  BY <1>1, <1>4, <1>5 DEF Taken

LEMMA JoinEra ==
  ASSUME PhaseInv, NEW t \in Threads, joinPc[t] = "join", t \notin arrived
  PROVE  /\ JoinTypes /\ joinRel \in Inputs
         /\ \A u \in Threads : joinPc[u] \in {"join", "done"}
BY AwakeTells DEF PhaseInv, JoinTypes, InEra

\* A task has a tuple of R, so that what its join finds is its weight.
LEMMA FoundIsWeight ==
  ASSUME joinRel \in Inputs, NEW h \in JoinTasks
  PROVE  Radix!Found(h) = {TaskWeight[h]}
<1>1. h.R # {}
  BY DEF JoinTasks
<1>2. Radix!Pairs(h.R, h.S) = PairsOf(h.R, h.S)
  BY PairsArePairs
<1>3. TaskWeight[h] = Cardinality(PairsOf(h.R, h.S))
  BY DEF TaskWeight
<1> QED
  BY <1>1, <1>2, <1>3 DEF Radix!Found, Radix!Cardinality, Cardinality

LEMMA JoinKeepsQueues ==
  ASSUME RadixInv, NEW t \in Threads, Radix!Join(t)
  PROVE  QueueInv'
<1>1. /\ joinPc[t] = "join" /\ t \notin arrived /\ joinRel' = joinRel
      /\ partQueue' = partQueue /\ skewQueue' = skewQueue /\ skewTask' = skewTask
      /\ largeTasks' = largeTasks /\ overwritten' = overwritten
  BY DEF Radix!Join, Radix!At
<1>2. QueueTypes /\ DrainInv /\ ZeroInv /\ SumInv /\ OverInv /\ PhaseInv /\ 0 \in Threads
  BY JoinOptions DEF RadixInv
<1>3. /\ JoinTypes /\ joinRel \in Inputs
      /\ \A u \in Threads : joinPc[u] \in {"join", "done"}
  BY <1>1, <1>2, JoinEra
<1>4. PICK b : b = Radix!NodeOf(t)
  OBVIOUS
<1>5. b \in RNodes /\ Polled(b)
  BY <1>4, NodeIsPolled
<1>6. CASE joinQueue[b] = <<>>
  <2>1. Radix!Arrive(t, "done") /\ joinQueue' = joinQueue /\ joined' = joined
    BY <1>4, <1>6 DEF Radix!Join
  <2>2. Still
    BY <1>1, <2>1 DEF Still
  <2>3. QuietMove(t, "join", "done") /\ "done" \notin Reads
    BY <1>4, <1>6 DEF QuietMove, Skewing, Tasked, Unprepared, Reads
  <2> QED
    BY <1>1, <2>1, <2>2, <2>3, QuietSuffices
<1>7. CASE joinQueue[b] # <<>>
  <2>1. PICK h, k, y : h = Head(joinQueue[b]) /\ k = joinQueue' /\ y = joined'
    OBVIOUS
  <2>2. /\ joinPc' = joinPc /\ joinQueue' = [joinQueue EXCEPT ![b] = Tail(joinQueue[b])]
        /\ \E m \in Radix!Found(h) : joined' = [joined EXCEPT ![t] = joined[t] + m]
    BY <1>4, <1>7, <2>1 DEF Radix!Join
  <2>3. PICK w, v, X, p, j :
          w = GroupWeight /\ v = TaskWeight /\ X = JoinTasks /\ p = partQueue /\ j = joinQueue
    OBVIOUS
  <2>4. Taken(w, v, X, b, p, j, k, h)
    <3>1. Weights(w, v, X) /\ Queues(p, j, X)
      BY <1>2, <1>3, <2>3, WeightsAreNat
    <3>2. Takes(w, v, X, b, p, j, k, h)
      BY <1>5, <1>7, <2>1, <2>2, <2>3, <3>1 DEF Takes
    <3> QED
      BY <3>2, TakingLessens
  <2>5. PICK m : m = v[h]
    OBVIOUS
  <2>6. h \in JoinTasks /\ m \in Nat
    BY <2>3, <2>4, <2>5 DEF Taken
  <2>7. joined' = [joined EXCEPT ![t] = joined[t] + m]
    BY <1>3, <2>2, <2>3, <2>5, <2>6, FoundIsWeight
  <2>8. y \in [Threads -> Nat] /\ ResultGrows(joined, y, t, m)
    <3>1. joined \in [Threads -> Nat]
      BY <1>2 DEF QueueTypes
    <3> QED
      BY <2>1, <2>6, <2>7, <3>1 DEF ResultGrows
  <2>9. QueueTypes'
    <3>1. k \in [RNodes -> Seq(JoinTasks)]
      BY <2>3, <2>4 DEF Taken
    <3> QED
      BY <1>1, <1>2, <2>1, <2>8, <3>1, WeightsStay DEF QueueTypes
  <2>10. OverInv'
    BY <1>1, <1>2, <2>2 DEF OverInv
  <2>11. ZeroInv'
    BY <1>1, <1>2, <2>2 DEF ZeroInv
  <2>12. DrainInv'
    <3>1. \A n \in RNodes : n # b => joinQueue'[n] = joinQueue[n]
      BY <2>1, <2>3, <2>4 DEF Taken
    <3>2. joinQueue[b] = <<>> => joinQueue'[b] = <<>>
      BY <1>7
    <3>3. \A u \in Threads : joinPc'[u] = joinPc[u]
      BY <2>2
    <3> QED
      BY <1>1, <1>2, <1>5, <3>1, <3>2, <3>3, DrainStays
  <2>13. joinPc[0] \notin Unprepared /\ joinPc'[0] \notin Unprepared
    BY <1>2, <1>3, <2>2 DEF Unprepared, Reads
  <2>14. Accounted'
    <3>1. PICK sq, lt, g, x :
            Books(w, v, p, j, sq, lt, g, x) /\ Ledger(w, v, p, j, sq, lt, g, x)
      BY <1>2, <2>3, <2>13 DEF SumInv, Accounted, Books
    <3>2. InTask' = x
      <4>1. GroupWeight' = GroupWeight
        BY <1>1, WeightsStay
      <4> QED
        BY <1>1, <2>2, <3>1, <4>1 DEF InTask, Radix!InSkewTask, Books
    <3>3. Ledger(w, v, p, k, sq, lt, y, x)
      <4>1. g = joined
        BY <3>1 DEF Books
      <4>2. PICK ta, tb, tc, td, te, tk, ty :
              /\ ta = TotalOf(g, Threads) /\ tb = TotalOf(NodeWeights(w, v, p, j), RNodes)
              /\ tc = QueueTotal(w, sq) /\ td = QueueTotal(v, lt) /\ te = TotalOf(w, Groups)
              /\ tk = TotalOf(NodeWeights(w, v, p, k), RNodes) /\ ty = TotalOf(y, Threads)
        OBVIOUS
      <4>3. ty = ta + m
        BY <2>6, <2>8, <4>1, <4>2, FoundAdded
      <4>4. tb = tk + m
        BY <2>4, <2>5, <4>2 DEF Taken
      <4>5. tk \in Nat
        <5>1. Weights(w, v, X) /\ Queues(p, k, X)
          BY <1>2, <1>3, <2>3, <2>4, WeightsAreNat DEF Queues, Taken
        <5> QED
          BY <4>2, <5>1, NodeWeightsAreNat
      <4>6. Accounts(ta, tb, tc, td, x, te)
        BY <3>1, <4>2 DEF Ledger
      <4>7. Accounts(ty, tk, tc, td, x, te)
        BY <2>6, <4>3, <4>4, <4>5, <4>6 DEF Accounts
      <4> QED
        BY <4>2, <4>7 DEF Ledger
    <3>4. partQueue' = p /\ skewQueue' = sq /\ largeTasks' = lt
      BY <1>1, <3>1 DEF Books
    <3> QED
      BY <1>1, <2>1, <2>3, <3>2, <3>3, <3>4, LedgerGoesOn
  <2>15. SumInv'
    BY <2>13, <2>14 DEF SumInv
  <2> QED
    BY <2>9, <2>10, <2>11, <2>12, <2>15 DEF QueueInv
<1> QED
  BY <1>6, <1>7

-----------------------------------------------------------------------------
(***************************************************************************)
(* The radix join as a whole.                                              *)
(***************************************************************************)
LEMMA StepKeepsQueues ==
  ASSUME RadixInv, PagesArePolled, LargeHasBuild, NEW t \in Threads, Radix!Step(t)
  PROVE  QueueInv'
<1>1. CASE Radix!Start(t)
  BY <1>1, StartKeepsQueues
<1>2. CASE Radix!FirstPass(t)
  <2>1. CASE Radix!Count(t, "R", "count R", Groups, "copy R")
    <3>1. Counting("R", "count R", "copy R") /\ "count R" \in Reads
      BY DEF Counting, Reads
    <3> QED
      BY <2>1, <3>1, FirstCountKeepsQueues
  <2>2. CASE Radix!Copy(t, "R", "copy R", FALSE, "count S")
    <3>1. Copying("R", "copy R", "count S") /\ "copy R" \in Reads
      BY DEF Copying, Reads
    <3> QED
      BY <2>2, <3>1, FirstCopyKeepsQueues
  <2>3. CASE Radix!Count(t, "S", "count S", Groups, "copy S")
    <3>1. Counting("S", "count S", "copy S") /\ "count S" \in Reads
      BY DEF Counting, Reads
    <3> QED
      BY <2>3, <3>1, FirstCountKeepsQueues
  <2>4. CASE Radix!Copy(t, "S", "copy S", FALSE, "prepare")
    <3>1. Copying("S", "copy S", "prepare") /\ "copy S" \in Reads
      BY DEF Copying, Reads
    <3> QED
      BY <2>4, <3>1, FirstCopyKeepsQueues
  <2> QED
    BY <1>2, <2>1, <2>2, <2>3, <2>4, JoinOptions DEF Radix!FirstPass
<1>3. CASE Radix!Prepare(t)
  BY <1>3, PrepareKeepsQueues, OthersKeepQueues
<1>4. CASE Radix!Divide(t)
  BY <1>4, DivideKeepsQueues
<1>5. CASE Radix!NextSkewTask(t)
  BY <1>5, NextSkewTaskKeepsQueues, OthersKeepQueues
<1>6. CASE Radix!SkewTask(t)
  BY <1>6, SkewTaskKeepsQueues
<1>7. CASE Radix!SecondPass(t)
  <2>1. CASE Radix!Count(t, "R", "recount R", {skewTask}, "recopy R")
    <3>1. Counting("R", "recount R", "recopy R") /\ "recount R" \in Skewing
      BY DEF Counting, Skewing
    <3> QED
      BY <2>1, <3>1, SecondCountKeepsQueues
  <2>2. CASE Radix!Copy(t, "R", "recopy R", TRUE, "recount S")
    <3>1. Copying("R", "recopy R", "recount S") /\ "recopy R" \in Skewing
      BY DEF Copying, Skewing
    <3> QED
      BY <2>2, <3>1, SecondCopyKeepsQueues
  <2>3. CASE Radix!Count(t, "S", "recount S", {skewTask}, "recopy S")
    <3>1. Counting("S", "recount S", "recopy S") /\ "recount S" \in Skewing
      BY DEF Counting, Skewing
    <3> QED
      BY <2>3, <3>1, SecondCountKeepsQueues
  <2>4. CASE Radix!Copy(t, "S", "recopy S", TRUE, "skew tasks")
    <3>1. Copying("S", "recopy S", "skew tasks") /\ "recopy S" \in Skewing
      BY DEF Copying, Skewing
    <3> QED
      BY <2>4, <3>1, SecondCopyKeepsQueues
  <2> QED
    BY <1>7, <2>1, <2>2, <2>3, <2>4 DEF Radix!SecondPass
<1>8. CASE Radix!SkewTasks(t)
  BY <1>8, SkewTasksKeepsQueues, OthersKeepQueues
<1>9. CASE Radix!Collect(t)
  BY <1>9, CollectKeepsQueues, OthersKeepQueues
<1>10. CASE Radix!Join(t)
  BY <1>10, JoinKeepsQueues
<1> QED
  BY <1>1, <1>2, <1>3, <1>4, <1>5, <1>6, <1>7, <1>8, <1>9, <1>10 DEF Radix!Step

LEMMA StepKeepsRadix ==
  ASSUME RadixInv, PagesArePolled, LargeHasBuild, NEW t \in Threads, Radix!Step(t)
  PROVE  RadixInv'
<1>1. QueueInv'
  BY StepKeepsQueues
<1>2. PhaseInv /\ SkewReady
  BY DEF RadixInv, ZeroInv, QueueTypes, SkewReady
<1>3. PhaseInv'
  BY <1>2, StepKeepsPhase
<1> QED
  BY <1>1, <1>3 DEF QueueInv, RadixInv

LEMMA RadixRests ==
  ASSUME RadixInv, UNCHANGED joinVars
  PROVE  RadixInv'
<1>1. /\ joinRel' = joinRel /\ joinPc' = joinPc /\ arrived' = arrived /\ counted' = counted
      /\ copied' = copied /\ overwritten' = overwritten /\ partQueue' = partQueue
      /\ skewQueue' = skewQueue /\ skewTask' = skewTask /\ joinQueue' = joinQueue
      /\ largeTasks' = largeTasks /\ joined' = joined
  BY DEF joinVars
<1>2. JoinTypes'
  BY <1>1 DEF RadixInv, PhaseInv, JoinTypes
<1>3. \A a, s : InEra(a, s) => InEra(a, s)'
  BY <1>1 DEF InEra
<1>4. \A clusters : PassData(clusters) => PassData(clusters)'
  <2> SUFFICES ASSUME NEW clusters, PassData(clusters)
               PROVE  PassData(clusters)'
    OBVIOUS
  <2>1. /\ \A x, u : ShareOf(x, clusters, u)' = ShareOf(x, clusters, u)
        /\ \A x : RowsOf(x)' = RowsOf(x)
        /\ \A x : Radix!PassRows(x, clusters)' = Radix!PassRows(x, clusters)
    BY <1>1, SharesStay
  <2> QED
    BY <1>1, <2>1 DEF PassData
<1>5. /\ Whole => Whole'
      /\ \A clusters : Shared(clusters) => Shared(clusters)'
  BY <1>1, PlacedStays
<1>6. \A c : Cleared(c) => Cleared(c)'
  BY <1>1, SharesStay DEF Cleared
<1>7. PhaseInv'
  <2>1. Reading => Reading'
    BY <1>3, <1>4 DEF Reading
  <2>2. Preparing => Preparing'
    BY <1>3, <1>5 DEF Preparing
  <2>3. Tasking => Tasking'
    BY <1>1, <1>3, <1>5 DEF Tasking
  <2>4. Collecting => Collecting'
    BY <1>1, <1>3, <1>5 DEF Collecting
  <2>5. Clearing => Clearing'
    BY <1>1, <1>3, <1>5, <1>6 DEF Clearing
  <2>6. Rereading => Rereading'
    BY <1>1, <1>3, <1>4 DEF Rereading
  <2>7. Joining => Joining'
    BY <1>3, <1>5 DEF Joining
  <2> QED
    BY <1>2, <2>1, <2>2, <2>3, <2>4, <2>5, <2>6, <2>7 DEF RadixInv, PhaseInv
<1>8. joinRel \in Inputs /\ QueueTypes /\ SumInv
  BY DEF RadixInv, PhaseInv, JoinTypes
<1>9. InTask' = InTask
  <2>1. GroupWeight' = GroupWeight
    BY <1>1, WeightsStay
  <2> QED
    BY <1>1, <2>1 DEF InTask, Radix!InSkewTask
<1>10. QueueTypes' /\ SumInv'
  BY <1>1, <1>8, <1>9, NothingMoves DEF SumInv
<1>11. OverInv' /\ ZeroInv'
  BY <1>1 DEF RadixInv, OverInv, ZeroInv
<1>12. DrainInv'
  BY <1>1 DEF RadixInv, DrainInv, Polled, Radix!NodeOf
<1> QED
  BY <1>7, <1>10, <1>11, <1>12 DEF RadixInv

\* What the books say of the matches.
LEMMA MatchesAreBooked ==
  ASSUME RadixInv, joinPc[0] \notin Unprepared
  PROVE  Radix!Total + Radix!Pending = Radix!Expected
<1>1. joinRel \in Inputs /\ QueueTypes /\ Accounted
  BY DEF RadixInv, PhaseInv, JoinTypes, SumInv
<1>2. PICK w, v, p, j, sq, lt, g, x :
        Books(w, v, p, j, sq, lt, g, x) /\ Ledger(w, v, p, j, sq, lt, g, x)
  BY <1>1 DEF Accounted
<1>3. PICK a, b, c, d, e :
        /\ a = TotalOf(g, Threads) /\ b = TotalOf(NodeWeights(w, v, p, j), RNodes)
        /\ c = QueueTotal(w, sq) /\ d = QueueTotal(v, lt) /\ e = TotalOf(w, Groups)
  OBVIOUS
<1>4. Accounts(a, b, c, d, x, e)
  BY <1>2, <1>3 DEF Ledger
<1>5. /\ a = TotalOf(joined, Threads) /\ b = TotalOf(AtNode, RNodes)
      /\ c = QueueTotal(GroupWeight, skewQueue) /\ d = QueueTotal(TaskWeight, largeTasks)
      /\ x = InTask /\ e = TotalOf(GroupWeight, Groups)
  BY <1>2, <1>3 DEF Books, AtNode
<1>6. Radix!Pending = b + c + d + x /\ Radix!Total = a /\ Radix!Expected = e
  BY <1>1, <1>5, PendingIsTotal, GroupsAddUp
<1> QED
  BY <1>4, <1>6 DEF Accounts

LEMMA RadixAddsUp ==
  ASSUME RadixInv
  PROVE  Radix!JoinIsExact
<1> SUFFICES ASSUME Radix!Finished PROVE Radix!Total = Radix!Expected
  BY DEF Radix!JoinIsExact
<1>1. \A t \in Threads : joinPc[t] = "done"
  BY JoinOptions DEF Radix!Finished, Radix!At
<1>2. joinRel \in Inputs /\ QueueTypes /\ DrainInv /\ ZeroInv /\ 0 \in Threads
  BY JoinOptions DEF RadixInv, PhaseInv, JoinTypes
<1>3. Radix!Total + Radix!Pending = Radix!Expected
  BY <1>1, <1>2, MatchesAreBooked DEF Unprepared, Reads
<1>4. \A n \in RNodes : partQueue[n] = <<>> /\ joinQueue[n] = <<>>
  <2> SUFFICES ASSUME NEW n \in RNodes PROVE partQueue[n] = <<>> /\ joinQueue[n] = <<>>
    OBVIOUS
  <2>1. CASE Polled(n)
    <3>1. PICK t \in Threads : Radix!NodeOf(t) = n
      BY <2>1 DEF Polled
    <3> QED
      BY <1>1, <1>2, <3>1 DEF DrainInv, Tasked
  <2>2. CASE ~Polled(n)
    BY <1>2, <2>2 DEF DrainInv
  <2> QED
    BY <2>1, <2>2
<1>5. skewTask = None /\ skewQueue = <<>> /\ largeTasks = <<>>
  BY <1>1, <1>2 DEF ZeroInv, Skewing, Tasked
<1>6. TotalOf(AtNode, RNodes) = 0
  <2>1. \A n \in RNodes : AtNode[n] = 0
    BY <1>4, QueueOfNothing DEF AtNode, NodeWeights
  <2> QED
    BY <2>1, GroupsAreFinite, TotalOfZeros
<1>7. /\ QueueTotal(GroupWeight, skewQueue) = 0 /\ QueueTotal(TaskWeight, largeTasks) = 0
      /\ InTask = 0
  BY <1>5, QueueOfNothing DEF InTask, Radix!InSkewTask
<1>8. Radix!Pending = 0
  BY <1>2, <1>6, <1>7, PendingIsTotal
<1>9. Radix!Total \in Nat
  BY <1>2, PendingIsTotal
<1> QED
  BY <1>3, <1>8, <1>9

LEMMA RadixKeepsMatches ==
  ASSUME RadixInv
  PROVE  Radix!MatchesAreKept
<1>1. Radix!Prepared => joinPc[0] \notin Unprepared
  BY DEF Radix!Prepared, Unprepared, Reads
<1>2. overwritten => Radix!InputIsDone
  BY JoinOptions DEF RadixInv, OverInv, Radix!InputIsDone, Reads
<1> QED
  BY <1>1, <1>2, MatchesAreBooked DEF Radix!MatchesAreKept

LEMMA RadixBeginsJoins ==
  ASSUME JoinsInit, part = "radix"
  PROVE  RadixInv
BY RadixBegins DEF JoinsInit

LEMMA RadixGoesOn ==
  ASSUME PagesArePolled, LargeHasBuild, part = "radix" => RadixInv,
         [JoinsNext]_JoinsVars, part' = "radix"
  PROVE  RadixInv'
<1>1. CASE UNCHANGED JoinsVars
  BY <1>1, RadixRests DEF JoinsVars
<1>2. ASSUME NEW t \in Threads, RadixThread(t) PROVE RadixInv'
  BY <1>2, StepKeepsRadix DEF RadixThread
<1>3. JoinsNext => \E t \in Threads : RadixThread(t)
  BY DEF JoinsNext, TableThread, TableEnd, PassStep, LinesStep
<1> QED
  BY <1>1, <1>2, <1>3

\* The threads of PRO return together the number of result tuples of the join,
\* for all relations, any number of threads and NUMA nodes and every
\* interleaving, with and without skew handling, when the pages lie on nodes
\* whose queue some thread polls and no join task is shared that has no tuple
\* of R (prj_thread).
THEOREM RadixJoinsAreExact ==
  ASSUME PagesArePolled, LargeHasBuild
  PROVE  JoinsSpec => []RadixIsExact
<1>1. JoinsInit => (part = "radix" => RadixInv)
  BY RadixBeginsJoins
<1>2. (part = "radix" => RadixInv) /\ [JoinsNext]_JoinsVars => (part = "radix" => RadixInv)'
  BY RadixGoesOn
<1>3. (part = "radix" => RadixInv) => RadixIsExact
  BY RadixAddsUp DEF RadixIsExact
<1> QED
  BY <1>1, <1>2, <1>3, PTL DEF JoinsSpec

\* Between the first pass and the end every match is in exactly one place, in a
\* queued cluster, in one join task or in a result; and no second pass writes
\* over a relation that a thread still reads (prj_thread).
THEOREM EveryMatchIsKept ==
  ASSUME PagesArePolled, LargeHasBuild
  PROVE  JoinsSpec => []MatchesAreKept
<1>1. JoinsInit => (part = "radix" => RadixInv)
  BY RadixBeginsJoins
<1>2. (part = "radix" => RadixInv) /\ [JoinsNext]_JoinsVars => (part = "radix" => RadixInv)'
  BY RadixGoesOn
<1>3. (part = "radix" => RadixInv) => MatchesAreKept
  BY RadixKeepsMatches DEF MatchesAreKept
<1> QED
  BY <1>1, <1>2, <1>3, PTL DEF JoinsSpec
=============================================================================
