------------------------------ MODULE Folding ------------------------------
(***************************************************************************)
(* What a fold from the left computes, for any operator.  FoldLeft chooses *)
(* a function on all sets of positions; the lemmas show that there is one, *)
(* and that it adds the last element to the fold of those before.  An      *)
(* instance of this module gives them for the operator of one fold of the  *)
(* model; its first two arguments are what the fold leaves as it is.       *)
(***************************************************************************)
EXTENDS Integers, Sequences, SequencesExt, FiniteSetTheorems, SequenceTheorems,
        WellFoundedInduction, TLAPS

CONSTANT Op(_, _, _, _)

Fold(c, d, base, s) == FoldLeft(LAMBDA v, x : Op(c, d, v, x), base, s)

-----------------------------------------------------------------------------
\* A set of naturals that is not empty has a least element.
LEMMA LeastNat ==
  ASSUME NEW T \in SUBSET Nat, T # {}
  PROVE  \E m \in T : \A k \in T : m <= k
<1> DEFINE R == {ss \in Nat \X Nat : ss[1] < ss[2]}
<1>1. IsWellFoundedOn(R, Nat)
  BY NatLessThanWellFounded, Zenon DEF OpToRel
<1>2. PICK m \in T : \A y \in T : <<y, m>> \notin R
  <2> HIDE DEF R
  <2> QED BY <1>1, WFMin, Zenon
<1>3. \A k \in T : ~(k < m)
  BY <1>2
<1> QED BY <1>3

\* Induction: a set of naturals with 0 and with every successor has all.
LEMMA SetInduction ==
  ASSUME NEW T \in SUBSET Nat, 0 \in T, \A n \in T : n + 1 \in T
  PROVE  T = Nat
<1> SUFFICES ASSUME Nat \ T # {} PROVE FALSE
  OBVIOUS
<1>1. PICK m \in Nat \ T : \A k \in Nat \ T : m <= k
  BY LeastNat
<1>2. m - 1 \in T
  BY <1>1
<1> QED BY <1>1, <1>2

-----------------------------------------------------------------------------
\* The function on sets of positions that the fold of s chooses.
Solves(it, c, d, base, s, D) ==
  it = [S \in SUBSET D |-> IF S = {} THEN base
                           ELSE Op(c, d, it[S \ {Max(S)}], s[Max(S)])]

LEMMA FoldIsChosen ==
  ASSUME NEW c, NEW d, NEW base, NEW s
  PROVE  Fold(c, d, base, s) = (CHOOSE it : Solves(it, c, d, base, s, DOMAIN s))[DOMAIN s]
BY DEF Fold, FoldLeft, MapThenFoldSet, Solves

LEMMA MaxOfPositions ==
  ASSUME NEW n \in Nat, NEW S \in SUBSET (1 .. n + 1), n + 1 \in S
  PROVE  Max(S) = n + 1
<1>1. \E x \in S : \A y \in S : x >= y
  OBVIOUS
<1>2. Max(S) \in S /\ \A y \in S : Max(S) >= y
  BY <1>1 DEF Max
<1>3. Max(S) \in 1 .. n + 1 /\ Max(S) >= n + 1
  BY <1>2
<1> QED
  BY <1>3

LEMMA SolutionExists ==
  ASSUME NEW c, NEW d, NEW base, NEW s, NEW n \in Nat
  PROVE  \E it : Solves(it, c, d, base, s, 1 .. n)
<1> DEFINE T == {k \in Nat : \E it : Solves(it, c, d, base, s, 1 .. k)}
<1>1. 0 \in T
  <2>1. Solves([S \in SUBSET (1 .. 0) |-> base], c, d, base, s, 1 .. 0)
    BY DEF Solves
  <2> QED
    BY <2>1
<1>2. ASSUME NEW k \in T PROVE k + 1 \in T
  <2>1. PICK it : Solves(it, c, d, base, s, 1 .. k)
    OBVIOUS
  <2> DEFINE all == SUBSET (1 .. k + 1)
             jt == [S \in all |-> IF k + 1 \in S
                                  THEN Op(c, d, it[S \ {k + 1}], s[k + 1]) ELSE it[S]]
  <2>2. \A S \in all : k + 1 \notin S => S \in SUBSET (1 .. k)
    OBVIOUS
  <2>3. \A S \in SUBSET (1 .. k) :
          it[S] = IF S = {} THEN base ELSE Op(c, d, it[S \ {Max(S)}], s[Max(S)])
    BY <2>1 DEF Solves
  <2>4. ASSUME NEW S \in all
        PROVE  jt[S] = IF S = {} THEN base ELSE Op(c, d, jt[S \ {Max(S)}], s[Max(S)])
    <3>1. CASE k + 1 \in S
      <4>1. Max(S) = k + 1
        BY <3>1, MaxOfPositions
      <4>2. S \ {k + 1} \in all /\ k + 1 \notin S \ {k + 1}
        OBVIOUS
      <4>3. jt[S \ {k + 1}] = it[S \ {k + 1}]
        BY <4>2
      <4> QED
        BY <3>1, <4>1, <4>3
    <3>2. CASE k + 1 \notin S
      <4>1. S \in SUBSET (1 .. k) /\ jt[S] = it[S]
        BY <2>2, <3>2
      <4>2. S \ {Max(S)} \in all /\ k + 1 \notin S \ {Max(S)}
        BY <3>2
      <4>3. jt[S \ {Max(S)}] = it[S \ {Max(S)}]
        BY <4>2
      <4> QED
        BY <2>3, <4>1, <4>3
    <3> QED
      BY <3>1, <3>2
  <2>5. jt = [S \in all |-> jt[S]]
    OBVIOUS
  <2> HIDE DEF jt
  <2>6. Solves(jt, c, d, base, s, 1 .. k + 1)
    BY <2>4, <2>5 DEF Solves
  <2> QED
    BY <2>6
<1>3. T = Nat
  <2> HIDE DEF T
  <2>1. T \in SUBSET Nat
    BY DEF T
  <2> QED
    BY <1>1, <1>2, <2>1, SetInduction
<1> QED
  BY <1>3

\* A longer sequence has a solution that agrees on the positions of the shorter.
LEMMA SolutionsAgree ==
  ASSUME NEW c, NEW d, NEW base, NEW s, NEW r, NEW n \in Nat,
         NEW it, Solves(it, c, d, base, s, 1 .. n),
         NEW jt, Solves(jt, c, d, base, r, 1 .. n + 1),
         \A i \in 1 .. n : s[i] = r[i]
  PROVE  it[1 .. n] = jt[1 .. n]
<1> DEFINE T == {k \in Nat : k <= n => it[1 .. k] = jt[1 .. k]}
<1>1. 0 \in T
  <2>1. 1 .. 0 = {}
    OBVIOUS
  <2> QED
    BY <2>1 DEF Solves
<1>2. ASSUME NEW k \in T PROVE k + 1 \in T
  <2> SUFFICES ASSUME k + 1 <= n PROVE it[1 .. k + 1] = jt[1 .. k + 1]
    OBVIOUS
  <2> DEFINE S == 1 .. k + 1
  <2>9. k \in Nat
    OBVIOUS
  <2>1. S \in SUBSET (1 .. n) /\ S \in SUBSET (1 .. n + 1) /\ k + 1 \in S
    <3> HIDE DEF T
    <3> QED
      BY <2>9
  <2>2. Max(S) = k + 1 /\ S \ {k + 1} = 1 .. k
    BY <1>2, MaxOfPositions
  <2>3. it[1 .. k] = jt[1 .. k] /\ s[k + 1] = r[k + 1]
    BY <1>2
  <2> HIDE DEF S
  <2>4. it[S] = Op(c, d, it[S \ {Max(S)}], s[Max(S)])
    BY <2>1 DEF Solves
  <2>5. jt[S] = Op(c, d, jt[S \ {Max(S)}], r[Max(S)])
    BY <2>1 DEF Solves
  <2> QED
    BY <2>2, <2>3, <2>4, <2>5 DEF S
<1>3. T = Nat
  <2> HIDE DEF T
  <2>1. T \in SUBSET Nat
    BY DEF T
  <2> QED
    BY <1>1, <1>2, <2>1, SetInduction
<1> QED
  BY <1>3

-----------------------------------------------------------------------------
\* The fold of nothing is the base.
THEOREM FoldOfNothing ==
  ASSUME NEW c, NEW d, NEW base
  PROVE  Fold(c, d, base, <<>>) = base
<1> DEFINE it == CHOOSE it : Solves(it, c, d, base, <<>>, 1 .. 0)
<1>1. Solves(it, c, d, base, <<>>, 1 .. 0)
  BY SolutionExists
<1>2. 1 .. 0 = {} /\ DOMAIN <<>> = 1 .. 0
  OBVIOUS
<1>3. Fold(c, d, base, <<>>) = it[1 .. 0]
  BY <1>2, FoldIsChosen
<1> HIDE DEF it
<1> QED
  BY <1>1, <1>2, <1>3 DEF Solves

\* The fold of a sequence adds its last element to the fold of the others.
THEOREM FoldOfAppend ==
  ASSUME NEW c, NEW d, NEW base, NEW X, NEW s \in Seq(X), NEW x \in X
  PROVE  Fold(c, d, base, Append(s, x)) = Op(c, d, Fold(c, d, base, s), x)
<1> DEFINE n == Len(s)
           r == Append(s, x)
           it == CHOOSE it : Solves(it, c, d, base, s, 1 .. n)
           jt == CHOOSE jt : Solves(jt, c, d, base, r, 1 .. n + 1)
           S == 1 .. n + 1
<1>1. n \in Nat /\ DOMAIN s = 1 .. n /\ DOMAIN r = S
      /\ r[n + 1] = x /\ \A i \in 1 .. n : s[i] = r[i]
  OBVIOUS
<1>2. Solves(it, c, d, base, s, 1 .. n)
  <2> HIDE DEF n
  <2> QED
    BY <1>1, SolutionExists
<1>3. Solves(jt, c, d, base, r, S)
  <2>1. n + 1 \in Nat
    BY <1>1
  <2> HIDE DEF n, r
  <2> QED
    BY <2>1, SolutionExists
<1>4. Fold(c, d, base, s) = it[1 .. n] /\ Fold(c, d, base, r) = jt[S]
  <2> HIDE DEF n, r
  <2> QED
    BY <1>1, FoldIsChosen
<1> HIDE DEF it, jt, n, r
<1>8. n \in Nat
  BY <1>1
<1>5. it[1 .. n] = jt[1 .. n]
  <2>1. \A i \in 1 .. n : s[i] = r[i]
    BY <1>1
  <2> QED
    BY <1>2, <1>3, <1>8, <2>1, SolutionsAgree
<1>6. S \in SUBSET S /\ S # {} /\ Max(S) = n + 1 /\ S \ {n + 1} = 1 .. n
  <2>1. n + 1 \in S
    BY <1>8
  <2>2. Max(S) = n + 1
    BY <1>8, <2>1, MaxOfPositions
  <2> QED
    BY <1>8, <2>1, <2>2
<1>7. jt[S] = Op(c, d, jt[S \ {Max(S)}], r[Max(S)])
  <2> HIDE DEF S
  <2> QED
    BY <1>3, <1>6 DEF Solves
<1> QED
  BY <1>1, <1>4, <1>5, <1>6, <1>7 DEF r

-----------------------------------------------------------------------------
\* Up to a position, the fold is the step at it after the fold up to before it.
THEOREM FoldOfPrefix ==
  ASSUME NEW c, NEW d, NEW base, NEW X, NEW s \in Seq(X), NEW k \in 1 .. Len(s)
  PROVE  Fold(c, d, base, SubSeq(s, 1, k)) =
           Op(c, d, Fold(c, d, base, SubSeq(s, 1, k - 1)), s[k])
<1>1. Len(s) \in Nat /\ 1 \in 1 .. Len(s) /\ k \in 1 .. Len(s) /\ s[k] \in X
  OBVIOUS
<1>2. SubSeq(s, 1, k) = SubSeq(s, 1, k - 1) \o <<s[k]>>
  BY <1>1, SubSeqRecursiveSecond
<1>3. SubSeq(s, 1, k - 1) \in Seq(X)
  BY <1>1, SubSeqProperties
<1>4. SubSeq(s, 1, k) = Append(SubSeq(s, 1, k - 1), s[k])
  BY <1>1, <1>2, <1>3, AppendIsConcat
<1>5. Fold(c, d, base, Append(SubSeq(s, 1, k - 1), s[k])) =
        Op(c, d, Fold(c, d, base, SubSeq(s, 1, k - 1)), s[k])
  <2> DEFINE before == SubSeq(s, 1, k - 1)
  <2> HIDE DEF before
  <2>1. before \in Seq(X) /\ s[k] \in X
    BY <1>1, <1>3 DEF before
  <2>2. \A r \in Seq(X), x \in X : Fold(c, d, base, Append(r, x)) = Op(c, d, Fold(c, d, base, r), x)
    BY FoldOfAppend
  <2>3. Fold(c, d, base, Append(before, s[k])) = Op(c, d, Fold(c, d, base, before), s[k])
    BY <2>1, <2>2, Zenon
  <2> QED
    BY <2>3 DEF before
<1> QED
  BY <1>4, <1>5

\* What holds of the base, and after each step if before it, holds of the fold:
\* I has the pairs of a number of steps and a value they may give.
THEOREM FoldInduction ==
  ASSUME NEW c, NEW d, NEW base, NEW X, NEW s \in Seq(X),
         NEW I, <<0, base>> \in I,
         \A k \in 1 .. Len(s) : \A v : <<k - 1, v>> \in I => <<k, Op(c, d, v, s[k])>> \in I
  PROVE  /\ \A k \in 0 .. Len(s) : <<k, Fold(c, d, base, SubSeq(s, 1, k))>> \in I
         /\ <<Len(s), Fold(c, d, base, s)>> \in I
<1> DEFINE F(k) == Fold(c, d, base, SubSeq(s, 1, k))
           T == {k \in Nat : k <= Len(s) => <<k, F(k)>> \in I}
<1>1. Len(s) \in Nat
  OBVIOUS
<1>2. 0 \in T
  <2>1. SubSeq(s, 1, 0) = <<>>
    BY SubSeqEmpty
  <2>2. F(0) = base
    BY <2>1, FoldOfNothing
  <2> HIDE DEF F
  <2> QED
    BY <2>2
<1>3. ASSUME NEW k \in T PROVE k + 1 \in T
  <2> SUFFICES ASSUME k + 1 <= Len(s) PROVE <<k + 1, F(k + 1)>> \in I
    OBVIOUS
  <2>1. k \in Nat /\ <<k, F(k)>> \in I
    BY <1>1
  <2> HIDE DEF T
  <2>2. k + 1 \in 1 .. Len(s) /\ (k + 1) - 1 = k
    BY <1>1, <2>1
  <2>3. F(k + 1) = Op(c, d, F((k + 1) - 1), s[k + 1])
    BY <2>2, FoldOfPrefix
  <2>4. F((k + 1) - 1) = F(k)
    BY <2>2
  <2> HIDE DEF F
  <2> QED
    BY <2>1, <2>2, <2>3, <2>4
<1>4. T = Nat
  <2> HIDE DEF T
  <2>1. T \in SUBSET Nat
    BY DEF T
  <2> QED
    BY <1>2, <1>3, <2>1, SetInduction
<1>5. \A k \in 0 .. Len(s) : <<k, F(k)>> \in I
  <2> SUFFICES ASSUME NEW k \in 0 .. Len(s) PROVE <<k, F(k)>> \in I
    OBVIOUS
  <2>1. k \in T /\ k <= Len(s)
    BY <1>1, <1>4
  <2> HIDE DEF F
  <2> QED
    BY <2>1
<1>6. F(Len(s)) = Fold(c, d, base, s)
  BY SubSeqFull
<1> QED
  BY <1>1, <1>5, <1>6

\* Where a step leads from V to V, so does the fold.
THEOREM FoldClosed ==
  ASSUME NEW c, NEW d, NEW X, NEW s \in Seq(X), NEW V, NEW base \in V,
         \A v \in V, x \in X : Op(c, d, v, x) \in V
  PROVE  Fold(c, d, base, s) \in V
<1> DEFINE I == Nat \X V
<1>1. <<0, base>> \in I
  OBVIOUS
<1>2. \A k \in 1 .. Len(s) : \A v : <<k - 1, v>> \in I => <<k, Op(c, d, v, s[k])>> \in I
  <2> SUFFICES ASSUME NEW k \in 1 .. Len(s), NEW v, <<k - 1, v>> \in I
               PROVE  <<k, Op(c, d, v, s[k])>> \in I
    OBVIOUS
  <2>1. k \in Nat /\ v \in V /\ s[k] \in X
    OBVIOUS
  <2> QED
    BY <2>1
<1>3. <<Len(s), Fold(c, d, base, s)>> \in I
  <2> HIDE DEF I
  <2> QED
    BY <1>1, <1>2, FoldInduction
<1> QED
  BY <1>3

\* Induction: a set of sequences with <<>> and with each of its sequences that
\* has one more element has all.
THEOREM SequenceInduction ==
  ASSUME NEW X, NEW T \in SUBSET Seq(X), <<>> \in T,
         \A s \in T : \A x \in X : Append(s, x) \in T
  PROVE  T = Seq(X)
<1> DEFINE U == {n \in Nat : \A s \in Seq(X) : Len(s) = n => s \in T}
<1>1. 0 \in U
  <2> SUFFICES ASSUME NEW s \in Seq(X), Len(s) = 0 PROVE s \in T
    OBVIOUS
  <2>1. s = <<>>
    BY EmptySeq
  <2> QED
    BY <2>1
<1>2. ASSUME NEW n \in U PROVE n + 1 \in U
  <2> SUFFICES ASSUME NEW s \in Seq(X), Len(s) = n + 1 PROVE s \in T
    OBVIOUS
  <2>1. n \in Nat /\ s # <<>>
    BY EmptySeq
  <2>2. PICK r \in Seq(X), x \in X : s = Append(r, x)
    BY <2>1, SequenceEmptyOrAppend
  <2>3. Len(r) \in Nat /\ Len(s) = Len(r) + 1
    BY <2>2, AppendProperties
  <2>4. Len(r) = n
    BY <2>1, <2>3
  <2>5. r \in T
    BY <2>4
  <2> QED
    BY <2>2, <2>5
<1>3. U \in SUBSET Nat
  OBVIOUS
<1>4. U = Nat
  <2> HIDE DEF U
  <2> QED
    BY <1>1, <1>2, <1>3, SetInduction
<1>5. ASSUME NEW s \in Seq(X) PROVE s \in T
  <2>1. Len(s) \in U
    BY <1>4
  <2> QED
    BY <2>1
<1> QED
  BY <1>5
=============================================================================
