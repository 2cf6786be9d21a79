------------------------------ MODULE Induction ------------------------------
(* Induction over the natural numbers, of sets of numbers instead of formulas *)
(* about numbers: that < is well founded is stated of a relation, which has   *)
(* no parameter, and what it means for sets follows.  And what is due to it:  *)
(* greatest members, and the members of a set by their rank.                  *)
EXTENDS Integers, FiniteSets, FiniteSetTheorems, WellFoundedInduction, TLAPS

LEMMA LeastIn ==
    ASSUME NEW R, IsWellFoundedOn(R, Nat), \A x, y \in Nat : y < x => <<y, x>> \in R,
           NEW S \in SUBSET Nat, S # {}
    PROVE  \E m \in S : \A k \in S : m <= k
<1>1. PICK m \in S : \A y \in S : ~(<<y, m>> \in R)
  BY WFMin, Zenon
<1>2. \A k \in S : k \in Nat /\ m \in Nat /\ ~(k < m)
  BY <1>1, Zenon
<1>3. \A k \in S : m <= k
  BY <1>2
<1> QED
  BY <1>3

LEMMA Least ==
    ASSUME NEW S \in SUBSET Nat, S # {}
    PROVE  \E m \in S : \A k \in S : m <= k
<1>1. IsWellFoundedOn(OpToRel(<, Nat), Nat)
  BY NatLessThanWellFounded
<1>2. \A x, y \in Nat : y < x => <<y, x>> \in OpToRel(<, Nat)
  BY DEF OpToRel
<1> QED
  BY <1>1, <1>2, LeastIn, Zenon

LEMMA Inductive ==
    ASSUME NEW S, 0 \in S, \A n \in Nat : n \in S => n + 1 \in S
    PROVE  Nat \subseteq S
<1> SUFFICES ASSUME Nat \ S # {} PROVE FALSE
  OBVIOUS
<1>1. PICK m \in Nat \ S : \A k \in Nat \ S : m <= k
  BY Least
<1> QED
  BY <1>1, m = 0 \/ m - 1 \in Nat

LEMMA Greatest ==
    ASSUME NEW n \in Nat, NEW S \in SUBSET (0..n), S # {}
    PROVE  \E m \in S : \A k \in S : m >= k
<1> DEFINE T == {t \in 0..n : n - t \in S}
<1>1. T \in SUBSET Nat /\ T # {}
  <2>1. PICK s \in S : TRUE
    OBVIOUS
  <2>2. s \in 0..n /\ n - s \in 0..n /\ n - (n - s) = s
    OBVIOUS
  <2>3. n - s \in T
    BY <2>2
  <2>4. T \subseteq Nat
    OBVIOUS
  <2> QED
    BY <2>3, <2>4
<1>2. PICK m \in T : \A k \in T : m <= k
  BY <1>1, Least
<1>3. n - m \in S /\ m \in 0..n
  OBVIOUS
<1>4. ASSUME NEW k \in S PROVE n - m >= k
  <2>1. k \in 0..n /\ n - k \in 0..n /\ n - (n - k) = k
    OBVIOUS
  <2>2. n - k \in T
    BY <2>1
  <2>3. m <= n - k
    BY <1>2, <2>2
  <2> HIDE DEF T
  <2> QED
    BY <1>3, <2>1, <2>3
<1> QED
  BY <1>3, <1>4

(* The members of a finite set of numbers have the ranks from 1 on.           *)
Rank(S, i) == Cardinality({j \in S : j <= i})

LEMMA RankIsInjective ==
    ASSUME NEW S \in SUBSET Int, IsFiniteSet(S), NEW i \in S, NEW k \in S, Rank(S, i) = Rank(S, k)
    PROVE  i = k
<1>1. ASSUME NEW x \in S, NEW y \in S, x < y PROVE Rank(S, x) # Rank(S, y)
  <2>1. {j \in S : j <= x} \subseteq {j \in S : j <= y} /\ {j \in S : j <= x} # {j \in S : j <= y}
    <3>1. \A j \in S : j <= x => j <= y
      BY <1>1
    <3>2. y <= y /\ ~(y <= x)
      BY <1>1
    <3> QED
      BY <3>1, <3>2
  <2>2. IsFiniteSet({j \in S : j <= y})
    BY FS_Subset, {j \in S : j <= y} \subseteq S
  <2> QED
    BY <2>1, <2>2, FS_Subset DEF Rank
<1> QED
  BY <1>1

LEMMA RankRange ==
    ASSUME NEW S \in SUBSET Int, IsFiniteSet(S), NEW i \in S
    PROVE  Rank(S, i) \in 1..Cardinality(S)
<1> DEFINE T == {j \in S : j <= i}
<1>1. IsFiniteSet(T) /\ Cardinality(T) <= Cardinality(S)
  BY FS_Subset, T \subseteq S
<1>2. Cardinality(T) \in Nat /\ Cardinality(S) \in Nat /\ (Cardinality(T) = 0 <=> T = {})
  BY <1>1, FS_CardinalityType, FS_EmptySet
<1>3. i \in T
  OBVIOUS
<1> QED
  BY <1>1, <1>2, <1>3 DEF Rank

LEMMA RankExists ==
    ASSUME NEW S \in SUBSET Int, IsFiniteSet(S), NEW n \in 1..Cardinality(S)
    PROVE  \E i \in S : Rank(S, i) = n
<1> SUFFICES ASSUME \A i \in S : Rank(S, i) # n PROVE FALSE
  OBVIOUS
<1> DEFINE c == Cardinality(S)
           T == (1..c) \ {n}
           f == [i \in S |-> Rank(S, i)]
<1>1. c \in Nat /\ IsFiniteSet(1..c) /\ Cardinality(1..c) = c
  BY FS_CardinalityType, FS_Interval
<1>2. IsFiniteSet(T) /\ Cardinality(T) = c - 1
  BY <1>1, FS_RemoveElement
<1>3. f \in [S -> T]
  BY RankRange
<1>4. \E x, y \in S : x # y /\ f[x] = f[y]
  <2>1. Cardinality(T) < Cardinality(S)
    BY <1>1, <1>2
  <2> HIDE DEF f, T
  <2> QED
    BY <1>2, <1>3, <2>1, FS_PigeonHole
<1> QED
  BY <1>4, RankIsInjective
=============================================================================
