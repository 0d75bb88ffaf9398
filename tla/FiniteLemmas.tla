---------------------------- MODULE FiniteLemmas ----------------------------
(***************************************************************************)
(* Facts about sets of numbers that the proofs of several components use:  *)
(* induction over a set, and extrema.                                      *)
(***************************************************************************)
EXTENDS Integers, FiniteSets, FiniteSetsExt, FiniteSetTheorems,
        WellFoundedInduction, TLAPS

\* Every non-empty set of naturals has a least element.
LEMMA LeastNatural ==
  ASSUME NEW S \in SUBSET Nat, S # {}
  PROVE  \E x \in S : \A y \in S : x <= y
<1> DEFINE R == OpToRel(<, Nat)
<1>1. IsWellFoundedOn(R, Nat)
  BY NatLessThanWellFounded
<1> HIDE DEF R
<1>2. PICK x \in S : \A y \in S : ~ (<<y, x>> \in R)
  BY <1>1, WFMin, ZenonT(60)
<1>3. \A y \in S : (y < x) => <<y, x>> \in R
  BY DEF R, OpToRel
<1>4. ASSUME NEW y \in S
      PROVE  x <= y
  <2>1. ~ (y < x)
    BY <1>2, <1>3, ZenonT(60)
  <2>2. QED
    BY <2>1
<1>5. QED
  BY <1>4

\* Induction over the naturals, for a set instead of a predicate.
LEMMA NatSetInduction ==
  ASSUME NEW S, 0 \in S, \A n \in Nat : n \in S => n + 1 \in S
  PROVE  Nat \subseteq S
<1> DEFINE T == Nat \ S
<1> SUFFICES ASSUME T # {} PROVE FALSE
  OBVIOUS
<1>1. PICK x \in T : \A y \in T : x <= y
  BY LeastNatural, ZenonT(60)
<1>2. x # 0
  OBVIOUS
<1>3. x - 1 \in Nat /\ x - 1 \notin T
  BY <1>1, <1>2
<1>4. QED
  BY <1>3

\* Min picks the least element of a non-empty set of naturals.
LEMMA MinOfNaturals ==
  ASSUME NEW S \in SUBSET Nat, S # {}
  PROVE  Min(S) \in S /\ \A y \in S : Min(S) <= y
  BY LeastNatural, ZenonT(60) DEF Min

\* A finite, non-empty set of naturals has a greatest element.
LEMMA GreatestNatural ==
  ASSUME NEW S \in SUBSET Nat, IsFiniteSet(S), S # {}
  PROVE  \E x \in S : \A y \in S : y <= x
<1> DEFINE Bad == {n \in Nat : \E T \in SUBSET S : Cardinality(T) = n + 1 /\ ~ \E x \in T : \A y \in T : y <= x}
<1>1. \A T \in SUBSET S : IsFiniteSet(T) /\ Cardinality(T) \in Nat
  BY FS_Subset, FS_CardinalityType, ZenonT(60)
<1>2. SUFFICES ASSUME Bad # {} PROVE FALSE
  <2>1. Cardinality(S) \in Nat /\ Cardinality(S) # 0
    BY FS_CardinalityType, FS_EmptySet
  <2>2. Cardinality(S) - 1 \in Nat /\ Cardinality(S) - 1 \notin Bad
    BY <2>1
  <2>3. QED
    BY <2>1, <2>2
<1>3. PICK n \in Bad : \A m \in Bad : n <= m
  BY <1>2, LeastNatural, ZenonT(60)
<1>4. PICK T \in SUBSET S : Cardinality(T) = n + 1 /\ ~ \E x \in T : \A y \in T : y <= x
  BY <1>3
<1>5. PICK t \in T : TRUE
  <2>1. n \in Nat /\ Cardinality(T) # 0
    BY <1>4
  <2>2. T # {}
    BY <2>1, FS_EmptySet
  <2>3. QED
    BY <2>2, ZenonT(60)
<1> DEFINE U == T \ {t}
<1>6. Cardinality(U) = n /\ U \in SUBSET S
  <2>1. Cardinality(U) = Cardinality(T) - 1
    <3>1. IsFiniteSet(T)
      BY <1>1
    <3>2. QED
      BY <3>1, <1>5, FS_RemoveElement, ZenonT(60)
  <2>2. n \in Nat
    OBVIOUS
  <2>3. QED
    BY <1>4, <2>1, <2>2
<1>7. CASE n = 0
  <2>1. IsFiniteSet(U) /\ Cardinality(U) = 0
    BY <1>1, <1>6, <1>7
  <2>2. U = {}
    BY <2>1, FS_EmptySet
  <2>3. t \in Nat /\ \A y \in T : y = t
    BY <1>5, <2>2
  <2>4. \A y \in T : y <= t
    BY <2>3
  <2>5. QED
    BY <1>4, <1>5, <2>4
<1>8. CASE n # 0
  <2>1. n - 1 \in Nat /\ n - 1 \notin Bad
    <3>1. n \in Nat /\ \A m \in Bad : n <= m
      BY <1>3
    <3> HIDE DEF Bad
    <3>2. QED
      BY <3>1, <1>8
  <2>2. PICK u \in U : \A y \in U : y <= u
    BY <1>6, <2>1
  <2>3. CASE u <= t
    BY <1>4, <1>5, <2>2, <2>3
  <2>4. CASE t <= u
    BY <1>4, <1>5, <2>2, <2>4
  <2>5. QED
    BY <2>3, <2>4
<1>9. QED
  BY <1>7, <1>8

\* Max picks the greatest element of a finite, non-empty set of naturals.
LEMMA MaxOfNaturals ==
  ASSUME NEW S \in SUBSET Nat, IsFiniteSet(S), S # {}
  PROVE  Max(S) \in S /\ \A y \in S : y <= Max(S)
<1>1. \E x \in S : \A y \in S : x >= y
  BY GreatestNatural
<1>2. QED
  BY <1>1, ZenonT(60) DEF Max
=============================================================================
