---------------------------- MODULE NumberFacts ----------------------------
(***************************************************************************)
(* Facts about numbers and finite sets that the proofs about the sockets   *)
(* share: least and greatest elements, sizes of intervals, and induction   *)
(* in a form the backends can use, over a set in place of a predicate.     *)
(***************************************************************************)
EXTENDS Integers, FiniteSets, FiniteSetsExt, FiniteSetTheorems, WellFoundedInduction, TLAPS

\* A set of natural numbers has a least element.
LEMMA MinFacts ==
    ASSUME NEW S, S \subseteq Nat, S # {}
    PROVE  Min(S) \in S /\ \A x \in S : Min(S) <= x
  <1> DEFINE R == OpToRel(<, Nat)
  <1>1. IsWellFoundedOn(R, Nat)
    BY NatLessThanWellFounded
  <1>2. \A x, y \in Nat : <<x, y>> \in R <=> x < y
    BY DEF OpToRel
  <1> HIDE DEF R
  <1>3. PICK m \in S : \A y \in S : ~(<<y, m>> \in R)
    BY <1>1, WFMin
  <1>4. ASSUME NEW y \in S PROVE m <= y
    <2>1. m \in Nat /\ y \in Nat
      OBVIOUS
    <2>2. ~(<<y, m>> \in R)
      BY <1>3
    <2>3. ~(y < m)
      BY <1>2, <2>1, <2>2, Zenon
    <2> QED  BY <2>1, <2>3
  <1> QED  BY <1>4 DEF Min

\* A bounded one has a greatest.
LEMMA MaxFacts ==
    ASSUME NEW n \in Nat, NEW S, S \subseteq 0..n, S # {}
    PROVE  Max(S) \in S /\ \A x \in S : x <= Max(S)
  <1> DEFINE T == {n - x : x \in S}
  <1>1. T \subseteq Nat /\ T # {}
    <2>1. \A x \in S : n - x \in Nat
      OBVIOUS
    <2>2. PICK x \in S : TRUE
      OBVIOUS
    <2>3. n - x \in T
      OBVIOUS
    <2> QED  BY <2>1, <2>3
  <1>2. Min(T) \in T /\ \A y \in T : Min(T) <= y
    BY <1>1, MinFacts
  <1>3. PICK m \in S : Min(T) = n - m
    BY <1>2
  <1>4. \A x \in S : n - x \in T
    OBVIOUS
  <1>5. ASSUME NEW x \in S PROVE m >= x
    <2>1. n - m <= n - x
      BY <1>2, <1>3, <1>4
    <2>2. m \in Nat /\ x \in Nat
      OBVIOUS
    <2> QED  BY <2>1, <2>2
  <1> QED  BY <1>5 DEF Max

\* The larger and the smaller of two numbers, std::max and std::min.
LEMMA PairFacts ==
    ASSUME NEW a \in Int, NEW b \in Int
    PROVE  /\ Max({a, b}) = (IF a >= b THEN a ELSE b)
           /\ Min({a, b}) = (IF a <= b THEN a ELSE b)
  <1>1. \E x \in {a, b} : \A y \in {a, b} : x >= y
    OBVIOUS
  <1>2. \E x \in {a, b} : \A y \in {a, b} : x <= y
    OBVIOUS
  <1> QED  BY <1>1, <1>2 DEF Max, Min

\* The bytes of a range.
LEMMA IntervalCount ==
    ASSUME NEW a \in Int, NEW b \in Int
    PROVE  Cardinality(a..(b - 1)) = IF a >= b THEN 0 ELSE b - a
  <1> DEFINE c == b - 1
  <1>1. c \in Int
    OBVIOUS
  <1> HIDE DEF c
  <1>2. Cardinality(a..c) = IF a > c THEN 0 ELSE c - a + 1
    BY <1>1, FS_Interval
  <1>3. (a > c) = (a >= b) /\ c - a + 1 = b - a
    BY DEF c
  <1>4. CASE a > c
    BY <1>2, <1>3, <1>4 DEF c
  <1>5. CASE ~(a > c)
    BY <1>2, <1>3, <1>5 DEF c
  <1> QED  BY <1>4, <1>5

\* What holds of 0 and passes from each number to the next holds of all.
LEMMA Induction ==
    ASSUME NEW S, 0 \in S, \A n \in Nat : n \in S => n + 1 \in S
    PROVE  Nat \subseteq S
  <1> DEFINE T == Nat \ S
  <1> SUFFICES ASSUME T # {} PROVE FALSE
    OBVIOUS
  <1>1. Min(T) \in T /\ \A x \in T : Min(T) <= x
    BY MinFacts
  <1> DEFINE m == Min(T)
  <1> HIDE DEF m
  <1>2. m \in Nat /\ m \notin S /\ \A x \in T : m <= x
    BY <1>1 DEF m
  <1>3. m - 1 \in Nat /\ m - 1 \notin T
    BY <1>2
  <1>4. (m - 1) + 1 \in S
    BY <1>3
  <1> QED  BY <1>2, <1>4
=============================================================================
