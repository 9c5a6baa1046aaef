----------------------------- MODULE OrderLemmas -----------------------------
(* Least and greatest elements of sets of naturals, which the proofs about    *)
(* what the code picks with min() and max() rest on. The library proves the   *)
(* order of the naturals well-founded; a set of its own is named here so that *)
(* every step is about sets and functions alone.                              *)
EXTENDS Naturals, FiniteSetsExt, WellFoundedInduction, TLAPS

NatBelow == {ss \in Nat \X Nat : ss[1] < ss[2]}

\* No natural number has endlessly many below it.
LEMMA NatWellFounded == IsWellFoundedOn(NatBelow, Nat)
  <1>1. NatBelow = OpToRel(<, Nat)
    BY Zenon DEF OpToRel, NatBelow
  <1> QED
    BY <1>1, NatLessThanWellFounded

\* A set of naturals that has an element has a least one.
LEMMA LeastExists ==
    ASSUME NEW S, S \subseteq Nat, S # {}
    PROVE  \E n \in S : \A m \in S : n <= m
  <1>1. PICK n \in S : \A m \in S : ~ (<<m, n>> \in NatBelow)
    BY WFMin, NatWellFounded
  <1>2. ASSUME NEW m \in S PROVE n <= m
    <2>1. m \in Nat /\ n \in Nat /\ <<m, n>> \in Nat \X Nat /\ <<m, n>>[1] = m /\ <<m, n>>[2] = n
      OBVIOUS
    <2>2. ~ (m < n)
      <3> SUFFICES ASSUME m < n PROVE FALSE
        OBVIOUS
      <3>1. <<m, n>> \in NatBelow
        BY Zenon, <2>1 DEF NatBelow
      <3> QED
        BY <3>1, <1>1
    <2> QED
      BY <2>1, <2>2
  <1> QED
    BY <1>2

\* Python's min() of some naturals is one of them, and below the others.
LEMMA MinIsLeast ==
    ASSUME NEW S, S \subseteq Nat, S # {}
    PROVE  Min(S) \in S /\ \A m \in S : Min(S) <= m
  <1>1. PICK n \in S : \A m \in S : n <= m
    BY LeastExists
  <1> QED
    BY <1>1 DEF Min

\* Python's max() of some naturals, where they have a bound, is one of them
\* and above the others.
LEMMA MaxIsGreatest ==
    ASSUME NEW S, S \subseteq Nat, S # {}, NEW b \in Nat, \A m \in S : m <= b
    PROVE  Max(S) \in S /\ \A m \in S : m <= Max(S)
  <1> DEFINE U == {b - m : m \in S}
  <1>1. U \subseteq Nat /\ U # {}
    <2>1. ASSUME NEW m \in S PROVE b - m \in Nat
      OBVIOUS
    <2> QED
      BY <2>1
  <1>2. PICK u \in U : \A m \in U : u <= m
    BY <1>1, LeastExists
  <1>3. PICK n \in S : u = b - n
    BY <1>2
  <1>4. \A m \in S : m <= n
    <2> TAKE m \in S
    <2>1. b - m \in U
      OBVIOUS
    <2>2. b - n <= b - m /\ m \in Nat /\ n \in Nat
      BY <2>1, <1>2, <1>3
    <2> QED
      BY <2>2
  <1> QED
    BY <1>4 DEF Max

\* min() and max() of two.
LEMMA MinOfTwo ==
    ASSUME NEW a \in Nat, NEW b \in Nat
    PROVE  Min({a, b}) = IF a <= b THEN a ELSE b
  <1>1. Min({a, b}) \in {a, b} /\ \A m \in {a, b} : Min({a, b}) <= m
    BY MinIsLeast
  <1> QED
    BY <1>1

LEMMA MaxOfTwo ==
    ASSUME NEW a \in Nat, NEW b \in Nat
    PROVE  Max({a, b}) = IF a <= b THEN b ELSE a
  <1>1. PICK c \in Nat : a <= c /\ b <= c
    <2>1. a + b \in Nat /\ a <= a + b /\ b <= a + b
      OBVIOUS
    <2> QED
      BY <2>1
  <1>2. Max({a, b}) \in {a, b} /\ \A m \in {a, b} : m <= Max({a, b})
    BY <1>1, MaxIsGreatest
  <1> QED
    BY <1>2
=============================================================================
