---------------------------- MODULE NumberLemmas ----------------------------
(***************************************************************************)
(* Sets of numbers have a smallest and, when they are bounded, a greatest  *)
(* element: what Min and Max of the community modules rest on.             *)
(***************************************************************************)
EXTENDS Integers, FiniteSetsExt, FiniteSetTheorems, TLAPS

(* Of any natural numbers one is the smallest.                             *)
LEMMA SmallestNumber ==
    ASSUME NEW S, S \subseteq Nat, S # {}
    PROVE  \E x \in S : \A y \in S : x <= y
<1> DEFINE Below == {0..x : x \in S}
<1>1. Below \subseteq FiniteSubsetsOf(Nat) /\ Below # {}
  <2>1. ASSUME NEW x \in S PROVE 0..x \in FiniteSubsetsOf(Nat)
    <3>1. x \in Nat /\ 0..x \subseteq Nat
      OBVIOUS
    <3>. QED
      BY <3>1, FS_Interval DEF FiniteSubsetsOf
  <2>. QED
    BY <2>1
<1>2. PICK least \in Below : \A other \in Below : <<other, least>> \notin StrictSubsetOrdering(Nat)
  <2> HIDE DEF Below
  <2>. QED
    BY <1>1, FS_StrictSubsetOrderingWellFounded, WFMin
<1>3. PICK x \in S : least = 0..x
  OBVIOUS
<1>4. ASSUME NEW y \in S, y < x PROVE FALSE
  <2>1. 0..y \in Below /\ 0..y \subseteq 0..x /\ x \in 0..x /\ x \notin 0..y
    BY <1>4
  <2>2. 0..y \in SUBSET Nat /\ 0..x \in SUBSET Nat /\ 0..y # 0..x
    BY <2>1
  <2>3. <<0..y, 0..x>> \in StrictSubsetOrdering(Nat)
    BY <2>1, <2>2 DEF StrictSubsetOrdering
  <2>. QED
    BY <1>2, <1>3, <2>1, <2>3
<1>5. \A y \in S : x <= y
  BY <1>4
<1>. QED
  BY <1>5

(* Of any natural numbers below a bound one is the greatest.               *)
LEMMA GreatestNumber ==
    ASSUME NEW S, S \subseteq Nat, S # {}, NEW bound \in Nat, \A x \in S : x <= bound
    PROVE  \E x \in S : \A y \in S : y <= x
<1> DEFINE T == {bound - x : x \in S}
<1>1. T \subseteq Nat /\ T # {}
  <2>1. \A x \in S : bound - x \in Nat
    OBVIOUS
  <2>. QED
    BY <2>1
<1>2. PICK t \in T : \A u \in T : t <= u
  BY <1>1, SmallestNumber
<1>3. PICK x \in S : t = bound - x
  OBVIOUS
<1>4. ASSUME NEW y \in S PROVE y <= x
  <2>1. bound - y \in T
    OBVIOUS
  <2>2. bound - x <= bound - y
    BY <1>2, <1>3, <2>1
  <2>. QED
    BY <2>2
<1>. QED
  BY <1>4

(* Min and Max are these elements.                                         *)
LEMMA MinIsSmallest ==
    ASSUME NEW S, S \subseteq Nat, S # {}
    PROVE  Min(S) \in S /\ \A y \in S : Min(S) <= y
BY SmallestNumber DEF Min

(* Max of a bounded set of numbers, not empty, is its greatest.            *)
LEMMA MaxIsGreatest ==
    ASSUME NEW S, S \subseteq Nat, S # {}, NEW bound \in Nat, \A x \in S : x <= bound
    PROVE  Max(S) \in S /\ \A y \in S : y <= Max(S)
BY GreatestNumber DEF Max
=============================================================================
