---------------------------- MODULE NaturalSets ----------------------------
(***************************************************************************)
(* Induction with a set of numbers where one would put a predicate: what    *)
(* the proofs about functions defined by recursion rest on.                 *)
(***************************************************************************)
EXTENDS Integers, FiniteSetTheorems, WellFoundedInduction, TLAPS

(* A set of numbers has a least one: the intervals from zero to each of     *)
(* them have a smallest.                                                    *)
LEMMA Least ==
  ASSUME NEW S, S \subseteq Nat, S # {}
  PROVE  \E n \in S : \A m \in S : n <= m
<1> DEFINE T == {0..k : k \in S}
           R == StrictSubsetOrdering(Nat)
           F == FiniteSubsetsOf(Nat)
<1>1. T \subseteq F /\ T # {}
  <2>1. \A k \in S : 0..k \subseteq Nat /\ IsFiniteSet(0..k)
    BY FS_Interval
  <2> QED
    BY <2>1 DEF FiniteSubsetsOf
<1>2. IsWellFoundedOn(R, F)
  BY FS_StrictSubsetOrderingWellFounded
<1> HIDE DEF T, R, F
<1>3. PICK x \in T : \A y \in T : <<y, x>> \notin R
  BY <1>1, <1>2, WFMin
<1>4. PICK n \in S : x = 0..n
  BY <1>3 DEF T
<1>5. ASSUME NEW m \in S, m < n
      PROVE  FALSE
  <2>1. 0..m \in T /\ 0..m \subseteq Nat /\ 0..n \subseteq Nat
    BY DEF T
  <2>2. 0..m \subseteq 0..n /\ n \notin 0..m /\ n \in 0..n
    BY <1>5
  <2> QED
    BY <2>1, <2>2, <1>3, <1>4 DEF R, StrictSubsetOrdering
<1> QED
  BY <1>5

(* What holds of zero, and of the next number with each, holds up to any:   *)
(* the least number it did not hold of would come next to one it holds of.  *)
LEMMA Upward ==
  ASSUME NEW n \in Nat, NEW S, 0 \in S, \A k \in 0..n : k # n /\ k \in S => k + 1 \in S
  PROVE  \A k \in 0..n : k \in S
<1> DEFINE Left == {k \in 0..n : k \notin S}
<1>1. SUFFICES ASSUME Left # {} PROVE FALSE
  OBVIOUS
<1>2. Left \subseteq Nat
  OBVIOUS
<1> HIDE DEF Left
<1>3. PICK k \in Left : \A m \in Left : k <= m
  BY <1>1, <1>2, Least
<1> USE DEF Left
<1>4. k \in 0..n /\ k \notin S /\ k # 0
  BY <1>3
<1>5. k - 1 \in 0..n /\ k - 1 # n /\ k - 1 \in S
  BY <1>3, <1>4
<1>6. (k - 1) + 1 \in S
  BY <1>5
<1>7. (k - 1) + 1 = k
  BY <1>4
<1> QED
  BY <1>4, <1>6, <1>7

=============================================================================
