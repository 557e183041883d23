----------------------------- MODULE Induction ------------------------------
(***************************************************************************)
(* Induction over the natural numbers, for a set instead of a predicate: a *)
(* set that has 0 and the successor of each of its numbers has them all.   *)
(* The number that a set lacks first would have a predecessor in the set.  *)
(* With it the proofs show that the recursive functions of the models      *)
(* exist and what they compute.                                            *)
(***************************************************************************)
EXTENDS Naturals, WellFoundedInduction, TLAPS

\* Induction without a predicate as a parameter.
LEMMA NatSets ==
  ASSUME NEW S, 0 \in S, \A n \in Nat : n \in S => n + 1 \in S
  PROVE  \A n \in Nat : n \in S
<1> DEFINE R == OpToRel(<, Nat)
           T == Nat \ S
<1>1. \A x, y \in Nat : x < y => <<x, y>> \in R
  BY DEF OpToRel
<1>2. IsWellFoundedOn(R, Nat)
  BY NatLessThanWellFounded, Zenon
<1>3. T \subseteq Nat
  OBVIOUS
<1> HIDE DEF R
<1> SUFFICES ASSUME T # {} PROVE FALSE
  OBVIOUS
<1>4. PICK x \in T : \A y \in T : ~(<<y, x>> \in R)
  BY <1>2, <1>3, WFMin
<1>5. x \in Nat /\ x # 0 /\ x - 1 \in Nat /\ x - 1 < x /\ (x - 1) + 1 = x
  BY <1>4
<1>6. x - 1 \in T
  BY <1>5, <1>4
<1> QED
  BY <1>1, <1>4, <1>5, <1>6
=============================================================================
