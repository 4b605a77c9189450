----------------------------- MODULE Induction -----------------------------
(* Induction over the natural numbers, for sets of numbers: a property P is *)
(* the set {n \in Nat : P(n)}.  It rests on the library's proof that < is   *)
(* well-founded; the library's own induction rules are about operators,     *)
(* which the provers at hand do not instantiate.                            *)
EXTENDS Naturals, WellFoundedInduction, TLAPS

Less == {pair \in Nat \X Nat : pair[1] < pair[2]}

(* A set of numbers that is not empty has a least element.                  *)
LEMMA LeastElement ==
    ASSUME NEW T, T \subseteq Nat, T # {}
    PROVE  \E least \in T : \A n \in T : least <= n
<1>1. IsWellFoundedOn(Less, Nat)
  <2>1. Less = OpToRel(<, Nat)
    BY DEF Less, OpToRel
  <2> QED
    BY <2>1, NatLessThanWellFounded
<1>2. PICK least \in T : \A n \in T : <<n, least>> \notin Less
  BY <1>1, WFMin
<1>3. \A n \in Nat : n < least => <<n, least>> \in Less
  BY DEF Less
<1>4. \A n \in T : ~(n < least)
  BY <1>2, <1>3, Zenon
<1> QED
  BY <1>4

(* A set that holds 0, and n + 1 with every n, holds every number.          *)
LEMMA Induction ==
    ASSUME NEW T, 0 \in T, \A n \in Nat : n \in T => n + 1 \in T
    PROVE  Nat \subseteq T
<1> SUFFICES ASSUME Nat \ T # {} PROVE FALSE
  OBVIOUS
<1>1. PICK least \in Nat \ T : \A n \in Nat \ T : least <= n
  BY LeastElement
<1>2. least # 0 /\ least - 1 \in Nat /\ least - 1 + 1 = least
  BY <1>1
<1> QED
  BY <1>1, <1>2
=============================================================================
