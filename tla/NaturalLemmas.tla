---------------------------- MODULE NaturalLemmas ----------------------------
(***************************************************************************)
(* Facts about natural numbers and finite sets that several proofs need.   *)
(* Induction is stated over a set, not over a predicate: the set of        *)
(* numbers for which something holds contains them all.                    *)
(***************************************************************************)
EXTENDS Integers, FiniteSetTheorems, WellFoundedInduction, TLAPS

(* A set of natural numbers that is not empty has a least element.         *)
LEMMA LeastElement ==
    ASSUME NEW S \in SUBSET Nat, S # {}
    PROVE  \E m \in S : \A k \in S : m <= k
  <1>1. PICK R : /\ IsWellFoundedOn(R, Nat)
                 /\ \A x, y \in Nat : x < y => <<x, y>> \in R
    <2>1. \A x, y \in Nat : x < y => <<x, y>> \in OpToRel(<, Nat)
      BY DEF OpToRel
    <2> QED BY <2>1, NatLessThanWellFounded
  <1>2. S \subseteq Nat /\ IsWellFoundedOn(R, Nat)
    BY <1>1
  <1>3. ASSUME NEW T, T \subseteq Nat, T # {}
        PROVE  \E x \in T : \A y \in T : ~(<<y, x>> \in R)
    BY <1>2, <1>3, WFMin
  <1>4. \E x \in S : \A y \in S : ~(<<y, x>> \in R)
    BY <1>2, <1>3
  <1>5. PICK m \in S : \A k \in S : ~(<<k, m>> \in R)
    BY <1>4
  <1>6. ASSUME NEW k \in S PROVE m <= k
    <2>1. m \in Nat /\ k \in Nat
      OBVIOUS
    <2>2. ~(k < m)
      BY <1>1, <1>5, <2>1
    <2> QED BY <2>1, <2>2
  <1> QED BY <1>6

(* Induction: a set with 0 in it that is closed under successors has every *)
(* natural number in it.                                                   *)
LEMMA NaturalInduction ==
    ASSUME NEW S, 0 \in S, \A n \in Nat : n \in S => n + 1 \in S
    PROVE  \A n \in Nat : n \in S
  <1> SUFFICES ASSUME Nat \ S # {} PROVE FALSE
    OBVIOUS
  <1>1. PICK m \in Nat \ S : \A k \in Nat \ S : m <= k
    BY LeastElement
  <1>2. m # 0 /\ m - 1 \in Nat /\ m - 1 \in S
    BY <1>1
  <1> QED BY <1>1, <1>2

(* Part of an interval is finite and no larger than the whole.             *)
LEMMA PartOfInterval ==
    ASSUME NEW n \in Nat, NEW S \in SUBSET (1 .. n), NEW T \in SUBSET S
    PROVE  /\ IsFiniteSet(S) /\ Cardinality(S) \in Nat
           /\ IsFiniteSet(T) /\ Cardinality(T) \in Nat
           /\ Cardinality(T) <= Cardinality(S)
  <1>1. IsFiniteSet(1 .. n)
    BY FS_Interval
  <1>2. IsFiniteSet(S)
    BY <1>1, FS_Subset
  <1>3. IsFiniteSet(T) /\ Cardinality(T) <= Cardinality(S)
    BY <1>2, FS_Subset
  <1> QED BY <1>2, <1>3, FS_CardinalityType
=============================================================================
