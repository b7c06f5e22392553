------------------------------ MODULE NumberFacts ------------------------------
(* A fact about natural numbers that the proof modules share.              *)
EXTENDS Naturals, TLAPS, WellFoundedInduction

(* A non-empty set of numbers has a least: the first reason that rejects a *)
(* turn, the next sample to run.                                           *)
LEMMA LeastNumber ==
  ASSUME NEW S \in SUBSET Nat, S # {}
  PROVE  \E i \in S : \A j \in S : i <= j
  <1> DEFINE R == OpToRel(<, Nat)
  <1>1. PICK i \in S : \A j \in S : <<j, i>> \notin R
    <2> HIDE DEF R
    <2>1. IsWellFoundedOn(R, Nat)
      BY NatLessThanWellFounded DEF R
    <2> QED
      BY <2>1, WFMin
  <1>2. \A j \in S : ~(j < i)
    BY <1>1 DEF OpToRel
  <1> QED
    BY <1>2
=============================================================================
