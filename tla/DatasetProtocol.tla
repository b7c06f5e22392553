---------------------------- MODULE DatasetProtocol ----------------------------
(***************************************************************************)
(* What the loop relies on from a dataset adapter (the Dataset protocol of *)
(* revise/pnp/protocols.py): a constant module, so that the loop can       *)
(* assume it and the adapters be shown to meet it.                         *)
(***************************************************************************)
EXTENDS Integers, FiniteSets

\* Frames an adapter may ever propose, valid or made up for an unknown timeline.
FramesOf(frameCount, initial, fallback) == (0 .. frameCount - 1) \cup initial \cup fallback

\* A round's worth of frames.
OneRound(F, maxFrames) == F \subseteq Nat /\ IsFiniteSet(F) /\ Cardinality(F) <= maxFrames

\* Initial and fallback frames fit a round; a pool of candidates and a sample
\* of unseen frames can always be had, and have no frame seen before.
DatasetContract(frameCount, maxFrames, initial, fallback, Pools(_), Samples(_)) ==
  LET frames == FramesOf(frameCount, initial, fallback)
  IN /\ frameCount \in Nat
     /\ OneRound(initial, maxFrames) /\ OneRound(fallback, maxFrames)
     /\ \A S \in SUBSET frames :
          /\ Pools(S) # {} /\ Samples(S) # {}
          /\ \A P \in Pools(S) : P \subseteq frames \ S
          /\ \A U \in Samples(S) : U \subseteq frames \ S /\ Cardinality(U) <= maxFrames
=============================================================================
