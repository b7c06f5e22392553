----------------------------- MODULE ReviseFramesMC -----------------------------
(***************************************************************************)
(* ReviseFrames against reference definitions: for every timeline of at    *)
(* most MaxCount frames, every set of frames seen on it and every sample   *)
(* size up to MaxSize.  A behaviour shows the frames of one timeline one   *)
(* at a time, in any order.                                                *)
(***************************************************************************)
EXTENDS ReviseFrames

CONSTANTS MaxCount, MaxSize

ASSUME BoundsAssumption == MaxCount \in Nat /\ MaxSize \in Nat

VARIABLES frameCount, size, seen
vars == <<frameCount, size, seen>>

Init == frameCount \in 0 .. MaxCount /\ size \in 0 .. MaxSize /\ seen = {}

Show(f) == f \notin seen /\ seen' = seen \cup {f} /\ UNCHANGED <<frameCount, size>>

Next == \E f \in Timeline(frameCount) : Show(f)

Spec == Init /\ [][Next]_vars

Covered(intervals) == UNION {I[1] .. I[2] : I \in intervals}

Unseen == Timeline(frameCount) \ seen

(* A sample of a known timeline lies on it, has as many frames as it can,   *)
(* and from two frames on includes both ends and leaves no two consecutive  *)
(* gaps that differ by more than the rounding (sample_uniform_indices).     *)
UniformCoversTimeline ==
  LET sample == SampleUniform(frameCount, size)
  IN frameCount > 0 =>
       /\ sample \subseteq Timeline(frameCount)
       /\ Cardinality(sample) = Least(size, frameCount)
       /\ size >= 2 => {0, frameCount - 1} \subseteq sample
       /\ \A G, H \in Neighbours(sample) : G[2] - G[1] <= H[2] - H[1] + 2

(* However the halves come out, the window sampler keeps to its window, ends *)
(* included, with as many frames as it can and even gaps, and takes no frame *)
(* more than one away from the uniform sampler's, moved to the window        *)
(* (sample_uniform_indices_inclusive).                                       *)
WindowCovered ==
  \A start \in 0 .. 2 : frameCount > 0 /\ size >= 2 =>
    \A window \in SampleWindows(start, start + frameCount - 1, size) :
      /\ window \subseteq start .. start + frameCount - 1
      /\ {start, start + frameCount - 1} \subseteq window
      /\ Cardinality(window) = Least(size, frameCount)
      /\ \A G, H \in Neighbours(window) : G[2] - G[1] <= H[2] - H[1] + 2
      /\ \A f \in window : \E g \in SampleUniform(frameCount, size) :
           f - start \in g - 1 .. g + 1

(* The candidates offered are new frames of the timeline, as many as asked  *)
(* for while that many are left; a middle is always free, so the search     *)
(* around it never happens (propose_candidate_frames).                      *)
CandidatesAreNew ==
  /\ \A P \in ProposeCandidates(frameCount, seen, size) :
       P \subseteq Unseen /\ Cardinality(P) = Least(size, Cardinality(Unseen))
  /\ \A G \in Gaps(frameCount, seen) : Middle(G) \in Unseen

(* No blind stretch: a gap between seen frames goes without a candidate     *)
(* only when gaps at least as long have used them all up.                   *)
CandidatesSplitLongestGaps ==
  LET gaps == Gaps(frameCount, seen)
      Inside(G) == G[1] + 1 .. G[2] - 1
  IN \A P \in ProposeCandidates(frameCount, seen, size) : \A G \in gaps :
       \/ P \cap Inside(G) # {}
       \/ size = Cardinality({H \in gaps : H[2] - H[1] >= G[2] - G[1] /\ P \cap Inside(H) # {}})

(* Two computations of the same set: the unseen intervals shown in the      *)
(* prompt are the intervals of the unseen frames, and cover exactly them    *)
(* (unseen_intervals, indices_to_intervals).                                *)
IntervalsAgree ==
  /\ UnseenIntervals(frameCount, seen) = IndicesToIntervals(Unseen)
  /\ Covered(UnseenIntervals(frameCount, seen)) = Unseen
  /\ Covered(IndicesToIntervals(seen)) = seen
=============================================================================
