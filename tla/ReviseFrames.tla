------------------------------ MODULE ReviseFrames ------------------------------
(***************************************************************************)
(* Which frames the program chooses by itself, and how it describes the    *)
(* ones not seen: the sampling, gap-filling and interval helpers of        *)
(* revise/pnp/utils.py and the samplers of the dataset adapters.           *)
(*                                                                         *)
(* The helpers return sorted lists, which are sets here (SampleUniform     *)
(* repeats frames on a timeline shorter than the sample; the set does      *)
(* not).  A random draw is the set of its outcomes, and so is a sample     *)
(* that hangs on a floating-point error (SampleWindows).                   *)
(***************************************************************************)
EXTENDS Integers, FiniteSets, FiniteSetsExt

Timeline(n) == 0 .. n - 1

Least(a, b) == IF a <= b THEN a ELSE b

(* num / den, num >= 0 and den > 0, to the nearest whole number, a half     *)
(* going up or down.                                                       *)
Rounded(num, den, up) ==
  LET q == num \div den
      r == num % den
  IN IF 2 * r < den \/ (2 * r = den /\ ~up) THEN q ELSE q + 1

(* Python's round: a half goes to even. *)
RoundHalfEven(num, den) == Rounded(num, den, (num \div den) % 2 = 1)

SampleUniformOpen(frameCount, n) ==   \* seeded fault: n steps for n samples
  IF n <= 0 THEN {}
  ELSE IF frameCount <= 0 THEN 0 .. n - 1
  ELSE {RoundHalfEven(i * (frameCount - 1), n) : i \in 0 .. n - 1}

SampleUniform(frameCount, n) ==
  IF n <= 0 THEN {}
  ELSE IF frameCount <= 0 THEN 0 .. n - 1
  ELSE IF n = 1 THEN {frameCount \div 2}
  ELSE {RoundHalfEven(i * (frameCount - 1), n - 1) : i \in 0 .. n - 1}

(* linspace adds up multiples of a step that is itself rounded, so a place  *)
(* half way between two frames may come out on either side of the half:    *)
(* 0 .. 29 in 15 places has 14.500000000000002, and 15 for a frame.  Up to *)
(* that, a place is the exact one: the error is far below 1 / (2 * k).     *)
HalfWay(start, end, k) == {i \in 0 .. k - 1 : 2 * ((i * (end - start)) % (k - 1)) = k - 1}

SampleWindowsLong(start, end, k) ==   \* seeded fault: an exclusive end taken for inclusive
  {{Rounded(start * (k - 1) + i * (end + 1 - start), k - 1, i \in up) : i \in 0 .. k - 1} :
     up \in SUBSET HalfWay(start, end, k)}

SampleWindows(start, end, k) ==
  IF k <= 0 \/ end < start THEN {{}}
  ELSE IF k = 1 THEN {{start}}
  ELSE {{Rounded(start * (k - 1) + i * (end - start), k - 1, i \in up) : i \in 0 .. k - 1} :
          up \in SUBSET HalfWay(start, end, k)}

(* Inclusive <<first, last>> intervals. *)
IndicesToIntervals(indices) ==
  {I \in indices \X indices : /\ I[1] .. I[2] \subseteq indices /\ I[1] <= I[2]
                              /\ I[1] - 1 \notin indices /\ I[2] + 1 \notin indices}

(* Pairs of neighbours in a set of frames. *)
Neighbours(anchors) ==
  {G \in anchors \X anchors : G[1] < G[2] /\ \A f \in anchors : f <= G[1] \/ f >= G[2]}

UnseenIntervalsInside(frameCount, seen) ==   \* seeded fault: the timeline's ends as anchors
  LET anchors == {0, frameCount} \cup (seen \cap Timeline(frameCount))
  IN {<<G[1] + 1, G[2] - 1>> : G \in {H \in Neighbours(anchors) : H[2] - H[1] > 1}}

UnseenIntervals(frameCount, seen) ==
  LET anchors == {-1, frameCount} \cup (seen \cap Timeline(frameCount))
  IN IF frameCount <= 0 THEN {}
     ELSE {<<G[1] + 1, G[2] - 1>> : G \in {H \in Neighbours(anchors) : H[2] - H[1] > 1}}

(* propose_candidate_frames: the gaps between what was seen, longest first  *)
(* and the later of two equally long, each offering its middle frame.       *)
Gaps(frameCount, seen) ==
  {G \in Neighbours({0, frameCount - 1} \cup (seen \cap Timeline(frameCount))) : G[2] - G[1] > 1}

GapBeforeShortest(G, H) == G[2] - G[1] < H[2] - H[1]   \* seeded fault: not reversed
GapBefore(G, H) ==
  G[2] - G[1] > H[2] - H[1] \/ (G[2] - G[1] = H[2] - H[1] /\ G[1] > H[1])

Middle(G) == (G[1] + G[2]) \div 2

MiddlesOfLongest(k, gaps) ==
  {Middle(G) : G \in {H \in gaps : Cardinality({J \in gaps : GapBefore(J, H)}) < k}}

ProposeCandidatesAny(frameCount, seen, k) ==   \* seeded fault: fills with seen frames
  IF frameCount <= 0 \/ k <= 0 \/ Cardinality(seen) >= frameCount THEN {{}}
  ELSE LET middles   == MiddlesOfLongest(k, Gaps(frameCount, seen))
           remaining == Timeline(frameCount) \ middles
           need      == Least(k - Cardinality(middles), Cardinality(remaining))
       IN {middles \cup fill : fill \in kSubset(need, remaining)}

ProposeCandidates(frameCount, seen, k) ==
  IF frameCount <= 0 \/ k <= 0 \/ Cardinality(seen) >= frameCount THEN {{}}
  ELSE LET middles   == MiddlesOfLongest(k, Gaps(frameCount, seen))
           remaining == Timeline(frameCount) \ (seen \cup middles)
           need      == Least(k - Cardinality(middles), Cardinality(remaining))
       IN {middles \cup fill : fill \in kSubset(need, remaining)}

(* The same inside a window of the timeline, in the window's own indices. *)
ProposeInWindow(start, end, seen, k) ==
  LET local == {f - start : f \in seen \cap (start .. end)}
  IN {{f + start : f \in P} : P \in ProposeCandidates(end - start + 1, local, k)}

SampleUnseen(frameCount, seen, k) ==
  LET unseen == Timeline(frameCount) \ seen
  IN IF frameCount <= 0 \/ k <= 0 THEN {{}}
     ELSE kSubset(Least(k, Cardinality(unseen)), unseen)
=============================================================================
