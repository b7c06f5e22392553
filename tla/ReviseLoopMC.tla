------------------------------ MODULE ReviseLoopMC ------------------------------
(***************************************************************************)
(* Instances of ReviseLoop: the values the configurations give to the      *)
(* Dataset constants.  CandidateK bounds the pool (candidate_k is 12 or    *)
(* more by default, on timelines of hundreds of frames); WindowStart and   *)
(* WindowEnd are the time reference of a long-video question.              *)
(***************************************************************************)
EXTENDS ReviseLoop, ReviseDatasets

CONSTANTS CandidateK, WindowStart, WindowEnd

ShortInitialFrames  == ShortInitial(FrameCount, MaxFrames)
ShortFallbackFrames == ShortFallback(FrameCount)
ShortCandidatePools(s) == ShortPools(FrameCount, CandidateK, s)
ShortUnseenSamples(s)  == SampleUnseen(FrameCount, s, MaxFrames)

LongRange == ActiveRange(<<WindowStart, WindowEnd>>, FrameCount)
LongInitialFrames  == CHOOSE F \in LongInitials(LongRange[1], LongRange[2], MaxFrames) : TRUE
LongFallbackFrames == CHOOSE F \in LongFallbacks(LongRange[1], LongRange[2]) : TRUE
LongCandidatePools(s) == LongPools(LongRange[1], LongRange[2], CandidateK, s)
LongUnseenSamples(s)  == SampleUnseen(FrameCount, s, MaxFrames)
=============================================================================
