----------------------------- MODULE ReviseDatasets -----------------------------
(***************************************************************************)
(* What the dataset adapters answer to the loop, as values for the Dataset *)
(* constants of ReviseLoop.  Short is NExT-QA, EgoSchema and the local     *)
(* multiple-choice sets: the whole timeline, every rejection retried.      *)
(* Long is LVBench and Video-MME on the in-process backend: frames of the  *)
(* question's time window, and rejections treated by their reason.  A call *)
(* with the same arguments gives the same sample, so the loop has one of   *)
(* LongInitials and LongFallbacks throughout.                              *)
(***************************************************************************)
EXTENDS ReviseFrames

ShortInitial(frameCount, maxFrames) == SampleUniform(frameCount, maxFrames)
ShortFallback(frameCount) == SampleUniform(frameCount, 1)
ShortPools(frameCount, k, seen) == ProposeCandidates(frameCount, seen, k)

LongInitials(start, end, maxFrames) == SampleWindows(start, end, maxFrames)
LongFallbacks(start, end) == SampleWindows(start, end, 1)
LongPools(start, end, k, seen) == ProposeInWindow(start, end, seen, k)

(* _active_range: the window of the question, or the whole timeline. *)
Clip(t, frameCount) == IF t < 0 THEN 0 ELSE Least(t, frameCount - 1)
ActiveRange(window, frameCount) ==
  IF window = << >> \/ frameCount <= 0
    THEN <<0, IF frameCount <= 0 THEN 0 ELSE frameCount - 1>>
    ELSE <<Clip(Least(window[1], window[2]), frameCount),
           Clip(window[1] + window[2] - Least(window[1], window[2]), frameCount)>>

(* Reasons, of those the policy gives, that the adapters treat apart. *)
LongNotRetryable == {"too_many_frames"}
LongExhausted == {"invalid_answer_letter", "invalid_select_summary",
                  "frames_not_in_candidates", "frames_already_seen", "invalid_frames"}
=============================================================================
