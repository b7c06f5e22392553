SPECIFICATION Spec
CONSTANTS
  MaxCount = 7
  MaxSize = 8
CHECK_DEADLOCK FALSE
INVARIANTS
  UniformCoversTimeline
  WindowCovered
  CandidatesAreNew
  CandidatesSplitLongestGaps
  IntervalsAgree
