\* LVBench on the in-process backend: candidate IDs inside the question's time
\* window, answers in the final round only, and a loop that goes on with a plan of
\* its own after a rejection.
SPECIFICATION Spec
CONSTANTS
  MaxRounds = 3
  MaxFrames = 2
  MaxRetries = 1
  MinSelectRounds = 0
  Strict = FALSE
  ForceFinalAnswer = FALSE
  AnswerOnlyFinalRound = TRUE
  UseCandidates = TRUE
  UseCandidateIds = TRUE
  RequireCandidates = TRUE
  FrameCount = 6
  InitialFrames <- LongInitialFrames
  FallbackFrames <- LongFallbackFrames
  CandidatePools <- LongCandidatePools
  UnseenSamples <- LongUnseenSamples
  NotRetryable <- LongNotRetryable
  CountedExhausted <- LongExhausted
  ClearsPlan <- LongExhausted
  SummaryChecked = FALSE
  StaleChecked = FALSE
  RangeChecked = FALSE
  CarrySummary = TRUE
  Letters = {A, B}
  NoLetter = NoLetter
  RequestNumbers = {0, 1, 2, 3, 4}
  CandidateK = 3
  WindowStart = 1
  WindowEnd = 5
CHECK_DEADLOCK FALSE
INVARIANTS
  StatsMatchLog
  FreshEvidence
  PlanFits
PROPERTIES
  CandidatesOnly
  EpisodeEnds
