\* NExT-QA with --no-strict-actions and --min-select-rounds 1.
SPECIFICATION Spec
CONSTANTS
  MaxRounds = 3
  MaxFrames = 2
  MaxRetries = 1
  MinSelectRounds = 1
  Strict = FALSE
  ForceFinalAnswer = TRUE
  AnswerOnlyFinalRound = FALSE
  UseCandidates = FALSE
  UseCandidateIds = FALSE
  RequireCandidates = FALSE
  FrameCount = 8
  InitialFrames <- ShortInitialFrames
  FallbackFrames <- ShortFallbackFrames
  CandidatePools <- ShortCandidatePools
  UnseenSamples <- ShortUnseenSamples
  NotRetryable = {}
  CountedExhausted = {}
  ClearsPlan = {}
  SummaryChecked = TRUE
  StaleChecked = TRUE
  RangeChecked = TRUE
  CarrySummary = TRUE
  Letters = {A, B}
  NoLetter = NoLetter
  RequestNumbers = {0, 1, 2, 4, 5, 6}
  CandidateK = 3
  WindowStart = 0
  WindowEnd = 4
CHECK_DEADLOCK FALSE
INVARIANTS
  SomeTurnAccepted
