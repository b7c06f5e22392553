\* Three rounds of up to three frames, two images at a time, a response in which
\* two observations fit, or one behind a retry with its feedback, and a server
\* that may answer with nothing or run over max_new_tokens.
SPECIFICATION Spec
CONSTANTS
  MaxRounds = 3
  MaxFrames = 3
  MaxVision = 2
  MaxRetries = 1
  MinSelectRounds = 1
  Strict = TRUE
  ForceFinalAnswer = FALSE
  AnswerOnlyFinalRound = FALSE
  ComputeMargins = TRUE
  MaxNewTokens = 1
  MaxReply = 3
  MaxModelLen = 6
  ResponseLength = 11
  PromptRoom = 1
  ResponseRoom = 1
  FrameCount = 7
  TextTokens = 1
  ImageTokens = 1
  FeedbackTokens = 3
CHECK_DEADLOCK FALSE
INVARIANTS
  RewardAligned
  LogprobsAligned
  CutsSpareObservations
PROPERTIES
  RolloutEnds
