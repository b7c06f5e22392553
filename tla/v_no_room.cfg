\* max_new_tokens unset, so that it is response_length.
SPECIFICATION Spec
CONSTANTS
  MaxRounds = 3
  MaxFrames = 3
  MaxVision = 2
  MaxRetries = 1
  MinSelectRounds = 1
  Strict = TRUE
  ForceFinalAnswer = FALSE
  AnswerOnlyFinalRound = FALSE
  ComputeMargins = TRUE
  MaxNewTokens = 4
  MaxReply = 4
  MaxModelLen = 12
  ResponseLength = 4
  PromptRoom = 1
  ResponseRoom = 1
  FrameCount = 5
  TextTokens = 1
  ImageTokens = 1
  FeedbackTokens = 3
CHECK_DEADLOCK FALSE
PROPERTIES
  FirstSelectCarriedOut
