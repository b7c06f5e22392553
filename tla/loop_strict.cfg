\* NExT-QA with the command line's strict actions: the paper's protocol, with
\* one retry per round and one select required before an answer.
SPECIFICATION Spec
CONSTANTS
  MaxRounds = 3
  MaxFrames = 2
  MaxRetries = 1
  MinSelectRounds = 1
  Strict = TRUE
  ForceFinalAnswer = TRUE
  AnswerOnlyFinalRound = FALSE
  UseCandidates = FALSE
  UseCandidateIds = FALSE
  RequireCandidates = FALSE
  FrameCount = 6
  InitialFrames <- ShortInitialFrames
  FallbackFrames <- ShortFallbackFrames
  CandidatePools <- ShortCandidatePools
  UnseenSamples <- ShortUnseenSamples
  NotRetryable = {}
  CountedExhausted = {}
  ClearsPlan = {}
  SummaryChecked = TRUE
  StaleChecked = TRUE
  RangeChecked = TRUE
  CarrySummary = TRUE
  Letters = {A, B}
  NoLetter = NoLetter
  RequestNumbers = {0, 1, 2, 4, 5, 6}
  CandidateK = 3
  WindowStart = 0
  WindowEnd = 4
CHECK_DEADLOCK FALSE
INVARIANTS
  TypeOK
  AttemptsInOrder
  SelectHonoured
  LogTellsOutcome
  MemoryFollowsSelects
  FinalRoundAnswerable
  WithinBudget
PROPERTIES
  ImplementsEpisode
  ImplementsSampleRun
