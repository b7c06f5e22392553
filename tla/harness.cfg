\* All four drivers, with strict actions.
SPECIFICATION Spec
CONSTANTS
  NumSamples = 2
  Drivers = {"nextqa", "egoschema", "long_vllm", "long_hf"}
  MaxRounds = 2
  Strict = TRUE
  ForceFinalAnswer = FALSE
  MaxLives = 2
CHECK_DEADLOCK FALSE
INVARIANTS
  ScoreMatchesLog
  TotalsAddUp
PROPERTIES
  LifeEnds
  ImplementsEvaluation
