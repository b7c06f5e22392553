\* LVBench and Video-MME with --resume-from-log, strict actions.
SPECIFICATION Spec
CONSTANTS
  NumSamples = 3
  Drivers = {"long_vllm"}
  MaxRounds = 1
  Strict = TRUE
  ForceFinalAnswer = TRUE
  MaxLives = 2
CHECK_DEADLOCK FALSE
INVARIANTS
  ResumeSkipsCompleted
