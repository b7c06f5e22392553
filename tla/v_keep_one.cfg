\* Actor and critic on two ranks, at most one checkpoint of the actor.
SPECIFICATION Spec
CONSTANTS
  Ranks = {k0, k1}
  Rank0 = k0
  MaxSteps = 5
  SaveFreq = 2
  UseCritic = TRUE
  KeepActor = 1
  KeepCritic = 0
  MaxLives = 3
CHECK_DEADLOCK FALSE
INVARIANTS
  TrackerNamesWhole
