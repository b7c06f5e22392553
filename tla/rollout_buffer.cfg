\* Two steps, each followed by a validation of two batches.
SPECIFICATION Spec
CONSTANTS
  Prompts = 2
  ValPrompts = 1
  Sessions = 2
  Single = {2}
  MaxSteps = 2
  ValBatches = 2
  TestFreq = 1
  MaxBarren = 1
INVARIANTS
  DataAtHand
  OnlyFailuresStay
PROPERTIES
  SampleIsBatch
  BatchArrives
