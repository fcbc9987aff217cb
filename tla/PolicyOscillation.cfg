SPECIFICATION Spec
CONSTANTS
  Int32Max = 1000000
  Functions = {"f", "g"}
  KnownFunctions = {"f"}
  Profiles <- MCProfiles
  Messages <- MCMessages
  Policy <- MCPolicy
  Gaps = {1, 3}
  DrainWindow = 2
  EstimatorWindow = 2
  MinSamples = 2
  Percentile = 50
  MaxMessages = 3
  MaxLag = 2
  MaxFaults = 1
INVARIANTS
  NoImmediateOscillation
CHECK_DEADLOCK FALSE
