CONSTANTS
  a = a
  b = b
  c = c
  Base = base
  None = none
  Artifacts = {base, a, b}
  Releases <- MCTwoReleases
  BadContracts = {}
  MaxInvocations = 1
  MaxTroubles = 0
  LateCommands = {}
SPECIFICATION Spec
INVARIANT StagedIsActivatable
