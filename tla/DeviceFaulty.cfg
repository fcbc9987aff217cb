CONSTANTS
  a = a
  b = b
  c = c
  Base = base
  None = none
  Artifacts = {base, a, b}
  Releases <- MCConflict
  BadContracts = {b}
  MaxInvocations = 1
  MaxTroubles = 1
  LateCommands = {}
SPECIFICATION FairSpec
INVARIANT TypeOK
INVARIANT OneTransition
INVARIANT EnforcedContract
PROPERTY SlotRefinement
PROPERTY GenerationNeverRegresses
PROPERTY TransitionEnds
