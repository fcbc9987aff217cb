CONSTANTS
  a = a
  b = b
  c = c
  Base = base
  None = none
  Artifacts = {base, a, b, c}
  Releases <- MCReleases
  BadContracts = {c}
  MaxInvocations = 2
  MaxTroubles = 0
  LateCommands = {}
SPECIFICATION FairSpec
INVARIANT BytesMatchMetadata
INVARIANT PauseHonoured
INVARIANT ModeAgreement
PROPERTY InvocationBoundary
PROPERTY AdmissionRestored
