SPECIFICATION Spec
CONSTANTS
  a = a
  b = b
  c = c
  Artifacts = {a, b, c}
  Base = a
  None = None
  Empty = Empty
  Torn = Torn
  NoInode = 0
  Uncompilable = {}
  Uploads = {1}
  Overlapping = TRUE
  MaxTroubles = 0
  Inodes <- MCInodes
  Releases <- MCTwoReleases
INVARIANT
  ActiveConsistent
