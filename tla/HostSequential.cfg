SPECIFICATION Spec
CONSTANTS
  a = a
  b = b
  c = c
  Artifacts = {a, b, c}
  Base = a
  None = None
  Empty = Empty
  Torn = Torn
  NoInode = 0
  Uncompilable = {c}
  Uploads = {1}
  Overlapping = FALSE
  MaxTroubles = 3
  Inodes <- MCInodes
  Releases <- MCReleases
INVARIANTS
  TypeOK
  ActiveConsistent
  StagedConsistent
  ResponseHonest
PROPERTIES
  SlotRefinement
