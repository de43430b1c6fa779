SPECIFICATION Spec
CONSTANTS
  None = None
  Identities = {}
  MATTER_EPOCH_SECS = 20
  EPOCH_S_MAX = 1100
  Snapshots <- SomeSnapshots
INVARIANTS
  TypeOK
  Answered
  ListsWhole
  AccuracyCovers
  Discovered
