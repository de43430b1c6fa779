SPECIFICATION Spec
CONSTANTS
  None = None
  Junk = Junk
  Identities = {}
  MATTER_EPOCH_SECS = 20
  EPOCH_S_MAX = 1100
  I64_MAX = 50000
  MaxRecords = 3
  Payloads <- SomePayloads
  Snapshots <- SomeSnapshots
INVARIANTS
  TypeOK
  PackFolded
  ServedExact
  MalformedTimes
CHECK_DEADLOCK FALSE
