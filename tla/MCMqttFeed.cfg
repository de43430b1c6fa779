SPECIFICATION LiveSpec
CONSTANTS
  None = None
  Bad = Bad
  i1 = i1
  d1 = d1
  d2 = d2
  Identities = {i1}
  Devices = {d1, d2}
  Pinned = None
  Payloads <- FeedPayloads
  InitRetained <- FeedRetained
  INBOX_CAP = 1
  MaxPublishes = 2
  MaxBreaks = 1
INVARIANTS
  TypeOK
  OneDevice
  SettledState
  SettledReadings
PROPERTIES
  Settles
CHECK_DEADLOCK FALSE
