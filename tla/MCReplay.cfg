SPECIFICATION Spec
CONSTANTS
  None = None
  Bad = Bad
  i1 = i1
  d1 = d1
  d2 = d2
  Identities = {i1}
  Devices = {d1}
  Pinned = None
  Payloads <- FeedPayloads
  InitRetained <- FullRetained
  INBOX_CAP = 1
  MaxPublishes = 0
  MaxBreaks = 1
INVARIANTS
  ReadingsReplay
CHECK_DEADLOCK FALSE
