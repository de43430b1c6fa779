SPECIFICATION LiveSpec
CONSTANTS
  None = None
  Bad = Bad
  i1 = i1
  d1 = d1
  Identities = {i1}
  MATTER_EPOCH_SECS = 2
  EPOCH_S_MAX = 10
  Devices = {d1}
  Pinned = None
  Payloads <- SystemPayloads
  InitRetained <- SystemRetained
  INBOX_CAP = 1
  UPDATES_CAP = 1
  SPACING = 1
  MaxPublishes = 1
  MaxBreaks = 1
INVARIANTS
  TypeOK
  ControllerUpToDate
PROPERTIES
  EndToEnd
CHECK_DEADLOCK FALSE
