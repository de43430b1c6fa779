SPECIFICATION LiveSpec
CONSTANTS
  None = None
  i1 = i1
  Identities = {i1}
  MATTER_EPOCH_SECS = 100
  EPOCH_S_MAX = 6
  Messages <- AllMessages
  MaxMsgs = 4
  INBOX_CAP = 1
  UPDATES_CAP = 1
  SPACING = 2
INVARIANTS
  TypeOK
  NewestNeverLost
  ReportsCoherent
  MaskedServed
  EventMirrorsAttribute
PROPERTIES
  OnlyRealChanges
  QuietFloor
  EnergyRetained
  MirrorSpec
  ControllerConverges
CHECK_DEADLOCK FALSE
