SPECIFICATION ServiceSpec
CONSTANTS
  INBOX_CAP = 1
  UPDATES_CAP = 1
  MaxMsgs = 2
  MaxSignals = 1
  MayStick = TRUE
  None = None
  BASE_SECS = 1
  MAX_SECS = 1
  HEALTHY_SECS = 1
  CountCap = 1
  MaxSteps = 0
  Wait <- PolicyTable
INVARIANTS
  TypeOK
  ExitTold
PROPERTIES
  DownOnlyIfTold
  SelfHealing
  IdleSignalStops
  SupervisorSpec
CHECK_DEADLOCK FALSE
