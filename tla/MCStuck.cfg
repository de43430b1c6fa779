SPECIFICATION LiveSpec
CONSTANTS
  INBOX_CAP = 2
  UPDATES_CAP = 1
  MaxMsgs = 3
  MaxSignals = 1
  MayStick = TRUE
PROPERTIES
  ShutdownEnds
CHECK_DEADLOCK FALSE
