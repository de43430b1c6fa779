SPECIFICATION UnitSpec
CONSTANTS
  None = None
  BASE_SECS = 1
  MAX_SECS = 5
  HEALTHY_SECS = 3
  CountCap = 4
  MaxSteps = 1
  Wait <- PolicyTable
INVARIANTS
  UnitTypeOK
  HealthyResets
PROPERTIES
  BackoffKept
  Restarted
CHECK_DEADLOCK FALSE
