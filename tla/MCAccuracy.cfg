SPECIFICATION Spec
CONSTANTS
  None = None
  i1 = i1
  Identities = {i1}
  MATTER_EPOCH_SECS = 100
  EPOCH_S_MAX = 6
  Messages <- RatingMessages
  MaxMsgs = 2
  INBOX_CAP = 1
  UPDATES_CAP = 1
  SPACING = 2
INVARIANTS
  AccuracyCoherent
CHECK_DEADLOCK FALSE
