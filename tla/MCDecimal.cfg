SPECIFICATION Spec
CONSTANTS
  None = None
  Junk = Junk
  I64_MAX = 9904
  Inputs <- SomeLiterals
  Exps = {0, 2, 3}
INVARIANTS
  TypeOK
  Exact
CHECK_DEADLOCK FALSE
