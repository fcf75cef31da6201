SPECIFICATION Spec
CONSTANTS
  Op = {o1}
  Watched = {}
  MaxKills = 0
  ForegroundKilled = FALSE
INVARIANTS
  NoFalseFailure
CHECK_DEADLOCK FALSE
