SPECIFICATION Spec
CONSTANTS
  Op = {o1, o2}
  Watched = {}
  MaxKills = 1
  ForegroundKilled = TRUE
SYMMETRY OpSymmetry
PROPERTIES
  SecondIsHeldBack
CHECK_DEADLOCK FALSE
