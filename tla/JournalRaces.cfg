SPECIFICATION FairSpec
CONSTANTS
  Op = {o1}
  Watched = {o1}
  MaxKills = 1
  ForegroundKilled = FALSE
INVARIANTS
  TypeOK
  RunningIsVisible
  InterruptedIsDead
  SuccessIsReal
  EndedIsUnblocked
PROPERTIES
  SubmissionEnds
CHECK_DEADLOCK FALSE
