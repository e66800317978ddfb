SPECIFICATION Spec
CONSTANTS
  Tasks = {t1, t2}
  Requests <- MCRequests
  None = None
  MaxTime = 2
  DayLength = 2
  DaySlots = 1
  PolicyEnd = 2
  MayFail = TRUE
  MayCrash = TRUE
INVARIANTS
  DenialsAreJustified
CHECK_DEADLOCK FALSE
