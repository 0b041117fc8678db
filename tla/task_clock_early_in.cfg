CONSTANTS
  Objs = {o1, o2}
  Jobs = {j1, j2}
  FirstStatus = {"confirm"}
  Starts = {2}
  Finish = 3
  MaxTime = 2
  Hour = 1
  Day = 4
  BeforeOut = 1
  AtOnce = 1
  MaxTaps = 1
  MaxCrashes = 0
  MaxRejects = 0
  AndroidBack = FALSE
  BeforeIn = 1
SPECIFICATION Spec
INVARIANT ClockInHourHolds
CHECK_DEADLOCK FALSE
