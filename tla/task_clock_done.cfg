CONSTANTS
  Objs = {o1, o2}
  Jobs = {j1, j2, j3}
  FirstStatus = {"confirm"}
  Starts = {0}
  Finish = 1
  MaxTime = 1
  Hour = 1
  Day = 4
  BeforeOut = 1
  AtOnce = 2
  MaxTaps = 1
  MaxCrashes = 0
  MaxRejects = 0
  AndroidBack = FALSE
  BeforeIn = 1
SPECIFICATION Spec
PROPERTY DoneIsFinal
CHECK_DEADLOCK FALSE
