CONSTANTS
  Objs = {o1, o2}
  Jobs = {j1, j2, j3}
  FirstStatus = {"new"}
  Starts = {0}
  Finish = 1
  MaxTime = 1
  Hour = 1
  Day = 3
  BeforeOut = 1
  AtOnce = 1
  MaxTaps = 1
  MaxCrashes = 1
  MaxRejects = 1
  AndroidBack = FALSE
SPECIFICATION Spec
SYMMETRY Interchangeable
PROPERTIES PopsMatchPushes KeepsAttendance
CHECK_DEADLOCK FALSE
