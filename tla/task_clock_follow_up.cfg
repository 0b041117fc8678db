CONSTANTS
  Objs = {o1}
  Jobs = {j1, j2}
  FirstStatus = {"new", "confirm"}
  Starts = {0}
  Finish = 1
  MaxTime = 0
  Hour = 1
  Day = 4
  BeforeOut = 1
  AtOnce = 1
  MaxTaps = 2
  MaxCrashes = 1
  MaxRejects = 1
  AndroidBack = TRUE
SPECIFICATION FairSpec
INVARIANT NothingIsOwed
PROPERTY AcceptedIsFollowedUp
CHECK_DEADLOCK FALSE
