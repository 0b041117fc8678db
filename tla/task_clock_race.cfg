CONSTANTS
  Objs = {o1, o2}
  Jobs = {j1, j2}
  FirstStatus = {"confirm"}
  Starts = {0, 1}
  Finish = 1
  MaxTime = 1
  Hour = 1
  Day = 4
  BeforeOut = 1
  AtOnce = 2
  MaxTaps = 1
  MaxCrashes = 0
  MaxRejects = 1
  AndroidBack = FALSE
SPECIFICATION Spec
SYMMETRY Interchangeable
INVARIANTS TypeOK RecordCoherent LatenessIsReported EffectsAreEarned
CHECK_DEADLOCK FALSE
