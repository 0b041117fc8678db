CONSTANTS
  Jobs = {j1, j2}
  NoRecord = NoRecord
  MaxTime = 1
  AtOnce = 1
  MaxLost = 0
  MaxLeaves = 1
SPECIFICATION Spec
INVARIANT TimeHasId
CHECK_DEADLOCK FALSE
