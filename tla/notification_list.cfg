CONSTANTS
  Calls = {c1, c2}
  MaxDate = 3
  First = 1
  More = 1
SPECIFICATION FairSpec
INVARIANTS ShownIsAWindow FinishedIsComplete SpinningIsAwaited
PROPERTY SpinningEnds
CHECK_DEADLOCK FALSE
