CONSTANTS
  Tasks = {1, 2}
  Calls = {c1, c2}
  MaxRefusals = 2
  AndroidBack = TRUE
SPECIFICATION FairSpec
INVARIANTS TypeOK SweptWasConfirmed OverlayIsAwaited
PROPERTY OverlayGoes
CHECK_DEADLOCK FALSE
