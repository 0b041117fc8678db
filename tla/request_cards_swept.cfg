CONSTANTS
  Tasks = {1, 2}
  Calls = {c1}
  MaxRefusals = 0
  AndroidBack = FALSE
SPECIFICATION Spec
INVARIANT SweptIsDeleted
CHECK_DEADLOCK FALSE
