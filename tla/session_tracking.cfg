CONSTANTS
  Emps = {e1}
  Jobs = {j1}
  Unset = Unset
  Blank = Blank
  Launched = Launched
  MaxKills = 1
  MaxChanges = 0
  MaxOuts = 1
SPECIFICATION Spec
INVARIANT TrackedOnDuty
CHECK_DEADLOCK FALSE
