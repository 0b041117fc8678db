CONSTANTS
  Emps = {e1, e2}
  Jobs = {j1, j2}
  Unset = Unset
  Blank = Blank
  Launched = Launched
  MaxKills = 1
  MaxChanges = 1
  MaxOuts = 1
SPECIFICATION FairSpec
INVARIANTS TypeOK SessionsAreAdmitted UnboundIsLeaving
PROPERTY UnboundLeaves
CHECK_DEADLOCK FALSE
