CONSTANTS
  Jobs = {j1, j2, j3}
  NoRecord = NoRecord
  MaxTime = 1
  AtOnce = 2
  MaxLost = 1
  MaxLeaves = 1
SPECIFICATION Spec
SYMMETRY Interchangeable
INVARIANTS TypeOK OutAfterIn BooksMatch
PROPERTY KeepsTimeSheet
CHECK_DEADLOCK FALSE
