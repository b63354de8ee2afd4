SPECIFICATION FairSpec
CONSTANTS
  RingCap = 2
  BatchSize = 1
  Bad = {2}
  Dates = {1, 2}
  MaxEvents = 5
INVARIANTS
  TypeOK
  GoodRowsKept
  OnceInOrder
  DailyRowIsFinal
PROPERTIES
  BatchLeaves
CHECK_DEADLOCK FALSE
