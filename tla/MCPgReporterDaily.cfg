SPECIFICATION Spec
CONSTANTS
  RingCap = 2
  BatchSize = 1
  Bad = {}
  Dates = {1, 2}
  MaxEvents = 3
INVARIANT
  DailyRowsAddUp
CHECK_DEADLOCK FALSE
