SPECIFICATION EngineSpec
CONSTANTS
  Qty = 1
  MaxFaults = 0
  MaxPosition = 1
  MaxOpenOrders = 2
  MaxCancelAttempts = 1
  Tolerance = 0
  FlattenThreshold = 0
  RingCap = 1
  QuoteRingCap = 1
  MaxQuotes = 1
  MaxStarts = 1
INVARIANT
  ExitLeavesNoOrder
CHECK_DEADLOCK FALSE
