SPECIFICATION EngineSpec
CONSTANTS
  Qty = 1
  MaxFaults = 2
  MaxPosition = 1
  MaxOpenOrders = 2
  MaxCancelAttempts = 2
  Tolerance = 0
  FlattenThreshold = 0
  RingCap = 1
  QuoteRingCap = 1
  MaxQuotes = 2
  MaxStarts = 3
INVARIANTS
  FillConservation
  HaltCleansUp
  FatalExitLeavesNoOrder
PROPERTIES
  CleanStart
CONSTRAINT
  LastQuoteOrFaults
CHECK_DEADLOCK FALSE
