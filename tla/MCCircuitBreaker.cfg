SPECIFICATION FairBreakerSpec
CONSTANTS
  Prices = {4, 8}
  MaxInv = 1
  MaxFills = 2
  DrawdownPct = 40
  MinEquity = 2
  MaxLoss = 4
  MaxUnhedged = 1
  PendingCap = 1
  RingCap = 1
INVARIANTS
  BreakerTypeOK
  CalmReadIsExact
  CalmAlarmIsTrue
  ReasonKept
CHECK_DEADLOCK FALSE
PROPERTIES
  LastingRiskHalts
