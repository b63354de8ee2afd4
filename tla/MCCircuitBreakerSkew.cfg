SPECIFICATION BreakerSpec
CONSTANTS
  Prices = {4, 8}
  MaxInv = 1
  MaxFills = 2
  DrawdownPct = 40
  MinEquity = 2
  MaxLoss = 4
  MaxUnhedged = 1
  PendingCap = 1
  RingCap = 1
INVARIANT
  UpwardSkewIsBenign
CHECK_DEADLOCK FALSE
