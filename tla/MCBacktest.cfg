SPECIFICATION BacktestSpec
CONSTANTS
  Mids = {864, 1728, 2592}
  Sizes = {1, 2}
  HalfSpread = 216
  EventCap = 2
  TapeCap = 1
  MaxEvents = 4
  MaxSessions = 2
  Qty = 2
  QuoteWidth = 432
  MoveThreshold = 432
  MinRequote = 1
  QuoteLifetime = 1
  RateWindow = 2
  RateLimit = 2
  MaxPosition = 3
  MaxLoss = 1080
  MaxOpenOrders = 3
  MaxLag = 1
INVARIANTS
  BookIsCurrent
  ExitKeepsTape
  ReplayFollowsTape
  TwoBooksAgree
  RestingIsTracked
  PositionBounded
  RateBounded
CHECK_DEADLOCK FALSE
