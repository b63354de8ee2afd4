SPECIFICATION FairSpec
CONSTANTS
  Qty = 2
  MaxFaults = 2
  MaxPosition = 2
  MaxOpenOrders = 1
  MaxCancelAttempts = 2
  Tolerance = 0
  FlattenThreshold = 0
  RingCap = 1
  QuoteRingCap = 1
  MaxQuotes = 1
INVARIANTS
  TypeOK
  SettledWhenUnlocked
  NoSilentOrphan
PROPERTIES
  AlarmHasCause
  QuietAfterHalt
  TerminalIsFinal
  HaltIsHandled
  LossIsNoticed
  StopJoins
CHECK_DEADLOCK FALSE
