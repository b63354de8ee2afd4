SPECIFICATION Spec
CONSTANTS
  Clients = {"private"}
  MaxAttempts = 3
  Refusable = {"login", "subscribe"}
  MaxDrops = 0
  MaxQueue = 2
INVARIANT
  RefusalsExhaust
CHECK_DEADLOCK FALSE
