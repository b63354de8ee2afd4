SPECIFICATION FairSpec
CONSTANTS
  Clients = {"public", "private"}
  MaxAttempts = 3
  Refusable = {"subscribe"}
  MaxDrops = 3
  MaxQueue = 2
INVARIANTS
  TypeOK
  OneAtATime
  FirstThingsFirst
  KeepaliveRuns
PROPERTIES
  Recovers
  StopDrains
CHECK_DEADLOCK FALSE
