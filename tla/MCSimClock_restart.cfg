SPECIFICATION Spec
CONSTANTS
  Day <- ShortNight
  TickLen = 4
  MaxRatio = 3
  LongPause = 3
  DriftLimit = 2
  AuditStops = TRUE
  FaultKinds <- AllFaults
  MaxWall = 8
  MaxLate = 0
  MaxFaults = 1
  MaxCrashes = 1
INVARIANTS TypeOK
PROPERTIES NoTickTwice CaughtUp NoTickInBatch
CHECK_DEADLOCK FALSE
