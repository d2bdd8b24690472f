SPECIFICATION FairSpec
CONSTANTS
  Day <- PlainDay
  TickLen = 4
  MaxRatio = 3
  LongPause = 3
  DriftLimit = 2
  AuditStops = FALSE
  FaultKinds <- OtherFaults
  MaxWall = 10
  MaxLate = 0
  MaxFaults = 2
  MaxCrashes = 0
PROPERTIES TicksInOrder ClockRunsAgain
CHECK_DEADLOCK FALSE
