SPECIFICATION Spec
CONSTANTS
  MaxSeq = 5
  MaxGen = 1
  BatchSize = 2
  CatchupBatch = 3
  CatchupWindow = 2
  Window = 1
  Lag = 5
  Origin <- SameOrigin
  GapKinds <- BothGaps
  SingleWriter = TRUE
  SurvivalModes <- Cleared
  MaxFaults = 2
  MaxRestores = 1
INVARIANTS TypeOK NoHoles
PROPERTIES CopiesTheLog
CHECK_DEADLOCK FALSE
