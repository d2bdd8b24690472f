SPECIFICATION FairSpec
CONSTANTS
  MaxSeq = 3
  MaxGen = 1
  BatchSize = 1
  CatchupBatch = 1
  CatchupWindow = 1
  Window = 2
  Lag = 5
  Origin <- SameOrigin
  GapKinds <- Blocked
  SingleWriter = TRUE
  SurvivalModes <- Cleared
  MaxFaults = 0
  MaxRestores = 0
PROPERTIES ReplicaConverges
CHECK_DEADLOCK FALSE
