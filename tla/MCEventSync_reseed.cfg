SPECIFICATION FairSpec
CONSTANTS
  MaxSeq = 4
  MaxGen = 2
  BatchSize = 1
  CatchupBatch = 2
  CatchupWindow = 2
  Window = 1
  Lag = 2
  Origin <- SameOrigin
  GapKinds <- NoGaps
  SingleWriter = TRUE
  SurvivalModes <- Cleared
  MaxFaults = 0
  MaxRestores = 0
INVARIANTS OneTimeline
PROPERTIES ReplicaConverges
CHECK_DEADLOCK FALSE
