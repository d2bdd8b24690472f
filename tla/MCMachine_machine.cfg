SPECIFICATION Spec
CONSTANTS
  Callers <- Two
  Chain = 2
  Retries = 1
  TripAt = 2
  MaxCalls = 3
  MaxCooldowns = 1
  LastNight = 7
  MaxStarts = 1
  Owners <- One
  Weights <- Light
  Threshold = 4
  MergeMax = 3
  MergeAge = 0
  ArchiveMax = 1
  ArchiveAge = 1
  MaxEntries = 4
  LastDate = 1
  MaxLapses = 1
  Arcs <- TwoArcs
  Stages = 3
  Degrade <- Downhill
  Hooked <- FirstTwo
  Quota = 1
  MinDays = 1
  MaxDays = 1
  Slots = 1
  CoolDays = 2
  UpCap = 0
  TicksADay = 6
  LastDay = 4
  MaxCuts = 1
  Worlds <- TwoWorlds
  Sources <- OneMemory
  Attempts = 2
  HopMax = 1
  Lag = 1
  Today = 2
  MaxTurns = 1
  MaxStored = 6
  PerTick = 2
  RingCap = 2
  PollBatch = 2
  Capacity = 3
  Page = 2
  MaxBreaks = 2
  LastAudit = 5
  MaxSlips = 3
  MaxByHand = 1
  MaxAlerts = 3
INVARIANTS TypeOK FailoverIsTold WeighedOnce ArchivedIsCovered OverdueIsClosed DerivedOrOwed LatestRevisionWins TimelineIsWhole
PROPERTIES BrakeIsEarned CooldownKept StopIsEarned
CHECK_DEADLOCK FALSE
