SPECIFICATION ScreenSpec
CONSTANTS
  MaxStored = 4
  PerTick = 2
  RingCap = 1
  PollBatch = 2
  Capacity = 2
  Page = 1
  MaxBreaks = 1
PROPERTIES ViewerGoesLive
CHECK_DEADLOCK FALSE
