SPECIFICATION GoalsSpec
CONSTANTS
  Folk <- Someone
  Library <- Wishes
  PerTier = 1
  DayHours = 24
  WeekDays = 7
  HoursAwake = 37
  HoursAsleep = 8
  IdleGain = 4
  RentGain = 8
  Recovery = 4
  Replan = 50
  Abandon = 80
  ResetTo = 20
  LastHour = 400
  MaxRents = 0
  MaxFailed = 0
INVARIANTS RefreshedWeekly
CHECK_DEADLOCK FALSE
