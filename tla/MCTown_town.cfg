SPECIFICATION Spec
CONSTANTS
  People <- Pair
  Top = 1
  Hold <- Hours
  ChatCap = 1
  MaxSettled = 2
  MaxMishaps = 1
  Guests <- Friends
  Asleep <- NightTime
  MaxRounds = 1
  Times <- Noon
  LastQuarter = 3
  MaxInvites = 2
  MaxMeetings = 1
  MaxCancels = 2
  MaxCuts = 1
  Roles <- Trio
  Seats = 1
  Cap = 1
  ChurnCap = 2
  NeedOver = 1
  NeedUnder = 1
  ForgetAfter = 1
  LastDay = 3
  MaxScenes = 1
  MaxNamed = 1
  Staff <- AnnBob
  Days = 4
  Weekend <- DayOff
  Holiday <- NoDay
  LastFriday <- ReviewDays
  SecondSaturday <- DayOff
  RuleDays <- RuleDay
  PoolAfter = 2
  Steps <- NineJobs
  MaxWishes = 1
  MaxBreaks = 1
  Folk <- JustAnn
  Library <- TwoWishes
  PerTier = 2
  DayHours = 2
  WeekDays = 2
  HoursAwake = 3
  HoursAsleep = 2
  IdleGain = 1
  RentGain = 2
  Recovery = 1
  Replan = 2
  Abandon = 3
  ResetTo = 1
  LastHour = 15
  MaxRents = 1
  MaxFailed = 1
  Talkers <- Trio
  Themes <- SmallTalk
  RestHours = 2
  Fewest = 1
  Most = 2
  Caps <- OneOrThree
  ChatDay = 2
  LastChatHour = 3
  MaxTalks = 2
INVARIANTS TypeOK CacheIsReplay OnceEach SeatsNotOversold NothingTwice PoolIsEarned WeekSettledOnce TopicsRest
CHECK_DEADLOCK FALSE
