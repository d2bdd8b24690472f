SPECIFICATION FairSpec
CONSTANTS
  Tenants <- OneTenant
  Npcs <- OneNpc
  Dozers <- OneNpc
  Weary <- OneTenant
  Slots = 1
  Every = 1
  MaxBusy = 1
  MaxLag = 1
INVARIANTS TypeOK
PROPERTIES CityRules EverybodyIsHeard
CHECK_DEADLOCK FALSE
