SPECIFICATION Spec
CONSTANTS
  NumAgents = 2
  Rooms = 2
  Home <- Homes
  StartBalance <- PoorAndRich
  Net <- Wages
  Rent <- Rents
  Utility = 1
  Meal = 2
  Prices <- Small
  Results <- Either
  Schedule <- ThreeMonths
  MaxNow = 8
  StartLoan <- OneLoan
  Jumps <- TickAndBatch
  MaxActs = 1
  MaxFaults = 1
INVARIANTS TypeOK BooksAgree BillsAccounted NoJobMissed NoJobTwice
PROPERTIES BillsNeverOverdraw MovedAfterNotice
CHECK_DEADLOCK FALSE
