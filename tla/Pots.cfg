SPECIFICATION Spec
CONSTANTS
  People <- MCPeople
  Bookable <- MCBookable
  Drafts <- MCDrafts
  SalaryTolerance = 1
  AnchorWindow = 2
  DefaultCycle = 3
  MonthDays = 4
  WeekDays = 3
  MaxDecisions = 1
  YearCycles = 3
  LastDay = 5
  MaxBookings = 3
  MaxPots = 2
  MaxEdits = 3
INVARIANTS WeekAgreesWithPots YearCountsOnce CarryWishKept
CHECK_DEADLOCK FALSE
