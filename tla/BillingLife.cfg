SPECIFICATION Spec
CONSTANTS
  Null = Null
  PACKAGE_DAYS <- Short
  Equipments = {e1, e2}
  Tables <- TwoTables
  Periods <- SomePeriods
  DayLength = 2
  MonthDays = 1
  Opening = 1
  Horizon = 9
  MaxPrices = 2
SYMMETRY Symmetry
INVARIANTS
  BillingTypeOK
  FrozenIsRecomputed
  SignedPriceStands
  DaysAddUp
  EveryLineBilledOnce
  ClosedInOneMonth
  ExtractIsAsIfReturned
  SimulatedAsBilled
PROPERTIES
  ReportsStand
  QuoteStands
CHECK_DEADLOCK FALSE
