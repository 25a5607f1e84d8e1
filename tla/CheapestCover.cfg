SPECIFICATION Spec
CONSTANTS
  Null = Null
  PACKAGE_DAYS <- Real
  Tables <- SomeTables
  MaxDays = 38
INVARIANTS
  CoverTypeOK
  CoverIsCheapest
  PackagesAddUp
  LongerNeverCheaper
PROPERTY Finishes
CHECK_DEADLOCK FALSE
