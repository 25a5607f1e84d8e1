SPECIFICATION Spec
CONSTANTS
  Null = Null
  Contracts = {c1, c2}
  Equipments = {e1, e2}
  Codes = {"KR01"}
  ForeignRemovals = TRUE
SYMMETRY Symmetry
PROPERTY OnlyThroughContract
CHECK_DEADLOCK FALSE
