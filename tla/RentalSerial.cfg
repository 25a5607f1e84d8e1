SPECIFICATION Spec
CONSTANTS
  Null = Null
  Contracts = {c1, c2}
  Equipments = {e1, e2}
  Codes = {"KR01", "KR02"}
  ForeignRemovals = FALSE
SYMMETRY Symmetry
INVARIANTS
  TypeOK
  OutIsAccounted
  OpenLineHoldsUnit
  EndedHoldsNothing
  ContractCanEnd
PROPERTIES
  OnlyThroughContract
  ImplementsCustody
CHECK_DEADLOCK FALSE
