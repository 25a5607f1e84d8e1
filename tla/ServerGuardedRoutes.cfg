SPECIFICATION ServerSpec
CONSTANTS
  Null = Null
  Contracts = {c1, c2}
  Equipments = {e1, e2}
  Codes = {"KR01"}
  ForeignRemovals = FALSE
  Requests = {r1, r2}
  Routes = {"createELease", "startContract", "cancelContract", "updateEquipment",
    "closeContract", "generateContract"}
SYMMETRY Symmetry
INVARIANTS
  OutIsAccounted
  OpenLineHoldsUnit
  ContractCanEnd
PROPERTY ImplementsCustody
CHECK_DEADLOCK FALSE
