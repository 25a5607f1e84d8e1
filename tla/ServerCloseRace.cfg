SPECIFICATION ServerSpec
CONSTANTS
  Null = Null
  Contracts = {c1}
  Equipments = {e1, e2}
  Codes = {"KR01"}
  ForeignRemovals = FALSE
  Requests = {r1, r2}
  Routes = {"createELease", "startContract", "cancelContract", "updateEquipment",
    "closeContract", "generateContract", "replaceEquipment"}
SYMMETRY Symmetry
INVARIANT CompletedIsSettled
CHECK_DEADLOCK FALSE
