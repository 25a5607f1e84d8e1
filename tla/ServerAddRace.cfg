SPECIFICATION ServerSpec
CONSTANTS
  Null = Null
  Contracts = {c1, c2}
  Equipments = {e1}
  Codes = {"KR01"}
  ForeignRemovals = FALSE
  Requests = {r1, r2}
  Routes = {"createELease", "startContract", "cancelContract", "updateEquipment",
    "closeContract", "generateContract", "addEquipments"}
SYMMETRY Symmetry
INVARIANT NoDoubleBooking
CHECK_DEADLOCK FALSE
