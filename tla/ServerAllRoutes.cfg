SPECIFICATION ServerSpec
CONSTANTS
  Null = Null
  Contracts = {c1}
  Equipments = {e1, e2}
  Codes = {"KR01"}
  ForeignRemovals = TRUE
  Requests = {r1, r2}
  Routes = {"createELease", "startContract", "cancelContract", "addEquipments",
    "removeEquipments", "updateEquipment", "replaceEquipment",
    "closeContract", "generateContract", "editEquipment",
    "deleteEquipment"}
SYMMETRY Symmetry
INVARIANTS
  ServerTypeOK
  StartedIsDocumented
  SubstitutesChain
  SnapshotsStayTrue
PROPERTIES
  Lifecycle
  SettledLinesFrozen
CHECK_DEADLOCK FALSE
