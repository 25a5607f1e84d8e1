SPECIFICATION Spec
CONSTANTS
  Accessories = {a1, a2}
  Equipments = {e1, e2}
  Requests = {r1, r2}
  Quantities <- UpToTwo
  EditsStock = FALSE
  Null = Null
  Undefined = Undefined
INVARIANTS
  AccessoriesTypeOK
  StockConserved
PROPERTY
  StockFloor
