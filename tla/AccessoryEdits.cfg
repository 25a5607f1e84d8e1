SPECIFICATION Spec
CONSTANTS
  Accessories = {a1, a2}
  Equipments = {e1, e2}
  Requests = {r1, r2}
  Quantities <- JustOne
  EditsStock = TRUE
  Null = Null
  Undefined = Undefined
INVARIANT
  StockConserved
