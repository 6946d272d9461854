SPECIFICATION Spec
CONSTANTS
  Capacity = 18
  Align = 4
  Sizes = {1, 2, 4, 5, 8, 20}
  HandleValues = 32
INVARIANTS
  TypeOK
  ObjectsDisjoint
