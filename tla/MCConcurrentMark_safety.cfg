SPECIFICATION Spec
CONSTANTS
  Null = Null
  Objects = {a, b, c, d}
  Initial = {a, b, c}
  Roots = {a}
  Fields = {f}
  Mutators = {m, n}
  QuietStart = TRUE
  QuietStop = TRUE
  QuietDrain = TRUE
  MaxWrites = 2
INVARIANTS
  TypeOK
  SnapshotPreserved
  NoCaptureLost
  GarbageStaysWhite
PROPERTIES
  ImplementsSnapshotMarking
SYMMETRY Symmetry
