SPECIFICATION Spec
CONSTANTS
  Null = Null
  Objects = {a, b, c}
  Initial = {a, b, c}
  Roots = {a}
  Fields = {f}
  Mutators = {m, n}
  QuietStart = FALSE
  QuietStop = TRUE
  QuietDrain = TRUE
  MaxWrites = 2
INVARIANTS
  SnapshotPreserved
