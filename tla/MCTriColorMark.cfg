SPECIFICATION FairSpec
CONSTANTS
  Null = Null
  Objects = {a, b, c}
  Fields = {f, g}
  Roots = {a, b}
  Listed = {a, c}
CHECK_DEADLOCK FALSE
INVARIANTS
  TypeOK
  TriColor
  MarkCorrect
  ScannedOnce
PROPERTIES
  MarkTerminates
