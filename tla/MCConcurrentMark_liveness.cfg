SPECIFICATION FairSpec
CONSTANTS
  Null = Null
  Objects = {a, b, c}
  Initial = {a, b}
  Roots = {a}
  Fields = {f}
  Mutators = {m, n}
  QuietStart = FALSE
  QuietStop = FALSE
  QuietDrain = FALSE
  MaxWrites = 2
PROPERTIES
  MarkerTerminates
