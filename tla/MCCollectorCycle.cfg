SPECIFICATION FairSpec
CONSTANTS
  Null = Null
  NoHandle = NoHandle
  Objects = {a, b}
  Fields = {f}
  NRegions = 2
  RegionSize = 4
  Align = 2
  Sizes = {1, 3}
  Collectors = {k, l}
INVARIANTS
  TypeOK
  LiveIntact
  OneCollector
PROPERTIES
  GarbageReclaimed
  CycleEnds
