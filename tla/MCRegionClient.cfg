SPECIFICATION Spec
CONSTANTS
  NRegions = 2
  RegionSize = 4
  Align = 2
  Sizes = {0, 1, 3, 4, 5}
  StopTheWorld = TRUE
  MaxLive = 3
INVARIANTS
  TypeOK
  CurrentIsAllocating
  LiveInRegion
  LiveDisjoint
  CountExact
PROPERTIES
  SweepReclaims
  NoneOnlyWithoutFree
