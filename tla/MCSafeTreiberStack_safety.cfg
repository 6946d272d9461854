SPECIFICATION Spec
CONSTANTS
  Threads = {t1, t2, t3}
  Addrs = {a1, a2}
  Null = Null
  NSlots = 2
  Threshold = 2
  BufferSize = 1
  PromptProtect = TRUE
  NoThread = NoThread
  NoValue = NoValue
  MaxPushes = 3
SYMMETRY Symmetry
INVARIANTS
  TypeOK
  NoUseAfterFree
  ListIntact
  EveryNodeOwned
PROPERTIES
  ImplementsAtomicStack
