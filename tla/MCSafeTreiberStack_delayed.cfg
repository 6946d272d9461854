SPECIFICATION Spec
CONSTANTS
  Threads = {t1, t2}
  Addrs = {a1, a2}
  Null = Null
  NSlots = 2
  Threshold = 1
  BufferSize = 1
  PromptProtect = FALSE
  NoThread = NoThread
  NoValue = NoValue
  MaxPushes = 3
SYMMETRY Symmetry
INVARIANTS
  NoUseAfterFree
