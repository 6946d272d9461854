SPECIFICATION FairSpec
CONSTANTS
  Threads = {t1, t2}
  Addrs = {a1, a2, a3}
  Null = Null
  NoValue = NoValue
  Reuse = FALSE
  MaxPushes = 3
INVARIANTS
  TypeOK
  EveryNodeOwned
PROPERTIES
  ImplementsAtomicStack
  OpsComplete
