SPECIFICATION Spec
CONSTANTS
  A = A
  B = B
  Users = {u1, u2, u3, u4}
  Crew = {u1, u2, u3}
  ThreadOf <- TwoThreads
  NSlots = 2
  Pointers = {p, q}
  Null = Null
  BufferSize = 2
SYMMETRY Symmetry
INVARIANTS
  TypeOK
  SlotExclusive
  ProtectionKept
  SnapshotComplete
  AnswerComplete
  ExhaustedByGuards
