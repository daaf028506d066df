SPECIFICATION Spec
CONSTANTS
  Slots = {s1, s2, s3}
  NoSlot = NoSlot
  OrderCount = 4
  OrderQueueSize = 2
  ReturnQueueSize = 1
  MaxRuns = 2
SYMMETRY SlotSymmetry
INVARIANTS
  TypeOK
  EverySlotHasOneOwner
  SamplesAreOwn
  ShutdownIsClean
  ThreadsNeverOverwritten
