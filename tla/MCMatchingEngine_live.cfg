SPECIFICATION LiveSpec
CONSTANTS
  Slots = {s1, s2, s3, s4}
  NoSlot = NoSlot
  OrderCount = 4
  OrderQueueSize = 1
  ReturnQueueSize = 1
  MaxRuns = 1
PROPERTIES
  EveryRunEnds
