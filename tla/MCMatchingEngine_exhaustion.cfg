SPECIFICATION LiveSpec
CONSTANTS
  Slots = {s1}
  NoSlot = NoSlot
  OrderCount = 2
  OrderQueueSize = 1
  ReturnQueueSize = 1
  MaxRuns = 1
PROPERTIES
  EveryRunEnds
