SPECIFICATION LiveSpec
CONSTANTS
  Items = {a, b}
  NoItem = NoItem
  Capacity = 4
  MaxPushes = 6
INVARIANTS
  TypeOK
  FifoDelivery
  NoSlotRace
  OneSlotStaysEmpty
  IInv
PROPERTIES
  RefusalsJustified
  ImplementsQueue
  EveryPushDelivered
