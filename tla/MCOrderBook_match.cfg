SPECIFICATION Spec
CONSTANTS
  MaxOrders = 4
  Prices = {1, 2}
  MaxQty = 2
  CompactAfter = 0
INVARIANTS
  TypeOK
  LevelsServable
  IndexMatchesLevels
  NotCrossed
  QuantitiesBalance
  HandedBackOnce
PROPERTIES
  ImplementsPriceTime
  ImplementsContract
