SPECIFICATION Spec
CONSTANTS
  Capacity = 4
  MaxTrades = 14
INVARIANTS
  TypeOK
PROPERTIES
  ImplementsRecent
