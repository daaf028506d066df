SPECIFICATION Spec
CONSTANTS
  MaxOrders = 4
  Prices = {1}
  MaxQty = 1
  CompactAfter = 1
INVARIANTS
  DeadPrefixBounded
