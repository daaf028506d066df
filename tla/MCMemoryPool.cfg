SPECIFICATION Spec
CONSTANTS
  MaxObjects = 5
  Null = Null
INVARIANTS
  TypeOK
  FreeListIsExact
PROPERTIES
  ImplementsPool
