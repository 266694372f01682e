CONSTANTS
  Item = {i1, i2}
  Capacity = 3
  MaxBatch = 4
  UintMod = 6
  NULL = NULL
  Garbage = Garbage
SPECIFICATION Spec
INVARIANTS
  TypeOK
  HandsOutOldest
  WriteKeepsNewest
  TryWriteLosesNothing
PROPERTY
  ImplementsQueue
