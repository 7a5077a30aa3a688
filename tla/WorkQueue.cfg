SPECIFICATION Spec
CONSTANTS
  Keys = {k1, k2}
  Workers = {w1, w2}
  MaxRetries = 2
  NoKey = NoKey
INVARIANTS
  TypeOK
  ExclusiveKey
  NoLostKey
  RetriesBounded
PROPERTIES
  EventuallyProcessed
  ImplementsHandover
