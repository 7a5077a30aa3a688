SPECIFICATION Spec
CONSTANTS
  Clusters = {c1}
  MaxRetries = 0
  MaxFaults = 0
  MaxCrashes = 1
  MaxLives = 1
  MaxMoves = 0
PROPERTIES
  EventuallyServed
  DeletionCompletes
CHECK_DEADLOCK FALSE
