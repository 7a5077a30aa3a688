SPECIFICATION Spec
CONSTANTS
  Clusters = {c1}
  MaxRetries = 1
  MaxFaults = 1
  MaxCrashes = 0
  MaxLives = 1
  MaxMoves = 0
INVARIANTS
  SecretsDeleted
CHECK_DEADLOCK FALSE
