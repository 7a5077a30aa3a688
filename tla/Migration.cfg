SPECIFICATION Spec
CONSTANTS
  Clusters = {c1, c2}
  First = c1
  MaxRetries = 1
  MaxMoves = 3
  MaxFaults = 1
INVARIANTS
  TypeOK
PROPERTIES
  DrainedFirst
  SoftReleased
  EndpointsFollow
CHECK_DEADLOCK FALSE
