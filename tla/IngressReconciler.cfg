SPECIFICATION Spec
CONSTANTS
  Clusters = {c1}
  MaxRetries = 1
  MaxFaults = 1
  MaxCrashes = 0
  MaxLives = 1
  MaxMoves = 1
INVARIANTS
  TypeOK
  NoOrphans
  HostsAgree
  LBHostResolves
  SpecKept
CHECK_DEADLOCK FALSE
