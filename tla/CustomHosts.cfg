SPECIFICATION Spec
CONSTANTS
  Ingresses = {i1}
  Hosts = {a, b}
  Covered = {a}
  FirstHosts = {a}
  WithTLS = {a}
  MaxFaults = 1
  MaxChanges = 2
INVARIANTS
  TypeOK
  VerifiedOnly
  PathsServed
  UserRulesKept
  WithheldLabelled
PROPERTY
  EventuallyRestored
CHECK_DEADLOCK FALSE
