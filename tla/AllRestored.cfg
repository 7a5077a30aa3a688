SPECIFICATION Spec
CONSTANTS
  Ingresses = {i1, i2}
  Hosts = {a}
  Covered = {a}
  FirstHosts = {a}
  WithTLS = {}
  MaxFaults = 0
  MaxChanges = 1
INVARIANT AllRestored
CHECK_DEADLOCK FALSE
