SPECIFICATION Spec
CONSTANTS
  Addresses = {a1, a2}
  MaxRetries = 1
  MaxChanges = 2
  MaxFaults = 1
  MaxCrashes = 1
INVARIANTS
  TypeOK
  SucceededIsServed
  CleanGone
PROPERTIES
  EventuallyPublished
  DeletionCompletes
CHECK_DEADLOCK FALSE
