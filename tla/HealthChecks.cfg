SPECIFICATION Spec
CONSTANTS
  Addresses = {a1, a2}
  Settings = {s1, s2}
  None = None
  Invalid = Invalid
  MaxChanges = 2
  MaxFaults = 1
  MaxCrashes = 1
INVARIANT TypeOK
PROPERTIES
  EventuallyChecked
  EventuallyGone
CHECK_DEADLOCK FALSE
