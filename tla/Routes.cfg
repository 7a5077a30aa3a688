SPECIFICATION Spec
CONSTANTS
  Asked = {"custom", ""}
  MaxFaults = 1
  MaxChanges = 1
INVARIANTS
  TypeOK
  VerifiedOnly
  TLSFits
PROPERTIES
  ShadowGoesFirst
  EventuallyServed
  EventuallyGone
CHECK_DEADLOCK FALSE
