SPECIFICATION Spec
CONSTANTS
  Keys = {k1, k2}
  Hosts = {h1}
  First = h1
  Moved = {}
  Gone = Gone
  NoHost = NoHost
  Moving = {k1}
  MaxWatchers = 2
  MaxEvents = 1
INVARIANT StoppedForGood
CHECK_DEADLOCK FALSE
