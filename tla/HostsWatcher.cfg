SPECIFICATION Spec
CONSTANTS
  Keys = {k1, k2}
  Hosts = {h1, h2}
  First = h1
  Moved = {b}
  Gone = Gone
  NoHost = NoHost
  Moving = {k1}
  MaxWatchers = 2
  MaxEvents = 2
INVARIANTS
  TypeOK
  OneWatcher
PROPERTY EndpointsFollow
CHECK_DEADLOCK FALSE
