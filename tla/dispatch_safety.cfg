\* za is watched, zb a DnsNode zone that is not, zx not in the configuration:
\* three names, as many as the pool and its queue hold.
SPECIFICATION Spec
CONSTANTS
  Names = {za, zb, zx}
  Zones = {za, zb}
  DnsNodeZones = {za, zb}
  NotifyZones = {za}
  FailingZones = {zb}
  Workers = {w1, w2}
  Handlers = {h1}
  Sessions = {s1, s2}
  Commands <- AllCommands
  EventCap = 2
  WorkCap = 1
SYMMETRY Symmetry
INVARIANTS TypeOK SingleFlight PromptOwed NoCircularWait
PROPERTIES ImplementsLifecycle ImplementsSessions
CHECK_DEADLOCK FALSE
