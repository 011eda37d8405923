SPECIFICATION Spec
CONSTANTS
  Names = {za}
  Zones = {za}
  DnsNodeZones = {za}
  NotifyZones = {za}
  FailingZones = {za}
  Workers = {w1}
  Handlers = {h1}
  Sessions = {s1}
  Commands <- PlainCommands
  EventCap = 1
  WorkCap = 1
INVARIANT JobsTrackRunning
CHECK_DEADLOCK FALSE
