SPECIFICATION FairSpec
CONSTANTS
  Names = {za, zb, zc}
  Zones = {za, zb, zc}
  DnsNodeZones = {za, zb, zc}
  NotifyZones = {za, zb, zc}
  FailingZones = {}
  Workers = {w1, w2}
  Handlers = {h1}
  Sessions = {s1}
  Commands <- PlainCommands
  EventCap = 1
  WorkCap = 1
PROPERTIES JobFinishes PromptReturns NotifyHandled
