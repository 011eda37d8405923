SPECIFICATION Spec
CONSTANTS
  Remappings <- MCRemappings
  Servers = {sa, sb}
  MaxTries = 3
  MaxSerial = 2
  PeerLists <- MCPeerLists
  Jitters = {0, 3}
  MaxOffset <- MCRange
  MaxJitter <- MCRange
  DhcpScopes <- MCDhcpScopes
  BadOids = {"x"}
  ScopeOpts <- MCScopeOpts
  Answers <- MCAnswers
  FreeWarning = 2
  FreeCritical = 1
  GoneZones <- MCGoneZones
  Requests <- MCRequests
  Reports <- MCReports
  Folders <- MCFolders
  Undated = 9
  Buffer = 1
  AgeWarning = 1
  AgeCritical = 3
  MaxTime = 3
  AgeWarnings = {1, 2}
  AgeCriticals = {1, 2}
  Versions = {v1, v2, v3}
  Faults = {"crash", "create", "write", "compare", "copy", "sync", "reload"}
INVARIANT RemappingApplies
\* A run of a program comes to its end.
CHECK_DEADLOCK FALSE
