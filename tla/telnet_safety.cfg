SPECIFICATION Spec
CONSTANTS
  Sessions = {s1, s2}
  LocalConsole = s1
  Workers = {w1}
  Starts <- Anywhere
  Commands = {"show clients", "loglevel error"}
INVARIANTS TypeOK MutexHeld WritesReachOpen
PROPERTIES ImplementsSessions
CHECK_DEADLOCK FALSE
