SPECIFICATION Spec
CONSTANTS
  Sessions = {s1, s2}
  LocalConsole = s1
  Workers = {}
  Starts <- AtTerminal
  Commands = {"show clients", "generate"}
PROPERTIES LogReturns CommandsReturn GoneAreClosed NeverHeadless
CHECK_DEADLOCK FALSE
