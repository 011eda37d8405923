SPECIFICATION Spec
CONSTANTS
  Sessions = {s1, s2}
  LocalConsole = s1
  Workers = {}
  Starts <- AtTerminal
  Commands = {"show clients"}
INVARIANTS InspectingIsHarmless
CHECK_DEADLOCK FALSE
