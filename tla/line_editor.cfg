SPECIFICATION Spec
CONSTANTS
  Printable = {"a", "b", " "}
  MaxLine = 4
  MaxSubmit = 1
  MaxHistory = 2
  TopCommands <- Top
  SubCommands <- Sub
  ZoneNames <- Zones
  Check <- CheckWord
  Show <- ShowWord
  Zone <- ZoneWord
  All <- AllWord
INVARIANTS TypeOK ScreenShowsLine TabCompletes HistoryClean
CHECK_DEADLOCK FALSE
