SPECIFICATION Spec
CONSTANTS
  Callers = {c1, c2}
  Log <- MCLog
  OurWay = "out"
  Filters <- MCFilters
  ReportEvery = 1
  MaxTasks = 2
  MaxCommands = 5
  MaxDrops = 1
INVARIANT RowTellsWire
PROPERTIES QuietWhenTold Ends
CHECK_DEADLOCK FALSE
