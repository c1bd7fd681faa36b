SPECIFICATION FairSpec
CONSTANTS
  TypeCodes = {"OR", "EX"}
  Callers = {"c1", "c2"}
  Codes = {"AB"}
  UserCode = "ME"
  MaxAsks = 3
  MaxRuns = 3
INVARIANTS IdsGoUp CodeKept
PROPERTIES CallsEnd
CHECK_DEADLOCK FALSE
