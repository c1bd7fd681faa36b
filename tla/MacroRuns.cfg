SPECIFICATION Spec
CONSTANTS
  Verdicts = {"failed"}
  Macros <- MCMacros
  Callers = {c1, c2}
  MaxRuns = 2
  MaxInstances = 2
  MaxMacros = 2
  MaxRows = 2
  MaxActs = 3
CONSTRAINT Few
SYMMETRY Symmetry
INVARIANTS OwnersAgree OverIsOver BusyIsAtWork RowsTellTrue
CHECK_DEADLOCK FALSE
