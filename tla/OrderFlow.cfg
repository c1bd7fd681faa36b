SPECIFICATION MCSpec
CONSTANTS
  Callers = {m1}
  Choosers = {}
  Clients = {c1}
  Other = c2
  Actions = {"accept_replace", "reject_cancel", "fill_order", "correct_trade"}
  Version = "FIX.4.4"
  Qtys = {1, 2}
  MaxId = 3
  MaxExec = 2
  MaxCommands = 3
  MaxDisputes = 0
  Fails = FALSE
  Nobody = Nobody
  Reader = Reader
INVARIANTS Agreement LegsAgree DisputesAgree
CONSTRAINT Few
CHECK_DEADLOCK FALSE
