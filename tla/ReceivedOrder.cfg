SPECIFICATION Spec
CONSTANTS
  Callers = {m1, m2}
  Choosers = {m2}
  Actions = {"accept_request", "reject_request", "accept_cancel", "accept_replace", "reject_cancel", "fill_order", "unsolicited_cancel", "restate_order", "correct_trade", "bust_trade"}
  Version = "FIX.4.2"
  Qtys = {1, 2}
  MaxId = 3
  MaxExec = 3
  MaxCommands = 3
  Nobody = Nobody
  Reader = Reader
INVARIANTS CumIsSumOfTrades ReportIsTheRow AnsweredOnce
PROPERTIES RequestKept
CONSTRAINT FewCommands
CHECK_DEADLOCK FALSE
