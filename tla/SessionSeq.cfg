SPECIFICATION MCSpec
CONSTANTS
  OpenEnded = {0, 99}
  Acceptor = TRUE
  ResetOnLogon = FALSE
  Senders = {"s1"}
  PromptCommit = TRUE
  MaxTx = 3
  MaxPeer = 3
  MaxRows = 4
  Skip = 1
  MaxUpsets = 1
INVARIANTS RxNotAhead ResendFaithful HandedInOrder NextNumberFresh SavedWhenQuiet AnswerCoversRange AnswerReplaysApps
CHECK_DEADLOCK FALSE
