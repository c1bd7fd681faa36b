SPECIFICATION MCSpec
CONSTANTS
  Conns = {1}
  Kinds = {"initiator", "acceptor"}
  TestFirst = TRUE
  Overlap = FALSE
  Caller = TRUE
  MaxInbox = 1
  MessageEnds <- FiveMessages
  Inbound = TRUE
  PeerWaits = TRUE
INVARIANTS StopLeavesNothing MessagesAsSent
PROPERTIES HangUpEnds StopEnds WrittenIsRead
