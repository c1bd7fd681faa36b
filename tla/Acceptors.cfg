SPECIFICATION AcceptorsSpec
CONSTANTS
  Conns = {1, 2}
  Kinds = {"acceptor"}
  TestFirst = FALSE
  Overlap = FALSE
  Caller = FALSE
  MaxInbox = 1
  Sessions = {s1, s2, s3}
  MaxServers = 3
  Others = TRUE
INVARIANTS ListeningIsReachable SettledBetween
CONSTRAINT Standing
CHECK_DEADLOCK FALSE
