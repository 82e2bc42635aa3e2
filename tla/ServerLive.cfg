CONSTANTS
  Keys = {1}
  Null = Null
  Workers = {w1, w2}
  NoTask = NoTask
  Clients = {c1}
  Fds = {1}
  Requests <- MCOtherRequests
  MaxCommands = 2
  MaxLeaves = 1
  SndCap = 1
  SignalAt = {"event", "accept", "write"}
  CtlMayFail = TRUE
  StoreMayThrow = TRUE
  NoConn = NoConn
SPECIFICATION FairSpec
PROPERTIES RequestsAnswered ShutdownEnds
CHECK_DEADLOCK FALSE
