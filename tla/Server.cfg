CONSTANTS
  Keys = {1}
  Null = Null
  Workers = {w1, w2}
  NoTask = NoTask
  Clients = {c1, c2}
  Fds = {1, 2}
  Requests <- MCRequests
  MaxCommands = 2
  MaxLeaves = 1
  SndCap = 1
  SignalAt = {"event", "insert"}
  CtlMayFail = FALSE
  StoreMayThrow = FALSE
  NoConn = NoConn
SYMMETRY MCSymmetry
SPECIFICATION Spec
INVARIANTS TypeOK AnswersInOrder SeesAcknowledged FreshEvents PoolDrained Inv
PROPERTIES AnsweredBeforeClose
CHECK_DEADLOCK FALSE
