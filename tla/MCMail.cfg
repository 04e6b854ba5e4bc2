CONSTANTS
  Conns = {c1, c2}
  Requests <- MailRequests
  Levels = {1, 2, 3, 4}
  Bodies = {Hi, Ho}
  NoRequest = NoRequest
  NoConn = NoConn
  Listener = Listener
  Hi = Hi
  Ho = Ho
  MaxId = 2
  Timeout = 0
  MaxConnections = 3
  Faults = {}
  Windows = {"select"}
  OnePoll = TRUE
SPECIFICATION Spec
SYMMETRY Connections
INVARIANT TypeOK
INVARIANT WaitingMeansDrained
INVARIANT FifoMailbox
INVARIANT AnsweredOnce
PROPERTY ImplementsChannel
