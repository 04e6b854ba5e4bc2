CONSTANTS
  Conns = {c1, c2}
  Requests <- PresenceRequests
  Levels = {2}
  Bodies = {}
  NoRequest = NoRequest
  NoConn = NoConn
  Listener = Listener
  Hi = Hi
  Ho = Ho
  MaxId = 2
  Timeout = 0
  MaxConnections = 3
  Faults = {}
  Windows = {"select"}
  OnePoll = TRUE
SPECIFICATION Spec
SYMMETRY Connections
PROPERTY ListsOnlyConnected
