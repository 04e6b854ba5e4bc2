CONSTANTS
  Conns = {c1, c2, c3}
  Requests <- QuitRequests
  Levels = {2}
  Bodies = {}
  NoRequest = NoRequest
  NoConn = NoConn
  Listener = Listener
  Hi = Hi
  Ho = Ho
  MaxId = 1
  Timeout = 0
  MaxConnections = 2
  Faults = {}
  Windows = {"select"}
  OnePoll = TRUE
SPECIFICATION Spec
INVARIANT QuitEndsTheLoop
