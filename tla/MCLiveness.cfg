CONSTANTS
  Conns = {c1, c2}
  Requests <- LeavingRequests
  Levels = {2}
  Bodies = {}
  NoRequest = NoRequest
  NoConn = NoConn
  Listener = Listener
  Hi = Hi
  Ho = Ho
  MaxId = 2
  Timeout = 0
  MaxConnections = 3
  Faults = {}
  Windows = {"select", "serve", "closing", "timeout", "accept"}
  OnePoll = TRUE
SPECIFICATION FairSpec
INVARIANT NoDanglingWait
PROPERTY SignedOutLeaves
PROPERTY SilentLeaves
PROPERTY RequestRead
