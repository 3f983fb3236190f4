SPECIFICATION Spec
CONSTANTS
  TcpPeer = {c1}
  FdPeer = {c1, c2}
  EventPeer = {c1, c2}
  Careful = TRUE
INVARIANTS ClientsAccounted
PROPERTIES StopEndsServing DeletedIsFreed
CHECK_DEADLOCK FALSE
