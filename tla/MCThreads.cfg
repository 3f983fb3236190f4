SPECIFICATION Spec
CONSTANTS
  Pid = {p1}
  Size = 2
  Sleeps = TRUE
  Helper = {t1, t2}
  Sock = {s1, s2}
  UvPeer = {c1, c2, c3}
  MaxWrites = 2
  Sig = {1, 2}
  StartCap = 2
  Most = 2
  Patient = TRUE
  Careful = TRUE
INVARIANTS OneThreadEach ConnectionsAccounted
PROPERTIES CallsRegistered StopsReturn ReapsWhatExits KeepsRinging
CHECK_DEADLOCK FALSE
