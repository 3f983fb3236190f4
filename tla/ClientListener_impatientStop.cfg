SPECIFICATION Spec
CONSTANTS
  Client = {c1, c2}
  Patient = FALSE
  SelfStops = FALSE
  UserRemoves = FALSE
PROPERTIES StopReturns
CHECK_DEADLOCK FALSE
