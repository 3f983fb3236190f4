SPECIFICATION Spec
CONSTANTS
  Worker = {w1, w2}
  Patient = TRUE
PROPERTIES StopReturns
CHECK_DEADLOCK FALSE
