SPECIFICATION Spec
CONSTANTS
  Worker = {w1, w2}
  Patient = TRUE
PROPERTIES WaitReturns
CHECK_DEADLOCK FALSE
