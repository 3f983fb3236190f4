SPECIFICATION Spec
CONSTANTS
  Client = {c1, c2}
  Patient = TRUE
  SelfStops = TRUE
  UserRemoves = TRUE
INVARIANTS OneWorker JoinsAThread NoClientForgotten
PROPERTIES StopReturns NoLostWakeUp
CHECK_DEADLOCK FALSE
