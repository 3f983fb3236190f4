SPECIFICATION Spec
CHECK_DEADLOCK FALSE
CONSTANTS
  Event = {1, 2, 3}
  RunTime <- MCRunTime
  Late = 2
  Patient = TRUE
PROPERTIES PlacedBack
