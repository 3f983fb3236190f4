SPECIFICATION Spec
CONSTANTS
  Client = {c1, c2}
PROPERTIES ClosesTheFailed
CHECK_DEADLOCK FALSE
