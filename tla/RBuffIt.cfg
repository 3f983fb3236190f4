SPECIFICATION ItSpecInRoom
CONSTANTS
  Byte = {b1, b2}
  NULL = NULL
  Size = 3
  MaxCall = 4
INVARIANTS TypeOK CountMatchesPointers
PROPERTIES ImplementsFifo WalkInOrder
