SPECIFICATION Spec
CONSTANTS
  Byte = {1, 2}
  BufferRoom = 4
  StringRoom = 5
  Char = {1, 2, 3}
  MinMem = 1
  TextRoom = 5
  Header = 4
  Longest = 2
  Messages = 3
  Size = 5
  Word = 2
  NANOS_PER_SECOND = 4
  Seconds = 4
  Thread = {t1, t2}
  Path = {a, b}
  MaxSize = 4
  Lengths = {1, 2}
  MaxLog = 3
  MaxTries = 2
  Careful = TRUE
INVARIANTS HoldsItsBytes TextsAreKept FramesSurvive 
PROPERTIES RingsExactly LogIsWhole
CHECK_DEADLOCK FALSE
