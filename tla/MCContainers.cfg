SPECIFICATION ContainersSpec
CONSTANTS
  Item = {1, 2, 3, 4, 5}
  StartCap = 1
  MaxCap = 4
  TopCap = 4
  PoolCap = 8
  UseMutex = TRUE
  MayFail = TRUE
  N = 4
  Shared = {1}
  Keep = 4
  Limit = 3
  Careful = TRUE
INVARIANTS NoOverrun OwnsWhatItHolds LookupsAgree PoolBooksBalance WellLinked HeldValuesLive ActsAtIndex HistoryInOrder
PROPERTIES LoopsKeepItems CallsReturn PoolRefusesOnlyWhenExhausted ImplementsSeq
CHECK_DEADLOCK FALSE
