SPECIFICATION StoreSpec
CONSTANTS
  Keys = {k1, k2}
  MaxPuts = 4
INVARIANTS
  LatestWins
PROPERTIES
  NoWriteAfterDestruction
  FlushesTheQueue
CHECK_DEADLOCK FALSE
