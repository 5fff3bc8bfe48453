SPECIFICATION StoreSpec
CONSTANTS
  Keys = {k1, k2}
  MaxPuts = 4
INVARIANTS
  QueueEmptyAtDestruction
CHECK_DEADLOCK FALSE
