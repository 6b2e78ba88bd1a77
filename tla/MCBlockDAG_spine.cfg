\* Four blocks in three epochs, two of which are evicted.
CONSTANTS
  r = r a = a b = b c = c d = d
  BlockID = {r, a, b, c, d}
  Parents <- SpineParents
  Index <- SpineIndex
  Genesis = {r}
  NotMonotonic = {b}
  RootBlocksEvictionDelay = 0
  LastIndex = 2
CHECK_DEADLOCK FALSE
SPECIFICATION Spec
INVARIANTS NobodyWaitsForSolidParents InvalidFutureCone EvictedBlocksForgotten
