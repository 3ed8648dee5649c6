CONSTANTS
  HEAP_MIN = 32
  MAPPED_LIMIT = 192
  INT_MAX = 127
  SIZE_MAX = 255
  HeapRanges <- MCHeapRanges
  Requests <- MCRequests
  Amounts <- MCAmounts
  Junk <- MCJunk
SPECIFICATION Spec
INVARIANTS Tiled UsedAreHeld LiveDisjoint WalksStopRight MemoryUsedExact
PROPERTIES DataKept SecondFreeIsIgnored
