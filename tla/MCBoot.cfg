CONSTANTS
  BOOT_DRIVE = 128
  OUTPUT_PORT = 221
  Waiting <- MCWaiting
  Methods <- MCMethods
  MaxEntries = 2
  ENTRIES_PER_PT = 5
  USER_CODE_BASE = 4194304
  USER_STACK_TOP = 8388608
  HEAP_MIN = 8388608
  MAPPED_LIMIT = 10485760
  WORD = 67108864
  GAP = 4096
  FALLBACK = 1048576
  KernelEnds <- MCKernelEnds
  Maps <- MCMaps
SPECIFICATION FairSpec
INVARIANTS Stage2HasA20 OutputPortKept MapIsTheFirmwares MapIsIdentity SameDrive HeapIsMapped HeapIsUsableRam
 
CHECK_DEADLOCK FALSE
