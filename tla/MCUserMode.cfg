CONSTANTS
  TSS_ADDRESS <- MCTssAddress
  StubAddress <- MCStubAddress
  BOOT_STACK <- MCBootStack
  KERNEL_STACK <- MCKernelStack
  USER_CODE_BASE = 100
  USER_STACK_TOP = 140
  WORD = 1000
  COUNT = 3
  Calls <- MCCalls
SPECIFICATION FairSpec
INVARIANTS NeverFaults KernelResumes WritesFromUserRegion
PROPERTIES TrapsAreInvisible UserModeEnds
CHECK_DEADLOCK FALSE
