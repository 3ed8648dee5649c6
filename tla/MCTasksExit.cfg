CONSTANTS
  MAX_TASKS = 3
  HEAP_STACKS = 3
  ProgramLists <- MCKernelList
  WORK = 0
  WAIT_TICKS = 2
  TICK_WRAP = 4
SPECIFICATION Spec
INVARIANTS ExitMarksItself
