CONSTANTS
  MAX_TASKS = 3
  HEAP_STACKS = 3
  ProgramLists <- MCAnyLists
  WORK = 0
  WAIT_TICKS = 2
  TICK_WRAP = 3
SPECIFICATION FairSpec
INVARIANTS CurrentIsRunning ContextsDistinct NoFreedStackRuns FramesAreLoadable InterruptsEnded
PROPERTIES ExitedAreReaped NoStarvation
