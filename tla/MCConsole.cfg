CONSTANTS
  VGA_WIDTH = 2
  VGA_HEIGHT = 2
  Chars <- MCChars
  Printers = {1, 2}
  MaxSwitches = 8
  INT_BITS = 4
  LONG_BITS = 12
  BUFFER = 8
  Crews <- MCCrews
SPECIFICATION Spec
INVARIANTS IdleOnScreen DriftIsBounded  
PROPERTIES IsLog
CHECK_DEADLOCK FALSE
