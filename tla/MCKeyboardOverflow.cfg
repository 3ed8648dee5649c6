CONSTANTS
  KBD_BUFFER_SIZE = 4
  Scancodes <- MCLetters
  MaxKeys = 6
  PUSH_WHILE_READ = TRUE
SPECIFICATION Spec
INVARIANTS OverflowCostsOne
