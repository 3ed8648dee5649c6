CONSTANTS
  KBD_BUFFER_SIZE = 4
  Scancodes <- MCKeys
  MaxKeys = 5
  PUSH_WHILE_READ = FALSE
SPECIFICATION FairSpec
PROPERTIES IsQueue 
