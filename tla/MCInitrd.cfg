SPECIFICATION Spec
CONSTANTS
  None = None
  Names <- MCNames
  Contents <- MCContents
  NAME_SIZE = 3
  SECTOR = 4
  Settings <- MCSettings
  STAGE2_SIZE = 6
  MaxEdits = 4
INVARIANTS
  FilesReadBack
  SoundImageLoadsWhole
