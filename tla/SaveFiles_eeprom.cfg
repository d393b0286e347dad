SPECIFICATION FilesSpec
CONSTANTS
  SLOTS = 3
  FULL = 3
  GAME_SIZE = 2
  Value = {0, 1}
  BlankBlock = 1
  Imports <- AnyLength
  MaxVersion = 4
  MaxFailed = 3
INVARIANTS OpenAndClose
