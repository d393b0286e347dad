SPECIFICATION MCSpec
CONSTANTS
  Roms <- OneOfEach
  Offset <- FourOffsets
  Programs <- SomePrograms
  Strays <- SomeStrays
  Manufacturer <- xC2
  Device <- x09
  SRAM_SIZE = 2
  SramBytes <- SomeBytes
  SMALL = 1
  LARGE = 2
  SMALL_BLOCKS = 2
  LARGE_BLOCKS = 3
  BITS = 2
  DUMMIES = 2
  Contents <- TwoBlocks
  Clocks <- Midnight
  Transactions <- SomeTransactions
  MaxRestarts = 1
  SIZE = 8
  VWINDOW = 16
  BITMAP = FALSE
  OddBytes = FALSE
  Word <- W1234
  Half <- H56
  Byte8 <- B7
  MaxStores = 3
  BYTE = 4
  IoHalves <- SomeHalves
  IoWords <- SomeWords
  RAM = 8
  Fillings <- TwoFillings
  LzStreams <- SomeLz
  RlStreams <- SomeRl
  Units <- SomeUnits
  WORD = 4
  Widths = {1, 2, 4}
  ROUND = 2
  LIMIT = 4
  SLOTS = 3
  FULL = 3
  GAME_SIZE = 2
  Value = {0, 1}
  BlankBlock = 1
  Imports <- AnyLength
  MaxVersion = 4
  MaxFailed = 3
INVARIANTS CommandTakesEffect SequenceRecovers BlocksKept ReadsBack ReadsOneInstant CalendarRight LoadsSeeStores HalvesKept Unpacked NewestFirst LatestKept SaveFound OpenAndCloseSameSize
PROPERTY ErasedInSectors
