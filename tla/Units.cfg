SPECIFICATION MCSpec
CONSTANTS
  NTimers = 2
  WRAP = 4
  Dividers = {1, 2}
  U32 = 64
  MaxCost = 3
  MaxSpan = 6
  CHUNK_CAP = 5
  Reloads = {1, 3}
  Controls <- ControlsFree
  DmaWrites <- ReloadWrites
  Channel = {1}
  Counts = {0, 1}
  ADDR_SPACE = 40
  ADDR_MASK <- Mask
  MAX_COUNT <- MaxCounts
  COUNT_SPACE = 4
  FIFO_BYTES = 16
  VISIBLE_LINES = 2
  LINES_PER_FRAME = 3
  Addrs = {0, 36}
  DmaControls <- ControlsAll
  FifoPorts = {36}
  W = 12
  SIZE = 128
  Words = {0, 1, 12, 2047, 2048, 4095}
  Bases = {40, 41, 42}
  Stacks = {64, 66}
  PC = 3000
  Instructions <- SomeInstructions
  Value = {0, 1}
  MaxWrites = 2
  Registers = {8, 13, 14}
  Reached = {"User", "System", "Fiq", "Irq"}
  Status <- SomeStatus
  ArmCode <- SomeArm
  ThumbCode <- SomeThumb
  Boot <- SomeBoot
  IO_BASE = 2048
  HAS_BIOS = FALSE
  Returns = {44}
  Scratch <- SomeScratch
  StackCells <- SomeStack
  MaxInterrupts = 2
  MaxDepth = 2
INVARIANTS BatchExact PredictionExact ChannelsConsistent ThumbIsArm ArithmeticRight Transparent
PROPERTIES SleepPopsExact TableThrough ImplementsRegisterFile
