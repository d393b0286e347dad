SPECIFICATION PartsSpec
CONSTANTS
  W = 12
  SIZE = 128
  Words = {0}
  Bases = {40}
  Stacks = {64}
  PC = 3000
  Instructions = {}
  Value = {0}
  MaxWrites = 0
  Registers = {13, 14}
  Reached = {"User"}
  Status <- SomeStatus
  ArmCode <- WithBios
  ThumbCode <- SomeThumb
  Boot <- SomeBoot
  IO_BASE = 2048
  HAS_BIOS = TRUE
  Returns = {8}
  Scratch <- SomeScratch
  StackCells <- SomeStack
  MaxInterrupts = 0
  MaxDepth = 2
INVARIANT SwiReturns
CHECK_DEADLOCK FALSE
