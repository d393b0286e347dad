SPECIFICATION Spec
CONSTANTS
  HDRAW_CYCLES = 2
  HBLANK_CYCLES = 2
  VISIBLE_LINES = 1
  LINES_PER_FRAME = 2
  MaxCost = 2
  DevIrqs = {"Dma0"}
  Chunks <- ChunkFrame
  Drivers = {"run_cycles", "step_one", "step_n"}
  IeChoices <- IeDma
  EnableChoices <- EnableHBlank
  LycChoices <- LycOne
  FlagChoices <- FlagVBlank
  MaxBehind = 1
  ByteAccess = FALSE
PROPERTY NoRequestLost
