SPECIFICATION FairSpec
CONSTANTS
  HDRAW_CYCLES = 3
  HBLANK_CYCLES = 2
  VISIBLE_LINES = 2
  LINES_PER_FRAME = 3
  MaxCost = 2
  DevIrqs = {}
  Chunks <- ChunkFrame
  Drivers = {"run_cycles"}
  IeChoices <- NoIrq
  EnableChoices <- NoIrq
  LycChoices <- LycOne
  FlagChoices = {}
  MaxBehind = 2
  ByteAccess = FALSE
PROPERTY LinesOnSchedule
