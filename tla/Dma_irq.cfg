SPECIFICATION DmaSpec
CONSTANTS
  Channel = {1}
  Counts = {0, 1}
  ADDR_SPACE = 40
  ADDR_MASK <- Mask
  MAX_COUNT <- MaxCounts
  COUNT_SPACE = 4
  FIFO_BYTES = 16
  VISIBLE_LINES = 2
  LINES_PER_FRAME = 3
  Addrs = {0, 36}
  DmaControls <- ControlsAll
  FifoPorts = {36}
INVARIANT CompletionIrq
