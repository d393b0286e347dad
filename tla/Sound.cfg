SPECIFICATION MCSpec
CONSTANTS
  NTimers = 1
  ADDR_SPACE = 10
  Port <- PortA
  Channel = {1}
  FRAME = 4
  WINDOW = 1
  Sads = {4}
  Dads <- OnlyA
  DmaControls <- OnOff
  TimerControls <- TimerOn
  Selects = {}
  Dividers = {1}
  WRAP = 3
  U32 = 64
  FIFO_CAPACITY = 4
  HALF = 2
  FIFO_BYTES = 2
  Silence = 0
  Sample <- Addresses
  ADDR_MASK <- AllAddresses
  MAX_COUNT <- MaxCounts
  COUNT_SPACE = 1
  MaxCost = 2
  CHUNK_CAP = 8
INVARIANTS NothingLost StaysFilled StreamInOrder StaleStaysInBuffer
