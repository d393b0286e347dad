SPECIFICATION Spec
CONSTANTS
  NTimers = 2
  WRAP = 4
  Dividers = {1}
  U32 = 64
  MaxCost = 4
  MaxSpan = 3
  CHUNK_CAP = 8
  Reloads = {1, 3}
  Controls <- ControlsCascade
  DmaWrites = {}
INVARIANT BatchExact
