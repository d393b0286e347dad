SPECIFICATION ApuSpec
CONSTANTS
  CHUNKS_PER_FRAME = 3
  MaxPerChunk = 3
  SAMPLE_BUFFER_MAX = 6
  TMP = 4
  BUFFER_CAP = 15
  BUFFER_HIGH = 6
  BUFFER_TARGET = 3
  PERIOD = 4
  FREQUENCIES = 4
  LENGTH = 2
  VOLUME = 2
  SWEEP = 3
  CYCLES_PER_FRAME_SEQ = 2
  CPU_CLOCK_HZ = 8
  OUTPUT_SAMPLE_RATE = 3
  R_NUM = 3
  R_DEN = 4
  WAVE = 8
  LFSR_TOP = 8
  SHORT_TOP = 4
  Batches = {1, 5}
  Levels <- SomeLevels
  Sweeps <- SomeSweeps
  Envelopes <- SomeEnvelopes
  Tones <- SomeTones
  Waves <- SomeWaves
  Noises <- SomeNoises
  MaxStores = 4
  FIFO_CAPACITY = 5
  HALF = 2
  Sample = {0, 1, 2}
  Silence = 0
  Bursts <- TwoAndFour
INVARIANTS Sounding BatchExact NothingDropped
PROPERTIES ImplementsQueue FramesGoOn
