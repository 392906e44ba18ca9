SPECIFICATION FairSpec
CONSTANTS
  Frames <- MCFrames
  MaxFrames = 3
  MaxLost = 2
  STX = 3
  HEADER_LEN = 2
  CHECKSUM_LEN = 1
  MAX_PAYLOAD = 3
  RX_RING_SIZE = 3
  RX_DMA_LEN = 4
INVARIANTS
  TypeOK
  NoSleepOnData
  OnlyWholeFrames
  LossIsForgotten
PROPERTIES
  EveryByteParsed
CHECK_DEADLOCK FALSE
