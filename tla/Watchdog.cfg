SPECIFICATION Spec
CONSTANTS
  Frames <- MCFrames
  HEARTBEAT_TIMEOUT = 6
  WATCHDOG_PERIOD = 2
  IWDG_MAX = 5
  CheckDelay = 1
  U32 = 13
  LedCommands = {}
  NoLed = NoLed
  LedQueueLen = 1
  AckQueueLen = 1
INVARIANTS
  TypeOK
  FedInTime
  SafeStateReached
  OnlyARaceIsSpurious
