SPECIFICATION Spec
CONSTANTS
  LOOP_PERIOD = 5
  SEND_TIMEOUT = 1
  ACKS_PER_LOOP = 3
  HEARTBEAT_LOOPS = 4
  AckQueueLen = 3
  U8 = 8
  MaxStalls = 2
INVARIANTS
  TypeOK
  SendsAreSynchronous
  AckAgeBounded
PROPERTIES
  HeartbeatCadence
