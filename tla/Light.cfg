SPECIFICATION Spec
CONSTANTS
  NoCmd = NoCmd
  Frames <- MCFrames
  Readings <- MCReadings
  TicksPerSample = 2
  LedQueueLen = 1
  AckQueueLen = 1
  Modes <- MCModes
  Brightness = {4}
  Temps <- MCTemps
  LED_PWM_PERIOD_US = 2
  FULL_PCT = 4
  SOFT_START_STEPS = 2
  STROBE_WHITE_ON_TICKS = 1
  STROBE_POLICE_TICKS = 1
  SosPattern <- MCSosPattern
  U8 = 10
  U32 = 2
INVARIANTS
  TypeOK
  DarkSoonAfterDisarm
  NoMissedEmergency
PROPERTIES
  EmergencyHolds
