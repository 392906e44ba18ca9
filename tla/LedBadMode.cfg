SPECIFICATION Spec
CONSTANTS
  NoCmd = NoCmd
  Modes <- AnyModes
  Brightness = {10}
  Temps <- MCTemps
  LED_PWM_PERIOD_US = 5
  FULL_PCT = 10
  SOFT_START_STEPS = 3
  STROBE_WHITE_ON_TICKS = 3
  STROBE_POLICE_TICKS = 2
  SosPattern <- MCSosPattern
  U8 = 12
  U32 = 7
PROPERTIES
  EmergencyOnlyByHeat
