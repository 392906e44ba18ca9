SPECIFICATION Spec
CONSTANTS
  SEM_TIMEOUT = 5
  ANGLE_PERIOD = 5
  MaxBusy = 1
  MaxFails = 1
  Never = Never
  AgeCap = 20
INVARIANTS TypeOK CopiesAreWhole NoSampleUnseen ServoDataIsFresh NoTimeInvented
PROPERTY LoopsGoOn
