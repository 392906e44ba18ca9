SPECIFICATION Spec
CONSTANTS
  Axes = {"yaw"}
  Follower = "yaw"
  JOINT_MIN <- MCJointMin
  JOINT_MAX <- MCJointMax
  ANGLE_GAINS <- MCAngleGains
  RATE_GAINS <- MCRateGains
  SERVO_ID <- MCServoId
  POS_CENTER = 2048
  POS_MAX = 4095
  FULL_TURN = 12
  Setpoints <- MCSetpoints
  Angles <- MCAngles
  Rates <- MCRates
INVARIANTS TypeOK ServoToldInRange LockHoldsEntryAngle OldModeWearsOff NoWindupAtStop StillWithoutImu
