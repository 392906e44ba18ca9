-------------------------------- MODULE Gimbal --------------------------------
(***************************************************************************)
(* app/gimbal_control.c, lib/pid/pid.c and the part of                     *)
(* drivers/feetech/feetech_servo.c that writes a position: from a setpoint *)
(* and attitudes to the packets the two servos get.                        *)
(*                                                                         *)
(* Angles and rates are integers.  The fixed dt of each loop is folded     *)
(* into the units: one tick adds the error to the integrator, and the      *)
(* output to the servo angle.  Both loops run as often and in any order;   *)
(* module ImuPipeline has their scheduling.                                *)
(***************************************************************************)
EXTENDS Integers, Sequences

CONSTANTS
  Axes,         \* pitch and yaw
  Follower,     \* the axis that follows the heading: yaw
  JOINT_MIN, JOINT_MAX,   \* each axis' joint limits (PITCH_MIN_DEG, ...)
  ANGLE_GAINS, RATE_GAINS, \* each axis' gains and limits
  SERVO_ID,     \* each axis' servo (1, 2)
  POS_CENTER, POS_MAX,    \* servo counts (2048, 4095)
  FULL_TURN,    \* the angle of POS_MAX counts (360 degrees)
  Setpoints,    \* the setpoints others may write to g_setpoint
  Angles, Rates \* the angles and rates the IMU may see

Gains == [kp : Nat, ki : Nat, kd : Nat, integrator_limit : Nat, output_limit : Nat]

ASSUME GainAssumption ==
  /\ ANGLE_GAINS \in [Axes -> Gains]
  /\ RATE_GAINS \in [Axes -> Gains]
  /\ \A a \in Axes : ANGLE_GAINS[a].output_limit > 0 /\ RATE_GAINS[a].output_limit > 0
ASSUME JointAssumption ==
  /\ JOINT_MIN \in [Axes -> Int]
  /\ JOINT_MAX \in [Axes -> Int]
  /\ \A a \in Axes : JOINT_MIN[a] <= 0 /\ 0 <= JOINT_MAX[a] /\ JOINT_MIN[a] < JOINT_MAX[a]
ASSUME ServoAssumption ==
  /\ SERVO_ID \in [Axes -> 0 .. 253]
  /\ FULL_TURN \in Nat \ {0}
  /\ POS_CENTER \in Nat
  /\ POS_MAX \in Nat
  /\ POS_CENTER <= POS_MAX
  /\ POS_MAX < 256 * 256

Modes == {"STABILIZE", "FOLLOW", "LOCK", "ROI", "NEUTRAL"}

ASSUME InputAssumption ==
  /\ Setpoints \subseteq [mode : Modes, angle : [Axes -> Int]]
  /\ Angles \subseteq Int /\ 0 \in Angles
  /\ Rates \subseteq Int /\ 0 \in Rates

VARIABLES
  g_setpoint,    \* mode and angles
  lock_angle, lock_captured,
  angle_pid, rate_pid, \* each axis' integrator and prev_measurement
  g_rate_sp,     \* each axis' rate setpoint
  servo_deg,     \* each axis' servo angle
  imu_alive,     \* the IMU was initialised; else g_attitude stays zero
  mode_seen,     \* history: the mode of the latest angle tick
  entry_angle,   \* history: the angles of the latest angle tick that entered LOCK
  steered,       \* history: a setpoint other than 0 degrees was written
  astray,        \* history: see OldModeWearsOff
  stuck          \* history: see NoWindupAtStop

control == <<lock_angle, lock_captured, angle_pid, rate_pid, g_rate_sp, servo_deg>>
history == <<mode_seen, entry_angle, steered, astray, stuck>>
vars    == <<g_setpoint, control, imu_alive, history>>

Zero == [a \in Axes |-> 0]

-----------------------------------------------------------------------------
(* lib/pid/pid.c *)

Clamp(v, lo, hi) == IF v < lo THEN lo ELSE IF v > hi THEN hi ELSE v

PidInit == [integrator |-> 0, prev_measurement |-> 0]

(* Mutant of Integrated: the integral is not clamped *)
Integrated_Unclamped(g, pid, error) == pid.integrator + error

(* Mutant of Integrated: at its limit it no longer integrates *)
Integrated_StopsAtLimit(g, pid, error) ==
  IF pid.integrator \in {-g.integrator_limit, g.integrator_limit}
  THEN pid.integrator
  ELSE Clamp(pid.integrator + error, -g.integrator_limit, g.integrator_limit)

Integrated(g, pid, error) ==
  Clamp(pid.integrator + error, -g.integrator_limit, g.integrator_limit)

PidOutput(g, pid, setpoint, measurement) ==
  Clamp(g.kp * (setpoint - measurement)
          + g.ki * Integrated(g, pid, setpoint - measurement)
          + g.kd * (pid.prev_measurement - measurement),
        -g.output_limit, g.output_limit)

PidNext(g, pid, setpoint, measurement) ==
  [integrator       |-> Integrated(g, pid, setpoint - measurement),
   prev_measurement |-> measurement]

(***************************************************************************)
(* History of a PID whose output does not go the way of its error: the     *)
(* latest error and change of the measurement, and the total of the errors *)
(* of that sign in the ticks since it last did.                            *)
(***************************************************************************)
Abs(n) == IF n < 0 THEN -n ELSE n

Against(error, output) ==
  \/ error > 0 /\ output <= 0
  \/ error < 0 /\ output >= 0

Obeyed == [last |-> 0, swing |-> 0, total |-> 0]

Disobeyed(h, error, swing) ==
  [last  |-> error,
   swing |-> Abs(swing),
   total |-> Abs(error) + IF h.last * error > 0 THEN h.total ELSE 0]

-----------------------------------------------------------------------------
(* drivers/feetech/feetech_servo.c *)

(* Below 0 the cast truncates upwards, and the last clamp makes both 0 *)
feetech_angle_to_pos(angle, lo, hi) ==
  Clamp((POS_CENTER * FULL_TURN + Clamp(angle, lo, hi) * POS_MAX) \div FULL_TURN, 0, POS_MAX)

REG_GOAL_POSITION_L == 42
INSTR_WRITE_DATA == 3

(* Mutant of Checksum: the bytes are added without the inversion *)
Checksum_Plain(id, len, instr, p) == (id + len + instr + p[1] + p[2] + p[3]) % 256

(* The uint8_t first inverts the header's sum, then loses each parameter *)
Checksum(id, len, instr, p) == (-(id + len + instr) - 1 - p[1] - p[2] - p[3]) % 256

feetech_set_goal_position(id, pos) ==
  LET params == <<REG_GOAL_POSITION_L, pos % 256, pos \div 256>>
      len    == Len(params) + 2
  IN <<255, 255, id, len, INSTR_WRITE_DATA, params[1], params[2], params[3],
       Checksum(id, len, INSTR_WRITE_DATA, params)>>

-----------------------------------------------------------------------------
(* app/gimbal_control.c *)

Init ==
  /\ g_setpoint = [mode |-> "NEUTRAL", angle |-> Zero]
  /\ lock_angle = Zero
  /\ lock_captured = FALSE
  /\ angle_pid = [a \in Axes |-> PidInit]
  /\ rate_pid = [a \in Axes |-> PidInit]
  /\ g_rate_sp = Zero
  /\ servo_deg = Zero
  /\ imu_alive \in BOOLEAN
  /\ mode_seen = "NEUTRAL"
  /\ entry_angle = Zero
  /\ steered = FALSE
  /\ astray = [a \in Axes |-> Obeyed]
  /\ stuck = [a \in Axes |-> Obeyed]

(* What the loops may find in g_attitude *)
Measured(values) == [Axes -> IF imu_alive THEN values ELSE {0}]

(***************************************************************************)
(* The setpoint handle_gimbal_set_attitude writes under the lock, and in  *)
(* its first form the watchdog thread: neutral at 0 degrees, or stabilise  *)
(* at the angles there are.                                                *)
(***************************************************************************)
WriteSetpoint ==
  /\ \/ g_setpoint' = [mode |-> "NEUTRAL", angle |-> Zero]
     \/ g_setpoint' = [g_setpoint EXCEPT !.mode = "STABILIZE"]
  /\ UNCHANGED <<control, imu_alive, history>>

(* The setpoints the controller has code for, from a writer to come        *)
OtherSetpoint ==
  /\ g_setpoint' \in Setpoints
  /\ steered' = (steered \/ g_setpoint'.angle # Zero)
  /\ UNCHANGED <<control, imu_alive, mode_seen, entry_angle, astray, stuck>>

(* Mutant of Target: neutral is the middle of the joint's range *)
Target_MidRange(sp, angle, locked, a) ==
  CASE sp.mode = "LOCK" -> locked[a]
    [] sp.mode = "FOLLOW" /\ a = Follower -> angle[a]
    [] sp.mode = "NEUTRAL" -> (JOINT_MIN[a] + JOINT_MAX[a]) \div 2
    [] OTHER -> sp.angle[a]

(* The angle the angle loop steers for, in each mode *)
Target(sp, angle, locked, a) ==
  CASE sp.mode = "LOCK" -> locked[a]
    [] sp.mode = "FOLLOW" /\ a = Follower -> angle[a]
    [] sp.mode = "NEUTRAL" -> 0
    [] OTHER -> sp.angle[a]

(* Mutant of Captured: neutral keeps the captured angle *)
Captured_KeptInNeutral(mode) == mode = "LOCK" \/ (mode = "NEUTRAL" /\ lock_captured)

(* Every mode but LOCK gives up the captured angle *)
Captured(mode) == mode = "LOCK"

(* gimbal_angle_tick with the attitude that was copied before the setpoint *)
gimbal_angle_tick ==
  /\ \E angle \in Measured(Angles) :
       /\ lock_captured' = Captured(g_setpoint.mode)
       /\ lock_angle' = IF g_setpoint.mode = "LOCK" /\ ~lock_captured THEN angle
                        ELSE lock_angle
       /\ g_rate_sp' = [a \in Axes |->
            PidOutput(ANGLE_GAINS[a], angle_pid[a],
                      Target(g_setpoint, angle, lock_angle', a), angle[a])]
       /\ angle_pid' = [a \in Axes |->
            PidNext(ANGLE_GAINS[a], angle_pid[a],
                    Target(g_setpoint, angle, lock_angle', a), angle[a])]
       /\ entry_angle' = IF g_setpoint.mode = "LOCK" /\ mode_seen # "LOCK" THEN angle
                         ELSE entry_angle
       /\ astray' = [a \in Axes |->
            LET error == Target(g_setpoint, angle, lock_angle', a) - angle[a]
            IN IF Against(error, g_rate_sp'[a])
               THEN Disobeyed(astray[a], error, angle[a] - angle_pid[a].prev_measurement)
               ELSE Obeyed]
  /\ mode_seen' = g_setpoint.mode
  /\ UNCHANGED <<g_setpoint, rate_pid, servo_deg, imu_alive, steered, stuck>>

(* The axis is at a stop, and the rate error points away from it           *)
Released(a, rate) ==
  \/ servo_deg[a] = JOINT_MAX[a] /\ g_rate_sp[a] < rate
  \/ servo_deg[a] = JOINT_MIN[a] /\ g_rate_sp[a] > rate

(* gimbal_rate_tick: the rate loop's output moves the servo angle *)
gimbal_rate_tick ==
  /\ \E rate \in Measured(Rates) :
       /\ servo_deg' = [a \in Axes |->
            Clamp(servo_deg[a] + PidOutput(RATE_GAINS[a], rate_pid[a], g_rate_sp[a], rate[a]),
                  JOINT_MIN[a], JOINT_MAX[a])]
       /\ rate_pid' = [a \in Axes |->
            PidNext(RATE_GAINS[a], rate_pid[a], g_rate_sp[a], rate[a])]
       /\ stuck' = [a \in Axes |->
            IF Released(a, rate[a]) /\ servo_deg'[a] = servo_deg[a]
            THEN Disobeyed(stuck[a], g_rate_sp[a] - rate[a],
                           rate[a] - rate_pid[a].prev_measurement)
            ELSE Obeyed]
  /\ UNCHANGED <<g_setpoint, lock_angle, lock_captured, angle_pid, g_rate_sp, imu_alive,
                 mode_seen, entry_angle, steered, astray>>

(* The packet that the servo of axis a got at the latest rate tick *)
Packet(a) ==
  feetech_set_goal_position(SERVO_ID[a],
    feetech_angle_to_pos(servo_deg[a], JOINT_MIN[a], JOINT_MAX[a]))

Next == WriteSetpoint \/ OtherSetpoint \/ gimbal_angle_tick \/ gimbal_rate_tick

Spec == Init /\ [][Next]_vars

-----------------------------------------------------------------------------
(* Properties *)

PidStates(g) == [integrator : -g.integrator_limit .. g.integrator_limit,
                 prev_measurement : Int]

Disobediences == [last : Int, swing : Nat, total : Nat]

TypeOK ==
  /\ g_setpoint \in [mode : Modes, angle : [Axes -> Int]]
  /\ lock_angle \in [Axes -> Int]
  /\ lock_captured \in BOOLEAN
  /\ \A a \in Axes : /\ angle_pid[a] \in PidStates(ANGLE_GAINS[a])
                     /\ rate_pid[a] \in PidStates(RATE_GAINS[a])
                     /\ g_rate_sp[a] \in -ANGLE_GAINS[a].output_limit .. ANGLE_GAINS[a].output_limit
                     /\ servo_deg[a] \in JOINT_MIN[a] .. JOINT_MAX[a]
                     /\ astray[a] \in Disobediences
                     /\ stuck[a] \in Disobediences
  /\ imu_alive \in BOOLEAN
  /\ mode_seen \in Modes
  /\ entry_angle \in [Axes -> Int]
  /\ steered \in BOOLEAN

(* What a servo makes of a packet: it takes none with a wrong checksum *)
Accepted(p) == (p[3] + p[4] + p[5] + p[6] + p[7] + p[8] + p[9]) % 256 = 255
GoalOf(p)   == p[7] + 256 * p[8]

(***************************************************************************)
(* In every sequence of modes and attitudes, each servo accepts its packet *)
(* and reads a position from it that is inside its joint's range: clamps   *)
(* in degrees, conversion, truncation, clamps in counts, bytes and         *)
(* checksum fit together.                                                  *)
(***************************************************************************)
ServoToldInRange ==
  \A a \in Axes :
    /\ Accepted(Packet(a))
    /\ GoalOf(Packet(a)) \in
         feetech_angle_to_pos(JOINT_MIN[a], JOINT_MIN[a], JOINT_MAX[a]) ..
         feetech_angle_to_pos(JOINT_MAX[a], JOINT_MIN[a], JOINT_MAX[a])

(***************************************************************************)
(* LOCK holds the angles of the angle tick that entered it, also after     *)
(* earlier locks, and whatever setpoints arrive meanwhile.                 *)
(***************************************************************************)
LockHoldsEntryAngle == mode_seen = "LOCK" => lock_captured /\ lock_angle = entry_angle

(***************************************************************************)
(* The output of a PID fails to go the way of its error only by as much as *)
(* the movement of the measurement explains, and what is left of an old    *)
(* integral: its limit less all the error since.                           *)
(***************************************************************************)
Explained(g, h) ==
  \/ g.kp * Abs(h.last) <= g.ki * (g.integrator_limit - h.total) + g.kd * h.swing
  \/ g.kp * Abs(h.last) <= g.kd * h.swing

(***************************************************************************)
(* An old mode wears off: the integrals are kept through every change of   *)
(* mode and through LOCK's capture, so an axis may first be steered away   *)
(* from its new target; but the error it has meanwhile is taken from that  *)
(* integral, which by its limit cannot take much, in any order of modes.   *)
(***************************************************************************)
OldModeWearsOff == \A a \in Axes : Explained(ANGLE_GAINS[a], astray[a])

(***************************************************************************)
(* What the clamped integral leaves of windup (the documents ask for       *)
(* back-calculation instead): once the rate error points away from a stop  *)
(* a servo was driven into, for however long, the servo is held there by   *)
(* the rest of one integrator limit only, of which every error takes its   *)
(* share; while the rate is steady, not at all by an error above ki / kp   *)
(* of the limit.                                                           *)
(***************************************************************************)
NoWindupAtStop == \A a \in Axes : Explained(RATE_GAINS[a], stuck[a])

(***************************************************************************)
(* If the IMU is not initialised, its thread ends and both loops run on    *)
(* the zero attitude: the servos stay where they are, unless a setpoint    *)
(* other than 0 degrees comes, which no handler writes today.              *)
(***************************************************************************)
StillWithoutImu == ~imu_alive /\ ~steered => servo_deg = Zero
=============================================================================
