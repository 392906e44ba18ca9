----------------------------- MODULE GimbalProofs -----------------------------
(***************************************************************************)
(* Theorems about Gimbal, for any axes, gains, joint limits, setpoints and *)
(* measurements that its assumptions allow.                                *)
(***************************************************************************)
EXTENDS Gimbal, TLAPS

-----------------------------------------------------------------------------
(* The operators *)

LEMMA ClampBounds ==
  ASSUME NEW v \in Int, NEW lo \in Int, NEW hi \in Int, lo <= hi
  PROVE  Clamp(v, lo, hi) \in lo .. hi
  BY DEF Clamp

LEMMA ClampWithin ==
  ASSUME NEW v \in Int, NEW limit \in Nat
  PROVE  Clamp(v, -limit, limit) \in -limit .. limit
  BY DEF Clamp

(* Clamping leaves what is inside, and keeps the order *)
LEMMA ClampInside ==
  ASSUME NEW lo \in Int, NEW hi \in Int, NEW v \in lo .. hi
  PROVE  Clamp(v, lo, hi) = v
  BY DEF Clamp

LEMMA ClampMonotone ==
  ASSUME NEW v \in Int, NEW w \in Int, v <= w, NEW lo \in Int, NEW hi \in Int, lo <= hi
  PROVE  Clamp(v, lo, hi) <= Clamp(w, lo, hi)
  BY DEF Clamp

LEMMA ProductIsInt == ASSUME NEW m \in Int, NEW n \in Int PROVE m * n \in Int
  OBVIOUS

(* A tick of a PID leaves its integral and its output within their limits *)
LEMMA PidBounds ==
  ASSUME NEW g \in Gains, NEW pid \in PidStates(g), NEW sp \in Int, NEW m \in Int
  PROVE  /\ PidOutput(g, pid, sp, m) \in -g.output_limit .. g.output_limit
         /\ PidNext(g, pid, sp, m) \in PidStates(g)
<1>1. /\ g.kp \in Int /\ g.ki \in Int /\ g.kd \in Int
      /\ g.integrator_limit \in Nat /\ g.output_limit \in Nat
  BY DEF Gains
<1>2. pid.integrator \in Int /\ pid.prev_measurement \in Int
  BY <1>1 DEF PidStates
<1>3. Integrated(g, pid, sp - m) \in -g.integrator_limit .. g.integrator_limit
  <2>1. pid.integrator + (sp - m) \in Int
    BY <1>2
  <2>2. QED
    BY <1>1, <2>1, ClampWithin DEF Integrated
<1>4. /\ g.kp * (sp - m) \in Int
      /\ g.ki * Integrated(g, pid, sp - m) \in Int
      /\ g.kd * (pid.prev_measurement - m) \in Int
  <2>1. Integrated(g, pid, sp - m) \in Int /\ sp - m \in Int /\ pid.prev_measurement - m \in Int
    BY <1>1, <1>2, <1>3
  <2>2. QED
    BY <1>1, <2>1, ProductIsInt
<1>5. PidOutput(g, pid, sp, m) \in -g.output_limit .. g.output_limit
  <2> DEFINE sum == g.kp * (sp - m) + g.ki * Integrated(g, pid, sp - m)
                      + g.kd * (pid.prev_measurement - m)
  <2>1. sum \in Int
    BY <1>4
  <2>2. PidOutput(g, pid, sp, m) = Clamp(sum, -g.output_limit, g.output_limit)
    BY DEF PidOutput
  <2> HIDE DEF sum
  <2>3. QED
    BY <1>1, <2>1, <2>2, ClampWithin
<1>6. QED
  BY <1>1, <1>3, <1>5 DEF PidNext, PidStates

(* A PID that has only ever seen zeros gives zero *)
LEMMA PidAtRest ==
  ASSUME NEW g \in Gains
  PROVE  PidOutput(g, PidInit, 0, 0) = 0 /\ PidNext(g, PidInit, 0, 0) = PidInit
<1>1. /\ g.kp \in Int /\ g.ki \in Int /\ g.kd \in Int
      /\ g.integrator_limit \in Nat /\ g.output_limit \in Nat
  BY DEF Gains
<1>2. Integrated(g, PidInit, 0) = 0
  BY <1>1 DEF Integrated, Clamp, PidInit
<1>3. g.kp * 0 = 0 /\ g.ki * 0 = 0 /\ g.kd * 0 = 0
  BY <1>1
<1>4. 0 - 0 = 0 /\ PidInit.prev_measurement - 0 = 0
  BY DEF PidInit
<1>5. PidOutput(g, PidInit, 0, 0) = Clamp(0 + 0 + 0, -g.output_limit, g.output_limit)
  BY <1>2, <1>3, <1>4 DEF PidOutput
<1>6. PidOutput(g, PidInit, 0, 0) = 0
  BY <1>1, <1>5 DEF Clamp
<1>7. QED
  BY <1>2, <1>4, <1>6 DEF PidNext, PidInit

-----------------------------------------------------------------------------
(* Types *)

LEMMA MeasuredInt == /\ Measured(Angles) \subseteq [Axes -> Int]
                     /\ Measured(Rates) \subseteq [Axes -> Int]
  BY InputAssumption DEF Measured

LEMMA GainTypes ==
  ASSUME NEW a \in Axes
  PROVE  /\ ANGLE_GAINS[a] \in Gains
         /\ RATE_GAINS[a] \in Gains
         /\ JOINT_MIN[a] \in Int /\ JOINT_MAX[a] \in Int
         /\ JOINT_MIN[a] <= 0 /\ 0 <= JOINT_MAX[a] /\ JOINT_MIN[a] < JOINT_MAX[a]
  BY GainAssumption, JointAssumption

LEMMA InitType == Init => TypeOK
<1> SUFFICES ASSUME Init PROVE TypeOK
  OBVIOUS
<1>1. ASSUME NEW a \in Axes
      PROVE  /\ angle_pid[a] \in PidStates(ANGLE_GAINS[a])
             /\ rate_pid[a] \in PidStates(RATE_GAINS[a])
             /\ g_rate_sp[a] \in -ANGLE_GAINS[a].output_limit .. ANGLE_GAINS[a].output_limit
             /\ servo_deg[a] \in JOINT_MIN[a] .. JOINT_MAX[a]
             /\ astray[a] \in Disobediences /\ stuck[a] \in Disobediences
  <2>1. PidInit \in PidStates(ANGLE_GAINS[a]) /\ PidInit \in PidStates(RATE_GAINS[a])
    BY GainTypes DEF PidInit, PidStates, Gains
  <2>2. ANGLE_GAINS[a].output_limit \in Nat
    BY GainTypes DEF Gains
  <2>3. Obeyed \in Disobediences
    BY DEF Obeyed, Disobediences
  <2>4. QED
    BY <2>1, <2>2, <2>3, GainTypes DEF Init, Zero
<1>2. g_setpoint \in [mode : Modes, angle : [Axes -> Int]] /\ mode_seen \in Modes
  BY DEF Init, Zero, Modes
<1>3. lock_angle \in [Axes -> Int] /\ entry_angle \in [Axes -> Int]
  BY DEF Init, Zero
<1>4. lock_captured \in BOOLEAN /\ imu_alive \in BOOLEAN /\ steered \in BOOLEAN
  BY Zenon DEF Init
<1>5. QED
  BY <1>1, <1>2, <1>3, <1>4 DEF TypeOK

(* What an angle tick steers for is an angle *)
LEMMA TargetType ==
  ASSUME NEW sp \in [mode : Modes, angle : [Axes -> Int]],
         NEW angle \in [Axes -> Int], NEW locked \in [Axes -> Int], NEW a \in Axes
  PROVE  Target(sp, angle, locked, a) \in Int
<1>1. angle[a] \in Int /\ locked[a] \in Int /\ sp.angle[a] \in Int
  OBVIOUS
<1>2. CASE sp.mode = "LOCK"
  BY <1>1, <1>2 DEF Target
<1>3. CASE sp.mode = "FOLLOW" /\ a = Follower
  BY <1>1, <1>3 DEF Target
<1>4. CASE sp.mode = "NEUTRAL"
  BY <1>1, <1>4 DEF Target
<1>5. CASE sp.mode # "LOCK" /\ ~(sp.mode = "FOLLOW" /\ a = Follower) /\ sp.mode # "NEUTRAL"
  BY <1>1, <1>5 DEF Target
<1>6. QED
  BY <1>2, <1>3, <1>4, <1>5

LEMMA HistoryType ==
  ASSUME NEW h \in Disobediences, NEW error \in Int, NEW swing \in Int
  PROVE  Disobeyed(h, error, swing) \in Disobediences /\ Obeyed \in Disobediences
<1>1. Abs(swing) \in Nat /\ Abs(error) \in Nat /\ h.total \in Nat
  BY DEF Abs, Disobediences
<1>2. (Abs(error) + IF h.last * error > 0 THEN h.total ELSE 0) \in Nat
  BY <1>1
<1>3. QED
  BY <1>1, <1>2 DEF Disobeyed, Obeyed, Disobediences

LEMMA AngleTickType == TypeOK /\ gimbal_angle_tick => TypeOK'
<1> SUFFICES ASSUME TypeOK, gimbal_angle_tick PROVE TypeOK'
  OBVIOUS
<1>0. PICK angle \in Measured(Angles) :
        /\ lock_angle' = IF g_setpoint.mode = "LOCK" /\ ~lock_captured THEN angle
                         ELSE lock_angle
        /\ g_rate_sp' = [a \in Axes |->
             PidOutput(ANGLE_GAINS[a], angle_pid[a],
                       Target(g_setpoint, angle, lock_angle', a), angle[a])]
        /\ angle_pid' = [a \in Axes |->
             PidNext(ANGLE_GAINS[a], angle_pid[a],
                     Target(g_setpoint, angle, lock_angle', a), angle[a])]
        /\ entry_angle' = IF g_setpoint.mode = "LOCK" /\ mode_seen # "LOCK" THEN angle
                          ELSE entry_angle
        /\ astray' = [a \in Axes |->
             LET error == Target(g_setpoint, angle, lock_angle', a) - angle[a]
             IN IF Against(error, g_rate_sp'[a])
                THEN Disobeyed(astray[a], error, angle[a] - angle_pid[a].prev_measurement)
                ELSE Obeyed]
  BY DEF gimbal_angle_tick
<1>1. angle \in [Axes -> Int]
  BY MeasuredInt
<1>2. lock_angle' \in [Axes -> Int] /\ entry_angle' \in [Axes -> Int]
  BY <1>0, <1>1 DEF TypeOK
<1>3. ASSUME NEW a \in Axes
      PROVE  /\ angle_pid'[a] \in PidStates(ANGLE_GAINS[a])
             /\ g_rate_sp'[a] \in -ANGLE_GAINS[a].output_limit .. ANGLE_GAINS[a].output_limit
             /\ astray'[a] \in Disobediences
  <2>1. Target(g_setpoint, angle, lock_angle', a) \in Int /\ angle[a] \in Int
    BY <1>1, <1>2, TargetType DEF TypeOK
  <2>2. ANGLE_GAINS[a] \in Gains /\ angle_pid[a] \in PidStates(ANGLE_GAINS[a])
    BY GainTypes DEF TypeOK
  <2>3. /\ angle_pid'[a] \in PidStates(ANGLE_GAINS[a])
        /\ g_rate_sp'[a] \in -ANGLE_GAINS[a].output_limit .. ANGLE_GAINS[a].output_limit
    BY <1>0, <2>1, <2>2, PidBounds
  <2> DEFINE error == Target(g_setpoint, angle, lock_angle', a) - angle[a]
             swing == angle[a] - angle_pid[a].prev_measurement
  <2>4. error \in Int /\ swing \in Int /\ astray[a] \in Disobediences
    BY <2>1, <2>2 DEF PidStates, TypeOK
  <2>5. astray'[a] = IF Against(error, g_rate_sp'[a])
                     THEN Disobeyed(astray[a], error, swing) ELSE Obeyed
    BY <1>0
  <2> HIDE DEF error, swing
  <2>6. astray'[a] \in Disobediences
    BY <2>4, <2>5, HistoryType
  <2>7. QED
    BY <2>3, <2>6
<1>4. lock_captured' \in BOOLEAN
  BY Zenon DEF gimbal_angle_tick, Captured
<1>5. QED
  BY <1>2, <1>3, <1>4 DEF TypeOK, gimbal_angle_tick

(***************************************************************************)
(* A rate tick moves each servo angle from inside its joint's range to     *)
(* inside it.                                                              *)
(***************************************************************************)
LEMMA RateTick ==
  ASSUME TypeOK, NEW rate \in Measured(Rates), NEW a \in Axes
  PROVE  LET out == PidOutput(RATE_GAINS[a], rate_pid[a], g_rate_sp[a], rate[a])
             deg == Clamp(servo_deg[a] + out, JOINT_MIN[a], JOINT_MAX[a])
         IN /\ out \in -RATE_GAINS[a].output_limit .. RATE_GAINS[a].output_limit
            /\ deg \in JOINT_MIN[a] .. JOINT_MAX[a]
            /\ PidNext(RATE_GAINS[a], rate_pid[a], g_rate_sp[a], rate[a])
                 \in PidStates(RATE_GAINS[a])
<1> DEFINE out == PidOutput(RATE_GAINS[a], rate_pid[a], g_rate_sp[a], rate[a])
           limit == RATE_GAINS[a].output_limit
<1>1. /\ RATE_GAINS[a] \in Gains /\ limit \in Nat /\ ANGLE_GAINS[a].output_limit \in Nat
      /\ JOINT_MIN[a] \in Int /\ JOINT_MAX[a] \in Int /\ JOINT_MIN[a] < JOINT_MAX[a]
  BY GainTypes DEF Gains
<1>2. /\ rate[a] \in Int /\ g_rate_sp[a] \in Int /\ rate_pid[a] \in PidStates(RATE_GAINS[a])
      /\ servo_deg[a] \in JOINT_MIN[a] .. JOINT_MAX[a]
  BY <1>1, MeasuredInt DEF TypeOK
<1>3. /\ out \in -limit .. limit
      /\ PidNext(RATE_GAINS[a], rate_pid[a], g_rate_sp[a], rate[a])
           \in PidStates(RATE_GAINS[a])
  BY <1>1, <1>2, PidBounds
<1> HIDE DEF out, limit
<1>4. Clamp(servo_deg[a] + out, JOINT_MIN[a], JOINT_MAX[a]) \in JOINT_MIN[a] .. JOINT_MAX[a]
  BY <1>1, <1>2, <1>3 DEF Clamp
<1>5. QED
  BY <1>3, <1>4 DEF out, limit

LEMMA RateTickType == TypeOK /\ gimbal_rate_tick => TypeOK'
<1> SUFFICES ASSUME TypeOK, gimbal_rate_tick PROVE TypeOK'
  OBVIOUS
<1>1. PICK rate \in Measured(Rates) :
        /\ servo_deg' = [a \in Axes |->
             Clamp(servo_deg[a] + PidOutput(RATE_GAINS[a], rate_pid[a], g_rate_sp[a], rate[a]),
                   JOINT_MIN[a], JOINT_MAX[a])]
        /\ rate_pid' = [a \in Axes |->
             PidNext(RATE_GAINS[a], rate_pid[a], g_rate_sp[a], rate[a])]
        /\ stuck' = [a \in Axes |->
             IF Released(a, rate[a]) /\ servo_deg'[a] = servo_deg[a]
             THEN Disobeyed(stuck[a], g_rate_sp[a] - rate[a],
                            rate[a] - rate_pid[a].prev_measurement)
             ELSE Obeyed]
  BY DEF gimbal_rate_tick
<1>2. ASSUME NEW a \in Axes
      PROVE  /\ rate_pid'[a] \in PidStates(RATE_GAINS[a])
             /\ servo_deg'[a] \in JOINT_MIN[a] .. JOINT_MAX[a]
  BY <1>1, RateTick
<1>3. ASSUME NEW a \in Axes PROVE stuck'[a] \in Disobediences
  <2>1. /\ g_rate_sp[a] - rate[a] \in Int /\ stuck[a] \in Disobediences
        /\ rate[a] - rate_pid[a].prev_measurement \in Int
    BY MeasuredInt, GainTypes DEF TypeOK, PidStates, Gains
  <2>2. QED
    BY <1>1, <2>1, HistoryType
<1>4. QED
  BY <1>2, <1>3 DEF TypeOK, gimbal_rate_tick

LEMMA StepType == TypeOK /\ [Next]_vars => TypeOK'
<1> SUFFICES ASSUME TypeOK, [Next]_vars PROVE TypeOK'
  OBVIOUS
<1>1. CASE WriteSetpoint
  <2>1. g_setpoint' \in [mode : Modes, angle : [Axes -> Int]]
    BY <1>1 DEF WriteSetpoint, TypeOK, Modes, Zero
  <2>2. QED
    BY <1>1, <2>1 DEF TypeOK, WriteSetpoint, control, history
<1>2. CASE OtherSetpoint
  <2>1. g_setpoint' \in [mode : Modes, angle : [Axes -> Int]]
    BY <1>2, InputAssumption DEF OtherSetpoint
  <2>2. steered' \in BOOLEAN
    BY <1>2, Zenon DEF OtherSetpoint
  <2>3. QED
    BY <1>2, <2>1, <2>2 DEF TypeOK, OtherSetpoint, control
<1>3. CASE UNCHANGED vars
  BY <1>3 DEF TypeOK, vars, control, history
<1>4. QED
  BY <1>1, <1>2, <1>3, AngleTickType, RateTickType DEF Next

(***************************************************************************)
(* The servo angles stay inside the joints' ranges, the rate setpoints and *)
(* all four integrals inside their limits.                                 *)
(***************************************************************************)
THEOREM TypeCorrect == Spec => []TypeOK
<1>1. QED
  BY InitType, StepType, PTL DEF Spec

-----------------------------------------------------------------------------
(* Locking *)

LockInv == /\ lock_captured <=> mode_seen = "LOCK"
           /\ lock_captured => lock_angle = entry_angle

(***************************************************************************)
(* LOCK holds the angles of the angle tick that entered it: the flag says  *)
(* whether the latest tick was in LOCK, in every order of setpoints.       *)
(***************************************************************************)
THEOREM LockHolds == Spec => []LockHoldsEntryAngle
<1>1. Init => LockInv
  BY DEF Init, LockInv
<1>2. LockInv /\ [Next]_vars => LockInv'
  <2> SUFFICES ASSUME LockInv, [Next]_vars PROVE LockInv'
    OBVIOUS
  <2>1. CASE gimbal_angle_tick
    <3>1. lock_captured' = (g_setpoint.mode = "LOCK") /\ mode_seen' = g_setpoint.mode
      BY <2>1 DEF gimbal_angle_tick, Captured
    <3>2. CASE mode_seen = "LOCK"
      BY <2>1, <3>1, <3>2, Zenon DEF gimbal_angle_tick, LockInv
    <3>3. CASE mode_seen # "LOCK"
      BY <2>1, <3>1, <3>3, Zenon DEF gimbal_angle_tick, LockInv
    <3>4. QED
      BY <3>2, <3>3
  <2>2. CASE WriteSetpoint \/ OtherSetpoint \/ gimbal_rate_tick \/ UNCHANGED vars
    <3>1. UNCHANGED <<lock_captured, lock_angle, mode_seen, entry_angle>>
      BY <2>2 DEF WriteSetpoint, OtherSetpoint, gimbal_rate_tick, vars, control, history
    <3>2. QED
      BY <3>1, Zenon DEF LockInv
  <2>3. QED
    BY <2>1, <2>2 DEF Next
<1>3. LockInv => LockHoldsEntryAngle
  BY DEF LockInv, LockHoldsEntryAngle
<1>4. QED
  BY <1>1, <1>2, <1>3, PTL DEF Spec

-----------------------------------------------------------------------------
(* At rest without the IMU *)

AtRest ==
  ~imu_alive /\ ~steered =>
    /\ g_setpoint.angle = Zero /\ lock_angle = Zero
    /\ g_rate_sp = Zero /\ servo_deg = Zero
    /\ \A a \in Axes : angle_pid[a] = PidInit /\ rate_pid[a] = PidInit

(***************************************************************************)
(* If the IMU is not initialised, both loops run on the zero attitude and  *)
(* the servos stay where they are: every PID, in every mode, is at rest.   *)
(***************************************************************************)
THEOREM StaysAtRest == Spec => []StillWithoutImu
<1>1. Init => AtRest
  BY DEF Init, AtRest, Zero
<1>2. TypeOK /\ AtRest /\ [Next]_vars => AtRest'
  <2> SUFFICES ASSUME TypeOK, AtRest, [Next]_vars, ~imu_alive', ~steered'
               PROVE  /\ g_setpoint'.angle = Zero /\ lock_angle' = Zero
                      /\ g_rate_sp' = Zero /\ servo_deg' = Zero
                      /\ \A a \in Axes : angle_pid'[a] = PidInit /\ rate_pid'[a] = PidInit
    BY Zenon DEF AtRest, Zero, PidInit
  <2>0. (Measured(Angles) = {Zero} /\ Measured(Rates) = {Zero}) \/ imu_alive
    BY DEF Measured, Zero
  <2>1. CASE WriteSetpoint \/ OtherSetpoint
    <3>1. ~imu_alive /\ ~steered
      <4>1. CASE WriteSetpoint
        <5>1. imu_alive' = imu_alive /\ steered' = steered
          BY <4>1 DEF WriteSetpoint, history
        <5>2. QED
          BY <5>1, Zenon
      <4>2. CASE OtherSetpoint
        BY <4>2, Zenon DEF OtherSetpoint
      <4>3. QED
        BY <2>1, <4>1, <4>2
    <3>2. g_setpoint'.angle = Zero
      <4>1. g_setpoint.angle = Zero
        BY <3>1, Zenon DEF AtRest
      <4>2. CASE WriteSetpoint
        BY <4>1, <4>2 DEF WriteSetpoint, TypeOK
      <4>3. CASE OtherSetpoint
        BY <4>3, Zenon DEF OtherSetpoint
      <4>4. QED
        BY <2>1, <4>2, <4>3
    <3>3. QED
      BY <2>1, <3>1, <3>2, Zenon DEF WriteSetpoint, OtherSetpoint, control, AtRest
  <2>2. CASE gimbal_angle_tick
    <3>1. ~imu_alive /\ ~steered
      BY <2>2, Zenon DEF gimbal_angle_tick
    <3>2. /\ g_setpoint.angle = Zero /\ lock_angle = Zero /\ servo_deg = Zero
          /\ \A a \in Axes : angle_pid[a] = PidInit /\ rate_pid[a] = PidInit
      BY <3>1, Zenon DEF AtRest
    <3>3. /\ lock_angle' = Zero
          /\ g_rate_sp' = [a \in Axes |->
               PidOutput(ANGLE_GAINS[a], angle_pid[a],
                         Target(g_setpoint, Zero, Zero, a), Zero[a])]
          /\ angle_pid' = [a \in Axes |->
               PidNext(ANGLE_GAINS[a], angle_pid[a],
                       Target(g_setpoint, Zero, Zero, a), Zero[a])]
      BY <2>0, <2>2, <3>1, <3>2 DEF gimbal_angle_tick
    <3>4. ASSUME NEW a \in Axes PROVE g_rate_sp'[a] = 0 /\ angle_pid'[a] = PidInit
      <4>1. Zero[a] = 0 /\ Target(g_setpoint, Zero, Zero, a) = 0
        BY <3>2 DEF Zero, Target
      <4>2. QED
        BY <3>2, <3>3, <4>1, PidAtRest, GainTypes
    <3>5. g_rate_sp' = Zero
      BY <3>3, <3>4 DEF Zero
    <3>6. QED
      BY <2>2, <3>2, <3>3, <3>4, <3>5 DEF gimbal_angle_tick
  <2>3. CASE gimbal_rate_tick
    <3>1. ~imu_alive /\ ~steered
      BY <2>3, Zenon DEF gimbal_rate_tick
    <3>2. /\ g_setpoint.angle = Zero /\ lock_angle = Zero
          /\ g_rate_sp = Zero /\ servo_deg = Zero
          /\ \A a \in Axes : angle_pid[a] = PidInit /\ rate_pid[a] = PidInit
      BY <3>1, Zenon DEF AtRest
    <3>3. /\ servo_deg' = [a \in Axes |->
               Clamp(servo_deg[a] + PidOutput(RATE_GAINS[a], rate_pid[a], g_rate_sp[a], Zero[a]),
                     JOINT_MIN[a], JOINT_MAX[a])]
          /\ rate_pid' = [a \in Axes |->
               PidNext(RATE_GAINS[a], rate_pid[a], g_rate_sp[a], Zero[a])]
      BY <2>0, <2>3, <3>1 DEF gimbal_rate_tick
    <3>4. ASSUME NEW a \in Axes PROVE servo_deg'[a] = 0 /\ rate_pid'[a] = PidInit
      <4>1. Zero[a] = 0 /\ g_rate_sp[a] = 0 /\ servo_deg[a] = 0
        BY <3>2 DEF Zero
      <4>2. Clamp(0 + 0, JOINT_MIN[a], JOINT_MAX[a]) = 0
        BY GainTypes DEF Clamp
      <4>3. QED
        BY <3>2, <3>3, <4>1, <4>2, PidAtRest, GainTypes
    <3>5. servo_deg' = Zero
      BY <3>3, <3>4 DEF Zero
    <3>6. QED
      BY <2>3, <3>2, <3>4, <3>5 DEF gimbal_rate_tick
  <2>4. CASE UNCHANGED vars
    BY <2>4, Zenon DEF vars, control, history, AtRest
  <2>5. QED
    BY <2>1, <2>2, <2>3, <2>4 DEF Next
<1>3. AtRest => StillWithoutImu
  BY Zenon DEF AtRest, StillWithoutImu
<1>4. QED
  BY <1>1, <1>2, <1>3, TypeCorrect, PTL DEF Spec

-----------------------------------------------------------------------------
(* Old integrals *)

LEMMA ProductMonotone ==
  ASSUME NEW k \in Nat, NEW m \in Int, NEW n \in Int, m <= n
  PROVE  k * m <= k * n
  OBVIOUS

(***************************************************************************)
(* While a PID does not go the way of its error, its integral outweighs    *)
(* that error but for the swing of the measurement, and has lost, of what  *)
(* the limit allows it at most, all the error since it last did, unless it *)
(* is already on the error's own side.                                     *)
(***************************************************************************)
Drained(g, pid, h) ==
  /\ h.last > 0 =>
       /\ g.kp * h.last <= g.ki * (-pid.integrator) + g.kd * h.swing
       /\ -pid.integrator <= g.integrator_limit - h.total \/ -pid.integrator <= 0
  /\ h.last < 0 =>
       /\ g.kp * (-h.last) <= g.ki * pid.integrator + g.kd * h.swing
       /\ pid.integrator <= g.integrator_limit - h.total \/ pid.integrator <= 0

(* A positive error that leaves the output at zero or below                *)
LEMMA HeldDown ==
  ASSUME NEW g \in Gains, g.output_limit > 0,
         NEW pid \in PidStates(g), NEW sp \in Int, NEW m \in Int,
         PidOutput(g, pid, sp, m) <= 0
  PROVE  g.kp * (sp - m) <= g.ki * (-Integrated(g, pid, sp - m))
                              + g.kd * Abs(m - pid.prev_measurement)
<1> DEFINE i == Integrated(g, pid, sp - m)
           d == pid.prev_measurement - m
           s == Abs(m - pid.prev_measurement)
<1>1. /\ g.kp \in Nat /\ g.ki \in Nat /\ g.kd \in Nat
      /\ g.integrator_limit \in Nat /\ g.output_limit \in Nat
  BY DEF Gains
<1>2. pid.integrator \in Int /\ d \in Int /\ s \in Int /\ -s <= d
  BY <1>1 DEF PidStates, Abs
<1>3. i \in Int
  BY <1>1, <1>2 DEF Integrated, Clamp
<1>4. PidOutput(g, pid, sp, m)
        = Clamp(g.kp * (sp - m) + g.ki * i + g.kd * d, -g.output_limit, g.output_limit)
  BY DEF PidOutput
<1> HIDE DEF i, d, s
<1>5. g.kd * (-s) <= g.kd * d /\ g.kd * (-s) = -(g.kd * s) /\ g.ki * (-i) = -(g.ki * i)
  BY <1>1, <1>2, <1>3, ProductMonotone
<1>6. /\ g.kp * (sp - m) \in Int /\ g.ki * i \in Int
      /\ g.kd * d \in Int /\ g.kd * s \in Int
  BY <1>1, <1>2, <1>3, ProductIsInt
<1>7. g.kp * (sp - m) + g.ki * i + g.kd * d <= 0
  BY <1>1, <1>4, <1>6 DEF Clamp
<1>8. g.kp * (sp - m) <= g.ki * (-i) + g.kd * s
  BY <1>5, <1>6, <1>7
<1>9. QED
  BY <1>8 DEF i, s

(* A negative error that leaves it at zero or above                        *)
LEMMA HeldUp ==
  ASSUME NEW g \in Gains, g.output_limit > 0,
         NEW pid \in PidStates(g), NEW sp \in Int, NEW m \in Int,
         PidOutput(g, pid, sp, m) >= 0
  PROVE  g.kp * (-(sp - m)) <= g.ki * Integrated(g, pid, sp - m)
                                 + g.kd * Abs(m - pid.prev_measurement)
<1> DEFINE i == Integrated(g, pid, sp - m)
           d == pid.prev_measurement - m
           s == Abs(m - pid.prev_measurement)
<1>1. /\ g.kp \in Nat /\ g.ki \in Nat /\ g.kd \in Nat
      /\ g.integrator_limit \in Nat /\ g.output_limit \in Nat
  BY DEF Gains
<1>2. pid.integrator \in Int /\ d \in Int /\ s \in Int /\ d <= s
  BY <1>1 DEF PidStates, Abs
<1>3. i \in Int
  BY <1>1, <1>2 DEF Integrated, Clamp
<1>4. PidOutput(g, pid, sp, m)
        = Clamp(g.kp * (sp - m) + g.ki * i + g.kd * d, -g.output_limit, g.output_limit)
  BY DEF PidOutput
<1> HIDE DEF i, d, s
<1>5. g.kd * d <= g.kd * s /\ g.kp * (-(sp - m)) = -(g.kp * (sp - m))
  BY <1>1, <1>2, ProductMonotone
<1>6. /\ g.kp * (sp - m) \in Int /\ g.ki * i \in Int
      /\ g.kd * d \in Int /\ g.kd * s \in Int
  BY <1>1, <1>2, <1>3, ProductIsInt
<1>7. g.kp * (sp - m) + g.ki * i + g.kd * d >= 0
  BY <1>1, <1>4, <1>6 DEF Clamp
<1>8. g.kp * (-(sp - m)) <= g.ki * i + g.kd * s
  BY <1>5, <1>6, <1>7
<1>9. QED
  BY <1>8 DEF i, s

(* The integral takes the error, up to the limit on the error's side       *)
LEMMA IntegralTakes ==
  ASSUME NEW g \in Gains, NEW pid \in PidStates(g), NEW e \in Int
  PROVE  LET i == Integrated(g, pid, e)
         IN /\ i \in -g.integrator_limit .. g.integrator_limit
            /\ e > 0 => i >= pid.integrator + e \/ i = g.integrator_limit
            /\ e < 0 => i <= pid.integrator + e \/ i = -g.integrator_limit
<1>1. g.integrator_limit \in Nat
  BY DEF Gains
<1>2. pid.integrator \in -g.integrator_limit .. g.integrator_limit
  BY DEF PidStates
<1>3. QED
  BY <1>1, <1>2 DEF Integrated, Clamp

LEMMA SignOfProduct ==
  ASSUME NEW m \in Int, NEW n \in Int, m * n > 0
  PROVE  (m > 0 /\ n > 0) \/ (m < 0 /\ n < 0)
<1>1. CASE m >= 0
  <2>1. n <= 0 => m * n <= m * 0
    BY <1>1, ProductMonotone
  <2>2. m = 0 => m * n = 0
    OBVIOUS
  <2>3. QED
    BY <1>1, <2>1, <2>2
<1>2. CASE m < 0
  <2>1. n >= 0 => n * m <= n * 0
    BY <1>2, ProductMonotone
  <2>2. n * m = m * n /\ n * 0 = 0
    OBVIOUS
  <2>3. n = 0 => m * n = 0
    OBVIOUS
  <2>4. QED
    BY <1>2, <2>1, <2>2, <2>3
<1>3. QED
  BY <1>1, <1>2

(* A tick that does not go the way of the error                            *)
LEMMA StaysDrained ==
  ASSUME NEW g \in Gains, g.output_limit > 0, NEW pid \in PidStates(g),
         NEW sp \in Int, NEW m \in Int, NEW h \in Disobediences, Drained(g, pid, h),
         Against(sp - m, PidOutput(g, pid, sp, m))
  PROVE  Drained(g, PidNext(g, pid, sp, m),
                 Disobeyed(h, sp - m, m - pid.prev_measurement))
<1> DEFINE e == sp - m
           i == Integrated(g, pid, e)
           limit == g.integrator_limit
           s == Abs(m - pid.prev_measurement)
           new == Disobeyed(h, e, m - pid.prev_measurement)
<1>1. /\ e \in Int /\ limit \in Nat /\ pid.integrator \in -limit .. limit
      /\ h.last \in Int /\ h.total \in Nat /\ i \in -limit .. limit
  BY IntegralTakes DEF Gains, PidStates, Disobediences
<1>2. /\ new.last = e /\ new.swing = s
      /\ new.total = Abs(e) + IF h.last * e > 0 THEN h.total ELSE 0
      /\ PidNext(g, pid, sp, m).integrator = i
  BY DEF Disobeyed, PidNext
<1>3. CASE e > 0
  <2>1. g.kp * e <= g.ki * (-i) + g.kd * s
    BY <1>1, <1>3, HeldDown DEF Against
  <2>2. i >= pid.integrator + e \/ i = limit
    BY <1>1, <1>3, IntegralTakes
  <2>3. Abs(e) = e
    BY <1>1, <1>3 DEF Abs
  <2>4. h.last * e > 0 => h.last > 0
    BY <1>1, <1>3, SignOfProduct
  <2>5. h.last > 0 => -pid.integrator <= limit - h.total \/ -pid.integrator <= 0
    BY DEF Drained
  <2> HIDE DEF e, i, s, limit, new
  <2>6. -i <= limit - new.total \/ -i <= 0
    <3>1. CASE h.last * e > 0
      BY <1>1, <1>2, <1>3, <2>2, <2>3, <2>4, <2>5, <3>1
    <3>2. CASE ~(h.last * e > 0)
      BY <1>1, <1>2, <1>3, <2>2, <2>3, <3>2
    <3>3. QED
      BY <3>1, <3>2
  <2>7. QED
    BY <1>1, <1>2, <1>3, <2>1, <2>6 DEF Drained, limit, new, e
<1>4. CASE e < 0
  <2>1. g.kp * (-e) <= g.ki * i + g.kd * s
    BY <1>1, <1>4, HeldUp DEF Against
  <2>2. i <= pid.integrator + e \/ i = -limit
    BY <1>1, <1>4, IntegralTakes
  <2>3. Abs(e) = -e
    BY <1>1, <1>4 DEF Abs
  <2>4. h.last * e > 0 => h.last < 0
    BY <1>1, <1>4, SignOfProduct
  <2>5. h.last < 0 => pid.integrator <= limit - h.total \/ pid.integrator <= 0
    BY DEF Drained
  <2> HIDE DEF e, i, s, limit, new
  <2>6. i <= limit - new.total \/ i <= 0
    <3>1. CASE h.last * e > 0
      BY <1>1, <1>2, <1>4, <2>2, <2>3, <2>4, <2>5, <3>1
    <3>2. CASE ~(h.last * e > 0)
      BY <1>1, <1>2, <1>4, <2>2, <2>3, <3>2
    <3>3. QED
      BY <3>1, <3>2
  <2>7. QED
    BY <1>1, <1>2, <1>4, <2>1, <2>6 DEF Drained, limit, new, e
<1>5. QED
  BY <1>3, <1>4 DEF Against

LEMMA ObeyedIsDrained == ASSUME NEW g, NEW pid PROVE Drained(g, pid, Obeyed)
  BY DEF Drained, Obeyed

(* Whatever the integral still is, its limit and the total bound it        *)
LEMMA DrainedIsExplained ==
  ASSUME NEW g \in Gains, NEW pid \in PidStates(g), NEW h \in Disobediences,
         Drained(g, pid, h), h.last # 0 \/ h = Obeyed
  PROVE  Explained(g, h)
<1> DEFINE left == g.integrator_limit - h.total
           n == IF h.last > 0 THEN -pid.integrator ELSE pid.integrator
<1>1. /\ g.kp \in Nat /\ g.ki \in Nat /\ g.kd \in Nat /\ g.integrator_limit \in Nat
      /\ h.last \in Int /\ h.swing \in Nat /\ h.total \in Nat
  BY DEF Gains, Disobediences
<1>2. n \in Int /\ left \in Int
  BY <1>1 DEF PidStates
<1>3. CASE h.last # 0
  <2>1. g.kp * Abs(h.last) <= g.ki * n + g.kd * h.swing /\ (n <= left \/ n <= 0)
    BY <1>1, <1>3 DEF Drained, Abs
  <2> HIDE DEF n, left
  <2>2. /\ g.ki * n \in Int /\ g.ki * left \in Int /\ g.ki * 0 = 0
        /\ g.kd * h.swing \in Int
    BY <1>1, <1>2, ProductIsInt
  <2>3. Abs(h.last) \in Int /\ g.kp * Abs(h.last) \in Int
    BY <1>1, ProductIsInt DEF Abs
  <2>4. CASE n <= left
    <3>1. g.ki * n <= g.ki * left
      BY <1>1, <1>2, <2>4, ProductMonotone
    <3>2. g.kp * Abs(h.last) <= g.ki * left + g.kd * h.swing
      BY <2>1, <2>2, <2>3, <3>1
    <3>3. QED
      BY <3>2 DEF Explained, left
  <2>5. CASE n <= 0
    <3>1. g.ki * n <= 0
      BY <1>1, <1>2, <2>2, <2>5, ProductMonotone
    <3>2. QED
      BY <2>1, <2>2, <2>3, <3>1 DEF Explained
  <2>6. QED
    BY <2>1, <2>4, <2>5
<1>4. CASE h = Obeyed
  <2>1. Abs(h.last) = 0 /\ h.swing = 0
    BY <1>4 DEF Obeyed, Abs
  <2>2. g.kp * 0 = 0 /\ g.kd * 0 = 0
    BY <1>1
  <2>3. QED
    BY <2>1, <2>2 DEF Explained
<1>5. QED
  BY <1>3, <1>4

(* What is kept of both loops' histories                                   *)
Kept(g, pid, h) == Drained(g, pid, h) /\ (h.last # 0 \/ h = Obeyed)

LEMMA KeptByTick ==
  ASSUME NEW g \in Gains, g.output_limit > 0, NEW pid \in PidStates(g),
         NEW sp \in Int, NEW m \in Int, NEW h \in Disobediences, Kept(g, pid, h),
         Against(sp - m, PidOutput(g, pid, sp, m))
  PROVE  Kept(g, PidNext(g, pid, sp, m), Disobeyed(h, sp - m, m - pid.prev_measurement))
<1>1. sp - m # 0 /\ Disobeyed(h, sp - m, m - pid.prev_measurement).last = sp - m
  BY DEF Against, Disobeyed
<1>2. QED
  BY <1>1, StaysDrained DEF Kept

LEMMA KeptObeyed == ASSUME NEW g, NEW pid PROVE Kept(g, pid, Obeyed)
  BY ObeyedIsDrained DEF Kept

AngleKept == \A a \in Axes : Kept(ANGLE_GAINS[a], angle_pid[a], astray[a])
RateKept  == \A a \in Axes : Kept(RATE_GAINS[a], rate_pid[a], stuck[a])

LEMMA AngleTickKeeps == TypeOK /\ AngleKept /\ gimbal_angle_tick => AngleKept'
<1> SUFFICES ASSUME TypeOK, AngleKept, gimbal_angle_tick, NEW a \in Axes
             PROVE  Kept(ANGLE_GAINS[a], angle_pid'[a], astray'[a])
  BY DEF AngleKept
<1>0. PICK angle \in Measured(Angles) :
        /\ lock_angle' = IF g_setpoint.mode = "LOCK" /\ ~lock_captured THEN angle
                         ELSE lock_angle
        /\ g_rate_sp' = [b \in Axes |->
             PidOutput(ANGLE_GAINS[b], angle_pid[b],
                       Target(g_setpoint, angle, lock_angle', b), angle[b])]
        /\ angle_pid' = [b \in Axes |->
             PidNext(ANGLE_GAINS[b], angle_pid[b],
                     Target(g_setpoint, angle, lock_angle', b), angle[b])]
        /\ astray' = [b \in Axes |->
             LET error == Target(g_setpoint, angle, lock_angle', b) - angle[b]
             IN IF Against(error, g_rate_sp'[b])
                THEN Disobeyed(astray[b], error, angle[b] - angle_pid[b].prev_measurement)
                ELSE Obeyed]
  BY DEF gimbal_angle_tick
<1> DEFINE g == ANGLE_GAINS[a]
           sp == Target(g_setpoint, angle, lock_angle', a)
<1>1. angle \in [Axes -> Int]
  BY MeasuredInt
<1>2. lock_angle' \in [Axes -> Int]
  BY <1>0, <1>1 DEF TypeOK
<1>3. sp \in Int /\ angle[a] \in Int
  BY <1>1, <1>2, TargetType DEF TypeOK
<1>4. /\ g \in Gains /\ g.output_limit > 0 /\ angle_pid[a] \in PidStates(g)
      /\ astray[a] \in Disobediences /\ Kept(g, angle_pid[a], astray[a])
  BY GainTypes, GainAssumption DEF TypeOK, AngleKept
<1>5. /\ g_rate_sp'[a] = PidOutput(g, angle_pid[a], sp, angle[a])
      /\ angle_pid'[a] = PidNext(g, angle_pid[a], sp, angle[a])
      /\ astray'[a] = IF Against(sp - angle[a], g_rate_sp'[a])
                      THEN Disobeyed(astray[a], sp - angle[a],
                                     angle[a] - angle_pid[a].prev_measurement)
                      ELSE Obeyed
  BY <1>0
<1> HIDE DEF g, sp
<1>6. CASE Against(sp - angle[a], g_rate_sp'[a])
  <2>1. Kept(g, angle_pid'[a], astray'[a])
    BY <1>3, <1>4, <1>5, <1>6, KeptByTick
  <2>2. QED
    BY <2>1 DEF g
<1>7. CASE ~Against(sp - angle[a], g_rate_sp'[a])
  BY <1>5, <1>7, KeptObeyed
<1>8. QED
  BY <1>6, <1>7

(* A servo that a rate tick leaves at its stop was not sent away from it   *)
LEMMA RateTickKeeps == TypeOK /\ RateKept /\ gimbal_rate_tick => RateKept'
<1> SUFFICES ASSUME TypeOK, RateKept, gimbal_rate_tick, NEW a \in Axes
             PROVE  Kept(RATE_GAINS[a], rate_pid'[a], stuck'[a])
  BY DEF RateKept
<1>1. PICK rate \in Measured(Rates) :
        /\ servo_deg' = [b \in Axes |->
             Clamp(servo_deg[b] + PidOutput(RATE_GAINS[b], rate_pid[b], g_rate_sp[b], rate[b]),
                   JOINT_MIN[b], JOINT_MAX[b])]
        /\ rate_pid' = [b \in Axes |->
             PidNext(RATE_GAINS[b], rate_pid[b], g_rate_sp[b], rate[b])]
        /\ stuck' = [b \in Axes |->
             IF Released(b, rate[b]) /\ servo_deg'[b] = servo_deg[b]
             THEN Disobeyed(stuck[b], g_rate_sp[b] - rate[b],
                            rate[b] - rate_pid[b].prev_measurement)
             ELSE Obeyed]
  BY DEF gimbal_rate_tick
<1> DEFINE g == RATE_GAINS[a]
           pid == rate_pid[a]
           sp == g_rate_sp[a]
           out == PidOutput(g, pid, sp, rate[a])
<1>2. /\ g \in Gains /\ g.output_limit > 0 /\ pid \in PidStates(g)
      /\ stuck[a] \in Disobediences /\ Kept(g, pid, stuck[a])
      /\ ANGLE_GAINS[a].output_limit \in Nat
      /\ JOINT_MIN[a] \in Int /\ JOINT_MAX[a] \in Int /\ JOINT_MIN[a] < JOINT_MAX[a]
  BY GainTypes, GainAssumption DEF TypeOK, RateKept, Gains
<1>3. rate[a] \in Int /\ sp \in Int /\ servo_deg[a] \in JOINT_MIN[a] .. JOINT_MAX[a]
  BY <1>2, MeasuredInt DEF TypeOK
<1>4. out \in Int
  BY <1>2, <1>3, PidBounds DEF Gains
<1>5. /\ servo_deg'[a] = Clamp(servo_deg[a] + out, JOINT_MIN[a], JOINT_MAX[a])
      /\ rate_pid'[a] = PidNext(g, pid, sp, rate[a])
      /\ stuck'[a] = IF Released(a, rate[a]) /\ servo_deg'[a] = servo_deg[a]
                     THEN Disobeyed(stuck[a], sp - rate[a], rate[a] - pid.prev_measurement)
                     ELSE Obeyed
  BY <1>1
<1> HIDE DEF g, pid, out
<1>6. CASE Released(a, rate[a]) /\ servo_deg'[a] = servo_deg[a]
  <2>1. Against(sp - rate[a], out)
    BY <1>2, <1>3, <1>4, <1>5, <1>6 DEF Against, Released, Clamp
  <2>2. Kept(g, rate_pid'[a], stuck'[a])
    BY <1>2, <1>3, <1>5, <1>6, <2>1, KeptByTick DEF out
  <2>3. QED
    BY <2>2 DEF g
<1>7. CASE ~(Released(a, rate[a]) /\ servo_deg'[a] = servo_deg[a])
  BY <1>5, <1>7, KeptObeyed
<1>8. QED
  BY <1>6, <1>7

LEMMA KeptFromInit == Init => AngleKept /\ RateKept
  BY KeptObeyed DEF Init, AngleKept, RateKept

LEMMA KeptByStep == TypeOK /\ AngleKept /\ RateKept /\ [Next]_vars => AngleKept' /\ RateKept'
<1> SUFFICES ASSUME TypeOK, AngleKept, RateKept, [Next]_vars PROVE AngleKept' /\ RateKept'
  OBVIOUS
<1>1. CASE gimbal_angle_tick
  <2>1. UNCHANGED <<rate_pid, stuck>>
    BY <1>1 DEF gimbal_angle_tick
  <2>2. QED
    BY <1>1, <2>1, AngleTickKeeps DEF RateKept
<1>2. CASE gimbal_rate_tick
  <2>1. UNCHANGED <<angle_pid, astray>>
    BY <1>2 DEF gimbal_rate_tick
  <2>2. QED
    BY <1>2, <2>1, RateTickKeeps DEF AngleKept
<1>3. CASE WriteSetpoint \/ OtherSetpoint \/ UNCHANGED vars
  <2>1. UNCHANGED <<angle_pid, rate_pid, astray, stuck>>
    BY <1>3 DEF WriteSetpoint, OtherSetpoint, vars, control, history
  <2>2. QED
    BY <2>1 DEF AngleKept, RateKept
<1>4. QED
  BY <1>1, <1>2, <1>3 DEF Next

(***************************************************************************)
(* In any order of modes, setpoints and ticks, an axis is steered away     *)
(* from its target only for as much error as the integral's limit holds,   *)
(* but for the movement of the platform in the tick.                       *)
(***************************************************************************)
THEOREM OldIntegralGoes == Spec => []OldModeWearsOff
<1>1. TypeOK /\ AngleKept => OldModeWearsOff
  BY DrainedIsExplained, GainTypes DEF TypeOK, AngleKept, Kept, OldModeWearsOff
<1>2. QED
  BY <1>1, KeptFromInit, KeptByStep, InitType, StepType, PTL DEF Spec

(***************************************************************************)
(* However long a servo was driven against its stop, it is held there, by  *)
(* rate errors of whatever size that point away from it, only until they   *)
(* add up to what the integral's limit holds, but for the movement of the  *)
(* rate in the tick.                                                       *)
(***************************************************************************)
THEOREM NoWindup == Spec => []NoWindupAtStop
<1>1. TypeOK /\ RateKept => NoWindupAtStop
  BY DrainedIsExplained, GainTypes DEF TypeOK, RateKept, Kept, NoWindupAtStop
<1>2. QED
  BY <1>1, KeptFromInit, KeptByStep, InitType, StepType, PTL DEF Spec

-----------------------------------------------------------------------------
(* The packets *)

LEMMA DivMonotone ==
  ASSUME NEW m \in Int, NEW n \in Int, m <= n, NEW d \in Nat \ {0}
  PROVE  m \div d <= n \div d
  OBVIOUS

(* Sum and checksum make a byte of ones *)
LEMMA ChecksumFits ==
  ASSUME NEW sum \in Int
  PROVE  (sum + ((-sum - 1) % 256)) % 256 = 255
  OBVIOUS

(* What the servo computes, from the bytes of a packet *)
LEMMA BytesAccepted ==
  ASSUME NEW p, NEW id \in Int, NEW l \in Int, NEW h \in Int,
         p[3] = id, p[4] = 5, p[5] = 3, p[6] = 42, p[7] = l, p[8] = h,
         p[9] = (-(id + 5 + 3) - 1 - 42 - l - h) % 256
  PROVE  Accepted(p) /\ GoalOf(p) = l + 256 * h
<1>1. -(id + 5 + 3) - 1 - 42 - l - h = -(id + 5 + 3 + 42 + l + h) - 1
  OBVIOUS
<1>2. (id + 5 + 3 + 42 + l + h + ((-(id + 5 + 3 + 42 + l + h) - 1) % 256)) % 256 = 255
  BY ChecksumFits
<1>3. QED
  BY <1>1, <1>2 DEF Accepted, GoalOf

LEMMA PacketAccepted ==
  ASSUME NEW id \in Nat, NEW pos \in Nat
  PROVE  /\ Accepted(feetech_set_goal_position(id, pos))
         /\ GoalOf(feetech_set_goal_position(id, pos)) = pos
<1> DEFINE l == pos % 256
           h == pos \div 256
           params == <<42, l, h>>
           p == <<255, 255, id, 5, 3, params[1], params[2], params[3],
                  Checksum(id, 5, 3, params)>>
<1>1. l \in Int /\ h \in Int /\ l + 256 * h = pos
  OBVIOUS
<1>2. Len(params) + 2 = 5
  OBVIOUS
<1>3. feetech_set_goal_position(id, pos) = p
  BY <1>2 DEF feetech_set_goal_position, INSTR_WRITE_DATA, REG_GOAL_POSITION_L
<1> HIDE DEF l, h
<1>4. params[1] = 42 /\ params[2] = l /\ params[3] = h
  OBVIOUS
<1>5. Checksum(id, 5, 3, params) = (-(id + 5 + 3) - 1 - 42 - l - h) % 256
  BY <1>4 DEF Checksum
<1>6. /\ p[3] = id /\ p[4] = 5 /\ p[5] = 3 /\ p[6] = 42 /\ p[7] = l /\ p[8] = h
      /\ p[9] = (-(id + 5 + 3) - 1 - 42 - l - h) % 256
  BY <1>4, <1>5
<1> HIDE DEF p, params
<1>7. Accepted(p) /\ GoalOf(p) = l + 256 * h
  BY <1>1, <1>6, BytesAccepted
<1>8. QED
  BY <1>1, <1>3, <1>7

(* A larger angle is never a smaller position, and a position is a count *)
LEMMA PositionMonotone ==
  ASSUME NEW lo \in Int, NEW hi \in Int, NEW m \in lo .. hi, NEW n \in lo .. hi, m <= n
  PROVE  /\ feetech_angle_to_pos(m, lo, hi) \in Nat
         /\ feetech_angle_to_pos(m, lo, hi) <= feetech_angle_to_pos(n, lo, hi)
<1> DEFINE raw(x) == (POS_CENTER * FULL_TURN + x * POS_MAX) \div FULL_TURN
<1>1. /\ feetech_angle_to_pos(m, lo, hi) = Clamp(raw(m), 0, POS_MAX)
      /\ feetech_angle_to_pos(n, lo, hi) = Clamp(raw(n), 0, POS_MAX)
  BY ClampInside DEF feetech_angle_to_pos
<1>2. POS_MAX * m <= POS_MAX * n /\ POS_MAX * m = m * POS_MAX /\ POS_MAX * n = n * POS_MAX
  BY ServoAssumption, ProductMonotone
<1>3. /\ POS_CENTER * FULL_TURN + m * POS_MAX \in Int
      /\ POS_CENTER * FULL_TURN + n * POS_MAX \in Int
      /\ POS_CENTER * FULL_TURN + m * POS_MAX <= POS_CENTER * FULL_TURN + n * POS_MAX
  BY <1>2, ServoAssumption, ProductIsInt
<1>4. raw(m) \in Int /\ raw(n) \in Int /\ raw(m) <= raw(n)
  BY <1>3, ServoAssumption, DivMonotone
<1> HIDE DEF raw
<1>5. QED
  BY <1>1, <1>4, ServoAssumption DEF Clamp

(***************************************************************************)
(* Each servo accepts every packet and is told a position inside its       *)
(* joint's range: the conversion keeps the order of the angles, two bytes  *)
(* are enough, and the checksum is the one the servo computes.             *)
(***************************************************************************)
THEOREM ToldInRange == Spec => []ServoToldInRange
<1>1. TypeOK => ServoToldInRange
  <2> SUFFICES ASSUME TypeOK, NEW a \in Axes
               PROVE  /\ Accepted(Packet(a))
                      /\ GoalOf(Packet(a)) \in
                           feetech_angle_to_pos(JOINT_MIN[a], JOINT_MIN[a], JOINT_MAX[a]) ..
                           feetech_angle_to_pos(JOINT_MAX[a], JOINT_MIN[a], JOINT_MAX[a])
    BY DEF ServoToldInRange
  <2> DEFINE pos(deg) == feetech_angle_to_pos(deg, JOINT_MIN[a], JOINT_MAX[a])
  <2>1. /\ JOINT_MIN[a] \in Int /\ JOINT_MAX[a] \in Int /\ JOINT_MIN[a] < JOINT_MAX[a]
        /\ servo_deg[a] \in JOINT_MIN[a] .. JOINT_MAX[a] /\ SERVO_ID[a] \in Nat
    BY GainTypes, ServoAssumption DEF TypeOK
  <2>2. /\ pos(JOINT_MIN[a]) \in Nat /\ pos(servo_deg[a]) \in Nat /\ pos(JOINT_MAX[a]) \in Nat
        /\ pos(JOINT_MIN[a]) <= pos(servo_deg[a]) /\ pos(servo_deg[a]) <= pos(JOINT_MAX[a])
    <3>1. /\ JOINT_MIN[a] \in JOINT_MIN[a] .. JOINT_MAX[a] /\ JOINT_MIN[a] <= servo_deg[a]
          /\ JOINT_MAX[a] \in JOINT_MIN[a] .. JOINT_MAX[a] /\ servo_deg[a] <= JOINT_MAX[a]
          /\ JOINT_MAX[a] <= JOINT_MAX[a]
      BY <2>1
    <3>2. pos(JOINT_MIN[a]) \in Nat /\ pos(JOINT_MIN[a]) <= pos(servo_deg[a])
      BY <2>1, <3>1, PositionMonotone
    <3>3. pos(servo_deg[a]) \in Nat /\ pos(servo_deg[a]) <= pos(JOINT_MAX[a])
      BY <2>1, <3>1, PositionMonotone
    <3>4. pos(JOINT_MAX[a]) \in Nat
      BY <2>1, <3>1, PositionMonotone
    <3>5. QED
      BY <3>2, <3>3, <3>4
  <2>3. Accepted(Packet(a)) /\ GoalOf(Packet(a)) = pos(servo_deg[a])
    BY <2>1, <2>2, PacketAccepted DEF Packet
  <2> HIDE DEF pos
  <2>4. GoalOf(Packet(a)) \in pos(JOINT_MIN[a]) .. pos(JOINT_MAX[a])
    BY <2>2, <2>3
  <2>5. QED
    BY <2>3, <2>4 DEF pos
<1>2. QED
  BY <1>1, TypeCorrect, PTL DEF Spec
=============================================================================
