-------------------------- MODULE LedManagerProofs --------------------------
(***************************************************************************)
(* Theorems about LedManager, for every value of its constants: any ramp   *)
(* length, strobe and Morse timing, PWM period, set of modes, brightnesses *)
(* and temperatures that its assumptions allow.                            *)
(***************************************************************************)
EXTENDS LedManager, TLAPS

-----------------------------------------------------------------------------
(* Arithmetic *)

(* Rounding division by a positive number stays in Nat and rounds down.    *)
LEMMA DivBounds ==
  ASSUME NEW a \in Nat, NEW n \in Nat \ {0}
  PROVE  /\ a \div n \in Nat
         /\ n * (a \div n) <= a
         /\ a < n * (a \div n) + n
  BY SMT

LEMMA DivZero == ASSUME NEW n \in Nat \ {0} PROVE 0 \div n = 0
  BY SMT

(* Duty of a natural brightness is natural, and no brightness is no duty.  *)
LEMMA DutyNat == ASSUME NEW b \in Nat PROVE Duty(b) \in Nat
  <1>1. LED_PWM_PERIOD_US * b \in Nat
    BY PwmAssumption
  <1> QED
    BY <1>1, PwmAssumption, DivBounds DEF Duty

LEMMA DutyZero == Duty(0) = 0
  <1>1. LED_PWM_PERIOD_US * 0 = 0
    BY PwmAssumption
  <1> QED
    BY <1>1, PwmAssumption, DivZero DEF Duty

(* SwitchOff always succeeds: set_pwm(0) is never refused.                 *)
LEMMA SwitchOffIsDark == ASSUME SwitchOff PROVE Dark'
  <1>1. pwm' = 0
    BY DutyZero, PwmAssumption DEF SwitchOff, set_pwm, DutyAfter
  <1>2. ~aux'.red /\ ~aux'.blue
    BY DEF SwitchOff, aux_gpio
  <1> QED
    BY <1>1, <1>2 DEF Dark, Lit

-----------------------------------------------------------------------------
(* Disarming *)

(***************************************************************************)
(* A disarmed tick reaches no case of the switch but IDLE.                 *)
(***************************************************************************)
LEMMA DisarmedCase ==
  ASSUME NEW s, NEW thermal, AtCase(s, thermal, FALSE)
  PROVE  s = LED_FSM_IDLE /\ fsm_state = LED_FSM_IDLE
  BY DEF AtCase, ForcedIdle, SwitchState, EntersThrottle

LEMMA DisarmedCases ==
  ASSUME NEW thermal
  PROVE  /\ ~AtCase(LED_FSM_SOFT_START, thermal, FALSE)
         /\ ~AtCase(LED_FSM_NORMAL, thermal, FALSE)
         /\ ~AtCase(LED_FSM_STROBE_WHITE, thermal, FALSE)
         /\ ~AtCase(LED_FSM_STROBE_POLICE, thermal, FALSE)
         /\ ~AtCase(LED_FSM_STROBE_SOS, thermal, FALSE)
         /\ ~AtCase(LED_FSM_THERMAL_THROTTLE, thermal, FALSE)
  BY SMT DEF AtCase, ForcedIdle, SwitchState, EntersThrottle, LED_FSM_IDLE,
         LED_FSM_SOFT_START, LED_FSM_NORMAL, LED_FSM_STROBE_WHITE,
         LED_FSM_STROBE_POLICE, LED_FSM_STROBE_SOS, LED_FSM_THERMAL_THROTTLE

(* Nor does it reach the missing case: a state the enum does not name.     *)
LEMMA DisarmedUnknown ==
  ASSUME NEW cmd, NEW thermal PROVE ~UnknownTick(cmd, thermal, FALSE)
  BY SMT DEF UnknownTick, ForcedIdle, SwitchState, EntersThrottle, LED_FSM_IDLE,
         LED_FSM_EMERGENCY_OFF

(* One disarmed tick is enough, from any state whatever.                   *)
LEMMA DisarmedTick ==
  ASSUME NEW cmd, NEW thermal, Tick(cmd, thermal, FALSE)
  PROVE  Dark' /\ fsm_state' \in {LED_FSM_IDLE, LED_FSM_EMERGENCY_OFF}
  <1>1. CASE StayOff
    BY <1>1, SwitchOffIsDark DEF StayOff
  <1>2. CASE EmergencyOff(thermal)
    BY <1>2, SwitchOffIsDark DEF EmergencyOff
  <1>3. CASE ForceIdle(cmd, thermal, FALSE)
    BY <1>3, SwitchOffIsDark DEF ForceIdle
  <1>4. CASE IdleTick(cmd, thermal, FALSE)
    <2>1. fsm_state' = LED_FSM_IDLE
      BY <1>4, DisarmedCase DEF IdleTick, Starts
    <2> QED
      BY <1>4, <2>1, SwitchOffIsDark DEF IdleTick
  <1>5. CASE SoftStartTick(cmd, thermal, FALSE)
    BY <1>5, DisarmedCases DEF SoftStartTick
  <1>6. CASE NormalTick(cmd, thermal, FALSE)
    BY <1>6, DisarmedCases DEF NormalTick
  <1>7. CASE StrobeWhiteTick(cmd, thermal, FALSE)
    BY <1>7, DisarmedCases DEF StrobeWhiteTick
  <1>8. CASE StrobePoliceTick(cmd, thermal, FALSE)
    BY <1>8, DisarmedCases DEF StrobePoliceTick
  <1>9. CASE StrobeSosTick(cmd, thermal, FALSE)
    BY <1>9, DisarmedCases DEF StrobeSosTick
  <1>10. CASE ThrottleTick(cmd, thermal, FALSE)
    BY <1>10, DisarmedCases DEF ThrottleTick
  <1>11. CASE UnknownTick(cmd, thermal, FALSE)
    BY <1>11, DisarmedUnknown
  <1> QED
    BY <1>1, <1>2, <1>3, <1>4, <1>5, <1>6, <1>7, <1>8, <1>9, <1>10, <1>11
    DEF Tick, led_manager_tick

(***************************************************************************)
(* Whatever modes, brightnesses and temperatures arrive, the LEDs are dark *)
(* after every tick that saw the autopilot disarmed.                       *)
(***************************************************************************)
THEOREM DisarmIsDark == Spec => []DarkWhenDisarmed
  <1>1. Init => DarkWhenDisarmed
    BY SMT DEF Init, DarkWhenDisarmed, Dark, Lit
  <1>2. DarkWhenDisarmed /\ [Next]_vars => DarkWhenDisarmed'
    <2> SUFFICES ASSUME DarkWhenDisarmed, [Next]_vars
                 PROVE  DarkWhenDisarmed'
      OBVIOUS
    <2>1. CASE Next
      <3> PICK cmd \in Commands \union {NoCmd}, thermal \in Thermals,
               fc_armed \in BOOLEAN : Tick(cmd, thermal, fc_armed)
        BY <2>1 DEF Next
      <3>1. args'.fc_armed = fc_armed
        BY DEF Tick
      <3>2. CASE fc_armed = FALSE
        BY <3>2, DisarmedTick DEF DarkWhenDisarmed
      <3>3. CASE fc_armed = TRUE
        BY <3>1, <3>3 DEF DarkWhenDisarmed
      <3> QED
        BY <3>2, <3>3
    <2>2. CASE UNCHANGED vars
      BY <2>2 DEF vars, DarkWhenDisarmed, Dark, Lit
    <2> QED
      BY <2>1, <2>2
  <1> QED
    BY <1>1, <1>2, PTL DEF Spec

-----------------------------------------------------------------------------
(* Heat *)

(***************************************************************************)
(* Whatever the mode of a command, emergency off is final and dark, and    *)
(* the first tick that sees the emergency temperature enters it.           *)
(***************************************************************************)
THEOREM EmergencyIsFinal == Spec => EmergencyHolds
  <1>1. ASSUME Next PROVE EmergencyStep
    <2> SUFFICES ASSUME fsm_state = LED_FSM_EMERGENCY_OFF
                          \/ args'.thermal.emergency_shutdown
                 PROVE  fsm_state' = LED_FSM_EMERGENCY_OFF /\ Dark'
      BY DEF EmergencyStep
    <2> PICK cmd \in Commands \union {NoCmd}, thermal \in Thermals,
             fc_armed \in BOOLEAN : Tick(cmd, thermal, fc_armed)
      BY <1>1 DEF Next
    <2>1. ~Operating(thermal)
      BY DEF Tick, Operating
    <2>2. StayOff \/ EmergencyOff(thermal)
      BY <2>1 DEF Tick, led_manager_tick, ForceIdle, IdleTick, SoftStartTick,
         NormalTick, StrobeWhiteTick, StrobePoliceTick, StrobeSosTick,
         ThrottleTick, UnknownTick, AtCase
    <2> QED
      BY <2>2, SwitchOffIsDark DEF StayOff, EmergencyOff
  <1>2. [Next]_vars => [EmergencyStep]_vars
    BY <1>1
  <1> QED
    BY <1>2, PTL DEF Spec, EmergencyHolds

-----------------------------------------------------------------------------
(* Types *)

LEMMA ModBounds == ASSUME NEW a \in Nat, NEW n \in Nat \ {0} PROVE a % n \in 0 .. n - 1
  BY SMT

(* set_pwm keeps the duty within the period, refused or not.               *)
LEMMA SetPwmType ==
  ASSUME NEW b \in Nat, pwm \in 0 .. LED_PWM_PERIOD_US, set_pwm(b)
  PROVE  pwm' \in 0 .. LED_PWM_PERIOD_US
  <1>1. Duty(b) \in Nat
    BY DutyNat
  <1> QED
    BY <1>1, PwmAssumption DEF set_pwm, DutyAfter

(* The throttle factor is a percentage of at least 20, at most 100 if hot. *)
LEMMA FactorBounds ==
  ASSUME NEW t \in Int
  PROVE  /\ ThrottleFactor(t) \in Nat
         /\ ThrottleFactor(t) >= 20
         /\ t >= THROTTLE_THRESHOLD_C => ThrottleFactor(t) <= 100
  BY SMT DEF ThrottleFactor, THROTTLE_THRESHOLD_C

LEMMA CommandType ==
  ASSUME NEW c \in Commands \union {ZeroCmd}
  PROVE  /\ c.mode \in Nat
         /\ c.brightness_pct \in Nat
         /\ c.mode \in Modes \/ c.mode = LED_MODE_IDLE
         /\ c.brightness_pct \in Brightness \/ c.brightness_pct = 0
  <1>1. CASE c \in Commands
    <2>1. c.mode \in Modes /\ c.brightness_pct \in Brightness
      BY <1>1 DEF Commands
    <2>2. c.mode \in 0 .. U8 - 2 /\ c.brightness_pct \in 0 .. U8 - 1
      BY <2>1, ModesAssumption, BrightnessAssumption
    <2> QED
      BY <2>1, <2>2
  <1>2. CASE c = ZeroCmd
    BY <1>2 DEF ZeroCmd, LED_MODE_IDLE
  <1> QED
    BY <1>1, <1>2

LEMMA AppliedType ==
  ASSUME NEW cmd \in Commands \union {NoCmd}, last_cmd \in Commands \union {ZeroCmd}
  PROVE  Applied(cmd) \in Commands \union {ZeroCmd}
  BY DEF Applied

LEMMA ThermalType ==
  ASSUME NEW thermal \in Thermals \union {ColdThermal}
  PROVE  /\ thermal.max_c \in Int
         /\ thermal.throttle_active \in BOOLEAN
         /\ thermal.emergency_shutdown \in BOOLEAN
         /\ thermal.throttle_active => thermal.max_c >= THROTTLE_THRESHOLD_C
  <1>1. CASE thermal \in Thermals
    <2> PICK t \in Temps : thermal = ThermalState(t)
      BY <1>1 DEF Thermals
    <2>1. /\ thermal.max_c = t
          /\ thermal.throttle_active = (t >= THROTTLE_THRESHOLD_C)
          /\ thermal.emergency_shutdown = (t >= SHUTDOWN_THRESHOLD_C)
      BY Zenon DEF ThermalState
    <2>2. t \in Int
      BY TempsAssumption
    <2>3. thermal.throttle_active \in BOOLEAN /\ thermal.emergency_shutdown \in BOOLEAN
      <3>1. /\ (t >= THROTTLE_THRESHOLD_C) \in BOOLEAN
            /\ (t >= SHUTDOWN_THRESHOLD_C) \in BOOLEAN
        BY SMT
      <3> QED
        BY <2>1, <3>1, Zenon
    <2> QED
      BY <2>1, <2>2, <2>3
  <1>2. CASE thermal = ColdThermal
    BY <1>2 DEF ColdThermal
  <1> QED
    BY <1>1, <1>2

LEMMA ThrottledNat ==
  ASSUME NEW c \in Commands \union {ZeroCmd}, NEW thermal \in Thermals
  PROVE  throttled_brightness(c, thermal) \in Nat
  <1>1. c.brightness_pct \in Nat /\ ThrottleFactor(thermal.max_c) \in Nat
    BY CommandType, ThermalType, FactorBounds
  <1>2. c.brightness_pct * ThrottleFactor(thermal.max_c) \in Nat
    BY <1>1
  <1> QED
    BY <1>2, DivBounds DEF throttled_brightness

LEMMA RampNat ==
  ASSUME NEW c \in Commands \union {ZeroCmd}, NEW n \in Nat
  PROVE  RampBrightness(c, n) \in Nat
  <1>1. c.brightness_pct * n \in Nat
    BY CommandType
  <1>2. (c.brightness_pct * n) \div SOFT_START_STEPS \in Nat
    BY <1>1, DivBounds, TickAssumption
  <1>3. RampBrightness(c, n) \in 0 .. U8 - 1
    BY <1>2, ModBounds, WidthAssumption DEF RampBrightness
  <1> QED
    BY <1>3, WidthAssumption

(* TypeOK but for the two outputs and the arguments.                       *)
StateType ==
  /\ fsm_state \in Nat
  /\ last_cmd \in Commands \union {ZeroCmd}
  /\ tick_count \in 0 .. U32 - 1
  /\ sos_idx \in 0 .. Len(SosPattern)
  /\ soft_start_step \in 0 .. U8 - 1

LEMMA SwitchOffType ==
  ASSUME pwm \in 0 .. LED_PWM_PERIOD_US, SwitchOff
  PROVE  /\ pwm' \in 0 .. LED_PWM_PERIOD_US
         /\ aux' \in [red : BOOLEAN, blue : BOOLEAN]
  BY SetPwmType DEF SwitchOff, aux_gpio

LEMMA ZeroTick == 0 \in 0 .. U32 - 1 /\ 0 \in 0 .. U8 - 1
  BY WidthAssumption

(* The SOS strobe's counters stay inside the word and inside the element.  *)
LEMMA SosAdvanceType ==
  ASSUME tick_count \in 0 .. U32 - 1, sos_idx \in 0 .. Len(SosPattern), SosAdvance
  PROVE  tick_count' \in 0 .. U32 - 1 /\ sos_idx' \in 0 .. Len(SosPattern)
  <1> DEFINE e == SosElement
  <1>1. Len(SosPattern) \in Nat /\ Len(SosPattern) > 0
    BY TickAssumption
  <1>2. e \in 0 .. Len(SosPattern) - 1
    BY <1>1 DEF SosElement
  <1>3. /\ SosPattern[e + 1] < U32
        /\ SosPattern[e + 1] \in Nat
    <2>1. e + 1 \in 1 .. Len(SosPattern)
      BY <1>1, <1>2
    <2> QED
      BY <2>1, TickAssumption, WidthAssumption
  <1>4. CASE sos_idx' = e + 1 /\ tick_count' = 0
    BY <1>1, <1>2, <1>4, ZeroTick
  <1>5. CASE /\ tick_count + 1 < SosPattern[e + 1]
             /\ sos_idx' = e
             /\ tick_count' = tick_count + 1
    BY <1>1, <1>2, <1>3, <1>5, WidthAssumption
  <1> QED
    BY <1>4, <1>5 DEF SosAdvance

LEMMA TickType ==
  ASSUME TypeOK, NEW cmd \in Commands \union {NoCmd}, NEW thermal \in Thermals,
         NEW fc_armed \in BOOLEAN, Tick(cmd, thermal, fc_armed)
  PROVE  TypeOK'
  <1> DEFINE Out == /\ pwm' \in 0 .. LED_PWM_PERIOD_US
                    /\ aux' \in [red : BOOLEAN, blue : BOOLEAN]
             c == Applied(cmd)
  <1>a. /\ StateType
        /\ pwm \in 0 .. LED_PWM_PERIOD_US
        /\ aux \in [red : BOOLEAN, blue : BOOLEAN]
    BY DEF TypeOK, StateType
  <1>b. c \in Commands \union {ZeroCmd}
    BY <1>a, AppliedType DEF StateType
  <1>c. SwitchTicks(thermal) \in 0 .. U32 - 1
    BY <1>a, ZeroTick DEF SwitchTicks, StateType
  <1>d. c.mode \in Nat /\ c.brightness_pct \in Nat
    BY <1>b, CommandType
  <1>e. (tick_count + 1) % U32 \in 0 .. U32 - 1
    <2>1. tick_count + 1 \in Nat
      BY <1>a, WidthAssumption DEF StateType
    <2> QED
      BY <2>1, ModBounds, WidthAssumption
  <1>f. args' \in [thermal : Thermals \union {ColdThermal}, fc_armed : BOOLEAN]
    BY DEF Tick
  <1> SUFFICES StateType' /\ Out
    BY <1>f DEF TypeOK, StateType
  <1>1. CASE StayOff
    BY <1>1, <1>a, SwitchOffType DEF StayOff, StateType
  <1>2. CASE EmergencyOff(thermal)
    BY <1>2, <1>a, SwitchOffType DEF EmergencyOff, StateType, LED_FSM_EMERGENCY_OFF
  <1>3. CASE ForceIdle(cmd, thermal, fc_armed)
    BY <1>3, <1>a, <1>b, <1>c, SwitchOffType DEF ForceIdle, StateType, LED_FSM_IDLE
  <1>4. CASE IdleTick(cmd, thermal, fc_armed)
    BY <1>4, <1>a, <1>b, SwitchOffType, ZeroTick
    DEF IdleTick, StartRamp, StateType, LED_FSM_SOFT_START
  <1>5. CASE SoftStartTick(cmd, thermal, fc_armed)
    <2>1. soft_start_step' \in 0 .. U8 - 1
      BY <1>5, <1>a, ModBounds, WidthAssumption DEF SoftStartTick, StateType
    <2>2. last_cmd' = c /\ soft_start_step' \in Nat
      BY <1>5, <2>1, WidthAssumption DEF SoftStartTick
    <2>3. RampBrightness(last_cmd', soft_start_step') \in Nat
      BY <2>2, <1>b, RampNat
    <2>4. Out
      BY <1>5, <1>a, <2>3, SetPwmType DEF SoftStartTick
    <2>5. fsm_state' \in Nat /\ tick_count' \in 0 .. U32 - 1
      BY <1>5, <1>a, <1>d, <2>2, ZeroTick
      DEF SoftStartTick, StateType, StateOfMode, LED_FSM_NORMAL
    <2> QED
      BY <1>5, <1>a, <1>b, <2>1, <2>2, <2>4, <2>5 DEF SoftStartTick, StateType
  <1>6. CASE NormalTick(cmd, thermal, fc_armed)
    <2>1. last_cmd' = c
      BY <1>6 DEF NormalTick
    <2>2. Out
      BY <1>6, <1>a, <1>d, <2>1, SetPwmType DEF NormalTick, aux_gpio
    <2>3. fsm_state' \in Nat /\ tick_count' \in 0 .. U32 - 1
      BY <1>6, <1>a, <1>d, <2>1, ZeroTick
      DEF NormalTick, StateType, StateOfMode, LED_FSM_NORMAL
    <2> QED
      BY <1>6, <1>a, <1>b, <2>1, <2>2, <2>3 DEF NormalTick, StateType
  <1>7. CASE StrobeWhiteTick(cmd, thermal, fc_armed)
    <2>1. last_cmd' = c
      BY <1>7 DEF StrobeWhiteTick
    <2>2. Out
      BY <1>7, <1>a, <1>d, <2>1, SetPwmType DEF StrobeWhiteTick
    <2> QED
      BY <1>7, <1>a, <1>b, <1>e, <2>1, <2>2 DEF StrobeWhiteTick, StateType
  <1>8. CASE StrobePoliceTick(cmd, thermal, fc_armed)
    <2>1. Out
      BY <1>8, <1>a, SetPwmType DEF StrobePoliceTick, aux_gpio
    <2> QED
      BY <1>8, <1>a, <1>b, <1>e, <2>1 DEF StrobePoliceTick, StateType
  <1>9. CASE StrobeSosTick(cmd, thermal, fc_armed)
    <2>1. last_cmd' = c
      BY <1>9 DEF StrobeSosTick
    <2>2. Out
      BY <1>9, <1>a, <1>d, <2>1, SetPwmType DEF StrobeSosTick
    <2>3. tick_count' \in 0 .. U32 - 1 /\ sos_idx' \in 0 .. Len(SosPattern)
      BY <1>9, <1>a, SosAdvanceType DEF StrobeSosTick, StateType
    <2> QED
      BY <1>9, <1>a, <1>b, <2>1, <2>2, <2>3 DEF StrobeSosTick, StateType
  <1>10. CASE ThrottleTick(cmd, thermal, fc_armed)
    <2>1. last_cmd' = c
      BY <1>10 DEF ThrottleTick
    <2>2. throttled_brightness(last_cmd', thermal) \in Nat
      BY <2>1, <1>b, ThrottledNat
    <2>3. Out
      BY <1>10, <1>a, <2>2, SetPwmType DEF ThrottleTick
    <2> QED
      BY <1>10, <1>a, <1>b, <1>c, <2>1, <2>3
      DEF ThrottleTick, StateType, LED_FSM_NORMAL, LED_FSM_THERMAL_THROTTLE
  <1>11. CASE UnknownTick(cmd, thermal, fc_armed)
    BY <1>11, <1>a, <1>b DEF UnknownTick, StateType
  <1> QED
    BY <1>1, <1>2, <1>3, <1>4, <1>5, <1>6, <1>7, <1>8, <1>9, <1>10, <1>11
    DEF Tick, led_manager_tick

(***************************************************************************)
(* Every variable stays in its type: no mode, brightness, temperature or   *)
(* sequence of commands drives a counter out of its range, the PWM output  *)
(* above its period, or the Morse index out of the pattern.                *)
(***************************************************************************)
THEOREM TypeCorrect == Spec => []TypeOK
  <1>1. Init => TypeOK
    <2> SUFFICES ASSUME Init PROVE TypeOK
      OBVIOUS
    <2>1. Len(SosPattern) \in Nat
      BY TickAssumption
    <2> QED
      BY <2>1, ZeroTick, PwmAssumption DEF Init, TypeOK, LED_FSM_IDLE
  <1>2. TypeOK /\ [Next]_vars => TypeOK'
    <2> SUFFICES ASSUME TypeOK, [Next]_vars PROVE TypeOK'
      OBVIOUS
    <2>1. CASE Next
      BY <2>1, TickType DEF Next
    <2>2. CASE UNCHANGED vars
      BY <2>2 DEF vars, TypeOK
    <2> QED
      BY <2>1, <2>2
  <1> QED
    BY <1>1, <1>2, PTL DEF Spec

-----------------------------------------------------------------------------
(* The lamp *)

(***************************************************************************)
(* What the refinement needs of a state.  The first conjunct is not in     *)
(* TypeOK and does not follow from the lamp: a state number above          *)
(* LED_FSM_EMERGENCY_OFF has no case, so the light would stay as it is.    *)
(***************************************************************************)
LampInv ==
  /\ fsm_state \in LED_FSM_IDLE .. LED_FSM_EMERGENCY_OFF
  /\ args.thermal.emergency_shutdown => fsm_state = LED_FSM_EMERGENCY_OFF
  /\ DarkWhenDisarmed

(* With modes of the enum only, a tick without an emergency stays short of *)
(* emergency off.                                                          *)
LEMMA OperatingTick ==
  ASSUME Modes \subseteq 0 .. 4, TypeOK, LampInv,
         NEW cmd \in Commands \union {NoCmd}, NEW thermal \in Thermals,
         NEW fc_armed \in BOOLEAN, Tick(cmd, thermal, fc_armed),
         Operating(thermal)
  PROVE  fsm_state' \in LED_FSM_IDLE .. LED_FSM_THERMAL_THROTTLE
  <1>a. fsm_state \in 0 .. 6
    BY SMT DEF LampInv, Operating, LED_FSM_IDLE, LED_FSM_EMERGENCY_OFF
  <1>b. Applied(cmd) \in Commands \union {ZeroCmd}
    BY AppliedType DEF TypeOK
  <1>c. Applied(cmd).mode \in 0 .. 4
    BY <1>b, CommandType DEF LED_MODE_IDLE
  <1>d. StateOfMode(Applied(cmd).mode) \in 0 .. 6
    BY <1>c DEF StateOfMode, LED_FSM_NORMAL
  <1> USE DEF LED_FSM_IDLE, LED_FSM_THERMAL_THROTTLE
  <1>1. CASE StayOff
    BY <1>1 DEF StayOff, Operating
  <1>2. CASE EmergencyOff(thermal)
    BY <1>2 DEF EmergencyOff, Operating
  <1>3. CASE ForceIdle(cmd, thermal, fc_armed)
    BY <1>3 DEF ForceIdle
  <1>4. CASE IdleTick(cmd, thermal, fc_armed)
    BY <1>4, <1>a DEF IdleTick, StartRamp, LED_FSM_SOFT_START
  <1>5. CASE SoftStartTick(cmd, thermal, fc_armed)
    <2>1. last_cmd' = Applied(cmd)
      BY <1>5 DEF SoftStartTick
    <2> QED
      BY <1>5, <1>a, <1>d, <2>1 DEF SoftStartTick
  <1>6. CASE NormalTick(cmd, thermal, fc_armed)
    <2>1. last_cmd' = Applied(cmd)
      BY <1>6 DEF NormalTick
    <2> QED
      BY <1>6, <1>a, <1>d, <2>1 DEF NormalTick
  <1>7. CASE \/ StrobeWhiteTick(cmd, thermal, fc_armed)
             \/ StrobePoliceTick(cmd, thermal, fc_armed)
             \/ StrobeSosTick(cmd, thermal, fc_armed)
             \/ UnknownTick(cmd, thermal, fc_armed)
    BY <1>7, <1>a DEF StrobeWhiteTick, StrobePoliceTick, StrobeSosTick, UnknownTick
  <1>8. CASE ThrottleTick(cmd, thermal, fc_armed)
    BY <1>8 DEF ThrottleTick, LED_FSM_NORMAL
  <1> QED
    BY <1>1, <1>2, <1>3, <1>4, <1>5, <1>6, <1>7, <1>8 DEF Tick, led_manager_tick

(* A tick of the idle state is the idle case, unless there is an emergency. *)
LEMMA IdleTickCases ==
  ASSUME fsm_state = LED_FSM_IDLE,
         NEW cmd, NEW thermal, NEW fc_armed, Tick(cmd, thermal, fc_armed)
  PROVE  \/ EmergencyOff(thermal)
         \/ IdleTick(cmd, thermal, fc_armed)
  <1>1. SwitchState(thermal) = 0
    BY DEF SwitchState, EntersThrottle, LED_FSM_IDLE
  <1> QED
    BY <1>1, SMT DEF Tick, led_manager_tick, StayOff, ForceIdle, SoftStartTick,
       NormalTick, StrobeWhiteTick, StrobePoliceTick, StrobeSosTick,
       ThrottleTick, UnknownTick, AtCase, ForcedIdle, LED_FSM_IDLE,
       LED_FSM_SOFT_START, LED_FSM_NORMAL, LED_FSM_STROBE_WHITE,
       LED_FSM_STROBE_POLICE, LED_FSM_STROBE_SOS, LED_FSM_THERMAL_THROTTLE,
       LED_FSM_EMERGENCY_OFF

(* It leaves the LEDs dark: it can only arm them.                          *)
LEMMA IdleTickIsDark ==
  ASSUME fsm_state = LED_FSM_IDLE,
         NEW cmd, NEW thermal, NEW fc_armed, Tick(cmd, thermal, fc_armed)
  PROVE  Dark'
  BY IdleTickCases, SwitchOffIsDark DEF EmergencyOff, IdleTick

(* Emergency off is entered and kept exactly by the emergency temperature. *)
LEMMA NotOperatingTick ==
  ASSUME NEW cmd, NEW thermal, NEW fc_armed, Tick(cmd, thermal, fc_armed),
         ~Operating(thermal)
  PROVE  fsm_state' = LED_FSM_EMERGENCY_OFF /\ Dark'
  <1>1. StayOff \/ EmergencyOff(thermal)
    BY DEF Tick, led_manager_tick, ForceIdle, IdleTick, SoftStartTick,
       NormalTick, StrobeWhiteTick, StrobePoliceTick, StrobeSosTick,
       ThrottleTick, UnknownTick, AtCase
  <1> QED
    BY <1>1, SwitchOffIsDark DEF StayOff, EmergencyOff

LEMMA LampStep ==
  ASSUME Modes \subseteq 0 .. 4, TypeOK, LampInv, Next
  PROVE  LampInv' /\ TheLamp!Next
  <1> PICK cmd \in Commands \union {NoCmd}, thermal \in Thermals,
           fc_armed \in BOOLEAN : Tick(cmd, thermal, fc_armed)
    BY DEF Next
  <1>1. args'.thermal = thermal /\ args'.fc_armed = fc_armed
    BY DEF Tick
  <1>2. thermal.emergency_shutdown \in BOOLEAN
    BY ThermalType
  <1>3. DarkWhenDisarmed'
    <2>1. CASE fc_armed = FALSE
      BY <2>1, DisarmedTick DEF DarkWhenDisarmed
    <2>2. CASE fc_armed = TRUE
      BY <2>2, <1>1 DEF DarkWhenDisarmed
    <2> QED
      BY <2>1, <2>2
  <1>4. CASE Operating(thermal)
    <2>1. fsm_state' \in LED_FSM_IDLE .. LED_FSM_THERMAL_THROTTLE
      BY <1>4, OperatingTick
    <2>2. /\ fsm_state # LED_FSM_EMERGENCY_OFF
          /\ ~thermal.emergency_shutdown
      BY <1>4 DEF Operating
    <2>3. /\ fsm_state' # LED_FSM_EMERGENCY_OFF
          /\ fsm_state' \in LED_FSM_IDLE .. LED_FSM_EMERGENCY_OFF
      BY <2>1, SMT DEF LED_FSM_IDLE, LED_FSM_THERMAL_THROTTLE, LED_FSM_EMERGENCY_OFF
    <2>4. Lit' => args.fc_armed /\ args'.fc_armed
      <3>1. ASSUME ~args'.fc_armed PROVE ~Lit'
        BY <3>1, <1>3 DEF DarkWhenDisarmed, Dark
      <3>2. ASSUME ~args.fc_armed PROVE ~Lit'
        <4>1. fsm_state = LED_FSM_IDLE
          BY <3>2, <2>2 DEF LampInv, DarkWhenDisarmed
        <4> QED
          BY <4>1, IdleTickIsDark DEF Dark
      <3> QED
        BY <3>1, <3>2
    <2>5. LampInv'
      BY <2>2, <2>3, <1>1, <1>3 DEF LampInv
    <2>6. args'.fc_armed \in BOOLEAN /\ args'.thermal.emergency_shutdown \in BOOLEAN
      BY <1>1, <1>2
    <2>7. ~args'.thermal.emergency_shutdown
      BY <2>2, <1>1
    <2>8. TheLamp!Next
      BY <2>2, <2>3, <2>4, <2>6, <2>7 DEF TheLamp!Next, Lit
    <2> QED
      BY <2>5, <2>8
  <1>5. CASE ~Operating(thermal)
    <2>1. fsm_state' = LED_FSM_EMERGENCY_OFF /\ ~Lit'
      BY <1>5, NotOperatingTick DEF Dark
    <2>2. fsm_state = LED_FSM_EMERGENCY_OFF \/ args'.thermal.emergency_shutdown
      BY <1>5, <1>1 DEF Operating
    <2>3. LampInv'
      BY <2>1, <1>3, SMT DEF LampInv, LED_FSM_IDLE, LED_FSM_EMERGENCY_OFF
    <2>4. args'.fc_armed \in BOOLEAN /\ args'.thermal.emergency_shutdown \in BOOLEAN
      BY <1>1, <1>2
    <2>5. TheLamp!Next
      BY <2>1, <2>2, <2>4 DEF TheLamp!Next, Lit
    <2> QED
      BY <2>3, <2>5
  <1> QED
    BY <1>4, <1>5

(***************************************************************************)
(* If only modes of the enum arrive, the LED FSM is a lamp: heat alone     *)
(* turns it off for good, heat always does, and it is lit only between two *)
(* ticks that both saw the autopilot armed.                                *)
(***************************************************************************)
THEOREM FsmIsLamp == ASSUME Modes \subseteq 0 .. 4 PROVE Spec => IsLamp
  <1>1. Init => LampInv /\ TheLamp!Init
    BY SMT DEF Init, LampInv, TheLamp!Init, DarkWhenDisarmed, Dark, Lit,
       ColdThermal, LED_FSM_IDLE, LED_FSM_EMERGENCY_OFF
  <1>2. TypeOK /\ LampInv /\ [Next]_vars => LampInv' /\ [TheLamp!Next]_(TheLamp!lampVars)
    <2>1. CASE Next
      BY <2>1, LampStep
    <2>2. CASE UNCHANGED vars
      BY <2>2 DEF vars, LampInv, DarkWhenDisarmed, Dark, Lit, TheLamp!lampVars
    <2> QED
      BY <2>1, <2>2
  <1> QED
    BY <1>1, <1>2, TypeCorrect, PTL DEF Spec, IsLamp, TheLamp!Spec

-----------------------------------------------------------------------------
(* The throttle *)

LEMMA MulMono ==
  ASSUME NEW a \in Nat, NEW b \in Nat, NEW n \in Nat, a <= b
  PROVE  n * a <= n * b
  BY SMT

LEMMA MulCancel ==
  ASSUME NEW a \in Nat, NEW b \in Nat, NEW n \in Nat \ {0}, n * a <= n * b
  PROVE  a <= b
  <1>1. SUFFICES ASSUME b + 1 <= a PROVE FALSE
    OBVIOUS
  <1>2. n * (b + 1) <= n * a
    BY <1>1, MulMono
  <1>3. n * (b + 1) = n * b + n
    BY SMT
  <1>4. n * a \in Nat /\ n * b \in Nat
    BY SMT
  <1> QED
    BY <1>2, <1>3, <1>4

(***************************************************************************)
(* The arithmetic of the throttle (n = 100) and of the ramp (n its steps): *)
(* the share f / n of at most full brightness is a duty of at most that    *)
(* share of the period, in spite of the two rounded divisions.             *)
(***************************************************************************)
LEMMA ShareBound ==
  ASSUME NEW n \in Nat \ {0}, NEW b \in 0 .. FULL_PCT, NEW f \in 0 .. n
  PROVE  LET d == Duty((b * f) \div n)
         IN  d \in Nat /\ d * n <= LED_PWM_PERIOD_US * f /\ d <= LED_PWM_PERIOD_US
  <1> DEFINE P == LED_PWM_PERIOD_US
             F == FULL_PCT
             x == (b * f) \div n
             d == Duty(x)
  <1>a. P \in Nat \ {0} /\ F \in Nat \ {0} /\ b \in Nat /\ f \in Nat /\ b <= F /\ f <= n
    BY PwmAssumption
  <1>1. b * f \in Nat /\ F * f \in Nat /\ P * f \in Nat
    BY <1>a
  <1>2. x \in Nat /\ n * x <= b * f
    BY <1>1, DivBounds
  <1>3. b * f <= F * f
    <2>1. f * b <= f * F
      BY <1>a, MulMono
    <2> QED
      BY <2>1, <1>a
  <1>4. P * x \in Nat
    BY <1>a, <1>2
  <1>5. d \in Nat /\ F * d <= P * x
    BY <1>a, <1>4, DivBounds DEF Duty
  <1> HIDE DEF x, d
  <1>b. n * x \in Nat /\ d * n \in Nat
    BY <1>2, <1>5
  <1>6. P * (n * x) <= P * (F * f)
    <2>1. n * x <= F * f
      BY <1>1, <1>2, <1>3, <1>b
    <2> QED
      BY <2>1, <1>a, <1>b, <1>1, MulMono
  <1>7. F * (d * n) <= F * (P * f)
    <2>1. n * (F * d) <= n * (P * x)
      <3>1. F * d \in Nat /\ P * x \in Nat
        BY <1>a, <1>2, <1>5
      <3> QED
        BY <3>1, <1>5, MulMono
    <2>2. n * (F * d) = F * (d * n)
      BY <1>a, <1>5
    <2>3. n * (P * x) = P * (n * x)
      BY <1>a, <1>2
    <2>4. P * (F * f) = F * (P * f)
      BY <1>a
    <2>5. F * (d * n) \in Nat /\ P * (n * x) \in Nat /\ P * (F * f) \in Nat
      BY <1>a, <1>b, <1>1
    <2> QED
      BY <2>1, <2>2, <2>3, <2>4, <2>5, <1>6
  <1>8. d * n <= P * f
    BY <1>b, <1>1, <1>7, <1>a, MulCancel
  <1>9. d <= P
    <2>1. P * f <= P * n
      BY <1>a, MulMono
    <2>2. P * n \in Nat /\ n * d = d * n /\ n * P = P * n
      BY <1>a, <1>5
    <2>3. n * d <= n * P
      BY <2>1, <2>2, <1>8, <1>1, <1>b
    <2> QED
      BY <2>3, <1>5, <1>a, MulCancel
  <1> QED
    BY <1>5, <1>8, <1>9 DEF d, x

LEMMA PercentBound ==
  ASSUME NEW b \in 0 .. FULL_PCT, NEW f \in 0 .. 100
  PROVE  LET d == Duty((b * f) \div 100)
         IN  d \in Nat /\ d * 100 <= LED_PWM_PERIOD_US * f /\ d <= LED_PWM_PERIOD_US
  <1>1. 100 \in Nat \ {0}
    OBVIOUS
  <1> QED
    BY <1>1, ShareBound

(* Refused or not, set_pwm leaves a duty of at most what it was asked for: *)
(* what is refused is more than the period.                                *)
LEMMA SetDutyCapped ==
  ASSUME NEW b, Duty(b) \in Nat, pwm \in 0 .. LED_PWM_PERIOD_US
  PROVE  DutyAfter(b) <= Duty(b)
  BY PwmAssumption DEF DutyAfter

(* What HeatCap says of a duty, a command and a thermal state.             *)
LEMMA DarkIsCapped ==
  ASSUME NEW c \in Commands \union {ZeroCmd}, NEW thermal \in Thermals
  PROVE  /\ 0 <= Duty(throttled_brightness(c, thermal))
         /\ 0 * 100 <= LED_PWM_PERIOD_US * ThrottleFactor(thermal.max_c)
  <1>1. Duty(throttled_brightness(c, thermal)) \in Nat
    BY ThrottledNat, DutyNat
  <1>2. ThrottleFactor(thermal.max_c) \in Nat
    BY ThermalType, FactorBounds
  <1>3. LED_PWM_PERIOD_US * ThrottleFactor(thermal.max_c) \in Nat
    BY <1>2, PwmAssumption
  <1> QED
    BY <1>1, <1>3

LEMMA HeatCapStep ==
  ASSUME TypeOK,
         NEW cmd \in Commands \union {NoCmd}, NEW thermal \in Thermals,
         NEW fc_armed \in BOOLEAN, Tick(cmd, thermal, fc_armed)
  PROVE  HeatCap'
  <1> SUFFICES ASSUME thermal.throttle_active = TRUE
               PROVE  /\ pwm' <= Duty(throttled_brightness(last_cmd', thermal))
                      /\ last_cmd'.brightness_pct <= FULL_PCT =>
                           pwm' * 100 <= LED_PWM_PERIOD_US * ThrottleFactor(thermal.max_c)
    <2>1. args'.thermal = thermal
      BY DEF Tick
    <2>2. thermal.throttle_active \in BOOLEAN
      BY ThermalType
    <2> QED
      BY <2>1, <2>2 DEF HeatCap
  <1>a. last_cmd' \in Commands \union {ZeroCmd}
    BY TickType DEF TypeOK
  (* The tick is dark, or it is the throttle's own *)
  <1>1. CASE SwitchOff
    <2>1. pwm' = 0
      BY <1>1, DutyZero, PwmAssumption DEF SwitchOff, set_pwm, DutyAfter
    <2> QED
      BY <2>1, <1>a, DarkIsCapped
  <1>2. CASE ThrottleTick(cmd, thermal, fc_armed)
    <2> DEFINE b == last_cmd'.brightness_pct
               f == ThrottleFactor(thermal.max_c)
    <2>1. b \in Nat /\ pwm \in 0 .. LED_PWM_PERIOD_US
      BY <1>a, CommandType DEF TypeOK
    <2>2. f \in 0 .. 100
      BY ThermalType, FactorBounds
    <2>3. pwm' = DutyAfter(throttled_brightness(last_cmd', thermal))
      BY <1>2 DEF ThrottleTick, set_pwm
    <2>4. throttled_brightness(last_cmd', thermal) = (b * f) \div 100
      BY DEF throttled_brightness
    <2>5. pwm' <= Duty(throttled_brightness(last_cmd', thermal))
      <3>1. Duty(throttled_brightness(last_cmd', thermal)) \in Nat
        BY <1>a, ThrottledNat, DutyNat
      <3> QED
        BY <2>1, <2>3, <3>1, SetDutyCapped
    <2> HIDE DEF b, f
    <2>6. ASSUME b <= FULL_PCT PROVE pwm' * 100 <= LED_PWM_PERIOD_US * f
      <3>1. b \in 0 .. FULL_PCT
        BY <2>1, <2>6, PwmAssumption
      <3>2. /\ Duty((b * f) \div 100) \in Nat
            /\ Duty((b * f) \div 100) * 100 <= LED_PWM_PERIOD_US * f
            /\ Duty((b * f) \div 100) <= LED_PWM_PERIOD_US
        BY <2>2, <3>1, PercentBound
      <3>3. pwm' = Duty((b * f) \div 100)
        BY <2>3, <2>4, <3>2 DEF DutyAfter
      <3> QED
        BY <3>2, <3>3
    <2> QED
      BY <2>5, <2>6 DEF b, f
  (* A hot tick reaches no other case of the switch *)
  <1>3. SwitchState(thermal) \in {LED_FSM_IDLE, LED_FSM_THERMAL_THROTTLE}
    BY DEF SwitchState, EntersThrottle
  <1>b. /\ ~AtCase(LED_FSM_SOFT_START, thermal, fc_armed)
        /\ ~AtCase(LED_FSM_NORMAL, thermal, fc_armed)
        /\ ~AtCase(LED_FSM_STROBE_WHITE, thermal, fc_armed)
        /\ ~AtCase(LED_FSM_STROBE_POLICE, thermal, fc_armed)
        /\ ~AtCase(LED_FSM_STROBE_SOS, thermal, fc_armed)
        /\ ~(SwitchState(thermal) > LED_FSM_EMERGENCY_OFF)
    BY <1>3, SMT DEF AtCase, LED_FSM_IDLE, LED_FSM_SOFT_START, LED_FSM_NORMAL,
       LED_FSM_STROBE_WHITE, LED_FSM_STROBE_POLICE, LED_FSM_STROBE_SOS,
       LED_FSM_THERMAL_THROTTLE, LED_FSM_EMERGENCY_OFF
  <1>4. \/ StayOff \/ EmergencyOff(thermal) \/ ForceIdle(cmd, thermal, fc_armed)
        \/ IdleTick(cmd, thermal, fc_armed) \/ ThrottleTick(cmd, thermal, fc_armed)
    BY <1>b, Zenon DEF Tick, led_manager_tick, SoftStartTick, NormalTick,
       StrobeWhiteTick, StrobePoliceTick, StrobeSosTick, UnknownTick
  <1>5. SwitchOff \/ ThrottleTick(cmd, thermal, fc_armed)
    BY <1>4 DEF StayOff, EmergencyOff, ForceIdle, IdleTick
  <1> QED
    BY <1>1, <1>2, <1>5

(***************************************************************************)
(* A hot LED is never driven above the throttled command, whatever 8-bit   *)
(* brightness it carries, nor above the throttle's share of full power if  *)
(* that is a percentage, in whatever state the heat finds the FSM.         *)
(***************************************************************************)
THEOREM HeatIsCapped == Spec => []HeatCap
  <1>1. Init => HeatCap
    BY DEF Init, HeatCap, ColdThermal
  <1>2. TypeOK /\ HeatCap /\ [Next]_vars => HeatCap'
    <2>1. CASE Next
      BY <2>1, HeatCapStep DEF Next
    <2>2. CASE UNCHANGED vars
      BY <2>2 DEF vars, HeatCap
    <2> QED
      BY <2>1, <2>2
  <1> QED
    BY <1>1, <1>2, TypeCorrect, PTL DEF Spec

-----------------------------------------------------------------------------
(* The soft start *)

(* Inside the ramp the cast to uint8_t changes nothing.                    *)
LEMMA RampCast ==
  ASSUME NEW c \in Commands \union {ZeroCmd}, NEW n \in 0 .. SOFT_START_STEPS
  PROVE  RampBrightness(c, n) = (c.brightness_pct * n) \div SOFT_START_STEPS
  <1> DEFINE S == SOFT_START_STEPS
             b == c.brightness_pct
             x == (b * n) \div S
  <1>1. S \in Nat \ {0} /\ n \in Nat /\ n <= S
    BY TickAssumption
  <1>2. b \in 0 .. U8 - 1 /\ U8 \in Nat
    BY CommandType, BrightnessAssumption, WidthAssumption
  <1>3. b * n \in Nat /\ b * S \in Nat /\ S * b = b * S
    BY <1>1, <1>2
  <1>4. x \in Nat /\ S * x <= b * n
    BY <1>1, <1>3, DivBounds
  <1> HIDE DEF x
  <1>5. b * n <= b * S
    BY <1>1, <1>2, MulMono
  <1>6. S * x \in Nat
    BY <1>1, <1>4
  <1>7. S * x <= S * b
    BY <1>3, <1>4, <1>5, <1>6
  <1>8. x <= b
    BY <1>1, <1>2, <1>4, <1>7, MulCancel
  <1>9. x % U8 = x
    BY <1>2, <1>4, <1>8
  <1> QED
    BY <1>9 DEF RampBrightness, x

(* A mode other than 0 does not show as the soft start.                    *)
LEMMA ModeIsNoRamp ==
  ASSUME NEW c \in Commands \union {ZeroCmd}, c.mode # LED_MODE_IDLE
  PROVE  StateOfMode(c.mode) # LED_FSM_SOFT_START
  BY CommandType DEF StateOfMode, LED_FSM_NORMAL, LED_FSM_SOFT_START, LED_MODE_IDLE

(* A step of the ramp that stays in it keeps below the slope, wherever the *)
(* step counter was.                                                       *)
LEMMA SoftStartStep ==
  ASSUME TypeOK,
         NEW cmd, NEW thermal, NEW fc_armed, SoftStartTick(cmd, thermal, fc_armed),
         last_cmd' \in Commands \union {ZeroCmd},
         last_cmd'.mode # LED_MODE_IDLE,
         fsm_state' = LED_FSM_SOFT_START
  PROVE  RampBounded'
  <1> DEFINE b == last_cmd'.brightness_pct
             n == soft_start_step'
             x == (b * n) \div SOFT_START_STEPS
  <1>1. n < SOFT_START_STEPS
    BY ModeIsNoRamp DEF SoftStartTick
  <1>2. n \in 0 .. SOFT_START_STEPS
    <2>1. soft_start_step + 1 \in Nat /\ U8 \in Nat \ {0}
      BY WidthAssumption DEF TypeOK
    <2>2. n = (soft_start_step + 1) % U8
      BY DEF SoftStartTick
    <2>3. n \in 0 .. U8 - 1
      BY <2>1, <2>2, ModBounds
    <2> QED
      BY <1>1, <2>1, <2>3, TickAssumption
  <1>3. b \in Nat /\ pwm \in 0 .. LED_PWM_PERIOD_US
    BY CommandType DEF TypeOK
  <1>4. pwm' = DutyAfter(x)
    BY <1>2, RampCast DEF SoftStartTick, set_pwm
  <1>5. pwm' <= Duty(x)
    <2>1. b * n \in Nat /\ SOFT_START_STEPS \in Nat \ {0}
      BY <1>2, <1>3, TickAssumption
    <2>2. Duty(x) \in Nat
      BY <2>1, DivBounds, DutyNat
    <2> QED
      BY <1>3, <1>4, <2>2, SetDutyCapped
  <1> HIDE DEF b, n
  <1>6. ASSUME b <= FULL_PCT PROVE pwm' * SOFT_START_STEPS <= LED_PWM_PERIOD_US * n
    <2>1. b \in 0 .. FULL_PCT
      BY <1>3, <1>6, PwmAssumption
    <2>2. /\ Duty(x) * SOFT_START_STEPS <= LED_PWM_PERIOD_US * n
          /\ Duty(x) <= LED_PWM_PERIOD_US
      BY <1>2, <2>1, ShareBound, TickAssumption
    <2> QED
      BY <1>4, <2>2 DEF DutyAfter
  <1> QED
    BY <1>1, <1>5, <1>6 DEF RampBounded, b, n, x

(* Into the ramp leads only the start of the light, from the dark and from *)
(* step 0, or else an off command.                                         *)
LEMMA RampStep ==
  ASSUME TypeOK, RampBounded,
         NEW cmd \in Commands \union {NoCmd}, NEW thermal \in Thermals,
         NEW fc_armed \in BOOLEAN, Tick(cmd, thermal, fc_armed)
  PROVE  RampBounded'
  <1> SUFFICES ASSUME fsm_state' = LED_FSM_SOFT_START, last_cmd'.mode # LED_MODE_IDLE
               PROVE  RampBounded'
    BY DEF RampBounded
  <1>a. last_cmd' \in Commands \union {ZeroCmd}
    BY TickType DEF TypeOK
  <1>b. StateOfMode(last_cmd'.mode) # LED_FSM_SOFT_START
    BY <1>a, ModeIsNoRamp
  <1>1. CASE SoftStartTick(cmd, thermal, fc_armed)
    BY <1>1, <1>a, SoftStartStep
  <1>2. CASE IdleTick(cmd, thermal, fc_armed)
    <2>1. fsm_state = LED_FSM_IDLE
      BY <1>2, SMT DEF IdleTick, AtCase, SwitchState, LED_FSM_IDLE,
         LED_FSM_THERMAL_THROTTLE
    <2>2. soft_start_step' = 0
      BY <1>2, <2>1 DEF IdleTick, StartRamp, LED_FSM_IDLE, LED_FSM_SOFT_START
    <2>3. pwm' = 0
      BY <1>2, DutyZero, PwmAssumption DEF IdleTick, SwitchOff, set_pwm, DutyAfter
    <2>4. last_cmd'.brightness_pct * 0 = 0 /\ LED_PWM_PERIOD_US * 0 = 0
      BY <1>a, CommandType, PwmAssumption
    <2>5. Duty((last_cmd'.brightness_pct * 0) \div SOFT_START_STEPS) = 0
      BY <2>4, DivZero, DutyZero, TickAssumption
    <2> QED
      BY <2>2, <2>3, <2>4, <2>5, TickAssumption DEF RampBounded
  <1>3. ~StayOff /\ ~EmergencyOff(thermal)
    BY SMT DEF StayOff, EmergencyOff, LED_FSM_SOFT_START, LED_FSM_EMERGENCY_OFF
  <1>4. ~ForceIdle(cmd, thermal, fc_armed) /\ ~ThrottleTick(cmd, thermal, fc_armed)
    BY DEF ForceIdle, ThrottleTick, LED_FSM_IDLE, LED_FSM_SOFT_START,
       LED_FSM_NORMAL, LED_FSM_THERMAL_THROTTLE
  <1>5. ~NormalTick(cmd, thermal, fc_armed)
    <2>1. ASSUME NormalTick(cmd, thermal, fc_armed) PROVE fsm_state = LED_FSM_NORMAL
      BY <2>1, SMT DEF NormalTick, AtCase, SwitchState, LED_FSM_NORMAL,
         LED_FSM_THERMAL_THROTTLE
    <2>2. ASSUME NormalTick(cmd, thermal, fc_armed)
          PROVE  fsm_state' = StateOfMode(last_cmd'.mode) \/ fsm_state' = fsm_state
      BY <2>2, Zenon DEF NormalTick
    <2>3. LED_FSM_NORMAL # LED_FSM_SOFT_START
      BY DEF LED_FSM_NORMAL, LED_FSM_SOFT_START
    <2> QED
      BY <1>b, <2>1, <2>2, <2>3
  <1>6. /\ ~StrobeWhiteTick(cmd, thermal, fc_armed)
        /\ ~StrobePoliceTick(cmd, thermal, fc_armed)
        /\ ~StrobeSosTick(cmd, thermal, fc_armed)
        /\ ~UnknownTick(cmd, thermal, fc_armed)
    BY DEF StrobeWhiteTick, StrobePoliceTick, StrobeSosTick, UnknownTick,
       AtCase, SwitchState, LED_FSM_SOFT_START, LED_FSM_STROBE_WHITE,
       LED_FSM_STROBE_POLICE, LED_FSM_STROBE_SOS, LED_FSM_THERMAL_THROTTLE,
       LED_FSM_EMERGENCY_OFF
  <1> QED
    BY <1>1, <1>2, <1>3, <1>4, <1>5, <1>6, Zenon DEF Tick, led_manager_tick

(***************************************************************************)
(* Whatever modes and 8-bit brightnesses arrive, off commands among them,  *)
(* the soft start of a light that is asked for has steps left, and stays   *)
(* below the slope that the steps so far allow.                            *)
(***************************************************************************)
THEOREM RampIsBounded == Spec => []RampBounded
  <1>1. Init => RampBounded
    BY DEF Init, RampBounded, LED_FSM_IDLE, LED_FSM_SOFT_START
  <1>2. TypeOK /\ RampBounded /\ [Next]_vars => RampBounded'
    <2>1. CASE Next
      BY <2>1, RampStep DEF Next
    <2>2. CASE UNCHANGED vars
      BY <2>2 DEF vars, RampBounded
    <2> QED
      BY <2>1, <2>2
  <1> QED
    BY <1>1, <1>2, TypeCorrect, PTL DEF Spec

-----------------------------------------------------------------------------
(* The strobes *)

(* A case other than the throttle's is that of the state before the tick   *)
LEMMA CaseIsState ==
  ASSUME NEW s, NEW thermal, NEW fc_armed, AtCase(s, thermal, fc_armed),
         s # LED_FSM_THERMAL_THROTTLE
  PROVE  fsm_state = s /\ ~EntersThrottle(thermal)
  BY DEF AtCase, SwitchState

(* Only its own tick leaves the FSM in the middle of an SOS element        *)
LEMMA SosOnlyBySos ==
  ASSUME TypeOK, NEW cmd, NEW thermal, NEW fc_armed, Tick(cmd, thermal, fc_armed),
         fsm_state' = LED_FSM_STROBE_SOS, tick_count' > 0
  PROVE  StrobeSosTick(cmd, thermal, fc_armed)
<1> USE DEF LED_FSM_IDLE, LED_FSM_SOFT_START, LED_FSM_NORMAL, LED_FSM_STROBE_WHITE,
        LED_FSM_STROBE_POLICE, LED_FSM_STROBE_SOS, LED_FSM_THERMAL_THROTTLE,
        LED_FSM_EMERGENCY_OFF
<1>1. ~StayOff /\ ~EmergencyOff(thermal) /\ ~ForceIdle(cmd, thermal, fc_armed)
  BY DEF StayOff, EmergencyOff, ForceIdle
<1>2. ~IdleTick(cmd, thermal, fc_armed)
  BY CaseIsState DEF IdleTick, StartRamp
<1>3. ~SoftStartTick(cmd, thermal, fc_armed)
  BY CaseIsState DEF SoftStartTick
<1>4. ~NormalTick(cmd, thermal, fc_armed)
  <2>1. ASSUME NormalTick(cmd, thermal, fc_armed) PROVE fsm_state = LED_FSM_NORMAL
    BY <2>1, CaseIsState DEF NormalTick
  <2>2. ASSUME NormalTick(cmd, thermal, fc_armed)
        PROVE  tick_count' = 0 \/ fsm_state' = fsm_state
    BY <2>2, Zenon DEF NormalTick
  <2>3. QED
    BY <2>1, <2>2
<1>5. /\ ~StrobeWhiteTick(cmd, thermal, fc_armed)
      /\ ~StrobePoliceTick(cmd, thermal, fc_armed)
  BY CaseIsState DEF StrobeWhiteTick, StrobePoliceTick
<1>6. ~ThrottleTick(cmd, thermal, fc_armed)
  BY DEF ThrottleTick
<1>7. ~UnknownTick(cmd, thermal, fc_armed)
  BY DEF UnknownTick, SwitchState
<1>8. QED
  BY <1>1, <1>2, <1>3, <1>4, <1>5, <1>6, <1>7 DEF Tick, led_manager_tick

LEMMA SosStep ==
  ASSUME TypeOK, SosShape, NEW cmd, NEW thermal, NEW fc_armed,
         Tick(cmd, thermal, fc_armed)
  PROVE  SosShape'
<1> SUFFICES ASSUME fsm_state' = LED_FSM_STROBE_SOS, tick_count' > 0
             PROVE  /\ sos_idx' < Len(SosPattern)
                    /\ tick_count' < SosPattern[sos_idx' + 1]
                    /\ sos_idx' % 2 = 1 => pwm' = 0
  BY DEF SosShape
<1>1. StrobeSosTick(cmd, thermal, fc_armed)
  BY SosOnlyBySos
<1>2. fsm_state = LED_FSM_STROBE_SOS
  BY <1>1, CaseIsState DEF StrobeSosTick, LED_FSM_STROBE_SOS, LED_FSM_THERMAL_THROTTLE
<1>3. /\ tick_count + 1 < SosPattern[SosElement + 1]
      /\ sos_idx' = SosElement
      /\ tick_count' = tick_count + 1
  BY <1>1, TickAssumption DEF StrobeSosTick, SosAdvance
<1>4. SosElement \in Nat /\ SosElement < Len(SosPattern)
  BY TickAssumption DEF SosElement, TypeOK
<1>5. CASE tick_count = 0
  <2>1. pwm' = DutyAfter(IF SosElement % 2 = 0 THEN last_cmd'.brightness_pct ELSE 0)
    BY <1>1, <1>5 DEF StrobeSosTick, set_pwm
  <2>2. DutyAfter(0) = 0
    BY DutyZero, PwmAssumption DEF DutyAfter
  <2>3. SosElement % 2 = 1 => pwm' = 0
    BY <2>1, <2>2
  <2>4. QED
    BY <1>3, <1>4, <2>3
<1>6. CASE tick_count # 0
  <2>1. tick_count > 0
    BY <1>6, WidthAssumption DEF TypeOK
  <2>2. pwm' = pwm
    BY <1>1, <1>6 DEF StrobeSosTick
  <2>3. sos_idx < Len(SosPattern) /\ (sos_idx % 2 = 1 => pwm = 0)
    BY <1>2, <2>1 DEF SosShape
  <2>4. SosElement = sos_idx
    BY <2>3, TickAssumption DEF SosElement, TypeOK
  <2>5. QED
    BY <1>3, <1>4, <2>2, <2>3, <2>4
<1>7. QED
  BY <1>5, <1>6

(***************************************************************************)
(* However the SOS strobe is entered and left, an element that is under    *)
(* way is one of the word, not over-long, and dark if it is a gap: the     *)
(* output is set on its first tick, and no state enters the strobe with    *)
(* tick_count above 0.                                                     *)
(***************************************************************************)
THEOREM SosIsAWord == Spec => []SosShape
<1>1. Init => SosShape
  BY DEF Init, SosShape, LED_FSM_IDLE, LED_FSM_STROBE_SOS
<1>2. TypeOK /\ SosShape /\ [Next]_vars => SosShape'
  <2>1. CASE Next
    BY <2>1, SosStep DEF Next
  <2>2. CASE UNCHANGED vars
    BY <2>2 DEF vars, SosShape
  <2>3. QED
    BY <2>1, <2>2
<1>3. QED
  BY <1>1, <1>2, TypeCorrect, PTL DEF Spec

LEMMA PhaseRange ==
  ASSUME NEW t \in Nat, NEW ticks \in Nat \ {0}
  PROVE  Phase(t, ticks) \in {0, 1}
<1> DEFINE q == t \div ticks
<1>1. q \in Int
  OBVIOUS
<1> HIDE DEF q
<1>2. q % 2 \in {0, 1}
  BY <1>1
<1>3. QED
  BY <1>2 DEF Phase, q

(* What a tick of each state does to colours and PWM *)
LEMMA PoliceTickColours ==
  ASSUME TypeOK, NEW cmd, NEW thermal, NEW fc_armed,
         StrobePoliceTick(cmd, thermal, fc_armed)
  PROVE  /\ fsm_state' = LED_FSM_STROBE_POLICE
         /\ pwm' = 0
         /\ ~(aux'.red /\ aux'.blue)
         /\ aux'.red \/ aux'.blue
<1>1. fsm_state = LED_FSM_STROBE_POLICE
  BY CaseIsState DEF StrobePoliceTick, LED_FSM_STROBE_POLICE, LED_FSM_THERMAL_THROTTLE
<1>2. DutyAfter(0) = 0
  BY DutyZero, PwmAssumption DEF DutyAfter
<1>3. tick_count' \in Nat
  BY WidthAssumption, ModBounds DEF TypeOK, StrobePoliceTick
<1> DEFINE phase == Phase(tick_count', STROBE_POLICE_TICKS)
<1>4. phase \in {0, 1}
  BY <1>3, PhaseRange, TickAssumption
<1>5. /\ aux' = [red |-> phase = 0, blue |-> phase = 1]
      /\ pwm' = 0 /\ fsm_state' = fsm_state
  BY <1>2, Zenon DEF StrobePoliceTick, aux_gpio, set_pwm
<1> HIDE DEF phase
<1>6. (aux'.red <=> phase = 0) /\ (aux'.blue <=> phase = 1)
  BY <1>5
<1>7. QED
  BY <1>1, <1>4, <1>5, <1>6

LEMMA SwitchedOff == ASSUME SwitchOff PROVE ~aux'.red /\ ~aux'.blue
  BY DEF SwitchOff, aux_gpio

LEMMA PoliceStep ==
  ASSUME TypeOK, PoliceColours, NEW cmd, NEW thermal, NEW fc_armed,
         Tick(cmd, thermal, fc_armed)
  PROVE  PoliceColours'
<1> USE DEF LED_FSM_IDLE, LED_FSM_SOFT_START, LED_FSM_NORMAL, LED_FSM_STROBE_WHITE,
        LED_FSM_STROBE_POLICE, LED_FSM_STROBE_SOS, LED_FSM_THERMAL_THROTTLE,
        LED_FSM_EMERGENCY_OFF
<1>1. /\ ~(aux.red /\ aux.blue)
      /\ aux.red \/ aux.blue => fsm_state \in {LED_FSM_STROBE_POLICE,
                                 LED_FSM_THERMAL_THROTTLE, LED_FSM_NORMAL}
  BY Zenon DEF PoliceColours
<1>2. CASE \/ StayOff \/ EmergencyOff(thermal) \/ ForceIdle(cmd, thermal, fc_armed)
           \/ IdleTick(cmd, thermal, fc_armed)
  <2>1. ~aux'.red /\ ~aux'.blue
    BY <1>2, SwitchedOff DEF StayOff, EmergencyOff, ForceIdle, IdleTick
  <2>2. fsm_state' # LED_FSM_STROBE_POLICE
    BY <1>2, CaseIsState DEF StayOff, EmergencyOff, ForceIdle, IdleTick, StartRamp
  <2>3. QED
    BY <2>1, <2>2, Zenon DEF PoliceColours
<1>3. CASE SoftStartTick(cmd, thermal, fc_armed)
  <2>1. fsm_state = LED_FSM_SOFT_START /\ aux' = aux
    BY <1>3, CaseIsState DEF SoftStartTick
  <2>2. ~aux'.red /\ ~aux'.blue
    BY <1>1, <2>1
  <2>3. fsm_state' = fsm_state \/ tick_count' = 0
    BY <1>3, Zenon DEF SoftStartTick
  <2>4. fsm_state' = LED_FSM_STROBE_POLICE => ~(tick_count' > 0)
    BY <2>1, <2>3
  <2>5. QED
    BY <2>2, <2>4, Zenon DEF PoliceColours
<1>4. CASE NormalTick(cmd, thermal, fc_armed)
  <2>1. fsm_state = LED_FSM_NORMAL
    BY <1>4, CaseIsState DEF NormalTick
  <2>2. ~aux'.red /\ ~aux'.blue
    BY <1>4 DEF NormalTick, aux_gpio
  <2>3. fsm_state' = fsm_state \/ tick_count' = 0
    BY <1>4, Zenon DEF NormalTick
  <2>4. fsm_state' = LED_FSM_STROBE_POLICE => ~(tick_count' > 0)
    BY <2>1, <2>3
  <2>5. QED
    BY <2>2, <2>4, Zenon DEF PoliceColours
<1>5. CASE \/ StrobeWhiteTick(cmd, thermal, fc_armed)
           \/ StrobeSosTick(cmd, thermal, fc_armed)
  <2>1. /\ fsm_state \in {LED_FSM_STROBE_WHITE, LED_FSM_STROBE_SOS}
        /\ fsm_state' = fsm_state /\ aux' = aux
    BY <1>5, CaseIsState DEF StrobeWhiteTick, StrobeSosTick
  <2>2. ~aux'.red /\ ~aux'.blue /\ fsm_state' # LED_FSM_STROBE_POLICE
    BY <1>1, <2>1
  <2>3. QED
    BY <2>2, Zenon DEF PoliceColours
<1>6. CASE StrobePoliceTick(cmd, thermal, fc_armed)
  BY <1>6, PoliceTickColours DEF PoliceColours
<1>7. CASE ThrottleTick(cmd, thermal, fc_armed)
  <2>1. fsm_state' \in {LED_FSM_NORMAL, LED_FSM_THERMAL_THROTTLE} /\ aux' = aux
    BY <1>7 DEF ThrottleTick
  <2>2. QED
    BY <1>1, <2>1 DEF PoliceColours
<1>8. CASE UnknownTick(cmd, thermal, fc_armed)
  <2>1. fsm_state > LED_FSM_EMERGENCY_OFF /\ fsm_state' = fsm_state /\ aux' = aux
    BY <1>8 DEF UnknownTick, SwitchState
  <2>2. ~aux'.red /\ ~aux'.blue /\ fsm_state' # LED_FSM_STROBE_POLICE
    BY <1>1, <2>1
  <2>3. QED
    BY <2>2, Zenon DEF PoliceColours
<1>9. QED
  BY <1>2, <1>3, <1>4, <1>5, <1>6, <1>7, <1>8, Zenon DEF Tick, led_manager_tick

(***************************************************************************)
(* Red and blue are never lit together, and outlive the police strobe only *)
(* through a throttle and the tick that ends it: every other way out of    *)
(* the strobe switches them off.                                           *)
(***************************************************************************)
THEOREM ColoursKept == Spec => []PoliceColours
<1>1. Init => PoliceColours
  BY DEF Init, PoliceColours, LED_FSM_IDLE, LED_FSM_STROBE_POLICE
<1>2. TypeOK /\ PoliceColours /\ [Next]_vars => PoliceColours'
  <2>1. CASE Next
    BY <2>1, PoliceStep DEF Next
  <2>2. CASE UNCHANGED vars
    BY <2>2 DEF vars, PoliceColours
  <2>3. QED
    BY <2>1, <2>2
<1>3. QED
  BY <1>1, <1>2, TypeCorrect, PTL DEF Spec
=============================================================================
