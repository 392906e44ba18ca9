----------------------------- MODULE LedManager -----------------------------
(***************************************************************************)
(* app/led_manager.c: the LED state machine.  One step of this module is   *)
(* one call of led_manager_tick, made every 10 ms by the LED thread with   *)
(* at most one queued command, a snapshot of the thermal state and a       *)
(* snapshot of the autopilot's arm flag.                                   *)
(*                                                                         *)
(* The states and the modes are the integers of the C enums, because the   *)
(* code computes one from the other (LED_FSM_NORMAL + mode - 1).  The      *)
(* timing constants of the code are CONSTANTS, so that TLC can check a     *)
(* short ramp and a short pattern and the proofs hold for the real ones.   *)
(***************************************************************************)
EXTENDS Integers, Sequences, ThermalManager

CONSTANTS
  Modes,                  \* the command modes that may arrive
  Brightness,             \* the brightness percentages that may arrive
  Temps,                  \* the temperatures of the hotter NTC
  NoCmd,                  \* the NULL command pointer
  LED_PWM_PERIOD_US,      \* PWM period (50)
  FULL_PCT,               \* the brightness that means 100 % (100)
  SOFT_START_STEPS,       \* ticks of the soft-start ramp (50)
  STROBE_WHITE_ON_TICKS,  \* ticks of each half of the white strobe (50)
  STROBE_POLICE_TICKS,    \* ticks of each colour of the police strobe (25)
  SosPattern,             \* ticks of each element of the SOS word (18 of them)
  U8,                     \* 2^8, the range of soft_start_step and brightness
  U32                     \* 2^32, the range of tick_count

(* The enums of sgl200_types.h                                             *)
LED_MODE_IDLE            == 0
LED_MODE_NORMAL          == 1
LED_MODE_STROBE_SOS      == 4

LED_FSM_IDLE             == 0
LED_FSM_SOFT_START       == 1
LED_FSM_NORMAL           == 2
LED_FSM_STROBE_WHITE     == 3
LED_FSM_STROBE_POLICE    == 4
LED_FSM_STROBE_SOS       == 5
LED_FSM_THERMAL_THROTTLE == 6
LED_FSM_EMERGENCY_OFF    == 7

(***************************************************************************)
(* Modes stop one short of 2^8: the mode is a uint8_t cast of a parameter, *)
(* and 255 would be the one value whose state number needs a ninth bit.    *)
(***************************************************************************)
ASSUME ModesAssumption      == Modes \subseteq 0 .. U8 - 2
ASSUME BrightnessAssumption == Brightness \subseteq 0 .. U8 - 1
ASSUME TempsAssumption      == Temps \subseteq Int
ASSUME PwmAssumption        == /\ LED_PWM_PERIOD_US \in Nat \ {0}
                               /\ FULL_PCT \in Nat \ {0}
ASSUME TickAssumption       == /\ SOFT_START_STEPS \in Nat \ {0}
                               /\ STROBE_WHITE_ON_TICKS \in Nat \ {0}
                               /\ STROBE_POLICE_TICKS \in Nat \ {0}
                               /\ SosPattern \in Seq(Nat \ {0})
                               /\ Len(SosPattern) > 0
ASSUME WidthAssumption      == /\ U8 \in Nat \ {0}
                               /\ U32 \in Nat \ {0}
                               /\ SOFT_START_STEPS < U8
                               /\ \A i \in 1 .. Len(SosPattern) :
                                    SosPattern[i] < U32

Commands == [mode : Modes, brightness_pct : Brightness]
ASSUME NoCmdAssumption      == NoCmd \notin Commands

ZeroCmd  == [mode |-> LED_MODE_IDLE, brightness_pct |-> 0]
Thermals == {ThermalState(t) : t \in Temps}

VARIABLES
  fsm_state,        \* enum led_fsm_state_t, or a number that names no state
  last_cmd,         \* the latest command
  tick_count,       \* ticks in the current strobe phase or SOS element
  sos_idx,          \* index of the SOS element being shown
  soft_start_step,  \* ticks of the ramp so far
  pwm,              \* duty of the white LED's PWM output, in microseconds
  aux,              \* the red and blue LED outputs
  args              \* thermal and fc_armed of the latest call

vars == <<fsm_state, last_cmd, tick_count, sos_idx, soft_start_step, pwm, aux,
          args>>

-----------------------------------------------------------------------------
(* Outputs *)

Duty(brightness_pct) == (LED_PWM_PERIOD_US * brightness_pct) \div FULL_PCT

(***************************************************************************)
(* pwm_set_dt refuses a pulse longer than the period (-EINVAL); set_pwm    *)
(* ignores the result, so the output keeps its duty.                       *)
(***************************************************************************)
DutyAfter(brightness_pct) ==
  IF Duty(brightness_pct) <= LED_PWM_PERIOD_US THEN Duty(brightness_pct) ELSE pwm

set_pwm(brightness_pct) == pwm' = DutyAfter(brightness_pct)

aux_gpio(red, blue) == aux' = [red |-> red, blue |-> blue]

SwitchOff == set_pwm(0) /\ aux_gpio(FALSE, FALSE)

(* Mutant of ThrottleFactor: the 20 % floor is forgotten *)
ThrottleFactor_NoFloor(max_c) == 100 - 10 * (max_c - THROTTLE_THRESHOLD_C)

(***************************************************************************)
(* 1 - 0.1 * (max_c - 75), at least 0.2, in percent.  The code computes in *)
(* single precision and truncates; for whole degrees the result here is    *)
(* exact, and the code's may be one percent lower.                         *)
(***************************************************************************)
ThrottleFactor(max_c) ==
  IF 100 - 10 * (max_c - THROTTLE_THRESHOLD_C) < 20
  THEN 20
  ELSE 100 - 10 * (max_c - THROTTLE_THRESHOLD_C)

throttled_brightness(cmd, thermal) ==
  (cmd.brightness_pct * ThrottleFactor(thermal.max_c)) \div 100

-----------------------------------------------------------------------------
(* What led_manager_tick computes before its switch *)

Applied(cmd) == IF cmd = NoCmd THEN last_cmd ELSE cmd

(* Mutant of EntersThrottle: only the steady light is throttled *)
EntersThrottle_NormalOnly(thermal) ==
  thermal.throttle_active /\ fsm_state = LED_FSM_NORMAL

EntersThrottle(thermal) ==
  /\ thermal.throttle_active
  /\ fsm_state \notin {LED_FSM_IDLE, LED_FSM_THERMAL_THROTTLE}

(* fsm_state at the switch, after the thermal throttle check *)
SwitchState(thermal) ==
  IF EntersThrottle(thermal) THEN LED_FSM_THERMAL_THROTTLE ELSE fsm_state

SwitchTicks(thermal) == IF EntersThrottle(thermal) THEN 0 ELSE tick_count

Operating(thermal) ==
  fsm_state # LED_FSM_EMERGENCY_OFF /\ ~thermal.emergency_shutdown

(* Mutant of ForcedIdle: only the states the enum names are left *)
ForcedIdle_NamedStates(fc_armed) ==
  ~fc_armed /\ fsm_state \in LED_FSM_SOFT_START .. LED_FSM_THERMAL_THROTTLE

ForcedIdle(fc_armed) == ~fc_armed /\ fsm_state # LED_FSM_IDLE

(* The call reaches the switch, in the case of state s *)
AtCase(s, thermal, fc_armed) ==
  /\ Operating(thermal)
  /\ ~ForcedIdle(fc_armed)
  /\ SwitchState(thermal) = s

(* The state that shows a mode *)
StateOfMode(mode) == LED_FSM_NORMAL + mode - 1

-----------------------------------------------------------------------------
(* The static variables, and the outputs as led_manager_init leaves them *)
Init ==
  /\ fsm_state = LED_FSM_IDLE
  /\ last_cmd = ZeroCmd
  /\ tick_count = 0
  /\ sos_idx = 0
  /\ soft_start_step = 0
  /\ pwm = 0
  /\ aux = [red |-> FALSE, blue |-> FALSE]
  /\ args = [thermal |-> ColdThermal, fc_armed |-> FALSE]

(* Emergency off is terminal; the command is consumed and ignored *)
StayOff ==
  /\ fsm_state = LED_FSM_EMERGENCY_OFF
  /\ SwitchOff
  /\ UNCHANGED <<fsm_state, last_cmd, tick_count, sos_idx, soft_start_step>>

(* Mutant of EmergencyOff: the red and blue LEDs are forgotten *)
EmergencyOff_AuxLeft(thermal) ==
  /\ fsm_state # LED_FSM_EMERGENCY_OFF
  /\ thermal.emergency_shutdown
  /\ fsm_state' = LED_FSM_EMERGENCY_OFF
  /\ set_pwm(0)
  /\ UNCHANGED <<last_cmd, tick_count, sos_idx, soft_start_step, aux>>

EmergencyOff(thermal) ==
  /\ fsm_state # LED_FSM_EMERGENCY_OFF
  /\ thermal.emergency_shutdown
  /\ fsm_state' = LED_FSM_EMERGENCY_OFF
  /\ SwitchOff
  /\ UNCHANGED <<last_cmd, tick_count, sos_idx, soft_start_step>>

(* The autopilot is disarmed and the state is not idle *)
ForceIdle(cmd, thermal, fc_armed) ==
  /\ Operating(thermal)
  /\ ForcedIdle(fc_armed)
  /\ fsm_state' = LED_FSM_IDLE
  /\ last_cmd' = Applied(cmd)
  /\ tick_count' = SwitchTicks(thermal)
  /\ SwitchOff
  /\ UNCHANGED <<sos_idx, soft_start_step>>

(* Mutant of Starts: the arm flag is not looked at *)
Starts_IgnoringArm(cmd, fc_armed) ==
  Applied(cmd).mode # LED_MODE_IDLE /\ Applied(cmd).brightness_pct > 0

(* Mutant of Starts: only a fresh command starts the light *)
Starts_FreshOnly(cmd, fc_armed) ==
  /\ fc_armed
  /\ cmd # NoCmd
  /\ cmd.mode # LED_MODE_IDLE
  /\ cmd.brightness_pct > 0

(* A pending command asks for light and the autopilot is armed *)
Starts(cmd, fc_armed) ==
  /\ fc_armed
  /\ Applied(cmd).mode # LED_MODE_IDLE
  /\ Applied(cmd).brightness_pct > 0

(* Mutant of StartRamp: the step counter is not restarted *)
StartRamp_NoReset ==
  /\ fsm_state' = LED_FSM_SOFT_START
  /\ tick_count' = 0
  /\ UNCHANGED soft_start_step

StartRamp ==
  /\ fsm_state' = LED_FSM_SOFT_START
  /\ soft_start_step' = 0
  /\ tick_count' = 0

IdleTick(cmd, thermal, fc_armed) ==
  /\ AtCase(LED_FSM_IDLE, thermal, fc_armed)
  /\ last_cmd' = Applied(cmd)
  /\ SwitchOff
  /\ \/ Starts(cmd, fc_armed) /\ StartRamp
     \/ /\ ~Starts(cmd, fc_armed)
        /\ UNCHANGED <<fsm_state, soft_start_step, tick_count>>
  /\ UNCHANGED sos_idx

(* The brightness of step n of the ramp, cast to uint8_t *)
RampBrightness(cmd, n) == ((cmd.brightness_pct * n) \div SOFT_START_STEPS) % U8

(* The step counter is a uint8_t; nothing stops it at SOFT_START_STEPS *)
SoftStartTick(cmd, thermal, fc_armed) ==
  /\ AtCase(LED_FSM_SOFT_START, thermal, fc_armed)
  /\ last_cmd' = Applied(cmd)
  /\ soft_start_step' = (soft_start_step + 1) % U8
  /\ set_pwm(RampBrightness(last_cmd', soft_start_step'))
  /\ \/ /\ soft_start_step' >= SOFT_START_STEPS
        /\ fsm_state' = StateOfMode(last_cmd'.mode)
        /\ tick_count' = 0
     \/ /\ soft_start_step' < SOFT_START_STEPS
        /\ UNCHANGED <<fsm_state, tick_count>>
  /\ UNCHANGED <<sos_idx, aux>>

NormalTick(cmd, thermal, fc_armed) ==
  /\ AtCase(LED_FSM_NORMAL, thermal, fc_armed)
  /\ last_cmd' = Applied(cmd)
  /\ set_pwm(last_cmd'.brightness_pct)
  /\ aux_gpio(FALSE, FALSE)
  /\ \/ /\ last_cmd'.mode # LED_MODE_NORMAL
        /\ fsm_state' = StateOfMode(last_cmd'.mode)
        /\ tick_count' = 0
     \/ /\ last_cmd'.mode = LED_MODE_NORMAL
        /\ UNCHANGED <<fsm_state, tick_count>>
  /\ UNCHANGED <<sos_idx, soft_start_step>>

(* Mutant of Phase: the parity is forgotten *)
Phase_NoParity(t, ticks) == t \div ticks

(* The half of a square wave of the given half-period that tick t is in *)
Phase(t, ticks) == (t \div ticks) % 2

StrobeWhiteTick(cmd, thermal, fc_armed) ==
  /\ AtCase(LED_FSM_STROBE_WHITE, thermal, fc_armed)
  /\ last_cmd' = Applied(cmd)
  /\ tick_count' = (tick_count + 1) % U32
  /\ set_pwm(IF Phase(tick_count', STROBE_WHITE_ON_TICKS) = 0
             THEN last_cmd'.brightness_pct ELSE 0)
  /\ UNCHANGED <<fsm_state, sos_idx, soft_start_step, aux>>

StrobePoliceTick(cmd, thermal, fc_armed) ==
  /\ AtCase(LED_FSM_STROBE_POLICE, thermal, fc_armed)
  /\ last_cmd' = Applied(cmd)
  /\ tick_count' = (tick_count + 1) % U32
  /\ set_pwm(0)
  /\ aux_gpio(Phase(tick_count', STROBE_POLICE_TICKS) = 0,
              Phase(tick_count', STROBE_POLICE_TICKS) = 1)
  /\ UNCHANGED <<fsm_state, sos_idx, soft_start_step>>

(* The element shown by an SOS tick: past the last one, the first again *)
SosElement == IF sos_idx >= Len(SosPattern) THEN 0 ELSE sos_idx

(* Mutant of SosAdvance: the tick counter is not restarted *)
SosAdvance_NoReset ==
  /\ tick_count' = tick_count + 1
  /\ sos_idx' = IF tick_count' >= SosPattern[SosElement + 1]
                THEN SosElement + 1 ELSE SosElement

(* One more tick of the element, or on to the next *)
SosAdvance ==
  \/ /\ tick_count + 1 >= SosPattern[SosElement + 1]
     /\ sos_idx' = SosElement + 1
     /\ tick_count' = 0
  \/ /\ tick_count + 1 < SosPattern[SosElement + 1]
     /\ sos_idx' = SosElement
     /\ tick_count' = tick_count + 1

(* Even elements are lit; the output is set on an element's first tick only *)
StrobeSosTick(cmd, thermal, fc_armed) ==
  /\ AtCase(LED_FSM_STROBE_SOS, thermal, fc_armed)
  /\ last_cmd' = Applied(cmd)
  /\ \/ /\ tick_count = 0
        /\ set_pwm(IF SosElement % 2 = 0 THEN last_cmd'.brightness_pct ELSE 0)
     \/ /\ tick_count # 0
        /\ UNCHANGED pwm
  /\ SosAdvance
  /\ UNCHANGED <<fsm_state, soft_start_step, aux>>

ThrottleTick(cmd, thermal, fc_armed) ==
  /\ AtCase(LED_FSM_THERMAL_THROTTLE, thermal, fc_armed)
  /\ last_cmd' = Applied(cmd)
  /\ tick_count' = SwitchTicks(thermal)
  /\ \/ /\ ~thermal.throttle_active
        /\ fsm_state' = LED_FSM_NORMAL
        /\ UNCHANGED pwm
     \/ /\ thermal.throttle_active
        /\ fsm_state' = LED_FSM_THERMAL_THROTTLE
        /\ set_pwm(throttled_brightness(last_cmd', thermal))
  /\ UNCHANGED <<sos_idx, soft_start_step, aux>>

(* fsm_state names no case: the switch does nothing *)
UnknownTick(cmd, thermal, fc_armed) ==
  /\ Operating(thermal)
  /\ ~ForcedIdle(fc_armed)
  /\ SwitchState(thermal) > LED_FSM_EMERGENCY_OFF
  /\ last_cmd' = Applied(cmd)
  /\ UNCHANGED <<fsm_state, tick_count, sos_idx, soft_start_step, pwm, aux>>

led_manager_tick(cmd, thermal, fc_armed) ==
  \/ StayOff
  \/ EmergencyOff(thermal)
  \/ ForceIdle(cmd, thermal, fc_armed)
  \/ IdleTick(cmd, thermal, fc_armed)
  \/ SoftStartTick(cmd, thermal, fc_armed)
  \/ NormalTick(cmd, thermal, fc_armed)
  \/ StrobeWhiteTick(cmd, thermal, fc_armed)
  \/ StrobePoliceTick(cmd, thermal, fc_armed)
  \/ StrobeSosTick(cmd, thermal, fc_armed)
  \/ ThrottleTick(cmd, thermal, fc_armed)
  \/ UnknownTick(cmd, thermal, fc_armed)

Tick(cmd, thermal, fc_armed) ==
  /\ led_manager_tick(cmd, thermal, fc_armed)
  /\ args' = [thermal |-> thermal, fc_armed |-> fc_armed]

Next == \E cmd \in Commands \union {NoCmd}, thermal \in Thermals,
           fc_armed \in BOOLEAN : Tick(cmd, thermal, fc_armed)

Spec == Init /\ [][Next]_vars

(***************************************************************************)
(* Fairness.  The LED thread's sleep always ends, so the FSM is ticked     *)
(* forever.  Weak fairness is asked only of the tick that repeats the      *)
(* inputs of the one before and brings no command: the liveness properties *)
(* are all about inputs that no longer change, and nothing makes the       *)
(* autopilot, the thermistors or the operator act.                         *)
(***************************************************************************)
RepeatTick == Tick(NoCmd, args.thermal, args.fc_armed)

FairSpec == Spec /\ WF_vars(RepeatTick)

-----------------------------------------------------------------------------
(* Properties *)

Lit  == pwm > 0 \/ aux.red \/ aux.blue
Dark == ~Lit

(***************************************************************************)
(* Every variable stays in the range of its C type, and a duty never       *)
(* exceeds the PWM period, whatever mode or brightness a command carries.  *)
(***************************************************************************)
TypeOK ==
  /\ fsm_state \in Nat
  /\ last_cmd \in Commands \union {ZeroCmd}
  /\ tick_count \in 0 .. U32 - 1
  /\ sos_idx \in 0 .. Len(SosPattern)
  /\ soft_start_step \in 0 .. U8 - 1
  /\ pwm \in 0 .. LED_PWM_PERIOD_US
  /\ aux \in [red : BOOLEAN, blue : BOOLEAN]
  /\ args \in [thermal : Thermals \union {ColdThermal}, fc_armed : BOOLEAN]

(***************************************************************************)
(* A tick that sees the autopilot disarmed leaves every LED dark and the   *)
(* FSM idle or off, from whichever state a command (also one with a        *)
(* meaningless mode) or the heat had put it in.                            *)
(***************************************************************************)
DarkWhenDisarmed ==
  ~args.fc_armed =>
    Dark /\ fsm_state \in {LED_FSM_IDLE, LED_FSM_EMERGENCY_OFF}

(***************************************************************************)
(* Once emergency off, or in the tick that sees the emergency temperature, *)
(* the LEDs are dark and the FSM is in emergency off, for good: no command *)
(* of any mode, no cooling and no re-arming brings the light back.         *)
(***************************************************************************)
EmergencyStep ==
  fsm_state = LED_FSM_EMERGENCY_OFF \/ args'.thermal.emergency_shutdown
    => fsm_state' = LED_FSM_EMERGENCY_OFF /\ Dark'

EmergencyHolds == [][EmergencyStep]_vars

(***************************************************************************)
(* While the LED is too hot, no state, no strobe phase and no command      *)
(* drives it above the commanded brightness times the throttle factor, be  *)
(* it a percentage or, as a command may say, more; and a command that is a *)
(* percentage is also kept to that factor's share of full power, whatever  *)
(* the commands before it had lit.                                         *)
(***************************************************************************)
HeatCap ==
  args.thermal.throttle_active =>
    /\ pwm <= Duty(throttled_brightness(last_cmd, args.thermal))
    /\ last_cmd.brightness_pct <= FULL_PCT =>
         pwm * 100 <= LED_PWM_PERIOD_US * ThrottleFactor(args.thermal.max_c)

(***************************************************************************)
(* "Thermal throttle and shutdown cannot be overridden by normal LED       *)
(* commands" (05-TEST-ACCEPTANCE.md:143): a hot LED gets at most the       *)
(* throttle's share of full power whatever brightness is commanded.  It    *)
(* does not hold: nothing limits the brightness of a command to 100, and a *)
(* pulse longer than the period leaves the duty of before the heat.        *)
(***************************************************************************)
ThrottleNotOverridden ==
  args.thermal.throttle_active =>
    pwm * 100 <= LED_PWM_PERIOD_US * ThrottleFactor(args.thermal.max_c)

(***************************************************************************)
(* The soft start is a ramp that ends: while it lasts it has steps left,   *)
(* and the duty is at most that of the share of the command that the       *)
(* elapsed steps allow, for a percentage also at most that share of full   *)
(* power, also when the brightness is changed half way, when the light is  *)
(* stopped and started again, and when an off command had sent the FSM     *)
(* into the ramp past its end (see OffCommandObeyed) and a command for     *)
(* light now finds it there.                                               *)
(***************************************************************************)
RampBounded ==
  fsm_state = LED_FSM_SOFT_START /\ last_cmd.mode # LED_MODE_IDLE =>
    /\ soft_start_step < SOFT_START_STEPS
    /\ pwm <= Duty((last_cmd.brightness_pct * soft_start_step) \div SOFT_START_STEPS)
    /\ last_cmd.brightness_pct <= FULL_PCT =>
         pwm * SOFT_START_STEPS <= LED_PWM_PERIOD_US * soft_start_step

(***************************************************************************)
(* Inside an SOS element the element is one of the word, it is not         *)
(* over-long, and the gaps (the odd elements) are dark, however the strobe *)
(* was entered, left and entered again.                                    *)
(***************************************************************************)
SosShape ==
  fsm_state = LED_FSM_STROBE_SOS /\ tick_count > 0 =>
    /\ sos_idx < Len(SosPattern)
    /\ tick_count < SosPattern[sos_idx + 1]
    /\ sos_idx % 2 = 1 => pwm = 0

(***************************************************************************)
(* Red and blue are never lit together; in the police strobe exactly one   *)
(* is, and the white LED is dark; after it they can stay lit only through  *)
(* a throttle and the one tick that ends it.                               *)
(***************************************************************************)
PoliceColours ==
  /\ ~(aux.red /\ aux.blue)
  /\ fsm_state = LED_FSM_STROBE_POLICE /\ tick_count > 0 =>
       pwm = 0 /\ (aux.red \/ aux.blue)
  /\ aux.red \/ aux.blue =>
       fsm_state \in {LED_FSM_STROBE_POLICE, LED_FSM_THERMAL_THROTTLE,
                      LED_FSM_NORMAL}

(***************************************************************************)
(* Only heat takes the light away for good: emergency off is entered in a  *)
(* tick that sees the emergency temperature and in no other.               *)
(***************************************************************************)
EmergencyOnlyByHeat ==
  [][ fsm_state' = LED_FSM_EMERGENCY_OFF =>
        fsm_state = LED_FSM_EMERGENCY_OFF \/ args'.thermal.emergency_shutdown ]_vars

(***************************************************************************)
(* The FSM is a lamp: alive exactly while no tick saw the emergency        *)
(* temperature, and lit only between two ticks that saw the arm flag set.  *)
(***************************************************************************)
TheLamp == INSTANCE Lamp WITH
  alive    <- fsm_state # LED_FSM_EMERGENCY_OFF,
  permit   <- args.fc_armed,
  critical <- args.thermal.emergency_shutdown,
  lit      <- Lit

IsLamp == TheLamp!Spec

(* The operator wants light and nothing stands in its way                  *)
Wanted ==
  /\ args.fc_armed
  /\ ~args.thermal.throttle_active
  /\ fsm_state # LED_FSM_EMERGENCY_OFF
  /\ last_cmd.mode # LED_MODE_IDLE
  /\ last_cmd.brightness_pct > 0

(***************************************************************************)
(* Light returns: once the autopilot stays armed, the LED stays cool and   *)
(* the latest command keeps asking for light, the FSM settles in one of    *)
(* the states that show a mode.  It is not left idle, ramping or throttled.*)
(***************************************************************************)
LightResumes ==
  <>[]Wanted => <>[](fsm_state \in LED_FSM_NORMAL .. LED_FSM_STROBE_SOS)

(***************************************************************************)
(* Off: once the latest command is the off command for good, the LEDs end  *)
(* up dark.                                                                *)
(***************************************************************************)
OffCommandObeyed == <>[](last_cmd.mode = LED_MODE_IDLE) => <>[]Dark
=============================================================================
