-------------------------- MODULE LightControlProofs ------------------------
(***************************************************************************)
(* Proofs about the light from the radio to the LEDs, for any frames, any  *)
(* readings of the thermistors, queues of any length, and the LED FSM with *)
(* any of its timings.                                                     *)
(***************************************************************************)
EXTENDS LightControl, TLAPS

(* What is proved of the FSM alone *)
LedP == INSTANCE LedManagerProofs

-----------------------------------------------------------------------------
(* One call of led_manager_tick *)

LEMMA SwitchOffIsDark ==
  ASSUME Led!SwitchOff
  PROVE  Led!Dark'
<1>1. LED_PWM_PERIOD_US * 0 = 0 /\ 0 \div FULL_PCT = 0 /\ 0 <= LED_PWM_PERIOD_US
  BY LedAssumption
<1>2. pwm' = 0
  BY <1>1 DEF Led!SwitchOff, Led!set_pwm, Led!DutyAfter, Led!Duty
<1>3. ~aux'.red /\ ~aux'.blue
  BY DEF Led!SwitchOff, Led!aux_gpio
<1>4. QED
  BY <1>2, <1>3 DEF Led!Dark, Led!Lit

(* A disarmed call of the switch finds the FSM idle, whatever it was in.   *)
LEMMA DisarmedCase ==
  ASSUME NEW s, NEW t, NEW armed, ~armed, Led!AtCase(s, t, armed)
  PROVE  s = Led!LED_FSM_IDLE /\ fsm_state = Led!LED_FSM_IDLE
BY DEF Led!AtCase, Led!ForcedIdle, Led!SwitchState, Led!EntersThrottle

LEMMA DisarmedTick ==
  ASSUME NEW c, NEW t, NEW armed, ~armed, Led!Tick(c, t, armed)
  PROVE  Led!Dark'
<1>1. CASE Led!StayOff \/ Led!EmergencyOff(t) \/ Led!ForceIdle(c, t, armed)
           \/ Led!IdleTick(c, t, armed)
  BY <1>1, SwitchOffIsDark, Zenon
  DEF Led!StayOff, Led!EmergencyOff, Led!ForceIdle, Led!IdleTick
<1>2. ~Led!AtCase(Led!LED_FSM_SOFT_START, t, armed)
  BY DisarmedCase DEF Led!LED_FSM_SOFT_START, Led!LED_FSM_IDLE
<1>3. ~Led!AtCase(Led!LED_FSM_NORMAL, t, armed)
  BY DisarmedCase DEF Led!LED_FSM_NORMAL, Led!LED_FSM_IDLE
<1>4. ~Led!AtCase(Led!LED_FSM_STROBE_WHITE, t, armed)
  BY DisarmedCase DEF Led!LED_FSM_STROBE_WHITE, Led!LED_FSM_IDLE
<1>5. ~Led!AtCase(Led!LED_FSM_STROBE_POLICE, t, armed)
  BY DisarmedCase DEF Led!LED_FSM_STROBE_POLICE, Led!LED_FSM_IDLE
<1>6. ~Led!AtCase(Led!LED_FSM_STROBE_SOS, t, armed)
  BY DisarmedCase DEF Led!LED_FSM_STROBE_SOS, Led!LED_FSM_IDLE
<1>7. ~Led!AtCase(Led!LED_FSM_THERMAL_THROTTLE, t, armed)
  BY DisarmedCase DEF Led!LED_FSM_THERMAL_THROTTLE, Led!LED_FSM_IDLE
<1>8. ~Led!UnknownTick(c, t, armed)
  BY DEF Led!UnknownTick, Led!ForcedIdle, Led!SwitchState, Led!EntersThrottle,
     Led!LED_FSM_IDLE, Led!LED_FSM_EMERGENCY_OFF
<1>9. QED
  BY <1>1, <1>2, <1>3, <1>4, <1>5, <1>6, <1>7, <1>8, Zenon
  DEF Led!Tick, Led!led_manager_tick, Led!SoftStartTick, Led!NormalTick,
      Led!StrobeWhiteTick, Led!StrobePoliceTick, Led!StrobeSosTick, Led!ThrottleTick

(* A call in emergency off, or with the emergency temperature, ends there. *)
LEMMA EmergencyTick ==
  ASSUME NEW c, NEW t, NEW armed, Led!Tick(c, t, armed),
         fsm_state = Led!LED_FSM_EMERGENCY_OFF \/ t.emergency_shutdown
  PROVE  fsm_state' = Led!LED_FSM_EMERGENCY_OFF /\ Led!Dark'
<1>1. ~Led!Operating(t)
  BY DEF Led!Operating
<1>2. Led!StayOff \/ Led!EmergencyOff(t)
  BY <1>1, Zenon DEF Led!Tick, Led!led_manager_tick, Led!ForceIdle, Led!IdleTick,
     Led!SoftStartTick, Led!NormalTick, Led!StrobeWhiteTick, Led!StrobePoliceTick,
     Led!StrobeSosTick, Led!ThrottleTick, Led!UnknownTick, Led!AtCase
<1>3. QED
  BY <1>2, SwitchOffIsDark, Zenon DEF Led!StayOff, Led!EmergencyOff

(***************************************************************************)
(* In the system the FSM's calls are the last of the LED thread's steps,   *)
(* with whatever copies it took; emergency off is final there too.         *)
(***************************************************************************)
THEOREM EmergencyIsFinal == Spec => EmergencyHolds
<1>1. [Next]_vars => [Led!EmergencyStep]_(Led!vars)
  <2> SUFFICES ASSUME [Next]_vars PROVE [Led!EmergencyStep]_(Led!vars)
    OBVIOUS
  <2>1. CASE LedTick
    <3>1. Led!Tick(cmd, thermal, fc_armed)
      BY <2>1, Zenon DEF LedTick
    <3>2. args'.thermal = thermal
      BY <3>1 DEF Led!Tick
    <3>3. Led!EmergencyStep
      BY <3>1, <3>2, EmergencyTick, Zenon DEF Led!EmergencyStep
    <3>4. QED
      BY <3>3, Zenon
  <2>2. CASE ~LedTick
    <3>1. UNCHANGED ledVars
      BY <2>2, Zenon DEF Next, LedThread, RxFrame, TxTakeAck, thermal_manager_sample,
         LedGetCommand, LedGetThermal, LedGetArmed, vars
    <3>2. QED
      BY <3>1, Zenon DEF ledVars, Led!vars
  <2>3. QED
    BY <2>1, <2>2
<1>2. QED
  BY <1>1, PTL DEF Spec, EmergencyHolds, Led!EmergencyHolds

-----------------------------------------------------------------------------
(* Disarming *)

(***************************************************************************)
(* Once a tick has ended with the autopilot disarmed, the copy of the arm  *)
(* flag that the next one acts on was taken after the disarming.           *)
(***************************************************************************)
Dimming ==
  /\ disarmed_ticks \in 0 .. 2
  /\ disarmed_ticks > 0 => ~g_mavlink_ctx.fc_armed
  /\ disarmed_ticks > 0 /\ led_pc = "got_armed" => ~fc_armed
  /\ DarkSoonAfterDisarm

LEMMA TicksCounted ==
  ASSUME NEW n \in 0 .. 2
  PROVE  /\ Capped(n + 1, 2) \in 0 .. 2
         /\ Capped(n + 1, 2) = 2 => n > 0
BY DEF Capped

LEMMA DimmingStep == Dimming /\ [Next]_vars => Dimming'
<1> SUFFICES ASSUME Dimming, [Next]_vars PROVE Dimming'
  OBVIOUS
<1>z. 0 \in 0 .. 2 /\ ~(0 > 0) /\ 0 # 2
  OBVIOUS
<1>1. CASE LedTick
  <2>1. /\ led_pc = "got_armed" /\ led_pc' = "sleep" /\ Led!Tick(cmd, thermal, fc_armed)
        /\ UNCHANGED g_mavlink_ctx
        /\ disarmed_ticks' = IF g_mavlink_ctx.fc_armed THEN 0
                             ELSE Capped(disarmed_ticks + 1, 2)
    BY <1>1, Zenon DEF LedTick, rxVars
  <2>2. CASE g_mavlink_ctx.fc_armed
    <3>1. disarmed_ticks' = 0
      BY <2>1, <2>2, Zenon
    <3>2. QED
      BY <1>z, <3>1, Zenon DEF Dimming, DarkSoonAfterDisarm
  <2>3. CASE ~g_mavlink_ctx.fc_armed
    <3>1. disarmed_ticks' = Capped(disarmed_ticks + 1, 2)
      BY <2>1, <2>3, Zenon
    <3>2. disarmed_ticks' \in 0 .. 2 /\ (disarmed_ticks' = 2 => disarmed_ticks > 0)
      BY <3>1, TicksCounted, Zenon DEF Dimming
    <3>3. ASSUME disarmed_ticks' = 2 PROVE Led!Dark'
      <4>1. ~fc_armed
        BY <2>1, <3>2, <3>3, Zenon DEF Dimming
      <4>2. Led!Tick(cmd, thermal, fc_armed)
        BY <2>1, Zenon
      <4>3. QED
        BY <4>1, <4>2, DisarmedTick
    <3>4. led_pc' # "got_armed"
      BY <2>1
    <3>5. QED
      BY <2>1, <2>3, <3>2, <3>3, <3>4, Zenon DEF Dimming, DarkSoonAfterDisarm
  <2>4. QED
    BY <2>2, <2>3
<1>2. CASE ~LedTick
  <2>1. UNCHANGED ledVars
    BY <1>2, Zenon DEF Next, LedThread, RxFrame, TxTakeAck, thermal_manager_sample,
       LedGetCommand, LedGetThermal, LedGetArmed, vars
  <2>2. Led!Dark => Led!Dark'
    BY <2>1, Zenon DEF ledVars, Led!Dark, Led!Lit
  <2>3. CASE RxFrame
    <3>1. /\ UNCHANGED <<led_pc, fc_armed>>
          /\ disarmed_ticks' = IF g_mavlink_ctx'.fc_armed THEN 0 ELSE disarmed_ticks
      BY <2>3, Zenon DEF RxFrame, threadVars
    <3>2. QED
      BY <1>z, <2>2, <3>1, Zenon DEF Dimming, DarkSoonAfterDisarm
  <2>4. CASE LedGetArmed
    <3>1. fc_armed' = g_mavlink_ctx.fc_armed /\ UNCHANGED <<g_mavlink_ctx, disarmed_ticks>>
      BY <2>4, Zenon DEF LedGetArmed, rxVars
    <3>2. QED
      BY <2>2, <3>1, Zenon DEF Dimming, DarkSoonAfterDisarm
  <2>5. CASE ~RxFrame /\ ~LedGetArmed
    <3>1. /\ led_pc' = "got_armed" => led_pc = "got_armed"
          /\ UNCHANGED <<g_mavlink_ctx, fc_armed, disarmed_ticks>>
      <4>1. CASE TxTakeAck \/ thermal_manager_sample \/ UNCHANGED vars
        BY <4>1, Zenon DEF TxTakeAck, thermal_manager_sample, vars, rxVars, threadVars
      <4>2. CASE LedGetCommand \/ LedGetThermal
        <5>1. led_pc' \in {"got_cmd", "got_thermal"}
              /\ UNCHANGED <<g_mavlink_ctx, fc_armed, disarmed_ticks>>
          BY <4>2, Zenon DEF LedGetCommand, LedGetThermal, rxVars
        <5>2. QED
          BY <5>1
      <4>3. QED
        BY <1>2, <2>5, <4>1, <4>2, Zenon DEF Next, LedThread
    <3>2. QED
      BY <2>2, <3>1, Zenon DEF Dimming, DarkSoonAfterDisarm
  <2>6. QED
    BY <2>3, <2>4, <2>5
<1>3. QED
  BY <1>1, <1>2

(***************************************************************************)
(* Two ticks after the disarming HEARTBEAT every LED is dark, whatever the *)
(* LED thread was in the middle of and whatever commands are queued.       *)
(***************************************************************************)
THEOREM DisarmIsDark == Spec => []DarkSoonAfterDisarm
<1>1. Init => Dimming
  BY DEF Init, Dimming, DarkSoonAfterDisarm
<1>2. Dimming => DarkSoonAfterDisarm
  BY DEF Dimming
<1>3. QED
  BY <1>1, <1>2, DimmingStep, PTL DEF Spec

-----------------------------------------------------------------------------
(* Heat *)

(***************************************************************************)
(* While an emergency sample has not reached the FSM it is still the       *)
(* latest one, at most one tick has ended since, and a second tick under   *)
(* way has a copy of it.                                                   *)
(***************************************************************************)
OnItsWay ==
  /\ ticks_since_sample \in Nat
  /\ was_critical /\ fsm_state # Led!LED_FSM_EMERGENCY_OFF =>
       /\ g_thermal.emergency_shutdown
       /\ ticks_since_sample \in {0, 1}
       /\ ticks_since_sample = 1 /\ led_pc \in {"got_thermal", "got_armed"} =>
            thermal.emergency_shutdown

LEMMA OnItsWayStep == OnItsWay /\ [Next]_vars => OnItsWay'
<1> SUFFICES ASSUME OnItsWay, [Next]_vars PROVE OnItsWay'
  OBVIOUS
<1>a. TicksPerSample \in Nat /\ TicksPerSample \notin {0, 1} /\ 0 \in Nat /\ 0 # 1
  BY TicksPerSampleAssumption
<1>1. CASE LedTick
  <2>1. /\ led_pc = "got_armed" /\ led_pc' = "sleep" /\ Led!Tick(cmd, thermal, fc_armed)
        /\ UNCHANGED <<g_thermal, was_critical>>
        /\ ticks_since_sample' = Capped(ticks_since_sample + 1, TicksPerSample)
    BY <1>1, Zenon DEF LedTick
  <2>2. /\ fsm_state = Led!LED_FSM_EMERGENCY_OFF \/ thermal.emergency_shutdown =>
             fsm_state' = Led!LED_FSM_EMERGENCY_OFF
    BY <2>1, EmergencyTick, Zenon
  <2>3. \A n \in Nat : Capped(n + 1, TicksPerSample) \in Nat
                       /\ (n = 0 => Capped(n + 1, TicksPerSample) = 1)
    BY <1>a DEF Capped
  <2>4. led_pc' \notin {"got_thermal", "got_armed"}
    BY <2>1
  <2>5. QED
    BY <2>1, <2>2, <2>3, <2>4, Zenon DEF OnItsWay
<1>2. CASE thermal_manager_sample
  <2>1. /\ ticks_since_sample = TicksPerSample /\ ticks_since_sample' = 0
        /\ was_critical' = (was_critical \/ g_thermal'.emergency_shutdown)
        /\ UNCHANGED fsm_state
    BY <1>2, Zenon DEF thermal_manager_sample, ledVars
  <2>2. QED
    BY <1>a, <2>1, Zenon DEF OnItsWay
<1>3. CASE LedGetThermal
  <2>1. thermal' = g_thermal
        /\ UNCHANGED <<g_thermal, ticks_since_sample, was_critical, fsm_state>>
    BY <1>3, Zenon DEF LedGetThermal, ledVars
  <2>2. QED
    BY <2>1, Zenon DEF OnItsWay
<1>4. CASE LedGetArmed
  <2>1. /\ led_pc = "got_thermal"
        /\ UNCHANGED <<thermal, g_thermal, ticks_since_sample, was_critical, fsm_state>>
    BY <1>4, Zenon DEF LedGetArmed, ledVars
  <2>2. QED
    BY <2>1, Zenon DEF OnItsWay
<1>5. CASE LedGetCommand
  <2>1. /\ led_pc' = "got_cmd"
        /\ UNCHANGED <<thermal, g_thermal, ticks_since_sample, was_critical, fsm_state>>
    BY <1>5, Zenon DEF LedGetCommand, ledVars
  <2>2. led_pc' \notin {"got_thermal", "got_armed"}
    BY <2>1
  <2>3. QED
    BY <2>1, <2>2, Zenon DEF OnItsWay
<1>6. CASE RxFrame \/ TxTakeAck \/ UNCHANGED vars
  <2>1. UNCHANGED <<led_pc, thermal, g_thermal, ticks_since_sample, was_critical, fsm_state>>
    BY <1>6, Zenon DEF RxFrame, TxTakeAck, vars, ledVars, threadVars
  <2>2. QED
    BY <2>1, Zenon DEF OnItsWay
<1>7. QED
  BY <1>1, <1>2, <1>3, <1>4, <1>5, <1>6, Zenon DEF Next, LedThread

(***************************************************************************)
(* The emergency flag is not latched, yet no emergency sample is missed,   *)
(* as long as two ticks of the LED thread end between two samples.         *)
(***************************************************************************)
THEOREM EmergencyIsSeen == Spec => []NoMissedEmergency
<1>1. Init => OnItsWay
  BY DEF Init, OnItsWay
<1>2. OnItsWay => NoMissedEmergency
  BY DEF OnItsWay, NoMissedEmergency
<1>3. QED
  BY <1>1, <1>2, OnItsWayStep, PTL DEF Spec
-----------------------------------------------------------------------------
(* The threads implement the FSM's specification *)

(***************************************************************************)
(* What led_manager_tick is called with is what LedManager lets it be      *)
(* called with: the queue holds commands, the flag decoded from a          *)
(* HEARTBEAT is a Boolean also when the frame was truncated, and g_thermal *)
(* is the state of some temperature.                                       *)
(***************************************************************************)
GoodCopies ==
  /\ g_mavlink_ctx.fc_armed \in BOOLEAN
  /\ led_cmd_queue \in Seq(Led!Commands)
  /\ Len(led_cmd_queue) <= LedQueueLen
  /\ g_thermal \in Led!Thermals
  /\ cmd \in Led!Commands \union {NoCmd}
  /\ thermal \in Led!Thermals
  /\ fc_armed \in BOOLEAN

LEMMA ColdIsThermal == ColdThermal \in Led!Thermals
<1>1. 0 \in Temps
  BY ReadingsAssumption
<1>2. ColdThermal = ThermalState(0)
  <2>1. (0 >= 75) = FALSE /\ (0 >= 95) = FALSE
    OBVIOUS
  <2>2. QED
    BY <2>1, Zenon
    DEF ColdThermal, ThermalState, THROTTLE_THRESHOLD_C, SHUTDOWN_THRESHOLD_C
<1>3. ColdThermal = Led!ThermalState(0)
  BY <1>2 DEF ThermalState, Led!ThermalState,
     THROTTLE_THRESHOLD_C, SHUTDOWN_THRESHOLD_C,
     Led!THROTTLE_THRESHOLD_C, Led!SHUTDOWN_THRESHOLD_C
<1>4. QED
  BY <1>1, <1>3, Zenon DEF Led!Thermals

(* A sample is the state of the hotter of two readings, so of a reading.   *)
LEMMA SampleIsThermal ==
  ASSUME NEW led \in Readings, NEW driver \in Readings
  PROVE  SampledThermal(led, driver) \in Led!Thermals
<1>1. adc_to_celsius(led) \in Temps /\ adc_to_celsius(driver) \in Temps
  BY ReadingsAssumption, Zenon
<1>2. PICK t \in Temps : SampledThermal(led, driver) = ThermalState(t)
  BY <1>1 DEF SampledThermal
<1>3. ThermalState(t) = Led!ThermalState(t)
  BY Zenon DEF ThermalState, Led!ThermalState,
     THROTTLE_THRESHOLD_C, SHUTDOWN_THRESHOLD_C,
     Led!THROTTLE_THRESHOLD_C, Led!SHUTDOWN_THRESHOLD_C
<1>4. QED
  BY <1>2, <1>3, Zenon DEF Led!Thermals

(* A frame's fields are of their types, full or not.                       *)
LEMMA FrameFields ==
  ASSUME NEW f \in Frames
  PROVE  /\ f.msg_id = "HEARTBEAT" => Rx!Decoded(f, f.armed, BOOLEAN) \subseteq BOOLEAN
         /\ f.msg_id = "COMMAND_LONG" =>
              Rx!Decoded(f, f.led, Led!Commands) \subseteq Led!Commands
BY FramesAssumption, Zenon DEF Rx!Decoded, Led!Commands

LEMMA PutKeepsQueue ==
  ASSUME NEW S, NEW q \in Seq(S), NEW n \in Nat, Len(q) <= n, NEW e \in S
  PROVE  Rx!MsgqPut(q, n, e) \in Seq(S) /\ Len(Rx!MsgqPut(q, n, e)) <= n
<1>1. CASE Len(q) < n
  <2>1. Append(q, e) \in Seq(S) /\ Len(Append(q, e)) = Len(q) + 1 /\ Len(q) \in Nat
    OBVIOUS
  <2>2. QED
    BY <1>1, <2>1 DEF Rx!MsgqPut
<1>2. CASE ~(Len(q) < n)
  BY <1>2 DEF Rx!MsgqPut
<1>3. QED
  BY <1>1, <1>2

LEMMA GoodCopiesInit == Init => GoodCopies
<1>1. <<>> \in Seq(Led!Commands) /\ Len(<<>>) = 0 /\ 0 <= LedQueueLen
  BY QueueAssumption
<1>2. Init => g_mavlink_ctx.fc_armed = FALSE /\ led_cmd_queue = <<>>
  BY DEF Init, Rx!RxInit
<1>3. QED
  BY <1>1, <1>2, ColdIsThermal DEF Init, GoodCopies

LEMMA GoodCopiesStep == GoodCopies /\ [Next]_vars => GoodCopies'
<1> SUFFICES ASSUME GoodCopies, [Next]_vars PROVE GoodCopies'
  OBVIOUS
<1>a. LedQueueLen \in Nat
  BY QueueAssumption
<1>1. CASE RxFrame
  <2>1. PICK f \in Frames : Rx!HandleFrame(f, 0)
    BY <1>1, Zenon DEF RxFrame
  <2>2. UNCHANGED <<g_thermal, cmd, thermal, fc_armed>>
    BY <1>1, Zenon DEF RxFrame, threadVars
  <2>3. CASE Rx!handle_heartbeat(f, 0)
    <3>1. PICK armed \in Rx!Decoded(f, f.armed, BOOLEAN) :
             g_mavlink_ctx' = [target |-> f.from, last_heartbeat_ms |-> 0,
                               fc_armed |-> armed]
      BY <2>3, Zenon DEF Rx!handle_heartbeat
    <3>2. armed \in BOOLEAN
      BY <2>3, FrameFields, Zenon DEF Rx!handle_heartbeat
    <3>3. g_mavlink_ctx'.fc_armed \in BOOLEAN
      BY <3>1, <3>2
    <3>4. UNCHANGED led_cmd_queue
      BY <2>3, Zenon DEF Rx!handle_heartbeat
    <3>5. QED
      BY <2>2, <3>3, <3>4, Zenon DEF GoodCopies
  <2>4. CASE Rx!handle_gimbal_set_attitude(f)
    BY <2>2, <2>4, Zenon DEF Rx!handle_gimbal_set_attitude, GoodCopies
  <2>5. CASE Rx!handle_command_long(f)
    <3>1. UNCHANGED g_mavlink_ctx
      BY <2>5, Zenon DEF Rx!handle_command_long
    <3>2. PICK is_led \in Rx!Decoded(f, f.is_led, BOOLEAN),
               led \in Rx!Decoded(f, f.led, Led!Commands) :
            \/ led_cmd_queue' = Rx!MsgqPut(led_cmd_queue, LedQueueLen, led)
            \/ led_cmd_queue' = led_cmd_queue
      BY <2>5, Zenon DEF Rx!handle_command_long, Led!Commands
    <3>3. led \in Led!Commands
      BY <2>5, FrameFields, Zenon DEF Rx!handle_command_long
    <3>4. led_cmd_queue' \in Seq(Led!Commands) /\ Len(led_cmd_queue') <= LedQueueLen
      BY <1>a, <3>2, <3>3, PutKeepsQueue, Zenon DEF GoodCopies
    <3>5. QED
      BY <2>2, <3>1, <3>4, Zenon DEF GoodCopies
  <2>6. QED
    BY <2>1, <2>3, <2>4, <2>5, Zenon DEF Rx!HandleFrame
<1>2. CASE thermal_manager_sample
  <2>1. g_thermal' \in Led!Thermals
    BY <1>2, SampleIsThermal, Zenon DEF thermal_manager_sample, GoodCopies
  <2>2. UNCHANGED <<g_mavlink_ctx, led_cmd_queue, cmd, thermal, fc_armed>>
    BY <1>2, Zenon DEF thermal_manager_sample, rxVars, threadVars
  <2>3. QED
    BY <2>1, <2>2, Zenon DEF GoodCopies
<1>3. CASE LedGetCommand
  <2>1. UNCHANGED <<g_mavlink_ctx, g_thermal, thermal, fc_armed>>
    BY <1>3, Zenon DEF LedGetCommand
  <2>2. CASE led_cmd_queue # <<>> /\ cmd' = Head(led_cmd_queue)
             /\ led_cmd_queue' = Tail(led_cmd_queue)
    <3>1. /\ Head(led_cmd_queue) \in Led!Commands
          /\ Tail(led_cmd_queue) \in Seq(Led!Commands)
          /\ Len(Tail(led_cmd_queue)) = Len(led_cmd_queue) - 1
          /\ Len(led_cmd_queue) \in Nat
      BY <2>2 DEF GoodCopies
    <3>2. Len(Tail(led_cmd_queue)) <= LedQueueLen
      BY <1>a, <3>1 DEF GoodCopies
    <3>3. QED
      BY <2>1, <2>2, <3>1, <3>2, Zenon DEF GoodCopies
  <2>3. CASE UNCHANGED <<cmd, led_cmd_queue>>
    BY <2>1, <2>3, Zenon DEF GoodCopies
  <2>4. QED
    BY <1>3, <2>2, <2>3, Zenon DEF LedGetCommand
<1>4. CASE LedGetThermal
  BY <1>4, Zenon DEF LedGetThermal, GoodCopies, rxVars
<1>5. CASE LedGetArmed
  BY <1>5, Zenon DEF LedGetArmed, GoodCopies, rxVars
<1>6. CASE LedTick
  <2>1. /\ cmd' = NoCmd /\ thermal' = ColdThermal /\ fc_armed' = FALSE
        /\ UNCHANGED <<g_mavlink_ctx, led_cmd_queue, g_thermal>>
    BY <1>6, Zenon DEF LedTick, rxVars
  <2>2. QED
    BY <2>1, ColdIsThermal, Zenon DEF GoodCopies
<1>7. CASE TxTakeAck \/ UNCHANGED vars
  BY <1>7, Zenon DEF TxTakeAck, vars, rxVars, threadVars, GoodCopies
<1>8. QED
  BY <1>1, <1>2, <1>3, <1>4, <1>5, <1>6, <1>7, Zenon DEF Next, LedThread

(***************************************************************************)
(* The threads implement LedManager: of their steps only the LED thread's  *)
(* call touches the FSM, and it is one of the calls LedManager describes.  *)
(* So what is proved of the FSM holds in the system, however the copies    *)
(* that a call acts on differ in age.                                      *)
(***************************************************************************)
THEOREM ThreadsRunTheFsm == Spec => Led!Spec
<1>1. Init => Led!Init
  BY Zenon DEF Init
<1>2. GoodCopies /\ [Next]_vars => [Led!Next]_(Led!vars)
  <2> SUFFICES ASSUME GoodCopies, [Next]_vars PROVE [Led!Next]_(Led!vars)
    OBVIOUS
  <2>1. CASE LedTick
    <3>1. Led!Tick(cmd, thermal, fc_armed)
      BY <2>1, Zenon DEF LedTick
    <3>2. Led!Next
      BY <3>1, Zenon DEF GoodCopies, Led!Next
    <3>3. QED
      BY <3>2, Zenon
  <2>2. CASE ~LedTick
    <3>1. UNCHANGED ledVars
      BY <2>2, Zenon DEF Next, LedThread, RxFrame, TxTakeAck, thermal_manager_sample,
         LedGetCommand, LedGetThermal, LedGetArmed, vars
    <3>2. QED
      BY <3>1, Zenon DEF ledVars, Led!vars
  <2>3. QED
    BY <2>1, <2>2
<1>3. QED
  BY <1>1, <1>2, GoodCopiesInit, GoodCopiesStep, PTL DEF Spec, Led!Spec

-----------------------------------------------------------------------------
(* What is proved of the FSM holds of it in the system *)

(* The FSM of the proofs about it is the FSM of the system, word for word. *)
LEMMA SameFsm == Led!Spec => LedP!Spec
<1>1. Led!Init => LedP!Init
  BY Zenon DEF
     Led!Init, LedP!Init, Led!ColdThermal, LedP!ColdThermal, Led!ZeroCmd,
     LedP!ZeroCmd, Led!LED_MODE_IDLE, LedP!LED_MODE_IDLE,
     Led!LED_FSM_IDLE, LedP!LED_FSM_IDLE
<1>2. [Led!Next]_(Led!vars) => [LedP!Next]_(LedP!vars)
  BY Zenon DEF
     Led!Next, LedP!Next, Led!vars, LedP!vars, Led!Commands,
     LedP!Commands, Led!Thermals, LedP!Thermals, Led!ThermalState,
     LedP!ThermalState, Led!ColdThermal, LedP!ColdThermal, Led!Tick,
     LedP!Tick, Led!led_manager_tick, LedP!led_manager_tick, Led!StayOff,
     LedP!StayOff, Led!EmergencyOff, LedP!EmergencyOff, Led!ForceIdle,
     LedP!ForceIdle, Led!IdleTick, LedP!IdleTick, Led!SoftStartTick,
     LedP!SoftStartTick, Led!NormalTick, LedP!NormalTick,
     Led!StrobeWhiteTick, LedP!StrobeWhiteTick, Led!StrobePoliceTick,
     LedP!StrobePoliceTick, Led!StrobeSosTick, LedP!StrobeSosTick,
     Led!ThrottleTick, LedP!ThrottleTick, Led!UnknownTick,
     LedP!UnknownTick, Led!SwitchOff, LedP!SwitchOff, Led!set_pwm,
     LedP!set_pwm, Led!aux_gpio, LedP!aux_gpio, Led!DutyAfter,
     LedP!DutyAfter, Led!Duty, LedP!Duty, Led!ThrottleFactor,
     LedP!ThrottleFactor, Led!throttled_brightness,
     LedP!throttled_brightness, Led!Applied, LedP!Applied,
     Led!EntersThrottle, LedP!EntersThrottle, Led!SwitchState,
     LedP!SwitchState, Led!SwitchTicks, LedP!SwitchTicks, Led!Operating,
     LedP!Operating, Led!ForcedIdle, LedP!ForcedIdle, Led!AtCase,
     LedP!AtCase, Led!StateOfMode, LedP!StateOfMode, Led!Starts,
     LedP!Starts, Led!StartRamp, LedP!StartRamp, Led!RampBrightness,
     LedP!RampBrightness, Led!Phase, LedP!Phase, Led!SosElement,
     LedP!SosElement, Led!SosAdvance, LedP!SosAdvance, Led!LED_MODE_IDLE,
     LedP!LED_MODE_IDLE, Led!LED_MODE_NORMAL, LedP!LED_MODE_NORMAL,
     Led!LED_FSM_IDLE, LedP!LED_FSM_IDLE, Led!LED_FSM_SOFT_START,
     LedP!LED_FSM_SOFT_START, Led!LED_FSM_NORMAL, LedP!LED_FSM_NORMAL,
     Led!LED_FSM_STROBE_WHITE, LedP!LED_FSM_STROBE_WHITE,
     Led!LED_FSM_STROBE_POLICE, LedP!LED_FSM_STROBE_POLICE,
     Led!LED_FSM_STROBE_SOS, LedP!LED_FSM_STROBE_SOS,
     Led!LED_FSM_THERMAL_THROTTLE, LedP!LED_FSM_THERMAL_THROTTLE,
     Led!LED_FSM_EMERGENCY_OFF, LedP!LED_FSM_EMERGENCY_OFF,
     Led!THROTTLE_THRESHOLD_C, LedP!THROTTLE_THRESHOLD_C,
     Led!SHUTDOWN_THRESHOLD_C, LedP!SHUTDOWN_THRESHOLD_C
<1>3. QED
  BY <1>1, <1>2, PTL DEF Led!Spec, LedP!Spec

LEMMA SameTypes == LedP!TypeOK => Led!TypeOK
BY Zenon DEF
     Led!TypeOK, LedP!TypeOK, Led!Commands, LedP!Commands, Led!ZeroCmd,
     LedP!ZeroCmd, Led!LED_MODE_IDLE, LedP!LED_MODE_IDLE, Led!Thermals,
     LedP!Thermals, Led!ThermalState, LedP!ThermalState, Led!ColdThermal,
     LedP!ColdThermal, Led!THROTTLE_THRESHOLD_C,
     LedP!THROTTLE_THRESHOLD_C, Led!SHUTDOWN_THRESHOLD_C,
     LedP!SHUTDOWN_THRESHOLD_C

LEMMA FsmTypes == Led!Spec => []Led!TypeOK
<1>1. LedP!Spec => []LedP!TypeOK
  BY LedAssumption, LedP!TypeCorrect DEF LedP!Commands
<1>2. QED
  BY <1>1, SameFsm, SameTypes, PTL

(***************************************************************************)
(* The queues hold at most what they have slots for, the counters stay     *)
(* within their bounds, and the LED thread's copies are whole.             *)
(***************************************************************************)
Acks == [command : {"SET_ATTITUDE", "LED", "OTHER"},
         result : {"ACCEPTED", "UNSUPPORTED"}, to : {f.from : f \in Frames}]

Bounds ==
  /\ ack_queue \in Seq(Acks)
  /\ Len(ack_queue) <= AckQueueLen
  /\ led_pc \in {"sleep", "got_cmd", "got_thermal", "got_armed"}
  /\ ticks_since_sample \in 0 .. TicksPerSample
  /\ was_critical \in BOOLEAN

LEMMA SampleFlag == ASSUME NEW t \in Led!Thermals PROVE t.emergency_shutdown \in BOOLEAN
<1>1. PICK c \in Temps : t = Led!ThermalState(c)
  BY Zenon DEF Led!Thermals
<1>2. t.emergency_shutdown = (c >= Led!SHUTDOWN_THRESHOLD_C)
  BY <1>1, Zenon DEF Led!ThermalState
<1>3. (c >= Led!SHUTDOWN_THRESHOLD_C) \in BOOLEAN
  OBVIOUS
<1>4. QED
  BY <1>2, <1>3, Zenon

LEMMA BoundsStep == GoodCopies /\ GoodCopies' /\ Bounds /\ [Next]_vars => Bounds'
<1> SUFFICES ASSUME GoodCopies, GoodCopies', Bounds, [Next]_vars PROVE Bounds'
  OBVIOUS
<1>a. AckQueueLen \in Nat /\ TicksPerSample \in Nat /\ TicksPerSample # 0
  BY QueueAssumption, TicksPerSampleAssumption
<1>1. CASE RxFrame
  <2>1. PICK f \in Frames : Rx!HandleFrame(f, 0)
    BY <1>1, Zenon DEF RxFrame
  <2>2. UNCHANGED <<led_pc, ticks_since_sample, was_critical>>
    BY <1>1, Zenon DEF RxFrame, threadVars
  <2>3. \/ UNCHANGED ack_queue
        \/ \E a \in Acks : ack_queue' = Rx!MsgqPut(ack_queue, AckQueueLen, a)
    <3>1. CASE Rx!handle_heartbeat(f, 0)
      BY <3>1, Zenon DEF Rx!handle_heartbeat
    <3>2. CASE Rx!handle_gimbal_set_attitude(f)
      <4>1. [command |-> "SET_ATTITUDE", result |-> "ACCEPTED", to |-> f.from] \in Acks
        BY <2>1 DEF Acks
      <4>2. QED
        BY <3>2, <4>1, Zenon DEF Rx!handle_gimbal_set_attitude
    <3>3. CASE Rx!handle_command_long(f)
      <4>1. /\ [command |-> "LED", result |-> "ACCEPTED", to |-> f.from] \in Acks
            /\ [command |-> "OTHER", result |-> "UNSUPPORTED", to |-> f.from] \in Acks
        BY <2>1 DEF Acks
      <4>2. PICK is_led \in Rx!Decoded(f, f.is_led, BOOLEAN) :
              \/ ack_queue' = Rx!MsgqPut(ack_queue, AckQueueLen,
                   [command |-> IF is_led THEN "LED" ELSE "OTHER",
                    result  |-> IF is_led THEN "ACCEPTED" ELSE "UNSUPPORTED",
                    to      |-> f.from])
              \/ UNCHANGED ack_queue
        BY <3>3, Zenon DEF Rx!handle_command_long
      <4>3. CASE is_led
        BY <4>1, <4>2, <4>3, Zenon
      <4>4. CASE ~is_led
        BY <4>1, <4>2, <4>4, Zenon
      <4>5. QED
        BY <4>3, <4>4
    <3>4. QED
      BY <2>1, <3>1, <3>2, <3>3, Zenon DEF Rx!HandleFrame
  <2>4. ack_queue' \in Seq(Acks) /\ Len(ack_queue') <= AckQueueLen
    BY <1>a, <2>3, PutKeepsQueue, Zenon DEF Bounds
  <2>5. QED
    BY <2>2, <2>4, Zenon DEF Bounds
<1>2. CASE TxTakeAck
  <2>1. /\ ack_queue # <<>> /\ ack_queue' = Tail(ack_queue)
        /\ UNCHANGED <<led_pc, ticks_since_sample, was_critical>>
    BY <1>2, Zenon DEF TxTakeAck, threadVars
  <2>2. /\ Tail(ack_queue) \in Seq(Acks)
        /\ Len(Tail(ack_queue)) = Len(ack_queue) - 1
        /\ Len(ack_queue) \in Nat
    BY <2>1 DEF Bounds
  <2>3. Len(Tail(ack_queue)) <= AckQueueLen
    BY <1>a, <2>2 DEF Bounds
  <2>4. QED
    BY <2>1, <2>2, <2>3, Zenon DEF Bounds
<1>3. CASE thermal_manager_sample
  <2>1. /\ ticks_since_sample' = 0
        /\ was_critical' = (was_critical \/ g_thermal'.emergency_shutdown)
        /\ UNCHANGED <<ack_queue, led_pc>>
    BY <1>3, Zenon DEF thermal_manager_sample, rxVars, threadVars
  <2>2. was_critical' \in BOOLEAN
    BY <2>1, SampleFlag, Zenon DEF Bounds, GoodCopies
  <2>3. 0 \in 0 .. TicksPerSample
    BY <1>a
  <2>4. QED
    BY <2>1, <2>2, <2>3, Zenon DEF Bounds
<1>4. CASE LedGetCommand \/ LedGetThermal \/ LedGetArmed
  <2>1. /\ UNCHANGED <<ack_queue, ticks_since_sample, was_critical>>
        /\ led_pc' \in {"got_cmd", "got_thermal", "got_armed"}
    BY <1>4, Zenon DEF LedGetCommand, LedGetThermal, LedGetArmed, rxVars
  <2>2. led_pc' \in {"sleep", "got_cmd", "got_thermal", "got_armed"}
    BY <2>1
  <2>3. QED
    BY <2>1, <2>2, Zenon DEF Bounds
<1>5. CASE LedTick
  <2>1. /\ led_pc' = "sleep" /\ UNCHANGED <<ack_queue, was_critical>>
        /\ ticks_since_sample' = Capped(ticks_since_sample + 1, TicksPerSample)
    BY <1>5, Zenon DEF LedTick, rxVars
  <2>2. \A n \in 0 .. TicksPerSample :
          Capped(n + 1, TicksPerSample) \in 0 .. TicksPerSample
    BY <1>a DEF Capped
  <2>3. QED
    BY <2>1, <2>2, Zenon DEF Bounds
<1>6. CASE UNCHANGED vars
  BY <1>6, Zenon DEF vars, rxVars, threadVars, Bounds
<1>7. QED
  BY <1>1, <1>2, <1>3, <1>4, <1>5, <1>6, Zenon DEF Next, LedThread

(***************************************************************************)
(* Type correctness of the light's side of the system: of the queues and   *)
(* the copies from the invariants above, of the FSM from the proof about   *)
(* the FSM alone.                                                          *)
(***************************************************************************)
THEOREM TypeCorrect == Spec => []TypeOK
<1>1. Init => Bounds
  <2>1. <<>> \in Seq(Acks) /\ Len(<<>>) = 0 /\ 0 <= AckQueueLen /\ 0 \in 0 .. TicksPerSample
    BY QueueAssumption, TicksPerSampleAssumption
  <2>2. QED
    BY <2>1 DEF Init, Rx!RxInit, Bounds
<1>2. Init => Dimming
  BY DEF Init, Dimming, DarkSoonAfterDisarm
<1>3. Led!TypeOK /\ GoodCopies /\ Bounds /\ Dimming => TypeOK
  BY Zenon DEF GoodCopies, Bounds, Dimming, TypeOK
<1>4. QED
  BY <1>1, <1>2, <1>3, GoodCopiesInit, GoodCopiesStep, BoundsStep, DimmingStep,
     ThreadsRunTheFsm, FsmTypes, PTL DEF Spec

(***************************************************************************)
(* From the threads to the lamp: what the four steps of the LED thread do  *)
(* with commands, temperatures and the flag, read one after the other, is  *)
(* what the abstract lamp may do, if only modes of the enum arrive.        *)
(***************************************************************************)
THEOREM SystemIsLamp == ASSUME Modes \subseteq 0 .. 4 PROVE Spec => Led!IsLamp
<1>1. LedP!Spec => LedP!IsLamp
  BY LedAssumption, LedP!FsmIsLamp DEF LedP!Commands
<1>2. LedP!TheLamp!Init => Led!TheLamp!Init
  BY Zenon DEF LedP!TheLamp!Init, Led!TheLamp!Init, LedP!Lit, Led!Lit,
     LedP!LED_FSM_EMERGENCY_OFF, Led!LED_FSM_EMERGENCY_OFF
<1>3. [LedP!TheLamp!Next]_(LedP!TheLamp!lampVars) => [Led!TheLamp!Next]_(Led!TheLamp!lampVars)
  BY Zenon DEF LedP!TheLamp!Next, Led!TheLamp!Next, LedP!TheLamp!lampVars,
     Led!TheLamp!lampVars, LedP!Lit, Led!Lit,
     LedP!LED_FSM_EMERGENCY_OFF, Led!LED_FSM_EMERGENCY_OFF
<1>4. QED
  BY <1>1, <1>2, <1>3, ThreadsRunTheFsm, SameFsm, PTL
  DEF LedP!IsLamp, Led!IsLamp, LedP!TheLamp!Spec, Led!TheLamp!Spec

LEMMA SameShapes ==
  LedP!HeatCap /\ LedP!RampBounded /\ LedP!SosShape /\ LedP!PoliceColours =>
    Led!HeatCap /\ Led!RampBounded /\ Led!SosShape /\ Led!PoliceColours
BY Zenon DEF
     LedP!RampBounded, Led!RampBounded, LedP!LED_FSM_SOFT_START,
     Led!LED_FSM_SOFT_START, LedP!LED_MODE_IDLE, Led!LED_MODE_IDLE,
     LedP!HeatCap, Led!HeatCap, LedP!SosShape, Led!SosShape, LedP!PoliceColours,
     Led!PoliceColours, LedP!Duty, Led!Duty, LedP!throttled_brightness,
     Led!throttled_brightness, LedP!ThrottleFactor, Led!ThrottleFactor,
     LedP!LED_FSM_STROBE_SOS, Led!LED_FSM_STROBE_SOS, LedP!LED_FSM_STROBE_POLICE,
     Led!LED_FSM_STROBE_POLICE, LedP!LED_FSM_THERMAL_THROTTLE,
     Led!LED_FSM_THERMAL_THROTTLE, LedP!LED_FSM_NORMAL, Led!LED_FSM_NORMAL,
     LedP!THROTTLE_THRESHOLD_C, Led!THROTTLE_THRESHOLD_C,
     LedP!SHUTDOWN_THRESHOLD_C, Led!SHUTDOWN_THRESHOLD_C

(***************************************************************************)
(* Between any two steps of the four threads and with any commands in the  *)
(* queue: no duty above what the heat of the latest tick allows of the     *)
(* command, a soft start below its slope, the SOS word in shape, and never *)
(* red and blue together.                                                  *)
(***************************************************************************)
THEOREM OutputsHold ==
  Spec => [](Led!HeatCap /\ Led!RampBounded /\ Led!SosShape /\ Led!PoliceColours)
<1>1. LedP!Spec => []LedP!HeatCap
  BY LedAssumption, LedP!HeatIsCapped DEF LedP!Commands
<1>2. LedP!Spec => []LedP!RampBounded
  BY LedAssumption, LedP!RampIsBounded DEF LedP!Commands
<1>3. LedP!Spec => []LedP!SosShape
  BY LedAssumption, LedP!SosIsAWord DEF LedP!Commands
<1>4. LedP!Spec => []LedP!PoliceColours
  BY LedAssumption, LedP!ColoursKept DEF LedP!Commands
<1>5. QED
  BY <1>1, <1>2, <1>3, <1>4, ThreadsRunTheFsm, SameFsm, SameShapes, PTL
=============================================================================
