---------------------------- MODULE LightControl ----------------------------
(***************************************************************************)
(* The light from the radio to the LEDs: the RX thread (MavlinkRx), the TX *)
(* thread as the consumer of acknowledgements, the thermal thread, and the *)
(* LED thread of app/main.c around LedManager.                             *)
(*                                                                         *)
(* Before it calls led_manager_tick the LED thread takes a command off the *)
(* queue, copies the thermal state and copies the arm flag, each under its *)
(* own lock and with the others released, so a frame handled or a sample   *)
(* taken in between makes the three copies differ in age.  Each is a step. *)
(***************************************************************************)
EXTENDS Integers, Sequences, ThermalManager

CONSTANTS
  Frames,            \* the frames that may arrive
  Readings,          \* what an NTC may read: a temperature or OpenOrShort
  TicksPerSample,    \* LED ticks that complete between two thermal samples
  LedQueueLen, AckQueueLen,
  Modes, Brightness, Temps, NoCmd, LED_PWM_PERIOD_US, FULL_PCT,
  SOFT_START_STEPS, STROBE_WHITE_ON_TICKS, STROBE_POLICE_TICKS, SosPattern,
  U8, U32

(***************************************************************************)
(* The LED thread sleeps 10 ms and the thermal thread, of lower priority,  *)
(* 100 ms: nominally ten ticks fall between two samples.  The properties   *)
(* need two, and no more is assumed.                                       *)
(***************************************************************************)
ASSUME TicksPerSampleAssumption == TicksPerSample \in Nat \ {0, 1}
ASSUME QueueAssumption == /\ LedQueueLen \in Nat \ {0}
                          /\ AckQueueLen \in Nat \ {0}
ASSUME ReadingsAssumption ==
  {adc_to_celsius(r) : r \in Readings} \union {0} \subseteq Temps
ASSUME FramesAssumption ==
  \A f \in Frames :
    /\ f.msg_id = "HEARTBEAT" => f.armed \in BOOLEAN
    /\ f.msg_id = "COMMAND_LONG" => f.led \in [mode : Modes, brightness_pct : Brightness]

(* What LedManager assumes of its constants *)
ASSUME LedAssumption ==
  /\ Modes \subseteq 0 .. U8 - 2
  /\ Brightness \subseteq 0 .. U8 - 1
  /\ Temps \subseteq Int
  /\ LED_PWM_PERIOD_US \in Nat \ {0}
  /\ FULL_PCT \in Nat \ {0}
  /\ SOFT_START_STEPS \in Nat \ {0}
  /\ STROBE_WHITE_ON_TICKS \in Nat \ {0}
  /\ STROBE_POLICE_TICKS \in Nat \ {0}
  /\ SosPattern \in Seq(Nat \ {0})
  /\ Len(SosPattern) > 0
  /\ U8 \in Nat \ {0}
  /\ U32 \in Nat \ {0}
  /\ SOFT_START_STEPS < U8
  /\ \A i \in 1 .. Len(SosPattern) : SosPattern[i] < U32
  /\ NoCmd \notin [mode : Modes, brightness_pct : Brightness]

VARIABLES
  g_mavlink_ctx, g_setpoint, led_cmd_queue, ack_queue,
  fsm_state, last_cmd, tick_count, sos_idx, soft_start_step, pwm, aux, args,
  g_thermal,          \* the latest thermal sample
  led_pc,             \* where the LED thread is in its loop
  cmd, thermal, fc_armed,  \* the LED thread's locals
  ticks_since_sample, \* ticks completed since the sample, up to TicksPerSample
  disarmed_ticks,     \* history: ticks completed since the disarm, up to 2
  was_critical        \* history: some sample was an emergency

Rx  == INSTANCE MavlinkRx WITH LedCommands <- [mode : Modes, brightness_pct : Brightness]
Led == INSTANCE LedManager

rxVars     == <<g_mavlink_ctx, g_setpoint, led_cmd_queue, ack_queue>>
ledVars    == <<fsm_state, last_cmd, tick_count, sos_idx, soft_start_step, pwm,
                aux, args>>
threadVars == <<led_pc, cmd, thermal, fc_armed>>
vars       == <<rxVars, ledVars, threadVars, g_thermal, ticks_since_sample,
                disarmed_ticks, was_critical>>

Init ==
  /\ Rx!RxInit(0)
  /\ Led!Init
  /\ g_thermal = ColdThermal
  /\ led_pc = "sleep"
  /\ cmd = NoCmd
  /\ thermal = ColdThermal
  /\ fc_armed = FALSE
  /\ ticks_since_sample = 0
  /\ disarmed_ticks = 0
  /\ was_critical = FALSE

Capped(n, bound) == IF n < bound THEN n ELSE bound

(* Time matters to the watchdog only (see LinkWatchdog); here it stands still *)
RxFrame ==
  /\ \E f \in Frames : Rx!HandleFrame(f, 0)
  /\ disarmed_ticks' = IF g_mavlink_ctx'.fc_armed THEN 0 ELSE disarmed_ticks
  /\ UNCHANGED <<ledVars, threadVars, g_thermal, ticks_since_sample, was_critical>>

(* The TX thread takes an acknowledgement to send it *)
TxTakeAck ==
  /\ ack_queue # <<>>
  /\ ack_queue' = Tail(ack_queue)
  /\ UNCHANGED <<g_mavlink_ctx, g_setpoint, led_cmd_queue, ledVars, threadVars,
                 g_thermal, ticks_since_sample, disarmed_ticks, was_critical>>

(* thermal_manager_sample; when adc_read fails the old state stays *)
thermal_manager_sample ==
  /\ ticks_since_sample = TicksPerSample
  /\ \/ \E led, driver \in Readings : g_thermal' = SampledThermal(led, driver)
     \/ UNCHANGED g_thermal
  /\ ticks_since_sample' = 0
  /\ was_critical' = (was_critical \/ g_thermal'.emergency_shutdown)
  /\ UNCHANGED <<rxVars, ledVars, threadVars, disarmed_ticks>>

LedGetCommand ==
  /\ led_pc = "sleep"
  /\ led_pc' = "got_cmd"
  /\ \/ /\ led_cmd_queue # <<>>
        /\ cmd' = Head(led_cmd_queue)
        /\ led_cmd_queue' = Tail(led_cmd_queue)
     \/ led_cmd_queue = <<>> /\ UNCHANGED <<cmd, led_cmd_queue>>
  /\ UNCHANGED <<g_mavlink_ctx, g_setpoint, ack_queue, ledVars, thermal, fc_armed,
                 g_thermal, ticks_since_sample, disarmed_ticks, was_critical>>

(* Mutant of LedGetThermal: a tick with a command reuses the last snapshot *)
LedGetThermal_SkippedForCommand ==
  /\ led_pc = "got_cmd"
  /\ led_pc' = "got_thermal"
  /\ thermal' = IF cmd = NoCmd THEN g_thermal ELSE args.thermal
  /\ UNCHANGED <<rxVars, ledVars, cmd, fc_armed, g_thermal, ticks_since_sample,
                 disarmed_ticks, was_critical>>

LedGetThermal ==
  /\ led_pc = "got_cmd"
  /\ led_pc' = "got_thermal"
  /\ thermal' = g_thermal
  /\ UNCHANGED <<rxVars, ledVars, cmd, fc_armed, g_thermal, ticks_since_sample,
                 disarmed_ticks, was_critical>>

LedGetArmed ==
  /\ led_pc = "got_thermal"
  /\ led_pc' = "got_armed"
  /\ fc_armed' = g_mavlink_ctx.fc_armed
  /\ UNCHANGED <<rxVars, ledVars, cmd, thermal, g_thermal, ticks_since_sample,
                 disarmed_ticks, was_critical>>

(* The call, and back to sleep; the locals no longer hold anything *)
LedTick ==
  /\ led_pc = "got_armed"
  /\ Led!Tick(cmd, thermal, fc_armed)
  /\ led_pc' = "sleep"
  /\ cmd' = NoCmd
  /\ thermal' = ColdThermal
  /\ fc_armed' = FALSE
  /\ ticks_since_sample' = Capped(ticks_since_sample + 1, TicksPerSample)
  /\ disarmed_ticks' = IF g_mavlink_ctx.fc_armed THEN 0
                       ELSE Capped(disarmed_ticks + 1, 2)
  /\ UNCHANGED <<rxVars, g_thermal, was_critical>>

LedThread == LedGetCommand \/ LedGetThermal \/ LedGetArmed \/ LedTick

Next == RxFrame \/ TxTakeAck \/ thermal_manager_sample \/ LedThread

Spec == Init /\ [][Next]_vars

-----------------------------------------------------------------------------
(* Properties *)

TypeOK ==
  /\ Led!TypeOK
  /\ g_mavlink_ctx.fc_armed \in BOOLEAN
  /\ Len(led_cmd_queue) <= LedQueueLen
  /\ Len(ack_queue) <= AckQueueLen
  /\ g_thermal \in Led!Thermals
  /\ led_pc \in {"sleep", "got_cmd", "got_thermal", "got_armed"}
  /\ cmd \in Led!Commands \union {NoCmd}
  /\ thermal \in Led!Thermals
  /\ fc_armed \in BOOLEAN
  /\ ticks_since_sample \in 0 .. TicksPerSample
  /\ disarmed_ticks \in 0 .. 2
  /\ was_critical \in BOOLEAN

(***************************************************************************)
(* Disarming turns the light off: the tick under way when the disarming    *)
(* HEARTBEAT is handled may still act on the old flag, but after two ticks *)
(* every LED is dark and stays so until the autopilot is armed again,      *)
(* whatever commands arrive in between.                                    *)
(***************************************************************************)
DarkSoonAfterDisarm == disarmed_ticks = 2 => Led!Dark

(***************************************************************************)
(* No emergency is missed: the flag is not latched in g_thermal, a cooler  *)
(* sample clears it, and the LED thread may read it late; yet once there   *)
(* was an emergency sample, the FSM is in emergency off at the latest when *)
(* two ticks have passed, so before the next sample can hide it.           *)
(***************************************************************************)
NoMissedEmergency ==
  was_critical /\ (~g_thermal.emergency_shutdown \/ ticks_since_sample >= 2)
    => fsm_state = Led!LED_FSM_EMERGENCY_OFF

(***************************************************************************)
(* The LED thread's own guarantee, in the system: emergency off is final.  *)
(***************************************************************************)
EmergencyHolds == Led!EmergencyHolds

(***************************************************************************)
(* An LED command that is acknowledged as accepted has been given to the   *)
(* LED thread's queue.                                                     *)
(***************************************************************************)
AcceptedIsQueued ==
  [][ /\ Len(ack_queue') > Len(ack_queue)
      /\ ack_queue'[Len(ack_queue')].command = "LED"
      /\ ack_queue'[Len(ack_queue')].result = "ACCEPTED"
      => Len(led_cmd_queue') > Len(led_cmd_queue) ]_vars
=============================================================================
