----------------------------- MODULE MavlinkRx ------------------------------
(***************************************************************************)
(* The receive side of app/mavlink_agent.c above the parser: what each     *)
(* complete frame does to the shared state and the queues.  A handler is   *)
(* one step: of the threads it shares state with, only the angle loop can  *)
(* preempt it, and that one just reads the setpoint, which a handler       *)
(* writes under one lock.                                                  *)
(*                                                                         *)
(* A frame is a record of its decoded fields.  MAVLink 2 cuts trailing     *)
(* zero bytes off a payload; the decoders return without writing their     *)
(* outputs when that leaves it shorter than they expect, and the handlers  *)
(* go on with uninitialised locals.  Such a frame has full = FALSE, and a  *)
(* field of it can decode to any value at all.                             *)
(***************************************************************************)
EXTENDS Msgq

CONSTANTS
  LedCommands,     \* the LED commands a COMMAND_LONG may carry
  LedQueueLen,     \* slots of led_cmd_queue (8)
  AckQueueLen      \* slots of ack_queue (4)

VARIABLES
  g_mavlink_ctx,   \* target (who to answer), last_heartbeat_ms and fc_armed
  g_setpoint,      \* gimbal mode, pitch_deg and yaw_deg
  led_cmd_queue,   \* LED commands for the LED thread
  ack_queue        \* COMMAND_ACKs for the TX thread

rxVars == <<g_mavlink_ctx, g_setpoint, led_cmd_queue, ack_queue>>

(* Frames: who sent it, whether it is full, and the fields that are used   *)
HeartbeatFrame(from, armed, full) ==
  [msg_id |-> "HEARTBEAT", from |-> from, full |-> full, armed |-> armed]

SetAttitudeFrame(from, for_us, neutral, full) ==
  [msg_id |-> "SET_ATTITUDE", from |-> from, full |-> full,
   for_us |-> for_us, neutral |-> neutral]

CommandFrame(from, for_us, is_led, led, full) ==
  [msg_id |-> "COMMAND_LONG", from |-> from, full |-> full,
   for_us |-> for_us, is_led |-> is_led, led |-> led]

(* What a field of f decodes to: its value, or whatever was on the stack   *)
Decoded(f, value, range) == IF f.full THEN {value} ELSE range

NeutralSetpoint == [mode |-> "NEUTRAL", pitch_deg |-> 0, yaw_deg |-> 0]

(* main() seeds the heartbeat timestamp and the setpoint                   *)
RxInit(now) ==
  /\ g_mavlink_ctx = [target |-> "none", last_heartbeat_ms |-> now,
                      fc_armed |-> FALSE]
  /\ g_setpoint = NeutralSetpoint
  /\ led_cmd_queue = <<>>
  /\ ack_queue = <<>>

(* Any sender's HEARTBEAT is taken for the autopilot's                     *)
handle_heartbeat(f, now) ==
  /\ f.msg_id = "HEARTBEAT"
  /\ \E armed \in Decoded(f, f.armed, BOOLEAN) :
       g_mavlink_ctx' = [target |-> f.from, last_heartbeat_ms |-> now,
                         fc_armed |-> armed]
  /\ UNCHANGED <<g_setpoint, led_cmd_queue, ack_queue>>

(***************************************************************************)
(* NEUTRAL and RETRACT both centre the gimbal; anything else stabilises it *)
(* at the angles the setpoint already has.  The quaternion is stored but   *)
(* nothing reads it.                                                       *)
(***************************************************************************)
handle_gimbal_set_attitude(f) ==
  /\ f.msg_id = "SET_ATTITUDE"
  /\ \E for_us \in Decoded(f, f.for_us, BOOLEAN),
        neutral \in Decoded(f, f.neutral, BOOLEAN) :
       \/ /\ for_us
          /\ g_setpoint' = IF neutral THEN NeutralSetpoint
                           ELSE [g_setpoint EXCEPT !.mode = "STABILIZE"]
          /\ ack_queue' = MsgqPut(ack_queue, AckQueueLen,
               [command |-> "SET_ATTITUDE", result |-> "ACCEPTED", to |-> f.from])
       \/ ~for_us /\ UNCHANGED <<g_setpoint, ack_queue>>
  /\ UNCHANGED <<g_mavlink_ctx, led_cmd_queue>>

(* The LED command is reported accepted whether or not the queue took it   *)
handle_command_long(f) ==
  /\ f.msg_id = "COMMAND_LONG"
  /\ \E for_us \in Decoded(f, f.for_us, BOOLEAN),
        is_led \in Decoded(f, f.is_led, BOOLEAN),
        led \in Decoded(f, f.led, LedCommands) :
       \/ /\ for_us
          /\ led_cmd_queue' = IF is_led
                              THEN MsgqPut(led_cmd_queue, LedQueueLen, led)
                              ELSE led_cmd_queue
          /\ ack_queue' = MsgqPut(ack_queue, AckQueueLen,
               [command |-> IF is_led THEN "LED" ELSE "OTHER",
                result  |-> IF is_led THEN "ACCEPTED" ELSE "UNSUPPORTED",
                to      |-> f.from])
       \/ ~for_us /\ UNCHANGED <<led_cmd_queue, ack_queue>>
  /\ UNCHANGED <<g_mavlink_ctx, g_setpoint>>

(* mavlink_rx_run dispatches a parsed frame at time now                    *)
HandleFrame(f, now) ==
  \/ handle_heartbeat(f, now)
  \/ handle_gimbal_set_attitude(f)
  \/ handle_command_long(f)
=============================================================================
