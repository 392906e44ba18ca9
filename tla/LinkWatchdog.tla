---------------------------- MODULE LinkWatchdog ----------------------------
(***************************************************************************)
(* The link to the autopilot: the RX thread (MavlinkRx), which stamps each *)
(* HEARTBEAT, and the watchdog thread of app/main.c, which feeds the       *)
(* independent watchdog (IWDG) and puts the gimbal in the safe state when  *)
(* the stamp is too old.                                                   *)
(*                                                                         *)
(* The watchdog thread has the lowest priority: between its reading of the *)
(* clock, its reading of the stamp and its acting on the difference, time  *)
(* passes and frames are handled.  The clock is a 32-bit millisecond       *)
(* count; it wraps, and the difference is taken modulo 2^32.               *)
(***************************************************************************)
EXTENDS Integers, Sequences

CONSTANTS
  Frames,             \* the frames that may arrive
  HEARTBEAT_TIMEOUT,  \* age that loses the link (3000 ms)
  WATCHDOG_PERIOD,    \* the watchdog thread's sleep (400 ms)
  IWDG_MAX,           \* the IWDG resets when it is not fed for so long (1600 ms)
  CheckDelay,         \* a due check is finished at most so much later
  U32,                \* the range of the clock
  LedCommands, LedQueueLen, AckQueueLen

(***************************************************************************)
(* The thread's check is short and the threads above it sleep most of the  *)
(* time; how late it may be is a parameter.                                *)
(***************************************************************************)
ASSUME TimeAssumption ==
  /\ HEARTBEAT_TIMEOUT \in Nat
  /\ WATCHDOG_PERIOD \in Nat \ {0}
  /\ CheckDelay \in Nat
  /\ IWDG_MAX \in Nat
  /\ WATCHDOG_PERIOD + 2 * CheckDelay < IWDG_MAX
  /\ U32 \in Nat
  /\ HEARTBEAT_TIMEOUT + WATCHDOG_PERIOD + 2 * CheckDelay + 1 < U32

ASSUME QueueAssumption == /\ LedQueueLen \in Nat \ {0}
                          /\ AckQueueLen \in Nat \ {0}

VARIABLES
  g_mavlink_ctx, g_setpoint, led_cmd_queue, ack_queue,
  now,             \* k_uptime_get_32()
  wd_pc,           \* where the watchdog thread is in its loop
  slept,           \* time since its sleep began
  now_ms, last_hb, \* its locals
  since_feed,      \* time since the IWDG was fed
  hb_age,          \* history: time since the latest HEARTBEAT, up to U32
  attitude_age,    \* history: time since the latest SET_ATTITUDE, up to CheckBound
  age_at_read,     \* history: hb_age when last_hb was read
  raced            \* history: a HEARTBEAT came between reading now and last_hb

Rx == INSTANCE MavlinkRx

rxVars  == <<g_mavlink_ctx, g_setpoint, led_cmd_queue, ack_queue>>
history == <<hb_age, attitude_age, age_at_read, raced>>
vars    == <<rxVars, now, wd_pc, slept, now_ms, last_hb, since_feed, history>>

(* Time from a lost link, or from a setpoint, to the end of the check that sees it *)
CheckBound == WATCHDOG_PERIOD + 2 * CheckDelay + 1

Capped(n, bound) == IF n < bound THEN n ELSE bound

Init ==
  /\ now = 0
  /\ Rx!RxInit(now)
  /\ wd_pc = "sleep"
  /\ slept = 0
  /\ now_ms = 0
  /\ last_hb = 0
  /\ since_feed = 0
  /\ hb_age = 0
  /\ attitude_age = CheckBound
  /\ age_at_read = 0
  /\ raced = FALSE

(* Mutant of TimePasses: the clock does not wrap *)
TimePasses_NoWrap ==
  /\ slept < WATCHDOG_PERIOD + CheckDelay
  /\ now' = now + 1
  /\ slept' = slept + 1
  /\ since_feed' = since_feed + 1
  /\ hb_age' = Capped(hb_age + 1, U32)
  /\ attitude_age' = Capped(attitude_age + 1, CheckBound)
  /\ UNCHANGED <<rxVars, wd_pc, now_ms, last_hb, age_at_read, raced>>

TimePasses ==
  /\ slept < WATCHDOG_PERIOD + CheckDelay
  /\ now' = (now + 1) % U32
  /\ slept' = slept + 1
  /\ since_feed' = since_feed + 1
  /\ hb_age' = Capped(hb_age + 1, U32)
  /\ attitude_age' = Capped(attitude_age + 1, CheckBound)
  /\ UNCHANGED <<rxVars, wd_pc, now_ms, last_hb, age_at_read, raced>>

RxFrame ==
  /\ \E f \in Frames :
       /\ Rx!HandleFrame(f, now)
       /\ hb_age' = IF f.msg_id = "HEARTBEAT" THEN 0 ELSE hb_age
       /\ attitude_age' = IF f.msg_id = "SET_ATTITUDE" /\ (f.for_us \/ ~f.full)
                          THEN 0 ELSE attitude_age
       /\ raced' = (raced \/ (f.msg_id = "HEARTBEAT" /\ wd_pc = "got_now"))
  /\ UNCHANGED <<now, wd_pc, slept, now_ms, last_hb, since_feed, age_at_read>>

(* Mutant of FeedAndReadNow: a lost link is not fed *)
FeedAndReadNow_LinkedOnly ==
  /\ wd_pc = "sleep"
  /\ slept >= WATCHDOG_PERIOD
  /\ wd_pc' = "got_now"
  /\ since_feed' = IF g_setpoint = Rx!NeutralSetpoint THEN since_feed ELSE 0
  /\ now_ms' = now
  /\ raced' = FALSE
  /\ UNCHANGED <<rxVars, now, slept, last_hb, hb_age, attitude_age, age_at_read>>

(* The sleep is over: feed the IWDG and read the clock, outside any lock *)
FeedAndReadNow ==
  /\ wd_pc = "sleep"
  /\ slept >= WATCHDOG_PERIOD
  /\ wd_pc' = "got_now"
  /\ since_feed' = 0
  /\ now_ms' = now
  /\ raced' = FALSE
  /\ UNCHANGED <<rxVars, now, slept, last_hb, hb_age, attitude_age, age_at_read>>

(* Read the stamp under the context lock *)
ReadHeartbeat ==
  /\ wd_pc = "got_now"
  /\ wd_pc' = "got_hb"
  /\ last_hb' = g_mavlink_ctx.last_heartbeat_ms
  /\ age_at_read' = hb_age
  /\ UNCHANGED <<rxVars, now, slept, now_ms, since_feed, hb_age, attitude_age, raced>>

(* Mutant of ElapsedMs: signed arithmetic *)
ElapsedMs_Signed == now_ms - last_hb

ElapsedMs == (now_ms - last_hb) % U32

(* Mutant of TimedOut: the limit itself already counts *)
TimedOut_AtLimit == ElapsedMs >= HEARTBEAT_TIMEOUT

TimedOut == ElapsedMs > HEARTBEAT_TIMEOUT

(***************************************************************************)
(* The safe state is the neutral setpoint and nothing else: neither the    *)
(* LED nor the arm flag nor the fault queue is touched.                    *)
(***************************************************************************)
CheckLink ==
  /\ wd_pc = "got_hb"
  /\ wd_pc' = "sleep"
  /\ slept' = 0
  /\ g_setpoint' = IF TimedOut THEN Rx!NeutralSetpoint ELSE g_setpoint
  /\ UNCHANGED <<g_mavlink_ctx, led_cmd_queue, ack_queue, now, now_ms, last_hb,
                 since_feed, history>>

WatchdogThread == FeedAndReadNow \/ ReadHeartbeat \/ CheckLink

Next == TimePasses \/ RxFrame \/ WatchdogThread

Spec == Init /\ [][Next]_vars

-----------------------------------------------------------------------------
(* Properties *)

TypeOK ==
  /\ g_mavlink_ctx.last_heartbeat_ms \in 0 .. U32 - 1
  /\ g_setpoint \in [mode : {"NEUTRAL", "STABILIZE"}, pitch_deg : {0}, yaw_deg : {0}]
  /\ now \in 0 .. U32 - 1
  /\ wd_pc \in {"sleep", "got_now", "got_hb"}
  /\ slept \in 0 .. WATCHDOG_PERIOD + CheckDelay
  /\ now_ms \in 0 .. U32 - 1
  /\ last_hb \in 0 .. U32 - 1
  /\ since_feed \in Nat
  /\ hb_age \in 0 .. U32
  /\ attitude_age \in 0 .. CheckBound
  /\ age_at_read \in 0 .. U32
  /\ raced \in BOOLEAN

(***************************************************************************)
(* The IWDG is fed in time as long as the watchdog thread gets to run,     *)
(* whatever the other threads do or fail to do.                            *)
(***************************************************************************)
FedInTime == since_feed < IWDG_MAX

(***************************************************************************)
(* When the autopilot has been silent for the timeout and one late check,  *)
(* the gimbal is neutral; setpoints that still arrive from elsewhere move  *)
(* it for one check period at most.  (For outages up to 2^32 ms.)          *)
(***************************************************************************)
SafeStateReached ==
  /\ hb_age \in HEARTBEAT_TIMEOUT + CheckBound .. U32 - 1
  /\ attitude_age = CheckBound
  => g_setpoint = Rx!NeutralSetpoint

EntersSafeState == wd_pc = "got_hb" /\ TimedOut

(***************************************************************************)
(* A check that puts the gimbal in the safe state read the stamp of a      *)
(* HEARTBEAT that was too old, unless a HEARTBEAT was handled while the    *)
(* check was between reading the clock and reading the stamp.              *)
(***************************************************************************)
OnlyARaceIsSpurious == EntersSafeState => age_at_read > HEARTBEAT_TIMEOUT \/ raced

(* The same without the exception: only a lost link causes the safe state. *)
SafeStateJustified == EntersSafeState => age_at_read > HEARTBEAT_TIMEOUT
=============================================================================
