------------------------- MODULE LinkWatchdogProofs --------------------------
(***************************************************************************)
(* Theorems about LinkWatchdog, for all periods, delays, frames and clock  *)
(* ranges.                                                                 *)
(***************************************************************************)
EXTENDS LinkWatchdog, TLAPS

Setpoints == [mode : {"NEUTRAL", "STABILIZE"}, pitch_deg : {0}, yaw_deg : {0}]

(* A frame leaves a setpoint a setpoint, and stamps with the clock or not  *)
(* at all: no handler writes the rest of the model's state                 *)
LEMMA FrameType ==
  ASSUME NEW f, NEW t \in 0 .. U32 - 1, Rx!HandleFrame(f, t),
         g_mavlink_ctx.last_heartbeat_ms \in 0 .. U32 - 1, g_setpoint \in Setpoints
  PROVE  /\ g_mavlink_ctx'.last_heartbeat_ms \in 0 .. U32 - 1
         /\ g_setpoint' \in Setpoints
<1>1. CASE Rx!handle_heartbeat(f, t)
  BY <1>1 DEF Rx!handle_heartbeat
<1>2. CASE Rx!handle_gimbal_set_attitude(f)
  BY <1>2 DEF Rx!handle_gimbal_set_attitude, Setpoints, Rx!NeutralSetpoint
<1>3. CASE Rx!handle_command_long(f)
  BY <1>3 DEF Rx!handle_command_long
<1>4. QED
  BY <1>1, <1>2, <1>3 DEF Rx!HandleFrame

LEMMA InitType == Init => TypeOK
<1> SUFFICES ASSUME Init PROVE TypeOK
  OBVIOUS
<1>1. U32 \in Nat /\ 0 \in 0 .. U32 - 1 /\ 0 \in 0 .. U32
  BY TimeAssumption
<1>2. /\ 0 \in 0 .. WATCHDOG_PERIOD + CheckDelay
      /\ CheckBound \in 0 .. CheckBound
  BY TimeAssumption DEF CheckBound
<1>3. /\ g_mavlink_ctx.last_heartbeat_ms = 0
      /\ g_setpoint \in Setpoints
  BY DEF Init, Rx!RxInit, Rx!NeutralSetpoint, Setpoints
<1>4. raced \in BOOLEAN
  BY Zenon DEF Init
<1>5. QED
  BY <1>1, <1>2, <1>3, <1>4 DEF Init, TypeOK, Setpoints

LEMMA TimeType == TypeOK /\ TimePasses => TypeOK'
<1> SUFFICES ASSUME TypeOK, TimePasses PROVE TypeOK'
  OBVIOUS
<1> USE TimeAssumption DEF TypeOK
<1>1. now' \in 0 .. U32 - 1
  BY DEF TimePasses
<1>2. slept' \in 0 .. WATCHDOG_PERIOD + CheckDelay /\ since_feed' \in Nat
  BY DEF TimePasses
<1>3. hb_age' \in 0 .. U32 /\ attitude_age' \in 0 .. CheckBound
  BY DEF TimePasses, Capped, CheckBound
<1>4. QED
  BY <1>1, <1>2, <1>3 DEF TimePasses, rxVars

LEMMA RxType == TypeOK /\ RxFrame => TypeOK'
<1> SUFFICES ASSUME TypeOK, RxFrame PROVE TypeOK'
  OBVIOUS
<1>1. PICK f \in Frames :
        /\ Rx!HandleFrame(f, now)
        /\ hb_age' = IF f.msg_id = "HEARTBEAT" THEN 0 ELSE hb_age
        /\ attitude_age' = IF f.msg_id = "SET_ATTITUDE" /\ (f.for_us \/ ~f.full)
                           THEN 0 ELSE attitude_age
        /\ raced' = (raced \/ (f.msg_id = "HEARTBEAT" /\ wd_pc = "got_now"))
  BY DEF RxFrame
<1>2. /\ g_mavlink_ctx'.last_heartbeat_ms \in 0 .. U32 - 1
      /\ g_setpoint' \in Setpoints
  BY <1>1, FrameType DEF TypeOK, Setpoints
<1>3. hb_age' \in 0 .. U32 /\ attitude_age' \in 0 .. CheckBound
  BY <1>1, TimeAssumption DEF TypeOK, CheckBound
<1>4. raced' \in BOOLEAN
  BY <1>1, Zenon DEF TypeOK
<1>5. QED
  BY <1>2, <1>3, <1>4 DEF TypeOK, RxFrame, Setpoints

LEMMA CheckType == TypeOK /\ WatchdogThread => TypeOK'
<1> SUFFICES ASSUME TypeOK, WatchdogThread PROVE TypeOK'
  OBVIOUS
<1> USE TimeAssumption DEF TypeOK
<1>1. CASE FeedAndReadNow
  BY <1>1 DEF FeedAndReadNow, rxVars
<1>2. CASE ReadHeartbeat
  BY <1>2 DEF ReadHeartbeat, rxVars
<1>3. CASE CheckLink
  BY <1>3 DEF CheckLink, history, Rx!NeutralSetpoint
<1>4. QED
  BY <1>1, <1>2, <1>3 DEF WatchdogThread

(***************************************************************************)
(* Whatever frames come, full or cut short, the stamp is a time of the     *)
(* 32-bit clock and the setpoint one that the handlers or the safe state   *)
(* write.                                                                  *)
(***************************************************************************)
THEOREM TypeCorrect == Spec => []TypeOK
<1>1. TypeOK /\ [Next]_vars => TypeOK'
  <2> SUFFICES ASSUME TypeOK, [Next]_vars PROVE TypeOK'
    OBVIOUS
  <2>1. CASE UNCHANGED vars
    BY <2>1 DEF TypeOK, vars, rxVars, history
  <2>2. QED
    BY <2>1, TimeType, RxType, CheckType DEF Next
<1>2. QED
  BY <1>1, InitType, PTL DEF Spec

-----------------------------------------------------------------------------
(* The independent watchdog *)

(***************************************************************************)
(* While a check is under way its delay bounds the time since the feeding  *)
(* that began it; while the thread sleeps, that delay and the sleep do.    *)
(***************************************************************************)
Fed ==
  \/ wd_pc = "sleep" /\ since_feed <= slept + CheckDelay
  \/ wd_pc # "sleep" /\ WATCHDOG_PERIOD + since_feed <= slept

LEMMA FedStep == TypeOK /\ Fed /\ [Next]_vars => Fed'
<1> SUFFICES ASSUME TypeOK, Fed, [Next]_vars PROVE Fed'
  OBVIOUS
<1> USE TimeAssumption DEF TypeOK, Fed
<1>1. CASE TimePasses
  BY <1>1 DEF TimePasses
<1>2. CASE RxFrame
  BY <1>2 DEF RxFrame
<1>3. CASE FeedAndReadNow
  BY <1>3 DEF FeedAndReadNow
<1>4. CASE ReadHeartbeat
  BY <1>4 DEF ReadHeartbeat
<1>5. CASE CheckLink
  BY <1>5 DEF CheckLink
<1>6. CASE UNCHANGED vars
  BY <1>6 DEF vars
<1>7. QED
  BY <1>1, <1>2, <1>3, <1>4, <1>5, <1>6 DEF Next, WatchdogThread

(***************************************************************************)
(* The IWDG is fed in time, whatever frames come: the two delays and the   *)
(* period are less than its timeout.                                       *)
(***************************************************************************)
THEOREM IwdgFed == Spec => []FedInTime
<1>1. Init => Fed
  BY TimeAssumption DEF Init, Fed
<1>2. TypeOK /\ Fed => FedInTime
  BY TimeAssumption DEF TypeOK, Fed, FedInTime
<1>3. QED
  BY <1>1, <1>2, FedStep, TypeCorrect, PTL DEF Spec

-----------------------------------------------------------------------------
(* The wrapping clock *)

(* The clock showed a, d before it shows b *)
Before(a, b, d) == a = b - d \/ a = b - d + U32

LEMMA ClockStep ==
  ASSUME NEW b \in 0 .. U32 - 1
  PROVE  (b + 1) % U32 = IF b = U32 - 1 THEN 0 ELSE b + 1
<1>1. U32 \in Nat /\ U32 > 0
  BY TimeAssumption
<1>2. CASE b = U32 - 1
  BY <1>1, <1>2
<1>3. CASE b # U32 - 1
  <2>1. b + 1 \in 0 .. U32 - 1
    BY <1>1, <1>3
  <2>2. QED
    BY <1>1, <1>3, <2>1
<1>4. QED
  BY <1>2, <1>3

(* The unsigned difference of two readings of the clock *)
LEMMA ClockDifference ==
  ASSUME NEW a \in 0 .. U32 - 1, NEW b \in 0 .. U32 - 1
  PROVE  (a - b) % U32 = IF b <= a THEN a - b ELSE a - b + U32
<1>1. U32 \in Nat /\ U32 > 0
  BY TimeAssumption
<1>2. CASE b <= a
  BY <1>1, <1>2
<1>3. CASE ~(b <= a)
  <2>1. a - b + U32 \in 0 .. U32 - 1
    BY <1>1, <1>3
  <2>2. (a - b) % U32 = (a - b + U32) % U32
    BY <1>1
  <2>3. QED
    BY <1>1, <1>3, <2>1, <2>2
<1>4. QED
  BY <1>2, <1>3

LEMMA BeforeStep ==
  ASSUME NEW a \in 0 .. U32 - 1, NEW b \in 0 .. U32 - 1, NEW d \in Nat, d + 1 < U32,
         Before(a, b, d)
  PROVE  Before(a, (b + 1) % U32, d + 1)
<1> DEFINE c == (b + 1) % U32
<1>1. c = IF b = U32 - 1 THEN 0 ELSE b + 1
  BY ClockStep
<1>2. U32 \in Nat
  BY TimeAssumption
<1> HIDE DEF c
<1>3. Before(a, c, d + 1)
  BY <1>1, <1>2 DEF Before
<1>4. QED
  BY <1>3 DEF c

(***************************************************************************)
(* The stamp is as old as the latest HEARTBEAT; the thread's copy of the   *)
(* clock as old as the feeding before it, which no HEARTBEAT preceded      *)
(* unless one raced; and the difference errs by that age at most.          *)
(***************************************************************************)
Stamped  == hb_age < U32 => Before(g_mavlink_ctx.last_heartbeat_ms, now, hb_age)
ReadNow  == wd_pc = "got_now" => /\ Before(now_ms, now, since_feed)
                                 /\ raced \/ since_feed <= hb_age
ReadBoth == wd_pc = "got_hb" => /\ raced \/ ElapsedMs <= age_at_read \/ age_at_read = U32
                                /\ hb_age < U32 => hb_age <= ElapsedMs + since_feed

Timed == Stamped /\ ReadNow /\ ReadBoth

LEMMA ElapsedType == TypeOK => ElapsedMs \in 0 .. U32 - 1
  BY ClockDifference, TimeAssumption DEF TypeOK, ElapsedMs

LEMMA InitTimed == Init => Timed
  BY TimeAssumption DEF Init, Timed, Stamped, ReadNow, ReadBoth, Before, Rx!RxInit

LEMMA TimePassesTimed == TypeOK /\ Fed /\ Timed /\ TimePasses => Timed'
<1> SUFFICES ASSUME TypeOK, Fed, Timed, TimePasses PROVE Timed'
  OBVIOUS
<1>1. Stamped'
  <2> SUFFICES ASSUME hb_age' < U32
               PROVE  Before(g_mavlink_ctx.last_heartbeat_ms, (now + 1) % U32, hb_age')
    BY DEF Stamped, TimePasses, rxVars
  <2>1. hb_age \in Nat /\ hb_age' = hb_age + 1 /\ hb_age + 1 < U32
    BY TimeAssumption DEF TypeOK, TimePasses, Capped
  <2>2. Before(g_mavlink_ctx.last_heartbeat_ms, now, hb_age)
    BY <2>1, TimeAssumption DEF Timed, Stamped
  <2>3. QED
    BY <2>1, <2>2, BeforeStep DEF TypeOK
<1>2. ReadNow'
  <2> SUFFICES ASSUME wd_pc = "got_now"
               PROVE  /\ Before(now_ms, (now + 1) % U32, since_feed + 1)
                      /\ raced \/ since_feed + 1 <= hb_age'
    BY DEF ReadNow, TimePasses
  <2>1. since_feed \in Nat /\ since_feed + 1 < U32
    BY TimeAssumption DEF TypeOK, Fed
  <2>2. Before(now_ms, now, since_feed)
    BY DEF Timed, ReadNow
  <2>3. Before(now_ms, (now + 1) % U32, since_feed + 1)
    BY <2>1, <2>2, BeforeStep DEF TypeOK
  <2>4. CASE raced
    BY <2>3, <2>4
  <2>5. CASE ~raced
    <3>1. since_feed <= hb_age
      BY <2>5, Zenon DEF Timed, ReadNow
    <3>2. since_feed + 1 <= hb_age'
      BY <2>1, <3>1, TimeAssumption DEF TypeOK, TimePasses, Capped
    <3>3. QED
      BY <2>3, <3>2
  <2>6. QED
    BY <2>4, <2>5
<1>3. ReadBoth'
  <2>0. ElapsedMs' = ElapsedMs
    BY DEF TimePasses, ElapsedMs
  <2> SUFFICES ASSUME wd_pc = "got_hb"
               PROVE  /\ raced \/ ElapsedMs <= age_at_read \/ age_at_read = U32
                      /\ hb_age' < U32 => hb_age' <= ElapsedMs + (since_feed + 1)
    BY <2>0, Zenon DEF ReadBoth, TimePasses
  <2>1. raced \/ ElapsedMs <= age_at_read \/ age_at_read = U32
    BY Zenon DEF Timed, ReadBoth
  <2>2. hb_age' < U32 => hb_age < U32 /\ hb_age' = hb_age + 1
    BY TimeAssumption DEF TypeOK, TimePasses, Capped
  <2>3. hb_age < U32 => hb_age <= ElapsedMs + since_feed
    BY Zenon DEF Timed, ReadBoth
  <2>4. hb_age' < U32 => hb_age' <= ElapsedMs + (since_feed + 1)
    BY <2>2, <2>3, ElapsedType DEF TypeOK
  <2>5. QED
    BY <2>1, <2>4
<1>4. QED
  BY <1>1, <1>2, <1>3 DEF Timed

(* The context is stamped by HEARTBEATs and by nothing else *)
LEMMA StampOrNot ==
  ASSUME NEW f, NEW t, Rx!HandleFrame(f, t)
  PROVE  \/ f.msg_id = "HEARTBEAT" /\ g_mavlink_ctx'.last_heartbeat_ms = t
         \/ f.msg_id # "HEARTBEAT" /\ g_mavlink_ctx' = g_mavlink_ctx
<1>1. CASE Rx!handle_heartbeat(f, t)
  BY <1>1 DEF Rx!handle_heartbeat
<1>2. CASE Rx!handle_gimbal_set_attitude(f)
  BY <1>2 DEF Rx!handle_gimbal_set_attitude
<1>3. CASE Rx!handle_command_long(f)
  BY <1>3 DEF Rx!handle_command_long
<1>4. QED
  BY <1>1, <1>2, <1>3 DEF Rx!HandleFrame

LEMMA RxFrameTimed == TypeOK /\ Timed /\ RxFrame => Timed'
<1> SUFFICES ASSUME TypeOK, Timed, RxFrame PROVE Timed'
  OBVIOUS
<1>1. PICK f \in Frames :
        /\ Rx!HandleFrame(f, now)
        /\ hb_age' = IF f.msg_id = "HEARTBEAT" THEN 0 ELSE hb_age
        /\ raced' = (raced \/ (f.msg_id = "HEARTBEAT" /\ wd_pc = "got_now"))
  BY DEF RxFrame
<1>2. UNCHANGED <<now, wd_pc, slept, now_ms, last_hb, since_feed, age_at_read>>
  BY DEF RxFrame
<1>3. CASE f.msg_id = "HEARTBEAT"
  <2>1. hb_age' = 0 /\ g_mavlink_ctx'.last_heartbeat_ms = now
    BY <1>1, <1>3, StampOrNot
  <2>2. Stamped'
    BY <1>2, <2>1 DEF Stamped, Before, TypeOK
  <2>3. ReadNow'
    BY <1>1, <1>2, <1>3, Zenon DEF Timed, ReadNow, Before
  <2>4. hb_age' <= ElapsedMs + since_feed
    BY <2>1, ElapsedType, TimeAssumption DEF TypeOK
  <2>5. wd_pc = "got_hb" => raced' \/ ElapsedMs <= age_at_read \/ age_at_read = U32
    BY <1>1, Zenon DEF Timed, ReadBoth
  <2>6. ReadBoth'
    BY <1>2, <2>4, <2>5, Zenon DEF ReadBoth, ElapsedMs
  <2>7. QED
    BY <2>2, <2>3, <2>6 DEF Timed
<1>4. CASE f.msg_id # "HEARTBEAT"
  <2>1. hb_age' = hb_age /\ g_mavlink_ctx' = g_mavlink_ctx
    BY <1>1, <1>4, StampOrNot
  <2>2. raced' = raced
    BY <1>1, <1>4, Zenon DEF TypeOK
  <2>3. QED
    BY <1>2, <2>1, <2>2, Zenon DEF Timed, Stamped, ReadNow, ReadBoth, Before, ElapsedMs
<1>5. QED
  BY <1>3, <1>4

LEMMA CheckTimed == TypeOK /\ Timed /\ WatchdogThread => Timed'
<1> SUFFICES ASSUME TypeOK, Timed, WatchdogThread PROVE Timed'
  OBVIOUS
<1> USE TimeAssumption DEF TypeOK, Timed
<1>1. CASE FeedAndReadNow
  BY <1>1 DEF FeedAndReadNow, rxVars, Stamped, ReadNow, ReadBoth, Before
<1>2. CASE ReadHeartbeat
  <2>1. Stamped' /\ ReadNow'
    BY <1>2 DEF ReadHeartbeat, rxVars, Stamped, ReadNow, Before
  <2>2. now_ms \in 0 .. U32 - 1 /\ g_mavlink_ctx.last_heartbeat_ms \in 0 .. U32 - 1
    OBVIOUS
  <2> DEFINE stamp == g_mavlink_ctx.last_heartbeat_ms
             elapsed == (now_ms - stamp) % U32
  <2>3. ElapsedMs' = elapsed
    BY <1>2 DEF ReadHeartbeat, ElapsedMs
  <2>4. elapsed = IF stamp <= now_ms THEN now_ms - stamp ELSE now_ms - stamp + U32
    BY <2>2, ClockDifference
  <2>5. /\ Before(now_ms, now, since_feed)
        /\ raced \/ since_feed <= hb_age
    BY <1>2, Zenon DEF ReadHeartbeat, ReadNow
  <2>6. hb_age < U32 => Before(stamp, now, hb_age)
    BY Zenon DEF Stamped
  <2> HIDE DEF elapsed, stamp
  <2>7. hb_age < U32 => hb_age <= elapsed + since_feed
    BY <2>2, <2>4, <2>5, <2>6 DEF Before, stamp
  <2>8. since_feed <= hb_age => elapsed <= hb_age \/ hb_age = U32
    BY <2>2, <2>4, <2>5, <2>6 DEF Before, stamp
  <2>9. raced \/ elapsed <= hb_age \/ hb_age = U32
    BY <2>5, <2>8, Zenon
  <2>10. ReadBoth'
    BY <1>2, <2>3, <2>7, <2>9, Zenon DEF ReadHeartbeat, ReadBoth
  <2>11. QED
    BY <2>1, <2>10
<1>3. CASE CheckLink
  BY <1>3 DEF CheckLink, history, Stamped, ReadNow, ReadBoth, Before
<1>4. QED
  BY <1>1, <1>2, <1>3 DEF WatchdogThread

LEMMA TimedStep == TypeOK /\ Fed /\ Timed /\ [Next]_vars => Timed'
<1> SUFFICES ASSUME TypeOK, Fed, Timed, [Next]_vars PROVE Timed'
  OBVIOUS
<1>1. CASE UNCHANGED vars
  BY <1>1, Zenon DEF vars, rxVars, history, Timed, Stamped, ReadNow, ReadBoth, Before, ElapsedMs
<1>2. QED
  BY <1>1, TimePassesTimed, RxFrameTimed, CheckTimed DEF Next

LEMMA AlwaysTimed == Spec => [](TypeOK /\ Fed /\ Timed)
<1>1. Init => Fed
  BY TimeAssumption DEF Init, Fed
<1>2. QED
  BY <1>1, InitTimed, FedStep, TimedStep, TypeCorrect, PTL DEF Spec

(***************************************************************************)
(* Whatever the alignment of clock, stamp and check, only a stamp that is  *)
(* too old, or a HEARTBEAT between the two readings, causes the safe state.*)
(***************************************************************************)
THEOREM SpuriousOnlyByRace == Spec => []OnlyARaceIsSpurious
<1>1. TypeOK /\ Timed => OnlyARaceIsSpurious
  <2> SUFFICES ASSUME TypeOK, Timed, EntersSafeState, ~raced
               PROVE  age_at_read > HEARTBEAT_TIMEOUT
    BY Zenon DEF OnlyARaceIsSpurious
  <2>1. ElapsedMs > HEARTBEAT_TIMEOUT
    BY DEF EntersSafeState, TimedOut
  <2>2. ElapsedMs <= age_at_read \/ age_at_read = U32
    BY Zenon DEF EntersSafeState, Timed, ReadBoth
  <2>3. QED
    BY <2>1, <2>2, ElapsedType, TimeAssumption DEF TypeOK
<1>2. QED
  BY <1>1, AlwaysTimed, PTL

-----------------------------------------------------------------------------
(* The safe state *)

(***************************************************************************)
(* A setpoint that is not neutral came after the latest check, or that     *)
(* check found the link alive.                                             *)
(***************************************************************************)
Steered ==
  g_setpoint # Rx!NeutralSetpoint /\ hb_age < U32 =>
    attitude_age <= slept \/ hb_age <= HEARTBEAT_TIMEOUT + slept + CheckDelay

(* Only SET_ATTITUDE frames change the setpoint *)
LEMMA SetpointOrNot ==
  ASSUME NEW f, NEW t, Rx!HandleFrame(f, t)
  PROVE  \/ f.msg_id = "SET_ATTITUDE" /\ (f.for_us \/ ~f.full)
         \/ g_setpoint' = g_setpoint
<1>1. CASE Rx!handle_heartbeat(f, t)
  BY <1>1 DEF Rx!handle_heartbeat
<1>2. CASE Rx!handle_gimbal_set_attitude(f)
  BY <1>2, Zenon DEF Rx!handle_gimbal_set_attitude, Rx!Decoded
<1>3. CASE Rx!handle_command_long(f)
  BY <1>3 DEF Rx!handle_command_long
<1>4. QED
  BY <1>1, <1>2, <1>3 DEF Rx!HandleFrame

LEMMA SteeredStep == TypeOK /\ Fed /\ Timed /\ Steered /\ [Next]_vars => Steered'
<1> SUFFICES ASSUME TypeOK, Fed, Timed, Steered, [Next]_vars,
                    g_setpoint' # Rx!NeutralSetpoint, hb_age' < U32
             PROVE  \/ attitude_age' <= slept'
                    \/ hb_age' <= HEARTBEAT_TIMEOUT + slept' + CheckDelay
  BY DEF Steered, Rx!NeutralSetpoint
<1>1. CASE TimePasses
  <2>1. /\ g_setpoint # Rx!NeutralSetpoint /\ hb_age < U32 /\ hb_age' = hb_age + 1
        /\ attitude_age' \in {attitude_age, attitude_age + 1} /\ slept' = slept + 1
    BY <1>1, TimeAssumption DEF TypeOK, TimePasses, rxVars, Capped, CheckBound
  <2>2. attitude_age <= slept \/ hb_age <= HEARTBEAT_TIMEOUT + slept + CheckDelay
    BY <2>1, Zenon DEF Steered
  <2>3. QED
    BY <2>1, <2>2, TimeAssumption DEF TypeOK, CheckBound
<1>2. CASE RxFrame
  <2>1. PICK f \in Frames :
          /\ Rx!HandleFrame(f, now)
          /\ hb_age' = IF f.msg_id = "HEARTBEAT" THEN 0 ELSE hb_age
          /\ attitude_age' = IF f.msg_id = "SET_ATTITUDE" /\ (f.for_us \/ ~f.full)
                             THEN 0 ELSE attitude_age
    BY <1>2 DEF RxFrame
  <2>2. slept' = slept
    BY <1>2 DEF RxFrame
  <2>3. CASE f.msg_id = "SET_ATTITUDE" /\ (f.for_us \/ ~f.full)
    BY <2>1, <2>2, <2>3 DEF TypeOK
  <2>4. CASE f.msg_id = "HEARTBEAT"
    BY <2>1, <2>2, <2>4, TimeAssumption DEF TypeOK
  <2>5. CASE /\ f.msg_id # "HEARTBEAT"
             /\ ~(f.msg_id = "SET_ATTITUDE" /\ (f.for_us \/ ~f.full))
    <3>1. g_setpoint' = g_setpoint
      BY <2>1, <2>5, SetpointOrNot, Zenon
    <3>2. hb_age' = hb_age /\ attitude_age' = attitude_age
      BY <2>1, <2>5, Zenon
    <3>3. QED
      BY <2>2, <3>1, <3>2 DEF Steered
  <2>6. QED
    BY <2>3, <2>4, <2>5, Zenon
<1>3. CASE FeedAndReadNow \/ ReadHeartbeat
  <2>1. UNCHANGED <<g_setpoint, hb_age, attitude_age, slept>>
    BY <1>3 DEF FeedAndReadNow, ReadHeartbeat, rxVars
  <2>2. QED
    BY <2>1 DEF Steered
<1>4. CASE CheckLink
  <2>1. ~TimedOut /\ wd_pc = "got_hb" /\ hb_age' = hb_age
    BY <1>4, Zenon DEF CheckLink, history
  <2>2. hb_age <= ElapsedMs + since_feed
    BY <2>1, Zenon DEF Timed, ReadBoth
  <2>3. ElapsedMs <= HEARTBEAT_TIMEOUT
    BY <2>1, ElapsedType, TimeAssumption DEF TimedOut
  <2>4. WATCHDOG_PERIOD + since_feed <= slept
    BY <2>1 DEF Fed
  <2>5. slept' = 0
    BY <1>4 DEF CheckLink
  <2>6. QED
    BY <2>1, <2>2, <2>3, <2>4, <2>5, ElapsedType, TimeAssumption DEF TypeOK
<1>5. CASE UNCHANGED vars
  <2>1. UNCHANGED <<g_setpoint, hb_age, attitude_age, slept>>
    BY <1>5 DEF vars, rxVars, history
  <2>2. QED
    BY <2>1 DEF Steered
<1>6. QED
  BY <1>1, <1>2, <1>3, <1>4, <1>5 DEF Next, WatchdogThread

(***************************************************************************)
(* A link that is lost for the timeout, one period and two delays has put  *)
(* the gimbal in the safe state, if no setpoint came from elsewhere: a     *)
(* check that finds the link alive sees a HEARTBEAT that is too young to   *)
(* be that old at the end of the next one.                                 *)
(***************************************************************************)
THEOREM LossIsNoticed == Spec => []SafeStateReached
<1>1. Init => Steered
  BY DEF Init, Rx!RxInit, Steered
<1>2. TypeOK /\ Steered => SafeStateReached
  <2> SUFFICES ASSUME TypeOK, Steered,
                      hb_age \in HEARTBEAT_TIMEOUT + CheckBound .. U32 - 1,
                      attitude_age = CheckBound, g_setpoint # Rx!NeutralSetpoint
               PROVE  FALSE
    BY Zenon DEF SafeStateReached
  <2>1. hb_age < U32
    BY TimeAssumption
  <2>2. attitude_age <= slept \/ hb_age <= HEARTBEAT_TIMEOUT + slept + CheckDelay
    BY <2>1 DEF Steered
  <2>3. QED
    BY <2>2, TimeAssumption DEF TypeOK, CheckBound
<1>3. QED
  BY <1>1, <1>2, AlwaysTimed, SteeredStep, PTL DEF Spec
=============================================================================
