----------------------------- MODULE ImuPipeline -----------------------------
(***************************************************************************)
(* From the IMU's data-ready interrupt to the servo command: the interrupt *)
(* and the IMU, control and angle threads of app/main.c, the driver        *)
(* icm42688.c.  The TX thread, of lower priority, copies g_attitude as the *)
(* angle thread does and is left out.                                      *)
(*                                                                         *)
(* One processor runs the threads by priority.  The clock and the          *)
(* data-ready interrupt come between any two steps; a thread that blocks   *)
(* on a mutex lends its priority to the holder.                            *)
(*                                                                         *)
(* A datum is represented by its age: the clock ticks since the sample it  *)
(* was computed from was read.                                             *)
(***************************************************************************)
EXTENDS Integers

CONSTANTS
  SEM_TIMEOUT,   \* timeout of both k_sem_take (5 ms)
  ANGLE_PERIOD,  \* sleep of the angle thread (5 ms)
  MaxBusy,       \* bound: ticks in a row at which some thread has work left
  MaxFails,      \* bound: SPI transfers that fail in a row
  Never,         \* the age of the zeros g_attitude and the setpoints start with
  AgeCap         \* bound: ages are not counted further

ASSUME TimeAssumption ==
  /\ SEM_TIMEOUT \in Nat \ {0}
  /\ ANGLE_PERIOD \in Nat \ {0}
  /\ MaxBusy \in Nat
  /\ MaxFails \in Nat
ASSUME AgeAssumption == AgeCap \in Nat /\ Never \notin Nat

Threads  == {"imu", "control", "angle"}
Priority == [imu |-> 0, control |-> 1, angle |-> 2]

VARIABLES
  pc,              \* where each thread is
  timer,           \* ticks until its sleep or k_sem_take times out, or 0
  busy,            \* ticks since the processor was idle
  imu_data_ready,  \* the two binary semaphores
  rate_data_ready,
  mutex,           \* the holder, or "free", of attitude_mutex and rate_sp_mutex
  g_attitude,      \* ages of its two parts, which are written one after the other
  g_rate_sp,       \* ages of the attitudes behind g_pitch_rate_sp and g_yaw_rate_sp
  att,             \* the threads' local attitudes (the IMU thread's: its sample)
  rate_sp,         \* the control thread's local rate setpoints
  sampled,         \* the IMU has made its sample of this tick
  fails,           \* history: SPI failures since the latest good transfer
  unseen,          \* history: an attitude was published after the rate loop's latest copy
  filter_credit,   \* history: samples made minus samples integrated, 0 at most
  rate_credit      \* history: samples made minus rate ticks, 0 at most

sched   == <<pc, timer, busy>>
sems    == <<imu_data_ready, rate_data_ready>>
shared  == <<g_attitude, g_rate_sp>>
locals  == <<att, rate_sp>>
credits == <<filter_credit, rate_credit>>
vars    == <<sched, sems, mutex, shared, locals, sampled, fails, unseen, credits>>

ZeroAttitude == [euler |-> Never, gyro |-> Never]
ZeroRates    == [pitch |-> Never, yaw |-> Never]

Init ==
  /\ pc = [imu |-> "reset", control |-> "take", angle |-> "sleep"]
  /\ timer = [imu |-> 0, control |-> 0, angle |-> ANGLE_PERIOD]
  /\ busy = 0
  /\ imu_data_ready = 0
  /\ rate_data_ready = 0
  /\ mutex = [attitude |-> "free", rate_sp |-> "free"]
  /\ g_attitude = ZeroAttitude
  /\ g_rate_sp = ZeroRates
  /\ att = [t \in Threads |-> ZeroAttitude]
  /\ rate_sp = ZeroRates
  /\ sampled = FALSE
  /\ fails = 0
  /\ unseen = FALSE
  /\ filter_credit = 0
  /\ rate_credit = 0

-----------------------------------------------------------------------------
(* The kernel: priorities, sleeps, semaphores, mutexes *)

Waits(t) == pc[t] \in {"startup", "powerup", "sleep", "pend", "spi", "dead"}

(* The mutex that t is about to lock *)
Wants(t) == CASE pc[t] = "lock" -> {"attitude"} [] pc[t] = "lock_sp" -> {"rate_sp"}
              [] OTHER -> {}

Blocked(t) == \E m \in Wants(t) : mutex[m] # "free"

Runnable(t) == ~Waits(t) /\ ~Blocked(t)

(* t runs for itself and for the threads that wait for a mutex it holds *)
RunsFor(t) == {t} \union {u \in Threads : \E m \in Wants(u) : mutex[m] = t}

(* The processor executes t *)
Runs(t) ==
  /\ Runnable(t)
  /\ \A v \in Threads \ {t} :
       Runnable(v) => \E u \in RunsFor(t) : \A w \in RunsFor(v) : Priority[u] < Priority[w]

(* The running thread t goes on, or begins to wait *)
Goto(t, label) == /\ pc' = [pc EXCEPT ![t] = label]
                  /\ UNCHANGED <<timer, busy>>

Wait(t, label, ticks) == /\ pc' = [pc EXCEPT ![t] = label]
                         /\ timer' = [timer EXCEPT ![t] = ticks]
                         /\ UNCHANGED busy

Lock(m, t) == mutex' = [mutex EXCEPT ![m] = t]
Unlock(m)  == mutex' = [mutex EXCEPT ![m] = "free"]

(***************************************************************************)
(* k_sem_give hands the semaphore to the thread t that waits for it; if it *)
(* does not, also because its timeout has just expired, the count becomes 1. *)
(***************************************************************************)
Resumed(t, label) == IF pc[t] = "pend" THEN [pc EXCEPT ![t] = label] ELSE pc
Unarmed(t) == IF pc[t] = "pend" THEN [timer EXCEPT ![t] = 0] ELSE timer

(* Mutant of Raised: the semaphore counts every give *)
Raised_Counts(t, count) == IF pc[t] = "pend" THEN count ELSE count + 1

Raised(t, count) == IF pc[t] = "pend" THEN count ELSE 1

(* Where a thread goes on when its time is up *)
AfterTimeout(t) == CASE pc[t] = "startup" -> "identify"
                     [] pc[t] = "powerup" -> "configure"
                     [] t = "imu" /\ pc[t] = "pend" -> "spi"
                     [] OTHER -> "lock"

Older(age) == IF age = Never \/ age = AgeCap THEN age ELSE age + 1
AllOlder(data) == [part \in DOMAIN data |-> Older(data[part])]

(* No thread has work left; a transfer under way is work *)
Idle == \A t \in Threads : Waits(t) /\ pc[t] # "spi"

(***************************************************************************)
(* The clock, and the timeouts that expire with it, once per sample of the *)
(* IMU.  The processor is not overloaded: it catches up within MaxBusy     *)
(* ticks.                                                                  *)
(***************************************************************************)
ClockTick ==
  /\ sampled
  /\ sampled' = FALSE
  /\ IF Idle THEN busy' = 0 ELSE busy < MaxBusy /\ busy' = busy + 1
  /\ timer' = [t \in Threads |-> IF timer[t] = 0 THEN 0 ELSE timer[t] - 1]
  /\ pc' = [t \in Threads |-> IF timer[t] = 1 THEN AfterTimeout(t) ELSE pc[t]]
  /\ g_attitude' = AllOlder(g_attitude)
  /\ g_rate_sp' = AllOlder(g_rate_sp)
  /\ att' = [t \in Threads |-> AllOlder(att[t])]
  /\ rate_sp' = AllOlder(rate_sp)
  /\ UNCHANGED <<sems, mutex, fails, unseen, credits>>

-----------------------------------------------------------------------------
(* The IMU: driver, interrupt and thread *)

(* The callback is registered at the end of icm42688_init *)
Wired == pc["imu"] \notin {"reset", "startup", "identify", "powerup", "configure", "dead"}

Repaid(credit) == IF credit < 0 THEN credit + 1 ELSE 0

(* The IMU makes a sample every tick; its edge may be lost *)
DataReady ==
  /\ ~sampled
  /\ sampled' = TRUE
  /\ filter_credit' = Repaid(filter_credit)
  /\ rate_credit' = Repaid(rate_credit)
  /\ \/ /\ Wired
        /\ imu_data_ready' = Raised("imu", imu_data_ready)
        /\ pc' = Resumed("imu", "spi")
        /\ timer' = Unarmed("imu")
     \/ UNCHANGED <<imu_data_ready, pc, timer>>
  /\ UNCHANGED <<busy, rate_data_ready, mutex, shared, locals, fails, unseen>>

(* icm42688_init, cut at its two sleeps; any failing transfer ends the thread *)
ImuInit ==
  /\ Runs("imu")
  /\ \/ pc["imu"] = "reset" /\ Wait("imu", "startup", 2)
     \/ pc["imu"] = "identify" /\ Wait("imu", "powerup", 1)
     \/ pc["imu"] = "configure" /\ Goto("imu", "take")
     \/ pc["imu"] \in {"reset", "identify", "configure"} /\ Wait("imu", "dead", 0)
  /\ UNCHANGED <<sems, mutex, shared, locals, sampled, fails, unseen, credits>>

(* Mutant of ImuTake: the timeout is K_FOREVER *)
ImuTake_Forever ==
  /\ Runs("imu")
  /\ pc["imu"] = "take"
  /\ IF imu_data_ready = 1 THEN Wait("imu", "spi", 0) ELSE Wait("imu", "pend", 0)
  /\ imu_data_ready' = 0
  /\ UNCHANGED <<rate_data_ready, mutex, shared, locals, sampled, fails, unseen, credits>>

(* k_sem_take; whether it timed out is not looked at *)
ImuTake ==
  /\ Runs("imu")
  /\ pc["imu"] = "take"
  /\ \/ imu_data_ready = 1 /\ Wait("imu", "spi", 0)
     \/ imu_data_ready = 0 /\ Wait("imu", "pend", SEM_TIMEOUT)
  /\ imu_data_ready' = 0
  /\ UNCHANGED <<rate_data_ready, mutex, shared, locals, sampled, fails, unseen, credits>>

(***************************************************************************)
(* icm42688_read_sample ends; the thread may have slept meanwhile.  The    *)
(* filter takes the sample, or the loop starts again.                      *)
(***************************************************************************)
SpiEnds ==
  /\ pc["imu"] = "spi"
  /\ \/ /\ Goto("imu", "lock")
        /\ att' = [att EXCEPT !["imu"] = [euler |-> 0, gyro |-> 0]]
        /\ fails' = 0
        /\ filter_credit' = filter_credit - 1
     \/ /\ fails < MaxFails
        /\ Goto("imu", "take")
        /\ fails' = fails + 1
        /\ UNCHANGED <<att, filter_credit>>
  /\ UNCHANGED <<sems, mutex, shared, rate_sp, sampled, unseen, rate_credit>>

(* g_attitude is written under its lock: time, quaternion and angles ... *)
ImuLock ==
  /\ Runs("imu")
  /\ pc["imu"] = "lock"
  /\ Lock("attitude", "imu")
  /\ g_attitude' = [g_attitude EXCEPT !.euler = att["imu"].euler]
  /\ Goto("imu", "write")
  /\ UNCHANGED <<sems, g_rate_sp, locals, sampled, fails, unseen, credits>>

(* ... then the rates; with the lock released, the sample is published *)
ImuWrite ==
  /\ Runs("imu")
  /\ pc["imu"] = "write"
  /\ g_attitude' = [g_attitude EXCEPT !.gyro = att["imu"].gyro]
  /\ att' = [att EXCEPT !["imu"] = ZeroAttitude]
  /\ Unlock("attitude")
  /\ unseen' = TRUE
  /\ Goto("imu", "give")
  /\ UNCHANGED <<sems, g_rate_sp, rate_sp, sampled, fails, credits>>

(* Mutant of ImuGive: the rate loop is woken only once it waits *)
ImuGive_WaiterOnly ==
  /\ Runs("imu")
  /\ pc["imu"] = "give"
  /\ pc' = [Resumed("control", "lock") EXCEPT !["imu"] = "take"]
  /\ timer' = Unarmed("control")
  /\ UNCHANGED <<busy, sems, mutex, shared, locals, sampled, fails, unseen, credits>>

ImuGive ==
  /\ Runs("imu")
  /\ pc["imu"] = "give"
  /\ rate_data_ready' = Raised("control", rate_data_ready)
  /\ pc' = [Resumed("control", "lock") EXCEPT !["imu"] = "take"]
  /\ timer' = Unarmed("control")
  /\ UNCHANGED <<busy, imu_data_ready, mutex, shared, locals, sampled, fails, unseen,
                 credits>>

ImuThread == ImuInit \/ ImuTake \/ ImuLock \/ ImuWrite \/ ImuGive

-----------------------------------------------------------------------------
(* The readers of the attitude *)

(* Mutant of CopyAttitude: the structure is copied without its lock *)
CopyAttitude_Unlocked(t, next) ==
  /\ Runs(t)
  /\ \/ /\ pc[t] = "lock"
        /\ att' = [att EXCEPT ![t].euler = g_attitude.euler]
        /\ Goto(t, "copy")
        /\ unseen' = (unseen /\ t # "control")
     \/ /\ pc[t] = "copy"
        /\ att' = [att EXCEPT ![t].gyro = g_attitude.gyro]
        /\ Goto(t, next)
        /\ UNCHANGED unseen
  /\ UNCHANGED <<sems, mutex, shared, rate_sp, sampled, fails, credits>>

(* att = g_attitude under the lock, the two parts one after the other *)
CopyAttitude(t, next) ==
  /\ Runs(t)
  /\ \/ /\ pc[t] = "lock"
        /\ Lock("attitude", t)
        /\ att' = [att EXCEPT ![t].euler = g_attitude.euler]
        /\ Goto(t, "copy")
        /\ unseen' = (unseen /\ t # "control")
     \/ /\ pc[t] = "copy"
        /\ Unlock("attitude")
        /\ att' = [att EXCEPT ![t].gyro = g_attitude.gyro]
        /\ Goto(t, next)
        /\ UNCHANGED unseen
  /\ UNCHANGED <<sems, shared, rate_sp, sampled, fails, credits>>

(* Mutant of ControlTake: the count is looked at and not taken *)
ControlTake_LeavesCount ==
  /\ Runs("control")
  /\ pc["control"] = "take"
  /\ \/ rate_data_ready = 1 /\ Wait("control", "lock", 0)
     \/ rate_data_ready = 0 /\ Wait("control", "pend", SEM_TIMEOUT)
  /\ UNCHANGED <<sems, mutex, shared, locals, sampled, fails, unseen, credits>>

(* Mutant of ControlTake: the timeout is K_FOREVER *)
ControlTake_Forever ==
  /\ Runs("control")
  /\ pc["control"] = "take"
  /\ \/ rate_data_ready = 1 /\ Wait("control", "lock", 0)
     \/ rate_data_ready = 0 /\ Wait("control", "pend", 0)
  /\ rate_data_ready' = 0
  /\ UNCHANGED <<imu_data_ready, mutex, shared, locals, sampled, fails, unseen, credits>>

ControlTake ==
  /\ Runs("control")
  /\ pc["control"] = "take"
  /\ \/ rate_data_ready = 1 /\ Wait("control", "lock", 0)
     \/ rate_data_ready = 0 /\ Wait("control", "pend", SEM_TIMEOUT)
  /\ rate_data_ready' = 0
  /\ UNCHANGED <<imu_data_ready, mutex, shared, locals, sampled, fails, unseen, credits>>

(* gimbal_rate_tick copies both rate setpoints under their lock ... *)
RateTickBegins ==
  /\ Runs("control")
  /\ \/ /\ pc["control"] = "lock_sp"
        /\ Lock("rate_sp", "control")
        /\ rate_sp' = [rate_sp EXCEPT !.pitch = g_rate_sp.pitch]
        /\ Goto("control", "copy_sp")
     \/ /\ pc["control"] = "copy_sp"
        /\ Unlock("rate_sp")
        /\ rate_sp' = [rate_sp EXCEPT !.yaw = g_rate_sp.yaw]
        /\ Goto("control", "servo")
  /\ UNCHANGED <<sems, shared, att, sampled, fails, unseen, credits>>

(* ... and commands the servos (module Gimbal) *)
RateTickEnds ==
  /\ Runs("control")
  /\ pc["control"] = "servo"
  /\ Goto("control", "take")
  /\ att' = [att EXCEPT !["control"] = ZeroAttitude]
  /\ rate_sp' = ZeroRates
  /\ rate_credit' = rate_credit - 1
  /\ UNCHANGED <<sems, mutex, shared, sampled, fails, unseen, filter_credit>>

ControlThread == \/ ControlTake \/ CopyAttitude("control", "lock_sp")
                 \/ RateTickBegins \/ RateTickEnds

(* gimbal_angle_tick writes both rate setpoints under their lock; then sleep *)
AngleTick ==
  /\ Runs("angle")
  /\ \/ /\ pc["angle"] = "lock_sp"
        /\ Lock("rate_sp", "angle")
        /\ g_rate_sp' = [g_rate_sp EXCEPT !.pitch = att["angle"].euler]
        /\ Goto("angle", "write_sp")
        /\ UNCHANGED att
     \/ /\ pc["angle"] = "write_sp"
        /\ Unlock("rate_sp")
        /\ g_rate_sp' = [g_rate_sp EXCEPT !.yaw = att["angle"].euler]
        /\ Wait("angle", "sleep", ANGLE_PERIOD)
        /\ att' = [att EXCEPT !["angle"] = ZeroAttitude]
  /\ UNCHANGED <<sems, g_attitude, rate_sp, sampled, fails, unseen, credits>>

AngleThread == CopyAttitude("angle", "lock_sp") \/ AngleTick

Next == ClockTick \/ DataReady \/ SpiEnds \/ ImuThread \/ ControlThread \/ AngleThread

(* Time goes on, and the processor with it *)
Spec == Init /\ [][Next]_vars /\ WF_vars(Next)

-----------------------------------------------------------------------------
(* Properties *)

Ages == 0 .. AgeCap \union {Never}

Labels == {"reset", "startup", "identify", "powerup", "configure", "dead", "take", "pend",
           "spi", "lock", "write", "give", "copy", "lock_sp", "copy_sp", "servo",
           "write_sp", "sleep"}

TypeOK ==
  /\ pc \in [Threads -> Labels]
  /\ timer \in [Threads -> Nat]
  /\ busy \in 0 .. MaxBusy
  /\ imu_data_ready \in 0 .. 1
  /\ rate_data_ready \in 0 .. 1
  /\ mutex \in [{"attitude", "rate_sp"} -> Threads \union {"free"}]
  /\ g_attitude \in [euler : Ages, gyro : Ages]
  /\ g_rate_sp \in [pitch : Ages, yaw : Ages]
  /\ att \in [Threads -> [euler : Ages, gyro : Ages]]
  /\ rate_sp \in [pitch : Ages, yaw : Ages]
  /\ sampled \in BOOLEAN
  /\ fails \in 0 .. MaxFails
  /\ unseen \in BOOLEAN
  /\ filter_credit \in Int
  /\ rate_credit \in Int

(***************************************************************************)
(* Whatever preempts what: the attitude a loop works with is that of one   *)
(* sample, and the pair of rate setpoints that of one angle tick.          *)
(***************************************************************************)
CopiesAreWhole ==
  /\ \A t \in Threads :
       pc[t] \in {"lock_sp", "servo"} => att[t].euler = att[t].gyro
  /\ pc["control"] = "servo" => rate_sp.pitch = rate_sp.yaw

(***************************************************************************)
(* The rate loop does not go to sleep on an attitude it has not seen:      *)
(* every published sample is used at once or replaced by a newer one.      *)
(***************************************************************************)
NoSampleUnseen == pc["control"] = "pend" /\ pc["imu"] # "give" => ~unseen

(* The longest an attitude is in force: MaxFails + 1 late timeouts, of     *)
(* which only the last leads to a good transfer, which is late too         *)
FreshAge == (MaxFails + 1) * (SEM_TIMEOUT + MaxBusy) + MaxBusy

(***************************************************************************)
(* The servos are commanded from data of bounded age, whatever interrupts  *)
(* are lost: the timeouts, whose results are not looked at, replace them.  *)
(* Only transfers that fail again and again let the data grow old.         *)
(***************************************************************************)
ServoDataIsFresh ==
  pc["control"] = "servo" =>
    /\ att["control"].gyro # Never => att["control"].gyro <= FreshAge
    /\ rate_sp.pitch # Never => rate_sp.pitch <= FreshAge + ANGLE_PERIOD + MaxBusy

(***************************************************************************)
(* The filter and the rate loop take every tick for 1 ms.  Timeouts that   *)
(* coincide with late wakeups make ticks in quick succession, some on the  *)
(* same sample, but they never add up: however late the threads are, the   *)
(* filter never gets ahead of the samples by more than two ticks, nor the  *)
(* rate loop by more than four.                                            *)
(***************************************************************************)
NoTimeInvented == filter_credit >= -2 /\ rate_credit >= -4

(***************************************************************************)
(* The rate and the angle loop go on for ever, also without any sample:    *)
(* the IMU thread ended at startup, or all interrupts are lost.            *)
(***************************************************************************)
LoopsGoOn == []<>(pc["control"] = "servo") /\ []<>(pc["angle"] = "write_sp")
=============================================================================
