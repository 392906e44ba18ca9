-------------------------- MODULE ImuPipelineProofs --------------------------
(***************************************************************************)
(* Theorems about ImuPipeline, for all periods, timeouts and bounds.       *)
(***************************************************************************)
EXTENDS ImuPipeline, TLAPS

(* Ages stay ages *)
LEMMA OlderAge ==
  ASSUME NEW age \in Ages
  PROVE  Older(age) \in Ages
  BY AgeAssumption DEF Older, Ages

LEMMA InitType == Init => TypeOK
<1> SUFFICES ASSUME Init PROVE TypeOK
  OBVIOUS
<1>1. [imu |-> "reset", control |-> "take", angle |-> "sleep"] \in [Threads -> Labels]
  BY DEF Threads, Labels
<1>2. [imu |-> 0, control |-> 0, angle |-> ANGLE_PERIOD] \in [Threads -> Nat]
  BY TimeAssumption DEF Threads
<1>3. [attitude |-> "free", rate_sp |-> "free"]
        \in [{"attitude", "rate_sp"} -> Threads \union {"free"}]
  BY DEF Threads
<1>4. 0 \in 0 .. MaxBusy /\ 0 \in 0 .. MaxFails
  BY TimeAssumption
<1>5. ZeroAttitude \in [euler : Ages, gyro : Ages] /\ ZeroRates \in [pitch : Ages, yaw : Ages]
  BY DEF Ages, ZeroAttitude, ZeroRates
<1>6. [t \in Threads |-> ZeroAttitude] \in [Threads -> [euler : Ages, gyro : Ages]]
  BY <1>5
<1>7. /\ pc \in [Threads -> Labels] /\ timer \in [Threads -> Nat]
      /\ mutex \in [{"attitude", "rate_sp"} -> Threads \union {"free"}]
  BY <1>1, <1>2, <1>3 DEF Init
<1>8. /\ g_attitude \in [euler : Ages, gyro : Ages] /\ g_rate_sp \in [pitch : Ages, yaw : Ages]
      /\ att \in [Threads -> [euler : Ages, gyro : Ages]]
      /\ rate_sp \in [pitch : Ages, yaw : Ages]
  BY <1>5, <1>6 DEF Init
<1>9. /\ busy \in 0 .. MaxBusy /\ fails \in 0 .. MaxFails
      /\ imu_data_ready \in 0 .. 1 /\ rate_data_ready \in 0 .. 1
      /\ filter_credit \in Int /\ rate_credit \in Int
  BY <1>4 DEF Init
<1>10. sampled \in BOOLEAN /\ unseen \in BOOLEAN
  BY Zenon DEF Init
<1>11. QED
  BY <1>7, <1>8, <1>9, <1>10 DEF TypeOK

LEMMA ClockType == TypeOK /\ ClockTick => TypeOK'
<1> SUFFICES ASSUME TypeOK, ClockTick PROVE TypeOK'
  OBVIOUS
<1> USE DEF TypeOK
<1>1. g_attitude' \in [euler : Ages, gyro : Ages]
  BY OlderAge DEF ClockTick, AllOlder
<1>2. g_rate_sp' \in [pitch : Ages, yaw : Ages]
  BY OlderAge DEF ClockTick, AllOlder
<1>3. att' \in [Threads -> [euler : Ages, gyro : Ages]]
  BY OlderAge DEF ClockTick, AllOlder
<1>4. rate_sp' \in [pitch : Ages, yaw : Ages]
  BY OlderAge DEF ClockTick, AllOlder
<1>5. pc' \in [Threads -> Labels]
  BY DEF ClockTick, AfterTimeout, Labels
<1>6. timer' \in [Threads -> Nat]
  BY DEF ClockTick
<1>7. busy' \in 0 .. MaxBusy
  BY TimeAssumption DEF ClockTick
<1>8. QED
  BY <1>1, <1>2, <1>3, <1>4, <1>5, <1>6, <1>7 DEF ClockTick, sems, credits

LEMMA StepType == TypeOK /\ [Next]_vars => TypeOK'
<1> SUFFICES ASSUME TypeOK, [Next]_vars PROVE TypeOK'
  OBVIOUS
<1> USE TimeAssumption, AgeAssumption DEF TypeOK, Threads, Labels, Ages, ZeroAttitude, ZeroRates,
        Goto, Wait, Lock, Unlock, Resumed, Unarmed, Raised, sems, shared, locals, credits
<1>1. CASE ClockTick
  BY <1>1, ClockType
<1>2. CASE DataReady
  BY <1>2 DEF DataReady, Repaid
<1>3. CASE SpiEnds
  BY <1>3 DEF SpiEnds
<1>4. CASE ImuThread
  <2>1. CASE ImuInit
    BY <2>1 DEF ImuInit
  <2>2. CASE ImuTake
    BY <2>2 DEF ImuTake
  <2>3. CASE ImuLock
    BY <2>3 DEF ImuLock
  <2>4. CASE ImuWrite
    BY <2>4 DEF ImuWrite
  <2>5. CASE ImuGive
    BY <2>5 DEF ImuGive
  <2>6. QED
    BY <1>4, <2>1, <2>2, <2>3, <2>4, <2>5 DEF ImuThread
<1>5. ASSUME NEW t \in {"control", "angle"}, CopyAttitude(t, "lock_sp") PROVE TypeOK'
  <2>1. att' \in [Threads -> [euler : Ages, gyro : Ages]]
    BY <1>5 DEF CopyAttitude
  <2>2. mutex' \in [{"attitude", "rate_sp"} -> Threads \union {"free"}]
    BY <1>5 DEF CopyAttitude
  <2>3. pc' \in [Threads -> Labels]
    BY <1>5 DEF CopyAttitude
  <2>4. QED
    BY <1>5, <2>1, <2>2, <2>3 DEF CopyAttitude
<1>6. CASE ControlThread
  <2>1. CASE ControlTake
    BY <2>1 DEF ControlTake
  <2>2. CASE RateTickBegins
    BY <2>2 DEF RateTickBegins
  <2>3. CASE RateTickEnds
    BY <2>3 DEF RateTickEnds
  <2>4. QED
    BY <1>5, <1>6, <2>1, <2>2, <2>3 DEF ControlThread
<1>7. CASE AngleThread
  BY <1>5, <1>7 DEF AngleThread, AngleTick
<1>8. CASE UNCHANGED vars
  BY <1>8 DEF vars, sched
<1>9. QED
  BY <1>1, <1>2, <1>3, <1>4, <1>6, <1>7, <1>8 DEF Next

(***************************************************************************)
(* Every variable of the pipeline stays in its range; above all, both      *)
(* semaphores stay binary and the mutexes have one holder.                 *)
(***************************************************************************)
THEOREM TypeCorrect == Spec => []TypeOK
<1>1. QED
  BY InitType, StepType, PTL DEF Spec

-----------------------------------------------------------------------------
(* The places of each thread, and the timers *)

ImuPlaces     == {"reset", "startup", "identify", "powerup", "configure", "dead", "take",
                  "pend", "spi", "lock", "write", "give"}
ControlPlaces == {"take", "pend", "lock", "copy", "lock_sp", "copy_sp", "servo"}
AnglePlaces   == {"sleep", "lock", "copy", "lock_sp", "write_sp"}

Places ==
  /\ pc["imu"] \in ImuPlaces
  /\ pc["control"] \in ControlPlaces
  /\ pc["angle"] \in AnglePlaces
  /\ timer["imu"] # 0 => pc["imu"] \in {"startup", "powerup", "pend"}
  /\ timer["control"] # 0 => pc["control"] = "pend"
  /\ timer["angle"] # 0 => pc["angle"] = "sleep"

LEMMA InitPlaces == Init => Places
  BY DEF Init, Places, ImuPlaces, ControlPlaces, AnglePlaces

LEMMA StepPlaces == TypeOK /\ Places /\ [Next]_vars => Places'
<1> SUFFICES ASSUME TypeOK, Places, [Next]_vars PROVE Places'
  OBVIOUS
<1>0. pc \in [Threads -> Labels] /\ timer \in [Threads -> Nat]
  BY DEF TypeOK
<1> USE <1>0 DEF Places, Threads, ImuPlaces, ControlPlaces, AnglePlaces, Goto, Wait,
        Resumed, Unarmed
<1>1. CASE ClockTick
  BY <1>1 DEF ClockTick, AfterTimeout
<1>2. CASE DataReady
  BY <1>2 DEF DataReady
<1>3. CASE SpiEnds
  BY <1>3 DEF SpiEnds
<1>4. CASE ImuThread
  BY <1>4, TimeAssumption DEF ImuThread, ImuInit, ImuTake, ImuLock, ImuWrite, ImuGive
<1>5. CASE ControlThread
  BY <1>5 DEF ControlThread, ControlTake, CopyAttitude, RateTickBegins, RateTickEnds
<1>6. CASE AngleThread
  BY <1>6 DEF AngleThread, CopyAttitude, AngleTick
<1>7. CASE UNCHANGED vars
  BY <1>7 DEF vars, sched
<1>8. QED
  BY <1>1, <1>2, <1>3, <1>4, <1>5, <1>6, <1>7 DEF Next

-----------------------------------------------------------------------------
(* Mutual exclusion *)

Excluded ==
  \A t \in Threads : /\ pc[t] \in {"write", "copy"} => mutex["attitude"] = t
                     /\ pc[t] \in {"copy_sp", "write_sp"} => mutex["rate_sp"] = t

(* The running thread finds the mutex it is about to lock free *)
LEMMA LockedWhenFree ==
  ASSUME NEW t \in Threads, Runs(t)
  PROVE  /\ pc[t] = "lock" => mutex["attitude"] = "free"
         /\ pc[t] = "lock_sp" => mutex["rate_sp"] = "free"
  BY DEF Runs, Runnable, Blocked, Wants

LEMMA StepExcluded == TypeOK /\ Places /\ Excluded /\ [Next]_vars => Excluded'
<1> SUFFICES ASSUME TypeOK, Places, Excluded, [Next]_vars PROVE Excluded'
  OBVIOUS
<1>0. /\ pc \in [Threads -> Labels] /\ timer \in [Threads -> Nat]
      /\ mutex \in [{"attitude", "rate_sp"} -> Threads \union {"free"}]
  BY DEF TypeOK
<1> USE <1>0 DEF Excluded, Places, Threads, ImuPlaces, ControlPlaces, AnglePlaces, Goto, Wait,
        Resumed, Lock, Unlock
<1>1. CASE ClockTick
  BY <1>1 DEF ClockTick, AfterTimeout
<1>2. CASE DataReady
  BY <1>2 DEF DataReady
<1>3. CASE SpiEnds
  BY <1>3 DEF SpiEnds
<1>4. CASE ImuThread
  BY <1>4, LockedWhenFree DEF ImuThread, ImuInit, ImuTake, ImuLock, ImuWrite, ImuGive
<1>5. CASE ControlThread
  BY <1>5, LockedWhenFree
  DEF ControlThread, ControlTake, CopyAttitude, RateTickBegins, RateTickEnds
<1>6. CASE AngleThread
  BY <1>6, LockedWhenFree DEF AngleThread, CopyAttitude, AngleTick
<1>7. CASE UNCHANGED vars
  BY <1>7 DEF vars, sched
<1>8. QED
  BY <1>1, <1>2, <1>3, <1>4, <1>5, <1>6, <1>7 DEF Next

-----------------------------------------------------------------------------
(* The copies *)

(* What is being written or copied is half new, everything else is whole *)
Whole ==
  /\ att["imu"].euler = att["imu"].gyro
  /\ g_attitude.euler = IF pc["imu"] = "write" THEN att["imu"].euler ELSE g_attitude.gyro
  /\ g_rate_sp.pitch = IF pc["angle"] = "write_sp" THEN att["angle"].euler ELSE g_rate_sp.yaw
  /\ \A t \in {"control", "angle"} :
       /\ pc[t] = "copy" => att[t].euler = g_attitude.euler
       /\ pc[t] \in {"lock_sp", "copy_sp", "servo", "write_sp"} => att[t].euler = att[t].gyro
  /\ pc["control"] = "copy_sp" => rate_sp.pitch = g_rate_sp.pitch
  /\ pc["control"] = "servo" => rate_sp.pitch = rate_sp.yaw

LEMMA InitWhole == Init => Whole
  BY DEF Init, Whole, ZeroAttitude, ZeroRates, Threads

(* The clock makes both parts of a datum older alike *)
LEMMA OlderAttitude ==
  ASSUME NEW d \in [euler : Ages, gyro : Ages]
  PROVE  AllOlder(d).euler = Older(d.euler) /\ AllOlder(d).gyro = Older(d.gyro)
  BY DEF AllOlder

LEMMA OlderRates ==
  ASSUME NEW d \in [pitch : Ages, yaw : Ages]
  PROVE  AllOlder(d).pitch = Older(d.pitch) /\ AllOlder(d).yaw = Older(d.yaw)
  BY DEF AllOlder

LEMMA ClockWhole == TypeOK /\ Places /\ Whole /\ ClockTick => Whole'
<1> SUFFICES ASSUME TypeOK, Places, Whole, ClockTick PROVE Whole'
  OBVIOUS
<1>1. /\ \A t \in Threads : /\ att'[t].euler = Older(att[t].euler)
                            /\ att'[t].gyro = Older(att[t].gyro)
      /\ g_attitude'.euler = Older(g_attitude.euler)
      /\ g_attitude'.gyro = Older(g_attitude.gyro)
  BY OlderAttitude DEF TypeOK, ClockTick
<1>2. /\ g_rate_sp'.pitch = Older(g_rate_sp.pitch) /\ g_rate_sp'.yaw = Older(g_rate_sp.yaw)
      /\ rate_sp'.pitch = Older(rate_sp.pitch) /\ rate_sp'.yaw = Older(rate_sp.yaw)
  BY OlderRates DEF TypeOK, ClockTick
<1>3. \A t \in Threads, p \in {"write", "copy", "lock_sp", "copy_sp", "servo", "write_sp"} :
        pc'[t] = p <=> pc[t] = p
  BY DEF TypeOK, Places, Threads, ImuPlaces, ControlPlaces, AnglePlaces, ClockTick, AfterTimeout
<1>4. QED
  BY <1>1, <1>2, <1>3 DEF Whole, Threads

LEMMA StepWhole == TypeOK /\ Places /\ Excluded /\ Whole /\ [Next]_vars => Whole'
<1> SUFFICES ASSUME TypeOK, Places, Excluded, Whole, [Next]_vars PROVE Whole'
  OBVIOUS
<1>0. /\ pc \in [Threads -> Labels]
      /\ g_attitude \in [euler : Ages, gyro : Ages]
      /\ g_rate_sp \in [pitch : Ages, yaw : Ages]
      /\ att \in [Threads -> [euler : Ages, gyro : Ages]]
      /\ rate_sp \in [pitch : Ages, yaw : Ages]
  BY DEF TypeOK
<1> USE <1>0 DEF Whole, Excluded, Places, Threads, ImuPlaces, ControlPlaces, AnglePlaces,
        Goto, Wait, Resumed, shared, locals, ZeroAttitude, ZeroRates
<1>1. CASE ClockTick
  BY <1>1, ClockWhole
<1>2. CASE DataReady
  BY <1>2 DEF DataReady
<1>3. CASE SpiEnds
  BY <1>3 DEF SpiEnds
<1>4. CASE ImuThread
  <2>1. CASE ImuInit \/ ImuTake \/ ImuGive
    BY <2>1 DEF ImuInit, ImuTake, ImuGive
  <2>2. CASE ImuLock
    BY <2>2, LockedWhenFree DEF ImuLock
  <2>3. CASE ImuWrite
    BY <2>3 DEF ImuWrite
  <2>4. QED
    BY <1>4, <2>1, <2>2, <2>3 DEF ImuThread
<1>5. ASSUME NEW t \in {"control", "angle"}, CopyAttitude(t, "lock_sp") PROVE Whole'
  BY <1>5, LockedWhenFree DEF CopyAttitude
<1>6. CASE ControlThread
  <2>1. CASE ControlTake
    BY <2>1 DEF ControlTake
  <2>2. CASE RateTickBegins
    BY <2>2, LockedWhenFree DEF RateTickBegins
  <2>3. CASE RateTickEnds
    BY <2>3 DEF RateTickEnds
  <2>4. QED
    BY <1>5, <1>6, <2>1, <2>2, <2>3 DEF ControlThread
<1>7. CASE AngleThread
  <2>1. CASE AngleTick
    BY <2>1, LockedWhenFree DEF AngleTick
  <2>2. QED
    BY <1>5, <1>7, <2>1 DEF AngleThread
<1>8. CASE UNCHANGED vars
  BY <1>8 DEF vars, sched
<1>9. QED
  BY <1>1, <1>2, <1>3, <1>4, <1>6, <1>7, <1>8 DEF Next

LEMMA WholeIsEnough == Places /\ Whole => CopiesAreWhole
  BY DEF Places, Whole, CopiesAreWhole, Threads, ImuPlaces

LEMMA InitExcluded == Init => Excluded
  BY DEF Init, Excluded, Threads

(***************************************************************************)
(* The attitude a loop works with is that of one sample, and the pair of   *)
(* rate setpoints that of one angle tick, whatever the timing.  Mutual     *)
(* exclusion alone is not enough to argue from: at every place of a        *)
(* critical section the invariant says which part is new.                  *)
(***************************************************************************)
THEOREM WholeCopies == Spec => []CopiesAreWhole
<1>1. Init => TypeOK /\ Places /\ Excluded /\ Whole
  BY InitType, InitPlaces, InitExcluded, InitWhole
<1>2. TypeOK /\ Places /\ Excluded /\ Whole /\ [Next]_vars
        => TypeOK' /\ Places' /\ Excluded' /\ Whole'
  BY StepType, StepPlaces, StepExcluded, StepWhole
<1>3. QED
  BY <1>1, <1>2, WholeIsEnough, PTL DEF Spec

-----------------------------------------------------------------------------
(* Wakeups *)

(***************************************************************************)
(* The wakeup for what the rate loop has not seen is under way, and the    *)
(* loop does not wait while the semaphore is up.                           *)
(***************************************************************************)
Announced ==
  /\ unseen => pc["imu"] = "give" \/ rate_data_ready = 1 \/ pc["control"] = "lock"
  /\ pc["control"] = "pend" => rate_data_ready = 0

LEMMA InitAnnounced == Init => Announced
  BY DEF Init, Announced

(* Copying the attitude is seeing it *)
LEMMA CopySees ==
  ASSUME NEW t, CopyAttitude(t, "lock_sp"), unseen'
  PROVE  unseen /\ (pc[t] = "lock" => t # "control")
<1>1. CASE pc[t] = "lock" /\ unseen' = (unseen /\ t # "control")
  BY <1>1
<1>2. CASE pc[t] = "copy" /\ unseen' = unseen
  BY <1>2
<1>3. QED
  BY <1>1, <1>2, Zenon DEF CopyAttitude

LEMMA StepAnnounced == TypeOK /\ Places /\ Announced /\ [Next]_vars => Announced'
<1> SUFFICES ASSUME TypeOK, Places, Announced, [Next]_vars PROVE Announced'
  OBVIOUS
<1>0. pc \in [Threads -> Labels] /\ timer \in [Threads -> Nat]
  BY DEF TypeOK
<1> USE <1>0 DEF Announced, Places, Threads, ImuPlaces, ControlPlaces, Goto, Wait, Resumed,
        Raised, sems
<1>1. CASE ClockTick
  BY <1>1 DEF ClockTick, AfterTimeout
<1>2. CASE DataReady
  BY <1>2 DEF DataReady
<1>3. CASE SpiEnds
  BY <1>3 DEF SpiEnds
<1>4. CASE ImuThread
  <2>1. CASE ImuGive
    BY <2>1 DEF ImuGive
  <2>2. CASE ImuInit \/ ImuTake
    BY <2>2 DEF ImuInit, ImuTake
  <2>3. CASE ImuLock \/ ImuWrite
    BY <2>3 DEF ImuLock, ImuWrite
  <2>4. QED
    BY <1>4, <2>1, <2>2, <2>3 DEF ImuThread
<1>5. CASE ControlThread
  <2>1. CASE ControlTake
    BY <2>1 DEF ControlTake
  <2>2. CASE CopyAttitude("control", "lock_sp")
    BY <2>2, CopySees DEF CopyAttitude
  <2>3. CASE RateTickBegins \/ RateTickEnds
    BY <2>3 DEF RateTickBegins, RateTickEnds
  <2>4. QED
    BY <1>5, <2>1, <2>2, <2>3 DEF ControlThread
<1>6. CASE AngleThread
  BY <1>6, CopySees DEF AngleThread, CopyAttitude, AngleTick
<1>7. CASE UNCHANGED vars
  BY <1>7 DEF vars, sched
<1>8. QED
  BY <1>1, <1>2, <1>3, <1>4, <1>5, <1>6, <1>7 DEF Next

(***************************************************************************)
(* The rate loop does not go to sleep on an attitude it has not seen: the  *)
(* semaphore keeps the wakeup that comes while the loop works, also when   *)
(* its timeout expires at that moment.                                     *)
(***************************************************************************)
THEOREM NothingUnseen == Spec => []NoSampleUnseen
<1>1. Init => TypeOK /\ Places /\ Announced
  BY InitType, InitPlaces, InitAnnounced
<1>2. TypeOK /\ Places /\ Announced /\ [Next]_vars => TypeOK' /\ Places' /\ Announced'
  BY StepType, StepPlaces, StepAnnounced
<1>3. Announced => NoSampleUnseen
  BY DEF Announced, NoSampleUnseen
<1>4. QED
  BY <1>1, <1>2, <1>3, PTL DEF Spec

-----------------------------------------------------------------------------
(* The age of the data *)

(* A thread that waits with a timeout has its timer running *)
Timers ==
  /\ pc["imu"] = "pend" => timer["imu"] \in 1 .. SEM_TIMEOUT
  /\ pc["control"] = "pend" => timer["control"] \in 1 .. SEM_TIMEOUT
  /\ pc["angle"] = "sleep" => timer["angle"] \in 1 .. ANGLE_PERIOD

LEMMA InitTimers == Init => Timers
  BY TimeAssumption DEF Init, Timers

LEMMA StepTimers == TypeOK /\ Places /\ Timers /\ [Next]_vars => Timers'
<1> SUFFICES ASSUME TypeOK, Places, Timers, [Next]_vars PROVE Timers'
  OBVIOUS
<1>0. pc \in [Threads -> Labels] /\ timer \in [Threads -> Nat]
  BY DEF TypeOK
<1> USE <1>0, TimeAssumption
    DEF Timers, Places, Threads, ImuPlaces, ControlPlaces, AnglePlaces, Goto, Wait, Resumed, Unarmed
<1>1. CASE ClockTick
  BY <1>1 DEF ClockTick, AfterTimeout
<1>2. CASE DataReady
  BY <1>2 DEF DataReady
<1>3. CASE SpiEnds
  BY <1>3 DEF SpiEnds
<1>4. CASE ImuThread
  BY <1>4 DEF ImuThread, ImuInit, ImuTake, ImuLock, ImuWrite, ImuGive
<1>5. CASE ControlThread
  BY <1>5 DEF ControlThread, ControlTake, CopyAttitude, RateTickBegins, RateTickEnds
<1>6. CASE AngleThread
  BY <1>6 DEF AngleThread, CopyAttitude, AngleTick
<1>7. CASE UNCHANGED vars
  BY <1>7 DEF vars, sched
<1>8. QED
  BY <1>1, <1>2, <1>3, <1>4, <1>5, <1>6, <1>7 DEF Next

Upto(age, n) == age # Never => age <= n

(* What k timeouts, each followed by a late transfer, take *)
Spent(k) == k * (SEM_TIMEOUT + MaxBusy)

(* The age of the attitude that a good transfer is about to replace *)
Stale == Spent(MaxFails + 1)

Starting == {"reset", "startup", "identify", "powerup", "configure", "dead"}

(* How old the published attitude may be, by what the IMU thread is doing *)
AttitudeAge ==
  CASE pc["imu"] \in {"take", "give"} -> Spent(fails) + busy
    [] pc["imu"] = "pend" -> Spent(fails) + MaxBusy + (SEM_TIMEOUT - timer["imu"])
    [] pc["imu"] = "spi" -> Spent(fails) + MaxBusy + SEM_TIMEOUT + busy
    [] OTHER -> Stale + busy

(* How old the published setpoints may be, by what the angle thread is doing *)
SetpointAge ==
  Stale + MaxBusy + (IF pc["angle"] = "sleep" THEN ANGLE_PERIOD - timer["angle"]
                     ELSE ANGLE_PERIOD + busy)

FreshAttitude ==
  /\ pc["imu"] \in Starting => g_attitude.gyro = Never
  /\ Upto(g_attitude.gyro, AttitudeAge)
  /\ pc["imu"] \in {"lock", "write"} => Upto(att["imu"].gyro, busy)

FreshCopies ==
  \A t \in {"control", "angle"} :
    pc[t] \in {"copy", "lock_sp", "copy_sp", "servo", "write_sp"} =>
      Upto(att[t].euler, Stale + busy)

FreshSetpoints ==
  /\ Upto(g_rate_sp.pitch, SetpointAge)
  /\ Upto(g_rate_sp.yaw, SetpointAge)
  /\ pc["control"] \in {"copy_sp", "servo"} =>
       Upto(rate_sp.pitch, Stale + MaxBusy + ANGLE_PERIOD + busy)

LEMMA UptoMore ==
  ASSUME NEW age \in Ages, NEW m \in Int, NEW n \in Int, m <= n, Upto(age, m)
  PROVE  Upto(age, n)
  BY AgeAssumption DEF Upto, Ages

LEMMA UptoOlder ==
  ASSUME NEW age \in Ages, NEW n \in Int, Upto(age, n)
  PROVE  Upto(Older(age), n + 1)
  BY AgeAssumption DEF Upto, Ages, Older

LEMMA NewUpto ==
  ASSUME NEW n \in Nat
  PROVE  Upto(0, n) /\ Upto(Never, n)
  BY DEF Upto

LEMMA SpentMore ==
  ASSUME NEW k \in Nat
  PROVE  /\ Spent(k) \in Nat
         /\ Spent(k + 1) = Spent(k) + SEM_TIMEOUT + MaxBusy
<1> DEFINE d == SEM_TIMEOUT + MaxBusy
<1>1. d \in Nat /\ SEM_TIMEOUT \in Nat /\ MaxBusy \in Nat
  BY TimeAssumption
<1> HIDE DEF d
<1>2. k * d \in Nat /\ (k + 1) * d = k * d + d
  BY <1>1
<1>3. Spent(k) \in Nat /\ Spent(k + 1) = Spent(k) + d
  BY <1>2, Zenon DEF Spent, d
<1>4. QED
  BY <1>1, <1>3 DEF d

LEMMA SpentMonotone ==
  ASSUME NEW k \in Nat, NEW m \in Nat, k <= m
  PROVE  Spent(k) <= Spent(m)
<1> DEFINE d == SEM_TIMEOUT + MaxBusy
<1>1. d \in Nat
  BY TimeAssumption
<1> HIDE DEF d
<1>2. PICK j \in Nat : m = k + j
  <2>1. m - k \in Nat /\ m = k + (m - k)
    OBVIOUS
  <2>2. QED
    BY <2>1
<1>3. m * d = k * d + j * d /\ j * d \in Nat /\ k * d \in Nat
  BY <1>1, <1>2
<1>4. k * d <= m * d
  BY <1>3
<1>5. QED
  BY <1>4, Zenon DEF Spent, d

(* The stages of growing old, as numbers *)
LEMMA Stages ==
  ASSUME TypeOK
  PROVE  /\ Spent(fails) \in Nat /\ Stale \in Nat /\ Spent(0) = 0
         /\ Spent(fails) + SEM_TIMEOUT + MaxBusy <= Stale
         /\ Spent(fails + 1) = Spent(fails) + SEM_TIMEOUT + MaxBusy
         /\ SEM_TIMEOUT \in Nat /\ MaxBusy \in Nat /\ ANGLE_PERIOD \in Nat
         /\ busy \in Nat /\ busy <= MaxBusy
<1>1. fails \in Nat /\ MaxFails \in Nat /\ fails <= MaxFails
  BY TimeAssumption DEF TypeOK
<1>2. /\ Spent(fails) \in Nat /\ Spent(fails + 1) = Spent(fails) + SEM_TIMEOUT + MaxBusy
      /\ Spent(MaxFails + 1) \in Nat /\ Spent(fails + 1) <= Spent(MaxFails + 1)
  BY <1>1, SpentMore, SpentMonotone
<1>3. Spent(0) = 0
  BY TimeAssumption DEF Spent
<1>4. QED
  BY <1>2, <1>3, TimeAssumption DEF Stale, TypeOK

LEMMA AttitudeAgeBounds ==
  ASSUME TypeOK, Timers
  PROVE  AttitudeAge \in Nat /\ AttitudeAge <= Stale + busy
  BY Stages DEF AttitudeAge, Timers

LEMMA InitFresh == Init => FreshAttitude /\ FreshCopies /\ FreshSetpoints
  BY DEF Init, FreshAttitude, FreshCopies, FreshSetpoints, ZeroAttitude, ZeroRates, Starting, Upto

(***************************************************************************)
(* How far the clock takes the bounds: an attitude waited for may be one   *)
(* tick older as the timer has one tick less, and at any other time the    *)
(* processor is behind.                                                    *)
(***************************************************************************)
LEMMA ClockFreshAttitude ==
  ASSUME TypeOK, Places, Timers, FreshAttitude, ClockTick
  PROVE  FreshAttitude'
<1>1. /\ pc \in [Threads -> Labels] /\ timer \in [Threads -> Nat]
      /\ g_attitude \in [euler : Ages, gyro : Ages]
      /\ att \in [Threads -> [euler : Ages, gyro : Ages]]
  BY DEF TypeOK
<1>2. /\ g_attitude'.gyro = Older(g_attitude.gyro)
      /\ att'["imu"].gyro = Older(att["imu"].gyro)
      /\ g_attitude.gyro \in Ages /\ att["imu"].gyro \in Ages
  BY <1>1, OlderAttitude DEF ClockTick, Threads
<1>3. pc'["imu"] \in Starting => pc["imu"] \in Starting
  BY <1>1 DEF ClockTick, Places, ImuPlaces, AfterTimeout, Starting, Threads
<1>4. pc["imu"] \in Starting => g_attitude'.gyro = Never
  BY <1>2 DEF FreshAttitude, Older
<1>5. pc["imu"] \notin Starting => AttitudeAge' >= AttitudeAge + 1 /\ AttitudeAge' \in Nat
  <2>1. /\ UNCHANGED fails
        /\ pc["imu"] \in {"take", "give", "spi", "lock", "write"} =>
             busy' = busy + 1 /\ pc'["imu"] = pc["imu"]
        /\ pc["imu"] = "pend" /\ timer["imu"] # 1 =>
             timer'["imu"] = timer["imu"] - 1 /\ pc'["imu"] = "pend"
        /\ pc["imu"] = "pend" /\ timer["imu"] = 1 => pc'["imu"] = "spi"
        /\ busy' \in Nat
    BY <1>1, Stages DEF ClockTick, Idle, Waits, Timers, Places, AfterTimeout, Threads
  <2>2. QED
    BY <1>1, <2>1, Stages DEF AttitudeAge, Timers, Places, ImuPlaces, Starting, Stale
<1>6. Upto(g_attitude'.gyro, AttitudeAge')
  <2>1. CASE pc["imu"] \in Starting
    BY <1>4, <2>1 DEF Upto
  <2>2. CASE pc["imu"] \notin Starting
    <3>1. AttitudeAge \in Nat
      BY AttitudeAgeBounds
    <3>2. Upto(g_attitude'.gyro, AttitudeAge + 1)
      BY <1>2, <3>1, UptoOlder DEF FreshAttitude
    <3>3. g_attitude'.gyro \in Ages
      BY <1>2, OlderAge
    <3>4. QED
      BY <1>5, <2>2, <3>1, <3>2, <3>3, UptoMore
  <2>3. QED
    BY <2>1, <2>2
<1>7. pc'["imu"] \in {"lock", "write"} => Upto(att'["imu"].gyro, busy')
  <2>1. SUFFICES ASSUME pc'["imu"] \in {"lock", "write"} PROVE Upto(att'["imu"].gyro, busy')
    OBVIOUS
  <2>2. pc["imu"] \in {"lock", "write"} /\ busy' = busy + 1
    BY <1>1, <2>1 DEF ClockTick, Idle, Waits, Places, AfterTimeout, ImuPlaces, Threads
  <2>3. QED
    BY <1>2, <2>2, UptoOlder, Stages DEF FreshAttitude
<1>8. QED
  BY <1>3, <1>4, <1>6, <1>7 DEF FreshAttitude

LEMMA StepFreshAttitude ==
  ASSUME TypeOK, Places, Timers, Whole, FreshAttitude, [Next]_vars
  PROVE  FreshAttitude'
<1> DEFINE gyro == g_attitude.gyro
<1>1. /\ pc \in [Threads -> Labels] /\ timer \in [Threads -> Nat]
      /\ g_attitude \in [euler : Ages, gyro : Ages]
      /\ att \in [Threads -> [euler : Ages, gyro : Ages]]
      /\ gyro \in Ages
  BY DEF TypeOK
<1>2. AttitudeAge \in Nat /\ AttitudeAge <= Stale + busy
  BY AttitudeAgeBounds
<1>3. ASSUME gyro' = gyro, AttitudeAge' \in Nat, AttitudeAge <= AttitudeAge'
      PROVE  Upto(gyro', AttitudeAge')
  BY <1>1, <1>2, <1>3, UptoMore DEF FreshAttitude
<1> USE <1>1, Stages DEF Threads, Goto, Wait, Resumed, Unarmed
<1>4. CASE ClockTick
  BY <1>4, ClockFreshAttitude
<1>5. CASE DataReady
  <2>1. AttitudeAge' \in Nat /\ AttitudeAge <= AttitudeAge'
    BY <1>2, <1>5 DEF DataReady, AttitudeAge, Timers, Stale
  <2>2. gyro' = gyro /\ UNCHANGED <<att, busy>>
    BY <1>5 DEF DataReady, shared, locals
  <2>3. QED
    BY <1>3, <1>5, <2>1, <2>2 DEF DataReady, FreshAttitude, Starting
<1>6. CASE SpiEnds
  <2>1. AttitudeAge' \in Nat /\ AttitudeAge <= AttitudeAge'
    BY <1>2, <1>6 DEF SpiEnds, AttitudeAge, Stale
  <2>2. gyro' = gyro /\ UNCHANGED busy
    BY <1>6 DEF SpiEnds, shared
  <2>3. pc'["imu"] = "lock" => att'["imu"].gyro = 0
    BY <1>6 DEF SpiEnds
  <2>4. pc'["imu"] \in {"lock", "take"}
    BY <1>6 DEF SpiEnds
  <2>5. QED
    BY <1>3, <2>1, <2>2, <2>3, <2>4, NewUpto DEF FreshAttitude, Starting
<1>7. CASE ImuInit
  <2>1. gyro' = gyro /\ UNCHANGED busy /\ pc["imu"] \in Starting
        /\ pc'["imu"] \in Starting \union {"take"}
    BY <1>7 DEF ImuInit, shared, Starting
  <2>2. gyro' = Never
    BY <2>1 DEF FreshAttitude
  <2>3. QED
    BY <2>1, <2>2 DEF FreshAttitude, Upto, Starting
<1>8. CASE ImuTake
  <2>1. AttitudeAge' \in Nat /\ AttitudeAge <= AttitudeAge'
    BY <1>2, <1>8 DEF ImuTake, AttitudeAge, Stale
  <2>2. gyro' = gyro /\ pc'["imu"] \in {"spi", "pend"}
    BY <1>8 DEF ImuTake, shared
  <2>3. QED
    BY <1>3, <2>1, <2>2 DEF FreshAttitude, Starting
<1>9. CASE ImuLock
  <2>1. AttitudeAge' \in Nat /\ AttitudeAge <= AttitudeAge'
    BY <1>2, <1>9 DEF ImuLock, AttitudeAge, Stale
  <2>2. gyro' = gyro /\ UNCHANGED <<att, busy>> /\ pc["imu"] = "lock" /\ pc'["imu"] = "write"
    BY <1>9 DEF ImuLock, locals
  <2>3. QED
    BY <1>3, <2>1, <2>2 DEF FreshAttitude, Starting
<1>10. CASE ImuWrite
  <2>1. gyro' = att["imu"].gyro /\ pc["imu"] = "write" /\ pc'["imu"] = "give"
        /\ UNCHANGED <<busy, fails>>
    BY <1>10 DEF ImuWrite
  <2>2. AttitudeAge' \in Nat /\ busy <= AttitudeAge'
    BY <2>1 DEF AttitudeAge
  <2>3. QED
    BY <2>1, <2>2, UptoMore DEF FreshAttitude, Starting
<1>11. CASE ImuGive
  <2>1. AttitudeAge' \in Nat /\ AttitudeAge <= AttitudeAge'
    BY <1>2, <1>11 DEF ImuGive, AttitudeAge
  <2>2. gyro' = gyro /\ pc'["imu"] = "take"
    BY <1>11 DEF ImuGive, shared
  <2>3. QED
    BY <1>3, <2>1, <2>2 DEF FreshAttitude, Starting
<1>12. CASE ControlThread \/ AngleThread \/ UNCHANGED vars
  <2>1. /\ gyro' = gyro /\ UNCHANGED <<busy, fails>>
        /\ pc'["imu"] = pc["imu"] /\ timer'["imu"] = timer["imu"]
        /\ att'["imu"] = att["imu"]
    BY <1>12 DEF ControlThread, AngleThread, ControlTake, CopyAttitude, RateTickBegins,
       RateTickEnds, AngleTick, vars, sched, shared, locals
  <2>2. AttitudeAge' = AttitudeAge
    BY <2>1 DEF AttitudeAge, Stale
  <2>3. QED
    BY <2>1, <2>2 DEF FreshAttitude
<1>13. QED
  BY <1>4, <1>5, <1>6, <1>7, <1>8, <1>9, <1>10, <1>11, <1>12 DEF Next, ImuThread

(* A thread with a copy has work, so the clock counts *)
LEMMA ClockCounts ==
  ASSUME TypeOK, Places, ClockTick
  PROVE  /\ pc["control"] \in {"copy", "lock_sp", "copy_sp", "servo"} \/ pc["angle"] # "sleep" =>
              busy' = busy + 1
         /\ \A p \in {"copy", "lock_sp", "copy_sp", "servo", "write_sp"} :
              \A t \in {"control", "angle"} : pc'[t] = p <=> pc[t] = p
         /\ busy' \in Nat
  BY Stages DEF TypeOK, ClockTick, Idle, Waits, Places, AfterTimeout, ImuPlaces, ControlPlaces,
     AnglePlaces, Threads

LEMMA ClockFreshCopies ==
  ASSUME TypeOK, Places, FreshCopies, ClockTick
  PROVE  FreshCopies'
<1> SUFFICES ASSUME NEW t \in {"control", "angle"},
                    pc'[t] \in {"copy", "lock_sp", "copy_sp", "servo", "write_sp"}
             PROVE  Upto(att'[t].euler, (Stale + busy)')
  BY DEF FreshCopies
<1>1. att[t] \in [euler : Ages, gyro : Ages] /\ att[t].euler \in Ages
  BY DEF TypeOK, Threads
<1>2. att'[t].euler = Older(att[t].euler)
  BY <1>1, OlderAttitude DEF ClockTick, Threads
<1>3. pc[t] \in {"copy", "lock_sp", "copy_sp", "servo", "write_sp"} /\ busy' = busy + 1
  BY ClockCounts DEF Places, ControlPlaces
<1>4. Upto(att'[t].euler, (Stale + busy) + 1) /\ Stale + busy \in Int
  BY <1>1, <1>2, <1>3, UptoOlder, Stages DEF FreshCopies
<1>5. (Stale + busy)' = (Stale + busy) + 1
  BY <1>3, Stages DEF Stale
<1>6. QED
  BY <1>4, <1>5

LEMMA StepFreshCopies ==
  ASSUME TypeOK, Places, Timers, Excluded, Whole, FreshAttitude, FreshCopies, [Next]_vars
  PROVE  FreshCopies'
<1>1. /\ pc \in [Threads -> Labels]
      /\ g_attitude \in [euler : Ages, gyro : Ages]
      /\ att \in [Threads -> [euler : Ages, gyro : Ages]]
  BY DEF TypeOK
<1>2. Upto(g_attitude.gyro, Stale + busy)
  BY <1>1, AttitudeAgeBounds, UptoMore, Stages DEF FreshAttitude
<1> USE <1>1 DEF FreshCopies, Stale, Places, Threads, ControlPlaces, AnglePlaces, Goto, Wait, Resumed
<1>3. CASE ClockTick
  BY <1>3, ClockFreshCopies
<1>4. CASE DataReady
  BY <1>4 DEF DataReady, locals
<1>5. CASE SpiEnds
  BY <1>5 DEF SpiEnds
<1>6. CASE ImuThread
  BY <1>6 DEF ImuThread, ImuInit, ImuTake, ImuLock, ImuWrite, ImuGive, locals
<1>7. ASSUME NEW t \in {"control", "angle"}, CopyAttitude(t, "lock_sp") PROVE FreshCopies'
  <2>1. CASE pc[t] = "lock"
    <3>1. mutex["attitude"] = "free" /\ att' = [att EXCEPT ![t].euler = g_attitude.euler]
          /\ UNCHANGED busy /\ pc' = [pc EXCEPT ![t] = "copy"]
      BY <1>7, <2>1, LockedWhenFree DEF CopyAttitude
    <3>2. pc["imu"] # "write"
      BY <3>1 DEF Excluded
    <3>3. g_attitude.euler = g_attitude.gyro
      BY <3>2 DEF Whole
    <3>4. QED
      BY <1>2, <3>1, <3>3
  <2>2. CASE pc[t] = "copy"
    BY <1>7, <2>2 DEF CopyAttitude
  <2>3. QED
    BY <1>7, <2>1, <2>2 DEF CopyAttitude
<1>8. CASE ControlThread
  BY <1>7, <1>8 DEF ControlThread, ControlTake, RateTickBegins, RateTickEnds, locals
<1>9. CASE AngleThread
  BY <1>7, <1>9 DEF AngleThread, AngleTick
<1>10. CASE UNCHANGED vars
  BY <1>10 DEF vars, sched, locals
<1>11. QED
  BY <1>3, <1>4, <1>5, <1>6, <1>8, <1>9, <1>10 DEF Next

LEMMA ClockFreshSetpoints ==
  ASSUME TypeOK, Places, Timers, FreshSetpoints, ClockTick
  PROVE  FreshSetpoints'
<1>1. /\ pc \in [Threads -> Labels] /\ timer \in [Threads -> Nat]
      /\ g_rate_sp \in [pitch : Ages, yaw : Ages] /\ rate_sp \in [pitch : Ages, yaw : Ages]
  BY DEF TypeOK
<1>2. /\ g_rate_sp'.pitch = Older(g_rate_sp.pitch) /\ g_rate_sp'.yaw = Older(g_rate_sp.yaw)
      /\ rate_sp'.pitch = Older(rate_sp.pitch)
      /\ g_rate_sp.pitch \in Ages /\ g_rate_sp.yaw \in Ages /\ rate_sp.pitch \in Ages
      /\ g_rate_sp'.pitch \in Ages /\ g_rate_sp'.yaw \in Ages /\ rate_sp'.pitch \in Ages
  BY <1>1, OlderRates, OlderAge DEF ClockTick
<1>3. SetpointAge \in Nat /\ SetpointAge' \in Nat /\ SetpointAge' >= SetpointAge + 1
  <2>1. /\ pc["angle"] # "sleep" => busy' = busy + 1 /\ pc'["angle"] # "sleep"
        /\ pc["angle"] = "sleep" /\ timer["angle"] # 1 =>
             timer'["angle"] = timer["angle"] - 1 /\ pc'["angle"] = "sleep"
        /\ pc["angle"] = "sleep" /\ timer["angle"] = 1 => pc'["angle"] # "sleep"
        /\ busy' \in Nat
    <3>1. (pc["angle"] # "sleep" => busy' = busy + 1) /\ busy' \in Nat
      BY ClockCounts
    <3>2. timer'["angle"] = IF timer["angle"] = 0 THEN 0 ELSE timer["angle"] - 1
      BY DEF ClockTick, Threads
    <3>3. pc'["angle"] = IF timer["angle"] = 1 THEN AfterTimeout("angle") ELSE pc["angle"]
      BY DEF ClockTick, Threads
    <3>4. pc["angle"] = "sleep" => AfterTimeout("angle") = "lock" /\ timer["angle"] # 0
      BY TimeAssumption DEF AfterTimeout, Timers
    <3>5. pc["angle"] # "sleep" => timer["angle"] = 0
      BY <1>1 DEF Places, Threads
    <3>6. QED
      BY <3>1, <3>2, <3>3, <3>4, <3>5
  <2>2. QED
    BY <1>1, <2>1, Stages DEF SetpointAge, Timers, Stale
<1>4. Upto(g_rate_sp'.pitch, SetpointAge') /\ Upto(g_rate_sp'.yaw, SetpointAge')
  BY <1>2, <1>3, UptoOlder, UptoMore DEF FreshSetpoints
<1>5. ASSUME pc'["control"] \in {"copy_sp", "servo"}
      PROVE  Upto(rate_sp'.pitch, (Stale + MaxBusy + ANGLE_PERIOD + busy)')
  <2>1. pc["control"] \in {"copy_sp", "servo"} /\ busy' = busy + 1
    BY <1>5, ClockCounts
  <2>2. Upto(rate_sp'.pitch, (Stale + MaxBusy + ANGLE_PERIOD + busy) + 1)
    BY <1>2, <2>1, UptoOlder, Stages DEF FreshSetpoints
  <2>3. (Stale + MaxBusy + ANGLE_PERIOD + busy)' = (Stale + MaxBusy + ANGLE_PERIOD + busy) + 1
    BY <2>1, Stages DEF Stale
  <2>4. QED
    BY <2>2, <2>3
<1>6. QED
  BY <1>4, <1>5 DEF FreshSetpoints

LEMMA StepFreshSetpoints ==
  ASSUME TypeOK, Places, Timers, Whole, FreshCopies, FreshSetpoints, [Next]_vars
  PROVE  FreshSetpoints'
<1>1. /\ pc \in [Threads -> Labels] /\ timer \in [Threads -> Nat]
      /\ g_rate_sp \in [pitch : Ages, yaw : Ages] /\ rate_sp \in [pitch : Ages, yaw : Ages]
      /\ att \in [Threads -> [euler : Ages, gyro : Ages]]
  BY DEF TypeOK
<1>2. SetpointAge \in Nat /\ SetpointAge <= Stale + MaxBusy + ANGLE_PERIOD + busy
  BY Stages DEF SetpointAge, Timers
<1>3. ASSUME UNCHANGED <<g_rate_sp, rate_sp, busy>>, SetpointAge' = SetpointAge,
             pc'["control"] \in {"copy_sp", "servo"} => pc["control"] \in {"copy_sp", "servo"}
      PROVE  FreshSetpoints'
  BY <1>3 DEF FreshSetpoints, Stale
<1> USE <1>1 DEF Places, Threads, Goto, Wait, Resumed, Unarmed, shared, locals
<1>4. CASE ClockTick
  BY <1>4, ClockFreshSetpoints
<1>5. CASE DataReady \/ SpiEnds \/ ImuThread
  <2>1. /\ UNCHANGED <<g_rate_sp, rate_sp, busy>>
        /\ pc'["angle"] = pc["angle"] /\ timer'["angle"] = timer["angle"]
        /\ pc'["control"] \in {"copy_sp", "servo"} => pc["control"] \in {"copy_sp", "servo"}
    BY <1>5 DEF DataReady, SpiEnds, ImuThread, ImuInit, ImuTake, ImuLock, ImuWrite, ImuGive
  <2>2. QED
    BY <1>3, <2>1 DEF SetpointAge, Stale
<1>6. CASE ControlTake \/ RateTickEnds \/ CopyAttitude("control", "lock_sp")
  <2>1. /\ UNCHANGED <<g_rate_sp, busy>> /\ pc'["control"] \notin {"copy_sp", "servo"}
        /\ pc'["angle"] = pc["angle"] /\ timer'["angle"] = timer["angle"]
    BY <1>6 DEF ControlTake, RateTickEnds, CopyAttitude
  <2>2. SetpointAge' = SetpointAge
    BY <2>1 DEF SetpointAge, Stale
  <2>3. QED
    BY <2>1, <2>2 DEF FreshSetpoints
<1>7. CASE RateTickBegins
  <2>1. /\ UNCHANGED <<g_rate_sp, busy>>
        /\ pc'["angle"] = pc["angle"] /\ timer'["angle"] = timer["angle"]
        /\ \/ rate_sp'.pitch = g_rate_sp.pitch
           \/ rate_sp'.pitch = rate_sp.pitch /\ pc["control"] = "copy_sp"
    BY <1>7 DEF RateTickBegins
  <2>2. Upto(g_rate_sp.pitch, Stale + MaxBusy + ANGLE_PERIOD + busy)
    BY <1>2, UptoMore, Stages DEF FreshSetpoints
  <2>3. SetpointAge' = SetpointAge
    BY <2>1 DEF SetpointAge, Stale
  <2>4. QED
    BY <2>1, <2>2, <2>3 DEF FreshSetpoints, Stale
<1>8. CASE CopyAttitude("angle", "lock_sp")
  <2>1. /\ UNCHANGED <<g_rate_sp, rate_sp, busy>> /\ pc'["control"] = pc["control"]
        /\ pc["angle"] # "sleep" /\ pc'["angle"] # "sleep"
    BY <1>8 DEF CopyAttitude
  <2>2. QED
    BY <1>3, <2>1 DEF SetpointAge, Stale
<1>9. CASE AngleTick
  <2> DEFINE new == att["angle"].euler
  <2>1. /\ UNCHANGED <<rate_sp, busy>> /\ pc'["control"] = pc["control"]
        /\ pc["angle"] \in {"lock_sp", "write_sp"}
        /\ new \in Ages /\ Upto(new, Stale + busy)
        /\ SetpointAge' = Stale + MaxBusy + (IF pc["angle"] = "write_sp" THEN 0
                                             ELSE ANGLE_PERIOD + busy)
    BY <1>9, Stages DEF AngleTick, FreshCopies, SetpointAge, Stale
  <2>2. Upto(new, SetpointAge') /\ SetpointAge' \in Nat
    BY <2>1, UptoMore, Stages
  <2>3. pc["angle"] = "lock_sp" => SetpointAge' = SetpointAge
    BY <2>1 DEF SetpointAge
  <2>4. /\ pc["angle"] = "lock_sp" => g_rate_sp'.pitch = new /\ g_rate_sp'.yaw = g_rate_sp.yaw
        /\ pc["angle"] = "write_sp" => g_rate_sp'.pitch = new /\ g_rate_sp'.yaw = new
    BY <1>9 DEF AngleTick, Whole
  <2>5. Upto(g_rate_sp'.pitch, SetpointAge') /\ Upto(g_rate_sp'.yaw, SetpointAge')
    BY <2>1, <2>2, <2>3, <2>4 DEF FreshSetpoints
  <2>6. QED
    BY <2>1, <2>5 DEF FreshSetpoints, Stale
<1>10. CASE UNCHANGED vars
  BY <1>3, <1>10 DEF vars, sched, SetpointAge, Stale
<1>11. QED
  BY <1>4, <1>5, <1>6, <1>7, <1>8, <1>9, <1>10 DEF Next, ControlThread, AngleThread

LEMMA FreshIsEnough ==
  ASSUME TypeOK, Whole, FreshCopies, FreshSetpoints
  PROVE  ServoDataIsFresh
<1>1. SUFFICES ASSUME pc["control"] = "servo"
               PROVE  /\ Upto(att["control"].gyro, FreshAge)
                      /\ Upto(rate_sp.pitch, FreshAge + ANGLE_PERIOD + MaxBusy)
  BY DEF ServoDataIsFresh, Upto
<1>2. FreshAge = Stale + MaxBusy
  BY DEF FreshAge, Stale, Spent
<1>3. /\ att["control"].gyro \in Ages /\ rate_sp.pitch \in Ages
      /\ att["control"].gyro = att["control"].euler
  BY <1>1 DEF TypeOK, Whole, Threads
<1>4. Upto(att["control"].gyro, Stale + busy)
  BY <1>1, <1>3 DEF FreshCopies
<1>5. Upto(rate_sp.pitch, Stale + MaxBusy + ANGLE_PERIOD + busy)
  BY <1>1 DEF FreshSetpoints
<1>6. QED
  BY <1>2, <1>3, <1>4, <1>5, UptoMore, Stages

(***************************************************************************)
(* The servos are commanded from data of bounded age, for any timeout,     *)
(* period, lateness and number of failing transfers.  The invariant says,  *)
(* for each place of the IMU thread, how old the published attitude can be *)
(* there, and likewise for the angle thread and the setpoints; a reader's  *)
(* copy has grown older only since the processor was last idle.            *)
(***************************************************************************)
THEOREM FreshData == Spec => []ServoDataIsFresh
<1> DEFINE Inv == /\ TypeOK /\ Places /\ Timers /\ Excluded /\ Whole
                  /\ FreshAttitude /\ FreshCopies /\ FreshSetpoints
<1>1. Init => Inv
  BY InitType, InitPlaces, InitTimers, InitExcluded, InitWhole, InitFresh
<1>2. Inv /\ [Next]_vars => Inv'
  BY StepType, StepPlaces, StepTimers, StepExcluded, StepWhole, StepFreshAttitude,
     StepFreshCopies, StepFreshSetpoints
<1>3. Inv => ServoDataIsFresh
  BY FreshIsEnough
<1>4. QED
  BY <1>1, <1>2, <1>3, PTL DEF Spec

-----------------------------------------------------------------------------
(* The count of the ticks *)

One(condition) == IF condition THEN 1 ELSE 0

(* The IMU thread's lead is paid for before it grows *)
FilterPace ==
  /\ filter_credit <= 0
  /\ filter_credit >= -2
  /\ pc["imu"] \in Starting => filter_credit = 0 /\ imu_data_ready = 0
  /\ pc["imu"] \in {"take", "lock", "write", "give"} => filter_credit >= imu_data_ready - 2
  /\ pc["imu"] = "spi" => filter_credit >= imu_data_ready - 1
  /\ pc["imu"] = "pend" => /\ imu_data_ready = 0
                           /\ timer["imu"] < SEM_TIMEOUT /\ sampled => filter_credit >= -1

InLoop == {"spi", "lock", "write", "give"}
InTick == {"lock", "copy", "lock_sp", "copy_sp", "servo"}

(* The rate ticks that are under way *)
Coming == imu_data_ready + One(pc["imu"] \in InLoop)
          + rate_data_ready + One(pc["control"] \in InTick)

RatePace ==
  /\ rate_credit <= 0
  /\ rate_credit >= Coming - 4
  /\ pc["control"] = "pend" =>
       \/ rate_credit = 0
       \/ rate_credit >= SEM_TIMEOUT - timer["control"] - One(~sampled) - 4
  /\ pc["imu"] = "pend" => /\ imu_data_ready = 0
                           /\ timer["imu"] < SEM_TIMEOUT /\ sampled => rate_credit >= Coming - 3

LEMMA InitPace == Init => FilterPace /\ RatePace
  BY DEF Init, FilterPace, RatePace, Coming, One, InLoop, InTick, Starting

LEMMA StepFilterPace ==
  ASSUME SEM_TIMEOUT >= 2, TypeOK, Places, Timers, FilterPace, [Next]_vars
  PROVE  FilterPace'
<1>1. /\ pc \in [Threads -> Labels] /\ timer \in [Threads -> Nat]
      /\ imu_data_ready \in 0 .. 1 /\ filter_credit \in Int /\ SEM_TIMEOUT \in Nat
  BY TimeAssumption DEF TypeOK
<1> USE <1>1 DEF FilterPace, Starting, Places, Threads, ImuPlaces, Goto, Wait, Resumed, Unarmed,
        Raised, sems, credits
<1>2. CASE ClockTick
  <2>1. UNCHANGED <<filter_credit, imu_data_ready>> /\ sampled /\ ~sampled'
    BY <1>2 DEF ClockTick
  <2>2. \/ pc'["imu"] = pc["imu"]
        \/ pc["imu"] = "startup" /\ pc'["imu"] = "identify"
        \/ pc["imu"] = "powerup" /\ pc'["imu"] = "configure"
        \/ pc["imu"] = "pend" /\ pc'["imu"] = "spi" /\ timer["imu"] = 1
    BY <1>2 DEF ClockTick, AfterTimeout
  <2>3. QED
    BY <2>1, <2>2
<1>3. CASE DataReady
  BY <1>3 DEF DataReady, Repaid, Wired
<1>4. CASE SpiEnds
  BY <1>4 DEF SpiEnds
<1>5. CASE ImuThread
  <2>1. CASE ImuInit
    BY <2>1 DEF ImuInit
  <2>2. CASE ImuTake
    BY <2>2 DEF ImuTake
  <2>3. CASE ImuLock \/ ImuWrite \/ ImuGive
    BY <2>3 DEF ImuLock, ImuWrite, ImuGive
  <2>4. QED
    BY <1>5, <2>1, <2>2, <2>3 DEF ImuThread
<1>6. CASE ControlThread \/ AngleThread \/ UNCHANGED vars
  <2>1. /\ UNCHANGED <<filter_credit, imu_data_ready, sampled>>
        /\ pc'["imu"] = pc["imu"] /\ timer'["imu"] = timer["imu"]
    BY <1>6 DEF ControlThread, AngleThread, ControlTake, CopyAttitude, RateTickBegins,
       RateTickEnds, AngleTick, vars, sched
  <2>2. QED
    BY <2>1
<1>7. QED
  BY <1>2, <1>3, <1>4, <1>5, <1>6 DEF Next

LEMMA StepRatePace ==
  ASSUME SEM_TIMEOUT >= 4, TypeOK, Places, Timers, Announced, RatePace, [Next]_vars
  PROVE  RatePace'
<1>1. /\ pc \in [Threads -> Labels] /\ timer \in [Threads -> Nat]
      /\ imu_data_ready \in 0 .. 1 /\ rate_data_ready \in 0 .. 1
      /\ rate_credit \in Int /\ SEM_TIMEOUT \in Nat
  BY TimeAssumption DEF TypeOK
<1> USE <1>1
    DEF RatePace, Coming, One, InLoop, InTick, Places, Threads, ImuPlaces, ControlPlaces,
        AnglePlaces, Goto, Wait, Resumed, Unarmed, Raised, sems, credits
<1>2. CASE ClockTick
  <2>1. UNCHANGED <<rate_credit, imu_data_ready, rate_data_ready>> /\ sampled /\ ~sampled'
    BY <1>2 DEF ClockTick
  <2>2. \/ /\ pc["imu"] = "pend" /\ pc'["imu"] = "spi" /\ timer["imu"] = 1
        \/ /\ pc["imu"] \notin InLoop /\ pc'["imu"] \notin InLoop
           /\ pc'["imu"] = "pend" <=> pc["imu"] = "pend"
        \/ /\ pc["imu"] \in InLoop /\ pc'["imu"] = pc["imu"]
    BY <1>2 DEF ClockTick, AfterTimeout
  <2>3. \/ /\ pc["control"] = "pend" /\ pc'["control"] = "lock" /\ timer["control"] = 1
        \/ /\ pc["control"] = "pend" /\ pc'["control"] = "pend"
           /\ timer'["control"] = timer["control"] - 1
        \/ /\ pc["control"] # "pend" /\ pc'["control"] = pc["control"]
    BY <1>2 DEF ClockTick, AfterTimeout, Timers
  <2>4. pc["control"] = "pend" => rate_data_ready = 0
    BY DEF Announced
  <2>5. rate_credit >= Coming' - 4
    BY <2>1, <2>2, <2>3, <2>4
  <2>6. QED
    BY <2>1, <2>2, <2>3, <2>5
<1>3. CASE DataReady
  <2>1. /\ UNCHANGED rate_data_ready /\ ~sampled /\ sampled'
        /\ pc'["control"] = pc["control"] /\ timer'["control"] = timer["control"]
        /\ rate_credit' = IF rate_credit < 0 THEN rate_credit + 1 ELSE 0
    BY <1>3 DEF DataReady, Repaid
  <2>2. \/ /\ pc["imu"] = "pend" /\ pc'["imu"] = "spi" /\ UNCHANGED imu_data_ready
        \/ /\ pc["imu"] # "pend" /\ pc'["imu"] = pc["imu"] /\ imu_data_ready' = 1
        \/ /\ UNCHANGED <<imu_data_ready, pc, timer>>
    BY <1>3 DEF DataReady
  <2>3. QED
    BY <2>1, <2>2
<1>4. CASE SpiEnds
  BY <1>4 DEF SpiEnds
<1>5. CASE ImuThread
  <2>1. CASE ImuInit
    BY <2>1 DEF ImuInit
  <2>2. CASE ImuTake
    BY <2>2 DEF ImuTake
  <2>3. CASE ImuLock \/ ImuWrite
    BY <2>3 DEF ImuLock, ImuWrite
  <2>4. CASE ImuGive
    BY <2>4 DEF ImuGive
  <2>5. QED
    BY <1>5, <2>1, <2>2, <2>3, <2>4 DEF ImuThread
<1>6. CASE ControlThread
  <2>1. CASE ControlTake
    BY <2>1 DEF ControlTake
  <2>2. CASE CopyAttitude("control", "lock_sp")
    BY <2>2 DEF CopyAttitude
  <2>3. CASE RateTickBegins \/ RateTickEnds
    BY <2>3 DEF RateTickBegins, RateTickEnds
  <2>4. QED
    BY <1>6, <2>1, <2>2, <2>3 DEF ControlThread
<1>7. CASE AngleThread \/ UNCHANGED vars
  <2>1. /\ UNCHANGED <<rate_credit, imu_data_ready, rate_data_ready, sampled>>
        /\ pc'["imu"] = pc["imu"] /\ timer'["imu"] = timer["imu"]
        /\ pc'["control"] = pc["control"] /\ timer'["control"] = timer["control"]
    BY <1>7 DEF AngleThread, CopyAttitude, AngleTick, vars, sched
  <2>2. QED
    BY <2>1
<1>8. QED
  BY <1>2, <1>3, <1>4, <1>5, <1>6, <1>7 DEF Next

(***************************************************************************)
(* The loops' wrong belief that every wakeup is a millisecond does not add *)
(* up: with timeouts of four ticks or more (the code's are five), no       *)
(* lateness of the threads and no lost interrupt takes the filter more     *)
(* than two ticks ahead of the samples, nor the rate loop more than four.  *)
(* The invariant counts the ticks under way as made: a timeout can add one *)
(* only after the time that pays for it.                                   *)
(***************************************************************************)
THEOREM Pace == ASSUME SEM_TIMEOUT >= 4 PROVE Spec => []NoTimeInvented
<1> DEFINE Inv == /\ TypeOK /\ Places /\ Timers /\ Announced
                  /\ FilterPace /\ RatePace
<1>1. Init => Inv
  BY InitType, InitPlaces, InitTimers, InitAnnounced, InitPace
<1>2. Inv /\ [Next]_vars => Inv'
  <2>1. SEM_TIMEOUT >= 2
    BY TimeAssumption
  <2>2. QED
    BY <2>1, StepType, StepPlaces, StepTimers, StepAnnounced, StepFilterPace, StepRatePace
<1>3. Inv => NoTimeInvented
  BY DEF TypeOK, FilterPace, RatePace, Coming, One, NoTimeInvented
<1>4. QED
  BY <1>1, <1>2, <1>3, PTL DEF Spec
=============================================================================
