--------------------------- MODULE MavlinkTxProofs ---------------------------
(***************************************************************************)
(* Theorems about MavlinkTx, for all periods, timeouts, queues and stalls. *)
(***************************************************************************)
EXTENDS MavlinkTx, TLAPS

Ages == 0 .. AckBound + 1

LEMMA BoundNat == AckBound \in Nat
  BY TimeAssumption DEF AckBound

LEMMA OlderAge ==
  ASSUME NEW age \in Ages
  PROVE  Older(age) \in Ages /\ Older(age) <= age + 1
  BY BoundNat DEF Older, Ages

(* Time makes every acknowledgement older and leaves it where it is *)
LEMMA OlderQueue ==
  ASSUME NEW q \in Seq(Ages)
  PROVE  LET older == [i \in DOMAIN q |-> Older(q[i])]
         IN older \in Seq(Ages) /\ Len(older) = Len(q) /\ DOMAIN older = DOMAIN q
<1> DEFINE older == [i \in DOMAIN q |-> Older(q[i])]
<1>1. DOMAIN q = 1 .. Len(q) /\ Len(q) \in Nat
  OBVIOUS
<1>2. \A i \in 1 .. Len(q) : q[i] \in Ages
  OBVIOUS
<1>3. older \in [1 .. Len(q) -> Ages]
  BY <1>1, <1>2, OlderAge
<1>4. older \in Seq(Ages) /\ Len(older) = Len(q)
  BY <1>1, <1>3
<1>5. QED
  BY <1>4

LEMMA PutQueue ==
  ASSUME NEW q \in Seq(Ages), Len(q) <= AckQueueLen
  PROVE  /\ MsgqPut(q, AckQueueLen, 0) \in Seq(Ages)
         /\ Len(MsgqPut(q, AckQueueLen, 0)) <= AckQueueLen
<1>1. 0 \in Ages
  BY BoundNat DEF Ages
<1>2. Append(q, 0) \in Seq(Ages) /\ Len(Append(q, 0)) = Len(q) + 1 /\ Len(q) \in Nat
  BY <1>1
<1>3. QED
  BY <1>2, LoopAssumption DEF MsgqPut

-----------------------------------------------------------------------------
(* The HEARTBEAT's cadence *)

LEMMA Remainder ==
  ASSUME NEW q \in Int, NEW d \in Nat \ {0}, NEW s \in 0 .. d - 1
  PROVE  (d * q + s) % d = s
  OBVIOUS

LEMMA NextRemainder ==
  ASSUME NEW n \in Nat, NEW d \in Nat \ {0}
  PROVE  (n + 1) % d = IF n % d = d - 1 THEN 0 ELSE (n % d) + 1
<1> DEFINE q == n \div d
           r == n % d
<1>1. q \in Int /\ r \in 0 .. d - 1 /\ n = d * q + r
  OBVIOUS
<1> HIDE DEF q, r
<1>2. CASE r = d - 1
  <2>1. n + 1 = d * (q + 1) + 0
    BY <1>1, <1>2
  <2>2. q + 1 \in Int /\ 0 \in 0 .. d - 1
    BY <1>1
  <2>3. (n + 1) % d = 0
    BY <2>1, <2>2, Remainder
  <2>4. QED
    BY <1>2, <2>3 DEF r
<1>3. CASE r # d - 1
  <2>1. n + 1 = d * q + (r + 1) /\ r + 1 \in 0 .. d - 1
    BY <1>1, <1>3
  <2>2. (n + 1) % d = r + 1
    BY <1>1, <2>1, Remainder
  <2>3. QED
    BY <1>3, <2>2 DEF r
<1>4. QED
  BY <1>2, <1>3

(***************************************************************************)
(* The loops since a HEARTBEAT was due are the remainder of loop_count,    *)
(* also when it wraps.                                                     *)
(***************************************************************************)
Counted == silent_loops = loop_count % HEARTBEAT_LOOPS

LEMMA NextCount ==
  ASSUME loop_count \in 0 .. U8 - 1
  PROVE  /\ NextLoopCount \in 0 .. U8 - 1
         /\ NextLoopCount % HEARTBEAT_LOOPS =
              IF loop_count % HEARTBEAT_LOOPS = HEARTBEAT_LOOPS - 1 THEN 0
              ELSE (loop_count % HEARTBEAT_LOOPS) + 1
<1>0. /\ U8 \in Nat \ {0} /\ HEARTBEAT_LOOPS \in Nat \ {0} /\ U8 % HEARTBEAT_LOOPS = 0
      /\ loop_count \in Nat
  BY LoopAssumption
<1>1. (loop_count + 1) % HEARTBEAT_LOOPS =
        IF loop_count % HEARTBEAT_LOOPS = HEARTBEAT_LOOPS - 1 THEN 0
        ELSE (loop_count % HEARTBEAT_LOOPS) + 1
  BY <1>0, NextRemainder
<1>2. (loop_count + 1) % U8 = IF loop_count % U8 = U8 - 1 THEN 0 ELSE (loop_count % U8) + 1
  BY <1>0, NextRemainder
<1>3. loop_count % U8 = loop_count
  BY <1>0
<1>4. 0 % HEARTBEAT_LOOPS = 0
  BY <1>0
<1>5. CASE loop_count = U8 - 1
  <2>1. NextLoopCount = 0
    BY <1>2, <1>3, <1>5 DEF NextLoopCount
  <2>2. loop_count + 1 = U8
    BY <1>0, <1>5
  <2>3. (loop_count + 1) % HEARTBEAT_LOOPS = 0
    BY <1>0, <2>2
  <2>4. QED
    BY <1>0, <1>1, <1>4, <2>1, <2>3
<1>6. CASE loop_count # U8 - 1
  <2>1. NextLoopCount = loop_count + 1
    BY <1>2, <1>3, <1>6 DEF NextLoopCount
  <2>2. QED
    BY <1>0, <1>1, <1>6, <2>1
<1>7. QED
  BY <1>5, <1>6

-----------------------------------------------------------------------------
(* Types *)

LEMMA InitType == Init => TypeOK /\ Counted
<1> SUFFICES ASSUME Init PROVE TypeOK /\ Counted
  OBVIOUS
<1>1. 0 % HEARTBEAT_LOOPS = 0
  BY LoopAssumption
<1>2. ack_queue \in Seq(0 .. AckBound + 1) /\ Len(ack_queue) = 0
  BY DEF Init
<1>3. uart_busy \in BOOLEAN /\ damaged \in BOOLEAN
  BY Zenon DEF Init
<1>4. QED
  BY <1>1, <1>2, <1>3, TimeAssumption, LoopAssumption DEF Init, TypeOK, Counted

LEMMA StepType == TypeOK /\ Counted /\ [Next]_vars => TypeOK' /\ Counted'
<1> SUFFICES ASSUME TypeOK, Counted, [Next]_vars PROVE TypeOK' /\ Counted'
  OBVIOUS
<1>0. /\ ack_queue \in Seq(Ages) /\ Len(ack_queue) <= AckQueueLen
      /\ uart_busy \in BOOLEAN /\ damaged \in BOOLEAN
  BY DEF TypeOK, Ages
<1> USE TimeAssumption, LoopAssumption DEF thread, uart, clocks
<1>1. CASE RxQueuesAck
  <2>1. ack_queue' \in Seq(Ages) /\ Len(ack_queue') <= AckQueueLen
    BY <1>0, <1>1, PutQueue DEF RxQueuesAck
  <2>2. QED
    BY <1>1, <2>1 DEF RxQueuesAck, TypeOK, Counted, Ages
<1>2. CASE TimePasses
  <2>1. ack_queue' \in Seq(Ages) /\ Len(ack_queue') <= AckQueueLen
    BY <1>0, <1>2, OlderQueue DEF TimePasses
  <2>2. slept' \in 0 .. LOOP_PERIOD /\ waited' \in 0 .. SEND_TIMEOUT
    BY <1>2 DEF TimePasses, TypeOK
  <2>3. stalls' \in 0 .. MaxStalls
    BY <1>2 DEF TimePasses, TypeOK
  <2>4. QED
    BY <1>2, <2>1, <2>2, <2>3 DEF TimePasses, TypeOK, Counted, Ages
<1>3. CASE UartDone
  <2>1. uart_busy' \in BOOLEAN /\ damaged' \in BOOLEAN
    BY <1>0, <1>3, Zenon DEF UartDone
  <2>2. QED
    BY <1>3, <2>1 DEF UartDone, TypeOK, Counted
<1>4. CASE Wake
  <2>1. loop_count' \in 0 .. U8 - 1
    BY <1>4, NextCount DEF Wake, TypeOK
  <2>2. loop_count' % HEARTBEAT_LOOPS =
          IF silent_loops = HEARTBEAT_LOOPS - 1 THEN 0 ELSE silent_loops + 1
    BY <1>4, NextCount DEF Wake, TypeOK, Counted
  <2>3. silent_loops \in 0 .. HEARTBEAT_LOOPS - 1
    BY DEF TypeOK
  <2>4. /\ silent_loops' = loop_count' % HEARTBEAT_LOOPS
        /\ silent_loops' \in 0 .. HEARTBEAT_LOOPS - 1
    BY <1>4, <2>2, <2>3 DEF Wake
  <2>5. QED
    BY <1>4, <2>1, <2>4 DEF Wake, TypeOK, Counted
<1>5. CASE Encode
  <2>1. damaged' \in BOOLEAN
    BY <1>0, <1>5, Zenon DEF Encode
  <2>2. QED
    BY <1>5, <2>1 DEF Encode, TypeOK, Counted
<1>6. CASE UartTx
  <2>1. uart_busy' \in BOOLEAN /\ damaged' \in BOOLEAN
    BY <1>0, <1>6, Zenon DEF UartTx
  <2>2. /\ tx_pc' \in {"sleep", "encode", "uart_tx", "wait", "drain"}
        /\ frame' \in {"none", "heartbeat", "status", "ack"}
        /\ waited' \in 0 .. SEND_TIMEOUT
    BY <1>6 DEF UartTx, TypeOK, AfterFrame, NextFrame
  <2>3. QED
    BY <1>6, <2>1, <2>2 DEF UartTx, TypeOK, Counted
<1>7. CASE EndWait
  BY <1>7 DEF EndWait, TypeOK, Counted, AfterFrame, NextFrame
<1>8. CASE DrainAck
  <2>1. ack_queue' \in Seq(Ages) /\ Len(ack_queue') <= AckQueueLen
    BY <1>0, <1>8 DEF DrainAck
  <2>2. drained' \in 0 .. ACKS_PER_LOOP
    BY <1>8 DEF DrainAck, TypeOK
  <2>3. QED
    BY <1>8, <2>1, <2>2 DEF DrainAck, TypeOK, Counted, Ages
<1>9. CASE UNCHANGED vars
  BY <1>9 DEF vars, TypeOK, Counted
<1>10. QED
  BY <1>1, <1>2, <1>3, <1>4, <1>5, <1>6, <1>7, <1>8, <1>9 DEF Next, TxThread

LEMMA AlwaysTyped == Spec => [](TypeOK /\ Counted)
  BY InitType, StepType, PTL DEF Spec

(***************************************************************************)
(* The queue never holds more than its slots, no wait lasts longer than    *)
(* its timeout, and loop_count stays a byte.                               *)
(***************************************************************************)
THEOREM TypeCorrect == Spec => []TypeOK
  BY AlwaysTyped, PTL

(***************************************************************************)
(* A HEARTBEAT is due in every fourth loop, also across the wrap of        *)
(* loop_count, because 4 divides 256.                                      *)
(***************************************************************************)
THEOREM CadenceKept == Spec => HeartbeatCadence
<1>1. TypeOK /\ Counted /\ [Next]_vars =>
        [frame' = "heartbeat" /\ frame # "heartbeat"
           => silent_loops = HEARTBEAT_LOOPS - 1]_vars
  <2> SUFFICES ASSUME TypeOK, Counted, Next, frame' = "heartbeat", frame # "heartbeat"
               PROVE  silent_loops = HEARTBEAT_LOOPS - 1
    OBVIOUS
  <2>1. CASE Wake
    <3>1. loop_count' % HEARTBEAT_LOOPS = 0
      BY <2>1 DEF Wake
    <3>2. NextLoopCount % HEARTBEAT_LOOPS = 0
      BY <2>1, <3>1 DEF Wake
    <3>3. silent_loops \in 0 .. HEARTBEAT_LOOPS - 1
      BY DEF TypeOK
    <3>4. QED
      BY <3>2, <3>3, NextCount, LoopAssumption DEF TypeOK, Counted
  <2>2. CASE RxQueuesAck \/ TimePasses \/ UartDone \/ Encode
    BY <2>2 DEF RxQueuesAck, TimePasses, UartDone, Encode, thread
  <2>3. CASE UartTx \/ EndWait \/ DrainAck
    BY <2>3 DEF UartTx, EndWait, DrainAck, NextFrame
  <2>4. QED
    BY <2>1, <2>2, <2>3 DEF Next, TxThread
<1>2. QED
  BY <1>1, AlwaysTyped, PTL DEF Spec, HeartbeatCadence

-----------------------------------------------------------------------------
(* One frame at a time *)

(***************************************************************************)
(* Before the first stall, the UART is busy only while the thread waits    *)
(* for it, and the semaphore is up only while the thread waits.            *)
(***************************************************************************)
InStep ==
  stalls = 0 =>
    /\ ~damaged
    /\ uart_busy => tx_pc = "wait" /\ waited = 0 /\ tx_done_sem = 0
    /\ tx_done_sem = 1 => tx_pc = "wait"

LEMMA InStepStep == TypeOK /\ InStep /\ [Next]_vars => InStep'
<1> SUFFICES ASSUME TypeOK, InStep, [Next]_vars, stalls' = 0
             PROVE  /\ ~damaged'
                    /\ uart_busy' => tx_pc' = "wait" /\ waited' = 0 /\ tx_done_sem' = 0
                    /\ tx_done_sem' = 1 => tx_pc' = "wait"
  BY Zenon DEF InStep
<1>1. stalls = 0
  BY DEF TypeOK, Next, TxThread, RxQueuesAck, TimePasses, UartDone, Wake, Encode, UartTx,
     EndWait, DrainAck, vars, thread, uart, clocks
<1>2. /\ ~damaged
      /\ uart_busy => tx_pc = "wait" /\ waited = 0 /\ tx_done_sem = 0
      /\ tx_done_sem = 1 => tx_pc = "wait"
  BY <1>1, Zenon DEF InStep
<1> USE DEF thread, uart, clocks
<1>3. CASE RxQueuesAck
  BY <1>2, <1>3, Zenon DEF RxQueuesAck
<1>4. CASE TimePasses
  <2>1. ~uart_busy
    BY <1>1, <1>4, TimeAssumption DEF TimePasses, TypeOK
  <2>2. QED
    BY <1>2, <1>4, <2>1, Zenon DEF TimePasses
<1>5. CASE UartDone
  BY <1>2, <1>5 DEF UartDone
<1>6. CASE Wake \/ Encode \/ DrainAck
  <2>1. tx_pc # "wait"
    BY <1>6 DEF Wake, Encode, DrainAck
  <2>2. ~uart_busy /\ tx_done_sem # 1
    BY <1>2, <2>1, Zenon
  <2>3. uart_busy' = uart_busy /\ tx_done_sem' = tx_done_sem
    BY <1>6, Zenon DEF Wake, Encode, DrainAck
  <2>4. damaged' = damaged \/ damaged' = (damaged \/ uart_busy)
    BY <1>6, Zenon DEF Wake, Encode, DrainAck
  <2>5. ~damaged'
    BY <1>2, <2>2, <2>4, Zenon
  <2>6. QED
    BY <2>2, <2>3, <2>5, Zenon
<1>7. CASE UartTx
  BY <1>2, <1>7 DEF UartTx, TypeOK
<1>8. CASE EndWait
  <2>1. ~uart_busy
    BY <1>2, <1>8, TimeAssumption DEF EndWait
  <2>2. QED
    BY <1>2, <1>8, <2>1 DEF EndWait
<1>9. CASE UNCHANGED vars
  BY <1>2, <1>9, Zenon DEF vars
<1>10. QED
  BY <1>3, <1>4, <1>5, <1>6, <1>7, <1>8, <1>9 DEF Next, TxThread

(***************************************************************************)
(* As long as the UART does not stall, the one frame buffer is written     *)
(* only while the DMA is idle, and no frame is refused.                    *)
(***************************************************************************)
THEOREM OneFrameAtATime == Spec => []SendsAreSynchronous
<1>1. Init => InStep
  BY DEF Init, InStep
<1>2. InStep => SendsAreSynchronous
  BY Zenon DEF InStep, SendsAreSynchronous
<1>3. QED
  BY <1>1, <1>2, InStepStep, TypeCorrect, PTL DEF Spec

-----------------------------------------------------------------------------
(* The age of acknowledgements *)

(***************************************************************************)
(* In a loop, only the acknowledgements that the rest of the drain will    *)
(* take may have waited through the sleep before it; the others have been  *)
(* queued since, and only stalls have made them older.                     *)
(***************************************************************************)
Allowed(i) ==
  IF tx_pc = "sleep" THEN slept + stalls
  ELSE IF i <= ACKS_PER_LOOP - drained THEN LOOP_PERIOD + stalls
  ELSE stalls

Aged ==
  /\ tx_pc # "sleep" => slept = 0
  /\ tx_pc = "wait" => uart_busy \/ tx_done_sem = 1
  /\ \A i \in DOMAIN ack_queue : ack_queue[i] <= Allowed(i)

(* With an unchanged queue, it is enough that no bound becomes lower *)
LEMMA QueueKept ==
  ASSUME TypeOK, Aged, ack_queue' = ack_queue,
         \A i \in DOMAIN ack_queue : Allowed(i) \in Int /\ Allowed(i)' \in Int
                                     /\ Allowed(i) <= Allowed(i)'
  PROVE  \A i \in DOMAIN ack_queue' : ack_queue'[i] <= Allowed(i)'
<1> SUFFICES ASSUME NEW i \in DOMAIN ack_queue PROVE ack_queue[i] <= Allowed(i)'
  OBVIOUS
<1>1. ack_queue[i] \in Int
  BY BoundNat DEF TypeOK
<1>2. ack_queue[i] <= Allowed(i) /\ Allowed(i) <= Allowed(i)'
  BY DEF Aged
<1>3. Allowed(i) \in Int /\ Allowed(i)' \in Int
  OBVIOUS
<1> HIDE DEF Allowed
<1>4. QED
  BY <1>1, <1>2, <1>3

LEMMA AllowedInt ==
  ASSUME TypeOK, NEW i \in Int
  PROVE  Allowed(i) \in Int
  BY TimeAssumption, LoopAssumption DEF TypeOK, Allowed

LEMMA Indices ==
  ASSUME TypeOK
  PROVE  DOMAIN ack_queue = 1 .. Len(ack_queue) /\ Len(ack_queue) \in 0 .. AckQueueLen
  BY LoopAssumption, BoundNat DEF TypeOK

LEMMA AllowedIntNext ==
  ASSUME TypeOK'
  PROVE  \A i \in Int : Allowed(i)' \in Int
<1>1. slept' \in Int /\ stalls' \in Int /\ drained' \in Int
  BY TimeAssumption, LoopAssumption DEF TypeOK
<1>2. LOOP_PERIOD \in Int
  BY TimeAssumption
<1>3. slept' + stalls' \in Int /\ LOOP_PERIOD + stalls' \in Int
  BY <1>1, <1>2
<1>4. QED
  BY <1>1, <1>3, Zenon DEF Allowed

(* All of Aged, when a step leaves the queue alone and lowers no bound *)
LEMMA AgedKept ==
  ASSUME TypeOK, TypeOK', Aged, ack_queue' = ack_queue,
         tx_pc' # "sleep" => slept' = 0,
         tx_pc' = "wait" => uart_busy' \/ tx_done_sem' = 1,
         \A i \in 1 .. AckQueueLen : Allowed(i) <= Allowed(i)'
  PROVE  Aged'
<1>1. \A i \in DOMAIN ack_queue : i \in Int /\ i \in 1 .. AckQueueLen
  BY Indices, LoopAssumption
<1>2. \A i \in DOMAIN ack_queue : Allowed(i) \in Int /\ Allowed(i)' \in Int
                                  /\ Allowed(i) <= Allowed(i)'
  BY <1>1, AllowedInt, AllowedIntNext
<1>3. \A i \in DOMAIN ack_queue' : ack_queue'[i] <= Allowed(i)'
  BY <1>2, QueueKept
<1>4. QED
  BY <1>3, Zenon DEF Aged

LEMMA AgedStep ==
  ASSUME AckQueueLen <= ACKS_PER_LOOP
  PROVE  TypeOK /\ TypeOK' /\ Aged /\ [Next]_vars => Aged'
<1> SUFFICES ASSUME TypeOK, TypeOK', Aged, [Next]_vars PROVE Aged'
  OBVIOUS
<1>0. /\ tx_pc # "sleep" => slept = 0
      /\ tx_pc = "wait" => uart_busy \/ tx_done_sem = 1
      /\ \A i \in DOMAIN ack_queue : ack_queue[i] <= Allowed(i)
  BY DEF Aged
<1>a. /\ AckQueueLen \in Nat /\ ACKS_PER_LOOP \in Nat /\ LOOP_PERIOD \in Nat
      /\ slept \in Nat /\ stalls \in Nat /\ drained \in 0 .. ACKS_PER_LOOP
  BY TimeAssumption, LoopAssumption DEF TypeOK
<1> USE DEF thread, uart, clocks
<1>1. CASE RxQueuesAck
  <2>1. UNCHANGED <<tx_pc, slept, stalls, drained, uart_busy, tx_done_sem>>
    BY <1>1 DEF RxQueuesAck
  <2>2. \A i \in Int : Allowed(i)' = Allowed(i) /\ Allowed(i) \in Int /\ 0 <= Allowed(i)
    BY <1>a, <2>1 DEF Allowed
  <2>3. ack_queue' = ack_queue \/ ack_queue' = Append(ack_queue, 0)
    BY <1>1 DEF RxQueuesAck, MsgqPut
  <2>4. ack_queue \in Seq(Ages) /\ 0 \in Ages
    BY BoundNat DEF TypeOK, Ages
  <2>5. \A i \in DOMAIN ack_queue' :
          i \in Int /\ ((i \in DOMAIN ack_queue /\ ack_queue'[i] = ack_queue[i])
                       \/ ack_queue'[i] = 0)
    BY <2>3, <2>4
  <2>6. \A i \in DOMAIN ack_queue' : ack_queue'[i] <= Allowed(i)'
    BY <1>0, <2>2, <2>5
  <2>7. QED
    BY <1>0, <2>1, <2>6, Zenon DEF Aged
<1>2. CASE TimePasses
  <2>1. UNCHANGED <<tx_pc, drained, uart_busy, tx_done_sem>>
    BY <1>2 DEF TimePasses
  <2>a. \/ slept' = slept + 1 /\ tx_pc = "sleep"
        \/ slept' = slept /\ tx_pc = "wait" /\ tx_done_sem = 0
    BY <1>2, Zenon DEF TimePasses
  <2>b. tx_done_sem = 0 => tx_done_sem # 1
    OBVIOUS
  <2>2. \/ slept' = slept + 1 /\ tx_pc = "sleep"
        \/ slept' = slept /\ tx_pc = "wait" /\ uart_busy
    BY <1>0, <2>a, <2>b, Zenon
  <2>3. stalls' = stalls + 1 \/ (~uart_busy /\ stalls' = stalls)
    BY <1>2, Zenon DEF TimePasses
  <2>c. ack_queue \in Seq(Ages)
    BY DEF TypeOK, Ages
  <2>d. \A i \in DOMAIN ack_queue : i \in Int /\ ack_queue[i] \in Ages
    BY <2>c
  <2>4. \A i \in DOMAIN ack_queue : i \in Int /\ Allowed(i) \in Int /\ ack_queue[i] \in Ages
    BY <2>d, AllowedInt
  <2>5. \A i \in Int : Allowed(i)' \in Int /\ Allowed(i) + 1 <= Allowed(i)'
    BY <1>a, <2>1, <2>2, <2>3 DEF Allowed
  <2>6. ack_queue' = [i \in DOMAIN ack_queue |-> Older(ack_queue[i])]
    BY <1>2 DEF TimePasses
  <2>7. ASSUME NEW i \in DOMAIN ack_queue' PROVE ack_queue'[i] <= Allowed(i)'
    <3>1. i \in DOMAIN ack_queue /\ ack_queue'[i] = Older(ack_queue[i])
      BY <2>6
    <3>2. ack_queue'[i] \in Ages /\ ack_queue'[i] <= ack_queue[i] + 1
      BY <2>4, <3>1, OlderAge
    <3>3. ack_queue[i] \in Int /\ ack_queue'[i] \in Int /\ Allowed(i) \in Int
          /\ Allowed(i)' \in Int
      BY <2>4, <2>5, <3>1, <3>2, BoundNat DEF Ages
    <3>4. ack_queue[i] <= Allowed(i) /\ Allowed(i) + 1 <= Allowed(i)'
      BY <1>0, <2>4, <2>5, <3>1
    <3> HIDE DEF Allowed
    <3>5. QED
      BY <3>2, <3>3, <3>4
  <2>8. tx_pc' # "sleep" => slept' = 0
    BY <1>0, <2>1, <2>2, Zenon
  <2>9. tx_pc' = "wait" => uart_busy' \/ tx_done_sem' = 1
    BY <1>0, <2>1, Zenon
  <2>10. QED
    BY <2>7, <2>8, <2>9, Zenon DEF Aged
<1>3. CASE UartDone
  <2>1. UNCHANGED <<ack_queue, tx_pc, slept, stalls, drained>> /\ tx_done_sem' = 1
    BY <1>3 DEF UartDone
  <2>2. \A i \in 1 .. AckQueueLen : Allowed(i) <= Allowed(i)'
    BY <1>a, <2>1 DEF Allowed
  <2>3. QED
    BY <1>0, <2>1, <2>2, AgedKept
<1>4. CASE Wake
  <2>1. /\ tx_pc = "sleep" /\ slept = LOOP_PERIOD /\ slept' = 0 /\ drained' = 0
        /\ tx_pc' = "encode" /\ ack_queue' = ack_queue /\ stalls' = stalls
    BY <1>4 DEF Wake
  <2>2. \A i \in 1 .. AckQueueLen : Allowed(i) <= Allowed(i)'
    BY <1>a, <2>1 DEF Allowed
  <2>3. QED
    BY <2>1, <2>2, AgedKept
<1>5. CASE Encode \/ UartTx \/ EndWait
  <2>1. /\ tx_pc # "sleep" /\ tx_pc' # "sleep"
        /\ UNCHANGED <<ack_queue, slept, stalls, drained>>
    BY <1>5 DEF Encode, UartTx, EndWait, AfterFrame
  <2>2. tx_pc' = "wait" => uart_busy'
    BY <1>5 DEF Encode, UartTx, EndWait, AfterFrame
  <2>3. \A i \in 1 .. AckQueueLen : Allowed(i) <= Allowed(i)'
    BY <1>a, <2>1 DEF Allowed
  <2>4. QED
    BY <1>0, <2>1, <2>2, <2>3, AgedKept
<1>6. CASE DrainAck
  <2>1. slept = 0 /\ slept' = 0 /\ stalls' = stalls /\ tx_pc = "drain" /\ tx_pc' # "wait"
    BY <1>0, <1>6 DEF DrainAck
  <2>2. CASE /\ drained < ACKS_PER_LOOP /\ ack_queue # <<>>
             /\ ack_queue' = Tail(ack_queue) /\ drained' = drained + 1
             /\ tx_pc' = "encode"
    <3>1. ack_queue \in Seq(Ages)
      BY DEF TypeOK, Ages
    <3>2. \A i \in DOMAIN ack_queue' : /\ i \in Int /\ i + 1 \in DOMAIN ack_queue
                                       /\ ack_queue'[i] = ack_queue[i + 1]
      BY <2>2, <3>1
    <3>3. \A i \in Int : Allowed(i)' = Allowed(i + 1)
      BY <1>a, <2>1, <2>2 DEF Allowed
    <3>4. \A i \in DOMAIN ack_queue' : ack_queue'[i] <= Allowed(i)'
      BY <1>0, <3>2, <3>3
    <3>5. QED
      BY <2>1, <3>4, Zenon DEF Aged
  <2>3. CASE /\ drained = ACKS_PER_LOOP \/ ack_queue = <<>>
             /\ tx_pc' = "sleep" /\ UNCHANGED <<ack_queue, drained>>
    <3>1. CASE drained = ACKS_PER_LOOP
      <4>1. \A i \in 1 .. AckQueueLen : Allowed(i) <= Allowed(i)'
        BY <1>a, <2>1, <2>3, <3>1 DEF Allowed
      <4>2. QED
        BY <2>1, <2>3, <4>1, AgedKept
    <3>2. CASE ack_queue = <<>>
      BY <2>1, <2>3, <3>2 DEF Aged
    <3>3. QED
      BY <2>3, <3>1, <3>2
  <2>4. QED
    BY <1>6, <2>2, <2>3 DEF DrainAck
<1>7. CASE UNCHANGED vars
  <2>1. UNCHANGED <<ack_queue, tx_pc, slept, stalls, drained, uart_busy, tx_done_sem>>
    BY <1>7 DEF vars
  <2>2. \A i \in 1 .. AckQueueLen : Allowed(i) <= Allowed(i)'
    BY <1>a, <2>1 DEF Allowed
  <2>3. uart_busy' = uart_busy
    BY <2>1
  <2>4. QED
    BY <1>0, <2>1, <2>2, <2>3, AgedKept
<1>8. QED
  BY <1>1, <1>2, <1>3, <1>4, <1>5, <1>6, <1>7 DEF Next, TxThread

(***************************************************************************)
(* If a loop sends as many acknowledgements as the queue has slots, the    *)
(* first drain after an acknowledgement was queued takes it: it waits for  *)
(* one sleep and the stalls at most.                                       *)
(***************************************************************************)
THEOREM AcksTakenNextLoop ==
  ASSUME AckQueueLen <= ACKS_PER_LOOP
  PROVE  Spec => []AckAgeBounded
<1>1. Init => Aged
  BY DEF Init, Aged
<1>2. TypeOK /\ Aged => AckAgeBounded
  <2> SUFFICES ASSUME TypeOK, Aged, NEW i \in DOMAIN ack_queue
               PROVE  ack_queue[i] <= AckBound
    BY Zenon DEF AckAgeBounded
  <2>1. i \in Int /\ ack_queue[i] \in Int
    BY BoundNat, Indices DEF TypeOK
  <2>2. ack_queue[i] <= Allowed(i)
    BY DEF Aged
  <2>3. Allowed(i) \in Int /\ Allowed(i) <= AckBound
    BY <2>1, TimeAssumption, LoopAssumption DEF TypeOK, Allowed, AckBound
  <2> HIDE DEF Allowed
  <2>4. QED
    BY <2>1, <2>2, <2>3, BoundNat
<1>3. TypeOK /\ TypeOK' /\ Aged /\ [Next]_vars => Aged'
  BY AgedStep
<1>4. QED
  BY <1>1, <1>2, <1>3, TypeCorrect, PTL DEF Spec
=============================================================================
