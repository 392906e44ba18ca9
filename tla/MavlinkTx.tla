----------------------------- MODULE MavlinkTx ------------------------------
(***************************************************************************)
(* The transmit side of app/mavlink_agent.c: the TX thread, which wakes    *)
(* every 250 ms, sends a status, every fourth time a HEARTBEAT before it,  *)
(* and drains the acknowledgements; mavlink_send, which hands the one      *)
(* frame buffer to the UART's DMA and waits at most 50 ms for it; and the  *)
(* UART callback that ends the wait.                                       *)
(*                                                                         *)
(* An acknowledgement is represented by its age, the time since it was     *)
(* queued.  Nothing in the firmware puts anything in fault_queue, so the   *)
(* loop's last part, one STATUSTEXT per fault, never runs and is left out. *)
(***************************************************************************)
EXTENDS Msgq

CONSTANTS
  LOOP_PERIOD,      \* the TX thread's sleep (250 ms)
  SEND_TIMEOUT,     \* how long mavlink_send waits (50 ms)
  ACKS_PER_LOOP,    \* acknowledgements sent in one loop (4)
  HEARTBEAT_LOOPS,  \* loops from one HEARTBEAT to the next (4)
  AckQueueLen,      \* slots of ack_queue (4)
  U8,               \* range of loop_count (2^8)
  MaxStalls         \* bound: time units in which the UART is stuck on a frame

(***************************************************************************)
(* A frame takes 3 ms at most at 921600 baud, less than the time unit of   *)
(* the model: it is sent in no time, or the UART is stuck on it (a stall). *)
(***************************************************************************)
ASSUME TimeAssumption ==
  /\ LOOP_PERIOD \in Nat \ {0}
  /\ SEND_TIMEOUT \in Nat \ {0}
  /\ MaxStalls \in Nat
ASSUME LoopAssumption ==
  /\ ACKS_PER_LOOP \in Nat \ {0}
  /\ AckQueueLen \in Nat \ {0}
  /\ HEARTBEAT_LOOPS \in Nat \ {0}
  /\ U8 \in Nat \ {0}
  /\ U8 % HEARTBEAT_LOOPS = 0

VARIABLES
  ack_queue,    \* ages of the acknowledgements, oldest first
  tx_pc,        \* where the TX thread is in its loop
  frame,        \* the frame being built and sent: its place in the loop
  loop_count,
  drained,      \* acknowledgements taken in this loop
  slept,        \* time since the thread's sleep began
  waited,       \* time since mavlink_send began to wait
  uart_busy,    \* the DMA is sending tx_frame_buf
  tx_done_sem,  \* the semaphore, 0 or 1
  stalls,       \* history: stalls so far
  damaged,      \* history: a frame was overwritten while it was sent, or refused
  silent_loops  \* history: loops since one in which a HEARTBEAT was due

thread == <<tx_pc, frame, loop_count, drained>>
uart   == <<uart_busy, tx_done_sem>>
clocks == <<slept, waited, stalls>>
vars   == <<ack_queue, thread, uart, clocks, damaged, silent_loops>>

(***************************************************************************)
(* The oldest an acknowledgement can get before it is taken: it has just   *)
(* missed one drain, and every stall delays the next.                      *)
(***************************************************************************)
AckBound == LOOP_PERIOD + MaxStalls

Older(age) == IF age <= AckBound THEN age + 1 ELSE age

Init ==
  /\ ack_queue = <<>>
  /\ tx_pc = "sleep"
  /\ frame = "none"
  /\ loop_count = 0
  /\ drained = 0
  /\ slept = 0
  /\ waited = 0
  /\ uart_busy = FALSE
  /\ tx_done_sem = 0
  /\ stalls = 0
  /\ damaged = FALSE
  /\ silent_loops = 0

(* The RX thread queues an acknowledgement *)
RxQueuesAck ==
  /\ ack_queue' = MsgqPut(ack_queue, AckQueueLen, 0)
  /\ UNCHANGED <<thread, uart, clocks, damaged, silent_loops>>

(* Time passes while the thread is blocked; with the UART busy, it stalls *)
TimePasses ==
  /\ \/ /\ tx_pc = "sleep" /\ slept < LOOP_PERIOD
        /\ slept' = slept + 1
        /\ UNCHANGED waited
     \/ /\ tx_pc = "wait" /\ tx_done_sem = 0 /\ waited < SEND_TIMEOUT
        /\ waited' = waited + 1
        /\ UNCHANGED slept
  /\ \/ uart_busy /\ stalls < MaxStalls /\ stalls' = stalls + 1
     \/ ~uart_busy /\ UNCHANGED stalls
  /\ ack_queue' = [i \in DOMAIN ack_queue |-> Older(ack_queue[i])]
  /\ UNCHANGED <<thread, uart, damaged, silent_loops>>

(* UART_TX_DONE or UART_TX_ABORTED, in the interrupt *)
UartDone ==
  /\ uart_busy
  /\ uart_busy' = FALSE
  /\ tx_done_sem' = 1
  /\ UNCHANGED <<ack_queue, thread, clocks, damaged, silent_loops>>

(* Mutant of NextLoopCount: the counter wraps one early *)
NextLoopCount_WrapsEarly == (loop_count + 1) % (U8 - 1)

(* loop_count is a uint8_t; it keeps the cadence because 4 divides 256 *)
NextLoopCount == (loop_count + 1) % U8

(* The sleep ends; context and attitude are copied; the first frame is due *)
Wake ==
  /\ tx_pc = "sleep"
  /\ slept = LOOP_PERIOD
  /\ slept' = 0
  /\ loop_count' = NextLoopCount
  /\ drained' = 0
  /\ tx_pc' = "encode"
  /\ \/ /\ loop_count' % HEARTBEAT_LOOPS = 0
        /\ frame' = "heartbeat"
        /\ silent_loops' = 0
     \/ /\ loop_count' % HEARTBEAT_LOOPS # 0
        /\ frame' = "status"
        /\ silent_loops' = silent_loops + 1
  /\ UNCHANGED <<ack_queue, uart, waited, stalls, damaged>>

(* A frame is built in tx_frame_buf, whether or not the DMA still reads it *)
Encode ==
  /\ tx_pc = "encode"
  /\ tx_pc' = "uart_tx"
  /\ damaged' = (damaged \/ uart_busy)
  /\ UNCHANGED <<ack_queue, frame, loop_count, drained, uart, clocks, silent_loops>>

(* What follows a frame: HEARTBEAT, status, then acknowledgements *)
AfterFrame == IF frame = "heartbeat" THEN "encode" ELSE "drain"

NextFrame == IF frame = "heartbeat" THEN "status" ELSE "none"

(* Mutant of UartTx: mavlink_send does not wait *)
UartTx_NoWait ==
  /\ tx_pc = "uart_tx"
  /\ tx_pc' = AfterFrame
  /\ frame' = NextFrame
  /\ uart_busy' = TRUE
  /\ damaged' = (damaged \/ uart_busy)
  /\ UNCHANGED <<ack_queue, loop_count, drained, tx_done_sem, clocks, silent_loops>>

(* uart_tx refuses a frame while it is busy (-EBUSY); nobody tries again *)
UartTx ==
  /\ tx_pc = "uart_tx"
  /\ \/ /\ ~uart_busy
        /\ uart_busy' = TRUE
        /\ tx_pc' = "wait"
        /\ waited' = 0
        /\ UNCHANGED <<frame, damaged>>
     \/ /\ uart_busy
        /\ damaged' = TRUE
        /\ tx_pc' = AfterFrame
        /\ frame' = NextFrame
        /\ UNCHANGED <<uart_busy, waited>>
  /\ UNCHANGED <<ack_queue, loop_count, drained, tx_done_sem, slept, stalls,
                 silent_loops>>

(* k_sem_take gets the semaphore, this frame's or an older one's, or times *)
(* out; its result is not looked at                                        *)
EndWait ==
  /\ tx_pc = "wait"
  /\ tx_done_sem = 1 \/ waited = SEND_TIMEOUT
  /\ tx_done_sem' = 0
  /\ tx_pc' = AfterFrame
  /\ frame' = NextFrame
  /\ waited' = 0
  /\ UNCHANGED <<ack_queue, loop_count, drained, uart_busy, slept, stalls, damaged,
                 silent_loops>>

(* Mutant of DrainAck: one acknowledgement per loop *)
DrainAck_OnePerLoop ==
  /\ tx_pc = "drain"
  /\ \/ /\ drained < 1 /\ ack_queue # <<>>
        /\ ack_queue' = Tail(ack_queue)
        /\ drained' = drained + 1
        /\ tx_pc' = "encode"
        /\ frame' = "ack"
     \/ /\ drained = 1 \/ ack_queue = <<>>
        /\ tx_pc' = "sleep"
        /\ UNCHANGED <<ack_queue, drained, frame>>
  /\ UNCHANGED <<loop_count, uart, clocks, damaged, silent_loops>>

(* The next acknowledgement is taken, or the loop is over *)
DrainAck ==
  /\ tx_pc = "drain"
  /\ \/ /\ drained < ACKS_PER_LOOP /\ ack_queue # <<>>
        /\ ack_queue' = Tail(ack_queue)
        /\ drained' = drained + 1
        /\ tx_pc' = "encode"
        /\ frame' = "ack"
     \/ /\ drained = ACKS_PER_LOOP \/ ack_queue = <<>>
        /\ tx_pc' = "sleep"
        /\ UNCHANGED <<ack_queue, drained, frame>>
  /\ UNCHANGED <<loop_count, uart, clocks, damaged, silent_loops>>

TxThread == Wake \/ Encode \/ UartTx \/ EndWait \/ DrainAck

Next == RxQueuesAck \/ TimePasses \/ UartDone \/ TxThread

Spec == Init /\ [][Next]_vars

-----------------------------------------------------------------------------
(* Properties *)

TypeOK ==
  /\ ack_queue \in Seq(0 .. AckBound + 1)
  /\ Len(ack_queue) <= AckQueueLen
  /\ tx_pc \in {"sleep", "encode", "uart_tx", "wait", "drain"}
  /\ frame \in {"none", "heartbeat", "status", "ack"}
  /\ loop_count \in 0 .. U8 - 1
  /\ drained \in 0 .. ACKS_PER_LOOP
  /\ slept \in 0 .. LOOP_PERIOD
  /\ waited \in 0 .. SEND_TIMEOUT
  /\ uart_busy \in BOOLEAN
  /\ tx_done_sem \in 0 .. 1
  /\ stalls \in 0 .. MaxStalls
  /\ damaged \in BOOLEAN
  /\ silent_loops \in 0 .. HEARTBEAT_LOOPS - 1

(***************************************************************************)
(* As long as the UART never stalls, the one frame buffer is enough: no    *)
(* frame is written while the DMA reads the one before, and uart_tx never  *)
(* refuses one, however HEARTBEAT, status and acknowledgements follow each *)
(* other.                                                                  *)
(***************************************************************************)
SendsAreSynchronous == stalls = 0 => ~damaged

(***************************************************************************)
(* An acknowledgement is taken by the first drain that begins after it was *)
(* queued, also when more are queued during a drain: it never waits more   *)
(* than a sleep and the stalls that fall into it.                          *)
(***************************************************************************)
AckAgeBounded == \A i \in DOMAIN ack_queue : ack_queue[i] <= AckBound

(***************************************************************************)
(* The HEARTBEAT keeps its cadence through the wrap of loop_count: it is   *)
(* due in exactly every fourth loop.  (After a stall uart_tx may refuse    *)
(* it, see UartTx.)                                                        *)
(***************************************************************************)
HeartbeatCadence ==
  [][ frame' = "heartbeat" /\ frame # "heartbeat"
        => silent_loops = HEARTBEAT_LOOPS - 1 ]_vars
=============================================================================
