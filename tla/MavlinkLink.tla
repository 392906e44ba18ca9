---------------------------- MODULE MavlinkLink -----------------------------
(***************************************************************************)
(* The way of a byte from the wire to a handled frame: the UART's DMA and  *)
(* its events, the callback uart_cb in interrupt context, the ring buffer  *)
(* and the semaphore, the RX thread's loop mavlink_rx_run, and the parser  *)
(* mavlink2_parse_byte.  What the handlers then do is in MavlinkRx.        *)
(*                                                                         *)
(* A byte carries its value, the only thing the code sees, and, for the    *)
(* properties, which frame it was sent in and where.  The checksum is      *)
(* taken to be perfect: it fits the bytes of one sent frame, in order.     *)
(***************************************************************************)
EXTENDS Integers, Sequences

CONSTANTS
  Frames,        \* the frames, as byte sequences, that may be sent
  MaxFrames,     \* bound: frames sent
  MaxLost,       \* bound: bytes lost on the wire or while RX is disabled
  STX,           \* the value of a frame's first byte (0xFD)
  HEADER_LEN,    \* bytes before the payload, STX and length first (10)
  CHECKSUM_LEN,  \* bytes after it (2)
  MAX_PAYLOAD,   \* the largest payload length a byte can tell (255)
  RX_RING_SIZE,  \* bytes in rx_ring (512)
  RX_DMA_LEN     \* bytes in rx_dma_buf (256)

MAX_FRAME_LEN == HEADER_LEN + MAX_PAYLOAD + CHECKSUM_LEN

ASSUME LinkAssumption ==
  /\ HEADER_LEN \in Nat \ {0, 1}
  /\ CHECKSUM_LEN \in Nat \ {0}
  /\ MAX_PAYLOAD \in Nat
  /\ STX \in 0 .. MAX_PAYLOAD
  /\ RX_RING_SIZE \in Nat \ {0}
  /\ RX_DMA_LEN \in Nat \ {0}
  /\ MaxFrames \in Nat
  /\ MaxLost \in Nat

(* Every frame starts with STX and its payload length, and has that length *)
ASSUME FramesAssumption ==
  \A f \in Frames :
    /\ f \in Seq(0 .. MAX_PAYLOAD)
    /\ Len(f) >= HEADER_LEN + CHECKSUM_LEN
    /\ f[1] = STX
    /\ Len(f) = HEADER_LEN + f[2] + CHECKSUM_LEN

VARIABLES
  sending,      \* the frame on the wire, and how much of it is gone
  sent,         \* frames begun so far
  lost,         \* bytes lost so far, except to a full ring
  rx_enabled,   \* the UART receives
  dma,          \* bytes received and not yet reported
  dma_used,     \* bytes of rx_dma_buf filled since it was handed to the UART
  rx_ring, rx_avail_sem,
  rx_pc,        \* the RX thread: "take" (the semaphore) or "drain"
  parser,       \* buf (its first pos bytes) and payload_len
  handled,      \* frames that reached a handler
  last,         \* history: the byte parsed last
  calm,         \* history: bytes parsed since a gap, up to MAX_FRAME_LEN
  start_calm,   \* history: calm when the current frame began, 0 after a gap in it
  whole,        \* history: the current frame has had no gap
  arrived, due  \* history: frames that arrived whole; those that must be handled

wire    == <<sending, sent, lost>>
dmaVars == <<rx_enabled, dma, dma_used>>
thread  == <<rx_pc, parser, handled>>
history == <<last, calm, start_calm, whole, arrived, due>>
vars    == <<wire, dmaVars, rx_ring, rx_avail_sem, thread, history>>

Init ==
  /\ sending = <<>>
  /\ sent = 0
  /\ lost = 0
  /\ rx_enabled = TRUE
  /\ dma = <<>>
  /\ dma_used = 0
  /\ rx_ring = <<>>
  /\ rx_avail_sem = 0
  /\ rx_pc = "take"
  /\ parser = [buf |-> <<>>, payload_len |-> 0]
  /\ handled = {}
  /\ last = [no |-> 0, at |-> 0, end |-> TRUE]
  /\ calm = MAX_FRAME_LEN
  /\ start_calm = MAX_FRAME_LEN
  /\ whole = FALSE
  /\ arrived = {}
  /\ due = {}

-----------------------------------------------------------------------------
(* The wire, the DMA and the interrupt *)

(* The bytes of frame number no                                            *)
BytesOf(f, no) ==
  [i \in 1 .. Len(f) |-> [byte |-> f[i], no |-> no, at |-> i, end |-> i = Len(f)]]

StartFrame ==
  /\ sending = <<>>
  /\ sent < MaxFrames
  /\ sent' = sent + 1
  /\ \E f \in Frames : sending' = BytesOf(f, sent')
  /\ UNCHANGED <<lost, dmaVars, rx_ring, rx_avail_sem, thread, history>>

ByteReceived ==
  /\ sending # <<>>
  /\ rx_enabled
  /\ dma_used < RX_DMA_LEN
  /\ dma' = Append(dma, Head(sending))
  /\ dma_used' = dma_used + 1
  /\ sending' = Tail(sending)
  /\ UNCHANGED <<sent, lost, rx_enabled, rx_ring, rx_avail_sem, thread, history>>

(* Noise, or the byte comes while the UART does not receive *)
ByteLost ==
  /\ sending # <<>>
  /\ lost < MaxLost
  /\ lost' = lost + 1
  /\ sending' = Tail(sending)
  /\ UNCHANGED <<sent, dmaVars, rx_ring, rx_avail_sem, thread, history>>

(* ring_buf_put takes what fits *)
RingPut(bytes) ==
  LET room == RX_RING_SIZE - Len(rx_ring)
  IN  IF Len(bytes) <= room THEN rx_ring \o bytes
      ELSE rx_ring \o SubSeq(bytes, 1, room)

(* Mutant of RxRdy: the thread is told only when all the bytes fitted *)
RxRdy_SilentWhenFull ==
  /\ dma # <<>>
  /\ rx_ring' = RingPut(dma)
  /\ rx_avail_sem' = IF Len(rx_ring') = Len(rx_ring) + Len(dma) THEN 1 ELSE rx_avail_sem
  /\ dma' = <<>>
  /\ UNCHANGED <<wire, rx_enabled, dma_used, thread, history>>

(* UART_RX_RDY: the line was idle for 100 ms, or the buffer is full *)
RxRdy ==
  /\ dma # <<>>
  /\ rx_ring' = RingPut(dma)
  /\ rx_avail_sem' = 1
  /\ dma' = <<>>
  /\ UNCHANGED <<wire, rx_enabled, dma_used, thread, history>>

(* UART_RX_BUF_REQUEST is not answered: a full buffer ends the reception *)
RxStops ==
  /\ rx_enabled
  /\ dma_used = RX_DMA_LEN
  /\ dma = <<>>
  /\ rx_enabled' = FALSE
  /\ UNCHANGED <<wire, dma, dma_used, rx_ring, rx_avail_sem, thread, history>>

(* UART_RX_DISABLED: reception starts anew, in the same buffer *)
RxDisabled ==
  /\ ~rx_enabled
  /\ rx_enabled' = TRUE
  /\ dma_used' = 0
  /\ UNCHANGED <<wire, dma, rx_ring, rx_avail_sem, thread, history>>

-----------------------------------------------------------------------------
(* The parser *)

(* Mutant of CrcFits: the checksum is not looked at *)
CrcFits_Ignored(buf) == TRUE

(***************************************************************************)
(* The frames are those whose id is in crc_extra_table.  A whole frame of  *)
(* another id (get_crc_extra gives 0) fails its checksum after its last    *)
(* byte and leaves the parser as a good frame does, only unhandled.        *)
(***************************************************************************)
CrcFits(buf) == \A i \in DOMAIN buf : buf[i].at = i /\ buf[i].no = buf[1].no

(* Mutant of WithByte: the length of the first frame is kept *)
WithByte_KeepsLength(b) ==
  [buf         |-> Append(parser.buf, b),
   payload_len |-> IF Len(parser.buf) = 1 /\ parser.payload_len = 0
                   THEN b.byte ELSE parser.payload_len]

(***************************************************************************)
(* The parser with byte b added.  payload_len is the length byte once that *)
(* has come, and the previous frame's before.                              *)
(***************************************************************************)
WithByte(b) ==
  [buf         |-> Append(parser.buf, b),
   payload_len |-> IF Len(parser.buf) = 1 THEN b.byte ELSE parser.payload_len]

Complete(p) == Len(p.buf) >= HEADER_LEN + p.payload_len + CHECKSUM_LEN

(* Mutant of Restart: the parser starts anew only after a good frame *)
Restart_AfterGood(p) == IF CrcFits(p.buf) THEN [p EXCEPT !.buf = <<>>] ELSE p

(* p->pos = 0, good frame or bad *)
Restart(p) == [p EXCEPT !.buf = <<>>]

Accepts(b) == parser.buf # <<>> \/ b.byte = STX

(* mavlink2_parse_byte; a whole frame goes to its handler *)
mavlink2_parse_byte(b) ==
  \/ /\ ~Accepts(b)
     /\ UNCHANGED <<parser, handled>>
  \/ /\ Accepts(b)
     /\ ~Complete(WithByte(b))
     /\ parser' = WithByte(b)
     /\ UNCHANGED handled
  \/ /\ Accepts(b)
     /\ Complete(WithByte(b))
     /\ parser' = Restart(WithByte(b))
     /\ handled' = IF CrcFits(WithByte(b).buf) THEN handled \union {WithByte(b).buf[1].no}
                   ELSE handled

(* b is the byte that was sent after the one parsed last *)
Follows(b) ==
  \/ b.no = last.no /\ b.at = last.at + 1
  \/ b.no = last.no + 1 /\ b.at = 1 /\ last.end

(***************************************************************************)
(* Observing the bytes the parser gets.  An STX inside a frame can mislead *)
(* the parser only as long as it may be out of step.                       *)
(***************************************************************************)
Observe(b) ==
  /\ last' = [no |-> b.no, at |-> b.at, end |-> b.end]
  /\ start_calm' = IF ~Follows(b) THEN 0 ELSE IF b.at = 1 THEN calm ELSE start_calm
  /\ whole' = IF b.at = 1 THEN TRUE ELSE whole /\ Follows(b)
  /\ calm' = IF ~Follows(b) \/ (b.byte = STX /\ b.at > 1 /\ start_calm < MAX_FRAME_LEN) THEN 1
             ELSE IF calm < MAX_FRAME_LEN THEN calm + 1 ELSE calm
  /\ arrived' = IF b.end /\ whole' THEN arrived \union {b.no} ELSE arrived
  /\ due' = IF b.end /\ whole' /\ start_calm' >= MAX_FRAME_LEN
            THEN due \union {b.no} ELSE due

-----------------------------------------------------------------------------
(* The RX thread *)

TakeSem ==
  /\ rx_pc = "take"
  /\ rx_avail_sem = 1
  /\ rx_avail_sem' = 0
  /\ rx_pc' = "drain"
  /\ UNCHANGED <<wire, dmaVars, rx_ring, parser, handled, history>>

(* Mutant of GetByte: one byte per semaphore *)
GetByte_OnlyOne ==
  /\ rx_pc = "drain"
  /\ rx_ring # <<>>
  /\ rx_ring' = Tail(rx_ring)
  /\ mavlink2_parse_byte(Head(rx_ring))
  /\ Observe(Head(rx_ring))
  /\ rx_pc' = "take"
  /\ UNCHANGED <<wire, dmaVars, rx_avail_sem>>

GetByte ==
  /\ rx_pc = "drain"
  /\ rx_ring # <<>>
  /\ rx_ring' = Tail(rx_ring)
  /\ mavlink2_parse_byte(Head(rx_ring))
  /\ Observe(Head(rx_ring))
  /\ UNCHANGED <<wire, dmaVars, rx_avail_sem, rx_pc>>

RingEmpty ==
  /\ rx_pc = "drain"
  /\ rx_ring = <<>>
  /\ rx_pc' = "take"
  /\ UNCHANGED <<wire, dmaVars, rx_ring, rx_avail_sem, parser, handled, history>>

RxThread  == TakeSem \/ GetByte \/ RingEmpty
Interrupt == RxRdy \/ RxStops \/ RxDisabled
Wire      == StartFrame \/ ByteReceived \/ ByteLost

Next == Wire \/ Interrupt \/ RxThread

Spec == Init /\ [][Next]_vars

(***************************************************************************)
(* Fairness.  The UART reports what it received at the latest when the     *)
(* line has been idle for 100 ms, and the interrupt and the RX thread run. *)
(* Nothing makes the sender send.                                          *)
(***************************************************************************)
FairSpec == Spec /\ WF_vars(Interrupt) /\ WF_vars(RxThread)

-----------------------------------------------------------------------------
(* Properties *)

(***************************************************************************)
(* Types; above all the parser never holds a byte beyond its buffer, with  *)
(* whatever value it takes for a length when it is out of step.            *)
(***************************************************************************)
TypeOK ==
  /\ sent \in 0 .. MaxFrames
  /\ lost \in 0 .. MaxLost
  /\ rx_enabled \in BOOLEAN
  /\ dma_used \in 0 .. RX_DMA_LEN
  /\ Len(dma) <= dma_used
  /\ Len(rx_ring) <= RX_RING_SIZE
  /\ rx_avail_sem \in 0 .. 1
  /\ rx_pc \in {"take", "drain"}
  /\ parser.payload_len \in 0 .. MAX_PAYLOAD
  /\ Len(parser.buf) < HEADER_LEN + parser.payload_len + CHECKSUM_LEN

(***************************************************************************)
(* No wakeup is lost: when the RX thread waits for the semaphore and the   *)
(* semaphore is not up, there is nothing in the ring.                      *)
(***************************************************************************)
NoSleepOnData == rx_pc = "take" /\ rx_avail_sem = 0 => rx_ring = <<>>

(* Every byte the UART received and the ring had room for is parsed.       *)
EveryByteParsed == dma # <<>> \/ rx_ring # <<>> ~> dma = <<>> /\ rx_ring = <<>>

(***************************************************************************)
(* Only a frame that arrived whole reaches a handler, never one put        *)
(* together from the pieces of several.                                    *)
(***************************************************************************)
OnlyWholeFrames == handled \subseteq arrived

(***************************************************************************)
(* A loss is forgotten: a frame that arrives whole is handled, unless a    *)
(* loss, or an STX in a frame while the parser may be out of step, came    *)
(* less than MAX_FRAME_LEN bytes before it began.  In particular no frame  *)
(* is lost before the first loss.                                          *)
(***************************************************************************)
LossIsForgotten == due \subseteq handled
=============================================================================
