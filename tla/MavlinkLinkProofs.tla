-------------------------- MODULE MavlinkLinkProofs -------------------------
(* Proofs about MavlinkLink, for rings, frames and losses of any size      *)
EXTENDS MavlinkLink, TLAPS

(***************************************************************************)
(* The handshake between uart_cb and mavlink_rx_run loses no wakeup: the   *)
(* RX thread never waits for a semaphore that is down while there are      *)
(* bytes in the ring.  The invariant is inductive as it stands: the        *)
(* interrupt raises the semaphore whenever it fills the ring, and the      *)
(* thread goes back to the semaphore only from an empty ring.              *)
(***************************************************************************)
THEOREM NoLostWakeup == Spec => []NoSleepOnData
  <1>1. Init => NoSleepOnData
    BY DEF Init, NoSleepOnData
  <1>2. NoSleepOnData /\ [Next]_vars => NoSleepOnData'
    <2> SUFFICES ASSUME NoSleepOnData, [Next]_vars PROVE NoSleepOnData'
      OBVIOUS
    <2>1. CASE StartFrame \/ ByteReceived \/ ByteLost \/ RxStops \/ RxDisabled
      BY <2>1 DEF NoSleepOnData, StartFrame, ByteReceived, ByteLost, RxStops,
         RxDisabled, thread
    <2>2. CASE RxRdy
      BY <2>2 DEF NoSleepOnData, RxRdy
    <2>3. CASE TakeSem
      BY <2>3 DEF NoSleepOnData, TakeSem
    <2>4. CASE GetByte
      BY <2>4 DEF NoSleepOnData, GetByte
    <2>5. CASE RingEmpty
      BY <2>5 DEF NoSleepOnData, RingEmpty
    <2>6. CASE UNCHANGED vars
      BY <2>6 DEF NoSleepOnData, vars, thread
    <2> QED
      BY <2>1, <2>2, <2>3, <2>4, <2>5, <2>6 DEF Next, Wire, Interrupt, RxThread
  <1> QED
    BY <1>1, <1>2, PTL DEF Spec

-----------------------------------------------------------------------------
(* Types *)

LEMMA ElementOf ==
  ASSUME NEW S, NEW q \in Seq(S), NEW i \in 1 .. Len(q)
  PROVE  q[i] \in S
  OBVIOUS

LEMMA TailOf ==
  ASSUME NEW S, NEW q \in Seq(S), q # <<>>
  PROVE  Head(q) \in S /\ Tail(q) \in Seq(S) /\ Len(Tail(q)) <= Len(q)
  OBVIOUS

LEMMA OneMore ==
  ASSUME NEW bound \in Nat, NEW n \in 0 .. bound, n < bound
  PROVE  n + 1 \in 0 .. bound
  OBVIOUS

Bytes == [byte : 0 .. MAX_PAYLOAD, no : Nat, at : Nat, end : BOOLEAN]

(***************************************************************************)
(* TypeOK with what it rests on: every byte on its way has a byte's value, *)
(* and a UART that has stopped has nothing left to report.                 *)
(***************************************************************************)
Typed ==
  /\ TypeOK
  /\ sending \in Seq(Bytes)
  /\ dma \in Seq(Bytes)
  /\ rx_ring \in Seq(Bytes)
  /\ parser.buf \in Seq(Bytes)
  /\ parser = [buf |-> parser.buf, payload_len |-> parser.payload_len]
  /\ ~rx_enabled => dma = <<>>

LEMMA FrameBytes ==
  ASSUME NEW f \in Frames, NEW no \in Nat
  PROVE  /\ BytesOf(f, no) \in Seq(Bytes)
         /\ Len(BytesOf(f, no)) = Len(f)
<1>1. f \in Seq(0 .. MAX_PAYLOAD) /\ Len(f) \in Nat
  BY FramesAssumption
<1>2. \A i \in 1 .. Len(f) :
        [byte |-> f[i], no |-> no, at |-> i, end |-> i = Len(f)] \in Bytes
  <2> SUFFICES ASSUME NEW i \in 1 .. Len(f)
               PROVE  [byte |-> f[i], no |-> no, at |-> i, end |-> i = Len(f)] \in Bytes
    OBVIOUS
  <2>1. (i = Len(f)) \in BOOLEAN
    BY Zenon
  <2>a. f[i] \in 0 .. MAX_PAYLOAD
    BY <1>1, ElementOf, Zenon
  <2>2. f[i] \in 0 .. MAX_PAYLOAD /\ i \in Nat
    BY <1>1, <2>a
  <2> DEFINE e == i = Len(f)
  <2> HIDE DEF e
  <2>3. e \in BOOLEAN
    BY <2>1, Zenon DEF e
  <2>4. [byte |-> f[i], no |-> no, at |-> i, end |-> e] \in Bytes
    BY <2>2, <2>3 DEF Bytes
  <2>5. QED
    BY <2>4, Zenon DEF e
<1>3. BytesOf(f, no) \in [1 .. Len(f) -> Bytes]
  BY <1>2 DEF BytesOf
<1>4. QED
  BY <1>1, <1>3

LEMMA RingPutType ==
  ASSUME NEW bytes \in Seq(Bytes), rx_ring \in Seq(Bytes), Len(rx_ring) <= RX_RING_SIZE
  PROVE  RingPut(bytes) \in Seq(Bytes) /\ Len(RingPut(bytes)) <= RX_RING_SIZE
<1> DEFINE room == RX_RING_SIZE - Len(rx_ring)
<1>1. room \in Nat /\ Len(bytes) \in Nat /\ Len(rx_ring) \in Nat
  BY LinkAssumption
<1>2. CASE Len(bytes) <= room
  BY <1>1, <1>2, LinkAssumption DEF RingPut
<1>3. CASE ~(Len(bytes) <= room)
  <2>1. SubSeq(bytes, 1, room) \in Seq(Bytes) /\ Len(SubSeq(bytes, 1, room)) = room
    BY <1>1, <1>3
  <2>2. RingPut(bytes) = rx_ring \o SubSeq(bytes, 1, room)
    BY <1>3 DEF RingPut
  <2>3. QED
    BY <1>1, <2>1, <2>2, LinkAssumption
<1>4. QED
  BY <1>2, <1>3

LEMMA InitTyped == Init => Typed
<1> SUFFICES ASSUME Init PROVE Typed
  OBVIOUS
<1>1. TypeOK
  BY LinkAssumption DEF Init, TypeOK
<1>2. QED
  BY <1>1 DEF Init, Typed

(***************************************************************************)
(* The parser takes a byte while its buffer has room: the frame it is in   *)
(* is not complete, and the length of the frame before is replaced by the  *)
(* second byte, at which no frame is complete.                             *)
(***************************************************************************)
LEMMA ParserTyped ==
  ASSUME Typed, NEW b \in Bytes, mavlink2_parse_byte(b)
  PROVE  /\ parser' = [buf |-> parser'.buf, payload_len |-> parser'.payload_len]
         /\ parser'.buf \in Seq(Bytes)
         /\ parser'.payload_len \in 0 .. MAX_PAYLOAD
         /\ Len(parser'.buf) < HEADER_LEN + parser'.payload_len + CHECKSUM_LEN
<1> DEFINE p == WithByte(b)
<1>1. /\ parser.buf \in Seq(Bytes) /\ parser.payload_len \in 0 .. MAX_PAYLOAD
      /\ b.byte \in 0 .. MAX_PAYLOAD
  BY DEF Typed, TypeOK, Bytes
<1>2. /\ p = [buf |-> p.buf, payload_len |-> p.payload_len]
      /\ p.buf \in Seq(Bytes) /\ p.payload_len \in 0 .. MAX_PAYLOAD
  BY <1>1 DEF WithByte
<1>3. CASE ~Accepts(b)
  BY <1>3 DEF mavlink2_parse_byte, Typed, TypeOK
<1>4. CASE Accepts(b) /\ ~Complete(p)
  <2>1. parser' = p
    BY <1>4 DEF mavlink2_parse_byte
  <2>2. Len(p.buf) < HEADER_LEN + p.payload_len + CHECKSUM_LEN
    BY <1>2, <1>4, LinkAssumption DEF Complete
  <2>3. QED
    BY <1>2, <2>1, <2>2
<1>5. CASE Accepts(b) /\ Complete(p)
  <2>1. parser' = [p EXCEPT !.buf = <<>>]
    BY <1>5 DEF mavlink2_parse_byte, Restart
  <2>2. parser'.buf = <<>> /\ parser'.payload_len = p.payload_len
        /\ parser' = [buf |-> <<>>, payload_len |-> p.payload_len]
    BY <1>2, <2>1
  <2>3. QED
    BY <1>2, <2>2, LinkAssumption
<1>6. QED
  BY <1>3, <1>4, <1>5

LEMMA WireTyped == Typed /\ Wire => Typed'
<1> SUFFICES ASSUME Typed, Wire PROVE Typed'
  OBVIOUS
<1> USE LinkAssumption
<1>1. CASE StartFrame
  <2>1. PICK f \in Frames : sending' = BytesOf(f, sent')
    BY <1>1 DEF StartFrame, Typed, TypeOK, dmaVars, thread
  <2>a. sent \in 0 .. MaxFrames /\ sent < MaxFrames /\ sent' = sent + 1
    BY <1>1, Zenon DEF StartFrame, Typed, TypeOK, dmaVars, thread
  <2>2. sent' \in 0 .. MaxFrames
    BY <2>a, OneMore
  <2>3. sending' \in Seq(Bytes)
    BY <2>1, <2>2, FrameBytes
  <2>4. QED
    BY <1>1, <2>2, <2>3 DEF StartFrame, Typed, TypeOK, dmaVars, thread
<1>2. CASE ByteReceived
  <2>a. sending \in Seq(Bytes) /\ sending # <<>> /\ dma \in Seq(Bytes)
    BY <1>2, Zenon DEF ByteReceived, Typed, TypeOK, dmaVars, thread
  <2>b. Head(sending) \in Bytes /\ Tail(sending) \in Seq(Bytes)
    BY <2>a, TailOf
  <2>1. /\ Head(sending) \in Bytes /\ Tail(sending) \in Seq(Bytes)
        /\ Append(dma, Head(sending)) \in Seq(Bytes)
        /\ Len(Append(dma, Head(sending))) = Len(dma) + 1
    BY <2>a, <2>b
  <2>2. sending' \in Seq(Bytes) /\ dma' \in Seq(Bytes) /\ Len(dma') = Len(dma) + 1
    BY <1>2, <2>1 DEF ByteReceived, Typed, TypeOK, dmaVars, thread
  <2>3. dma_used' = dma_used + 1 /\ dma_used < RX_DMA_LEN /\ rx_enabled
    BY <1>2 DEF ByteReceived, Typed, TypeOK, dmaVars, thread
  <2>c. dma_used \in 0 .. RX_DMA_LEN /\ Len(dma) <= dma_used /\ RX_DMA_LEN \in Nat
        /\ Len(dma) \in Nat
    BY <2>a DEF Typed, TypeOK
  <2>d. dma_used' \in 0 .. RX_DMA_LEN
    BY <2>3, <2>c, OneMore
  <2>4. dma_used' \in 0 .. RX_DMA_LEN /\ Len(dma') <= dma_used'
    BY <2>2, <2>3, <2>c, <2>d
  <2>5. QED
    BY <1>2, <2>2, <2>3, <2>4 DEF ByteReceived, Typed, TypeOK, dmaVars, thread
<1>3. CASE ByteLost
  <2>a. /\ sending \in Seq(Bytes) /\ sending # <<>>
        /\ lost \in 0 .. MaxLost /\ lost < MaxLost /\ lost' = lost + 1
    BY <1>3, Zenon DEF ByteLost, Typed, TypeOK, dmaVars, thread
  <2>1. Tail(sending) \in Seq(Bytes) /\ lost' \in 0 .. MaxLost
    BY <2>a, TailOf, OneMore
  <2>2. QED
    BY <1>3, <2>1 DEF ByteLost, Typed, TypeOK, dmaVars, thread
<1>4. QED
  BY <1>1, <1>2, <1>3 DEF Wire

LEMMA InterruptTyped == Typed /\ Interrupt => Typed'
<1> SUFFICES ASSUME Typed, Interrupt PROVE Typed'
  OBVIOUS
<1> USE LinkAssumption
<1>1. CASE RxRdy
  <2>1. rx_ring' \in Seq(Bytes) /\ Len(rx_ring') <= RX_RING_SIZE
    BY <1>1, RingPutType DEF RxRdy, Typed, TypeOK, wire, thread
  <2>2. dma' = <<>> /\ dma' \in Seq(Bytes) /\ Len(dma') = 0
    BY <1>1 DEF RxRdy, Typed, TypeOK, wire, thread
  <2>3. QED
    BY <1>1, <2>1, <2>2 DEF RxRdy, Typed, TypeOK, wire, thread
<1>2. CASE RxStops
  <2>1. rx_enabled' \in BOOLEAN /\ dma = <<>>
    BY <1>2, Zenon DEF RxStops, Typed, TypeOK, wire, thread
  <2>2. QED
    BY <1>2, <2>1 DEF RxStops, Typed, TypeOK, wire, thread
<1>3. CASE RxDisabled
  <2>1. rx_enabled' /\ rx_enabled' \in BOOLEAN
    BY <1>3, Zenon DEF RxDisabled, Typed, TypeOK, wire, thread
  <2>2. dma = <<>> /\ Len(dma) = 0
    BY <1>3 DEF RxDisabled, Typed, TypeOK, wire, thread
  <2>3. QED
    BY <1>3, <2>1, <2>2 DEF RxDisabled, Typed, TypeOK, wire, thread
<1>4. QED
  BY <1>1, <1>2, <1>3 DEF Interrupt

LEMMA ThreadTyped == Typed /\ RxThread => Typed'
<1> SUFFICES ASSUME Typed, RxThread PROVE Typed'
  OBVIOUS
<1> USE LinkAssumption
<1>1. CASE TakeSem \/ RingEmpty
  <2>1. /\ rx_pc' \in {"take", "drain"} /\ rx_avail_sem' \in 0 .. 1
        /\ UNCHANGED <<wire, dmaVars, rx_ring, parser>>
    BY <1>1 DEF TakeSem, RingEmpty, Typed, TypeOK, wire, dmaVars
  <2>2. QED
    BY <2>1 DEF Typed, TypeOK, wire, dmaVars
<1>2. CASE GetByte
  <2>a. rx_ring \in Seq(Bytes) /\ rx_ring # <<>> /\ Len(rx_ring) <= RX_RING_SIZE
    BY <1>2, Zenon DEF GetByte, Typed, TypeOK, wire, dmaVars
  <2>1. /\ Head(rx_ring) \in Bytes /\ Tail(rx_ring) \in Seq(Bytes)
        /\ Len(Tail(rx_ring)) <= RX_RING_SIZE
    <3>1. /\ Head(rx_ring) \in Bytes /\ Tail(rx_ring) \in Seq(Bytes)
          /\ Len(Tail(rx_ring)) <= Len(rx_ring)
      BY <2>a, TailOf
    <3>2. Len(Tail(rx_ring)) \in Nat /\ Len(rx_ring) \in Nat /\ RX_RING_SIZE \in Nat
      BY <2>a, <3>1
    <3>3. QED
      BY <2>a, <3>1, <3>2
  <2>2. mavlink2_parse_byte(Head(rx_ring))
    BY <1>2 DEF GetByte, Typed, TypeOK, wire, dmaVars
  <2>3. /\ parser' = [buf |-> parser'.buf, payload_len |-> parser'.payload_len]
        /\ parser'.buf \in Seq(Bytes)
        /\ parser'.payload_len \in 0 .. MAX_PAYLOAD
        /\ Len(parser'.buf) < HEADER_LEN + parser'.payload_len + CHECKSUM_LEN
    BY <2>1, <2>2, ParserTyped
  <2>4. QED
    BY <1>2, <2>1, <2>3 DEF GetByte, Typed, TypeOK, wire, dmaVars
<1>3. QED
  BY <1>1, <1>2 DEF RxThread

LEMMA AlwaysTyped == Spec => []Typed
<1>1. Typed /\ UNCHANGED vars => Typed'
  BY DEF Typed, TypeOK, vars, wire, dmaVars, thread
<1>2. Typed /\ [Next]_vars => Typed'
  BY <1>1, WireTyped, InterruptTyped, ThreadTyped DEF Next
<1>3. QED
  BY <1>2, InitTyped, PTL DEF Spec

(***************************************************************************)
(* Whatever comes over the wire, in step or out of step, the parser writes *)
(* no byte beyond a frame's length, nor the DMA and the ring beyond their  *)
(* buffers.                                                                *)
(***************************************************************************)
THEOREM BuffersHold == Spec => []TypeOK
<1>1. Typed => TypeOK
  BY DEF Typed
<1>2. QED
  BY <1>1, AlwaysTyped, PTL

-----------------------------------------------------------------------------
(* Whole frames *)

In(q) == {q[i] : i \in 1 .. Len(q)}

(* The bytes on their way from the wire to the end of the parser's buffer *)
UnderWay == In(sending) \union In(dma) \union In(rx_ring) \union In(parser.buf)

LEMMA TailIn ==
  ASSUME NEW q \in Seq(Bytes), q # <<>>
  PROVE  Head(q) \in In(q) /\ In(Tail(q)) \subseteq In(q)
<1>1. Len(q) \in Nat /\ Len(q) > 0 /\ Head(q) = q[1]
  OBVIOUS
<1>2. Len(Tail(q)) = Len(q) - 1
  BY <1>1
<1>3. \A i \in 1 .. Len(Tail(q)) : Tail(q)[i] = q[i + 1] /\ i + 1 \in 1 .. Len(q)
  BY <1>1, <1>2
<1>4. QED
  BY <1>1, <1>3 DEF In

LEMMA AppendIn ==
  ASSUME NEW q \in Seq(Bytes), NEW b \in Bytes
  PROVE  In(Append(q, b)) \subseteq In(q) \union {b}
<1>1. Len(Append(q, b)) = Len(q) + 1 /\ Len(q) \in Nat
  OBVIOUS
<1>2. \A i \in 1 .. Len(Append(q, b)) :
        \/ i \in 1 .. Len(q) /\ Append(q, b)[i] = q[i]
        \/ Append(q, b)[i] = b
  BY <1>1
<1>3. QED
  BY <1>2 DEF In

LEMMA ConcatIn ==
  ASSUME NEW q \in Seq(Bytes), NEW r \in Seq(Bytes)
  PROVE  In(q \o r) \subseteq In(q) \union In(r)
<1>1. Len(q \o r) = Len(q) + Len(r) /\ Len(q) \in Nat /\ Len(r) \in Nat
  OBVIOUS
<1>2. \A i \in 1 .. Len(q \o r) :
        \/ i \in 1 .. Len(q) /\ (q \o r)[i] = q[i]
        \/ i - Len(q) \in 1 .. Len(r) /\ (q \o r)[i] = r[i - Len(q)]
  BY <1>1
<1>3. QED
  BY <1>2 DEF In

LEMMA SubSeqIn ==
  ASSUME NEW q \in Seq(Bytes), NEW n \in Nat, n <= Len(q)
  PROVE  In(SubSeq(q, 1, n)) \subseteq In(q)
<1>1. Len(SubSeq(q, 1, n)) = n /\ Len(q) \in Nat
  OBVIOUS
<1>2. \A i \in 1 .. n : SubSeq(q, 1, n)[i] = q[i] /\ i \in 1 .. Len(q)
  BY <1>1
<1>3. QED
  BY <1>1, <1>2 DEF In

LEMMA RingPutIn ==
  ASSUME NEW bytes \in Seq(Bytes), rx_ring \in Seq(Bytes), Len(rx_ring) <= RX_RING_SIZE
  PROVE  In(RingPut(bytes)) \subseteq In(rx_ring) \union In(bytes)
<1> DEFINE room == RX_RING_SIZE - Len(rx_ring)
<1>1. room \in Nat /\ Len(bytes) \in Nat
  BY LinkAssumption
<1>2. CASE Len(bytes) <= room
  BY <1>2, ConcatIn DEF RingPut
<1>3. CASE ~(Len(bytes) <= room)
  <2>1. /\ SubSeq(bytes, 1, room) \in Seq(Bytes)
        /\ In(SubSeq(bytes, 1, room)) \subseteq In(bytes)
    BY <1>1, <1>3, SubSeqIn
  <2>2. RingPut(bytes) = rx_ring \o SubSeq(bytes, 1, room)
    BY <1>3 DEF RingPut
  <2> HIDE DEF room
  <2>3. In(RingPut(bytes)) \subseteq In(rx_ring) \union In(SubSeq(bytes, 1, room))
    BY <2>1, <2>2, ConcatIn
  <2>4. QED
    BY <2>1, <2>3
<1>4. QED
  BY <1>2, <1>3

(***************************************************************************)
(* The bytes under way come from frames already begun; the bytes of one    *)
(* frame agree on its length: none comes after the one in the place that   *)
(* the length byte tells, which is the last.                               *)
(***************************************************************************)
Begun(b) ==
  /\ b.no \in 1 .. sent
  /\ b.at >= 1
  /\ b.at = 1 => b.byte = STX
  /\ b.end => b.at > 2

Agree(b, c) ==
  b.no = c.no =>
    /\ c.at = 2 => /\ b.at <= HEADER_LEN + c.byte + CHECKSUM_LEN
                   /\ b.end <=> b.at = HEADER_LEN + c.byte + CHECKSUM_LEN
    /\ c.end => b.at <= c.at

Origin ==
  /\ \A b \in UnderWay : Begun(b)
  /\ \A b \in UnderWay, c \in UnderWay : Agree(b, c)

(* What the parser holds, when it is in a frame, is what it got last *)
InFrame ==
  parser.buf # <<>> /\ CrcFits(parser.buf) =>
    whole /\ last.no = parser.buf[1].no /\ last.at = Len(parser.buf)

LengthRead == Len(parser.buf) >= 2 => parser.payload_len = parser.buf[2].byte

InTheFrame == Typed /\ Origin /\ InFrame /\ LengthRead /\ OnlyWholeFrames

LEMMA OriginShrinks ==
  ASSUME Origin, UnderWay' \subseteq UnderWay, sent' = sent
  PROVE  Origin'
BY Zenon DEF Origin, Agree, Begun

LEMMA UnderWayBytes ==
  ASSUME Typed
  PROVE  UnderWay \subseteq Bytes
<1>1. \A q \in Seq(Bytes) : In(q) \subseteq Bytes
  BY ElementOf, Zenon DEF In
<1>2. QED
  BY <1>1, Zenon DEF UnderWay, Typed

(* A frame begun brings bytes of a number no other byte has, and Agree     *)
(* holds among them because a frame has the length it tells.               *)
LEMMA NewFrame ==
  ASSUME Typed, Origin, StartFrame
  PROVE  Origin'
<1>1. PICK f \in Frames : sending' = BytesOf(f, sent')
  BY DEF StartFrame
<1>2. sent \in Nat /\ sent' = sent + 1 /\ sent' \in Nat
  <2>1. sent \in 0 .. MaxFrames /\ sent' = sent + 1
    BY Zenon DEF StartFrame, Typed, TypeOK
  <2>2. QED
    BY <2>1, LinkAssumption
<1>3. f \in Seq(0 .. MAX_PAYLOAD) /\ Len(f) \in Nat /\ Len(f) >= 2
      /\ Len(f) = HEADER_LEN + f[2] + CHECKSUM_LEN
  BY FramesAssumption, LinkAssumption
<1>4. BytesOf(f, sent') \in Seq(Bytes) /\ Len(BytesOf(f, sent')) = Len(f)
  BY <1>2, FrameBytes
<1> DEFINE new == In(sending')
<1>5. UnderWay' \subseteq UnderWay \union new
  BY Zenon DEF StartFrame, UnderWay, dmaVars, thread
<1>6. \A b \in new : \E i \in 1 .. Len(f) :
        b = [byte |-> f[i], no |-> sent', at |-> i, end |-> i = Len(f)]
  BY <1>1, <1>4, Zenon DEF In, BytesOf
<1>7. \A b \in new : b.no = sent'
  BY <1>6
<1>8. \A b \in UnderWay : b.no \in 1 .. sent
  BY Zenon DEF Begun, Origin
<1>9. ASSUME NEW b \in UnderWay' PROVE Begun(b)'
  <2>1. CASE b \in UnderWay
    <3>1. b.no \in 1 .. sent'
      BY <1>2, <1>8, <2>1
    <3>2. QED
      BY <2>1, <3>1, Zenon DEF Begun, Origin
  <2>2. CASE b \in new
    <3>1. PICK i \in 1 .. Len(f) :
            b = [byte |-> f[i], no |-> sent', at |-> i, end |-> i = Len(f)]
      BY <1>6, <2>2, Zenon
    <3>2. b.byte = f[i] /\ b.no = sent' /\ b.at = i /\ b.end = (i = Len(f))
      BY <3>1, Zenon
    <3>3. sent' \in 1 .. sent' /\ i >= 1 /\ (i = 1 => f[i] = STX) /\ (i = Len(f) => i > 2)
      BY <1>2, <1>3, FramesAssumption, LinkAssumption
    <3>4. QED
      BY <3>2, <3>3, Zenon DEF Begun
  <2>3. QED
    BY <1>5, <2>1, <2>2, Zenon
<1>10. ASSUME NEW b \in new, NEW c \in new PROVE Agree(b, c)
  <2>1. PICK i \in 1 .. Len(f) :
          b = [byte |-> f[i], no |-> sent', at |-> i, end |-> i = Len(f)]
    BY <1>6, Zenon
  <2>2. PICK j \in 1 .. Len(f) :
          c = [byte |-> f[j], no |-> sent', at |-> j, end |-> j = Len(f)]
    BY <1>6, Zenon
  <2>3. /\ b.at = i /\ (b.end <=> i = Len(f))
        /\ c.at = j /\ c.byte = f[j] /\ (c.end <=> j = Len(f))
    BY <2>1, <2>2, Zenon
  <2>4. c.at = 2 => /\ b.at <= HEADER_LEN + c.byte + CHECKSUM_LEN
                    /\ i = Len(f) <=> b.at = HEADER_LEN + c.byte + CHECKSUM_LEN
    BY <1>3, <2>3
  <2>5. j = Len(f) => b.at <= c.at
    BY <1>3, <2>3
  <2>6. QED
    BY <2>3, <2>4, <2>5, Zenon DEF Agree
<1>11. ASSUME NEW b \in UnderWay', NEW c \in UnderWay' PROVE Agree(b, c)
  <2>1. CASE b \in UnderWay /\ c \in UnderWay
    BY <2>1, Zenon DEF Origin
  <2>2. CASE b \in new /\ c \in new
    BY <2>2, <1>10, Zenon
  <2>3. CASE (b \in UnderWay /\ c \in new) \/ (b \in new /\ c \in UnderWay)
    <3>1. b.no # c.no
      BY <1>2, <1>7, <1>8, <2>3
    <3>2. QED
      BY <3>1, Zenon DEF Agree
  <2>4. QED
    BY <1>5, <2>1, <2>2, <2>3, Zenon
<1>12. QED
  BY <1>9, <1>11, Zenon DEF Origin, Agree

(***************************************************************************)
(* The parser with the byte it gets: if the checksum fits, that byte is    *)
(* where the buffer ends, and all the frame's bytes up to it came in turn. *)
(***************************************************************************)
LEMMA FitsWithByte ==
  ASSUME InTheFrame, NEW b \in Bytes, Observe(b), CrcFits(WithByte(b).buf)
  PROVE  whole' /\ b.no = WithByte(b).buf[1].no /\ b.at = Len(WithByte(b).buf)
<1> DEFINE q == parser.buf
           r == WithByte(b).buf
<1>1. q \in Seq(Bytes) /\ r = Append(q, b)
  BY DEF InTheFrame, Typed, WithByte
<1>2. /\ Len(q) \in Nat /\ Len(r) = Len(q) + 1 /\ r[Len(r)] = b
      /\ DOMAIN r = 1 .. Len(r) /\ DOMAIN q = 1 .. Len(q)
      /\ \A i \in 1 .. Len(q) : r[i] = q[i]
  BY <1>1
<1>3. \A i \in 1 .. Len(r) : r[i].at = i /\ r[i].no = r[1].no
  BY <1>2, Zenon DEF CrcFits
<1>4. b.no = r[1].no /\ b.at = Len(r)
  <2>1. Len(r) \in 1 .. Len(r)
    BY <1>2
  <2>2. QED
    BY <1>2, <1>3, <2>1, Zenon
<1>5. CASE q = <<>>
  <2>1. b.at = 1
    BY <1>2, <1>4, <1>5
  <2>2. whole' = TRUE
    BY <2>1, Zenon DEF Observe
  <2>3. QED
    BY <1>4, <2>2, Zenon
<1>6. CASE q # <<>>
  <2>1. 1 \in 1 .. Len(q) /\ b.at = Len(q) + 1 /\ b.at # 1
    BY <1>1, <1>2, <1>4, <1>6
  <2>2. r[1] = q[1]
    BY <1>2, <2>1, Zenon
  <2>3. \A i \in DOMAIN q : q[i].at = i /\ q[i].no = q[1].no
    <3>1. \A i \in 1 .. Len(q) : i \in 1 .. Len(r)
      BY <1>2
    <3>2. QED
      BY <1>2, <1>3, <2>2, <3>1, Zenon
  <2>4. whole /\ last.no = q[1].no /\ last.at = Len(q)
    BY <1>6, <2>3, Zenon DEF InTheFrame, InFrame, CrcFits
  <2>5. Follows(b)
    BY <1>4, <2>1, <2>2, <2>4, Zenon DEF Follows
  <2>6. whole'
    BY <2>1, <2>4, <2>5, Zenon DEF Observe
  <2>7. QED
    BY <1>4, <2>6, Zenon
<1>7. QED
  BY <1>5, <1>6

(* A complete buffer with a fitting checksum is a frame that has arrived *)
LEMMA CompleteIsWhole ==
  ASSUME InTheFrame, NEW b \in Bytes, b \in UnderWay, Observe(b),
         Complete(WithByte(b)), CrcFits(WithByte(b).buf)
  PROVE  WithByte(b).buf[1].no \in arrived'
<1> DEFINE q == parser.buf
           r == WithByte(b).buf
           n == parser.payload_len
<1>1. /\ q \in Seq(Bytes) /\ r = Append(q, b) /\ Len(q) \in Nat /\ Len(r) = Len(q) + 1
      /\ n \in Nat /\ b.byte \in Nat
      /\ Len(q) < HEADER_LEN + n + CHECKSUM_LEN
  <2>1. /\ q \in Seq(Bytes) /\ n \in 0 .. MAX_PAYLOAD
        /\ Len(q) < HEADER_LEN + n + CHECKSUM_LEN
    BY Zenon DEF InTheFrame, Typed, TypeOK
  <2>2. r = Append(q, b)
    BY DEF WithByte
  <2>3. b.byte \in 0 .. MAX_PAYLOAD
    BY DEF Bytes
  <2>4. QED
    BY <2>1, <2>2, <2>3, LinkAssumption
<1>2. /\ whole' /\ b.no = r[1].no /\ b.at = Len(r)
  BY FitsWithByte
<1>3. /\ WithByte(b).payload_len = IF Len(q) = 1 THEN b.byte ELSE n
      /\ Len(r) >= HEADER_LEN + WithByte(b).payload_len + CHECKSUM_LEN
  BY DEF Complete, WithByte
<1> HIDE DEF q, r, n
<1>4. Len(q) >= 2 /\ Len(r) = HEADER_LEN + n + CHECKSUM_LEN
  <2>1. PICK k \in Nat : k = WithByte(b).payload_len /\ k = IF Len(q) = 1 THEN b.byte ELSE n
    BY <1>1, <1>3, Zenon
  <2>2. /\ HEADER_LEN \in Nat /\ CHECKSUM_LEN \in Nat /\ HEADER_LEN >= 2 /\ CHECKSUM_LEN >= 1
    BY LinkAssumption
  <2>3. Len(r) >= HEADER_LEN + k + CHECKSUM_LEN
    BY <1>3, <2>1, Zenon
  <2>4. /\ Len(q) \in Nat /\ Len(r) = Len(q) + 1 /\ Len(q) < HEADER_LEN + n + CHECKSUM_LEN
        /\ n \in Nat /\ b.byte \in Nat
    BY <1>1, Zenon
  <2>5. Len(q) = 1 => k = b.byte
    BY <2>1, Zenon
  <2>6. Len(q) # 1 => k = n
    BY <2>1, Zenon
  <2> DEFINE c == b.byte
             lq == Len(q)
             lr == Len(r)
  <2>7. /\ lq \in Nat /\ lr = lq + 1 /\ lq < HEADER_LEN + n + CHECKSUM_LEN
        /\ n \in Nat /\ c \in Nat /\ (lq = 1 => k = c) /\ (lq # 1 => k = n)
        /\ lr >= HEADER_LEN + k + CHECKSUM_LEN
    BY <2>3, <2>4, <2>5, <2>6, Zenon
  <2> HIDE DEF c, lq, lr
  <2>8. lq >= 2 /\ lr = HEADER_LEN + n + CHECKSUM_LEN
    BY <2>1, <2>2, <2>7
  <2>9. QED
    BY <2>8, Zenon DEF lq, lr
<1>5. n = q[2].byte
  BY <1>4 DEF InTheFrame, LengthRead, q, n
<1>6. 2 \in 1 .. Len(q) /\ 2 \in DOMAIN r /\ r[2] = q[2]
  BY <1>1, <1>4
<1>7. q[2] \in UnderWay
  BY <1>6, Zenon DEF UnderWay, In, q
<1>8. r[2].at = 2 /\ r[2].no = r[1].no
  BY <1>6, Zenon DEF CrcFits, r
<1>9. b.end
  <2>1. b.no = q[2].no /\ q[2].at = 2 /\ b.at = HEADER_LEN + q[2].byte + CHECKSUM_LEN
    BY <1>2, <1>4, <1>5, <1>6, <1>8
  <2>2. QED
    BY <1>7, <2>1, Zenon DEF InTheFrame, Origin, Agree
<1>10. b.no \in arrived'
  BY <1>2, <1>9, Zenon DEF Observe
<1>11. QED
  BY <1>2, <1>10, Zenon DEF r

(* No byte gets under way but by a frame begun *)
LEMMA OthersShrink ==
  ASSUME Typed, [Next]_vars, ~StartFrame
  PROVE  UnderWay' \subseteq UnderWay /\ sent' = sent
<1>1. /\ sending \in Seq(Bytes) /\ dma \in Seq(Bytes) /\ rx_ring \in Seq(Bytes)
      /\ parser.buf \in Seq(Bytes) /\ Len(rx_ring) <= RX_RING_SIZE
  BY DEF Typed, TypeOK
<1>2. In(<<>>) = {}
  BY DEF In
<1>3. CASE ByteReceived
  <2>1. /\ dma' = Append(dma, Head(sending)) /\ sending' = Tail(sending) /\ sending # <<>>
        /\ UNCHANGED <<sent, rx_ring, parser>>
    BY <1>3, Zenon DEF ByteReceived, thread
  <2>2. Head(sending) \in In(sending) /\ In(Tail(sending)) \subseteq In(sending)
        /\ Head(sending) \in Bytes
    BY <1>1, <2>1, TailIn, TailOf
  <2>3. In(Append(dma, Head(sending))) \subseteq In(dma) \union {Head(sending)}
    BY <1>1, <2>2, AppendIn
  <2>4. QED
    BY <2>1, <2>2, <2>3, Zenon DEF UnderWay
<1>4. CASE ByteLost
  <2>1. sending' = Tail(sending) /\ sending # <<>> /\ UNCHANGED <<sent, dma, rx_ring, parser>>
    BY <1>4, Zenon DEF ByteLost, thread, dmaVars
  <2>2. In(Tail(sending)) \subseteq In(sending)
    BY <1>1, <2>1, TailIn
  <2>3. QED
    BY <2>1, <2>2, Zenon DEF UnderWay
<1>5. CASE RxRdy
  <2>1. /\ rx_ring' = RingPut(dma) /\ dma' = <<>> /\ UNCHANGED <<sent, sending, parser>>
    BY <1>5, Zenon DEF RxRdy, thread, wire
  <2>2. In(RingPut(dma)) \subseteq In(rx_ring) \union In(dma)
    BY <1>1, RingPutIn
  <2>3. QED
    BY <1>2, <2>1, <2>2, Zenon DEF UnderWay
<1>6. CASE GetByte
  <2>1. /\ rx_ring' = Tail(rx_ring) /\ rx_ring # <<>> /\ UNCHANGED <<sent, sending, dma>>
        /\ mavlink2_parse_byte(Head(rx_ring))
    BY <1>6, Zenon DEF GetByte, wire, dmaVars
  <2>2. Head(rx_ring) \in In(rx_ring) /\ In(Tail(rx_ring)) \subseteq In(rx_ring)
        /\ Head(rx_ring) \in Bytes
    BY <1>1, <2>1, TailIn, TailOf
  <2>3. \/ parser' = parser
        \/ parser'.buf = Append(parser.buf, Head(rx_ring))
        \/ parser'.buf = <<>>
    BY <2>1 DEF mavlink2_parse_byte, WithByte, Restart
  <2>4. In(parser'.buf) \subseteq In(parser.buf) \union {Head(rx_ring)}
    BY <1>1, <1>2, <2>2, <2>3, AppendIn, Zenon
  <2>5. QED
    BY <2>1, <2>2, <2>4, Zenon DEF UnderWay
<1>7. CASE RxStops \/ RxDisabled \/ TakeSem \/ RingEmpty \/ UNCHANGED vars
  <2>1. UNCHANGED <<sent, sending, dma, rx_ring, parser>>
    BY <1>7, Zenon DEF RxStops, RxDisabled, TakeSem, RingEmpty, vars, wire, dmaVars, thread
  <2>2. QED
    BY <2>1, Zenon DEF UnderWay
<1>8. QED
  BY <1>3, <1>4, <1>5, <1>6, <1>7, Zenon DEF Next, Wire, Interrupt, RxThread

LEMMA ByteInTheFrame ==
  ASSUME InTheFrame, GetByte
  PROVE  InFrame' /\ LengthRead' /\ OnlyWholeFrames'
<1> DEFINE b == Head(rx_ring)
           q == parser.buf
           p == WithByte(b)
<1>1. /\ rx_ring # <<>> /\ mavlink2_parse_byte(b) /\ Observe(b)
      /\ rx_ring \in Seq(Bytes) /\ q \in Seq(Bytes)
  BY Zenon DEF GetByte, InTheFrame, Typed
<1>2. b \in Bytes /\ b \in UnderWay
  BY <1>1, TailIn, TailOf DEF UnderWay
<1>3. arrived \subseteq arrived' /\ last'.no = b.no /\ last'.at = b.at
  BY <1>1, Zenon DEF Observe
<1>4. p.buf = Append(q, b) /\ Len(q) \in Nat
      /\ p.payload_len = IF Len(q) = 1 THEN b.byte ELSE parser.payload_len
  BY <1>1 DEF WithByte
<1>5. CASE ~Accepts(b)
  <2>1. parser' = parser /\ handled' = handled /\ q = <<>>
    BY <1>1, <1>5, Zenon DEF mavlink2_parse_byte, Accepts
  <2>2. Len(q) = 0
    BY <2>1
  <2>3. LengthRead'
    BY <2>1, <2>2 DEF LengthRead
  <2>4. QED
    BY <1>3, <2>1, <2>3, Zenon DEF InFrame, OnlyWholeFrames, InTheFrame
<1>6. CASE Accepts(b) /\ ~Complete(p)
  <2>1. parser' = p /\ handled' = handled
    BY <1>1, <1>6, Zenon DEF mavlink2_parse_byte
  <2>2. InFrame'
    <3>1. CrcFits(p.buf) => whole' /\ b.no = p.buf[1].no /\ b.at = Len(p.buf)
      BY <1>1, <1>2, FitsWithByte
    <3>2. CrcFits(parser'.buf) =>
            whole' /\ last'.no = parser'.buf[1].no /\ last'.at = Len(parser'.buf)
      BY <1>3, <2>1, <3>1, Zenon
    <3>3. QED
      BY <3>2, Zenon DEF InFrame, CrcFits
  <2>3. LengthRead'
    <3>1. Len(q) >= 2 => parser.payload_len = q[2].byte
      BY Zenon DEF InTheFrame, LengthRead
    <3>2. /\ Len(p.buf) = Len(q) + 1
          /\ Len(q) = 1 => p.buf[2] = b
          /\ Len(q) >= 2 => p.buf[2] = q[2]
      <4>1. /\ Len(q) \in Nat /\ Len(Append(q, b)) = Len(q) + 1
            /\ Append(q, b)[Len(q) + 1] = b
            /\ \A i \in 1 .. Len(q) : Append(q, b)[i] = q[i]
        BY <1>1, <1>2
      <4>2. /\ Len(q) = 1 => Append(q, b)[2] = b
            /\ Len(q) >= 2 => Append(q, b)[2] = q[2]
        BY <4>1
      <4>3. QED
        BY <1>4, <4>1, <4>2, Zenon
    <3>3. Len(p.buf) >= 2 => p.payload_len = p.buf[2].byte
      <4>1. ASSUME NEW n \in Nat PROVE n + 1 >= 2 => n = 1 \/ (n >= 2 /\ n # 1)
        OBVIOUS
      <4>a. Len(p.buf) >= 2 => Len(q) = 1 \/ (Len(q) >= 2 /\ Len(q) # 1)
        BY <1>4, <3>2, <4>1, Zenon
      <4> HIDE DEF p, q, b
      <4>2. QED
        BY <1>4, <3>1, <3>2, <4>a, Zenon DEF q
    <3>4. QED
      BY <2>1, <3>3, Zenon DEF LengthRead
  <2>4. QED
    BY <1>3, <2>1, <2>2, <2>3, Zenon DEF OnlyWholeFrames, InTheFrame
<1>7. CASE Accepts(b) /\ Complete(p)
  <2>1. /\ parser'.buf = <<>>
        /\ handled' = IF CrcFits(p.buf) THEN handled \union {p.buf[1].no} ELSE handled
    BY <1>1, <1>7 DEF mavlink2_parse_byte, Restart, WithByte
  <2>2. CrcFits(p.buf) => p.buf[1].no \in arrived'
    BY <1>1, <1>2, <1>7, CompleteIsWhole
  <2>3. handled' \subseteq arrived'
    BY <1>3, <2>1, <2>2, Zenon DEF InTheFrame, OnlyWholeFrames
  <2>4. Len(parser'.buf) = 0
    BY <2>1
  <2>5. LengthRead'
    BY <2>4 DEF LengthRead
  <2>6. QED
    BY <2>1, <2>3, <2>5, Zenon DEF InFrame, OnlyWholeFrames
<1>8. QED
  BY <1>5, <1>6, <1>7

LEMMA InitInTheFrame == Init => InTheFrame
<1> SUFFICES ASSUME Init PROVE InTheFrame
  OBVIOUS
<1>1. Typed
  BY InitTyped
<1>2. UnderWay = {} /\ parser.buf = <<>> /\ Len(parser.buf) = 0 /\ handled = {}
  BY DEF Init, UnderWay, In
<1>3. LengthRead
  BY <1>2 DEF LengthRead
<1>4. QED
  BY <1>1, <1>2, <1>3, Zenon DEF InTheFrame, Origin, InFrame, OnlyWholeFrames

LEMMA StepInTheFrame == InTheFrame /\ [Next]_vars => InTheFrame'
<1> SUFFICES ASSUME InTheFrame, [Next]_vars PROVE InTheFrame'
  OBVIOUS
<1>1. Typed /\ Origin /\ Typed'
  <2>1. Typed /\ UNCHANGED vars => Typed'
    BY DEF Typed, TypeOK, vars, wire, dmaVars, thread
  <2>2. QED
    BY <2>1, WireTyped, InterruptTyped, ThreadTyped DEF Next, InTheFrame
<1>2. Origin'
  BY <1>1, NewFrame, OthersShrink, OriginShrinks
<1>3. CASE GetByte
  BY <1>1, <1>2, <1>3, ByteInTheFrame, Zenon DEF InTheFrame
<1>4. CASE ~GetByte
  <2>1. UNCHANGED <<parser, handled, last, whole, arrived>>
    BY <1>4, Zenon DEF Next, Wire, Interrupt, RxThread, StartFrame, ByteReceived, ByteLost,
       RxRdy, RxStops, RxDisabled, TakeSem, RingEmpty, vars, thread, history
  <2>2. InFrame' /\ LengthRead' /\ OnlyWholeFrames'
    BY <2>1, Zenon DEF InTheFrame, InFrame, LengthRead, OnlyWholeFrames, CrcFits
  <2>3. QED
    BY <1>1, <1>2, <2>2, Zenon DEF InTheFrame
<1>5. QED
  BY <1>3, <1>4

(***************************************************************************)
(* No frame is put together from the pieces of several: what reaches a     *)
(* handler arrived whole, whatever was lost, wherever the parser started   *)
(* and however often it took an STX inside a payload for a beginning.  The *)
(* argument: while the checksum can still fit, the parser's buffer is the  *)
(* beginning of one frame, received without a gap, and since the length    *)
(* byte in it is that frame's, it is complete when the frame is.           *)
(***************************************************************************)
THEOREM NoneFromPieces == Spec => []OnlyWholeFrames
<1>1. InTheFrame => OnlyWholeFrames
  BY DEF InTheFrame
<1>2. QED
  BY <1>1, InitInTheFrame, StepInTheFrame, PTL DEF Spec

-----------------------------------------------------------------------------
(* Recovery *)

(* Where the byte parsed last stands among those that may follow it *)
Latest ==
  /\ last.no \in 0 .. sent /\ last.at \in Nat /\ last.end \in BOOLEAN
  /\ last.at = 0 => last.no = 0
  /\ last.end => \A b \in UnderWay : b.no = last.no => b.at <= last.at

(* The parser holds just what has come of the frame that is being received *)
InStep ==
  IF last.end THEN parser.buf = <<>>
  ELSE parser.buf # <<>> /\ CrcFits(parser.buf)

(***************************************************************************)
(* A parser out of step is empty or began with what it holds no later than *)
(* the calm did, and a frame that is being received then is not due.       *)
(***************************************************************************)
Recovers ==
  /\ calm \in Nat /\ start_calm \in Nat
  /\ ~InStep => /\ last.end \/ start_calm < MAX_FRAME_LEN
                /\ parser.buf = <<>> \/ calm <= Len(parser.buf)

LEMMA InitRecovers == Init => Latest /\ Recovers /\ LossIsForgotten
<1> SUFFICES ASSUME Init PROVE Latest /\ Recovers /\ LossIsForgotten
  OBVIOUS
<1>1. UnderWay = {} /\ sent = 0 /\ last = [no |-> 0, at |-> 0, end |-> TRUE]
  BY DEF Init, UnderWay, In
<1>2. Latest
  BY <1>1 DEF Latest
<1>3. InStep /\ calm = MAX_FRAME_LEN /\ start_calm = MAX_FRAME_LEN
  BY <1>1 DEF Init, InStep
<1>4. MAX_FRAME_LEN \in Nat
  BY LinkAssumption DEF MAX_FRAME_LEN
<1>5. QED
  BY <1>2, <1>3, <1>4 DEF Recovers, Init, LossIsForgotten

(* The bytes a frame brings have a number of their own *)
LEMMA NewNumber ==
  ASSUME Typed, StartFrame
  PROVE  /\ \A b \in UnderWay' : b \in UnderWay \/ b.no = sent'
         /\ sent' = sent + 1
<1>1. PICK f \in Frames : sending' = BytesOf(f, sent')
  BY DEF StartFrame
<1>2. sent' = sent + 1 /\ sent' \in Nat
  BY LinkAssumption DEF StartFrame, Typed, TypeOK
<1>3. Len(BytesOf(f, sent')) = Len(f)
  BY <1>2, FrameBytes
<1>4. \A b \in In(sending') : \E i \in 1 .. Len(f) :
        b = [byte |-> f[i], no |-> sent', at |-> i, end |-> i = Len(f)]
  BY <1>1, <1>3, Zenon DEF In, BytesOf
<1>5. \A b \in In(sending') : b.no = sent'
  BY <1>4
<1>6. UnderWay' \subseteq UnderWay \union In(sending')
  BY Zenon DEF StartFrame, UnderWay, dmaVars, thread
<1>7. QED
  BY <1>2, <1>5, <1>6, Zenon

LEMMA OthersLatest ==
  ASSUME Typed, Origin, Latest, [Next]_vars, ~GetByte
  PROVE  Latest'
<1>1. UNCHANGED last
  BY Zenon DEF Next, Wire, Interrupt, RxThread, StartFrame, ByteReceived, ByteLost,
     RxRdy, RxStops, RxDisabled, TakeSem, RingEmpty, vars, history
<1>2. CASE StartFrame
  <2>1. /\ \A b \in UnderWay' : b \in UnderWay \/ b.no = sent'
        /\ sent' = sent + 1
    BY <1>2, NewNumber
  <2>2. sent \in Nat
    BY LinkAssumption DEF Typed, TypeOK
  <2>3. last.no \in 0 .. sent' /\ last.no # sent'
    BY <2>1, <2>2 DEF Latest
  <2>4. QED
    BY <1>1, <2>1, <2>3, Zenon DEF Latest
<1>3. CASE ~StartFrame
  <2>1. UnderWay' \subseteq UnderWay /\ sent' = sent
    BY <1>3, OthersShrink
  <2>2. QED
    BY <1>1, <2>1, Zenon DEF Latest
<1>4. QED
  BY <1>2, <1>3

(* What GetByte does, taken apart *)
LEMMA TheByte ==
  ASSUME InTheFrame, GetByte
  PROVE  /\ Head(rx_ring) \in Bytes /\ Head(rx_ring) \in UnderWay
         /\ Begun(Head(rx_ring))
         /\ mavlink2_parse_byte(Head(rx_ring)) /\ Observe(Head(rx_ring))
         /\ UnderWay' \subseteq UnderWay /\ sent' = sent
<1>1. /\ rx_ring # <<>> /\ rx_ring \in Seq(Bytes)
      /\ mavlink2_parse_byte(Head(rx_ring)) /\ Observe(Head(rx_ring))
      /\ sent' = sent
  BY Zenon DEF GetByte, InTheFrame, Typed, wire
<1>2. Head(rx_ring) \in Bytes /\ Head(rx_ring) \in UnderWay
  BY <1>1, TailIn, TailOf DEF UnderWay
<1>3. ~StartFrame
  BY <1>1, LinkAssumption DEF StartFrame, InTheFrame, Typed, TypeOK
<1>4. UnderWay' \subseteq UnderWay
  BY <1>3, OthersShrink DEF InTheFrame, Next, RxThread
<1>5. QED
  BY <1>1, <1>2, <1>4, Zenon DEF InTheFrame, Origin

LEMMA ByteLatest ==
  ASSUME InTheFrame, Latest, GetByte
  PROVE  Latest'
<1> DEFINE b == Head(rx_ring)
<1>1. /\ b \in Bytes /\ b \in UnderWay /\ Begun(b) /\ Observe(b)
      /\ UnderWay' \subseteq UnderWay /\ sent' = sent
  BY TheByte
<1> HIDE DEF b
<1>2. last'.no = b.no /\ last'.at = b.at /\ last'.end = b.end
  BY <1>1 DEF Observe
<1>3. b.no \in 0 .. sent /\ b.at \in Nat /\ b.end \in BOOLEAN /\ b.at # 0
  <2>1. b.no \in 1 .. sent /\ b.at >= 1
    BY <1>1, Zenon DEF Begun
  <2>2. sent \in Nat
    BY LinkAssumption DEF InTheFrame, Typed, TypeOK
  <2>3. b.at \in Nat /\ b.end \in BOOLEAN
    BY <1>1, Zenon DEF Bytes
  <2>4. b.no \in 0 .. sent /\ b.at # 0
    BY <2>1, <2>2, <2>3
  <2>5. QED
    BY <2>3, <2>4, Zenon
<1>4. b.end => \A c \in UnderWay : c.no = b.no => c.at <= b.at
  BY <1>1, Zenon DEF InTheFrame, Origin, Agree
<1>5. QED
  BY <1>1, <1>2, <1>3, <1>4, Zenon DEF Latest

(* A byte that follows is the first of the next frame, or comes inside one *)
LEMMA FollowsHow ==
  ASSUME Latest, NEW b \in Bytes, b \in UnderWay, Begun(b), Follows(b)
  PROVE  \/ b.at = 1 /\ last.end
         \/ b.at > 1 /\ b.no = last.no /\ b.at = last.at + 1 /\ ~last.end
<1>1. b.no \in 1 .. sent /\ b.at \in Nat /\ last.at \in Nat /\ b.at >= 1
      /\ (last.at = 0 => last.no = 0)
      /\ (last.end => (b.no = last.no => b.at <= last.at))
  BY Zenon DEF Latest, Begun, Bytes
<1>2. CASE b.no = last.no /\ b.at = last.at + 1
  <2>1. last.at # 0 /\ ~(b.at <= last.at)
    BY <1>1, <1>2
  <2>2. QED
    BY <1>1, <1>2, <2>1
<1>3. CASE b.at = 1 /\ last.end
  BY <1>3
<1>4. QED
  BY <1>2, <1>3 DEF Follows

(* What the history variables become *)
LEMMA Observed ==
  ASSUME NEW b \in Bytes, Observe(b)
  PROVE  /\ last'.end <=> b.end
         /\ ~Follows(b) => start_calm' = 0 /\ calm' = 1
         /\ Follows(b) => /\ start_calm' = IF b.at = 1 THEN calm ELSE start_calm
                          /\ calm' = 1 \/ calm' = calm + 1 \/ calm' = calm
         /\ b.byte = STX /\ b.at > 1 /\ start_calm < MAX_FRAME_LEN => calm' = 1
         /\ due' = due \/ (/\ b.end /\ start_calm' >= MAX_FRAME_LEN
                           /\ due' = due \union {b.no})
  BY DEF Observe

(* The parser, in step, with the byte of the frame that comes next *)
LEMMA NextOfTheFrame ==
  ASSUME InTheFrame, Latest, InStep, NEW b \in Bytes, b \in UnderWay, Begun(b),
         b.at > 1, b.no = last.no, b.at = last.at + 1, ~last.end
  PROVE  /\ Accepts(b) /\ CrcFits(WithByte(b).buf) /\ WithByte(b).buf # <<>>
         /\ WithByte(b).buf[1].no = b.no
         /\ Complete(WithByte(b)) <=> b.end
<1> DEFINE q == parser.buf
           r == WithByte(b).buf
           n == parser.payload_len
<1>1. /\ q \in Seq(Bytes) /\ q # <<>> /\ CrcFits(q) /\ n \in 0 .. MAX_PAYLOAD
      /\ last.no = q[1].no /\ last.at = Len(q)
      /\ Len(q) >= 2 => n = q[2].byte
  BY Zenon DEF InTheFrame, Typed, TypeOK, InStep, InFrame, LengthRead
<1>2. r = Append(q, b) /\ WithByte(b).payload_len = IF Len(q) = 1 THEN b.byte ELSE n
  BY DEF WithByte
<1>3. /\ Len(q) \in Nat /\ Len(q) >= 1 /\ Len(r) = Len(q) + 1 /\ r[Len(r)] = b
      /\ DOMAIN r = 1 .. Len(r) /\ DOMAIN q = 1 .. Len(q) /\ r # <<>>
      /\ \A i \in 1 .. Len(q) : r[i] = q[i]
  BY <1>1, <1>2
<1>4. b.at = Len(r) /\ b.no = q[1].no /\ r[1] = q[1]
  BY <1>1, <1>3
<1>5. CrcFits(r)
  <2>1. ASSUME NEW i \in DOMAIN r PROVE r[i].at = i /\ r[i].no = r[1].no
    <3>1. CASE i \in 1 .. Len(q)
      BY <1>1, <1>3, <1>4, <3>1, Zenon DEF CrcFits
    <3>2. CASE i \notin 1 .. Len(q)
      <4>1. i = Len(r)
        BY <1>3, <3>2
      <4>2. QED
        BY <1>3, <1>4, <4>1, Zenon
    <3>3. QED
      BY <3>1, <3>2
  <2>2. QED
    BY <2>1, Zenon DEF CrcFits
<1>6. Complete(WithByte(b)) <=>
        Len(r) >= HEADER_LEN + (IF Len(q) = 1 THEN b.byte ELSE n) + CHECKSUM_LEN
  BY <1>2 DEF Complete
<1>7. CASE Len(q) = 1
  <2>1. b.at = 2 /\ Len(r) = 2 /\ b.byte \in Nat
    BY <1>3, <1>4, <1>7, LinkAssumption DEF Bytes
  <2>2. ~b.end
    <3>1. ~(b.at > 2)
      BY <2>1
    <3>2. QED
      BY <3>1, Zenon DEF Begun
  <2>3. ~Complete(WithByte(b))
    BY <1>6, <1>7, <2>1, LinkAssumption
  <2>4. QED
    BY <1>1, <1>3, <1>4, <1>5, <2>2, <2>3, Zenon DEF Accepts
<1>8. CASE Len(q) # 1
  <2>1. \A k \in Nat : k >= 1 /\ k # 1 => k >= 2 /\ 2 \in 1 .. k
    OBVIOUS
  <2>2. Len(q) >= 2 /\ 2 \in 1 .. Len(q)
    BY <1>3, <1>8, <2>1, Zenon
  <2>3. Len(q) >= 2 /\ n = q[2].byte /\ 2 \in 1 .. Len(q)
    BY <1>1, <2>2, Zenon
  <2>4. q[2] \in UnderWay /\ q[2].at = 2 /\ q[2].no = b.no
    BY <1>1, <1>3, <1>4, <2>3, Zenon DEF UnderWay, In, CrcFits
  <2> DEFINE size == HEADER_LEN + n + CHECKSUM_LEN
  <2>5. b.at <= size /\ (b.end <=> b.at = size)
    BY <2>3, <2>4, Zenon DEF InTheFrame, Origin, Agree
  <2>6. Complete(WithByte(b)) <=> b.at >= size
    BY <1>4, <1>6, <1>8, Zenon
  <2>7. size \in Int /\ b.at \in Int
    BY <1>1, LinkAssumption DEF Bytes
  <2> HIDE DEF size
  <2>8. b.at <= size => (b.at >= size <=> b.at = size)
    BY <2>7
  <2>9. QED
    BY <1>1, <1>3, <1>4, <1>5, <2>5, <2>6, <2>8, Zenon DEF Accepts
<1>9. QED
  BY <1>7, <1>8

(* Wherever the parser is, what it holds is shorter than the longest frame *)
LEMMA ParserHolds ==
  ASSUME InTheFrame
  PROVE  /\ parser.buf \in Seq(Bytes) /\ Len(parser.buf) \in Nat
         /\ Len(parser.buf) < MAX_FRAME_LEN /\ MAX_FRAME_LEN \in Nat
<1>1. /\ parser.buf \in Seq(Bytes) /\ parser.payload_len \in 0 .. MAX_PAYLOAD
      /\ Len(parser.buf) < HEADER_LEN + parser.payload_len + CHECKSUM_LEN
  BY Zenon DEF InTheFrame, Typed, TypeOK
<1>2. Len(parser.buf) \in Nat
  BY <1>1
<1>3. QED
  BY <1>1, <1>2, LinkAssumption DEF MAX_FRAME_LEN

(* What the parser's buffer becomes *)
LEMMA BufferNext ==
  ASSUME InTheFrame, NEW b \in Bytes, mavlink2_parse_byte(b)
  PROVE  /\ handled \subseteq handled'
         /\ parser'.buf = <<>> \/ Len(parser'.buf) = Len(parser.buf) + 1
         /\ parser.buf = <<>> /\ b.byte # STX => parser'.buf = <<>>
<1>1. parser.buf \in Seq(Bytes)
  BY ParserHolds
<1>2. Len(Append(parser.buf, b)) = Len(parser.buf) + 1
  BY <1>1
<1>3. CASE ~Accepts(b)
  BY <1>3, Zenon DEF mavlink2_parse_byte, Accepts
<1>4. CASE Accepts(b) /\ ~Complete(WithByte(b))
  <2>1. parser'.buf = Append(parser.buf, b) /\ handled' = handled
    BY <1>4 DEF mavlink2_parse_byte, WithByte
  <2>2. QED
    BY <1>2, <1>4, <2>1, Zenon DEF Accepts
<1>5. CASE Accepts(b) /\ Complete(WithByte(b))
  <2>1. parser'.buf = <<>>
    BY <1>5 DEF mavlink2_parse_byte, Restart, WithByte
  <2>2. handled \subseteq handled'
    BY <1>5, Zenon DEF mavlink2_parse_byte
  <2>3. QED
    BY <2>1, <2>2, Zenon
<1>6. QED
  BY <1>3, <1>4, <1>5

(* The first byte of a frame after a whole one, or after what misled the parser *)
LEMMA FirstByte ==
  ASSUME InTheFrame, Latest, Recovers, NEW b \in Bytes, Begun(b), Follows(b), Observe(b),
         mavlink2_parse_byte(b), b.at = 1, last.end
  PROVE  Recovers' /\ ~b.end
<1>1. b.byte = STX /\ ~b.end
  <2>1. ~(b.at > 2)
    OBVIOUS
  <2>2. QED
    BY <2>1, Zenon DEF Begun
<1>2. /\ (last'.end <=> b.end) /\ start_calm' = calm
      /\ calm' = 1 \/ calm' = calm + 1 \/ calm' = calm
  BY Observed, Zenon
<1>3. calm' \in Nat /\ start_calm' \in Nat
  BY <1>2 DEF Recovers
<1>4. CASE parser.buf = <<>>
  <2>1. /\ WithByte(b).buf = <<b>> /\ Len(WithByte(b).buf) = 1
        /\ WithByte(b).payload_len = parser.payload_len
    BY <1>4 DEF WithByte
  <2>2. parser.payload_len \in Nat
    BY LinkAssumption DEF InTheFrame, Typed, TypeOK
  <2>3. ~Complete(WithByte(b))
    BY <2>1, <2>2, LinkAssumption DEF Complete
  <2>4. parser'.buf = <<b>>
    BY <1>1, <2>1, <2>3, Zenon DEF mavlink2_parse_byte, Accepts
  <2>5. CrcFits(parser'.buf) /\ parser'.buf # <<>>
    BY <2>4 DEF CrcFits
  <2>6. InStep'
    BY <1>1, <1>2, <2>5, Zenon DEF InStep, CrcFits
  <2>7. QED
    BY <1>1, <1>3, <2>6, Zenon DEF Recovers
<1>5. CASE parser.buf # <<>>
  <2>1. calm <= Len(parser.buf) /\ calm \in Nat
    BY <1>5, Zenon DEF Recovers, InStep
  <2>2. Len(parser.buf) \in Nat /\ Len(parser.buf) < MAX_FRAME_LEN /\ MAX_FRAME_LEN \in Nat
    BY ParserHolds
  <2>3. start_calm' < MAX_FRAME_LEN
    BY <1>2, <2>1, <2>2
  <2>4. parser'.buf = <<>> \/ Len(parser'.buf) = Len(parser.buf) + 1
    BY BufferNext
  <2>5. parser'.buf = <<>> \/ calm' <= Len(parser'.buf)
    BY <1>2, <2>1, <2>2, <2>4
  <2>6. QED
    BY <1>1, <1>3, <2>3, <2>5, Zenon DEF Recovers
<1>6. QED
  BY <1>4, <1>5

(* A byte inside a frame, with the parser in step: the last one has the frame handled *)
LEMMA InnerByteInStep ==
  ASSUME InTheFrame, Latest, Recovers, LossIsForgotten, InStep,
         NEW b \in Bytes, b \in UnderWay, Begun(b), Follows(b), Observe(b),
         mavlink2_parse_byte(b),
         b.at > 1, b.no = last.no, b.at = last.at + 1, ~last.end
  PROVE  Recovers' /\ LossIsForgotten'
<1>1. /\ Accepts(b) /\ CrcFits(WithByte(b).buf) /\ WithByte(b).buf # <<>>
      /\ WithByte(b).buf[1].no = b.no
      /\ Complete(WithByte(b)) <=> b.end
  BY NextOfTheFrame
<1>2. /\ last'.end <=> b.end
      /\ due' = due \/ (b.end /\ due' = due \union {b.no})
      /\ start_calm' = IF b.at = 1 THEN calm ELSE start_calm
      /\ calm' = 1 \/ calm' = calm + 1 \/ calm' = calm
  BY Observed, Zenon
<1>3. calm' \in Nat /\ start_calm' \in Nat
  BY <1>2 DEF Recovers
<1>4. CASE ~b.end
  <2>1. parser' = WithByte(b) /\ handled' = handled
    BY <1>1, <1>4, Zenon DEF mavlink2_parse_byte
  <2>2. InStep'
    BY <1>1, <1>2, <1>4, <2>1, Zenon DEF InStep, CrcFits
  <2>3. QED
    BY <1>2, <1>3, <1>4, <2>1, <2>2, Zenon DEF Recovers, LossIsForgotten
<1>5. CASE b.end
  <2>1. parser' = Restart(WithByte(b)) /\ handled' = handled \union {b.no}
    BY <1>1, <1>5, Zenon DEF mavlink2_parse_byte
  <2>2. parser'.buf = <<>>
    BY <2>1 DEF Restart, WithByte
  <2>3. InStep'
    BY <1>2, <1>5, <2>2, Zenon DEF InStep
  <2>4. due' \subseteq handled'
    BY <1>2, <2>1 DEF LossIsForgotten
  <2>5. QED
    BY <1>3, <2>3, <2>4, Zenon DEF Recovers, LossIsForgotten
<1>6. QED
  BY <1>4, <1>5

(* A byte inside a frame, with the parser out of step: an STX begins a new calm *)
LEMMA InnerByteOutOfStep ==
  ASSUME InTheFrame, Recovers, LossIsForgotten, ~InStep, NEW b \in Bytes, Follows(b),
         Observe(b), mavlink2_parse_byte(b), b.at > 1, ~last.end
  PROVE  Recovers' /\ LossIsForgotten'
<1>1. start_calm < MAX_FRAME_LEN /\ (parser.buf = <<>> \/ calm <= Len(parser.buf))
      /\ calm \in Nat /\ start_calm \in Nat
  BY Zenon DEF Recovers
<1>2. Len(parser.buf) \in Nat /\ MAX_FRAME_LEN \in Nat
  BY ParserHolds
<1>3. /\ start_calm' = start_calm
      /\ calm' = 1 \/ calm' = calm + 1 \/ calm' = calm
      /\ b.byte = STX => calm' = 1
      /\ due' = due \/ start_calm' >= MAX_FRAME_LEN
  <2>1. b.at # 1
    BY DEF Bytes
  <2>2. QED
    BY <1>1, <2>1, Observed, Zenon
<1>4. /\ handled \subseteq handled'
      /\ parser'.buf = <<>> \/ Len(parser'.buf) = Len(parser.buf) + 1
      /\ parser.buf = <<>> /\ b.byte # STX => parser'.buf = <<>>
  BY BufferNext
<1>5. due' = due
  BY <1>1, <1>2, <1>3
<1>6. parser'.buf = <<>> \/ calm' <= Len(parser'.buf)
  BY <1>1, <1>2, <1>3, <1>4
<1>7. calm' \in Nat /\ start_calm' \in Nat /\ start_calm' < MAX_FRAME_LEN
  BY <1>1, <1>3
<1>8. QED
  BY <1>4, <1>5, <1>6, <1>7 DEF Recovers, LossIsForgotten

LEMMA ByteRecovers ==
  ASSUME InTheFrame, Latest, Recovers, LossIsForgotten, GetByte
  PROVE  Recovers' /\ LossIsForgotten'
<1> DEFINE b == Head(rx_ring)
<1>1. /\ b \in Bytes /\ b \in UnderWay /\ Begun(b)
      /\ mavlink2_parse_byte(b) /\ Observe(b)
  BY TheByte
<1> HIDE DEF b
<1>2. /\ handled \subseteq handled'
      /\ parser'.buf = <<>> \/ Len(parser'.buf) = Len(parser.buf) + 1
  BY <1>1, BufferNext
<1>3. Len(parser.buf) \in Nat /\ MAX_FRAME_LEN \in Nat /\ 0 < MAX_FRAME_LEN
  BY ParserHolds
<1>4. CASE ~Follows(b)
  <2>1. start_calm' = 0 /\ calm' = 1 /\ (due' = due \/ start_calm' >= MAX_FRAME_LEN)
    BY <1>1, <1>4, Observed, Zenon
  <2>2. QED
    BY <1>2, <1>3, <2>1 DEF Recovers, LossIsForgotten
<1>5. CASE Follows(b) /\ b.at = 1 /\ last.end
  <2>1. Recovers' /\ ~b.end
    BY <1>1, <1>5, FirstByte
  <2>2. due' = due
    BY <1>1, <2>1, Observed, Zenon
  <2>3. QED
    BY <1>2, <2>1, <2>2, Zenon DEF LossIsForgotten
<1>6. CASE Follows(b) /\ b.at > 1 /\ b.no = last.no /\ b.at = last.at + 1 /\ ~last.end
  BY <1>1, <1>6, InnerByteInStep, InnerByteOutOfStep
<1>7. QED
  BY <1>1, <1>4, <1>5, <1>6, FollowsHow

(***************************************************************************)
(* A loss is forgotten, for any frames, any number and pattern of losses   *)
(* and any STX in any place: a frame that arrives whole is handled if the  *)
(* MAX_FRAME_LEN bytes before it were quiet: no gap among them, and no STX *)
(* inside a frame that had no such quiet before it.  Frames that are       *)
(* without it may be lost, and the theorem does not cover them.  A parser  *)
(* out of step holds no fewer bytes than have come since the gap or the    *)
(* misleading STX, and less than a longest frame; so a frame before which  *)
(* as much was quiet finds it in step, and in step it stays to the frame's *)
(* end, because the length it reads is the frame's.                        *)
(***************************************************************************)
THEOREM LossesForgotten == Spec => []LossIsForgotten
<1> DEFINE Inv == InTheFrame /\ Latest /\ Recovers /\ LossIsForgotten
<1>1. Init => Inv
  BY InitInTheFrame, InitRecovers
<1>2. Inv /\ [Next]_vars => Inv'
  <2> SUFFICES ASSUME Inv, [Next]_vars PROVE Inv'
    OBVIOUS
  <2>1. InTheFrame'
    BY StepInTheFrame
  <2>2. CASE GetByte
    BY <2>1, <2>2, ByteLatest, ByteRecovers
  <2>3. CASE ~GetByte
    <3>1. UNCHANGED <<parser, handled, last, calm, start_calm, due>>
      BY <2>3, Zenon DEF Next, Wire, Interrupt, RxThread, StartFrame, ByteReceived, ByteLost,
         RxRdy, RxStops, RxDisabled, TakeSem, RingEmpty, vars, thread, history
    <3>2. Recovers' /\ LossIsForgotten'
      BY <3>1, Zenon DEF Recovers, InStep, CrcFits, LossIsForgotten
    <3>3. Latest'
      BY <2>3, OthersLatest DEF InTheFrame
    <3>4. QED
      BY <2>1, <3>2, <3>3
  <2>4. QED
    BY <2>2, <2>3
<1>3. Inv => LossIsForgotten
  OBVIOUS
<1>4. QED
  BY <1>1, <1>2, <1>3, PTL DEF Spec
=============================================================================
