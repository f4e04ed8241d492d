---------------------------- MODULE FrameReceiver ----------------------------
(***************************************************************************)
(* decode_frame of vdec (vdec/udp_stream.c): datagrams in, whole NALs out. *)
(* A byte is a pair: <<n, k>> is byte k of NAL n, and <<0, v>> is a byte   *)
(* with the known value v (start codes and headers).                       *)
(***************************************************************************)
EXTENDS NalHeader

CONSTANT RxCap    \* bytes recv reads of a datagram: 4096

VARIABLES
  nal_buffer,   \* the first in_nal_size bytes of nal_buffer
  delivered     \* the NALs handed to the decoder, oldest first

receiverVars == <<nal_buffer, delivered>>

Raw(v) == <<0, v>>
RawBytes(s) == [i \in DOMAIN s |-> Raw(s[i])]
StartCode == RawBytes(<<0, 0, 0, 1>>)
Bytes(n, from, to) == [i \in 1..(to - from) |-> <<n, from + i - 1>>]

ReceiverInit == nal_buffer = <<>> /\ delivered = <<>>

-----------------------------------------------------------------------------
\* recv drops what does not fit in the 4096 bytes it is given.
Truncate(d) ==
  IF WireSize(d) > RxCap THEN [d EXCEPT !.to = @ - (WireSize(d) - RxCap)] ELSE d

\* The receive loop skips 12 bytes when the first two look like RTP's.  (The
\* second byte of an unfragmented NAL is payload; the first one decides.)
RtpHeader == [i \in 1..RtpHeaderSize |-> IF i = 1 THEN 128 ELSE IF i = 2 THEN 96 ELSE 0]
FirstByte(d)  == IF d.rtp THEN RtpHeader[1] ELSE d.head[1]
SecondByte(d) ==
  IF d.rtp THEN RtpHeader[2] ELSE IF Len(d.head) > 1 THEN d.head[2] ELSE 255

\* Mutant: one of the two bytes is enough.
LooksLikeRtpEither(d) == FirstByte(d) \div 128 = 1 \/ (SecondByte(d) \div 32) % 4 # 0
LooksLikeRtp(d) == FirstByte(d) \div 128 = 1 /\ (SecondByte(d) \div 32) % 4 # 0

\* What decode_frame is given.  An RTP header that was not skipped is read as a
\* NAL's; where 12 bytes of a NAL were skipped, payload is read as its header,
\* and may say anything: a NAL, or a fragment of either end or of none.
PayloadAsHead == {<<0>>, <<28, 0>>, <<28, 64>>, <<28, 128>>}
Unwrapped(d) ==
  IF LooksLikeRtp(d) = d.rtp THEN {d}
  ELSE IF d.rtp THEN {[d EXCEPT !.head = RtpHeader \o @]}
  ELSE {[d EXCEPT !.head = h, !.from = @ + RtpHeaderSize - Len(d.head) + Len(h)] :
          h \in PayloadAsHead}

\* The NAL header rebuilt from a fragment's indicator and FU header.
RebuiltHead(d) ==
  IF IsAvcFragment(d.head[1])
    THEN <<AvcBits(d.head[1]) + (FuOf(d) % 32)>>
    ELSE <<HevcBits(d.head[1]) + 2 * (FuOf(d) % 64), 1>>

\* Every fragment rewrites the NAL header at offset 4, whatever the buffer
\* holds; beyond in_nal_size the write is overwritten before it is read.
NotRewritten(buf, head) == buf
Rewritten(buf, head) ==
  [i \in DOMAIN buf |-> IF i - 4 \in DOMAIN head THEN Raw(head[i - 4]) ELSE buf[i]]

Payload(d) == Bytes(d.nal, d.from, d.to)

DeliverAndKeep(nal) ==
  delivered' = Append(delivered, nal) /\ UNCHANGED nal_buffer

Deliver(nal) ==
  /\ delivered' = Append(delivered, nal)
  /\ nal_buffer' = <<>>

\* A datagram that is no fragment is a NAL: it goes on in place, and what was
\* collected so far is given up.
TakeWhole(d) ==
  /\ ~IsFragment(d.head[1])
  /\ Deliver(StartCode \o RawBytes(d.head) \o Payload(d))

\* First fragment: the copy starts one byte early and puts the FU header where
\* the last header byte belongs, until the next fragment rewrites it.
Begun(d) ==
  LET head == RebuiltHead(d)
  IN  StartCode \o RawBytes([head EXCEPT ![Len(head)] = FuOf(d)]) \o Payload(d)

\* in_nal_size is set, not added to; mutant: it is added to.
BeginAfter(d) == nal_buffer' = nal_buffer \o Begun(d)
BeginNal(d)   == nal_buffer' = Begun(d)

TakeFirst(d) ==
  /\ IsFragment(d.head[1]) /\ StartBit(FuOf(d))
  /\ BeginNal(d)
  /\ UNCHANGED delivered

\* A later fragment is appended at in_nal_size, the last one delivers.
TakeNext(d) ==
  /\ IsFragment(d.head[1]) /\ ~StartBit(FuOf(d))
  /\ LET collected == Rewritten(nal_buffer, RebuiltHead(d)) \o Payload(d)
     IN IF EndBit(FuOf(d))
          THEN Deliver(collected)
          ELSE nal_buffer' = collected /\ UNCHANGED delivered

Decode(d) == TakeWhole(d) \/ TakeFirst(d) \/ TakeNext(d)
=============================================================================
