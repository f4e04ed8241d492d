---------------------------- MODULE SampleReceiver ----------------------------
(***************************************************************************)
(* decode_frame of the two sample programs (sample/vdec-sample.c and       *)
(* vdec-stdout.c, the same text).  Header bits, the start of a NAL and the *)
(* rewriting of its header are those of vdec's; how the buffer and its     *)
(* size are kept is not: nal_buffer is its whole memory, which is written  *)
(* over and never emptied.                                                 *)
(***************************************************************************)
EXTENDS FrameReceiver

VARIABLE nal_size   \* bytes collected of a cut NAL: set by a first fragment only

JoinInit == ReceiverInit /\ nal_size = 0

\* s written into the buffer from offset at on.
Written(buf, at, s) ==
  SubSeq(buf, 1, at) \o s \o SubSeq(buf, at + Len(s) + 1, Len(buf))

NalIn(d) == StartCode \o RawBytes(d.head) \o Payload(d)

\* A NAL in one datagram overwrites the buffer from the start.
JoinWhole(d) ==
  /\ ~IsFragment(d.head[1])
  /\ nal_buffer' = Written(nal_buffer, 0, NalIn(d))
  /\ UNCHANGED nal_size

\* Mutant: the size starts without start code and header.
CollectedPayload(d) == Len(Payload(d))
Collected(d) == Len(Begun(d))

JoinFirst(d) ==
  /\ IsFragment(d.head[1]) /\ StartBit(FuOf(d))
  /\ nal_buffer' = Written(nal_buffer, 0, Begun(d))
  /\ nal_size' = Collected(d)

JoinNext(d) ==
  /\ IsFragment(d.head[1]) /\ ~StartBit(FuOf(d))
  /\ nal_buffer' = Written(Rewritten(nal_buffer, RebuiltHead(d)), nal_size, Payload(d))
  /\ nal_size' = nal_size + Len(Payload(d))

Join(d) == JoinWhole(d) \/ JoinFirst(d) \/ JoinNext(d)

\* What decode_frame returns: the bytes of the NAL that d completes, or 0.  The
\* size is left as it is after the last fragment.
Result(d) ==
  CASE ~IsFragment(d.head[1]) -> Len(NalIn(d))
    [] IsFragment(d.head[1]) /\ ~StartBit(FuOf(d)) /\ EndBit(FuOf(d)) -> nal_size'
    [] OTHER -> 0
=============================================================================
