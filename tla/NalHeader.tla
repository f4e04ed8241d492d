------------------------------ MODULE NalHeader ------------------------------
(***************************************************************************)
(* The bit fields of the two NAL header layouts, H.264 (AVC) and H.265     *)
(* (HEVC), and of the fragmentation header that both ends of the link      *)
(* read and write, and the datagrams that carry them.  The C code masks    *)
(* and shifts a byte; here a byte is a number in 0..255 and a field is a   *)
(* quotient or a remainder.                                                *)
(***************************************************************************)
EXTENDS Naturals, Sequences

Byte == 0..255

AvcType(b)  == b % 32                          \* b & 0x1F
HevcType(b) == (b \div 2) % 64                 \* (b >> 1) & 0x3F
AvcBits(b)  == 32 * (b \div 32)                \* b & 0xE0
HevcBits(b) == 128 * (b \div 128) + (b % 2)      \* b & 0x81

\* The NAL types venc cuts: coded slices, IDR or not.
CutAvc(b)  == AvcType(b) \in {1, 5}
CutHevc(b) == HevcType(b) \in {1, 19}
Cuttable(b) == CutAvc(b) \/ CutHevc(b)

\* Fragmentation unit indicators, built by venc and recognised by vdec.
AvcIndicator(b)  == AvcBits(b) + 28
HevcIndicator(b) == HevcBits(b) + 98           \* 49 << 1
IsAvcFragment(b)  == AvcType(b) = 28
IsHevcFragment(b) == HevcType(b) = 49
IsFragment(b) == IsAvcFragment(b) \/ IsHevcFragment(b)

\* The fragmentation header: start bit 0x80, end bit 0x40, type below.
FuHeader(type, start, last) ==
  type + (IF start THEN 128 ELSE 0) + (IF last THEN 64 ELSE 0)
EndBitWrongMask(fu) == (fu \div 32) % 2 = 1
StartBit(fu) == fu \div 128 = 1
EndBit(fu)   == (fu \div 64) % 2 = 1

(***************************************************************************)
(* A datagram: the header bytes written in front, the NAL it belongs to    *)
(* and the interval [from, to) of that NAL's bytes, whether a 12-byte RTP  *)
(* header precedes it, and its RTP sequence number.                        *)
(***************************************************************************)
Datagram ==
  [head : Seq(Byte), nal : Nat \ {0}, from : Nat, to : Nat,
   rtp : BOOLEAN, seq : Nat]

RtpHeaderSize == 12
FuOf(d) == d.head[Len(d.head)]
PayloadSize(d) == Len(d.head) + d.to - d.from
WireSize(d) == PayloadSize(d) + (IF d.rtp THEN RtpHeaderSize ELSE 0)
=============================================================================
