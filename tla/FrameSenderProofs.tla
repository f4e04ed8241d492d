--------------------------- MODULE FrameSenderProofs ---------------------------
(***************************************************************************)
(* Proofs about FrameSender for every set of NALs, every max_frame_size,   *)
(* both streaming modes and every range of the sequence number.            *)
(***************************************************************************)
EXTENDS FrameSender, SequenceTheorems, TLAPS

USE SenderAssumption DEF SenderConstants

\* The packs taken are still counted in the channel.
StreamShape ==
  /\ pc \in {"get", "send", "fragment"} => cur_packs <= Len(chn)
  /\ pc = "fragment" => stream # <<>>

\* Inside the fragmentation loop: the NAL is one that must be cut, the first
\* iteration starts from all of it, and what is left reaches to its end.
FragmentShape ==
  pc = "fragment" =>
    /\ MustCut(Pack)
    /\ start_bit => data = 0 /\ size = Pack.len
    /\ size > 0 /\ data + size = Pack.len

Limit == MaxSize + Prefix + (IF RtpMode THEN RtpHeaderSize ELSE 0)

Sound(d) ==
  /\ IsFragment(d.head[1]) => ~(StartBit(FuOf(d)) /\ EndBit(FuOf(d)))
  /\ WireSize(d) <= Limit

NetSound == \A i \in DOMAIN net : Sound(net[i])

IInv == TypeOK /\ StreamShape /\ FragmentShape /\ NetSound

-----------------------------------------------------------------------------
\* The fragmentation header: a byte from which the two bits come back.
LEMMA FuHeaderIs ==
  ASSUME NEW type \in 0..63, NEW start \in BOOLEAN, NEW last \in BOOLEAN
  PROVE  /\ FuHeader(type, start, last) \in Byte
         /\ StartBit(FuHeader(type, start, last)) <=> start
         /\ EndBit(FuHeader(type, start, last)) <=> last
<1>1. CASE start /\ last
  BY <1>1 DEF FuHeader, Byte, StartBit, EndBit
<1>2. CASE start /\ ~last
  BY <1>2 DEF FuHeader, Byte, StartBit, EndBit
<1>3. CASE ~start /\ last
  BY <1>3 DEF FuHeader, Byte, StartBit, EndBit
<1>4. CASE ~start /\ ~last
  BY <1>4 DEF FuHeader, Byte, StartBit, EndBit
<1>5. QED BY <1>1, <1>2, <1>3, <1>4

\* The fields of a NAL header byte have their widths.
LEMMA FieldsInRange ==
  ASSUME NEW b \in 0..127
  PROVE  /\ AvcType(b) \in 0..63 /\ HevcType(b) \in 0..63
         /\ AvcIndicator(b) \in Byte /\ HevcIndicator(b) \in Byte
BY DEF AvcType, HevcType, AvcIndicator, HevcIndicator, AvcBits, HevcBits, Byte

\* A NAL header is a sequence of bytes.
LEMMA HeaderIsSeq ==
  ASSUME NEW n \in {1, 2}, NEW h \in [1..n -> 0..127]
  PROVE  h \in Seq(Byte) /\ Len(h) = n /\ h[1] \in 0..127
<1>1. h \in Seq(0..127)
  BY SeqDef
<1>2. h \in Seq(Byte)
  <2>1. 0..127 \subseteq Byte
    BY DEF Byte
  <2>2. QED BY <1>1, <2>1, SeqMonotonic
<1>3. Len(h) = n
  <2>1. Len(h) \in Nat /\ DOMAIN h = 1..Len(h)
    BY <1>1, LenProperties
  <2>2. 1..Len(h) = 1..n
    BY <2>1
  <2>3. QED BY <2>1, <2>2
<1>4. QED BY <1>2, <1>3

\* What the encoder produces, with the types made explicit.
LEMMA PackIs ==
  ASSUME NEW p \in Packs
  PROVE  /\ p.len \in Nat /\ p.head \in Seq(Byte)
         /\ HeaderSize(p) \in {1, 2} /\ p.len > HeaderSize(p)
         /\ p.head[1] \in 0..127 /\ ~IsFragment(p.head[1])
         /\ CutAvc(p.head[1]) => HeaderSize(p) = 1
         /\ Cuttable(p.head[1]) \/ ~MustCut(p)
<1>1. PackAssumption
  OBVIOUS
<1>2. /\ p.len \in Nat /\ ~IsFragment(p.head[1]) /\ p.len > HeaderSize(p)
      /\ Cuttable(p.head[1]) \/ p.len <= MaxSize + Prefix
  BY <1>1 DEF PackAssumption
<1>3. Cuttable(p.head[1]) \/ ~MustCut(p)
  BY <1>2 DEF MustCut, Prefix
<1>4. /\ p.head \in Seq(Byte) /\ HeaderSize(p) \in {1, 2} /\ p.head[1] \in 0..127
      /\ CutAvc(p.head[1]) => HeaderSize(p) = 1
  <2>1. CASE p.head \in [1..1 -> 0..127]
    BY <2>1, HeaderIsSeq DEF HeaderSize
  <2>2. CASE p.head \in [1..2 -> 0..127] /\ ~CutAvc(p.head[1])
    BY <2>2, HeaderIsSeq DEF HeaderSize
  <2>3. QED BY <1>1, <2>1, <2>2 DEF PackAssumption
<1>5. QED BY <1>2, <1>3, <1>4

\* What transmit adds to the network.
LEMMA TransmitAdds ==
  ASSUME TypeOK, NetSound, NEW head \in Seq(Byte), NEW nal \in Nat \ {0},
         NEW from \in Nat, NEW to \in Nat,
         Transmit(head, nal, from, to),
         Sound([head |-> head, nal |-> nal, from |-> from, to |-> to,
                rtp |-> RtpMode, seq |-> rtp_sequence])
  PROVE  /\ net' \in Seq(Datagram) /\ NetSound'
         /\ rtp_sequence' \in 0..(SeqRange - 1)
<1> DEFINE d == [head |-> head, nal |-> nal, from |-> from, to |-> to,
                 rtp |-> RtpMode, seq |-> rtp_sequence]
<1>1. d \in Datagram
  BY DEF Datagram, TypeOK
<1>2. net' = Append(net, d) /\ net \in Seq(Datagram)
  BY DEF Transmit, TypeOK
<1>3. Sound(d)
  OBVIOUS
<1> HIDE DEF d
<1>4. net' \in Seq(Datagram)
  BY <1>1, <1>2
<1>5. NetSound'
  BY <1>1, <1>2, <1>3 DEF NetSound
<1>6. rtp_sequence' \in 0..(SeqRange - 1)
  <2>1. rtp_sequence \in 0..(SeqRange - 1)
    BY DEF TypeOK
  <2>2. NextSequence \in 0..(SeqRange - 1)
    BY <2>1 DEF NextSequence
  <2>3. rtp_sequence' = NextSequence \/ rtp_sequence' = rtp_sequence
    BY DEF Transmit
  <2>4. QED BY <2>1, <2>2, <2>3
<1>7. QED BY <1>4, <1>5, <1>6

\* The NAL at the front of the stream.
LEMMA PackInPacks ==
  ASSUME TypeOK, stream # <<>>
  PROVE  /\ Head(stream) \in 1..Len(nals) /\ Pack \in Packs
         /\ Tail(stream) \in Seq(1..Len(nals))
<1>1. stream \in Seq(1..Len(nals)) /\ nals \in Seq(Packs)
  BY DEF TypeOK
<1>2. Head(stream) \in 1..Len(nals) /\ Tail(stream) \in Seq(1..Len(nals))
  BY <1>1, HeadTailProperties
<1>3. Pack \in Packs
  BY <1>1, <1>2, ElementOfSeq DEF Pack
<1>4. QED BY <1>2, <1>3

\* The sizes of an iteration: it always makes progress, it never takes more
\* than is left, and the first one leaves something.
LEMMA ChunkIs ==
  ASSUME TypeOK, FragmentShape, pc = "fragment", stream # <<>>
  PROVE  /\ ChunkSize \in 1..MaxSize /\ Stripped \in 0..2
         /\ LeftSize \in Nat /\ ChunkSize <= LeftSize
         /\ start_bit => ChunkSize # LeftSize
         /\ data + Stripped + LeftSize = Pack.len
<1>1. /\ Pack.len \in Nat /\ HeaderSize(Pack) \in {1, 2}
  BY PackInPacks, PackIs
<1>2. MaxSize \in Nat \ {0} /\ size \in Nat /\ data \in Nat /\ start_bit \in BOOLEAN
  BY DEF TypeOK
<1>3. CASE start_bit
  BY <1>1, <1>2, <1>3 DEF FragmentShape, MustCut, ChunkSize, Stripped, LeftSize, Prefix
<1>4. CASE ~start_bit
  BY <1>1, <1>2, <1>4 DEF FragmentShape, ChunkSize, Stripped, LeftSize
<1>5. QED BY <1>2, <1>3, <1>4

\* The header of a fragment, and the two bits in it.
LEMMA FragmentHeadIs ==
  ASSUME TypeOK, FragmentShape, pc = "fragment", stream # <<>>
  PROVE  /\ FragmentHead \in Seq(Byte) /\ Len(FragmentHead) \in {2, 3}
         /\ StartBit(FragmentHead[Len(FragmentHead)]) <=> start_bit
         /\ EndBit(FragmentHead[Len(FragmentHead)]) <=> ChunkSize = LeftSize
<1> DEFINE b == Pack.head[1]
           avc == FuHeader(AvcType(b), start_bit, ChunkSize = LeftSize)
           hevc == FuHeader(HevcType(b), start_bit, ChunkSize = LeftSize)
<1>1. b \in 0..127
  BY PackInPacks, PackIs
<1>2. start_bit \in BOOLEAN /\ (ChunkSize = LeftSize) \in BOOLEAN
  BY DEF TypeOK
<1>3. /\ avc \in Byte /\ hevc \in Byte
      /\ (StartBit(avc) <=> start_bit) /\ (StartBit(hevc) <=> start_bit)
      /\ (EndBit(avc) <=> ChunkSize = LeftSize) /\ (EndBit(hevc) <=> ChunkSize = LeftSize)
  BY <1>1, <1>2, FieldsInRange, FuHeaderIs
<1>4. AvcIndicator(b) \in Byte /\ HevcIndicator(b) \in Byte
  BY <1>1, FieldsInRange
<1>. 1 \in Byte
  BY DEF Byte
<1>5. FragmentHead = IF CutAvc(b) THEN <<AvcIndicator(b), avc>>
                                  ELSE <<HevcIndicator(b), 1, hevc>>
  BY DEF FragmentHead
<1> HIDE DEF b, avc, hevc
<1>6. CASE CutAvc(b)
  BY <1>3, <1>4, <1>5, <1>6
<1>7. CASE ~CutAvc(b)
  BY <1>3, <1>4, <1>5, <1>7
<1>8. QED BY <1>6, <1>7

-----------------------------------------------------------------------------
LEMMA InitInv == Init => IInv
<1>1. SUFFICES ASSUME Init PROVE IInv
  OBVIOUS
<1>2. \A S : <<>> \in Seq(S)
  OBVIOUS
<1>3. TypeOK
  <2>1. /\ nals \in Seq(Packs) /\ net \in Seq(Datagram)
        /\ chn \in Seq(1..Len(nals)) /\ stream \in Seq(1..Len(nals))
    BY <1>1, <1>2, Zenon DEF Init
  <2>2. 0 \in 0..(SeqRange - 1) /\ 0 \in 0..MaxFails
    OBVIOUS
  <2>3. QED BY <1>1, <2>1, <2>2 DEF Init, TypeOK
<1>4. StreamShape /\ FragmentShape /\ NetSound
  BY <1>1 DEF Init, StreamShape, FragmentShape, NetSound
<1>5. QED BY <1>3, <1>4 DEF IInv

\* A new NAL disturbs nothing: the old ones keep their indices.
LEMMA EncodeInv ==
  ASSUME IInv, NEW p \in Packs, Encode(p)
  PROVE  IInv'
<1>. DEFINE n == Len(nals)
<1>1. /\ TypeOK /\ StreamShape /\ FragmentShape /\ NetSound
      /\ nals \in Seq(Packs) /\ n \in Nat
  BY DEF IInv, TypeOK
<1>2. nals' = Append(nals, p) /\ chn' = Append(chn, n + 1)
  BY DEF Encode
<1>3. /\ nals' \in Seq(Packs) /\ Len(nals') = n + 1
      /\ \A i \in 1..n : nals'[i] = nals[i]
  BY <1>1, <1>2
<1>4. chn \in Seq(1..(n + 1)) /\ stream \in Seq(1..(n + 1))
  <2>1. chn \in Seq(1..n) /\ stream \in Seq(1..n)
    BY <1>1 DEF TypeOK
  <2>2. 1..n \subseteq 1..(n + 1)
    BY <1>1
  <2>3. QED BY <2>1, <2>2, SeqMonotonic
<1>5. chn' \in Seq(1..(n + 1)) /\ Len(chn') = Len(chn) + 1
  BY <1>1, <1>2, <1>4
<1>6. TypeOK'
  BY <1>1, <1>3, <1>4, <1>5 DEF Encode, TypeOK
<1>7. StreamShape'
  <2>1. Len(chn) \in Nat
    BY <1>4
  <2>2. QED BY <1>1, <1>5, <2>1 DEF Encode, StreamShape, TypeOK
<1>8. FragmentShape'
  <2>1. SUFFICES ASSUME pc' = "fragment"
                 PROVE  Pack' = Pack
    BY <1>1, <2>1 DEF Encode, FragmentShape, MustCut
  <2>2. pc = "fragment" /\ stream # <<>> /\ stream' = stream
    BY <1>1, <2>1 DEF Encode, StreamShape
  <2>3. Head(stream) \in 1..n
    BY <1>1, <2>2, PackInPacks
  <2>4. QED BY <1>3, <2>2, <2>3 DEF Pack
<1>9. NetSound'
  BY <1>1 DEF Encode, NetSound
<1>10. QED BY <1>6, <1>7, <1>8, <1>9 DEF IInv

LEMMA GetStreamInv ==
  ASSUME IInv, GetStream
  PROVE  IInv'
<1>1. /\ chn \in Seq(1..Len(nals)) /\ cur_packs \in Nat /\ cur_packs <= Len(chn)
  BY DEF IInv, TypeOK, StreamShape, GetStream
<1>2. stream' \in Seq(1..Len(nals))
  <2>1. \A i \in 1..cur_packs : chn[i] \in 1..Len(nals)
    BY <1>1, ElementOfSeq
  <2>2. SubSeq(chn, 1, cur_packs) \in Seq(1..Len(nals))
    BY <1>1, <2>1, SubSeqProperties
  <2>3. QED BY <2>2 DEF GetStream
<1>3. QED
  BY <1>1, <1>2 DEF GetStream, IInv, TypeOK, StreamShape, FragmentShape, NetSound

LEMMA ReleaseStreamInv ==
  ASSUME IInv, ReleaseStream
  PROVE  IInv'
<1>1. chn \in Seq(1..Len(nals)) /\ cur_packs \in Nat
  BY DEF IInv, TypeOK
<1>2. chn' \in Seq(1..Len(nals))
  <2>1. \A i \in (cur_packs + 1)..Len(chn) : chn[i] \in 1..Len(nals)
    BY <1>1, ElementOfSeq
  <2>2. Len(chn) \in Int /\ cur_packs + 1 \in Int
    BY <1>1
  <2>3. SubSeq(chn, cur_packs + 1, Len(chn)) \in Seq(1..Len(nals))
    BY <2>1, <2>2, SubSeqProperties
  <2>4. QED BY <2>3 DEF ReleaseStream, Kept
<1>3. QED
  BY <1>1, <1>2 DEF ReleaseStream, IInv, TypeOK, StreamShape, FragmentShape, NetSound

\* A NAL that goes out whole is no fragment and passed the size test.
LEMMA SendWholeInv ==
  ASSUME IInv, SendWhole
  PROVE  IInv'
<1>. DEFINE d == [head |-> Pack.head, nal |-> Head(stream),
                  from |-> HeaderSize(Pack), to |-> Pack.len,
                  rtp |-> RtpMode, seq |-> rtp_sequence]
<1>1. TypeOK /\ NetSound /\ stream # <<>> /\ ~MustCut(Pack)
  BY DEF IInv, SendWhole
<1>2. /\ Head(stream) \in 1..Len(nals) /\ Tail(stream) \in Seq(1..Len(nals))
      /\ Pack \in Packs
  BY <1>1, PackInPacks
<1>3. /\ Pack.head \in Seq(Byte) /\ HeaderSize(Pack) \in Nat /\ Pack.len \in Nat
      /\ ~IsFragment(Pack.head[1])
  BY <1>2, PackIs
<1>4. Head(stream) \in Nat \ {0}
  BY <1>1, <1>2 DEF TypeOK
<1>5. Sound(d)
  <2>1. WireSize(d) = Pack.len + (IF RtpMode THEN RtpHeaderSize ELSE 0)
    BY <1>3 DEF WireSize, PayloadSize, HeaderSize, RtpHeaderSize
  <2>2. Pack.len <= MaxSize + Prefix
    BY <1>1, <1>3 DEF MustCut, Prefix
  <2>3. WireSize(d) <= Limit
    BY <1>3, <2>1, <2>2 DEF Limit, RtpHeaderSize, Prefix
  <2>4. QED BY <1>3, <2>3 DEF Sound
<1>6. Transmit(Pack.head, Head(stream), HeaderSize(Pack), Pack.len)
  BY DEF SendWhole
<1>7. /\ net' \in Seq(Datagram) /\ NetSound'
      /\ rtp_sequence' \in 0..(SeqRange - 1)
  BY <1>1, <1>3, <1>4, <1>5, <1>6, TransmitAdds
<1>8. QED
  BY <1>1, <1>2, <1>7
  DEF SendWhole, IInv, TypeOK, StreamShape, FragmentShape

LEMMA BeginFragmentsInv ==
  ASSUME IInv, BeginFragments
  PROVE  IInv'
<1>1. TypeOK /\ stream # <<>> /\ MustCut(Pack)
  BY DEF IInv, BeginFragments
<1>2. Pack.len \in Nat
  BY <1>1, PackInPacks, PackIs
<1>3. Pack' = Pack
  BY DEF BeginFragments, Pack
<1>4. FragmentShape'
  BY <1>1, <1>2, <1>3 DEF BeginFragments, FragmentShape, MustCut, Prefix
<1>5. QED
  BY <1>1, <1>2, <1>4 DEF BeginFragments, IInv, TypeOK, StreamShape, NetSound

\* A fragment: two or three header bytes before a chunk of at most
\* max_frame_size, and never both bits.
LEMMA SendFragmentInv ==
  ASSUME IInv, SendFragment
  PROVE  IInv'
<1>. DEFINE d == [head |-> FragmentHead, nal |-> Head(stream),
                  from |-> data + Stripped, to |-> data + Stripped + ChunkSize,
                  rtp |-> RtpMode, seq |-> rtp_sequence]
<1>1. /\ TypeOK /\ NetSound /\ FragmentShape /\ StreamShape
      /\ pc = "fragment" /\ stream # <<>>
  BY DEF IInv, SendFragment, StreamShape
<1>2. /\ Head(stream) \in 1..Len(nals) /\ Tail(stream) \in Seq(1..Len(nals))
  BY <1>1, PackInPacks
<1>3. /\ ChunkSize \in 1..MaxSize /\ Stripped \in 0..2
      /\ LeftSize \in Nat /\ ChunkSize <= LeftSize
      /\ start_bit => ChunkSize # LeftSize
      /\ data + Stripped + LeftSize = Pack.len
  BY <1>1, ChunkIs
<1>4. /\ FragmentHead \in Seq(Byte) /\ Len(FragmentHead) \in {2, 3}
      /\ StartBit(FragmentHead[Len(FragmentHead)]) <=> start_bit
      /\ EndBit(FragmentHead[Len(FragmentHead)]) <=> ChunkSize = LeftSize
  BY <1>1, FragmentHeadIs
<1>5. data \in Nat /\ data + Stripped \in Nat /\ data + Stripped + ChunkSize \in Nat
  BY <1>1, <1>3 DEF TypeOK
<1>6. Head(stream) \in Nat \ {0}
  BY <1>1, <1>2 DEF TypeOK
<1>7. Sound(d)
  <2>1. ~(StartBit(FuOf(d)) /\ EndBit(FuOf(d)))
    BY <1>3, <1>4 DEF FuOf
  <2>2. PayloadSize(d) = Len(FragmentHead) + ChunkSize
    BY <1>3, <1>4, <1>5 DEF PayloadSize
  <2>3. WireSize(d) <= Limit
    BY <1>3, <1>4, <2>2 DEF WireSize, Limit, RtpHeaderSize, Prefix
  <2>4. QED BY <2>1, <2>3 DEF Sound
<1>8. Transmit(FragmentHead, Head(stream), data + Stripped,
               data + Stripped + ChunkSize)
  BY DEF SendFragment
<1>9. /\ net' \in Seq(Datagram) /\ NetSound'
      /\ rtp_sequence' \in 0..(SeqRange - 1)
  BY <1>1, <1>4, <1>5, <1>6, <1>7, <1>8, TransmitAdds
<1>10. /\ data' = data + Stripped + ChunkSize /\ size' = LeftSize - ChunkSize
       /\ start_bit' = FALSE
       /\ UNCHANGED <<nals, chn, loop_running, cur_packs, fails>>
  BY DEF SendFragment
<1>11. size' \in Nat /\ data' + size' = Pack.len
  BY <1>3, <1>5, <1>10
<1>12. CASE size' = 0
  <2>1. pc' = "send" /\ stream' = Tail(stream)
    BY <1>12 DEF SendFragment
  <2>2. QED
    BY <1>1, <1>2, <1>5, <1>9, <1>10, <1>11, <2>1
    DEF IInv, TypeOK, StreamShape, FragmentShape
<1>13. CASE size' # 0
  <2>1. pc' = pc /\ stream' = stream
    BY <1>13 DEF SendFragment
  <2>2. Pack' = Pack
    BY <1>10, <2>1 DEF Pack
  <2>3. FragmentShape'
    BY <1>1, <1>10, <1>11, <1>13, <2>2 DEF FragmentShape, MustCut
  <2>4. QED
    BY <1>1, <1>5, <1>9, <1>10, <1>11, <2>1, <2>3
    DEF IInv, TypeOK, StreamShape
<1>14. QED BY <1>12, <1>13

\* The steps that touch neither the network nor the NAL being cut.
LEMMA OtherInv ==
  ASSUME IInv,
         \/ Interrupt \/ QueryStatus \/ GetStreamFails \/ Stop \/ Idle
         \/ UNCHANGED senderVars
  PROVE  IInv'
<1>1. TypeOK /\ StreamShape /\ FragmentShape /\ NetSound
  BY DEF IInv
<1>2. CASE Interrupt
  BY <1>1, <1>2 DEF Interrupt, IInv, TypeOK, StreamShape, FragmentShape, NetSound, Pack
<1>3. CASE QueryStatus
  BY <1>1, <1>3 DEF QueryStatus, IInv, TypeOK, StreamShape, FragmentShape, NetSound
<1>4. CASE GetStreamFails
  BY <1>1, <1>4 DEF GetStreamFails, IInv, TypeOK, StreamShape, FragmentShape, NetSound
<1>5. CASE Stop
  BY <1>1, <1>5 DEF Stop, MayStop, IInv, TypeOK, StreamShape, FragmentShape, NetSound
<1>6. CASE UNCHANGED senderVars
  BY <1>1, <1>6 DEF senderVars, IInv, TypeOK, StreamShape, FragmentShape, NetSound, Pack
<1>7. QED BY <1>2, <1>3, <1>4, <1>5, <1>6 DEF Idle

LEMMA NextInv == IInv /\ [Next]_senderVars => IInv'
BY EncodeInv, GetStreamInv, ReleaseStreamInv, SendWholeInv, BeginFragmentsInv,
   SendFragmentInv, OtherInv DEF Next, Loop

LEMMA InvHolds == Spec => []IInv
BY InitInv, NextInv, PTL DEF Spec

\* Type correctness of the streaming loop: sizes never go below zero and every
\* header written is made of bytes.
THEOREM TypeCorrect == Spec => []TypeOK
<1>1. IInv => TypeOK
  BY DEF IInv
<1>2. QED BY <1>1, InvHolds, PTL

\* Whatever NALs are cut to whatever size, no fragment starts and ends its NAL.
THEOREM StartAndEndApart == Spec => []NeverStartAndEnd
<1>1. IInv => NeverStartAndEnd
  BY DEF IInv, NetSound, Sound, NeverStartAndEnd
<1>2. QED BY <1>1, InvHolds, PTL

\* Whatever NALs are cut to whatever size, a datagram exceeds the configured
\* size by at most the length of a start code and the RTP header.
THEOREM DatagramsFit == Spec => []DatagramBounded
<1>1. IInv => DatagramBounded
  BY DEF IInv, NetSound, Sound, DatagramBounded, Limit
<1>2. QED BY <1>1, InvHolds, PTL
-----------------------------------------------------------------------------
(***************************************************************************)
(* What the datagrams carry.  NALs are released and sent in the order the  *)
(* encoder numbered them, so two counters say where every one is: Released *)
(* of them have left the channel, Sent of them have gone out.              *)
(***************************************************************************)
Released == Len(nals) - Len(chn)
Sent == IF pc \in {"send", "fragment"} THEN Released + cur_packs - Len(stream)
                                       ELSE Released

\* The channel holds the NALs after the released ones, the stream those of
\* the packs taken that have not been sent.
ChannelShape ==
  /\ Len(chn) <= Len(nals)
  /\ \A i \in DOMAIN chn : chn[i] = Released + i
  /\ pc \in {"send", "fragment"} =>
       /\ Len(stream) <= cur_packs
       /\ \A i \in DOMAIN stream : stream[i] = Sent + i

\* From datagram i on the network carries the beginning of NAL n, cut, up to
\* byte data.
BeginsAt(n, i) ==
  /\ \A k \in DOMAIN net : net[k].nal = n <=> k >= i
  /\ net[i].from = HeaderSize(nals[n]) /\ net[Len(net)].to = data
  /\ \A k \in i..(Len(net) - 1) : net[k].to = net[k + 1].from
  /\ \A k \in i..Len(net) : /\ StartBit(FuOf(net[k])) <=> k = i
                            /\ ~EndBit(FuOf(net[k]))

Partial == pc = "fragment" /\ ~start_bit

\* Every NAL sent was carried whole; only the one being cut is on the way
\* besides them.
CarryShape ==
  /\ \A n \in 1..Sent : CarriedWhole(n)
  /\ \A k \in DOMAIN net :
       net[k].nal \in 1..Sent \/ (Partial /\ net[k].nal = Sent + 1)
  /\ Partial => \E i \in DOMAIN net : BeginsAt(Sent + 1, i)

\* The counter is one ahead of the last datagram.
SequenceShape ==
  RtpMode /\ net # <<>> => rtp_sequence = (net[Len(net)].seq + 1) % SeqRange

-----------------------------------------------------------------------------
\* The two counters, and the NAL being sent.
LEMMA CountersAre ==
  ASSUME IInv, ChannelShape
  PROVE  /\ Released \in Nat /\ Sent \in Nat /\ Released <= Sent
         /\ Sent <= Len(nals)
         /\ pc \in {"send", "fragment"} /\ stream # <<>> =>
              Head(stream) = Sent + 1 /\ Sent + 1 <= Len(nals)
<1>1. /\ Len(nals) \in Nat /\ Len(chn) \in Nat /\ Len(stream) \in Nat
      /\ cur_packs \in Nat /\ stream \in Seq(1..Len(nals))
      /\ pc \in {"get", "send", "fragment"} => cur_packs <= Len(chn)
  BY DEF IInv, TypeOK, StreamShape
<1>2. Released \in Nat /\ Released <= Len(nals)
  BY <1>1 DEF ChannelShape, Released
<1>3. Sent \in Nat /\ Released <= Sent /\ Sent <= Len(nals)
  BY <1>1, <1>2 DEF ChannelShape, Sent, Released
<1>4. ASSUME pc \in {"send", "fragment"}, stream # <<>>
      PROVE  Head(stream) = Sent + 1 /\ Sent + 1 <= Len(nals)
  <2>1. Len(stream) > 0 /\ Head(stream) = stream[1] /\ 1 \in DOMAIN stream
    BY <1>1, <1>4
  <2>2. Head(stream) = Sent + 1
    BY <1>4, <2>1 DEF ChannelShape
  <2>3. Sent + 1 <= Len(nals)
    BY <1>1, <1>4, <2>1 DEF ChannelShape, Sent, Released
  <2>4. QED BY <2>2, <2>3
<1>5. QED BY <1>2, <1>3, <1>4

\* Sending the NAL at the front moves one from the stream to those sent.
LEMMA OneSent ==
  ASSUME IInv, ChannelShape, pc \in {"send", "fragment"}, stream # <<>>,
         stream' = Tail(stream), pc' \in {"send", "fragment"},
         UNCHANGED <<nals, chn, cur_packs>>
  PROVE  ChannelShape' /\ Sent' = Sent + 1
<1>1. /\ Len(nals) \in Nat /\ Len(chn) \in Nat /\ cur_packs \in Nat
      /\ stream \in Seq(1..Len(nals)) /\ Len(stream) \in Nat \ {0}
  BY DEF IInv, TypeOK
<1>2. /\ Len(stream') = Len(stream) - 1
      /\ \A i \in 1..Len(stream') : stream'[i] = stream[i + 1]
      /\ DOMAIN stream' = 1..Len(stream') /\ DOMAIN stream = 1..Len(stream)
  BY <1>1, HeadTailProperties, LenProperties
<1>3. Released' = Released /\ Released \in Int
  BY <1>1 DEF Released
<1>4. Sent' = Sent + 1 /\ Sent \in Int
  BY <1>1, <1>2, <1>3 DEF Sent
<1>5. \A i \in DOMAIN stream' : stream'[i] = Sent' + i
  <2>1. SUFFICES ASSUME NEW i \in 1..Len(stream') PROVE stream'[i] = Sent' + i
    BY <1>2
  <2>2. i + 1 \in DOMAIN stream
    BY <1>1, <1>2
  <2>3. stream[i + 1] = Sent + (i + 1)
    BY <2>2 DEF ChannelShape
  <2>4. QED BY <1>2, <1>4, <2>3
<1>6. Len(stream') <= cur_packs'
  BY <1>1, <1>2 DEF ChannelShape
<1>7. Len(chn') <= Len(nals') /\ \A i \in DOMAIN chn' : chn'[i] = Released' + i
  BY <1>3 DEF ChannelShape
<1>8. QED BY <1>4, <1>5, <1>6, <1>7 DEF ChannelShape

\* Every step but the last one of a NAL leaves the NALs sent as they are.
LEMMA ChannelEncode ==
  ASSUME IInv, ChannelShape, NEW p \in Packs, Encode(p)
  PROVE  ChannelShape' /\ Sent' = Sent
<1>1. /\ nals \in Seq(Packs) /\ chn \in Seq(1..Len(nals))
      /\ Len(nals) \in Nat /\ Len(chn) \in Nat
  BY DEF IInv, TypeOK
<1>2. nals' = Append(nals, p) /\ chn' = Append(chn, Len(nals) + 1)
  BY DEF Encode
<1>3. /\ Len(nals') = Len(nals) + 1 /\ Len(chn') = Len(chn) + 1
      /\ DOMAIN chn' = 1..(Len(chn) + 1) /\ DOMAIN chn = 1..Len(chn)
      /\ chn'[Len(chn) + 1] = Len(nals) + 1
      /\ \A i \in 1..Len(chn) : chn'[i] = chn[i]
  <2>1. chn \in Seq(Nat)
    BY <1>1, SeqMonotonic
  <2>2. QED BY <1>1, <1>2, <2>1, AppendProperties, LenProperties
<1>4. Released' = Released /\ Sent' = Sent
  BY <1>1, <1>3 DEF Released, Sent, Encode
<1>5. \A i \in DOMAIN chn' : chn'[i] = Released' + i
  <2>1. chn'[Len(chn) + 1] = Released + (Len(chn) + 1)
    BY <1>1, <1>3 DEF Released
  <2>2. \A i \in 1..Len(chn) : chn'[i] = Released + i
    BY <1>3 DEF ChannelShape
  <2>3. QED BY <1>1, <1>3, <1>4, <2>1, <2>2
<1>6. QED BY <1>1, <1>3, <1>4, <1>5 DEF ChannelShape, Encode

LEMMA ChannelGet ==
  ASSUME IInv, ChannelShape, GetStream
  PROVE  ChannelShape' /\ Sent' = Sent
<1>1. /\ chn \in Seq(1..Len(nals)) /\ Len(nals) \in Nat /\ Len(chn) \in Nat
      /\ cur_packs \in Nat /\ cur_packs <= Len(chn)
  BY DEF IInv, TypeOK, StreamShape, GetStream
<1>2. stream' = SubSeq(chn, 1, cur_packs) /\ UNCHANGED <<nals, chn, cur_packs>>
      /\ pc = "get" /\ pc' = "send"
  BY DEF GetStream
<1>3. /\ Len(stream') = cur_packs /\ DOMAIN stream' = 1..cur_packs
      /\ \A i \in 1..cur_packs : stream'[i] = chn[i]
  BY <1>1, <1>2
<1>4. Released' = Released /\ Released \in Int
  BY <1>1, <1>2 DEF Released
<1>5. Sent' = Sent /\ Sent = Released
  BY <1>1, <1>2, <1>3, <1>4 DEF Sent
<1>6. \A i \in DOMAIN stream' : stream'[i] = Sent' + i
  BY <1>1, <1>3, <1>5 DEF ChannelShape
<1>7. QED BY <1>1, <1>2, <1>3, <1>4, <1>5, <1>6 DEF ChannelShape

\* The packs released are the ones sent.
LEMMA ChannelRelease ==
  ASSUME IInv, ChannelShape, ReleaseStream
  PROVE  ChannelShape' /\ Sent' = Sent
<1>1. /\ chn \in Seq(1..Len(nals)) /\ Len(nals) \in Nat /\ Len(chn) \in Nat
      /\ cur_packs \in Nat /\ cur_packs <= Len(chn)
  BY DEF IInv, TypeOK, StreamShape, ReleaseStream
<1>2. /\ chn' = SubSeq(chn, cur_packs + 1, Len(chn)) /\ nals' = nals
      /\ pc = "send" /\ pc' = "query" /\ stream = <<>>
  BY DEF ReleaseStream, Kept
<1>3. /\ Len(chn') = Len(chn) - cur_packs
      /\ DOMAIN chn' = 1..(Len(chn) - cur_packs)
      /\ \A i \in 1..(Len(chn) - cur_packs) : chn'[i] = chn[cur_packs + i]
  BY <1>1, <1>2
<1>4. Released' = Released + cur_packs /\ Released \in Int
  <2>1. Released' = Len(nals) - (Len(chn) - cur_packs)
    BY <1>2, <1>3 DEF Released
  <2>2. QED BY <1>1, <2>1 DEF Released
<1>5. Sent' = Sent
  <2>1. Len(stream) = 0
    BY <1>2
  <2>2. QED BY <1>1, <1>2, <1>4, <2>1 DEF Sent
<1>6. \A i \in DOMAIN chn' : chn'[i] = Released' + i
  <2>1. SUFFICES ASSUME NEW i \in 1..(Len(chn) - cur_packs)
                 PROVE  chn'[i] = Released' + i
    BY <1>3
  <2>2. cur_packs + i \in DOMAIN chn
    BY <1>1
  <2>3. chn[cur_packs + i] = Released + (cur_packs + i)
    BY <2>2 DEF ChannelShape
  <2>4. chn'[i] = chn[cur_packs + i]
    BY <1>3
  <2>5. Released + (cur_packs + i) = (Released + cur_packs) + i
    BY <1>1, <1>4
  <2>6. QED BY <1>4, <2>3, <2>4, <2>5
<1>7. QED BY <1>1, <1>2, <1>3, <1>6, <1>5 DEF ChannelShape

LEMMA ChannelOther ==
  ASSUME IInv, ChannelShape,
         \/ Interrupt \/ QueryStatus \/ GetStreamFails \/ BeginFragments
         \/ Stop \/ Idle \/ UNCHANGED senderVars
  PROVE  ChannelShape' /\ Sent' = Sent
<1>1. /\ UNCHANGED <<nals, chn, stream>>
      /\ \/ UNCHANGED <<pc, cur_packs>>
         \/ pc \notin {"send", "fragment"} /\ pc' \notin {"send", "fragment"}
         \/ pc = "send" /\ pc' = "fragment" /\ cur_packs' = cur_packs
  BY DEF Interrupt, QueryStatus, GetStreamFails, BeginFragments, Stop, MayStop,
         Idle, senderVars
<1>2. Released' = Released
  BY <1>1 DEF Released
<1>3. Sent' = Sent
  BY <1>1, <1>2 DEF Sent
<1>4. QED BY <1>1, <1>2, <1>3 DEF ChannelShape
-----------------------------------------------------------------------------
\* A NAL carried stays carried when datagrams of others follow.
LEMMA CarriedStays ==
  ASSUME NEW n \in DOMAIN nals, NEW d, net \in Seq(Datagram),
         CarriedWhole(n), net' = Append(net, d), d.nal # n, nals' = nals
  PROVE  CarriedWhole(n)'
<1>1. PICK i \in DOMAIN net, j \in DOMAIN net : Carry(n, i, j)
  BY DEF CarriedWhole
<1>2. /\ Len(net) \in Nat /\ DOMAIN net = 1..Len(net)
      /\ DOMAIN net' = 1..(Len(net) + 1) /\ net'[Len(net) + 1] = d
      /\ \A k \in 1..Len(net) : net'[k] = net[k]
  BY LenProperties
<1>3. i \in DOMAIN net' /\ j \in DOMAIN net' /\ i..j \subseteq DOMAIN net
  BY <1>2
<1>4. \A k \in DOMAIN net' : net'[k].nal = n <=> k \in i..j
  <2>1. \A k \in DOMAIN net : net'[k].nal = n <=> k \in i..j
    BY <1>1, <1>2 DEF Carry
  <2>2. Len(net) + 1 \notin i..j
    BY <1>2, <1>3
  <2>3. QED BY <1>2, <2>1, <2>2
<1>5. /\ net'[i] = net[i] /\ net'[j] = net[j]
      /\ \A k \in i..j : net'[k] = net[k]
  BY <1>2, <1>3
<1>6. \A k \in i..(j - 1) : net'[k].to = net'[k + 1].from
  <2>1. SUFFICES ASSUME NEW k \in i..(j - 1) PROVE net'[k].to = net'[k + 1].from
    OBVIOUS
  <2>2. k \in i..j /\ k + 1 \in i..j
    BY <1>2
  <2>3. QED BY <1>1, <1>5, <2>2 DEF Carry
<1>7. Carry(n, i, j)'
  BY <1>1, <1>4, <1>5, <1>6 DEF Carry, FuOf
<1>8. QED BY <1>3, <1>7 DEF CarriedWhole

\* Steps that send nothing.
LEMMA CarryQuiet ==
  ASSUME IInv, ChannelShape, CarryShape, net' = net, Sent' = Sent,
         \A n \in DOMAIN nals : n \in DOMAIN nals' /\ nals'[n] = nals[n],
         Partial' = Partial, Partial => data' = data /\ stream # <<>>
  PROVE  CarryShape'
<1>1. /\ Sent \in Nat /\ Sent <= Len(nals) /\ DOMAIN nals = 1..Len(nals)
      /\ Len(nals) \in Nat
      /\ Partial => Sent + 1 <= Len(nals)
  BY CountersAre, LenProperties DEF IInv, TypeOK, Partial
<1>2. \A n \in 1..Sent : CarriedWhole(n)'
  <2>1. SUFFICES ASSUME NEW n \in 1..Sent PROVE CarriedWhole(n)'
    OBVIOUS
  <2>2. n \in DOMAIN nals
    BY <1>1
  <2>3. CarriedWhole(n) /\ nals'[n] = nals[n]
    BY <2>2 DEF CarryShape
  <2>4. QED BY <2>3 DEF CarriedWhole, Carry, HeaderSize
<1>3. Partial' => \E i \in DOMAIN net' : BeginsAt(Sent + 1, i)'
  <2>1. SUFFICES ASSUME Partial PROVE \E i \in DOMAIN net : BeginsAt(Sent + 1, i)'
    OBVIOUS
  <2>2. PICK i \in DOMAIN net : BeginsAt(Sent + 1, i)
    BY <2>1 DEF CarryShape
  <2>3. nals'[Sent + 1] = nals[Sent + 1]
    BY <1>1, <2>1
  <2>4. QED BY <2>1, <2>2, <2>3 DEF BeginsAt, HeaderSize
<1>4. QED BY <1>2, <1>3 DEF CarryShape

\* What a datagram appended to the network leaves as it was.
LEMMA NetAppend ==
  ASSUME TypeOK, NEW d, net' = Append(net, d), NEW L, L = Len(net) + 1
  PROVE  /\ L \in Nat \ {0} /\ DOMAIN net = 1..(L - 1) /\ DOMAIN net' = 1..L
         /\ Len(net') = L /\ net'[L] = d
         /\ \A k \in 1..(L - 1) : net'[k] = net[k]
<1>1. net \in Seq(Datagram) /\ Len(net) \in Nat
  BY DEF TypeOK
<1>2. QED BY <1>1, LenProperties

\* The datagram that completes a NAL.
LEMMA CompletesNal ==
  ASSUME IInv, ChannelShape, CarryShape, NEW d, net' = Append(net, d),
         NEW m, m = Sent + 1, m \in DOMAIN nals, d.nal = m, CarriedWhole(m)',
         nals' = nals, Sent' = m, ~Partial'
  PROVE  CarryShape'
<1>1. PICK L : L = Len(net) + 1
  OBVIOUS
<1>2. /\ TypeOK /\ net \in Seq(Datagram) /\ Sent \in Nat /\ 1..Sent \subseteq DOMAIN nals
  BY CountersAre, LenProperties DEF IInv, TypeOK
<1>3. \A n \in 1..Sent : CarriedWhole(n)'
  <2>1. SUFFICES ASSUME NEW n \in 1..Sent PROVE CarriedWhole(n)'
    OBVIOUS
  <2>2. n \in DOMAIN nals /\ CarriedWhole(n) /\ d.nal # n
    BY <1>2 DEF CarryShape
  <2>3. QED BY <1>2, <2>2, CarriedStays
<1>4. \A n \in 1..Sent' : CarriedWhole(n)'
  <2>1. \A n \in 1..m : n \in 1..Sent \/ n = m
    BY <1>2
  <2>2. QED BY <1>3, <2>1
<1>5. \A k \in DOMAIN net' : net'[k].nal \in 1..Sent'
  <2>1. \A k \in DOMAIN net : net[k].nal \in 1..m
    BY <1>2 DEF CarryShape
  <2>2. m \in 1..m
    BY <1>2
  <2>3. SUFFICES ASSUME NEW k \in DOMAIN net' PROVE net'[k].nal \in 1..m
    OBVIOUS
  <2>4. CASE k = L
    BY <1>1, <1>2, <2>2, <2>4, NetAppend
  <2>5. CASE k # L
    <3>1. k \in DOMAIN net /\ net'[k] = net[k]
      BY <1>1, <1>2, <2>5, NetAppend
    <3>2. QED BY <2>1, <3>1
  <2>6. QED BY <2>4, <2>5
<1>6. QED BY <1>4, <1>5 DEF CarryShape

\* A NAL that fits is carried by the one datagram sent for it.
LEMMA CarrySendWhole ==
  ASSUME IInv, ChannelShape, CarryShape, SendWhole
  PROVE  CarryShape'
<1>. DEFINE d == [head |-> Pack.head, nal |-> Head(stream),
                  from |-> HeaderSize(Pack), to |-> Pack.len,
                  rtp |-> RtpMode, seq |-> rtp_sequence]
<1>1. PICK m, L : m = Sent + 1 /\ L = Len(net) + 1
  OBVIOUS
<1>2. /\ TypeOK /\ pc = "send" /\ pc' = "send" /\ stream # <<>>
      /\ net' = Append(net, d) /\ nals' = nals
  BY DEF IInv, SendWhole, Transmit
<1>3. /\ L \in Nat \ {0} /\ DOMAIN net = 1..(L - 1) /\ DOMAIN net' = 1..L
      /\ net'[L] = d /\ \A k \in 1..(L - 1) : net'[k] = net[k]
  BY <1>1, <1>2, NetAppend
<1>4. /\ Sent \in Nat /\ m \in DOMAIN nals
      /\ Head(stream) = m /\ Pack = nals[m]
  <2>1. /\ Sent \in Nat /\ Head(stream) = m /\ m <= Len(nals)
    BY <1>1, <1>2, CountersAre
  <2>2. Len(nals) \in Nat /\ DOMAIN nals = 1..Len(nals)
    BY <1>2, LenProperties DEF TypeOK
  <2>3. m \in 1..Len(nals)
    BY <1>1, <2>1, <2>2
  <2>4. QED BY <2>1, <2>2, <2>3 DEF Pack
<1>5. Sent' = m
  BY <1>1, <1>2, OneSent DEF SendWhole
<1>6. ~Partial /\ ~Partial'
  BY <1>2 DEF Partial
<1>7. /\ d.nal = m /\ d.head = nals[m].head
      /\ d.from = HeaderSize(nals[m]) /\ d.to = nals[m].len
  BY <1>4
<1>. HIDE DEF d
<1>8. Carry(m, L, L)'
  <2>1. \A k \in DOMAIN net' : net'[k].nal = m <=> k \in L..L
    <3>1. \A k \in 1..(L - 1) : net'[k].nal # m /\ k \notin L..L
      BY <1>1, <1>3, <1>4, <1>6 DEF CarryShape
    <3>2. QED BY <1>3, <1>7, <3>1
  <2>2. /\ net'[L].from = HeaderSize(nals'[m]) /\ net'[L].to = nals'[m].len
        /\ net'[L].head = nals'[m].head
    BY <1>2, <1>3, <1>7 DEF HeaderSize
  <2>3. L..(L - 1) = {} /\ L <= L
    BY <1>3
  <2>4. QED BY <2>1, <2>2, <2>3 DEF Carry, HeaderSize
<1>9. CarriedWhole(m)'
  <2>1. L \in DOMAIN net'
    BY <1>3
  <2>2. QED BY <1>8, <2>1 DEF CarriedWhole
<1>10. QED BY <1>1, <1>2, <1>4, <1>5, <1>6, <1>7, <1>9, CompletesNal

\* A fragment begins its NAL, carries it on, or completes it.
LEMMA CarrySendFragment ==
  ASSUME IInv, ChannelShape, CarryShape, SendFragment
  PROVE  CarryShape'
<1>. DEFINE d == [head |-> FragmentHead, nal |-> Head(stream),
                  from |-> data + Stripped, to |-> data + Stripped + ChunkSize,
                  rtp |-> RtpMode, seq |-> rtp_sequence]
<1>1. PICK m, L : m = Sent + 1 /\ L = Len(net) + 1
  OBVIOUS
<1>2. /\ TypeOK /\ FragmentShape /\ pc = "fragment" /\ stream # <<>>
      /\ net' = Append(net, d) /\ nals' = nals /\ start_bit \in BOOLEAN
      /\ data' = d.to /\ start_bit' = FALSE /\ size' = LeftSize - ChunkSize
  BY DEF IInv, SendFragment, Transmit, StreamShape, TypeOK
<1>3. /\ L \in Nat \ {0} /\ DOMAIN net = 1..(L - 1) /\ DOMAIN net' = 1..L
      /\ net'[L] = d /\ \A k \in 1..(L - 1) : net'[k] = net[k]
      /\ Len(net') = L /\ Len(net) = L - 1
  BY <1>1, <1>2, NetAppend
<1>4. /\ Sent \in Nat /\ m \in DOMAIN nals
      /\ Head(stream) = m /\ Pack = nals[m]
  <2>1. Sent \in Nat /\ Head(stream) = m /\ m <= Len(nals)
    BY <1>1, <1>2, CountersAre
  <2>2. DOMAIN nals = 1..Len(nals) /\ Len(nals) \in Nat
    BY <1>2, LenProperties DEF TypeOK
  <2>3. QED BY <1>1, <2>1, <2>2 DEF Pack
<1>5. /\ ChunkSize \in 1..MaxSize /\ Stripped \in 0..2
      /\ LeftSize \in Nat /\ ChunkSize <= LeftSize
      /\ start_bit => ChunkSize # LeftSize
      /\ data + Stripped + LeftSize = Pack.len /\ data \in Nat
  BY <1>2, ChunkIs DEF TypeOK
<1>6. /\ d.nal = m
      /\ d.from = IF start_bit THEN HeaderSize(nals[m]) ELSE data
      /\ StartBit(FuOf(d)) <=> start_bit
      /\ EndBit(FuOf(d)) <=> size' = 0
      /\ size' = 0 => d.to = nals[m].len
  <2>1. EndBit(FuOf(d)) <=> size' = 0
    BY <1>2, <1>5, FragmentHeadIs DEF FuOf
  <2>2. StartBit(FuOf(d)) <=> start_bit
    BY <1>2, FragmentHeadIs DEF FuOf
  <2>3. d.from = IF start_bit THEN HeaderSize(nals[m]) ELSE data
    <3>1. HeaderSize(Pack) \in Nat
      BY <1>2, PackInPacks, PackIs
    <3>2. QED BY <1>2, <1>4, <1>5, <3>1 DEF FragmentShape, Stripped
  <2>4. QED BY <1>2, <1>4, <1>5, <2>1, <2>2, <2>3
<1>. HIDE DEF d
\* Where the NAL began, now that this datagram has been appended.
<1>7. PICK i \in DOMAIN net' :
        /\ \A k \in DOMAIN net' : net'[k].nal = m <=> k >= i
        /\ net'[i].from = HeaderSize(nals[m])
        /\ \A k \in i..(L - 1) : net'[k].to = net'[k + 1].from
        /\ \A k \in i..L : StartBit(FuOf(net'[k])) <=> k = i
        /\ \A k \in i..(L - 1) : ~EndBit(FuOf(net'[k]))
        /\ start_bit <=> i = L
  <2>1. CASE start_bit
    <3>1. \A k \in 1..(L - 1) : net'[k].nal # m
      BY <1>1, <1>3, <1>4, <2>1 DEF CarryShape, Partial
    <3>2. \A k \in DOMAIN net' : net'[k].nal = m <=> k >= L
      BY <1>3, <1>6, <3>1
    <3>3. L..(L - 1) = {} /\ L..L = {L} /\ L \in DOMAIN net'
      BY <1>3
    <3>4. /\ net'[L].from = HeaderSize(nals[m])
          /\ StartBit(FuOf(net'[L]))
      BY <1>3, <1>6, <2>1
    <3>5. QED BY <2>1, <3>2, <3>3, <3>4
  <2>2. CASE ~start_bit
    <3>1. PICK i \in DOMAIN net : BeginsAt(m, i)
      BY <1>1, <1>2, <2>2 DEF CarryShape, Partial
    <3>2. /\ \A k \in DOMAIN net : net[k].nal = m <=> k >= i
          /\ net[i].from = HeaderSize(nals[m]) /\ net[L - 1].to = data
          /\ \A k \in i..(L - 2) : net[k].to = net[k + 1].from
          /\ \A k \in i..(L - 1) : /\ StartBit(FuOf(net[k])) <=> k = i
                                   /\ ~EndBit(FuOf(net[k]))
      <4>1. (L - 1) - 1 = L - 2
        BY <1>3
      <4>2. QED BY <1>3, <3>1, <4>1 DEF BeginsAt
    <3>3. i \in DOMAIN net' /\ i \in 1..(L - 1)
      BY <1>3, <3>1
    <3>4. \A k \in DOMAIN net' : net'[k].nal = m <=> k >= i
      BY <1>3, <1>6, <3>2, <3>3
    <3>5. \A k \in i..(L - 1) : net'[k].to = net'[k + 1].from
      <4>1. SUFFICES ASSUME NEW k \in i..(L - 1)
                     PROVE  net'[k].to = net'[k + 1].from
        OBVIOUS
      <4>2. CASE k = L - 1
        BY <1>3, <1>6, <2>2, <3>2, <3>3, <4>2
      <4>3. CASE k # L - 1
        <5>1. k \in i..(L - 2) /\ k \in 1..(L - 1) /\ k + 1 \in 1..(L - 1)
          BY <1>3, <3>3, <4>3
        <5>2. QED BY <1>3, <3>2, <5>1
      <4>4. QED BY <4>2, <4>3
    <3>6. \A k \in i..L : StartBit(FuOf(net'[k])) <=> k = i
      <4>1. ~StartBit(FuOf(net'[L])) /\ L # i
        BY <1>3, <1>6, <2>2, <3>3
      <4>2. \A k \in i..(L - 1) : StartBit(FuOf(net'[k])) <=> k = i
        BY <1>3, <3>2, <3>3
      <4>3. QED BY <1>3, <3>3, <4>1, <4>2
    <3>7. \A k \in i..(L - 1) : ~EndBit(FuOf(net'[k]))
      BY <1>3, <3>2, <3>3
    <3>8. net'[i].from = HeaderSize(nals[m]) /\ i # L
      BY <1>3, <3>2, <3>3
    <3>9. QED BY <2>2, <3>3, <3>4, <3>5, <3>6, <3>7, <3>8
  <2>3. QED BY <1>2, <2>1, <2>2
<1>8. CASE size' = 0
  <2>1. Sent' = m /\ ~Partial'
    BY <1>1, <1>2, <1>8, OneSent DEF SendFragment, Partial
  <2>2. i # L /\ i <= L
    BY <1>2, <1>3, <1>5, <1>7, <1>8
  <2>3. \A k \in i..L : EndBit(FuOf(net'[k])) <=> k = L
    <3>1. EndBit(FuOf(net'[L]))
      BY <1>3, <1>6, <1>8
    <3>2. \A k \in i..L : k = L \/ k \in i..(L - 1)
      BY <1>3, <1>7
    <3>3. L \notin i..(L - 1)
      BY <1>3
    <3>4. QED BY <1>7, <3>1, <3>2, <3>3
  <2>4. \A k \in DOMAIN net' : net'[k].nal = m <=> k \in i..L
    BY <1>3, <1>7
  <2>5. net'[L].to = nals'[m].len /\ net'[i].from = HeaderSize(nals'[m])
    BY <1>2, <1>3, <1>6, <1>7, <1>8
  <2>6. Carry(m, i, L)'
    BY <1>7, <2>2, <2>3, <2>4, <2>5 DEF Carry, HeaderSize, FuOf
  <2>7. CarriedWhole(m)'
    BY <1>3, <1>7, <2>6 DEF CarriedWhole
  <2>8. QED BY <1>1, <1>2, <1>4, <1>6, <2>1, <2>7, CompletesNal
<1>9. CASE size' # 0
  <2>1. UNCHANGED <<pc, stream, cur_packs, chn>>
    BY <1>9 DEF SendFragment
  <2>2. Sent' = Sent /\ Partial'
    BY <1>2, <2>1 DEF Sent, Released, Partial
  <2>3. \A k \in i..L : ~EndBit(FuOf(net'[k]))
    <3>1. ~EndBit(FuOf(net'[L]))
      BY <1>3, <1>6, <1>9
    <3>2. \A k \in i..L : k = L \/ k \in i..(L - 1)
      BY <1>3, <1>7
    <3>3. QED BY <1>7, <3>1, <3>2
  <2>4. BeginsAt(m, i)'
    <3>1. net'[L].to = data' /\ net'[i].from = HeaderSize(nals'[m])
      BY <1>2, <1>3, <1>7
    <3>2. QED BY <1>3, <1>7, <2>3, <3>1 DEF BeginsAt, HeaderSize, FuOf
  <2>5. \A n \in 1..Sent : CarriedWhole(n)'
    <3>1. SUFFICES ASSUME NEW n \in 1..Sent PROVE CarriedWhole(n)'
      OBVIOUS
    <3>2. n \in DOMAIN nals
      <4>1. Sent \in Nat /\ Sent <= Len(nals)
        BY CountersAre
      <4>2. Len(nals) \in Nat /\ DOMAIN nals = 1..Len(nals)
        BY <1>2, LenProperties DEF TypeOK
      <4>3. QED BY <4>1, <4>2
    <3>3. d.nal # n /\ net \in Seq(Datagram)
      <4>1. m \notin 1..Sent
        BY <1>1, <1>4
      <4>2. d.nal = m
        BY <1>6
      <4>3. QED BY <1>2, <4>1, <4>2 DEF TypeOK
    <3>4. CarriedWhole(n)
      BY DEF CarryShape
    <3>5. QED BY <1>2, <3>2, <3>3, <3>4, CarriedStays
  <2>6. \A k \in DOMAIN net' : net'[k].nal \in 1..Sent \/ net'[k].nal = m
    <3>1. \A k \in 1..(L - 1) : net'[k].nal \in 1..Sent \/ net'[k].nal = m
      BY <1>1, <1>3 DEF CarryShape
    <3>2. QED BY <1>3, <1>6, <3>1
  <2>7. QED BY <1>1, <1>7, <2>2, <2>4, <2>5, <2>6 DEF CarryShape
<1>10. QED BY <1>8, <1>9

-----------------------------------------------------------------------------
\* A datagram takes the number the counter holds, the counter the next one.
LEMMA SequenceSent ==
  ASSUME TypeOK, SequenceShape, RtpSequenceContiguous,
         NEW head, NEW nal, NEW from, NEW to, Transmit(head, nal, from, to)
  PROVE  SequenceShape' /\ RtpSequenceContiguous'
<1>. DEFINE d == [head |-> head, nal |-> nal, from |-> from, to |-> to,
                  rtp |-> RtpMode, seq |-> rtp_sequence]
<1>1. SUFFICES ASSUME RtpMode PROVE SequenceShape' /\ RtpSequenceContiguous'
  BY DEF SequenceShape, RtpSequenceContiguous
<1>2. PICK L : L = Len(net) + 1
  OBVIOUS
<1>3. /\ net' = Append(net, d) /\ d.seq = rtp_sequence
      /\ rtp_sequence' = (rtp_sequence + 1) % SeqRange
  BY <1>1 DEF Transmit, NextSequence
<1>. HIDE DEF d
<1>4. /\ L \in Nat \ {0} /\ DOMAIN net = 1..(L - 1) /\ DOMAIN net' = 1..L
      /\ Len(net') = L /\ Len(net) = L - 1 /\ net'[L] = d
      /\ \A k \in 1..(L - 1) : net'[k] = net[k]
  BY <1>2, <1>3, NetAppend
<1>5. SequenceShape'
  BY <1>3, <1>4 DEF SequenceShape
<1>6. ASSUME NEW i \in 1..(L - 1)
      PROVE  net'[i + 1].seq = (net'[i].seq + 1) % SeqRange
  <2>1. CASE i = L - 1
    <3>1. net # <<>>
      BY <1>4
    <3>2. rtp_sequence = (net[L - 1].seq + 1) % SeqRange
      BY <1>1, <1>4, <3>1 DEF SequenceShape
    <3>3. i + 1 = L /\ net'[i] = net[i]
      BY <1>4, <2>1
    <3>4. QED BY <1>3, <1>4, <2>1, <3>2, <3>3
  <2>2. CASE i # L - 1
    <3>1. i \in 1..(Len(net) - 1) /\ i + 1 \in 1..(L - 1)
      BY <1>4, <2>2
    <3>2. QED BY <1>1, <1>4, <3>1 DEF RtpSequenceContiguous
  <2>3. QED BY <2>1, <2>2
<1>7. QED BY <1>4, <1>5, <1>6 DEF RtpSequenceContiguous

LEMMA SequenceStep ==
  ASSUME TypeOK, SequenceShape, RtpSequenceContiguous, [Next]_senderVars
  PROVE  SequenceShape' /\ RtpSequenceContiguous'
<1>1. CASE SendWhole
  BY <1>1, SequenceSent, PackInPacks DEF SendWhole
<1>2. CASE SendFragment
  BY <1>2, SequenceSent DEF SendFragment
<1>3. CASE net' = net /\ rtp_sequence' = rtp_sequence
  BY <1>3 DEF SequenceShape, RtpSequenceContiguous
<1>4. \/ SendWhole \/ SendFragment
      \/ net' = net /\ rtp_sequence' = rtp_sequence
  BY DEF Next, Loop, Encode, Interrupt, QueryStatus, GetStream, GetStreamFails,
         BeginFragments, ReleaseStream, Stop, Idle, senderVars
<1>5. QED BY <1>1, <1>2, <1>3, <1>4

-----------------------------------------------------------------------------
LEMMA ChannelStep ==
  ASSUME IInv, ChannelShape, [Next]_senderVars
  PROVE  ChannelShape'
<1>1. CASE SendWhole
  BY <1>1, OneSent DEF SendWhole
<1>2. CASE SendFragment /\ size' = 0
  BY <1>2, OneSent DEF SendFragment, IInv, StreamShape
<1>3. CASE SendFragment /\ size' # 0
  <2>1. UNCHANGED <<nals, chn, cur_packs, stream, pc>>
    BY <1>3 DEF SendFragment
  <2>2. QED BY <2>1 DEF ChannelShape, Sent, Released
<1>4. QED
  BY <1>1, <1>2, <1>3, ChannelEncode, ChannelGet, ChannelRelease, ChannelOther
  DEF Next, Loop

\* The steps other than the two that send disturb nothing that was sent.
LEMMA QuietIs ==
  ASSUME IInv, ChannelShape, [Next]_senderVars, ~SendWhole, ~SendFragment
  PROVE  /\ net' = net /\ Sent' = Sent /\ Partial' = Partial
         /\ Partial => data' = data /\ stream # <<>>
         /\ \A n \in DOMAIN nals : n \in DOMAIN nals' /\ nals'[n] = nals[n]
<1>1. nals \in Seq(Packs) /\ DOMAIN nals = 1..Len(nals) /\ Len(nals) \in Nat
  BY LenProperties DEF IInv, TypeOK
<1>2. Sent' = Sent
  BY ChannelEncode, ChannelGet, ChannelRelease, ChannelOther DEF Next, Loop
<1>3. \A n \in DOMAIN nals : n \in DOMAIN nals' /\ nals'[n] = nals[n]
  <2>1. CASE \E p \in Packs : Encode(p)
    <3>1. PICK p \in Packs : nals' = Append(nals, p)
      BY <2>1 DEF Encode
    <3>2. DOMAIN nals' = 1..(Len(nals) + 1) /\ \A n \in 1..Len(nals) : nals'[n] = nals[n]
      BY <1>1, <3>1, AppendProperties, LenProperties
    <3>3. QED BY <1>1, <3>2
  <2>2. CASE nals' = nals
    BY <2>2
  <2>3. QED
    BY <2>1, <2>2
    DEF Next, Loop, Interrupt, QueryStatus, GetStream, GetStreamFails,
        BeginFragments, ReleaseStream, Stop, Idle, senderVars
<1>4. /\ net' = net /\ Partial' = Partial
      /\ Partial => data' = data /\ stream # <<>>
  BY DEF Next, Loop, Encode, Interrupt, QueryStatus, GetStream, GetStreamFails,
         BeginFragments, ReleaseStream, Stop, MayStop, Idle, senderVars, Partial,
         IInv, StreamShape
<1>5. QED BY <1>2, <1>3, <1>4

LEMMA QuietStep ==
  ASSUME IInv, ChannelShape, CarryShape, [Next]_senderVars,
         ~SendWhole, ~SendFragment
  PROVE  CarryShape'
BY QuietIs, CarryQuiet

\* The whole inductive invariant.
Inv == /\ IInv /\ ChannelShape /\ CarryShape
       /\ SequenceShape /\ RtpSequenceContiguous

LEMMA WholeInvHolds == Spec => []Inv
<1>1. Init => Inv
  <2>1. SUFFICES ASSUME Init PROVE Inv
    OBVIOUS
  <2>2. nals = <<>> /\ chn = <<>> /\ net = <<>> /\ pc = "query"
    BY <2>1 DEF Init
  <2>3. Sent = 0 /\ Len(net) = 0 /\ ~Partial
    BY <2>2 DEF Sent, Released, Partial
  <2>4. QED
    BY <2>1, <2>2, <2>3, InitInv
    DEF Inv, ChannelShape, CarryShape, SequenceShape, RtpSequenceContiguous
<1>2. Inv /\ [Next]_senderVars => Inv'
  <2>1. SUFFICES ASSUME Inv, [Next]_senderVars PROVE Inv'
    OBVIOUS
  <2>2. IInv' /\ ChannelShape'
    BY <2>1, NextInv, ChannelStep DEF Inv
  <2>3. CarryShape'
    BY <2>1, CarrySendWhole, CarrySendFragment, QuietStep DEF Inv
  <2>4. SequenceShape' /\ RtpSequenceContiguous'
    BY <2>1, SequenceStep DEF Inv, IInv
  <2>5. QED BY <2>2, <2>3, <2>4 DEF Inv
<1>3. QED BY <1>1, <1>2, PTL DEF Spec

\* Whatever is encoded, and whenever the channel is queried, a NAL leaves it
\* only after its datagrams carried all of it once, framed by its two bits.
THEOREM ReleasedAfterSent == Spec => []ReleasedIsCarried
<1>1. Inv => ReleasedIsCarried
  <2>1. SUFFICES ASSUME Inv, NEW n \in DOMAIN nals, ~CarriedWhole(n)
                 PROVE  \E i \in DOMAIN chn : chn[i] = n
    BY DEF ReleasedIsCarried
  <2>2. /\ Released \in Nat /\ Released <= Sent /\ Sent \in Nat
        /\ n \in 1..Len(nals) /\ Len(nals) \in Nat /\ Len(chn) \in Nat
        /\ DOMAIN chn = 1..Len(chn)
    BY <2>1, CountersAre, LenProperties DEF Inv, IInv, TypeOK
  <2>3. n \notin 1..Sent
    BY <2>1 DEF Inv, CarryShape
  <2>4. n - Released \in DOMAIN chn
    BY <2>2, <2>3 DEF Released
  <2>5. chn[n - Released] = Released + (n - Released)
    BY <2>1, <2>4 DEF Inv, ChannelShape
  <2>6. QED BY <2>2, <2>4, <2>5
<1>2. QED BY <1>1, WholeInvHolds, PTL

\* Whenever SIGINT arrives, the loop stops between two NALs, never inside one.
THEOREM StopsBetweenNals == Spec => []StopLeavesNoPartialNal
<1>1. Inv => StopLeavesNoPartialNal
  BY DEF Inv, CarryShape, Partial, StopLeavesNoPartialNal
<1>2. QED BY <1>1, WholeInvHolds, PTL

\* Whatever the range of the counter, it counts every datagram across NALs and
\* across its wrap.
THEOREM SequenceContiguous == Spec => []RtpSequenceContiguous
<1>1. Inv => RtpSequenceContiguous
  BY DEF Inv
<1>2. QED BY <1>1, WholeInvHolds, PTL
=============================================================================
