----------------------------- MODULE FrameSender -----------------------------
(***************************************************************************)
(* The streaming loop of venc (venc/main.c): processStream takes the       *)
(* encoded packs out of the encoder channel, sendPacket cuts each NAL into *)
(* datagrams of about max_frame_size bytes and transmit puts them on the   *)
(* socket.  One action per step of the loop, one per iteration of the      *)
(* fragmentation loop.                                                     *)
(*                                                                         *)
(* A NAL is a record: the header bytes the encoder wrote and the length    *)
(* counted after the 4-byte start code.  Its payload bytes are named by    *)
(* position, so a datagram carries the interval [from, to) of a NAL.       *)
(***************************************************************************)
EXTENDS NalHeader

CONSTANTS
  Packs,     \* the kinds of NAL the encoder produces: [head, len] records
  MaxSize,   \* max_frame_size, option -n
  RtpMode,   \* stream_mode = 1, option -m rtp
  SeqRange,  \* range of the 16-bit RTP sequence number
  MaxNals,   \* bound: NALs the encoder produces
  MaxFails,  \* bound: GetStream failures
  NetBound   \* bound: datagrams under way at once

Prefix == 4          \* the Annex B start code, skipped before sending

HeaderSize(p) == Len(p.head)

\* What the encoder produces: a one-byte AVC or two-byte HEVC header with the
\* forbidden bit clear, a payload, and only slices long enough to be cut.
PackAssumption ==
  \A p \in Packs :
    /\ p.len \in Nat
    /\ \/ p.head \in [1..1 -> 0..127] /\ ~CutHevc(p.head[1])
       \/ /\ p.head \in [1..2 -> 0..127]
          /\ ~CutAvc(p.head[1]) /\ p.head[2] = 1
    /\ ~IsFragment(p.head[1])
    /\ p.len > HeaderSize(p)
    /\ Cuttable(p.head[1]) \/ p.len <= MaxSize + Prefix

SenderConstants ==
  /\ MaxSize \in Nat \ {0}
  /\ RtpMode \in BOOLEAN
  /\ SeqRange \in Nat \ {0}
  /\ {MaxNals, MaxFails, NetBound} \subseteq Nat
  /\ PackAssumption

ASSUME SenderAssumption == SenderConstants

VARIABLES
  nals,          \* every NAL encoded so far; a NAL is named by its index
  chn,           \* NALs held by the encoder channel, oldest first
  loop_running,  \* cleared by the SIGINT handler
  pc,            \* where the streaming loop is
  cur_packs,     \* u32CurPacks, read by QueryStatus
  stream,        \* packs acquired by GetStream and not sent yet
  data, size,    \* pack_data and pack_size: what is left of the NAL
  start_bit,     \* the next fragment is the first of its NAL
  rtp_sequence,  \* of the next RTP datagram
  net,           \* datagrams on the way
  fails          \* GetStream failures so far

senderVars == <<nals, chn, loop_running, pc, cur_packs, stream, data, size,
                start_bit, rtp_sequence, net, fails>>

Init ==
  /\ nals = <<>> /\ chn = <<>> /\ net = <<>> /\ stream = <<>>
  /\ loop_running = TRUE
  /\ pc = "query"
  /\ cur_packs = 0 /\ data = 0 /\ size = 0 /\ rtp_sequence = 0 /\ fails = 0
  /\ start_bit = FALSE

-----------------------------------------------------------------------------
\* The encoder, a hardware block: it appends a NAL to its channel at any time.
Encode(p) ==
  /\ Len(nals) < MaxNals
  /\ nals' = Append(nals, p)
  /\ chn' = Append(chn, Len(nals) + 1)
  /\ UNCHANGED <<loop_running, pc, cur_packs, stream, data, size, start_bit,
                 rtp_sequence, net, fails>>

\* SIGINT: the loop condition is false from now on.
Interrupt ==
  /\ loop_running
  /\ loop_running' = FALSE
  /\ UNCHANGED <<nals, chn, pc, cur_packs, stream, data, size, start_bit,
                 rtp_sequence, net, fails>>

\* QueryStatus: with no pack in the channel processStream returns at once,
\* and the loop calls it again.
QueryStatus ==
  /\ pc = "query" /\ loop_running
  /\ chn # <<>>
  /\ cur_packs' = Len(chn)
  /\ pc' = "get"
  /\ UNCHANGED <<nals, chn, loop_running, stream, data, size, start_bit,
                 rtp_sequence, net, fails>>

\* GetStream hands over the packs that QueryStatus counted; the channel keeps
\* them until they are released.
GetStream ==
  /\ pc = "get"
  /\ stream' = SubSeq(chn, 1, cur_packs)
  /\ pc' = "send"
  /\ UNCHANGED <<nals, chn, loop_running, cur_packs, data, size, start_bit,
                 rtp_sequence, net, fails>>

\* GetStream fails: processStream returns 0 and the packs stay in the channel.
GetStreamFails ==
  /\ pc = "get" /\ fails < MaxFails
  /\ fails' = fails + 1
  /\ pc' = "query"
  /\ UNCHANGED <<nals, chn, loop_running, cur_packs, stream, data, size,
                 start_bit, rtp_sequence, net>>

-----------------------------------------------------------------------------
\* uint16_t rtp_sequence, incremented after use.
NextSequenceOffByOne == IF rtp_sequence < SeqRange - 2 THEN rtp_sequence + 1 ELSE 0
NextSequence == (rtp_sequence + 1) % SeqRange

\* One datagram on the socket; RTP mode numbers it.
Transmit(head, nal, from, to) ==
  /\ Len(net) < NetBound
  /\ net' = Append(net, [head |-> head, nal |-> nal, from |-> from, to |-> to,
                         rtp |-> RtpMode, seq |-> rtp_sequence])
  /\ rtp_sequence' = IF RtpMode THEN NextSequence ELSE rtp_sequence

Pack == nals[Head(stream)]   \* the NAL being sent

\* The size test; mutants: without the four bytes of slack, with room for RTP.
MustCutNoSlack(p)  == p.len > MaxSize
MustCutRtpSlack(p) == p.len > MaxSize + RtpHeaderSize
MustCut(p) == p.len > MaxSize + Prefix

\* A NAL that fits goes out whole.
SendWhole ==
  /\ pc = "send" /\ stream # <<>>
  /\ ~MustCut(Pack)
  /\ Transmit(Pack.head, Head(stream), HeaderSize(Pack), Pack.len)
  /\ stream' = Tail(stream)
  /\ UNCHANGED <<nals, chn, loop_running, pc, cur_packs, data, size,
                 start_bit, fails>>

\* A NAL that does not fit: enter the fragmentation loop.
BeginFragments ==
  /\ pc = "send" /\ stream # <<>>
  /\ MustCut(Pack)
  /\ pc' = "fragment"
  /\ data' = 0 /\ size' = Pack.len /\ start_bit' = TRUE
  /\ UNCHANGED <<nals, chn, loop_running, cur_packs, stream, rtp_sequence,
                 net, fails>>

\* The chunk is chosen before the first iteration strips the NAL header.
ChunkSizeUnclamped == MaxSize
ChunkSize == IF size > MaxSize THEN MaxSize ELSE size
Stripped  == IF start_bit THEN HeaderSize(Pack) ELSE 0
LeftSize  == size - Stripped

FragmentHead ==
  LET b == Pack.head[1]
      last == ChunkSize = LeftSize
  IN  IF CutAvc(b)
        THEN <<AvcIndicator(b), FuHeader(AvcType(b), start_bit, last)>>
        ELSE <<HevcIndicator(b), 1, FuHeader(HevcType(b), start_bit, last)>>

\* One iteration of the fragmentation loop.
SendFragment ==
  /\ pc = "fragment"
  /\ Transmit(FragmentHead, Head(stream), data + Stripped,
              data + Stripped + ChunkSize)
  /\ start_bit' = FALSE
  /\ data' = data + Stripped + ChunkSize
  /\ size' = LeftSize - ChunkSize
  /\ IF size' = 0
       THEN pc' = "send" /\ stream' = Tail(stream)
       ELSE UNCHANGED <<pc, stream>>
  /\ UNCHANGED <<nals, chn, loop_running, cur_packs, fails>>

\* What stays in the channel: packs encoded since QueryStatus counted.
KeptNone == <<>>
Kept == SubSeq(chn, cur_packs + 1, Len(chn))

\* All packs sent: give them back to the encoder.
ReleaseStream ==
  /\ pc = "send" /\ stream = <<>>
  /\ chn' = Kept
  /\ pc' = "query"
  /\ UNCHANGED <<nals, loop_running, cur_packs, stream, data, size, start_bit,
                 rtp_sequence, net, fails>>

\* The loop condition is tested between two calls of processStream only.
MayStopInside == pc # "stopped" /\ ~loop_running
MayStop == pc = "query" /\ ~loop_running

Stop ==
  /\ MayStop
  /\ pc' = "stopped"
  /\ UNCHANGED <<nals, chn, loop_running, cur_packs, stream, data, size,
                 start_bit, rtp_sequence, net, fails>>

\* An idle turn of the loop (empty channel), or a process that has exited.
Idle ==
  /\ (pc = "query" /\ loop_running /\ chn = <<>>) \/ pc = "stopped"
  /\ UNCHANGED senderVars

Loop == QueryStatus \/ GetStream \/ SendWhole \/ BeginFragments
          \/ SendFragment \/ ReleaseStream \/ Stop

Next == (\E p \in Packs : Encode(p)) \/ Interrupt \/ GetStreamFails \/ Loop
          \/ Idle

Spec == Init /\ [][Next]_senderVars

\* The loop runs while the process does; GetStream fails MaxFails times.
FairSpec == Spec /\ WF_senderVars(Loop)

-----------------------------------------------------------------------------
TypeOK ==
  /\ nals \in Seq(Packs)
  /\ chn \in Seq(1..Len(nals)) /\ stream \in Seq(1..Len(nals))
  /\ loop_running \in BOOLEAN /\ start_bit \in BOOLEAN
  /\ pc \in {"query", "get", "send", "fragment", "stopped"}
  /\ cur_packs \in Nat /\ data \in Nat /\ size \in Nat
  /\ rtp_sequence \in 0..(SeqRange - 1)
  /\ net \in Seq(Datagram)
  /\ fails \in 0..MaxFails

\* No fragment is both the first and the last of its NAL.  decode_frame in
\* vdec looks at the end bit only of a fragment without start bit, so such a
\* NAL would never be delivered; the four bytes of slack in sendPacket's size
\* test are what excludes it (venc/main.c:1211).
NeverStartAndEnd ==
  \A i \in DOMAIN net :
    IsFragment(net[i].head[1]) => ~(StartBit(FuOf(net[i])) /\ EndBit(FuOf(net[i])))

\* Datagrams i to j, all of NAL n and no others, carry it from its first
\* payload byte to its last: as it is, or cut with one start and one end bit.
Carry(n, i, j) ==
  LET p == nals[n]
  IN  /\ i <= j
      /\ \A k \in DOMAIN net : net[k].nal = n <=> k \in i..j
      /\ net[i].from = HeaderSize(p) /\ net[j].to = p.len
      /\ \A k \in i..(j - 1) : net[k].to = net[k + 1].from
      /\ IF i = j THEN net[i].head = p.head
                  ELSE \A k \in i..j : /\ StartBit(FuOf(net[k])) <=> k = i
                                       /\ EndBit(FuOf(net[k])) <=> k = j
CarriedWhole(n) == \E i, j \in DOMAIN net : Carry(n, i, j)

\* A NAL is given back to the encoder only after its datagrams, in the order
\* they were sent, carried all its bytes once, framed by one start and one end
\* bit (the loops of processStream and sendPacket together).
ReleasedIsCarried ==
  \A n \in DOMAIN nals : CarriedWhole(n) \/ \E i \in DOMAIN chn : chn[i] = n

\* SIGINT never leaves a NAL half sent: when the loop has stopped, every NAL
\* of which a datagram went out was carried whole.
StopLeavesNoPartialNal ==
  pc = "stopped" => \A i \in DOMAIN net : CarriedWhole(net[i].nal)

\* Consecutive RTP datagrams have consecutive sequence numbers, across NALs
\* and across the wrap of the 16-bit counter.
RtpSequenceContiguous ==
  RtpMode => \A i \in 1..(Len(net) - 1) :
               net[i + 1].seq = (net[i].seq + 1) % SeqRange

\* No datagram exceeds the configured size by more than the start code's
\* length and the RTP header, whatever is cut (vdec reads at most 4096 bytes).
DatagramBounded ==
  \A i \in DOMAIN net :
    WireSize(net[i]) <= MaxSize + Prefix + (IF RtpMode THEN RtpHeaderSize ELSE 0)
=============================================================================
