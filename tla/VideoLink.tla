------------------------------ MODULE VideoLink ------------------------------
(***************************************************************************)
(* venc and vdec joined by UDP: the streaming loop of FrameSender, the     *)
(* receive loop of vdec/main.c around FrameReceiver's decode_frame, and a  *)
(* network that loses, duplicates and reorders datagrams within bounds.    *)
(***************************************************************************)
EXTENDS SequencesExt, FrameSender, FrameReceiver

CONSTANTS
  MaxLosses,   \* bound: datagrams the network loses
  MaxDups,     \* bound: datagrams the network duplicates
  Overtake     \* bound: datagrams a datagram may overtake

VARIABLES
  arrived,                       \* history: datagrams received
  lost,                          \* history: NALs that lost a datagram
  losses, dups                   \* faults so far

\* What the network shares with no one: all of the sender but net.
senderRest == <<nals, chn, loop_running, pc, cur_packs, stream, data, size,
                start_bit, rtp_sequence, fails>>
faultVars  == <<lost, losses, dups>>
linkVars == <<senderRest, net, nal_buffer, delivered, arrived, faultVars>>

\* Datagrams of the configured size fit in what vdec reads at once.
ASSUME LinkAssumption ==
  /\ RxCap \in Nat /\ MaxSize + Prefix + RtpHeaderSize <= RxCap
  /\ {MaxLosses, MaxDups, Overtake} \subseteq Nat

LinkInit ==
  /\ Init /\ ReceiverInit
  /\ arrived = <<>> /\ lost = {} /\ losses = 0 /\ dups = 0

-----------------------------------------------------------------------------
Send == Next /\ UNCHANGED <<nal_buffer, delivered, arrived, faultVars>>

\* One turn of the receive loop: recv returns the oldest datagram, or one that
\* overtook it, and decode_frame takes what is behind its RTP header.  (With
\* none, recv fails and the loop sleeps.)
Receive ==
  \E i \in DOMAIN net :
    /\ i <= Overtake + 1
    /\ net' = RemoveAt(net, i)
    /\ \E d \in Unwrapped(Truncate(net[i])) : Decode(d)
    /\ arrived' = Append(arrived, net[i])
    /\ UNCHANGED <<senderRest, faultVars>>

Lose ==
  /\ losses < MaxLosses
  /\ \E i \in DOMAIN net :
       net' = RemoveAt(net, i) /\ lost' = lost \cup {net[i].nal}
  /\ losses' = losses + 1
  /\ UNCHANGED <<senderRest, nal_buffer, delivered, arrived, dups>>

Duplicate ==
  /\ dups < MaxDups
  /\ \E i \in DOMAIN net : net' = InsertAt(net, i, net[i])
  /\ dups' = dups + 1
  /\ UNCHANGED <<senderRest, nal_buffer, delivered, arrived, lost, losses>>

LinkNext == Send \/ Receive \/ Lose \/ Duplicate

LinkSpec == LinkInit /\ [][LinkNext]_linkVars

\* Both processes keep running their loops; the network is never obliged to
\* do anything but to hand over what it did not lose.
LinkFairSpec ==
  LinkSpec
    /\ WF_linkVars(Loop /\ UNCHANGED <<nal_buffer, delivered, arrived, faultVars>>)
    /\ WF_linkVars(Receive)

-----------------------------------------------------------------------------
\* NAL n of kind p as the encoder produced it, start code included.
AnnexB(n, p) ==
  StartCode \o RawBytes(p.head)
    \o Bytes(n, Len(p.head), p.len)

Intact(n) == AnnexB(n, nals[n])

\* On a network that loses, duplicates and reorders nothing the link is a FIFO
\* of NALs: sendPacket's cutting and decode_frame's joining cancel out.
Fifo == INSTANCE NalFifo WITH
  Nal <- {AnnexB(n, p) : n \in 1..MaxNals, p \in Packs},
  queue <- [i \in 1..(Len(nals) - Len(delivered)) |-> Intact(Len(delivered) + i)]
LinkIsFifo == Fifo!Spec

\* A run of datagrams that carries NAL n whole: in order, from its first
\* payload byte to its last.
IsWholeNal(s) ==
  LET n == s[1].nal
  IN  /\ \A i \in DOMAIN s : s[i].nal = n
      /\ s[1].from = Len(nals[n].head) /\ s[Len(s)].to = nals[n].len
      /\ \A i \in 1..(Len(s) - 1) : s[i].to = s[i + 1].from

\* Whatever was lost, duplicated or reordered before, a NAL whose datagrams
\* arrive in order and with no other in between is delivered intact as soon as
\* its last datagram is in: decode_frame always resynchronises.
WholeArrivalIsDelivered ==
  \A i \in DOMAIN arrived :
    IsWholeNal(SubSeq(arrived, i, Len(arrived)))
      => delivered # <<>> /\ Last(delivered) = Intact(arrived[i].nal)

\* Each datagram lies behind the one before: none was doubled or overtaken.
InOrder ==
  LET s == arrived \o net
  IN  \A i \in 1..(Len(s) - 1) :
        LET d == s[i]  e == s[i + 1]
        IN  d.nal < e.nal \/ (d.nal = e.nal /\ d.to <= e.from)

\* Loss alone damages only the NALs that lost a datagram: what is delivered is
\* an intact NAL, or contains bytes of NALs that lost one and of no other.
DamageContained ==
  InOrder =>
  \A i \in DOMAIN delivered :
    \/ \E n \in DOMAIN nals : delivered[i] = Intact(n)
    \/ \A k \in DOMAIN delivered[i] : delivered[i][k][1] \in lost \cup {0}

\* Every NAL encoded is eventually delivered intact, unless the network lost
\* a part of it or disturbed the order, or venc was interrupted.
DeliveredUnlessLost ==
  \A n \in 1..MaxNals :
    Len(nals) >= n ~> \/ n \in lost \/ ~InOrder \/ ~loop_running
                      \/ Len(nals) >= n /\ Contains(delivered, Intact(n))
=============================================================================
