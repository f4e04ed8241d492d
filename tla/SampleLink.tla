------------------------------ MODULE SampleLink ------------------------------
(***************************************************************************)
(* venc and one of the two sample programs, the relay vdec-sample or       *)
(* vdec-stdout, in the place of vdec: the sender and the network are those *)
(* of VideoLink.                                                           *)
(***************************************************************************)
EXTENDS VideoLink, VdecSample, VdecStdout

VARIABLE program    \* "vdec-sample" or "vdec-stdout"

sampleRest == <<nal_size, relayVars, nal_start, program>>
sampleVars == <<linkVars, sampleRest>>

\* Only slices are longer than the relay's datagrams.
ASSUME SampleAssumption ==
  /\ {MAX_SIZE, OutSeqRange} \subseteq Nat \ {0} /\ PayloadByte \in Byte
  /\ \A p \in Packs : Cuttable(p.head[1]) \/ p.len <= MAX_SIZE

SampleInit ==
  /\ LinkInit /\ JoinInit /\ RelayInit /\ StdoutInit
  /\ program \in {"vdec-sample", "vdec-stdout"}

\* One turn of main's loop: recv returns a datagram and decode_frame takes it.
SampleReceive ==
  \E i \in DOMAIN net :
    /\ i <= Overtake + 1
    /\ net' = RemoveAt(net, i)
    /\ \E d \in Unwrapped(Truncate(net[i])) :
           \/ program = "vdec-sample" /\ RelayDecode(d) /\ UNCHANGED nal_start
           \/ program = "vdec-stdout" /\ StdoutDecode(d) /\ UNCHANGED relayVars
    /\ arrived' = Append(arrived, net[i])
    /\ UNCHANGED <<senderRest, faultVars, program>>

\* The relay sends on what it joined before it receives again.
SendOn ==
  /\ CreateFragment
  /\ UNCHANGED <<senderRest, net, arrived, faultVars, nal_start, program>>

SampleNext ==
  \/ (Send \/ Lose \/ Duplicate) /\ UNCHANGED sampleRest
  \/ SampleReceive
  \/ SendOn

SampleSpec == SampleInit /\ [][SampleNext]_sampleVars

-----------------------------------------------------------------------------
\* Datagrams i to j of the relay, and no others, are made of the r-th NAL: their
\* bytes, read on from where the one before ended up to the NAL's end, are the
\* NAL's, and it is framed as a receiver needs it, in one datagram as it is, or
\* in fragments that all give its header back, numbered on, the first with the
\* start bit and the last with the end bit.
Relayed(r, i, j) ==
  LET nal == delivered[r]
      upto(k) == out[k].from + Len(out[k].bytes)
      rebuilt == RebuiltHead(out[i])
  IN  /\ i <= j
      /\ \A k \in DOMAIN out : out[k].of = r <=> k \in i..j
      /\ \A k \in i..j : out[k].bytes = SubSeq(nal, out[k].from + 1, upto(k))
      /\ \A k \in i..(j - 1) :
           out[k + 1].from = upto(k) /\ out[k + 1].seq = (out[k].seq + 1) % OutSeqRange
      /\ upto(j) = Len(nal)
      /\ IF i = j
           THEN out[i].head = <<>> /\ out[i].from = 4
           ELSE /\ SubSeq(nal, 1, out[i].from) = StartCode \o RawBytes(rebuilt)
                /\ \A k \in i..j :
                     /\ IsFragment(out[k].head[1]) /\ RebuiltHead(out[k]) = rebuilt
                     /\ Len(out[k].head) = Len(rebuilt) + 1
                     /\ StartBit(FuOf(out[k])) <=> k = i
                     /\ EndBit(FuOf(out[k])) <=> k = j

\* The sizes create_fragment gets wrong: it chooses the chunk before it strips
\* the NAL header, and tests the size without slack (vdec-sample.c:74, :85), so
\* an H.264 NAL of MAX_SIZE + 1 bytes and an H.265 one of MAX_SIZE + 2 become
\* one fragment that is first and last, and an H.265 one of MAX_SIZE + 1 leaves
\* -1 bytes for the last fragment: no receiver gets these NALs.
MissedSize(p) == p.len - MAX_SIZE \in 1..Len(p.head)

\* What the relay has joined it sends on whole and framed as a receiver needs
\* it: its fragmentation loop is the inverse of its own decode_frame.  Stated
\* of the NALs that were not damaged before, and not of the missed sizes.
RelayedWhole ==
  program = "vdec-sample" =>
  \A r \in DOMAIN delivered :
    (\E n \in DOMAIN nals : delivered[r] = Intact(n) /\ ~MissedSize(nals[n]))
      => \/ r = Len(delivered) /\ relay_pc # "recv"
         \/ \E i, j \in DOMAIN out : Relayed(r, i, j)

\* An SPS of H.264 or a VPS of H.265.
ParameterSet(n) ==
  LET h == nals[n].head
  IN  IF Len(h) = 1 THEN AvcType(h[1]) = 7 ELSE HevcType(h[1]) = 32

\* Although neither decode_frame ever resets the size it keeps between calls, a
\* NAL that arrives whole is joined intact, whatever was lost, doubled or
\* reordered before, and vdec-stdout writes it if a parameter set arrived
\* before or with it.
WholeArrivalIsJoined ==
  \A i \in DOMAIN arrived :
    /\ IsWholeNal(SubSeq(arrived, i, Len(arrived)))
    /\ program = "vdec-stdout" => \E k \in DOMAIN arrived : ParameterSet(arrived[k].nal)
    => delivered # <<>> /\ Last(delivered) = Intact(arrived[i].nal)

\* What vdec-stdout takes for a parameter set: either header's reading will do.
PassesForOne(n) ==
  LET b == nals[n].head[1] IN AvcType(b) = 7 \/ HevcType(b) = 32

\* Whatever is lost or reordered, the first NAL vdec-stdout writes is one that
\* it takes for a parameter set, the whole of it: a player is never given the
\* rest of a NAL, or other slices, first.
StdoutOpensWithParameterSet ==
  program = "vdec-stdout" /\ delivered # <<>> =>
    \E n \in DOMAIN nals : PassesForOne(n) /\ delivered[1] = Intact(n)

\* The loop while (size) ends, although the header and the chunk are subtracted
\* from an int that may pass below zero: a NAL, damaged or not, is never more
\* datagrams than its bytes need, and one more.
FragmentsBounded ==
  \A i, j \in DOMAIN out :
    out[i].of = out[j].of => j - i <= Len(delivered[out[i].of]) \div MAX_SIZE
=============================================================================
