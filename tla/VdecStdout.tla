------------------------------ MODULE VdecStdout ------------------------------
(***************************************************************************)
(* The player's front end sample/vdec-stdout.c: decode_frame joins venc's  *)
(* datagrams as the relay's does, and main writes the NALs to stdout, from *)
(* the first parameter set on; delivered is what was written.              *)
(***************************************************************************)
EXTENDS SampleReceiver

VARIABLE nal_start    \* a parameter set was seen

StdoutInit == nal_start = FALSE

\* The first byte of a datagram is read as either header: H.264's SPS, H.265's
\* VPS.  (An H.264 slice of nal_ref_idc 2, 0x41, passes for a VPS.)  Mutant:
\* every H.265 type that is no slice, which H.264's slices look like as well.
SeenNoSlice(d) == nal_start \/ AvcType(d.head[1]) = 7 \/ HevcType(d.head[1]) >= 32
Seen(d) == nal_start \/ AvcType(d.head[1]) = 7 \/ HevcType(d.head[1]) = 32

\* main writes what decode_frame returned.
StdoutDecode(d) ==
  /\ nal_start' = Seen(d)
  /\ Join(d)
  /\ delivered' = IF Result(d) # 0 /\ nal_start'
                    THEN Append(delivered, SubSeq(nal_buffer', 1, Result(d)))
                    ELSE delivered
=============================================================================
