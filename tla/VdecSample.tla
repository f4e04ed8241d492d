------------------------------ MODULE VdecSample ------------------------------
(***************************************************************************)
(* The relay sample/vdec-sample.c: decode_frame joins venc's datagrams in  *)
(* nal_buffer, create_fragment cuts the NAL again, to MAX_SIZE bytes, and  *)
(* create_stream sends it on as RTP.  One thread: a datagram is received   *)
(* only when the NAL before it was sent.                                   *)
(***************************************************************************)
EXTENDS SampleReceiver, Integers

CONSTANTS
  MAX_SIZE,      \* 1200
  OutSeqRange,   \* range of the RTP sequence number sent
  PayloadByte    \* the value of a payload byte that is read as a NAL header

VARIABLES
  relay_pc,                \* "recv", "whole", "fragment"
  relay_data, relay_size,  \* in create_fragment: offset in nal_buffer, bytes left
  relay_start,             \* start_bit
  relay_sequence,          \* rtp_sequence
  out   \* the datagrams sent: their header bytes, the bytes behind them and the
        \* offset they were read at, the sequence number and the NAL's number

relayVars == <<relay_pc, relay_data, relay_size, relay_start, relay_sequence, out>>

RelayInit ==
  /\ relay_pc = "recv" /\ relay_data = 0 /\ relay_size = 0
  /\ relay_start = FALSE /\ relay_sequence = 0 /\ out = <<>>

-----------------------------------------------------------------------------
\* decode_frame returned n: create_fragment skips the start code.
Return(n) ==
  /\ delivered' = Append(delivered, SubSeq(nal_buffer', 1, n))
  /\ relay_pc' = IF n - 4 > MAX_SIZE THEN "fragment" ELSE "whole"
  /\ relay_data' = 4 /\ relay_size' = n - 4 /\ relay_start' = TRUE

GoOn == UNCHANGED <<delivered, relay_pc, relay_data, relay_size, relay_start>>

RelayDecode(d) ==
  /\ relay_pc = "recv"
  /\ Join(d)
  /\ IF Result(d) = 0 THEN GoOn ELSE Return(Result(d))
  /\ UNCHANGED <<relay_sequence, out>>

-----------------------------------------------------------------------------
\* Memory behind what was ever written holds no byte of a NAL.
Memory(k) == IF k \in DOMAIN nal_buffer THEN nal_buffer[k] ELSE Raw(256)
Chunk(from, n) == [i \in 1..n |-> Memory(from + i)]

OutSequence == (relay_sequence + 1) % OutSeqRange

CreateStream(head, from, bytes) ==
  /\ out' = Append(out, [head |-> head, from |-> from, bytes |-> bytes,
                         seq |-> relay_sequence, of |-> Len(delivered)])
  /\ relay_sequence' = OutSequence

\* sendmsg refuses a negative length.
RelayWhole ==
  /\ relay_pc = "whole"
  /\ IF relay_size >= 0
       THEN CreateStream(<<>>, relay_data, Chunk(relay_data, relay_size))
       ELSE relay_sequence' = OutSequence /\ UNCHANGED out
  /\ relay_pc' = "recv"
  /\ UNCHANGED <<nal_size, relay_data, relay_size, relay_start, nal_buffer, delivered>>

\* The NAL header is read before the loop.
HeaderByte == IF Memory(5)[1] = 0 THEN Memory(5)[2] ELSE PayloadByte

SampleChunkClamped ==
  IF relay_size > MAX_SIZE THEN MAX_SIZE ELSE IF relay_size < 0 THEN 0 ELSE relay_size
SampleChunk == IF relay_size > MAX_SIZE THEN MAX_SIZE ELSE relay_size
SampleStrippedOne == IF relay_start /\ Cuttable(HeaderByte) THEN 1 ELSE 0
SampleStripped ==
  IF ~relay_start THEN 0
  ELSE IF CutAvc(HeaderByte) THEN 1 ELSE IF CutHevc(HeaderByte) THEN 2 ELSE 0

\* A NAL of another type leaves what is on the stack in the header bytes.
SampleHead(last) ==
  LET b == HeaderByte
  IN  IF CutAvc(b) THEN <<AvcIndicator(b), FuHeader(AvcType(b), relay_start, last)>>
      ELSE IF CutHevc(b)
        THEN <<HevcIndicator(b), 1, FuHeader(HevcType(b), relay_start, last)>>
      ELSE <<256, 256>>

\* The end bit compares the chunk chosen before the header was stripped; the
\* last chunk may be of -1 bytes, and what is sent ends in the header.
IsLast == SampleChunk = relay_size - SampleStripped

RelayFragment ==
  LET from == relay_data + SampleStripped
      head == SampleHead(IsLast)
  IN  /\ relay_pc = "fragment"
      /\ IF SampleChunk >= 0
           THEN CreateStream(head, from, Chunk(from, SampleChunk))
           ELSE CreateStream(SubSeq(head, 1, Len(head) + SampleChunk), from, <<>>)
      /\ relay_data' = from + SampleChunk
      /\ relay_size' = relay_size - SampleStripped - SampleChunk
      /\ relay_start' = FALSE
      /\ relay_pc' = IF relay_size' = 0 THEN "recv" ELSE "fragment"
      /\ UNCHANGED <<nal_size, nal_buffer, delivered>>

CreateFragment == RelayWhole \/ RelayFragment
=============================================================================
