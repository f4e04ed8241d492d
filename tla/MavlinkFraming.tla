---------------------------- MODULE MavlinkFraming ----------------------------
(***************************************************************************)
(* MAVLink over a link that loses datagrams: the parser that both OSDs run *)
(* over every byte they receive (vdec/mavlink/mavlink_helpers.h).  Its     *)
(* state survives from one datagram to the next, so a frame cut by a loss  *)
(* goes on with the bytes of the frames behind it.                         *)
(*                                                                         *)
(* A frame is cut into datagrams anywhere, so any byte may be the first or *)
(* the last one lost.  Checksums are right exactly for what was sent.      *)
(***************************************************************************)
EXTENDS Integers, Sequences

CONSTANTS
  Frames,                 \* what the autopilot sends, see IsFrame
  MAVLINK_STX,            \* 253: opens a frame of version 2
  MAVLINK_STX_MAVLINK1,   \* 254: of version 1
  MaxByte,                \* 255
  SIGNATURE_BLOCK_LEN,    \* 13
  MaxFrames, MaxGaps      \* bounds: frames sent, runs of bytes lost

Byte == 0..MaxByte
MAVLINK_IFLAG_SIGNED == 1

IsFrame(f) ==
  /\ {f.v2, f.signed} \subseteq BOOLEAN /\ (f.signed => f.v2)
  /\ {f.seq, f.msgid, Len(f.payload)} \subseteq Byte
  /\ f.payload \in Seq(Byte) /\ f.ck \in Byte \X Byte

\* What the checksum covers, and the frame on the wire.
Covered(f) ==
  (IF f.v2
     THEN <<Len(f.payload), IF f.signed THEN MAVLINK_IFLAG_SIGNED ELSE 0, 0,
            f.seq, 1, 1, f.msgid, 0, 0>>
     ELSE <<Len(f.payload), f.seq, 1, 1, f.msgid>>) \o f.payload
Bytes(f) ==
  <<IF f.v2 THEN MAVLINK_STX ELSE MAVLINK_STX_MAVLINK1>> \o Covered(f) \o f.ck
    \o (IF f.signed THEN [i \in 1..SIGNATURE_BLOCK_LEN |-> 0] ELSE <<>>)

ASSUME FramingAssumption ==
  /\ MaxByte \in Nat
  /\ {MAVLINK_STX, MAVLINK_STX_MAVLINK1} \subseteq Byte \ {0, 1}
  /\ MAVLINK_STX # MAVLINK_STX_MAVLINK1
  /\ SIGNATURE_BLOCK_LEN \in Nat \ {0}
  /\ Frames # {} /\ \A f \in Frames : IsFrame(f)
  /\ \A f, g \in Frames : Covered(f) = Covered(g) => f = g

VARIABLES
  \* the parser: status and buffer of MAVLINK_COMM_0
  parse_state, in_mavlink1, msg_received,
  len, incompat_flags, packet_idx, signature_wait,
  checksum,        \* the bytes it was computed over
  message,         \* what the frame just taken gives to queue, the rest of it
  \* the stream
  frame, pos,      \* the frame being sent, and how many bytes of it are gone
  sent, gaps,      \* frames begun, runs of bytes lost
  losing,          \* the byte before was lost
  \* histories
  whole,           \* no byte of the frame was lost
  idle_at_start,   \* the parser was idle when the frame began
  clean,           \* bytes since one was lost or looked like a beginning
  clean_at_start   \* the same when the frame began

parserVars == <<parse_state, in_mavlink1, msg_received, len, incompat_flags,
                packet_idx, signature_wait, checksum, message>>
streamVars == <<frame, pos, sent, gaps, losing, whole, idle_at_start, clean,
                clean_at_start>>

FramingInit ==
  /\ parse_state = "IDLE" /\ in_mavlink1 = FALSE /\ msg_received = FALSE
  /\ len = 0 /\ incompat_flags = 0 /\ packet_idx = 0 /\ signature_wait = 0
  /\ checksum = <<>> /\ message = <<>>
  /\ frame = (CHOOSE f \in Frames : TRUE) /\ pos = Len(Bytes(frame))
  /\ sent = 0 /\ gaps = 0 /\ losing = FALSE
  /\ whole = FALSE /\ idle_at_start = FALSE /\ clean = 0 /\ clean_at_start = 0

-----------------------------------------------------------------------------
(***************************************************************************)
(* mavlink_frame_char_buffer, one action per parse state, with what        *)
(* mavlink_parse_char does about a bad checksum.                           *)
(***************************************************************************)
IsStx(c) == c \in {MAVLINK_STX, MAVLINK_STX_MAVLINK1}

\* A beginning sets the version or clears it; mutant: it is never cleared.
VersionKept(c) == in_mavlink1 \/ c = MAVLINK_STX_MAVLINK1
VersionOf(c) == c = MAVLINK_STX_MAVLINK1

Idle(c) ==
  /\ parse_state = "IDLE"
  /\ IF IsStx(c)
       THEN /\ parse_state' = "GOT_STX" /\ len' = 0 /\ checksum' = <<>>
            /\ in_mavlink1' = VersionOf(c)
       ELSE UNCHANGED <<parse_state, len, checksum, in_mavlink1>>
  /\ msg_received' = FALSE
  /\ UNCHANGED <<incompat_flags, packet_idx, signature_wait, message>>

GotStx(c) ==
  /\ parse_state = "GOT_STX"
  /\ len' = c /\ packet_idx' = 0 /\ checksum' = Append(checksum, c)
  /\ IF in_mavlink1
       THEN incompat_flags' = 0 /\ parse_state' = "GOT_COMPAT_FLAGS"
       ELSE parse_state' = "GOT_LENGTH" /\ UNCHANGED incompat_flags
  /\ msg_received' = FALSE
  /\ UNCHANGED <<in_mavlink1, signature_wait, message>>

\* An unknown flag ends the frame, also when it is the next one's beginning.
GotLength(c) ==
  /\ parse_state = "GOT_LENGTH"
  /\ incompat_flags' = c
  /\ IF c \in {0, MAVLINK_IFLAG_SIGNED}
       THEN parse_state' = "GOT_INCOMPAT_FLAGS" /\ checksum' = Append(checksum, c)
       ELSE parse_state' = "IDLE" /\ UNCHANGED checksum
  /\ msg_received' = FALSE
  /\ UNCHANGED <<in_mavlink1, len, packet_idx, signature_wait, message>>

\* The header bytes that are only stored, and the state each leads to; the
\* last one of the header leads to the payload, if there is any.
Follows ==
  [GOT_INCOMPAT_FLAGS |-> "GOT_COMPAT_FLAGS", GOT_COMPAT_FLAGS |-> "GOT_SEQ",
   GOT_SEQ |-> "GOT_SYSID", GOT_SYSID |-> "GOT_COMPID",
   GOT_COMPID |-> "GOT_MSGID1", GOT_MSGID1 |-> "GOT_MSGID2"]
LastHeaderByte ==
  \/ parse_state = "GOT_MSGID2"
  \/ parse_state = "GOT_COMPID" /\ in_mavlink1

GotHeaderByte(c) ==
  /\ parse_state \in DOMAIN Follows \cup {"GOT_MSGID2"}
  /\ parse_state' = IF ~LastHeaderByte THEN Follows[parse_state]
                    ELSE IF len > 0 THEN "GOT_MSGID3" ELSE "GOT_PAYLOAD"
  /\ checksum' = Append(checksum, c)
  /\ msg_received' = FALSE
  /\ UNCHANGED <<in_mavlink1, len, incompat_flags, packet_idx, signature_wait,
                 message>>

GotPayloadByte(c) ==
  /\ parse_state = "GOT_MSGID3"
  /\ packet_idx' = packet_idx + 1 /\ checksum' = Append(checksum, c)
  /\ parse_state' = IF packet_idx' = len THEN "GOT_PAYLOAD" ELSE "GOT_MSGID3"
  /\ msg_received' = FALSE
  /\ UNCHANGED <<in_mavlink1, len, incompat_flags, signature_wait, message>>

Matches == {f \in Frames : Covered(f) = checksum}

GotChecksum1(c) ==
  /\ parse_state = "GOT_PAYLOAD"
  /\ parse_state' = IF \E f \in Matches : f.ck[1] = c THEN "GOT_CRC1"
                                                      ELSE "GOT_BAD_CRC1"
  /\ msg_received' = FALSE
  /\ UNCHANGED <<in_mavlink1, len, incompat_flags, packet_idx, signature_wait,
                 checksum, message>>

\* The message goes to the caller, and the caller's to its queue.
Complete ==
  /\ parse_state' = "IDLE" /\ msg_received' = TRUE
  /\ message' = (CHOOSE f \in Matches : TRUE).items

\* After a bad checksum the parser starts again; the last byte may open a frame
\* of version 2, but whichever version was read before is read again.
RestartUnasked(c) == parse_state' = "GOT_STX"
Restart(c) ==
  parse_state' = IF c = MAVLINK_STX THEN "GOT_STX" ELSE "IDLE"

BadChecksum(c) ==
  /\ Restart(c)
  /\ IF c = MAVLINK_STX THEN len' = 0 /\ checksum' = <<>>
                        ELSE UNCHANGED <<len, checksum>>
  /\ msg_received' = FALSE
  /\ UNCHANGED message

GotChecksum2(c) ==
  /\ parse_state \in {"GOT_CRC1", "GOT_BAD_CRC1"}
  /\ signature_wait' = IF incompat_flags = MAVLINK_IFLAG_SIGNED
                         THEN SIGNATURE_BLOCK_LEN ELSE signature_wait
  /\ IF parse_state = "GOT_BAD_CRC1" \/ \A f \in Matches : f.ck[2] # c
       THEN BadChecksum(c)
       ELSE /\ IF incompat_flags = MAVLINK_IFLAG_SIGNED
                 THEN /\ parse_state' = "SIGNATURE_WAIT" /\ msg_received' = FALSE
                      /\ UNCHANGED message
                 ELSE Complete
            /\ UNCHANGED <<len, checksum>>
  /\ UNCHANGED <<in_mavlink1, incompat_flags, packet_idx>>

\* signing is NULL: every signature passes.
GotSignatureByte(c) ==
  /\ parse_state = "SIGNATURE_WAIT"
  /\ signature_wait' = signature_wait - 1
  /\ IF signature_wait' = 0
       THEN Complete
       ELSE msg_received' = FALSE /\ UNCHANGED <<parse_state, message>>
  /\ UNCHANGED <<in_mavlink1, len, incompat_flags, packet_idx, checksum>>

ParseChar(c) ==
  \/ Idle(c) \/ GotStx(c) \/ GotLength(c) \/ GotHeaderByte(c)
  \/ GotPayloadByte(c) \/ GotChecksum1(c) \/ GotChecksum2(c)
  \/ GotSignatureByte(c)

-----------------------------------------------------------------------------
(***************************************************************************)
(* The stream of frames.                                                   *)
(***************************************************************************)
\* The longest stretch a frame cut short can take with it: it was lost from its
\* length on, and the next byte, whatever it is, is taken for the length; should
\* the checksum be right by what a payload holds, a signature is waited for.
Horizon == 11 + MaxByte + SIGNATURE_BLOCK_LEN

BeginFrame(f) ==
  /\ pos = Len(Bytes(frame)) /\ sent < MaxFrames
  /\ frame' = f /\ pos' = 0 /\ sent' = sent + 1
  /\ whole' = TRUE /\ idle_at_start' = (parse_state = "IDLE")
  /\ clean_at_start' = clean
  /\ UNCHANGED <<parserVars, gaps, losing, clean>>

LoseByte ==
  /\ pos < Len(Bytes(frame))
  /\ losing \/ gaps < MaxGaps
  /\ gaps' = IF losing THEN gaps ELSE gaps + 1
  /\ losing' = TRUE /\ whole' = FALSE /\ clean' = 0
  /\ pos' = pos + 1
  /\ UNCHANGED <<parserVars, frame, sent, idle_at_start, clean_at_start>>

\* The next byte arrives; the thread takes it when it is not waiting for room
\* in the queue.
ReceiveByte ==
  /\ pos < Len(Bytes(frame)) /\ message = <<>>
  /\ LET c == Bytes(frame)[pos + 1]
     IN  /\ ParseChar(c)
         /\ clean' = IF pos > 0 /\ IsStx(c) THEN 0
                     ELSE IF clean < Horizon THEN clean + 1 ELSE clean
  /\ pos' = pos + 1 /\ losing' = FALSE
  /\ UNCHANGED <<frame, sent, gaps, whole, idle_at_start, clean_at_start>>

-----------------------------------------------------------------------------
FrameEnds == pos = Len(Bytes(frame)) /\ whole
Taken == msg_received /\ checksum = Covered(frame)

\* A frame that arrives whole while the parser is idle is taken, whatever was
\* parsed before: versions, signatures and frames cut short in any mixture
\* leave nothing behind that spoils it (mavlink_helpers.h:593).
WholeFrameIsTaken == FrameEnds /\ idle_at_start => Taken

\* A loss costs the frames that begin in the Horizon bytes behind it and no
\* others, unless one of them holds a byte that looks like a beginning: then
\* the count starts there (mavlink_helpers.h:990).
Resynchronises == FrameEnds /\ clean_at_start >= Horizon => Taken
=============================================================================
