---------------------------- MODULE PipelinesProofs ----------------------------
(***************************************************************************)
(* Proofs about Pipelines for every set of frame sizes and limits, every   *)
(* size of a header, a word and a sequence number, and any number of lives *)
(* of vdec.  The start-ups and clean-ups are lists of the code, the same   *)
(* for every value of the constants: what is said of their places is       *)
(* proved of the lists as they stand.                                      *)
(***************************************************************************)
EXTENDS Pipelines, SequenceTheorems, TLAPS

USE PipelinesAssumption

\* Where each main may be, and that a failure ends the start-up.
EndShape ==
  /\ platform \in {"star6e", "venc", "vdec"}
  /\ platform # "star6e" => phase \notin {"send", "release"}
  /\ phase \notin {"cleanup", "exited", "killed"} => failed = "none"
  /\ platform = "venc" /\ phase = "cleanup" => failed = "none"
  /\ phase \in {"cleanup", "exited"} /\ failed \notin {"none", "socket"} => ret = 1

LEMMA EndHolds == Spec => []EndShape
<1>1. Init => EndShape
  BY DEF Init, Star6e!Init, Venc!Init, Vdec!Init, EndShape
<1>2. EndShape /\ [Next]_vars => EndShape'
  <2>1. SUFFICES ASSUME EndShape, [Next]_vars PROVE EndShape'
    OBVIOUS
  <2>2. CASE platform = "star6e" /\ Star6e!Main /\ UNCHANGED platform
    <3>1. CASE Star6e!CallSucceeds
      BY <2>1, <2>2, <3>1 DEF Star6e!CallSucceeds, EndShape
    <3>2. CASE Star6e!CallFails
      BY <2>1, <2>2, <3>2 DEF Star6e!CallFails, Star6e!ResultOf, EndShape
    <3>3. CASE Star6e!GetStream \/ Star6e!GetStreamFails
      BY <2>1, <2>2, <3>3 DEF Star6e!GetStream, Star6e!GetStreamFails,
         Star6e!LoopGoesOn, EndShape
    <3>4. CASE Star6e!SendWhole \/ Star6e!SendFragment \/ Star6e!ReleaseStream
      BY <2>1, <2>2, <3>4 DEF Star6e!SendWhole, Star6e!SendFragment,
         Star6e!ReleaseStream, EndShape
    <3>5. CASE Star6e!CloseSocket
      BY <2>1, <2>2, <3>5 DEF Star6e!CloseSocket, Star6e!LoopEnds, EndShape
    <3>6. CASE Star6e!CleanUpCall
      BY <2>1, <2>2, <3>6 DEF Star6e!CleanUpCall, EndShape
    <3>7. QED BY <2>2, <3>1, <3>2, <3>3, <3>4, <3>5, <3>6 DEF Star6e!Main
  <2>3. CASE platform = "venc" /\ Venc!Main /\ UNCHANGED platform
    <3>1. CASE Venc!CallSucceeds \/ Venc!SkipOption \/ Venc!CallFailsUnseen
      BY <2>1, <2>3, <3>1 DEF Venc!CallSucceeds, Venc!SkipOption,
         Venc!CallFailsUnseen, Venc!GoOn, EndShape
    <3>2. CASE Venc!CallFails \/ Venc!LoopEnds
      BY <2>1, <2>3, <3>2 DEF Venc!CallFails, Venc!LoopEnds, EndShape
    <3>3. CASE Venc!CleanUpCall
      BY <2>1, <2>3, <3>3 DEF Venc!CleanUpCall, EndShape
    <3>4. QED BY <2>3, <3>1, <3>2, <3>3 DEF Venc!Main
  <2>4. CASE platform = "vdec" /\ Vdec!Main /\ UNCHANGED platform
    <3>1. CASE Vdec!ResetCall
      BY <2>1, <2>4, <3>1 DEF Vdec!ResetCall, EndShape
    <3>2. CASE Vdec!CallSucceeds \/ Vdec!SkipOption
      BY <2>1, <2>4, <3>2 DEF Vdec!CallSucceeds, Vdec!SkipOption, Vdec!GoOn, EndShape
    <3>3. CASE Vdec!CallFailsUnseen \/ Vdec!CallFails
      BY <2>1, <2>4, <3>3 DEF Vdec!CallFailsUnseen, Vdec!CallFails, EndShape
    <3>4. QED BY <2>4, <3>1, <3>2, <3>3 DEF Vdec!Main
  <2>5. CASE Signal
    BY <2>1, <2>5 DEF Signal, Star6e!Interrupt, Venc!Interrupt, Venc!Killed,
       Vdec!Killed, Vdec!Restart, EndShape
  <2>6. CASE UNCHANGED vars
    BY <2>1, <2>6 DEF vars, EndShape
  <2>7. QED
    BY <2>1, <2>2, <2>3, <2>4, <2>5, <2>6 DEF Next, Main, Receives, Ended
<1>3. QED BY <1>1, <1>2, PTL DEF Spec

\* Whichever main it is and whichever call failed, the process reports it,
\* unless it was Star6E's socket.
THEOREM FailuresAreReported == Spec => []FailureIsReported
<1>1. EndShape => FailureIsReported
  BY DEF EndShape, FailureIsReported
<1>2. QED BY <1>1, EndHolds, PTL

-----------------------------------------------------------------------------
(***************************************************************************)
(* A frame of Star6E's encoder and the datagrams it is sent in.            *)
(***************************************************************************)
Datagrams == [header : BOOLEAN, sequence : Nat, marker : BOOLEAN, from : Nat, to : Nat]

FrameType ==
  /\ max_frame_size \in MaxFrameSizes
  /\ phase \in {"send", "release"} =>
       /\ frame.size \in FrameSizes /\ frame.sequence \in Nat
       /\ frame.marker \in BOOLEAN
       /\ offset \in Nat /\ datagrams \in Seq(Datagrams)

\* The i-th datagram of a frame that is cut, the next one at or after it.
Piece(d, i) ==
  /\ d.from < d.to
  /\ (d.to - d.from) + HeaderSize <= max_frame_size \/ max_frame_size < HeaderSize
  /\ d.sequence = (frame.sequence + i - 1) % SequenceSize

\* What is still to be sent, and what has been, up to the offset.
SendingShape ==
  phase = "send" =>
    /\ datagrams = <<>> => offset = 0
    /\ offset < frame.size - HeaderSize
    /\ frame.size <= max_frame_size => datagrams = <<>>
    /\ \A i \in 1..Len(datagrams) : ~datagrams[i].marker
PiecesShape ==
  phase \in {"send", "release"} /\ frame.size > max_frame_size =>
    LET k == Len(datagrams) IN
    /\ k > 0 => datagrams[1].from = HeaderSize
    /\ k > 0 => datagrams[k].to = HeaderSize + offset
    /\ \A i \in 1..k : Piece(datagrams[i], i)
    /\ \A i \in 1..(k - 1) : /\ datagrams[i].to = datagrams[i + 1].from
                             /\ ~datagrams[i].marker
LastShape ==
  phase = "release" /\ frame.size > max_frame_size =>
    /\ Len(datagrams) > 0 /\ HeaderSize + offset = frame.size
    /\ datagrams[Len(datagrams)].marker <=> frame.marker
WholeShape ==
  phase = "release" /\ frame.size <= max_frame_size =>
    Len(datagrams) = 1 /\ datagrams[1].from = 0 /\ datagrams[1].to = frame.size

CutShape == SendingShape /\ PiecesShape /\ LastShape /\ WholeShape

SendShape == platform = "star6e" => FrameType /\ CutShape

LEMMA SizesAre ==
  /\ HeaderSize \in Nat \ {0} /\ SequenceSize \in Nat \ {0} /\ WordSize \in Nat \ {0}
  /\ \A n \in FrameSizes : n \in Nat /\ n > HeaderSize
  /\ \A n \in MaxFrameSizes : n \in Nat /\ n # HeaderSize
  /\ \A n \in FrameSizes \cup MaxFrameSizes : WordSize - HeaderSize > n
OBVIOUS

\* unsigned arithmetic: a limit below the header leaves room for everything.
LEMMA RoomIs ==
  ASSUME max_frame_size \in MaxFrameSizes, NEW size \in FrameSizes
  PROVE  /\ max_frame_size > HeaderSize =>
              Star6e!Room = max_frame_size - HeaderSize
         /\ max_frame_size < HeaderSize => Star6e!Room > size
         /\ Star6e!Room \in Nat \ {0}
<1>1. PICK m \in Nat : m = max_frame_size /\ m # HeaderSize /\ WordSize - HeaderSize > m
  BY SizesAre
<1>2. size \in Nat /\ size > HeaderSize /\ WordSize - HeaderSize > size
  BY SizesAre
<1>3. CASE m > HeaderSize
  <2>1. m - HeaderSize \in 0..(WordSize - 1)
    BY <1>1, <1>3, SizesAre
  <2>2. (m - HeaderSize) % WordSize = m - HeaderSize
    BY <2>1, SizesAre
  <2>3. QED BY <1>1, <1>3, <2>2, SizesAre DEF Star6e!Room
<1>4. CASE m < HeaderSize
  <2>1. m - HeaderSize < 0 /\ (m - HeaderSize) + WordSize > size
    BY <1>1, <1>2, <1>4, SizesAre
  <2>2. (m - HeaderSize) % WordSize = (m - HeaderSize) + WordSize
    BY <1>1, <1>2, <2>1, SizesAre
  <2>3. QED BY <1>1, <1>2, <1>4, <2>1, <2>2, SizesAre DEF Star6e!Room
<1>5. QED BY <1>1, <1>3, <1>4, SizesAre

\* A fragment is never empty, fits, and does not go beyond the end.
LEMMA FragmentIs ==
  ASSUME FrameType, CutShape, phase = "send"
  PROVE  /\ Star6e!PayloadSize = frame.size - HeaderSize
         /\ Star6e!PayloadSize \in Nat /\ Star6e!FragmentSize \in Nat \ {0}
         /\ offset + Star6e!FragmentSize <= Star6e!PayloadSize
         /\ \/ Star6e!FragmentSize + HeaderSize <= max_frame_size
            \/ max_frame_size < HeaderSize
<1>1. /\ frame.size \in Nat /\ frame.size > HeaderSize /\ offset \in Nat
      /\ offset < frame.size - HeaderSize /\ frame.size \in FrameSizes
  BY SizesAre DEF FrameType, CutShape, SendingShape
<1>2. PICK m \in Nat : m = max_frame_size /\ m # HeaderSize
  BY SizesAre DEF FrameType
<1>3. PICK r \in Nat \ {0} :
        r = Star6e!Room /\ (m > HeaderSize => r = m - HeaderSize)
  BY <1>1, <1>2, RoomIs DEF FrameType
<1>4. PICK p \in Nat : p = Star6e!PayloadSize /\ p = frame.size - HeaderSize
  BY <1>1, SizesAre DEF Star6e!PayloadSize
<1>5. PICK f \in Nat \ {0} : /\ f = Star6e!FragmentSize
                             /\ f = IF r < p - offset THEN r ELSE p - offset
  BY <1>1, <1>3, <1>4 DEF Star6e!FragmentSize
<1>6. offset + f <= p /\ (f + HeaderSize <= m \/ m < HeaderSize)
  BY <1>1, <1>2, <1>3, <1>4, <1>5, SizesAre
<1>7. QED BY <1>2, <1>4, <1>5, <1>6

\* One more datagram of a frame that is cut, the last one or not.
LEMMA FragmentKeeps ==
  ASSUME FrameType, CutShape, Star6e!SendFragment
  PROVE  FrameType' /\ CutShape'
<1>1. PICK F \in Nat \ {0}, P \in Nat :
        /\ F = Star6e!FragmentSize /\ P = Star6e!PayloadSize
        /\ P = frame.size - HeaderSize /\ offset + F <= P
        /\ F + HeaderSize <= max_frame_size \/ max_frame_size < HeaderSize
  BY FragmentIs DEF Star6e!SendFragment
<1>2. /\ phase = "send" /\ frame' = frame /\ max_frame_size' = max_frame_size
      /\ ~(frame.size <= max_frame_size) /\ offset' = offset + F
      /\ phase' = IF offset' < P THEN "send" ELSE "release"
  BY <1>1 DEF Star6e!SendFragment, Star6e!Fits
<1>3. /\ frame.size \in Nat /\ frame.size \in FrameSizes /\ frame.sequence \in Nat
      /\ frame.marker \in BOOLEAN /\ offset \in Nat /\ datagrams \in Seq(Datagrams)
      /\ max_frame_size \in MaxFrameSizes /\ max_frame_size \in Nat
      /\ frame.size > max_frame_size
  <2>1. /\ frame.size \in FrameSizes /\ frame.sequence \in Nat
        /\ offset \in Nat /\ datagrams \in Seq(Datagrams)
        /\ max_frame_size \in MaxFrameSizes
    BY <1>2 DEF FrameType
  <2>2. frame.marker \in BOOLEAN
    BY <1>2, Zenon DEF FrameType
  <2>3. frame.size \in Nat /\ max_frame_size \in Nat
    BY <2>1, SizesAre
  <2>4. QED BY <1>2, <2>1, <2>2, <2>3
<1>4. PICK D \in Seq(Datagrams), k \in Nat : D = datagrams /\ k = Len(datagrams)
  BY <1>3, LenProperties
<1>5. PICK b \in BOOLEAN : /\ b = (frame.marker /\ offset + F >= P)
                           /\ offset + F < P => ~b
                           /\ ~(offset + F < P) => (b <=> frame.marker)
  <2>1. PICK m \in BOOLEAN : m = frame.marker
    BY <1>3, Zenon
  <2>2. (offset + F >= P) <=> ~(offset + F < P)
    <3>1. \A x \in Int, y \in Int : (x >= y) <=> ~(x < y)
      OBVIOUS
    <3>2. offset + F \in Int /\ P \in Int
      BY <1>1, <1>3
    <3>3. QED BY <3>1, <3>2
  <2>3. (m /\ offset + F >= P) \in BOOLEAN
    BY Zenon
  <2>4. QED BY <2>1, <2>2, <2>3, Zenon
<1>6. PICK q \in Nat : q = (frame.sequence + k) % SequenceSize
  BY <1>3, SizesAre
<1>7. PICK d \in Datagrams :
        /\ d = [header |-> TRUE, sequence |-> q, marker |-> b,
                from |-> HeaderSize + offset, to |-> HeaderSize + offset + F]
        /\ d.sequence = q /\ d.marker = b
        /\ d.from = HeaderSize + offset /\ d.to = (HeaderSize + offset) + F
  <2>1. /\ HeaderSize + offset \in Nat /\ HeaderSize + offset + F \in Nat
        /\ HeaderSize + offset + F = (HeaderSize + offset) + F
    BY <1>1, <1>3, SizesAre
  <2>2. PICK d : d = [header |-> TRUE, sequence |-> q, marker |-> b,
                      from |-> HeaderSize + offset, to |-> HeaderSize + offset + F]
    OBVIOUS
  <2>3. d \in Datagrams
    BY <2>1, <2>2 DEF Datagrams
  <2>4. /\ d.sequence = q /\ d.from = HeaderSize + offset
        /\ d.to = HeaderSize + offset + F
    BY <2>2
  <2>5. d.marker = b
    BY <2>2, Zenon
  <2>6. QED BY <2>1, <2>2, <2>3, <2>4, <2>5, Zenon
<1>8. datagrams' = Append(D, d)
  BY <1>1, <1>4, <1>5, <1>6, <1>7 DEF Star6e!SendFragment
<1>9. PICK E \in Seq(Datagrams) : E = Append(D, d) /\ E = datagrams'
  BY <1>8, AppendProperties
<1>10. /\ Len(E) = k + 1 /\ E[k + 1] = d
       /\ \A i \in 1..k : E[i] = D[i]
  <2>1. /\ Len(Append(D, d)) = Len(D) + 1 /\ Append(D, d)[Len(D) + 1] = d
        /\ \A i \in 1..Len(D) : Append(D, d)[i] = D[i]
    BY AppendProperties
  <2>2. QED BY <1>4, <1>9, <2>1
<1>11. FrameType'
  BY <1>2, <1>3, <1>9, <1>1 DEF FrameType
<1>12. Piece(d, k + 1)
  <2>1. d.from < d.to /\ d.to - d.from = F
    BY <1>1, <1>3, <1>7, SizesAre
  <2>2. frame.sequence + (k + 1) - 1 = frame.sequence + k
    BY <1>3
  <2>3. d.sequence = (frame.sequence + (k + 1) - 1) % SequenceSize
    BY <1>6, <1>7, <2>2
  <2>4. QED BY <1>1, <2>1, <2>3 DEF Piece
<1>13. /\ k > 0 => D[1].from = HeaderSize /\ D[k].to = HeaderSize + offset
       /\ \A i \in 1..k : Piece(D[i], i) /\ ~D[i].marker
       /\ \A i \in 1..(k - 1) : D[i].to = D[i + 1].from
       /\ k = 0 => offset = 0
  <2>1. k = 0 => datagrams = <<>>
    BY <1>3, <1>4, EmptySeq
  <2>2. /\ k > 0 => D[1].from = HeaderSize /\ D[k].to = HeaderSize + offset
        /\ \A i \in 1..k : Piece(D[i], i)
        /\ \A i \in 1..(k - 1) : D[i].to = D[i + 1].from
    BY <1>2, <1>3, <1>4 DEF CutShape, PiecesShape
  <2>3. /\ \A i \in 1..k : ~D[i].marker
        /\ k = 0 => offset = 0
    BY <1>2, <1>4, <2>1 DEF CutShape, SendingShape
  <2>4. QED BY <2>2, <2>3
<1>14. E[1].from = HeaderSize
  <2>1. CASE k = 0
    BY <1>7, <1>10, <1>13, <2>1, SizesAre
  <2>2. CASE k > 0
    BY <1>10, <1>13, <2>2
  <2>3. QED BY <2>1, <2>2
<1>15. E[k + 1].to = HeaderSize + offset'
  BY <1>1, <1>2, <1>3, <1>7, <1>10, SizesAre
<1>16. ASSUME NEW i \in 1..(k + 1)
       PROVE  Piece(E[i], i)
  <2>1. CASE i = k + 1
    BY <1>10, <1>12, <2>1
  <2>2. CASE i \in 1..k
    BY <1>10, <1>13, <2>2
  <2>3. QED BY <2>1, <2>2
<1>17. ASSUME NEW i \in 1..k
       PROVE  E[i].to = E[i + 1].from /\ ~E[i].marker
  <2>1. ~E[i].marker
    BY <1>10, <1>13
  <2>2. CASE i = k
    BY <1>7, <1>10, <1>13, <2>2
  <2>3. CASE i \in 1..(k - 1)
    <3>1. i + 1 \in 1..k
      BY <2>3
    <3>2. QED BY <1>10, <1>13, <2>1, <2>3, <3>1
  <2>4. QED BY <2>1, <2>2, <2>3
<1>18. \A i \in 1..(k + 1) :
         /\ E[i].from < E[i].to
         /\ \/ (E[i].to - E[i].from) + HeaderSize <= max_frame_size'
            \/ max_frame_size' < HeaderSize
         /\ E[i].sequence = (frame.sequence + i - 1) % SequenceSize
  BY <1>2, <1>16 DEF Piece
<1>19. PiecesShape'
  <2>1. /\ E[1].from = HeaderSize /\ E[Len(E)].to = HeaderSize + offset'
        /\ \A i \in 1..(Len(E) - 1) : E[i].to = E[i + 1].from /\ ~E[i].marker
    BY <1>10, <1>14, <1>15, <1>17
  <2>2. QED BY <1>2, <1>9, <1>10, <1>18, <2>1 DEF PiecesShape, Piece
<1>20. WholeShape'
  BY <1>2 DEF WholeShape
<1>21. CASE offset' < P
  <2>1. phase' = "send" /\ ~E[k + 1].marker
    BY <1>2, <1>5, <1>7, <1>10, <1>21
  <2>2. \A i \in 1..Len(E) : ~E[i].marker
    <3>1. \A i \in 1..(k + 1) : i = k + 1 \/ i \in 1..k
      BY <1>4
    <3>2. QED BY <1>10, <1>17, <2>1, <3>1
  <2>3. E # <<>>
    BY <1>10
  <2>4. SendingShape'
    BY <1>1, <1>2, <1>9, <1>21, <2>1, <2>2, <2>3 DEF SendingShape
  <2>5. LastShape'
    BY <2>1 DEF LastShape
  <2>6. QED BY <1>11, <1>19, <1>20, <2>4, <2>5 DEF CutShape
<1>22. CASE ~(offset' < P)
  <2>1. phase' = "release" /\ (E[k + 1].marker <=> frame.marker)
    BY <1>2, <1>5, <1>7, <1>10, <1>22
  <2>2. HeaderSize + offset' = frame.size
    <3>1. PICK o \in Nat : o = offset' /\ o = offset + F
      BY <1>1, <1>2, <1>3
    <3>2. ~(o < P) /\ o <= P
      BY <1>1, <1>22, <3>1
    <3>3. PICK z \in Nat : z = frame.size /\ P = z - HeaderSize
      BY <1>1, <1>3
    <3>4. HeaderSize + o = z
      BY <3>2, <3>3, SizesAre
    <3>5. QED BY <3>1, <3>3, <3>4
  <2>3. PICK j : j = Len(E) /\ j = k + 1 /\ j > 0
    BY <1>10
  <2>4. LastShape'
    BY <1>2, <1>9, <2>1, <2>2, <2>3 DEF LastShape
  <2>5. SendingShape'
    BY <2>1 DEF SendingShape
  <2>6. QED BY <1>11, <1>19, <1>20, <2>4, <2>5 DEF CutShape
<1>23. QED BY <1>21, <1>22

\* Outside of the sending of a frame there is only the limit.
LEMMA QuietKeeps ==
  ASSUME FrameType, max_frame_size' = max_frame_size,
         phase' \notin {"send", "release"}
  PROVE  FrameType' /\ CutShape'
BY DEF FrameType, CutShape, SendingShape, PiecesShape, LastShape, WholeShape

\* A frame that has come: it is longer than the header, and nothing is sent.
LEMMA ComingKeeps ==
  ASSUME FrameType, Star6e!GetStream
  PROVE  FrameType' /\ CutShape'
<1>1. PICK size \in FrameSizes, sequence \in {0, SequenceSize - 1}, marker \in BOOLEAN :
        frame' = [size |-> size, sequence |-> sequence, marker |-> marker]
  BY DEF Star6e!GetStream
<1>2. /\ phase' = "send" /\ offset' = 0 /\ datagrams' = <<>>
      /\ max_frame_size' = max_frame_size
  BY DEF Star6e!GetStream
<1>3. /\ frame'.size = size /\ frame'.sequence = sequence
      /\ size \in Nat /\ size > HeaderSize /\ sequence \in Nat
  BY <1>1, SizesAre
<1>4. frame'.marker \in BOOLEAN
  BY <1>1, Zenon
<1>5. datagrams' \in Seq(Datagrams) /\ Len(datagrams') = 0
  BY <1>2
<1>6. FrameType'
  <2>1. max_frame_size' \in MaxFrameSizes /\ offset' \in Nat
    BY <1>2 DEF FrameType
  <2>2. QED BY <1>1, <1>3, <1>4, <1>5, <2>1, Zenon DEF FrameType
<1>7. SendingShape'
  BY <1>2, <1>3, <1>5, SizesAre DEF SendingShape
<1>8. PiecesShape'
  BY <1>2, <1>5 DEF PiecesShape
<1>9. LastShape' /\ WholeShape'
  BY <1>2 DEF LastShape, WholeShape
<1>10. QED BY <1>6, <1>7, <1>8, <1>9 DEF CutShape

\* A frame that fits is sent as it is.
LEMMA WholeKeeps ==
  ASSUME FrameType, CutShape, Star6e!SendWhole
  PROVE  FrameType' /\ CutShape'
<1>1. /\ phase = "send" /\ phase' = "release" /\ frame' = frame /\ offset' = offset
      /\ max_frame_size' = max_frame_size /\ frame.size <= max_frame_size
      /\ datagrams' = <<[header |-> FALSE, sequence |-> 0, marker |-> FALSE,
                         from |-> 0, to |-> frame.size]>>
  BY DEF Star6e!SendWhole, Star6e!Fits
<1>2. /\ frame.size \in Nat /\ max_frame_size \in Nat
      /\ frame.size \in FrameSizes /\ max_frame_size \in MaxFrameSizes
  BY <1>1, SizesAre DEF FrameType
<1>3. ~(frame.size > max_frame_size)
  BY <1>1, <1>2
<1>4. PICK d : d = [header |-> FALSE, sequence |-> 0, marker |-> FALSE,
                    from |-> 0, to |-> frame.size]
  OBVIOUS
<1>5. d \in Datagrams /\ d.from = 0 /\ d.to = frame.size
  BY <1>2, <1>4 DEF Datagrams
<1>6. /\ datagrams' = <<d>> /\ datagrams' \in Seq(Datagrams)
      /\ Len(datagrams') = 1 /\ datagrams'[1] = d
  BY <1>1, <1>4, <1>5
<1>7. FrameType'
  BY <1>1, <1>2, <1>6, Zenon DEF FrameType
<1>8. WholeShape'
  BY <1>1, <1>5, <1>6 DEF WholeShape
<1>9. SendingShape' /\ PiecesShape' /\ LastShape'
  BY <1>1, <1>3 DEF SendingShape, PiecesShape, LastShape
<1>10. QED BY <1>7, <1>8, <1>9 DEF CutShape

LEMMA SendHolds == Spec => []SendShape
<1>1. Init => SendShape
  <2>1. ASSUME Star6e!Init PROVE FrameType /\ CutShape
    BY <2>1 DEF Star6e!Init, FrameType, CutShape, SendingShape, PiecesShape,
       LastShape, WholeShape
  <2>2. QED BY <2>1 DEF Init, SendShape
<1>2. EndShape /\ SendShape /\ [Next]_vars => SendShape'
  <2>1. SUFFICES ASSUME EndShape, SendShape, [Next]_vars, platform' = "star6e"
                 PROVE  FrameType' /\ CutShape'
    BY DEF SendShape
  <2>2. platform = "star6e"
    BY <2>1 DEF Next, Main, Signal, Receives, Ended, vars
  <2>3. FrameType /\ CutShape
    BY <2>1, <2>2 DEF SendShape
  <2>4. CASE Star6e!Main
    <3>1. CASE Star6e!CallSucceeds
      BY <2>3, <3>1, QuietKeeps DEF Star6e!CallSucceeds, Star6e!sendVars
    <3>2. CASE Star6e!CallFails
      BY <2>3, <3>2, QuietKeeps DEF Star6e!CallFails, Star6e!sendVars
    <3>3. CASE Star6e!GetStream
      BY <2>3, <3>3, ComingKeeps
    <3>4. CASE Star6e!GetStreamFails
      BY <2>3, <3>4, QuietKeeps DEF Star6e!GetStreamFails, Star6e!LoopGoesOn,
         Star6e!sendVars
    <3>5. CASE Star6e!SendWhole
      BY <2>3, <3>5, WholeKeeps
    <3>6. CASE Star6e!SendFragment
      BY <2>3, <3>6, FragmentKeeps
    <3>7. CASE Star6e!ReleaseStream \/ Star6e!CloseSocket
      BY <2>3, <3>7, QuietKeeps DEF Star6e!ReleaseStream, Star6e!CloseSocket,
         Star6e!sendVars
    <3>8. CASE Star6e!CleanUpCall
      BY <2>3, <3>8, QuietKeeps DEF Star6e!CleanUpCall, Star6e!sendVars
    <3>9. QED
      BY <2>4, <3>1, <3>2, <3>3, <3>4, <3>5, <3>6, <3>7, <3>8 DEF Star6e!Main
  <2>5. ASSUME UNCHANGED <<phase, star6eVars>> PROVE FrameType' /\ CutShape'
    BY <2>3, <2>5 DEF star6eVars, FrameType, CutShape, SendingShape, PiecesShape,
       LastShape, WholeShape, Piece
  <2>6. Star6e!Main \/ UNCHANGED <<phase, star6eVars>>
    BY <2>1, <2>2 DEF Next, Main, Signal, Receives, Ended, vars, star6eVars,
       Star6e!Interrupt, Star6e!sendVars
  <2>7. QED BY <2>4, <2>5, <2>6
<1>3. QED BY <1>1, <1>2, EndHolds, PTL DEF Spec

\* Whatever the sizes and the limit, and wherever the signal comes, a frame is
\* sent before it is released, whole or in pieces that fit and lie side by side
\* behind its header.
THEOREM FrameIsSent == Spec => []StarFrameIsSent
<1>1. EndShape /\ SendShape => StarFrameIsSent
  <2>1. SUFFICES ASSUME EndShape, SendShape, phase = "release"
                 PROVE  StarFrameIsSent
    BY DEF StarFrameIsSent
  <2>2. FrameType /\ CutShape
    BY <2>1 DEF EndShape, SendShape
  <2>3. /\ frame.size \in Nat /\ max_frame_size \in Nat
        /\ frame.size \in FrameSizes
    BY <2>1, <2>2, SizesAre DEF FrameType
  <2>4. CASE frame.size <= max_frame_size
    BY <2>1, <2>2, <2>4 DEF CutShape, WholeShape, StarFrameIsSent
  <2>5. CASE ~(frame.size <= max_frame_size)
    <3>1. PICK k \in Nat : k = Len(datagrams) /\ k > 0
      BY <2>1, <2>2, <2>3, <2>5, LenProperties DEF FrameType, CutShape, LastShape
    <3>2. /\ datagrams[1].from = HeaderSize
          /\ datagrams[k].to = frame.size
          /\ \A i \in 1..k : Piece(datagrams[i], i)
          /\ \A i \in 1..(k - 1) : datagrams[i].to = datagrams[i + 1].from
      BY <2>1, <2>2, <2>3, <2>5, <3>1 DEF CutShape, PiecesShape, LastShape
    <3>3. /\ \A i \in 1..(k - 1) : ~datagrams[i].marker
          /\ datagrams[k].marker <=> frame.marker
      BY <2>1, <2>2, <2>3, <2>5, <3>1 DEF CutShape, PiecesShape, LastShape
    <3>4. ASSUME NEW i \in 1..k
          PROVE  /\ i < k => datagrams[i].to = datagrams[i + 1].from
                 /\ datagrams[i].marker <=> (frame.marker /\ i = k)
      <4>1. i = k \/ (i \in 1..(k - 1) /\ i # k)
        BY <3>1
      <4>2. i < k => i \in 1..(k - 1)
        BY <3>1
      <4>3. datagrams[i].marker <=> (frame.marker /\ i = k)
        BY <3>3, <4>1, Zenon
      <4>4. QED BY <3>2, <4>2, <4>3, Zenon
    <3>5. QED BY <2>5, <3>1, <3>2, <3>4 DEF StarFrameIsSent, Piece
  <2>6. QED BY <2>4, <2>5
<1>2. QED BY <1>1, EndHolds, SendHolds, PTL

-----------------------------------------------------------------------------
(***************************************************************************)
(* vdec: what a start-up that came as far as the receive loop has set up   *)
(* itself, whether the reset before it succeeded or not.                   *)
(***************************************************************************)

\* The calls of vdec are all different, and each is where it says.
LEMMA VdecStartUpIs ==
  /\ Len(Vdec!StartUp) = 30
  /\ \A i \in 1..30 : Vdec!Position(Vdec!StartUp[i]) = i
  /\ \A i \in 1..30 : Vdec!StartUp[i] = "osd" <=> i = 30
  /\ \A i \in 1..30 : Vdec!StartUp[i] = "sys" <=> i = 4
  /\ \A i \in 1..30 : Vdec!StartUp[i] = "vdec_pool_free" <=> i = 5
  /\ \A i \in 1..30 : Vdec!StartUp[i] = "vo_channel" => i = 20
  /\ \A i \in 1..30 : Vdec!StartUp[i] \in {"vdec_to_vo", "receiving"} => i > 24
  /\ Vdec!StartUp[7] = "vdec_pool" /\ Vdec!StartUp[16] = "frame_rate"
  /\ Vdec!StartUp[17] = "layer_attr" /\ Vdec!StartUp[18] = "layer"
  /\ Vdec!StartUp[20] = "vo_channel" /\ Vdec!StartUp[22] = "decoder"
  /\ Vdec!StartUp[25] = "vdec_to_vo" /\ Vdec!StartUp[26] = "receiving"
  /\ Vdec!Position("hdmi") = 12 /\ Vdec!Position("frame_rate") = 16
<1>1. PICK s : s = Vdec!StartUp
  OBVIOUS
<1>2. /\ Len(s) = 30 /\ DOMAIN s = 1..30 /\ s[12] = "hdmi" /\ s[16] = "frame_rate"
      /\ \A i \in 1..30 : s[i] = "osd" <=> i = 30
      /\ \A i \in 1..30 : s[i] = "sys" <=> i = 4
      /\ \A i \in 1..30 : s[i] = "vdec_pool_free" <=> i = 5
      /\ \A i \in 1..30 : s[i] = "vo_channel" => i = 20
      /\ \A i \in 1..30 : s[i] \in {"vdec_to_vo", "receiving"} => i > 24
  BY <1>1 DEF Vdec!StartUp
<1>3. \A i, j \in 1..30 : s[i] = s[j] => i = j
  BY <1>1 DEF Vdec!StartUp
<1>4. ASSUME NEW i \in 1..30
      PROVE  (CHOOSE j \in DOMAIN s : s[j] = s[i]) = i
  BY <1>2, <1>3
<1>5. \A i \in 1..30 : Vdec!Position(s[i]) = i
  BY <1>1, <1>4 DEF Vdec!Position
<1>6. Vdec!Position("hdmi") = 12 /\ Vdec!Position("frame_rate") = 16
  <2>1. 12 \in 1..30 /\ 16 \in 1..30
    OBVIOUS
  <2>2. QED BY <1>2, <1>5, <2>1
<1>7. /\ s[7] = "vdec_pool" /\ s[17] = "layer_attr" /\ s[18] = "layer"
      /\ s[20] = "vo_channel" /\ s[22] = "decoder" /\ s[25] = "vdec_to_vo"
      /\ s[26] = "receiving"
  BY <1>1 DEF Vdec!StartUp
<1>8. QED BY <1>1, <1>2, <1>5, <1>6, <1>7

\* A channel needs its layer, and what is bound or started its decoder; they
\* go together when the system is left.
Chained(h) ==
  /\ "vo_channel" \in h => "layer" \in h
  /\ "vdec_to_vo" \in h => "decoder" \in h
  /\ "receiving" \in h => "decoder" \in h

\* What is there before the n-th call, and is this life's: whatever a call
\* that is looked at has set up, or one that cannot be made without it.
OwnSetUp(h, old, n) ==
  /\ n > 5 => "vdec_pool" \notin old
  /\ n > 7 => {"vb", "vdec_pool"} \subseteq h
  /\ n > 16 => "vo_device" \in h
  /\ n > 17 => "layer" \notin old
  /\ n > 18 => "layer" \in h
  /\ n > 20 => "vo_channel" \in h
  /\ n > 22 => "decoder" \notin old /\ {"sys", "decoder"} \subseteq h
  /\ n > 25 => "vdec_to_vo" \in h
  /\ n > 26 => "receiving" \in h

VdecShape ==
  platform = "vdec" =>
    /\ stale \subseteq held /\ Chained(held) /\ Chained(stale)
    /\ phase = "reset" => step \in 1..4
    /\ phase = "start" => step \in 1..30 /\ OwnSetUp(held, stale, step)
    /\ phase = "loop" => OwnSetUp(held, stale, 31)

\* Giving the system back, or a pool, or the video buffer, or nothing, leaves
\* no channel without its layer.
LEMMA GivingBackKeeps ==
  ASSUME NEW h, NEW old, old \subseteq h, Chained(h), Chained(old),
         NEW c \in {"sys", "module_pools", "pools", "vb"},
         NEW g \in {h, h \ Vdec!GivesBack(c, h)}
  PROVE  /\ old \cap g \subseteq g /\ Chained(g) /\ Chained(old \cap g)
         /\ c = "vb" => h \ g \subseteq {"vb"}
<1>1. CASE g = h
  BY <1>1 DEF Chained
<1>2. CASE g = h \ Vdec!GivesBack(c, h) /\ c = "sys"
  <2>1. g \subseteq {"vb", "vdec_pool", "pool"}
    BY <1>2 DEF Vdec!GivesBack
  <2>2. QED BY <1>2, <2>1 DEF Chained
<1>3. CASE g = h \ Vdec!GivesBack(c, h) /\ c # "sys"
  <2>1. /\ Vdec!GivesBack(c, h) \subseteq {"vdec_pool", "pool", "vb"}
        /\ c = "vb" => Vdec!GivesBack(c, h) \subseteq {"vb"}
    BY <1>3 DEF Vdec!GivesBack
  <2>2. QED BY <1>3, <2>1 DEF Chained
<1>4. QED BY <1>1, <1>2, <1>3

LEMMA ResetKeeps ==
  ASSUME VdecShape, platform = "vdec", platform' = platform, Vdec!ResetCall
  PROVE  VdecShape'
<1>1. /\ Vdec!Reset[1] = "sys" /\ Vdec!Reset[2] = "module_pools"
      /\ Vdec!Reset[3] = "pools" /\ Vdec!Reset[4] = "vb" /\ Len(Vdec!Reset) = 4
  BY DEF Vdec!Reset
<1>2. PICK c : c = Vdec!Reset[step]
  OBVIOUS
<1>3. /\ phase = "reset" /\ step \in 1..4
      /\ held' \in {held, held \ Vdec!GivesBack(c, held)}
      /\ stale' = stale \cap held'
      /\ IF step = 4 THEN phase' = "start" /\ step' = 1
                     ELSE step' = step + 1 /\ phase' = phase
  BY <1>1, <1>2 DEF Vdec!ResetCall, Vdec!StaleStays, VdecShape
<1>4. c \in {"sys", "module_pools", "pools", "vb"}
  BY <1>1, <1>2, <1>3
<1>5. stale' \subseteq held' /\ Chained(held') /\ Chained(stale')
  <2>1. stale \subseteq held /\ Chained(held) /\ Chained(stale)
    BY DEF VdecShape
  <2>2. CASE held' = held
    BY <1>3, <2>1, <2>2 DEF Chained
  <2>3. CASE held' = held \ Vdec!GivesBack(c, held)
    <3>1. stale' = stale \cap held'
      BY <1>3
    <3>2. CASE c = "sys"
      BY <2>1, <2>3, <3>1, <3>2, GivingBackKeeps
    <3>3. CASE c = "module_pools"
      BY <2>1, <2>3, <3>1, <3>3, GivingBackKeeps
    <3>4. CASE c = "pools"
      BY <2>1, <2>3, <3>1, <3>4, GivingBackKeeps
    <3>5. CASE c = "vb"
      BY <2>1, <2>3, <3>1, <3>5, GivingBackKeeps
    <3>6. QED BY <1>4, <3>2, <3>3, <3>4, <3>5
  <2>4. QED BY <1>3, <2>2, <2>3
<1>6. OwnSetUp(held', stale', 1)
  BY DEF OwnSetUp
<1>7. QED BY <1>3, <1>5, <1>6 DEF VdecShape

\* A call that succeeds was not refused, and what it needed was there.
LEMMA CallGrows ==
  ASSUME VdecShape, platform = "vdec", step \in 1..30, phase = "start",
         Vdec!CallSucceeds
  PROVE  /\ stale' \subseteq held' /\ Chained(held') /\ Chained(stale')
         /\ OwnSetUp(held', stale', step + 1)
<1>1. PICK c : c = Vdec!Call /\ c = Vdec!StartUp[step]
  BY DEF Vdec!Call
<1>2. /\ stale \subseteq held /\ Chained(held) /\ Chained(stale)
      /\ OwnSetUp(held, stale, step)
  BY DEF VdecShape
<1>3. /\ stale' = stale \cap held'
      /\ Vdec!Needs(c) \subseteq held /\ Vdec!RefusedBy(c) \cap held = {}
      /\ held' = Vdec!SetUpBy(c)
  BY <1>1 DEF Vdec!CallSucceeds, Vdec!StaleStays
<1>4. /\ held' \subseteq held \cup {c} /\ held \ {"vdec_pool"} \subseteq held'
      /\ c # "vdec_pool_free" => held \subseteq held'
      /\ c = "vdec_pool_free" => held' = held \ {"vdec_pool"}
      /\ c \notin Vdec!Settings => c \in held'
      /\ c \in Vdec!Settings => held' \subseteq held
  BY <1>3 DEF Vdec!SetUpBy, Vdec!Settings
<1>5. stale' \subseteq held' /\ stale' \subseteq stale /\ stale \ {"vdec_pool"} \subseteq stale'
  BY <1>2, <1>3, <1>4
<1>6. Chained(held') /\ Chained(stale')
  <2>1. c = "vo_channel" => "layer" \in held
    BY <1>3 DEF Vdec!Needs
  <2>2. c \in {"vdec_to_vo", "receiving"} => "decoder" \in held
    <3>1. c \in {"vdec_to_vo", "receiving"} => step > 24
      BY <1>1, VdecStartUpIs
    <3>2. QED BY <1>2, <3>1 DEF OwnSetUp
  <2>3. "vo_channel" \in held' => "layer" \in held'
    BY <1>2, <1>4, <2>1 DEF Chained
  <2>4. "vdec_to_vo" \in held' \/ "receiving" \in held' => "decoder" \in held'
    BY <1>2, <1>4, <2>2 DEF Chained
  <2>5. Chained(stale')
    BY <1>2, <1>5 DEF Chained
  <2>6. QED BY <2>3, <2>4, <2>5 DEF Chained
<1>7. \A p \in 1..30 : step + 1 > p => step > p \/ step = p
  OBVIOUS
<1>8. /\ step > 5 => held \subseteq held'
      /\ step = 5 => "vdec_pool" \notin stale'
  BY <1>1, <1>4, <1>5, VdecStartUpIs
<1>9. step = 7 => {"vb", "vdec_pool"} \subseteq held'
  <2>1. step = 7 => c = "vdec_pool"
    BY <1>1, VdecStartUpIs
  <2>2. c = "vdec_pool" => "vb" \in held /\ c \in held'
    BY <1>3, <1>4 DEF Vdec!Needs, Vdec!Settings
  <2>3. QED BY <1>8, <2>1, <2>2
<1>10. step = 16 => "vo_device" \in held'
  <2>1. step = 16 => c = "frame_rate"
    BY <1>1, VdecStartUpIs
  <2>2. c = "frame_rate" => "vo_device" \in held
    BY <1>3 DEF Vdec!Needs
  <2>3. QED BY <1>8, <2>1, <2>2
<1>11. step = 17 => "layer" \notin stale'
  <2>1. step = 17 => c = "layer_attr"
    BY <1>1, VdecStartUpIs
  <2>2. c = "layer_attr" => "layer" \notin held
    BY <1>3 DEF Vdec!RefusedBy
  <2>3. QED BY <1>2, <1>5, <2>1, <2>2
<1>12. step = 22 => "decoder" \notin stale' /\ {"sys", "decoder"} \subseteq held'
  <2>1. step = 22 => c = "decoder"
    BY <1>1, VdecStartUpIs
  <2>2. c = "decoder" => "decoder" \notin held /\ "sys" \in held /\ c \in held'
    BY <1>3, <1>4 DEF Vdec!RefusedBy, Vdec!Needs, Vdec!Settings
  <2>3. QED BY <1>2, <1>5, <1>8, <2>1, <2>2
<1>13. /\ step = 18 => "layer" \in held'
       /\ step = 20 => "vo_channel" \in held'
       /\ step = 25 => "vdec_to_vo" \in held'
       /\ step = 26 => "receiving" \in held'
  BY <1>1, <1>4, VdecStartUpIs DEF Vdec!Settings
<1>14. OwnSetUp(held', stale', step + 1)
  BY <1>2, <1>5, <1>7, <1>8, <1>9, <1>10, <1>11, <1>12, <1>13 DEF OwnSetUp
<1>15. QED BY <1>5, <1>6, <1>14

\* What is left out, or fails unseen, is nothing the loop relies on.
LEMMA UnseenKeeps ==
  ASSUME VdecShape, platform = "vdec", step \in 1..30, phase = "start",
         Vdec!SkipOption \/ Vdec!CallFailsUnseen,
         NEW n \in {step + 1, Vdec!AfterFailure(Vdec!Call)}
  PROVE  /\ stale' \subseteq held' /\ Chained(held') /\ Chained(stale')
         /\ OwnSetUp(held', stale', n) /\ n \in 2..31
<1>1. PICK c : c = Vdec!Call /\ c = Vdec!StartUp[step]
  BY DEF Vdec!Call
<1>2. /\ stale \subseteq held /\ Chained(held) /\ Chained(stale)
      /\ OwnSetUp(held, stale, step)
  BY DEF VdecShape
<1>3. c \in Vdec!Optional \cup Vdec!Unchecked
  BY <1>1 DEF Vdec!SkipOption, Vdec!CallFailsUnseen
<1>4. step \notin {5, 7, 16, 17, 18, 20, 22, 25, 26}
  BY <1>1, <1>3, VdecStartUpIs DEF Vdec!Optional, Vdec!Unchecked, Vdec!HdmiCalls
<1>5. /\ n \in 2..31
      /\ \A p \in {5, 7, 16, 17, 18, 20, 22, 25, 26} : n > p => step > p
  <2>1. CASE n = step + 1
    BY <1>4, <2>1
  <2>2. CASE n = Vdec!AfterFailure(c) /\ c \in {"vo_attr", "vo_device"}
    <3>1. n = 12 /\ step \in {10, 11}
      BY <1>1, <2>2, VdecStartUpIs DEF Vdec!AfterFailure, Vdec!StartUp
    <3>2. QED BY <3>1
  <2>3. CASE n = Vdec!AfterFailure(c) /\ c \in Vdec!HdmiCalls
    <3>1. n = 16
      BY <2>3, VdecStartUpIs DEF Vdec!AfterFailure, Vdec!HdmiCalls
    <3>2. step \in 12..15
      BY <1>1, <2>3 DEF Vdec!HdmiCalls, Vdec!StartUp
    <3>3. QED BY <3>1, <3>2
  <2>4. CASE n = Vdec!AfterFailure(c) /\ c \notin {"vo_attr", "vo_device"} \cup Vdec!HdmiCalls
    <3>1. n = Vdec!Position(c) + 1
      BY <2>4 DEF Vdec!AfterFailure
    <3>2. Vdec!Position(c) = step
      BY <1>1, VdecStartUpIs
    <3>3. QED BY <1>4, <3>1, <3>2
  <2>5. QED BY <1>1, <2>1, <2>2, <2>3, <2>4
<1>6. CASE held' = held /\ stale' \in {stale, stale \cap held'}
  <2>1. stale' = stale
    BY <1>2, <1>6
  <2>2. OwnSetUp(held', stale', n)
    BY <1>2, <1>5, <1>6, <2>1 DEF OwnSetUp
  <2>3. QED BY <1>2, <1>5, <1>6, <2>1, <2>2
<1>7. CASE c = "sys" /\ held' = held \ Vdec!GivesBack("vb", held) /\ stale' = stale \cap held'
  <2>1. step = 4 /\ n = 5
    <3>1. step = 4
      BY <1>1, <1>7, VdecStartUpIs
    <3>2. Vdec!Position(c) = step
      BY <1>1, VdecStartUpIs
    <3>3. Vdec!AfterFailure(c) = Vdec!Position(c) + 1
      BY <1>7 DEF Vdec!AfterFailure, Vdec!HdmiCalls
    <3>4. QED BY <1>1, <3>1, <3>2, <3>3
  <2>2. stale' \subseteq held' /\ Chained(held') /\ Chained(stale')
    BY <1>2, <1>7, GivingBackKeeps
  <2>3. OwnSetUp(held', stale', 5)
    BY DEF OwnSetUp
  <2>4. QED BY <2>1, <2>2, <2>3
<1>8. QED
  BY <1>1, <1>6, <1>7 DEF Vdec!SkipOption, Vdec!CallFailsUnseen, Vdec!StaleStays

LEMMA StartUpGoesOn ==
  ASSUME VdecShape, platform = "vdec", platform' = platform,
         Vdec!CallSucceeds \/ Vdec!SkipOption \/ Vdec!CallFailsUnseen
  PROVE  VdecShape'
<1>1. phase = "start" /\ step \in 1..30
  BY DEF Vdec!CallSucceeds, Vdec!SkipOption, Vdec!CallFailsUnseen, VdecShape
<1>2. PICK n : /\ n \in 2..31
               /\ stale' \subseteq held' /\ Chained(held') /\ Chained(stale')
               /\ OwnSetUp(held', stale', n)
               /\ IF n = 31 THEN phase' = "loop" ELSE phase' = "start" /\ step' = n
  <2>1. CASE Vdec!GoOn
    <3>1. /\ stale' \subseteq held' /\ Chained(held') /\ Chained(stale')
          /\ OwnSetUp(held', stale', step + 1)
      BY <1>1, CallGrows, UnseenKeeps
    <3>2. /\ step + 1 \in 2..31
          /\ IF step + 1 = 31 THEN phase' = "loop" ELSE phase' = "start" /\ step' = step + 1
      BY <1>1, <2>1, VdecStartUpIs DEF Vdec!GoOn
    <3>3. QED BY <3>1, <3>2
  <2>2. CASE Vdec!CallFailsUnseen /\ Vdec!Call = "osd"
    <3>1. step = 30
      BY <1>1, <2>2, VdecStartUpIs DEF Vdec!Call
    <3>2. /\ stale' \subseteq held' /\ Chained(held') /\ Chained(stale')
          /\ OwnSetUp(held', stale', step + 1) /\ step + 1 = 31
      BY <1>1, <2>2, <3>1, UnseenKeeps
    <3>3. phase' = "loop"
      BY <2>2 DEF Vdec!CallFailsUnseen
    <3>4. QED BY <3>2, <3>3
  <2>3. CASE Vdec!CallFailsUnseen /\ Vdec!Call # "osd"
    <3>1. PICK n : n = Vdec!AfterFailure(Vdec!Call)
      OBVIOUS
    <3>2. /\ stale' \subseteq held' /\ Chained(held') /\ Chained(stale')
          /\ OwnSetUp(held', stale', n) /\ n \in 2..31
      BY <1>1, <2>3, <3>1, UnseenKeeps
    <3>3. n # 31
      <4>1. step # 30 /\ Vdec!Position(Vdec!Call) = step
        BY <1>1, <2>3, VdecStartUpIs DEF Vdec!Call
      <4>2. QED BY <1>1, <3>1, <4>1, VdecStartUpIs DEF Vdec!AfterFailure
    <3>4. phase' = "start" /\ step' = n
      BY <1>1, <2>3, <3>1 DEF Vdec!CallFailsUnseen
    <3>5. QED BY <3>2, <3>3, <3>4
  <2>4. QED BY <2>1, <2>2, <2>3 DEF Vdec!CallSucceeds, Vdec!SkipOption
<1>3. CASE n = 31
  BY <1>2, <1>3 DEF VdecShape
<1>4. CASE n # 31
  <2>1. n \in 1..30
    BY <1>2, <1>4
  <2>2. QED BY <1>2, <1>4, <2>1 DEF VdecShape
<1>5. QED BY <1>3, <1>4

LEMMA VdecHolds == Spec => []VdecShape
<1>1. Init => VdecShape
  BY DEF Init, Vdec!Init, VdecShape, Chained
<1>2. VdecShape /\ [Next]_vars => VdecShape'
  <2>1. SUFFICES ASSUME VdecShape, [Next]_vars, platform' = "vdec"
                 PROVE  VdecShape'
    BY DEF VdecShape
  <2>2. platform = "vdec"
    BY <2>1 DEF Next, Main, Signal, Receives, Ended, vars
  <2>3. CASE Vdec!ResetCall
    BY <2>1, <2>2, <2>3, ResetKeeps
  <2>4. CASE Vdec!CallSucceeds \/ Vdec!SkipOption \/ Vdec!CallFailsUnseen
    BY <2>1, <2>2, <2>4, StartUpGoesOn
  <2>5. CASE Vdec!CallFails \/ Vdec!Killed
    <3>1. held' = held \ Vdec!OfProcess /\ stale' = stale \cap held'
          /\ phase' \in {"exited", "killed"}
      BY <2>5 DEF Vdec!CallFails, Vdec!Killed, Vdec!StaleStays
    <3>2. Vdec!OfProcess \cap {"layer", "decoder"} = {}
      BY DEF Vdec!OfProcess
    <3>3. Chained(held') /\ Chained(stale')
      BY <2>1, <2>2, <3>1, <3>2 DEF VdecShape, Chained
    <3>4. QED BY <3>1, <3>3 DEF VdecShape
  <2>6. CASE Vdec!Restart
    BY <2>1, <2>2, <2>6 DEF Vdec!Restart, VdecShape
  <2>7. CASE UNCHANGED vars
    BY <2>1, <2>7 DEF vars, vdecVars, VdecShape
  <2>8. QED
    BY <2>1, <2>2, <2>3, <2>4, <2>5, <2>6, <2>7 DEF Next, Main, Signal,
       Receives, Ended, Vdec!Main
<1>3. QED BY <1>1, <1>2, PTL DEF Spec

\* However often vdec was killed or failed, whatever another program left, and
\* whichever call of its reset or its start-up failed unseen: when it receives,
\* the system is up and what the stream goes through it set up itself.
THEOREM VdecReceivesOnItsOwn == Spec => []ReceivesOnItsOwn
<1>1. VdecShape => ReceivesOnItsOwn
  BY DEF VdecShape, OwnSetUp, Chained, Fed, ReceivesOnItsOwn
<1>2. QED BY <1>1, VdecHolds, PTL

-----------------------------------------------------------------------------
(***************************************************************************)
(* venc on HiSilicon: what a start-up that was not ended must have set up. *)
(***************************************************************************)

\* The calls of venc are all different, and each is where it says.
LEMMA VencStartUpIs ==
  /\ Len(Venc!StartUp) = 36
  /\ \A i \in 1..36 : Venc!Position(Venc!StartUp[i]) = i /\ Venc!StartUp[i] # "none"
  /\ \A i \in 1..36, j \in 1..36 : Venc!StartUp[i] = Venc!StartUp[j] => i = j
  /\ Venc!StartUp[3] = "vb" /\ Venc!StartUp[4] = "sys"
  /\ Venc!StartUp[5] = "vi_vpss_mode" /\ Venc!StartUp[8] = "dev"
  /\ Venc!StartUp[10] = "pipe" /\ Venc!StartUp[11] = "pipe_running"
  /\ Venc!StartUp[13] = "chn_on" /\ Venc!StartUp[18] = "isp"
  /\ Venc!StartUp[20] = "group" /\ Venc!StartUp[21] = "group_chn"
  /\ Venc!StartUp[24] = "group_running"
<1>1. PICK s : s = Venc!StartUp
  OBVIOUS
<1>2. /\ Len(s) = 36 /\ DOMAIN s = 1..36 /\ \A i \in 1..36 : s[i] # "none"
  BY <1>1 DEF Venc!StartUp
<1>3. \A i \in 1..36, j \in 1..36 : s[i] = s[j] => i = j
  BY <1>1 DEF Venc!StartUp
<1>4. ASSUME NEW i \in 1..36
      PROVE  (CHOOSE j \in DOMAIN s : s[j] = s[i]) = i
  BY <1>2, <1>3
<1>5. \A i \in 1..36 : Venc!Position(s[i]) = i
  BY <1>1, <1>4 DEF Venc!Position
<1>6. /\ s[3] = "vb" /\ s[4] = "sys" /\ s[5] = "vi_vpss_mode" /\ s[8] = "dev"
      /\ s[10] = "pipe" /\ s[11] = "pipe_running" /\ s[13] = "chn_on"
      /\ s[18] = "isp" /\ s[20] = "group" /\ s[21] = "group_chn"
      /\ s[24] = "group_running"
  BY <1>1 DEF Venc!StartUp
<1>7. QED BY <1>1, <1>2, <1>3, <1>5, <1>6

\* The exit path stops what it does in the reverse order, the ISP first.
LEMMA VencCleanUpIs ==
  /\ Len(Venc!CleanUp) = 9 /\ DOMAIN Venc!CleanUp = 1..9
  /\ Venc!CleanUp[1] = "isp"
  /\ \A j \in 1..9, k \in 1..9 : Venc!CleanUp[j] = Venc!CleanUp[k] => j = k
  /\ \A j \in 2..9, k \in 2..9 :
       j < k => Venc!Position(Venc!CleanUp[j]) > Venc!Position(Venc!CleanUp[k])
  /\ ToSet(Venc!CleanUp) = {"isp", "group_running", "group", "chn_on",
                            "pipe_running", "pipe", "dev", "sys", "vb"}
<1>1. PICK c : c = Venc!CleanUp
  OBVIOUS
<1>2. /\ Len(c) = 9 /\ DOMAIN c = 1..9
      /\ c[1] = "isp" /\ c[2] = "group_running" /\ c[3] = "group"
      /\ c[4] = "chn_on" /\ c[5] = "pipe_running" /\ c[6] = "pipe"
      /\ c[7] = "dev" /\ c[8] = "sys" /\ c[9] = "vb"
  BY <1>1 DEF Venc!CleanUp
<1>3. \A j \in 1..9, k \in 1..9 : c[j] = c[k] => j = k
  BY <1>2
<1>4. /\ Venc!Position("group_running") = 24 /\ Venc!Position("group") = 20
      /\ Venc!Position("chn_on") = 13 /\ Venc!Position("pipe_running") = 11
      /\ Venc!Position("pipe") = 10 /\ Venc!Position("dev") = 8
      /\ Venc!Position("sys") = 4 /\ Venc!Position("vb") = 3
  <2>1. {3, 4, 8, 10, 11, 13, 20, 24} \subseteq 1..36
    OBVIOUS
  <2>2. QED BY <2>1, VencStartUpIs
<1>5. \A j \in 2..9, k \in 2..9 : j < k => Venc!Position(c[j]) > Venc!Position(c[k])
  BY <1>2, <1>4
<1>6. ToSet(c) = {"isp", "group_running", "group", "chn_on",
                  "pipe_running", "pipe", "dev", "sys", "vb"}
  BY <1>2 DEF ToSet
<1>7. QED BY <1>1, <1>2, <1>3, <1>5, <1>6

\* What is held before the n-th call: of what the exit path stops, whatever a
\* call that is looked at has set up, or one that cannot be made without it.
SetUp(h, n) ==
  /\ \A t \in h : \E i \in 1..(n - 1) : t = Venc!StartUp[i]
  /\ "sys" \in h => "vb" \in h
  /\ n > 5 => "sys" \in h
  /\ n > 8 => "dev" \in h
  /\ n > 10 => "pipe" \in h
  /\ n > 11 => "pipe_running" \in h
  /\ n > 13 => "chn_on" \in h
  /\ n > 18 => "isp" \in h
  /\ n > 21 => "group" \in h
  /\ n > 24 => "group_running" \in h

VencShape ==
  platform = "venc" =>
    /\ ~stray
    /\ phase = "start" => step \in 1..36 /\ SetUp(held, step)
    /\ phase = "loop" => SetUp(held, 37)
    /\ phase = "cleanup" =>
         /\ step \in 1..9
         /\ \A t \in held : \E i \in 1..36 : t = Venc!StartUp[i]
         /\ \A j \in 1..9 : Venc!CleanUp[j] \in held <=> j >= step
    /\ phase = "exited" => failed # "none" \/ held \cap ToSet(Venc!CleanUp) = {}

\* One call of the start-up, made, left out, or failing without being seen.
LEMMA SetUpGrows ==
  ASSUME step \in 1..36, SetUp(held, step),
         Venc!CallSucceeds \/ Venc!SkipOption \/ Venc!CallFailsUnseen
  PROVE  SetUp(held', step + 1)
<1>1. PICK c : c = Venc!Call /\ c = Venc!StartUp[step]
  BY DEF Venc!Call
<1>2. \A p \in 1..36 : step + 1 > p => step > p \/ step = p
  OBVIOUS
<1>3. CASE Venc!CallSucceeds
  <2>1. /\ held \subseteq held' /\ held' \subseteq held \cup {c}
        /\ c \notin Venc!Settings => c \in held' /\ Venc!Needs(c) \subseteq held
        /\ Venc!Needs(c) \subseteq held
    BY <1>1, <1>3 DEF Venc!CallSucceeds
  <2>2. \A t \in held' : \E i \in 1..((step + 1) - 1) : t = Venc!StartUp[i]
    <3>1. (step + 1) - 1 = step /\ step \in 1..step /\ 1..(step - 1) \subseteq 1..step
      OBVIOUS
    <3>2. \A t \in held : \E i \in 1..step : t = Venc!StartUp[i]
      BY <3>1 DEF SetUp
    <3>3. QED BY <1>1, <2>1, <3>1, <3>2
  <2>3. "sys" \in held' => "vb" \in held'
    <3>1. CASE c = "sys"
      BY <2>1, <3>1 DEF Venc!Needs
    <3>2. CASE c # "sys"
      BY <2>1, <3>2 DEF SetUp
    <3>3. QED BY <3>1, <3>2
  <2>4. step + 1 > 5 => "sys" \in held'
    <3>1. step = 5 => c = "vi_vpss_mode"
      BY <1>1, VencStartUpIs
    <3>2. c = "vi_vpss_mode" => "sys" \in held
      BY <2>1 DEF Venc!Needs
    <3>3. QED BY <1>2, <2>1, <3>1, <3>2 DEF SetUp
  <2>5. step + 1 > 21 => "group" \in held'
    <3>1. step = 21 => c = "group_chn"
      BY <1>1, VencStartUpIs
    <3>2. c = "group_chn" => "group" \in held
      BY <2>1 DEF Venc!Needs
    <3>3. QED BY <1>2, <2>1, <3>1, <3>2 DEF SetUp
  <2>6. /\ step = 8 => "dev" \in held'
        /\ step = 10 => "pipe" \in held'
        /\ step = 11 => "pipe_running" \in held'
        /\ step = 13 => "chn_on" \in held'
        /\ step = 18 => "isp" \in held'
        /\ step = 24 => "group_running" \in held'
    BY <1>1, <2>1, VencStartUpIs DEF Venc!Settings
  <2>7. QED BY <1>2, <2>1, <2>2, <2>3, <2>4, <2>5, <2>6 DEF SetUp
<1>4. CASE Venc!SkipOption \/ Venc!CallFailsUnseen
  <2>1. c \in Venc!Optional \cup Venc!Unchecked
    BY <1>1, <1>4 DEF Venc!SkipOption, Venc!CallFailsUnseen
  <2>2. step \notin {5, 8, 10, 11, 13, 18, 21, 24}
    BY <1>1, <2>1, VencStartUpIs DEF Venc!Optional, Venc!Unchecked
  <2>3. CASE held' = held
    BY <1>2, <2>2, <2>3 DEF SetUp
  <2>4. CASE c = "sys" /\ held' = held \ {"vb"}
    <3>1. step = 4
      <4>1. Venc!StartUp[step] = Venc!StartUp[4] /\ 4 \in 1..36
        BY <1>1, <2>4, VencStartUpIs
      <4>2. QED BY <4>1, VencStartUpIs
    <3>2. "sys" \notin held
      <4>1. \A i \in 1..3 : Venc!StartUp[i] # "sys"
        <5>1. 4 \in 1..36 /\ \A i \in 1..3 : i \in 1..36 /\ i # 4
          OBVIOUS
        <5>2. QED BY <5>1, VencStartUpIs
      <4>2. QED BY <3>1, <4>1 DEF SetUp
    <3>3. QED BY <2>4, <3>1, <3>2 DEF SetUp
  <2>5. QED
    BY <1>1, <1>4, <2>3, <2>4 DEF Venc!SkipOption, Venc!CallFailsUnseen
<1>5. QED BY <1>3, <1>4

\* After the last call all that the exit path stops is there.
LEMMA AllSetUp ==
  ASSUME SetUp(held, 37)
  PROVE  /\ \A j \in 1..9 : Venc!CleanUp[j] \in held
         /\ \A t \in held : \E i \in 1..36 : t = Venc!StartUp[i]
<1>1. ToSet(Venc!CleanUp) \subseteq held
  BY VencCleanUpIs DEF SetUp
<1>2. \A j \in 1..9 : Venc!CleanUp[j] \in ToSet(Venc!CleanUp)
  BY VencCleanUpIs DEF ToSet
<1>3. QED BY <1>1, <1>2 DEF SetUp

LEMMA StopKeeps ==
  ASSUME VencShape, platform = "venc", platform' = platform, Venc!CleanUpCall
  PROVE  VencShape'
<1>1. PICK c : c = Venc!CleanUp[step]
  OBVIOUS
<1>2. /\ phase = "cleanup" /\ step \in 1..9 /\ c \in held /\ ~stray
      /\ \A t \in held : \E i \in 1..36 : t = Venc!StartUp[i]
      /\ \A j \in 1..9 : Venc!CleanUp[j] \in held <=> j >= step
  BY <1>1 DEF Venc!CleanUpCall, VencShape
<1>3. /\ held' = held \ {c} /\ ~stray'
      /\ IF step = 9 THEN phase' = "exited" ELSE step' = step + 1 /\ phase' = phase
  BY <1>1, <1>2, VencCleanUpIs DEF Venc!CleanUpCall
<1>4. \A j \in 1..9 : Venc!CleanUp[j] \in held' <=> j >= step + 1
  <2>1. \A j \in 1..9 : Venc!CleanUp[j] = c <=> j = step
    BY <1>1, <1>2, VencCleanUpIs
  <2>2. \A j \in 1..9 : j >= step + 1 <=> j >= step /\ j # step
    BY <1>2
  <2>3. QED BY <1>2, <1>3, <2>1, <2>2
<1>5. CASE step = 9
  <2>1. \A j \in 1..9 : Venc!CleanUp[j] \notin held'
    BY <1>4, <1>5
  <2>2. held' \cap ToSet(Venc!CleanUp) = {}
    BY <2>1, VencCleanUpIs DEF ToSet
  <2>3. QED BY <1>3, <1>5, <2>2 DEF VencShape
<1>6. CASE step # 9
  BY <1>2, <1>3, <1>4, <1>6 DEF VencShape
<1>7. QED BY <1>5, <1>6

LEMMA VencHolds == Spec => []VencShape
<1>1. Init => VencShape
  BY DEF Init, Venc!Init, VencShape, SetUp
<1>2. VencShape /\ [Next]_vars => VencShape'
  <2>1. SUFFICES ASSUME VencShape, [Next]_vars, platform' = "venc"
                 PROVE  VencShape'
    BY DEF VencShape
  <2>2. platform = "venc"
    BY <2>1 DEF Next, Main, Signal, Receives, Ended, vars
  <2>3. CASE Venc!Main
    <3>1. CASE Venc!CallSucceeds \/ Venc!SkipOption \/ Venc!CallFailsUnseen
      <4>1. /\ phase = "start" /\ step \in 1..36 /\ SetUp(held, step)
            /\ Venc!GoOn /\ ~stray /\ stray' = stray
        BY <2>1, <2>2, <3>1 DEF Venc!CallSucceeds, Venc!SkipOption,
           Venc!CallFailsUnseen, VencShape
      <4>2. SetUp(held', step + 1)
        BY <3>1, <4>1, SetUpGrows
      <4>3. CASE step = 36
        <5>1. SetUp(held', 37)
          BY <4>2, <4>3
        <5>2. phase' = "loop"
          BY <4>1, <4>3, VencStartUpIs DEF Venc!GoOn
        <5>3. QED BY <4>1, <5>1, <5>2 DEF VencShape
      <4>4. CASE step # 36
        <5>1. step' = step + 1 /\ phase' = phase /\ step + 1 \in 1..36
          BY <4>1, <4>4, VencStartUpIs DEF Venc!GoOn
        <5>2. QED BY <4>1, <4>2, <5>1 DEF VencShape
      <4>5. QED BY <4>3, <4>4
    <3>2. CASE Venc!CallFails
      <4>1. step \in 1..36 /\ failed' = Venc!StartUp[step] /\ phase' = "exited"
            /\ ~stray'
        BY <2>1, <2>2, <3>2 DEF Venc!CallFails, Venc!Call, VencShape
      <4>2. QED BY <4>1, VencStartUpIs DEF VencShape
    <3>3. CASE Venc!LoopEnds
      <4>1. /\ SetUp(held, 37) /\ phase' = "cleanup" /\ step' = 1 /\ held' = held
            /\ ~stray'
        BY <2>1, <2>2, <3>3 DEF Venc!LoopEnds, VencShape
      <4>2. QED BY <4>1, AllSetUp DEF VencShape
    <3>4. CASE Venc!CleanUpCall
      BY <2>1, <2>2, <3>4, StopKeeps
    <3>5. QED BY <2>3, <3>1, <3>2, <3>3, <3>4 DEF Venc!Main
  <2>4. CASE Venc!Interrupt \/ Venc!Killed
    BY <2>1, <2>2, <2>4 DEF Venc!Interrupt, Venc!Killed, VencShape
  <2>5. CASE UNCHANGED vars
    BY <2>1, <2>5 DEF vars, VencShape
  <2>6. QED
    BY <2>1, <2>2, <2>3, <2>4, <2>5 DEF Next, Main, Signal, Receives, Ended
<1>3. QED BY <1>1, <1>2, PTL DEF Spec

-----------------------------------------------------------------------------
(***************************************************************************)
(* venc on Star6E: what is there when main falls into a cleanup label.     *)
(***************************************************************************)

\* Things are taken once each, stage by stage.
LEMMA StarStartUpIs ==
  /\ Len(Star6e!StartUp) = 17
  /\ \A i \in 1..17, j \in 1..17 :
       Star6e!StartUp[i][2] = Star6e!StartUp[j][2] /\ Star6e!StartUp[i][2] # "nothing" => i = j
  /\ \A i \in 1..17 : Star6e!StartUp[i][2] # "nothing" =>
       /\ Star6e!StartUp[i][2] # "frame"
       /\ Star6e!Position(Star6e!StartUp[i][2]) = i
       /\ Star6e!StageOf(Star6e!StartUp[i][2]) = Star6e!StartUp[i][1]
  /\ Star6e!StartUp[1][1] = "sys"
  /\ \A i \in 2..4 : Star6e!StartUp[i][1] = "sensor"
  /\ \A i \in 5..8 : Star6e!StartUp[i][1] = "vif"
  /\ \A i \in 9..12 : Star6e!StartUp[i][1] = "vpe"
  /\ \A i \in 13..14 : Star6e!StartUp[i][1] = "venc"
  /\ \A i \in 15..16 : Star6e!StartUp[i][1] = "bind"
  /\ Star6e!StartUp[17][1] = "socket" /\ Star6e!StartUp[17][2] = "socket"
  /\ \A i \in 1..17 : Star6e!StartUp[i][2] = "nothing" <=> i \in {2, 3, 11}
  /\ Star6e!Position("frame") = 18
<1>1. PICK s : s = Star6e!StartUp
  OBVIOUS
<1>2. Len(s) = 17 /\ DOMAIN s = 1..17
  BY <1>1 DEF Star6e!StartUp
<1>13. /\ s[1][1] = "sys"
       /\ s[2][1] = "sensor" /\ s[3][1] = "sensor" /\ s[4][1] = "sensor"
       /\ s[5][1] = "vif" /\ s[6][1] = "vif" /\ s[7][1] = "vif" /\ s[8][1] = "vif"
       /\ s[9][1] = "vpe" /\ s[10][1] = "vpe" /\ s[11][1] = "vpe" /\ s[12][1] = "vpe"
       /\ s[13][1] = "venc" /\ s[14][1] = "venc"
       /\ s[15][1] = "bind" /\ s[16][1] = "bind" /\ s[17][1] = "socket"
  BY <1>1 DEF Star6e!StartUp
<1>14. PICK w : w = <<"system", "nothing", "nothing", "sensor", "vif_dev", "vif_dev_on",
                      "vif_port", "vif_port_on", "vpe_channel", "vpe_running",
                      "nothing", "vpe_port_on", "venc_channel", "venc_running",
                      "vif_to_vpe", "vpe_to_venc", "socket">>
  OBVIOUS
<1>15. \A i \in 1..17 : s[i][2] = w[i]
  BY <1>1, <1>14 DEF Star6e!StartUp
<1>3. /\ \A i \in 1..17 : s[i][2] # "frame" /\ (s[i][2] = "nothing" <=> i \in {2, 3, 11})
      /\ s[17][2] = "socket"
  <2>1. \A i \in 1..17 : w[i] # "frame" /\ (w[i] = "nothing" <=> i \in {2, 3, 11})
    BY <1>14
  <2>2. w[17] = "socket"
    BY <1>14
  <2>3. QED BY <1>15, <2>1, <2>2
<1>4. \A i \in 1..17, j \in 1..17 : s[i][2] = s[j][2] /\ s[i][2] # "nothing" => i = j
  <2>1. \A i \in 1..17, j \in 1..17 : w[i] = w[j] /\ w[i] # "nothing" => i = j
    BY <1>14
  <2>2. ASSUME NEW i \in 1..17, NEW j \in 1..17,
               s[i][2] = s[j][2], s[i][2] # "nothing"
        PROVE  i = j
    <3>1. s[i][2] = w[i] /\ s[j][2] = w[j]
      BY <1>15
    <3>2. w[i] = w[j] /\ w[i] # "nothing"
      BY <2>2, <3>1
    <3>3. QED BY <2>1, <3>2
  <2>3. QED BY <2>2
<1>5. ASSUME NEW i \in 1..17, s[i][2] # "nothing"
      PROVE  Star6e!Position(s[i][2]) = i
  <2>1. (CHOOSE j \in DOMAIN s : s[j][2] = s[i][2]) = i
    BY <1>2, <1>4, <1>5
  <2>2. s[i][2] # "frame"
    BY <1>3
  <2>3. QED BY <1>1, <2>1, <2>2 DEF Star6e!Position
<1>6. \A i \in 1..17 : s[i][2] # "nothing" => Star6e!StageOf(s[i][2]) = s[i][1]
  BY <1>1, <1>3, <1>5 DEF Star6e!StageOf
<1>7. Star6e!Position("frame") = 18
  BY <1>1, <1>2 DEF Star6e!Position
<1>8. \A i \in 2..4 : i = 2 \/ i = 3 \/ i = 4
  OBVIOUS
<1>9. \A i \in 5..8 : i = 5 \/ i = 6 \/ i = 7 \/ i = 8
  OBVIOUS
<1>10. \A i \in 9..12 : i = 9 \/ i = 10 \/ i = 11 \/ i = 12
  OBVIOUS
<1>11. /\ \A i \in 2..4 : s[i][1] = "sensor"
       /\ \A i \in 5..8 : s[i][1] = "vif"
       /\ \A i \in 9..12 : s[i][1] = "vpe"
       /\ \A i \in 13..14 : s[i][1] = "venc"
       /\ \A i \in 15..16 : s[i][1] = "bind"
  BY <1>13, <1>8, <1>9, <1>10
<1>12. QED BY <1>1, <1>2, <1>3, <1>4, <1>5, <1>6, <1>7, <1>11, <1>13

\* The call of the start-up that each call of the cleanup undoes.
Undoes == <<16, 15, 14, 13, 12, 10, 9, 8, 7, 6, 5, 4, 1>>

LEMMA StarCleanUpIs ==
  /\ Len(Star6e!CleanUp) = 13
  /\ \A j \in 1..13 : /\ Undoes[j] \in 1..16 /\ Undoes[j] \notin {2, 3, 11}
                      /\ Star6e!CleanUp[j][2] = Star6e!StartUp[Undoes[j]][2]
  /\ \A j \in 1..13, k \in 1..13 : j < k => Undoes[j] > Undoes[k]
  /\ \A j \in 1..13, k \in 1..13 : Undoes[j] = Undoes[k] => j = k
  /\ \A i \in 1..16 : i \notin {2, 3, 11} => \E j \in 1..13 : Undoes[j] = i
  /\ \A j \in 1..13 : Undoes[j] \in {15, 16} <=> j \in {1, 2}
<1>1. PICK c : c = Star6e!CleanUp
  OBVIOUS
<1>2. PICK u : u = Undoes
  OBVIOUS
<1>3. /\ Len(c) = 13
      /\ \A j \in 1..13 : c[j][2] = Star6e!StartUp[u[j]][2]
  BY <1>1, <1>2 DEF Star6e!CleanUp, Undoes, Star6e!StartUp
<1>4. \A j \in 1..13 : u[j] \in 1..16 /\ u[j] \notin {2, 3, 11}
  BY <1>2 DEF Undoes
<1>5. /\ \A j \in 1..13, k \in 1..13 : j < k => u[j] > u[k]
      /\ \A j \in 1..13, k \in 1..13 : u[j] = u[k] => j = k
  BY <1>2 DEF Undoes
<1>6. \A i \in 1..16 : i \notin {2, 3, 11} => \E j \in 1..13 : u[j] = i
  <2>1. /\ u[1] = 16 /\ u[2] = 15 /\ u[3] = 14 /\ u[4] = 13 /\ u[5] = 12
        /\ u[6] = 10 /\ u[7] = 9 /\ u[8] = 8 /\ u[9] = 7 /\ u[10] = 6
        /\ u[11] = 5 /\ u[12] = 4 /\ u[13] = 1
    BY <1>2 DEF Undoes
  <2>2. QED BY <2>1
<1>7. \A j \in 1..13 : u[j] \in {15, 16} <=> j \in {1, 2}
  BY <1>2 DEF Undoes
<1>8. QED BY <1>1, <1>2, <1>3, <1>4, <1>5, <1>6, <1>7

LEMMA LabelsAre ==
  /\ Star6e!Goto("cleanup_venc") = 1 /\ Star6e!Goto("cleanup_vpe") = 5
  /\ Star6e!Goto("cleanup_vif") = 8 /\ Star6e!Goto("cleanup_sensor") = 12
  /\ Star6e!Goto("cleanup_sys") = 13
<1>1. PICK c : c = Star6e!CleanUp
  OBVIOUS
<1>2. /\ DOMAIN c = 1..13
      /\ \A j \in 1..4 : c[j][1] = "cleanup_venc"
      /\ \A j \in 5..7 : c[j][1] = "cleanup_vpe"
      /\ \A j \in 8..11 : c[j][1] = "cleanup_vif"
      /\ c[12][1] = "cleanup_sensor" /\ c[13][1] = "cleanup_sys"
  BY <1>1 DEF Star6e!CleanUp
<1>3. (CHOOSE j \in 1..13 : c[j][1] = "cleanup_venc"
                            /\ (j > 1 => c[j - 1][1] # "cleanup_venc")) = 1
  <2>1. \A j \in 1..13 : c[j][1] = "cleanup_venc"
                         /\ (j > 1 => c[j - 1][1] # "cleanup_venc") <=> j = 1
    BY <1>1 DEF Star6e!CleanUp
  <2>2. QED BY <2>1
<1>4. (CHOOSE j \in 1..13 : c[j][1] = "cleanup_vpe"
                            /\ (j > 1 => c[j - 1][1] # "cleanup_vpe")) = 5
  <2>1. \A j \in 1..13 : c[j][1] = "cleanup_vpe"
                         /\ (j > 1 => c[j - 1][1] # "cleanup_vpe") <=> j = 5
    BY <1>1 DEF Star6e!CleanUp
  <2>2. QED BY <2>1
<1>5. (CHOOSE j \in 1..13 : c[j][1] = "cleanup_vif"
                            /\ (j > 1 => c[j - 1][1] # "cleanup_vif")) = 8
  <2>1. \A j \in 1..13 : c[j][1] = "cleanup_vif"
                         /\ (j > 1 => c[j - 1][1] # "cleanup_vif") <=> j = 8
    BY <1>1 DEF Star6e!CleanUp
  <2>2. QED BY <2>1
<1>6. (CHOOSE j \in 1..13 : c[j][1] = "cleanup_sensor"
                            /\ (j > 1 => c[j - 1][1] # "cleanup_sensor")) = 12
  <2>1. \A j \in 1..13 : c[j][1] = "cleanup_sensor"
                         /\ (j > 1 => c[j - 1][1] # "cleanup_sensor") <=> j = 12
    BY <1>1 DEF Star6e!CleanUp
  <2>2. QED BY <2>1
<1>7. (CHOOSE j \in 1..13 : c[j][1] = "cleanup_sys"
                            /\ (j > 1 => c[j - 1][1] # "cleanup_sys")) = 13
  <2>1. \A j \in 1..13 : c[j][1] = "cleanup_sys"
                         /\ (j > 1 => c[j - 1][1] # "cleanup_sys") <=> j = 13
    BY <1>1 DEF Star6e!CleanUp
  <2>2. QED BY <2>1
<1>8. QED BY <1>1, <1>2, <1>3, <1>4, <1>5, <1>6, <1>7 DEF Star6e!Goto

Stops(j) == Star6e!CleanUp[j][2]
Takes(i) == Star6e!StartUp[i][2]

Taken(n) == {Takes(i) : i \in 1..(n - 1)} \ {"nothing"}

\* A call of the cleanup gives back what a call of the start-up has taken, and
\* the first two are the unbinds.
LEMMA StopsAre ==
  ASSUME NEW j \in 1..13
  PROVE  /\ Stops(j) = Takes(Undoes[j]) /\ Stops(j) # "nothing" /\ Stops(j) # "frame"
         /\ Star6e!Position(Stops(j)) = Undoes[j]
         /\ Star6e!StageOf(Stops(j)) = "bind" <=> j \in {1, 2}
         /\ \A i \in 1..17 : Takes(i) = Stops(j) => i = Undoes[j]
         /\ \A k \in 1..13 : Stops(k) = Stops(j) => k = j
<1>1. PICK u \in 1..16 : u = Undoes[j] /\ u \notin {2, 3, 11}
  BY StarCleanUpIs
<1>2. Stops(j) = Takes(u)
  BY <1>1, StarCleanUpIs DEF Stops, Takes
<1>3. Takes(u) # "nothing"
  BY <1>1, StarStartUpIs DEF Takes
<1>4. /\ Takes(u) # "frame" /\ Star6e!Position(Takes(u)) = u
      /\ Star6e!StageOf(Takes(u)) = Star6e!StartUp[u][1]
  BY <1>1, <1>3, StarStartUpIs DEF Takes
<1>5. Star6e!StartUp[u][1] = "bind" <=> u \in {15, 16}
  <2>1. \/ u = 1 \/ u \in 2..4 \/ u \in 5..8 \/ u \in 9..12 \/ u \in 13..14
        \/ u \in 15..16
    BY <1>1
  <2>2. QED BY <2>1, StarStartUpIs
<1>6. u \in {15, 16} <=> j \in {1, 2}
  BY <1>1, StarCleanUpIs
<1>7. ASSUME NEW i \in 1..17, Takes(i) = Stops(j)
      PROVE  i = u
  BY <1>2, <1>3, <1>7, StarStartUpIs DEF Takes
<1>8. ASSUME NEW k \in 1..13, Stops(k) = Stops(j)
      PROVE  k = j
  <2>1. PICK v \in 1..16 : v = Undoes[k]
    BY StarCleanUpIs
  <2>2. Takes(v) = Stops(j)
    BY <1>8, <2>1, StarCleanUpIs DEF Stops, Takes
  <2>3. v = u
    BY <1>7, <2>2
  <2>4. \A x \in 1..13, y \in 1..13 : Undoes[x] = Undoes[y] => x = y
    BY StarCleanUpIs
  <2>5. QED BY <1>1, <2>1, <2>3, <2>4, Zenon
<1>9. /\ Stops(j) # "nothing" /\ Stops(j) # "frame"
      /\ Star6e!Position(Stops(j)) = u
  BY <1>2, <1>3, <1>4
<1>10. Star6e!StageOf(Stops(j)) = "bind" <=> j \in {1, 2}
  BY <1>2, <1>4, <1>5, <1>6
<1>11. QED BY <1>1, <1>2, <1>7, <1>8, <1>9, <1>10

\* Where a stage begins, its label leads to what was taken before it.
LEMMA LabelOf ==
  ASSUME NEW i \in 2..17
  PROVE  \E f \in 2..i, g \in 1..13 :
           /\ Star6e!Goto(Star6e!OnFailure(Star6e!StartUp[i][1])) = g
           /\ Star6e!OnFailure(Star6e!StartUp[i][1]) # "return"
           /\ Star6e!StartUp[i][1] # "none"
           /\ \A k \in f..i : Star6e!StartUp[k][1] = Star6e!StartUp[i][1]
           /\ \A j \in g..13 : Undoes[j] < f \/ j \in {1, 2}
           /\ \A j \in 1..13 : Undoes[j] < f => j >= g
<1>1. PICK u : u = Undoes
  OBVIOUS
<1>2. /\ \A j \in 1..13 : u[j] < 2 <=> j >= 13
      /\ \A j \in 1..13 : u[j] < 5 <=> j >= 12
      /\ \A j \in 1..13 : u[j] < 9 <=> j >= 8
      /\ \A j \in 1..13 : u[j] < 13 <=> j >= 5
      /\ \A j \in 1..13 : u[j] < 15 \/ j \in {1, 2}
      /\ \A j \in 1..13 : u[j] < 17
  BY <1>1 DEF Undoes
<1>3. CASE i \in 2..4
  <2>1. /\ Star6e!StartUp[i][1] = "sensor"
        /\ \A k \in 2..i : Star6e!StartUp[k][1] = "sensor"
    BY <1>3, StarStartUpIs
  <2>2. Star6e!OnFailure("sensor") = "cleanup_sys"
    BY DEF Star6e!OnFailure
  <2>3. 2 \in 2..i /\ 13 \in 1..13
    BY <1>3
  <2>4. QED BY <1>1, <1>2, <2>1, <2>2, <2>3, LabelsAre
<1>4. CASE i \in 5..8
  <2>1. /\ Star6e!StartUp[i][1] = "vif"
        /\ \A k \in 5..i : Star6e!StartUp[k][1] = "vif"
    BY <1>4, StarStartUpIs
  <2>2. Star6e!OnFailure("vif") = "cleanup_sensor"
    BY DEF Star6e!OnFailure
  <2>3. 5 \in 2..i /\ 12 \in 1..13
    BY <1>4
  <2>4. QED BY <1>1, <1>2, <2>1, <2>2, <2>3, LabelsAre
<1>5. CASE i \in 9..12
  <2>1. /\ Star6e!StartUp[i][1] = "vpe"
        /\ \A k \in 9..i : Star6e!StartUp[k][1] = "vpe"
    BY <1>5, StarStartUpIs
  <2>2. Star6e!OnFailure("vpe") = "cleanup_vif"
    BY DEF Star6e!OnFailure
  <2>3. 9 \in 2..i /\ 8 \in 1..13
    BY <1>5
  <2>4. QED BY <1>1, <1>2, <2>1, <2>2, <2>3, LabelsAre
<1>6. CASE i \in 13..14
  <2>1. /\ Star6e!StartUp[i][1] = "venc"
        /\ \A k \in 13..i : Star6e!StartUp[k][1] = "venc"
    BY <1>6, StarStartUpIs
  <2>2. Star6e!OnFailure("venc") = "cleanup_vpe"
    BY DEF Star6e!OnFailure
  <2>3. 13 \in 2..i /\ 5 \in 1..13
    BY <1>6
  <2>4. QED BY <1>1, <1>2, <2>1, <2>2, <2>3, LabelsAre
<1>7. CASE i \in 15..16
  <2>1. /\ Star6e!StartUp[i][1] = "bind"
        /\ \A k \in 15..i : Star6e!StartUp[k][1] = "bind"
    BY <1>7, StarStartUpIs
  <2>2. Star6e!OnFailure("bind") = "cleanup_venc"
    BY DEF Star6e!OnFailure
  <2>3. 15 \in 2..i /\ 1 \in 1..13 /\ \A j \in 1..13 : j >= 1
    BY <1>7
  <2>4. QED BY <1>1, <1>2, <2>1, <2>2, <2>3, LabelsAre
<1>8. CASE i = 17
  <2>1. /\ Star6e!StartUp[i][1] = "socket"
        /\ \A k \in 17..i : Star6e!StartUp[k][1] = "socket"
    BY <1>8, StarStartUpIs
  <2>2. Star6e!OnFailure("socket") = "cleanup_venc"
    BY DEF Star6e!OnFailure
  <2>3. 17 \in 2..i /\ 1 \in 1..13 /\ \A j \in 1..13 : j >= 1
    BY <1>8
  <2>4. QED BY <1>1, <1>2, <2>1, <2>2, <2>3, LabelsAre
<1>9. i \in 2..4 \/ i \in 5..8 \/ i \in 9..12 \/ i \in 13..14 \/ i \in 15..16 \/ i = 17
  OBVIOUS
<1>10. QED BY <1>3, <1>4, <1>5, <1>6, <1>7, <1>8, <1>9

\* Main falls into a label with everything below it taken, but for a bind that
\* was not made, and has taken besides only what the failed stage had.
Falling(j) ==
  /\ \A k \in j..13 : Stops(k) \in held \/ (k \in {1, 2} /\ Stops(k) \notin bound)
  /\ \A k \in {1, 2} : Stops(k) \in held => Stops(k) \in bound
  /\ \A t \in held : \E i \in 1..17 :
       /\ t = Takes(i) /\ t # "nothing"
       /\ Star6e!StartUp[i][1] = failed \/ \E k \in j..13 : Undoes[k] = i

BoundIs == \A k \in {1, 2} : Stops(k) \in held <=> Stops(k) \in bound

StarShape ==
  platform = "star6e" =>
    /\ ~stray
    /\ phase \in {"start", "loop", "send", "release"} => BoundIs
    /\ phase = "start" => step \in 1..17 /\ held = Taken(step)
    /\ phase = "loop" => held = Taken(18)
    /\ phase \in {"send", "release"} => held = Taken(18) \cup {"frame"}
    /\ phase = "cleanup" => step \in 1..13 /\ Falling(step)
    /\ phase = "exited" =>
         \A t \in held : t # "frame" /\ Star6e!StageOf(t) = failed

\* One call of the start-up more.
LEMMA TakenGrows ==
  ASSUME StarShape, platform = "star6e", platform' = platform, Star6e!CallSucceeds
  PROVE  StarShape'
<1>1. /\ phase = "start" /\ step \in 1..17 /\ held = Taken(step) /\ BoundIs
      /\ ~stray /\ ~stray'
  BY DEF StarShape, Star6e!CallSucceeds
<1>2. PICK c : c = Takes(step)
  OBVIOUS
<1>3. /\ held' = IF c = "nothing" THEN held ELSE held \cup {c}
      /\ bound' = IF Star6e!StartUp[step][1] = "bind" THEN bound \cup {c} ELSE bound
  BY <1>2 DEF Star6e!CallSucceeds, Star6e!Thing, Star6e!Stage, Takes
<1>4. held' = Taken(step + 1)
  <2>1. /\ (step + 1) - 1 = step /\ 1..(step - 1) \subseteq 1..step
        /\ \A i \in 1..step : i = step \/ i \in 1..(step - 1)
        /\ step \in 1..step
    BY <1>1
  <2>2. {Takes(i) : i \in 1..step} = {Takes(i) : i \in 1..(step - 1)} \cup {c}
    BY <1>2, <2>1
  <2>3. QED BY <1>1, <1>3, <2>1, <2>2 DEF Taken
<1>5. BoundIs'
  <2>1. SUFFICES ASSUME NEW k \in {1, 2}
                 PROVE  Stops(k) \in held' <=> Stops(k) \in bound'
    BY DEF BoundIs, Stops
  <2>2. /\ Stops(k) # "nothing" /\ Star6e!StageOf(Stops(k)) = "bind"
        /\ k \in 1..13
    BY StopsAre
  <2>3. Stops(k) \in held <=> Stops(k) \in bound
    BY <1>1 DEF BoundIs
  <2>4. CASE Stops(k) = c
    <3>1. c # "nothing" /\ Star6e!StartUp[step][1] = "bind"
      BY <1>1, <1>2, <2>2, <2>4, StarStartUpIs DEF Takes
    <3>2. QED BY <1>3, <2>4, <3>1
  <2>5. CASE Stops(k) # c
    BY <1>3, <2>3, <2>5
  <2>6. QED BY <2>4, <2>5
<1>6. CASE step = 17
  <2>1. phase' = "loop"
    BY <1>6, StarStartUpIs DEF Star6e!CallSucceeds
  <2>2. held' = Taken(18)
    BY <1>4, <1>6
  <2>3. QED BY <1>1, <1>5, <2>1, <2>2 DEF StarShape
<1>7. CASE step # 17
  <2>1. phase' = "start" /\ step' = step + 1 /\ step + 1 \in 1..17
    BY <1>1, <1>7, StarStartUpIs DEF Star6e!CallSucceeds
  <2>2. QED BY <1>1, <1>4, <1>5, <2>1 DEF StarShape
<1>8. QED BY <1>6, <1>7

\* What is taken is in the list.
LEMMA TakenIs ==
  ASSUME NEW n \in 1..18, NEW t \in Taken(n)
  PROVE  \E i \in 1..(n - 1) : i \in 1..17 /\ t = Takes(i) /\ t # "nothing"
<1>1. 1..(n - 1) \subseteq 1..17
  OBVIOUS
<1>2. QED BY <1>1 DEF Taken

LEMMA FailureFalls ==
  ASSUME StarShape, platform = "star6e", platform' = platform, Star6e!CallFails
  PROVE  StarShape'
<1>1. /\ phase = "start" /\ step \in 1..17 /\ held = Taken(step) /\ BoundIs
      /\ ~stray /\ ~stray'
  BY DEF StarShape, Star6e!CallFails
<1>2. PICK s : s = Star6e!StartUp[step][1]
  OBVIOUS
<1>3. /\ held' = held /\ bound' = bound /\ failed' = s
      /\ IF Star6e!OnFailure(s) = "return"
           THEN phase' = "exited"
           ELSE phase' = "cleanup" /\ step' = Star6e!Goto(Star6e!OnFailure(s))
  BY <1>2 DEF Star6e!CallFails, Star6e!Stage
<1>4. CASE step = 1
  <2>1. held' = {}
    BY <1>1, <1>3, <1>4, TakenIs
  <2>2. Star6e!OnFailure(s) = "return"
    BY <1>2, <1>4, StarStartUpIs DEF Star6e!OnFailure
  <2>3. QED BY <1>1, <1>3, <2>1, <2>2 DEF StarShape
<1>5. CASE step \in 2..17
  <2>1. PICK f \in 2..step, g \in 1..13 :
          /\ Star6e!Goto(Star6e!OnFailure(s)) = g
          /\ Star6e!OnFailure(s) # "return"
          /\ \A k \in f..step : Star6e!StartUp[k][1] = s
          /\ \A j \in g..13 : Undoes[j] < f \/ j \in {1, 2}
          /\ \A j \in 1..13 : Undoes[j] < f => j >= g
    BY <1>2, <1>5, LabelOf
  <2>2. phase' = "cleanup" /\ step' = g
    BY <1>3, <2>1
  <2>3. ASSUME NEW k \in g..13
        PROVE  Stops(k) \in held \/ (k \in {1, 2} /\ Stops(k) \notin bound)
    <3>1. k \in 1..13 /\ Undoes[k] \in 1..16
      BY StarCleanUpIs
    <3>2. CASE Undoes[k] < f
      <4>1. Undoes[k] \in 1..(step - 1)
        BY <1>1, <2>1, <3>1, <3>2
      <4>2. Stops(k) = Takes(Undoes[k]) /\ Stops(k) # "nothing"
        BY <3>1, StopsAre
      <4>3. QED BY <1>1, <4>1, <4>2 DEF Taken
    <3>3. CASE k \in {1, 2}
      BY <1>1, <3>3 DEF BoundIs
    <3>4. QED BY <2>1, <3>2, <3>3
  <2>4. ASSUME NEW t \in held
        PROVE  \E i \in 1..17 :
                 /\ t = Takes(i) /\ t # "nothing"
                 /\ Star6e!StartUp[i][1] = s \/ \E k \in g..13 : Undoes[k] = i
    <3>1. PICK i \in 1..(step - 1) : i \in 1..17 /\ t = Takes(i) /\ t # "nothing"
      BY <1>1, TakenIs
    <3>2. CASE i < f
      <4>1. i \in 1..16 /\ i \notin {2, 3, 11}
        BY <1>1, <3>1, StarStartUpIs DEF Takes
      <4>2. PICK k \in 1..13 : Undoes[k] = i
        BY <4>1, StarCleanUpIs
      <4>3. k \in g..13
        BY <2>1, <3>2, <4>2
      <4>4. QED BY <3>1, <4>2, <4>3
    <3>3. CASE ~(i < f)
      <4>1. i \in f..step
        BY <1>1, <3>1, <3>3
      <4>2. QED BY <2>1, <3>1, <4>1
    <3>4. QED BY <3>2, <3>3
  <2>5. Falling(step)'
    <3>1. \A k \in {1, 2} : Stops(k) \in held => Stops(k) \in bound
      BY <1>1 DEF BoundIs
    <3>2. QED BY <1>3, <2>2, <2>3, <2>4, <3>1 DEF Falling, Stops, Takes
  <2>6. QED BY <1>1, <2>2, <2>5 DEF StarShape
<1>6. QED BY <1>1, <1>4, <1>5

\* The end of the loop falls into the first label with all but the socket.
LEMMA EndFalls ==
  ASSUME StarShape, platform = "star6e", platform' = platform, Star6e!CloseSocket
  PROVE  StarShape'
<1>1. /\ held = Taken(18) /\ BoundIs /\ ~stray /\ ~stray'
      /\ phase' = "cleanup" /\ step' = 1 /\ bound' = bound
      /\ held' = held \ {"socket"} /\ failed' = failed
  BY LabelsAre DEF StarShape, Star6e!CloseSocket, Star6e!LoopEnds
<1>2. \A i \in 1..17 : Takes(i) = "socket" => i = 17
  BY StarStartUpIs DEF Takes
<1>3. ASSUME NEW k \in 1..13
      PROVE  Stops(k) \in held /\ Stops(k) # "socket"
  <2>1. Undoes[k] \in 1..16 /\ Stops(k) = Takes(Undoes[k]) /\ Stops(k) # "nothing"
    BY StarCleanUpIs, StopsAre
  <2>2. PICK u \in 1..16 : u = Undoes[k] /\ Stops(k) = Takes(u)
    BY <2>1
  <2>3. u \in 1..(18 - 1) /\ u \in 1..17 /\ u # 17
    BY <2>2
  <2>4. QED BY <1>1, <1>2, <2>1, <2>2, <2>3 DEF Taken
<1>4. ASSUME NEW t \in held'
      PROVE  \E i \in 1..17 : /\ t = Takes(i) /\ t # "nothing"
                              /\ \E k \in 1..13 : Undoes[k] = i
  <2>1. t \in Taken(18) /\ t # "socket" /\ 18 \in 1..18
    BY <1>1
  <2>2. PICK i \in 1..17 : t = Takes(i) /\ t # "nothing"
    BY <2>1, TakenIs
  <2>3. i # 17 /\ i \notin {2, 3, 11}
    BY <2>1, <2>2, StarStartUpIs DEF Takes
  <2>4. i \in 1..16
    BY <2>3
  <2>5. QED BY <2>2, <2>3, <2>4, StarCleanUpIs
<1>5. \A k \in {1, 2} : Stops(k) \in held' => Stops(k) \in bound
  BY <1>1 DEF BoundIs
<1>6. \A k \in 1..13 : Stops(k) \in held'
  BY <1>1, <1>3
<1>7. Falling(step)'
  BY <1>1, <1>4, <1>5, <1>6 DEF Falling, Stops, Takes
<1>8. QED BY <1>1, <1>7 DEF StarShape

\* What is given back was held, and nothing of it stays.
LEMMA FallingStops ==
  ASSUME StarShape, platform = "star6e", Star6e!CleanUpCall
  PROVE  /\ phase = "cleanup" /\ step \in 1..13 /\ Falling(step)
         /\ held' = held \ {Stops(step)} /\ ~stray'
         /\ bound' = bound /\ failed' = failed
         /\ IF step = 13 THEN phase' = "exited"
                         ELSE step' = step + 1 /\ phase' = phase
<1>1. phase = "cleanup" /\ step \in 1..13 /\ Falling(step) /\ ~stray
  BY DEF StarShape, Star6e!CleanUpCall
<1>2. PICK b : b = (Star6e!StageOf(Stops(step)) = "bind" /\ Stops(step) \notin bound)
  OBVIOUS
<1>3. /\ held' = IF b THEN held ELSE held \ {Stops(step)}
      /\ stray' = (stray \/ (~b /\ Stops(step) \notin held))
  BY <1>2 DEF Star6e!CleanUpCall, Stops
<1>4. Star6e!StageOf(Stops(step)) = "bind" <=> step \in {1, 2}
  BY <1>1, StopsAre
<1>5. step \in step..13
  BY <1>1
<1>6. ~b => Stops(step) \in held
  BY <1>1, <1>2, <1>4, <1>5 DEF Falling
<1>7. b => Stops(step) \notin held
  BY <1>1, <1>2, <1>4 DEF Falling
<1>8. held' = held \ {Stops(step)}
  BY <1>3, <1>7
<1>9. ~stray'
  BY <1>1, <1>3, <1>6
<1>10. /\ bound' = bound /\ failed' = failed
       /\ IF step = 13 THEN phase' = "exited"
                       ELSE step' = step + 1 /\ phase' = phase
  BY StarCleanUpIs DEF Star6e!CleanUpCall
<1>11. QED BY <1>1, <1>8, <1>9, <1>10

LEMMA FallingKeeps ==
  ASSUME StarShape, platform = "star6e", platform' = platform, Star6e!CleanUpCall
  PROVE  StarShape'
<1>1. /\ step \in 1..13 /\ Falling(step)
      /\ held' = held \ {Stops(step)} /\ ~stray'
      /\ bound' = bound /\ failed' = failed
      /\ IF step = 13 THEN phase' = "exited"
                      ELSE step' = step + 1 /\ phase' = "cleanup"
  BY FallingStops
<1>2. ASSUME NEW t \in held'
      PROVE  \E i \in 1..17 :
               /\ t = Takes(i) /\ t # "nothing"
               /\ \/ Star6e!StartUp[i][1] = failed
                  \/ \E k \in (step + 1)..13 : Undoes[k] = i
  <2>1. t \in held /\ t # Stops(step)
    BY <1>1
  <2>2. PICK i \in 1..17 :
          /\ t = Takes(i) /\ t # "nothing"
          /\ Star6e!StartUp[i][1] = failed \/ \E k \in step..13 : Undoes[k] = i
    BY <1>1, <2>1 DEF Falling
  <2>3. ASSUME NEW k \in step..13, Undoes[k] = i
        PROVE  k \in (step + 1)..13
    <3>1. k \in 1..13 /\ Stops(k) = t
      BY <1>1, <2>2, <2>3, StopsAre
    <3>2. k # step
      BY <2>1, <3>1
    <3>3. QED BY <1>1, <3>2
  <2>4. QED BY <2>2, <2>3
<1>3. CASE step = 13
  <2>1. ASSUME NEW t \in held'
        PROVE  t # "frame" /\ Star6e!StageOf(t) = failed
    <3>1. PICK i \in 1..17 :
            /\ t = Takes(i) /\ t # "nothing"
            /\ \/ Star6e!StartUp[i][1] = failed
               \/ \E k \in (step + 1)..13 : Undoes[k] = i
      BY <1>2
    <3>2. (step + 1)..13 = {}
      BY <1>3
    <3>3. Star6e!StartUp[i][1] = failed
      BY <3>1, <3>2
    <3>4. QED BY <3>1, <3>3, StarStartUpIs DEF Takes
  <2>2. QED BY <1>1, <1>3, <2>1 DEF StarShape
<1>4. CASE step # 13
  <2>1. step' = step + 1 /\ phase' = "cleanup" /\ step + 1 \in 1..13
    BY <1>1, <1>4
  <2>2. ASSUME NEW k \in (step + 1)..13
        PROVE  Stops(k) \in held' \/ (k \in {1, 2} /\ Stops(k) \notin bound)
    <3>1. k \in step..13 /\ k \in 1..13 /\ k # step
      BY <1>1
    <3>2. Stops(k) # Stops(step)
      BY <1>1, <3>1, StopsAre
    <3>3. QED BY <1>1, <3>1, <3>2 DEF Falling
  <2>3. \A k \in {1, 2} : Stops(k) \in held' => Stops(k) \in bound
    BY <1>1 DEF Falling
  <2>4. Falling(step)'
    BY <1>1, <1>2, <2>1, <2>2, <2>3 DEF Falling, Stops, Takes
  <2>5. QED BY <1>1, <2>1, <2>4 DEF StarShape
<1>5. QED BY <1>3, <1>4

LEMMA StarHolds == Spec => []StarShape
<1>1. Init => StarShape
  <2>1. Taken(1) = {}
    BY DEF Taken
  <2>2. SUFFICES ASSUME Init, platform = "star6e"
                 PROVE  StarShape
    BY DEF StarShape
  <2>3. phase = "start" /\ step = 1 /\ held = {} /\ bound = {} /\ ~stray
    BY <2>2 DEF Init, Star6e!Init
  <2>4. BoundIs
    BY <2>3 DEF BoundIs
  <2>5. QED BY <2>1, <2>3, <2>4 DEF StarShape
<1>2. StarShape /\ [Next]_vars => StarShape'
  <2>1. SUFFICES ASSUME StarShape, [Next]_vars, platform' = "star6e"
                 PROVE  StarShape'
    BY DEF StarShape
  <2>2. platform = "star6e"
    BY <2>1 DEF Next, Main, Signal, Receives, Ended, vars
  <2>3. "frame" \notin Taken(18)
    <3>1. \A i \in 1..17 : Takes(i) # "frame"
      BY StarStartUpIs DEF Takes
    <3>2. 18 \in 1..18
      OBVIOUS
    <3>3. QED BY <3>1, <3>2, TakenIs
  <2>4. \A k \in {1, 2} : Stops(k) # "frame"
    <3>1. 1 \in 1..13 /\ 2 \in 1..13
      OBVIOUS
    <3>2. QED BY <3>1, StopsAre
  <2>5. CASE Star6e!Main
    <3>1. CASE Star6e!CallSucceeds
      BY <2>1, <2>2, <3>1, TakenGrows
    <3>2. CASE Star6e!CallFails
      BY <2>1, <2>2, <3>2, FailureFalls
    <3>3. CASE Star6e!GetStream
      <4>1. /\ held = Taken(18) /\ BoundIs /\ ~stray' /\ phase' = "send"
            /\ held' = Taken(18) \cup {"frame"} /\ bound' = bound
        BY <2>1, <2>2, <3>3 DEF Star6e!GetStream, Star6e!LoopGoesOn, StarShape
      <4>2. BoundIs'
        BY <2>4, <4>1 DEF BoundIs, Stops
      <4>3. QED BY <4>1, <4>2 DEF StarShape
    <3>4. CASE Star6e!GetStreamFails \/ Star6e!SendWhole \/ Star6e!SendFragment
      <4>1. /\ held' = held /\ bound' = bound /\ stray' = stray
            /\ \/ phase = "loop" /\ phase' = "loop"
               \/ phase = "send" /\ phase' \in {"send", "release"}
        BY <3>4 DEF Star6e!GetStreamFails, Star6e!LoopGoesOn, Star6e!SendWhole,
           Star6e!SendFragment, Star6e!sendVars
      <4>2. QED BY <2>1, <2>2, <4>1 DEF StarShape, BoundIs, Stops
    <3>5. CASE Star6e!ReleaseStream
      <4>1. /\ held = Taken(18) \cup {"frame"} /\ BoundIs /\ ~stray'
            /\ phase' = "loop" /\ held' = held \ {"frame"} /\ bound' = bound
        BY <2>1, <2>2, <3>5 DEF Star6e!ReleaseStream, StarShape
      <4>2. held' = Taken(18)
        BY <2>3, <4>1
      <4>3. BoundIs'
        BY <2>4, <4>1 DEF BoundIs, Stops
      <4>4. QED BY <4>1, <4>2, <4>3 DEF StarShape
    <3>6. CASE Star6e!CloseSocket
      BY <2>1, <2>2, <3>6, EndFalls
    <3>7. CASE Star6e!CleanUpCall
      BY <2>1, <2>2, <3>7, FallingKeeps
    <3>8. QED
      BY <2>5, <3>1, <3>2, <3>3, <3>4, <3>5, <3>6, <3>7 DEF Star6e!Main
  <2>6. ASSUME UNCHANGED <<phase, step, held, bound, failed, stray>>
        PROVE  StarShape'
    BY <2>1, <2>2, <2>6 DEF StarShape, BoundIs, Falling, Stops, Takes
  <2>7. Star6e!Main \/ UNCHANGED <<phase, step, held, bound, failed, stray>>
    BY <2>1, <2>2 DEF Next, Main, Signal, Receives, Ended, vars, star6eVars,
       Star6e!Interrupt
  <2>8. QED BY <2>5, <2>6, <2>7
<1>3. QED BY <1>1, <1>2, PTL DEF Spec

-----------------------------------------------------------------------------
(***************************************************************************)
(* The exit paths of both.                                                 *)
(***************************************************************************)

\* Whichever call failed, seen or not, and wherever the signal came, venc on
\* either platform stops only what it started, and what it leaves is known.
THEOREM CleanUpsAreExact == Spec => []CleanUpIsExact
<1>1. VencShape /\ StarShape => CleanUpIsExact
  BY DEF VencShape, StarShape, CleanUpIsExact, VencPlatforms
<1>2. QED BY <1>1, VencHolds, StarHolds, PTL

\* A step of HiSilicon's main gives back in reverse.
LEMMA VencReverse ==
  ASSUME VencShape, platform = "venc", NEW thing \in held, thing \notin held',
         thing # "isp", Venc!Main, NEW later \in held,
         Venc!Position(later) > Venc!Position(thing)
  PROVE  later \notin ToSet(Venc!CleanUp)
<1>1. CASE Venc!CleanUpCall
  <2>1. /\ step \in 1..9 /\ thing = Venc!CleanUp[step]
        /\ \A j \in 1..9 : Venc!CleanUp[j] \in held <=> j >= step
    BY <1>1 DEF Venc!CleanUpCall, VencShape
  <2>2. step \in 2..9
    BY <2>1, VencCleanUpIs
  <2>3. SUFFICES ASSUME NEW k \in 1..9, later = Venc!CleanUp[k]
                 PROVE  FALSE
    BY VencCleanUpIs DEF ToSet
  <2>4. k >= step
    BY <2>1, <2>3
  <2>5. k # step
    <3>1. CASE k = step
      <4>1. later = thing
        BY <2>1, <2>3, <3>1
      <4>2. PICK p \in 1..36 : thing = Venc!StartUp[p]
        BY <1>1 DEF Venc!CleanUpCall, VencShape
      <4>3. Venc!Position(thing) \in Int
        BY <4>2, VencStartUpIs
      <4>4. QED BY <4>1, <4>3
    <3>2. QED BY <3>1
  <2>6. k \in 2..9 /\ step < k
    BY <2>2, <2>4, <2>5
  <2>7. Venc!Position(thing) > Venc!Position(later)
    BY <2>1, <2>2, <2>3, <2>6, VencCleanUpIs
  <2>8. PICK p \in 1..36, q \in 1..36 :
          thing = Venc!StartUp[p] /\ later = Venc!StartUp[q]
    BY <1>1 DEF Venc!CleanUpCall, VencShape
  <2>9. Venc!Position(thing) = p /\ Venc!Position(later) = q
    BY <2>8, VencStartUpIs
  <2>10. QED BY <2>7, <2>9
<1>2. CASE Venc!CallFailsUnseen
  <2>1. /\ phase = "start" /\ step \in 1..36 /\ SetUp(held, step)
        /\ thing = "vb" /\ Venc!StartUp[step] = "sys"
    BY <1>2 DEF Venc!CallFailsUnseen, Venc!Call, VencShape
  <2>2. step = 4
    <3>1. Venc!StartUp[step] = Venc!StartUp[4] /\ 4 \in 1..36
      BY <2>1, VencStartUpIs
    <3>2. QED BY <2>1, <3>1, VencStartUpIs
  <2>3. PICK q \in 1..3 : later = Venc!StartUp[q]
    BY <2>1, <2>2 DEF SetUp
  <2>4. q \in 1..36 /\ 3 \in 1..36
    OBVIOUS
  <2>5. Venc!Position(later) = q /\ Venc!Position(thing) = 3
    BY <2>1, <2>3, <2>4, VencStartUpIs
  <2>6. QED BY <2>5
<1>3. CASE Venc!CallSucceeds
  BY <1>3 DEF Venc!CallSucceeds
<1>4. CASE Venc!SkipOption \/ Venc!CallFails \/ Venc!LoopEnds
  BY <1>4 DEF Venc!SkipOption, Venc!CallFails, Venc!LoopEnds
<1>5. QED BY <1>1, <1>2, <1>3, <1>4 DEF Venc!Main

\* And of Star6E's.
LEMMA StarReverse ==
  ASSUME StarShape, platform = "star6e", NEW thing \in held, thing \notin held',
         Star6e!Main, NEW later \in held,
         Star6e!Position(later) > Star6e!Position(thing)
  PROVE  Star6e!StageOf(later) = failed
<1>1. \A i \in 1..17 : Takes(i) # "nothing" =>
        Star6e!Position(Takes(i)) = i /\ Star6e!StageOf(Takes(i)) = Star6e!StartUp[i][1]
  BY StarStartUpIs DEF Takes
<1>2. CASE Star6e!CleanUpCall
  <2>1. step \in 1..13 /\ Falling(step) /\ thing = Stops(step)
    BY <1>2, FallingStops
  <2>2. Star6e!Position(thing) = Undoes[step] /\ Undoes[step] \in 1..16
    BY <2>1, StopsAre, StarCleanUpIs
  <2>3. PICK i \in 1..17 :
          /\ later = Takes(i) /\ later # "nothing"
          /\ Star6e!StartUp[i][1] = failed \/ \E k \in step..13 : Undoes[k] = i
    BY <2>1 DEF Falling
  <2>4. Star6e!Position(later) = i /\ Star6e!StageOf(later) = Star6e!StartUp[i][1]
    BY <1>1, <2>3
  <2>5. ASSUME NEW k \in step..13, Undoes[k] = i
        PROVE  FALSE
    <3>1. k \in 1..13 /\ (k = step \/ step < k)
      BY <2>1
    <3>2. step < k => Undoes[step] > Undoes[k]
      BY <2>1, <3>1, StarCleanUpIs
    <3>3. k \in 1..13 /\ Undoes[k] \in 1..16
      BY <3>1, StarCleanUpIs
    <3>4. i > Undoes[step]
      BY <2>2, <2>4
    <3>5. QED BY <2>2, <2>5, <3>1, <3>2, <3>3, <3>4
  <2>6. QED BY <2>3, <2>4, <2>5
<1>3. CASE Star6e!ReleaseStream \/ Star6e!CloseSocket
  <2>1. \/ thing = "frame" /\ held = Taken(18) \cup {"frame"}
        \/ thing = "socket" /\ held = Taken(18)
    BY <1>3 DEF StarShape, Star6e!ReleaseStream, Star6e!CloseSocket, Star6e!LoopEnds
  <2>2. Star6e!Position("frame") = 18 /\ Star6e!Position("socket") = 17
    BY StarStartUpIs, <1>1 DEF Takes
  <2>3. 18 \in 1..18
    OBVIOUS
  <2>4. \A t \in Taken(18) : \E i \in 1..17 : Star6e!Position(t) = i
    BY <1>1, <2>3, TakenIs
  <2>5. QED BY <2>1, <2>2, <2>4
<1>4. CASE Star6e!CallSucceeds \/ Star6e!GetStream
  BY <1>4 DEF Star6e!CallSucceeds, Star6e!GetStream
<1>5. CASE Star6e!CallFails \/ Star6e!GetStreamFails \/ Star6e!SendWhole
  BY <1>5 DEF Star6e!CallFails, Star6e!GetStreamFails, Star6e!SendWhole
<1>6. CASE Star6e!SendFragment
  BY <1>6 DEF Star6e!SendFragment
<1>7. QED BY <1>2, <1>3, <1>4, <1>5, <1>6 DEF Star6e!Main

\* Whatever fails, what venc gives back goes in the reverse of the order it
\* was taken in.
THEOREM CleanUpsReverse == Spec => UndoneInReverse
<1>1. VencShape /\ StarShape /\ [Next]_vars => [ReverseStep]_vars
  <2>1. SUFFICES ASSUME VencShape, StarShape, [Next]_vars,
                        platform \in VencPlatforms,
                        NEW thing \in held \ held', thing # "isp",
                        NEW later \in held, TakenAfter(later, thing)
                 PROVE  Outlives(later)
    BY DEF ReverseStep
  <2>2. held' # held
    BY <2>1
  <2>3. CASE platform = "venc"
    <3>1. Venc!Main
      BY <2>1, <2>2, <2>3 DEF Next, Main, Signal, Receives, Ended, vars,
         Venc!Interrupt, Venc!Killed
    <3>2. QED BY <2>1, <2>3, <3>1, VencReverse DEF TakenAfter, Outlives
  <2>4. CASE platform = "star6e"
    <3>1. Star6e!Main
      BY <2>1, <2>2, <2>4 DEF Next, Main, Signal, Receives, Ended, vars,
         Star6e!Interrupt
    <3>2. QED BY <2>1, <2>4, <3>1, StarReverse DEF TakenAfter, Outlives
  <2>5. QED BY <2>1, <2>3, <2>4 DEF VencPlatforms
<1>2. QED BY <1>1, VencHolds, StarHolds, PTL DEF Spec, UndoneInReverse
=============================================================================
