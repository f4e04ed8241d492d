------------------------- MODULE TelemetryPathProofs -------------------------
(***************************************************************************)
(* Proofs about TelemetryQueue for every queue size and set of items, then *)
(* about TelemetryPath for every set of frames, every value of the two     *)
(* markers and any number of losses.                                       *)
(*                                                                         *)
(* What the parser hands over is always what some frame carries, so each   *)
(* step of the path is one of the queue or leaves the queue alone, and     *)
(* what is proved of the queue holds when telemetry feeds it.              *)
(***************************************************************************)
EXTENDS TelemetryPath, SequenceTheorems, TLAPS

-----------------------------------------------------------------------------
(***************************************************************************)
(* The queue by itself.                                                    *)
(***************************************************************************)
USE QueueAssumption

\* The remainder of an index that went past the end at most once.
LEMMA WrapIs ==
  ASSUME NEW x \in 0..(2 * MAX_QUEUE_SIZE - 1)
  PROVE  x % MAX_QUEUE_SIZE = IF x < MAX_QUEUE_SIZE THEN x ELSE x - MAX_QUEUE_SIZE
<1>1. CASE x < MAX_QUEUE_SIZE
  BY <1>1
<1>2. CASE x >= MAX_QUEUE_SIZE
  <2>1. x = MAX_QUEUE_SIZE * 1 + (x - MAX_QUEUE_SIZE)
    BY <1>2
  <2>2. x - MAX_QUEUE_SIZE \in 0..(MAX_QUEUE_SIZE - 1)
    BY <1>2
  <2>3. QED BY <1>2, <2>1, <2>2
<1>3. QED BY <1>1, <1>2

At(k) == (front + k) % MAX_QUEUE_SIZE    \* slot number k after the front

\* The next slot to write is the one after the last item.
RingShape == Succ(rear) = At(size)

IInv == TypeOK /\ NoLostSignal /\ RingShape

LEMMA SlotsInRange ==
  ASSUME TypeOK, NEW k \in 0..MAX_QUEUE_SIZE
  PROVE  At(k) \in Index
BY WrapIs DEF TypeOK, At, Index

LEMMA SuccInRange ==
  ASSUME NEW i \in Index \cup {-1}
  PROVE  Succ(i) = (IF i + 1 < MAX_QUEUE_SIZE THEN i + 1 ELSE 0) /\ Succ(i) \in Index
<1>1. i + 1 \in 0..(2 * MAX_QUEUE_SIZE - 1)
  BY DEF Index
<1>2. QED BY <1>1, WrapIs DEF Succ, Index

\* The slot number k after front f, in terms of f and k alone.
LEMMA AtIs ==
  ASSUME NEW f \in Index, NEW k \in 0..MAX_QUEUE_SIZE
  PROVE  (f + k) % MAX_QUEUE_SIZE =
           IF f + k < MAX_QUEUE_SIZE THEN f + k ELSE f + k - MAX_QUEUE_SIZE
<1>1. f + k \in 0..(2 * MAX_QUEUE_SIZE - 1)
  BY DEF Index
<1>2. PICK x \in 0..(2 * MAX_QUEUE_SIZE - 1) : x = f + k
  BY <1>1
<1>3. x % MAX_QUEUE_SIZE = IF x < MAX_QUEUE_SIZE THEN x ELSE x - MAX_QUEUE_SIZE
  BY WrapIs
<1>4. QED BY <1>2, <1>3 DEF Index

-----------------------------------------------------------------------------
LEMMA InitInv == Init => IInv
<1>1. SUFFICES ASSUME Init PROVE IInv
  OBVIOUS
<1>2. TypeOK /\ NoLostSignal
  BY <1>1 DEF Init, TypeOK, NoLostSignal, Index, Threads
<1>3. Succ(rear) = 0 /\ At(size) = 0
  BY <1>1, WrapIs DEF Init, Succ, At
<1>4. QED BY <1>2, <1>3 DEF IInv, RingShape

\* A signal can only wake the thread that is not running.
LEMMA SignalWakes ==
  ASSUME TypeOK, Signal
  PROVE  /\ waiting' \subseteq waiting
         /\ \A t \in Threads : waiting \subseteq {t} => t \notin waiting'
BY DEF Signal, TypeOK, Threads

LEMMA NextInv == IInv /\ [Next]_vars => IInv'
<1>1. SUFFICES ASSUME TypeOK, NoLostSignal, RingShape, [Next]_vars PROVE IInv'
  BY DEF IInv
<1>2. CASE EnqueueWait
  BY <1>1, <1>2 DEF EnqueueWait, Full, Wait, IInv, TypeOK, NoLostSignal, RingShape, At,
     Succ, Threads
<1>3. ASSUME NEW item \in Item, Enqueue(item) PROVE IInv'
  <2>1. rear' = Succ(rear) /\ rear' = At(size) /\ rear' \in Index
    BY <1>1, <1>3, SuccInRange DEF Enqueue, Full, RingShape, TypeOK
  <2>2. waiting' \subseteq waiting /\ "consumer" \notin waiting'
    BY <1>1, <1>3, SignalWakes DEF Enqueue, Full, TypeOK, Threads
  <2>3. TypeOK'
    BY <1>1, <1>3, <2>1, <2>2 DEF Enqueue, Full, TypeOK, Index
  <2>4. NoLostSignal'
    BY <1>1, <1>3, <2>2 DEF Enqueue, Full, NoLostSignal
  <2>5. RingShape'
    <3>1. front' = front /\ size' = size + 1 /\ size < MAX_QUEUE_SIZE
      BY <1>1, <1>3 DEF Enqueue, Full, TypeOK
    <3>2. front \in Index /\ size \in 0..MAX_QUEUE_SIZE /\ size + 1 \in 0..MAX_QUEUE_SIZE
      BY <1>1, <3>1 DEF TypeOK
    <3>3. rear' = IF front + size < MAX_QUEUE_SIZE THEN front + size
                                      ELSE front + size - MAX_QUEUE_SIZE
      BY <2>1, <3>2, AtIs DEF At
    <3>4. (front + (size + 1)) % MAX_QUEUE_SIZE =
            IF front + (size + 1) < MAX_QUEUE_SIZE THEN front + (size + 1)
                                   ELSE front + (size + 1) - MAX_QUEUE_SIZE
      BY <3>2, AtIs
    <3>5. At(size)' = (front + (size + 1)) % MAX_QUEUE_SIZE
      BY <3>1 DEF At
    <3>6. Succ(rear') = IF rear' + 1 < MAX_QUEUE_SIZE THEN rear' + 1 ELSE 0
      BY <2>1, SuccInRange
    <3>7. Succ(rear') = At(size)'
      BY <3>2, <3>3, <3>4, <3>5, <3>6 DEF Index
    <3>8. QED BY <3>7 DEF RingShape, Succ
  <2>6. QED BY <2>3, <2>4, <2>5 DEF IInv
<1>4. CASE DequeueWait
  BY <1>1, <1>4 DEF DequeueWait, Wait, IInv, TypeOK, NoLostSignal, RingShape, At,
     Succ, Threads
<1>5. CASE Dequeue
  <2>1. front' = Succ(front) /\ front' \in Index
    BY <1>1, <1>5, SuccInRange DEF Dequeue, TypeOK
  <2>2. waiting' \subseteq waiting /\ "producer" \notin waiting'
    BY <1>1, <1>5, SignalWakes DEF Dequeue, TypeOK, Threads
  <2>3. TypeOK'
    <3>1. data[front] \in Item \cup {NoItem}
      BY <1>1 DEF TypeOK
    <3>2. QED BY <1>1, <1>5, <2>1, <2>2, <3>1 DEF Dequeue, TypeOK
  <2>4. NoLostSignal'
    BY <1>1, <1>5, <2>2 DEF Dequeue, NoLostSignal
  <2>5. RingShape'
    <3>1. rear' = rear /\ size' = size - 1 /\ size > 0
      BY <1>1, <1>5 DEF Dequeue, TypeOK
    <3>2. front' = IF front + 1 < MAX_QUEUE_SIZE THEN front + 1 ELSE 0
      BY <1>1, <2>1, SuccInRange DEF TypeOK
    <3>3. /\ front \in Index /\ size \in 0..MAX_QUEUE_SIZE
          /\ front' \in Index /\ size - 1 \in 0..MAX_QUEUE_SIZE
      BY <1>1, <2>1, <3>1 DEF TypeOK
    <3>4. At(size) = IF front + size < MAX_QUEUE_SIZE THEN front + size
                                        ELSE front + size - MAX_QUEUE_SIZE
      BY <3>3, AtIs DEF At
    <3>5. (front' + (size - 1)) % MAX_QUEUE_SIZE =
            IF front' + (size - 1) < MAX_QUEUE_SIZE THEN front' + (size - 1)
                                   ELSE front' + (size - 1) - MAX_QUEUE_SIZE
      BY <3>3, AtIs
    <3>6. At(size)' = (front' + (size - 1)) % MAX_QUEUE_SIZE
      BY <3>1 DEF At
    <3>7. At(size) = At(size)'
      BY <3>1, <3>2, <3>3, <3>4, <3>5, <3>6 DEF Index
    <3>8. QED BY <1>1, <3>1, <3>7 DEF RingShape, Succ
  <2>6. QED BY <2>3, <2>4, <2>5 DEF IInv
<1>6. CASE SpuriousWakeup
  BY <1>1, <1>6 DEF SpuriousWakeup, IInv, TypeOK, NoLostSignal, RingShape, At, Succ
<1>7. CASE UNCHANGED vars
  BY <1>1, <1>7 DEF vars, IInv, TypeOK, NoLostSignal, RingShape, At, Succ
<1>8. QED
  BY <1>1, <1>2, <1>3, <1>4, <1>5, <1>6, <1>7
  DEF Next, Producer, Consumer, NoTelemetry

LEMMA InvHolds == Spec => []IInv
BY InitInv, NextInv, PTL DEF Spec

\* Type correctness: the indices stay inside the ring, the count in its range.
THEOREM TypeCorrect == Spec => []TypeOK
<1>1. IInv => TypeOK
  BY DEF IInv
<1>2. QED BY <1>1, InvHolds, PTL

\* No signal is lost to the wrong waiter, and the threads never both wait.
THEOREM SignalsReach == Spec => []NoLostSignal
<1>1. IInv => NoLostSignal
  BY DEF IInv
<1>2. QED BY <1>1, InvHolds, PTL

-----------------------------------------------------------------------------
(***************************************************************************)
(* The queue implements BoundedFifo: read from front on, size slots of the *)
(* ring are what is inside.                                                *)
(***************************************************************************)
Inside == [i \in 1..size |-> data[(front + i - 1) % MAX_QUEUE_SIZE]]

\* Different slots after the front are different slots of the ring.
LEMMA SlotsDiffer ==
  ASSUME NEW f \in Index, NEW j \in 0..MAX_QUEUE_SIZE, NEW k \in 0..MAX_QUEUE_SIZE,
         j < k, k < MAX_QUEUE_SIZE
  PROVE  (f + j) % MAX_QUEUE_SIZE # (f + k) % MAX_QUEUE_SIZE
<1>1. (f + j) % MAX_QUEUE_SIZE =
        IF f + j < MAX_QUEUE_SIZE THEN f + j ELSE f + j - MAX_QUEUE_SIZE
  BY AtIs
<1>2. (f + k) % MAX_QUEUE_SIZE =
        IF f + k < MAX_QUEUE_SIZE THEN f + k ELSE f + k - MAX_QUEUE_SIZE
  BY AtIs
<1>3. QED BY <1>1, <1>2 DEF Index

\* A function that agrees with a sequence on all of its indices is that sequence.
LEMMA AgreeingIsEqual ==
  ASSUME NEW S, NEW t \in Seq(S), NEW s, s = [i \in 1..Len(t) |-> s[i]],
         \A i \in 1..Len(t) : s[i] = t[i]
  PROVE  s = t
<1>1. Len(t) \in Nat /\ t = [i \in 1..Len(t) |-> t[i]]
  BY LenProperties
<1>2. QED BY <1>1

\* What is inside, slot by slot.
LEMMA InsideIs ==
  ASSUME TypeOK
  PROVE  /\ Inside \in Seq(Item \cup {NoItem}) /\ Len(Inside) = size
         /\ \A i \in 1..size : Inside[i] = data[At(i - 1)]
<1>1. size \in Nat
  BY DEF TypeOK
<1>2. ASSUME NEW i \in 1..size
      PROVE  /\ data[(front + i - 1) % MAX_QUEUE_SIZE] \in Item \cup {NoItem}
             /\ Inside[i] = data[At(i - 1)]
  <2>1. i - 1 \in 0..MAX_QUEUE_SIZE /\ front + i - 1 = front + (i - 1)
    BY DEF TypeOK, Index
  <2>2. At(i - 1) \in Index
    BY <2>1, SlotsInRange
  <2>3. QED BY <2>1, <2>2 DEF At, TypeOK, Inside
<1>3. QED BY <1>1, <1>2 DEF Inside

\* An item goes in behind the last one.
LEMMA EnqueuePuts ==
  ASSUME IInv, NEW item \in Item, Enqueue(item), IInv'
  PROVE  Fifo!Put(item)
<1>1. /\ TypeOK /\ TypeOK' /\ RingShape
      /\ front' = front /\ size' = size + 1 /\ size < MAX_QUEUE_SIZE
      /\ size \in 0..MAX_QUEUE_SIZE /\ front \in Index
      /\ rear' = Succ(rear) /\ taken' = taken
      /\ data' = [data EXCEPT ![rear'] = item]
  BY DEF IInv, Enqueue, Full, TypeOK
<1>2. rear' = At(size) /\ rear' \in Index
  BY <1>1, SlotsInRange DEF RingShape
<1>3. data'[rear'] = item /\ \A s \in Index : s # rear' => data'[s] = data[s]
  BY <1>1, <1>2 DEF TypeOK
<1>4. /\ Inside \in Seq(Item \cup {NoItem}) /\ Len(Inside) = size
      /\ \A i \in 1..size : Inside[i] = data[At(i - 1)]
  BY <1>1, InsideIs
<1>5. \A i \in 1..size' : Inside'[i] = data'[(front + i - 1) % MAX_QUEUE_SIZE]
  BY <1>1 DEF Inside
<1>6. /\ Append(Inside, item) \in Seq(Item \cup {NoItem})
      /\ Len(Append(Inside, item)) = size + 1
      /\ \A i \in 1..size : Append(Inside, item)[i] = Inside[i]
      /\ Append(Inside, item)[size + 1] = item
  BY <1>4, AppendProperties
<1>7. ASSUME NEW i \in 1..(size + 1) PROVE Inside'[i] = Append(Inside, item)[i]
  <2>1. i - 1 \in 0..MAX_QUEUE_SIZE /\ front + i - 1 = front + (i - 1) /\ i \in 1..size'
    BY <1>1 DEF Index
  <2>2. Inside'[i] = data'[At(i - 1)] /\ At(i - 1) \in Index
    BY <1>1, <1>5, <2>1, SlotsInRange DEF At
  <2>3. CASE i = size + 1
    <3>1. i - 1 = size
      BY <1>1, <2>3
    <3>2. Inside'[i] = item
      BY <1>2, <1>3, <2>2, <3>1
    <3>3. QED BY <1>6, <2>3, <3>2
  <2>4. CASE i \in 1..size
    <3>1. At(i - 1) # At(size)
      BY <1>1, <2>1, <2>4, SlotsDiffer DEF At
    <3>2. QED BY <1>6, <1>2, <1>3, <1>4, <2>2, <2>4, <3>1
  <2>5. i = size + 1 \/ i \in 1..size
    BY <1>1
  <2>6. QED BY <2>3, <2>4, <2>5
<1>8. Inside' = [i \in 1..(size + 1) |-> Inside'[i]]
  BY <1>1 DEF Inside
<1>9. Inside' = Append(Inside, item)
  BY <1>6, <1>7, <1>8, AgreeingIsEqual
<1>10. QED BY <1>1, <1>4, <1>9 DEF Fifo!Put, Inside

\* The first item comes out.
LEMMA DequeueTakes ==
  ASSUME IInv, Dequeue, IInv'
  PROVE  Fifo!Take
<1>1. /\ TypeOK /\ TypeOK'
      /\ size \in 1..MAX_QUEUE_SIZE /\ size' = size - 1 /\ data' = data
      /\ front \in Index /\ front' = Succ(front) /\ front' \in Index
      /\ taken' = Append(taken, data[front])
  BY DEF IInv, Dequeue, TypeOK
<1>2. front' = IF front + 1 < MAX_QUEUE_SIZE THEN front + 1 ELSE 0
  BY <1>1, SuccInRange
<1>3. /\ Inside \in Seq(Item \cup {NoItem}) /\ Len(Inside) = size
      /\ \A i \in 1..size : Inside[i] = data[At(i - 1)]
  BY <1>1, InsideIs
<1>4. Inside # <<>> /\ Head(Inside) = data[front]
  <2>1. At(0) = front
    <3>1. (front + 0) % MAX_QUEUE_SIZE =
            IF front + 0 < MAX_QUEUE_SIZE THEN front + 0 ELSE front + 0 - MAX_QUEUE_SIZE
      BY <1>1, AtIs
    <3>2. QED BY <1>1, <3>1 DEF At, Index
  <2>2. QED BY <1>1, <1>3, <2>1
<1>5. ASSUME NEW i \in 1..(size - 1) PROVE Inside'[i] = Inside[i + 1]
  <2>1. i - 1 \in 0..MAX_QUEUE_SIZE /\ i \in 0..MAX_QUEUE_SIZE /\ i + 1 \in 1..size
    BY <1>1
  <2>2. Inside'[i] = data[(front' + i - 1) % MAX_QUEUE_SIZE]
    BY <1>1 DEF Inside
  <2>3. front' + i - 1 = front' + (i - 1)
    BY <1>1 DEF Index
  <2>4. (front' + (i - 1)) % MAX_QUEUE_SIZE =
          IF front' + (i - 1) < MAX_QUEUE_SIZE THEN front' + (i - 1)
                                 ELSE front' + (i - 1) - MAX_QUEUE_SIZE
    BY <1>1, <2>1, AtIs
  <2>5. (front + i) % MAX_QUEUE_SIZE =
          IF front + i < MAX_QUEUE_SIZE THEN front + i ELSE front + i - MAX_QUEUE_SIZE
    BY <1>1, <2>1, AtIs
  <2>6. (front' + (i - 1)) % MAX_QUEUE_SIZE = (front + i) % MAX_QUEUE_SIZE
    BY <1>1, <1>2, <2>1, <2>4, <2>5 DEF Index
  <2>7. Inside[i + 1] = data[(front + i) % MAX_QUEUE_SIZE]
    <3>1. (i + 1) - 1 = i
      OBVIOUS
    <3>2. QED BY <1>3, <2>1, <3>1 DEF At
  <2>8. QED BY <2>2, <2>3, <2>6, <2>7
<1>6. Inside' = [i \in 1..(size - 1) |-> Inside'[i]]
  BY <1>1 DEF Inside
<1>7. /\ Tail(Inside) \in Seq(Item \cup {NoItem})
      /\ Len(Tail(Inside)) = size - 1
      /\ \A i \in 1..(size - 1) : Tail(Inside)[i] = Inside[i + 1]
  BY <1>1, <1>3, <1>4, HeadTailProperties
<1>8. Inside' = Tail(Inside)
  BY <1>5, <1>6, <1>7, AgreeingIsEqual
<1>9. QED BY <1>1, <1>4, <1>8 DEF Fifo!Take, Inside

\* The other steps leave what is inside alone.
LEMMA NextIsFifo == IInv /\ IInv' /\ [Next]_vars => [Fifo!Next]_(Fifo!bfVars)
<1>1. SUFFICES ASSUME IInv, IInv', [Next]_vars PROVE [Fifo!Next]_(Fifo!bfVars)
  OBVIOUS
<1>2. ASSUME NEW item \in Item, Enqueue(item) PROVE [Fifo!Next]_(Fifo!bfVars)
  BY <1>1, <1>2, EnqueuePuts DEF Fifo!Next
<1>3. CASE Dequeue
  BY <1>1, <1>3, DequeueTakes DEF Fifo!Next
<1>4. CASE EnqueueWait \/ DequeueWait \/ SpuriousWakeup \/ UNCHANGED vars
  BY <1>4 DEF EnqueueWait, DequeueWait, Wait, SpuriousWakeup, vars, Fifo!bfVars
<1>5. QED
  BY <1>1, <1>2, <1>3, <1>4 DEF Next, Producer, Consumer, NoTelemetry

LEMMA InitIsFifo == Init => Fifo!Init
<1>1. SUFFICES ASSUME Init PROVE Fifo!Init
  OBVIOUS
<1>2. size = 0 /\ taken = <<>>
  BY <1>1 DEF Init
<1>3. QED BY <1>2 DEF Fifo!Init

\* The ring with its wrapping indices is a bounded FIFO for every capacity:
\* items come out once, in the order they went in.
THEOREM RingIsFifo == Spec => QueueIsFifo
BY InitIsFifo, InvHolds, NextIsFifo, PTL DEF Spec, QueueIsFifo, Fifo!Spec

-----------------------------------------------------------------------------
(***************************************************************************)
(* The queue as the parser feeds it.                                       *)
(***************************************************************************)

\* What is left to hand over are items; a signature is waited for only after a
\* checksum that is right for a frame.
Carried == message \in Seq(Item)
Signed  == parse_state = "SIGNATURE_WAIT" => Matches # {}
PInv == Carried /\ Signed

LEMMA PathInitInv == PathInit => PInv
BY DEF PathInit, FramingInit, PInv, Carried, Signed

\* A frame taken hands over items.
LEMMA CompleteCarries ==
  ASSUME Matches # {}, Complete
  PROVE  message' \in Seq(Item) /\ parse_state' # "SIGNATURE_WAIT"
<1>1. (CHOOSE f \in Matches : TRUE) \in Matches
  OBVIOUS
<1>2. (CHOOSE f \in Matches : TRUE) \in Frames
  BY <1>1 DEF Matches
<1>3. QED BY <1>2, PathAssumption DEF Complete

LEMMA ParseKeeps ==
  ASSUME PInv, NEW c, ParseChar(c)
  PROVE  PInv'
<1>1. CASE Idle(c)
  BY <1>1 DEF PInv, Carried, Signed, Idle, Matches
<1>2. CASE GotStx(c)
  BY <1>2 DEF PInv, Carried, Signed, GotStx, Matches
<1>3. CASE GotLength(c)
  BY <1>3 DEF PInv, Carried, Signed, GotLength, Matches
<1>4. CASE GotHeaderByte(c)
  <2>1. parse_state' # "SIGNATURE_WAIT"
    BY <1>4 DEF GotHeaderByte, LastHeaderByte, Follows
  <2>2. QED BY <1>4, <2>1 DEF PInv, Carried, Signed, GotHeaderByte
<1>5. CASE GotPayloadByte(c)
  BY <1>5 DEF PInv, Carried, Signed, GotPayloadByte
<1>6. CASE GotChecksum1(c)
  BY <1>6 DEF PInv, Carried, Signed, GotChecksum1
<1>7. CASE GotChecksum2(c)
  <2>1. CASE parse_state = "GOT_BAD_CRC1" \/ \A f \in Matches : f.ck[2] # c
    <3>1. BadChecksum(c)
      BY <1>7, <2>1 DEF GotChecksum2
    <3>2. QED BY <3>1 DEF PInv, Carried, Signed, BadChecksum, Restart
  <2>2. CASE ~(parse_state = "GOT_BAD_CRC1" \/ \A f \in Matches : f.ck[2] # c)
    <3>1. Matches # {} /\ checksum' = checksum
      BY <1>7, <2>2 DEF GotChecksum2
    <3>2. CASE incompat_flags = MAVLINK_IFLAG_SIGNED
      BY <1>7, <2>2, <3>1, <3>2 DEF GotChecksum2, PInv, Carried, Signed, Matches
    <3>3. CASE incompat_flags # MAVLINK_IFLAG_SIGNED
      <4>1. Complete
        BY <1>7, <2>2, <3>3 DEF GotChecksum2
      <4>2. QED BY <3>1, <4>1, CompleteCarries DEF PInv, Carried, Signed
    <3>4. QED BY <3>2, <3>3
  <2>3. QED BY <2>1, <2>2
<1>8. CASE GotSignatureByte(c)
  <2>1. Matches # {} /\ checksum' = checksum
    BY <1>8 DEF GotSignatureByte, PInv, Signed
  <2>2. CASE signature_wait' = 0
    <3>1. Complete
      BY <1>8, <2>2 DEF GotSignatureByte
    <3>2. QED BY <2>1, <3>1, CompleteCarries DEF PInv, Carried, Signed
  <2>3. CASE signature_wait' # 0
    BY <1>8, <2>1, <2>3 DEF GotSignatureByte, PInv, Carried, Signed, Matches
  <2>4. QED BY <2>2, <2>3
<1>9. QED
  BY <1>1, <1>2, <1>3, <1>4, <1>5, <1>6, <1>7, <1>8 DEF ParseChar

LEMMA PathNextInv == PInv /\ [PathNext]_pathVars => PInv'
<1>1. SUFFICES ASSUME PInv, [PathNext]_pathVars PROVE PInv'
  OBVIOUS
<1>2. CASE Arrive
  BY <1>1, <1>2 DEF Arrive, Send, BeginFrame, LoseByte, parserVars, PInv, Carried,
     Signed, Matches
<1>3. CASE Parse
  <2>1. PICK c : ParseChar(c)
    BY <1>3 DEF Parse, ReceiveByte
  <2>2. QED BY <1>1, <2>1, ParseKeeps
<1>4. CASE HandOver
  <2>1. message' \in Seq(Item)
    BY <1>1, <1>4 DEF HandOver, PInv, Carried
  <2>2. QED BY <1>1, <1>4, <2>1 DEF HandOver, PInv, Carried, Signed, Matches
<1>5. CASE EmptyDatagram
  BY <1>1, <1>5 DEF EmptyDatagram, framingVars, parserVars, PInv, Carried, Signed, Matches
<1>6. CASE Draw
  BY <1>1, <1>6 DEF Draw, framingVars, parserVars, PInv, Carried, Signed, Matches
<1>7. CASE NothingArrives
  BY <1>1, <1>7 DEF NothingArrives, framingVars, parserVars, PInv, Carried, Signed, Matches
<1>8. CASE UNCHANGED pathVars
  BY <1>1, <1>8 DEF pathVars, parserVars, PInv, Carried, Signed, Matches
<1>9. QED
  BY <1>1, <1>2, <1>3, <1>4, <1>5, <1>6, <1>7, <1>8 DEF PathNext

\* Each step of the path is one of the queue, or leaves the queue alone.
LEMMA PathStepsQueue == PInv /\ [PathNext]_pathVars => [Next]_vars
<1>1. SUFFICES ASSUME PInv, [PathNext]_pathVars PROVE [Next]_vars
  OBVIOUS
<1>2. CASE HandOver
  <2>1. Head(message) \in Item
    BY <1>1, <1>2 DEF HandOver, PInv, Carried
  <2>2. QED BY <1>2, <2>1 DEF HandOver, Next, Producer
<1>3. CASE Draw
  BY <1>3 DEF Draw, Next
<1>4. CASE NothingArrives
  BY <1>4 DEF NothingArrives, Next
<1>5. CASE Arrive \/ Parse \/ EmptyDatagram \/ UNCHANGED pathVars
  BY <1>5 DEF Arrive, Parse, EmptyDatagram, pathVars
<1>6. QED BY <1>1, <1>2, <1>3, <1>4, <1>5 DEF PathNext

\* The telemetry path is a correct user of the queue: whatever is lost on the
\* way and whatever the parser makes of the rest, one thread puts items in and
\* one takes them out, as osd/queue.c expects.
THEOREM PathUsesQueue == PathSpec => Spec
<1>1. PathInit => Init
  BY DEF PathInit
<1>2. QED
  BY <1>1, PathInitInv, PathNextInv, PathStepsQueue, PTL DEF PathSpec, Spec

\* So the single condition variable loses no wake-up when telemetry feeds it.
THEOREM PathSignalsReach == PathSpec => []NoLostSignal
BY PathUsesQueue, SignalsReach, PTL

\* And what is drawn is what was queued, in that order, each item once, however
\* the parser and the drawing thread interleave.
THEOREM PathIsFifo == PathSpec => QueueIsFifo
BY PathUsesQueue, RingIsFifo, PTL

-----------------------------------------------------------------------------
(***************************************************************************)
(* The parser and the stream.  The framing is a component of its own: what *)
(* is said of it holds in every step of the path, for every length of the  *)
(* payloads and every byte that opens a frame.                             *)
(***************************************************************************)
HeaderLen(f) == IF f.v2 THEN 9 ELSE 5
Signature(f) == IF f.signed THEN SIGNATURE_BLOCK_LEN ELSE 0
Flags(f)     == IF f.signed THEN MAVLINK_IFLAG_SIGNED ELSE 0
Opening(f)   == IF f.v2 THEN MAVLINK_STX ELSE MAVLINK_STX_MAVLINK1

\* Two sequences joined, item by item.
LEMMA JoinIs ==
  ASSUME NEW S, NEW s \in Seq(S), NEW t \in Seq(S), NEW m \in Nat, NEW n \in Nat,
         m = Len(s), n = Len(t)
  PROVE  /\ s \o t \in Seq(S) /\ Len(s \o t) = m + n
         /\ \A i \in 1..m : (s \o t)[i] = s[i]
         /\ \A i \in 1..n : (s \o t)[m + i] = t[i]
<1>1. /\ s \o t \in Seq(S) /\ Len(s \o t) = Len(s) + Len(t)
      /\ \A i \in 1..(Len(s) + Len(t)) :
           (s \o t)[i] = IF i <= Len(s) THEN s[i] ELSE t[i - Len(s)]
  BY ConcatProperties
<1>2. ASSUME NEW i \in 1..m PROVE (s \o t)[i] = s[i]
  BY <1>1
<1>3. ASSUME NEW i \in 1..n PROVE (s \o t)[m + i] = t[i]
  <2>1. m + i \in 1..(m + n) /\ ~(m + i <= m) /\ (m + i) - m = i
    OBVIOUS
  <2>2. QED BY <1>1, <2>1
<1>4. QED BY <1>1, <1>2, <1>3

LEMMA MarkersAre ==
  /\ MaxByte \in Nat /\ MaxByte >= 2 /\ SIGNATURE_BLOCK_LEN \in Nat \ {0}
  /\ MAVLINK_STX \in Byte /\ MAVLINK_STX_MAVLINK1 \in Byte
  /\ MAVLINK_STX # MAVLINK_STX_MAVLINK1
  /\ 0 \in Byte /\ 1 \in Byte /\ \A b \in Byte : b \in Nat /\ b <= MaxByte
BY FramingAssumption DEF Byte

\* What a frame is made of.
LEMMA FrameIs ==
  ASSUME NEW f \in Frames
  PROVE  /\ f.v2 \in BOOLEAN /\ f.signed \in BOOLEAN /\ (f.signed => f.v2)
         /\ f.seq \in Byte /\ f.msgid \in Byte
         /\ f.payload \in Seq(Byte) /\ Len(f.payload) \in Byte
         /\ f.ck \in Seq(Byte) /\ Len(f.ck) = 2
<1>1. IsFrame(f)
  BY FramingAssumption
<1>2. /\ f.seq \in Byte /\ f.msgid \in Byte
      /\ f.payload \in Seq(Byte) /\ Len(f.payload) \in Byte
      /\ f.ck \in Byte \X Byte
  BY <1>1 DEF IsFrame
<1>3. f.v2 \in BOOLEAN /\ f.signed \in BOOLEAN /\ (f.signed => f.v2)
  BY <1>1, Zenon DEF IsFrame
<1>4. f.ck \in Seq(Byte) /\ Len(f.ck) = 2
  <2>1. PICK a \in Byte, b \in Byte : f.ck = <<a, b>>
    BY <1>2
  <2>2. <<a, b>> \in Seq(Byte) /\ Len(<<a, b>>) = 2
    OBVIOUS
  <2>3. QED BY <2>1, <2>2
<1>5. QED BY <1>2, <1>3, <1>4

\* The header that the checksum covers.
Header(f) ==
  IF f.v2
    THEN <<Len(f.payload), Flags(f), 0, f.seq, 1, 1, f.msgid, 0, 0>>
    ELSE <<Len(f.payload), f.seq, 1, 1, f.msgid>>

LEMMA HeaderIs ==
  ASSUME NEW f \in Frames
  PROVE  /\ Header(f) \in Seq(Byte) /\ Len(Header(f)) = HeaderLen(f)
         /\ Header(f)[1] = Len(f.payload)
         /\ f.v2 => Header(f)[2] = Flags(f)
         /\ Flags(f) \in {0, 1}
<1>1. /\ f.seq \in Byte /\ f.msgid \in Byte /\ Len(f.payload) \in Byte
      /\ 0 \in Byte /\ 1 \in Byte
  BY FrameIs, MarkersAre
<1>2. PICK a, s, m : a = Len(f.payload) /\ s = f.seq /\ m = f.msgid
  OBVIOUS
<1>3. PICK g \in {0, 1} : g = Flags(f)
  BY DEF Flags, MAVLINK_IFLAG_SIGNED
<1>4. CASE f.v2
  <2>1. Header(f) = <<a, g, 0, s, 1, 1, m, 0, 0>> /\ HeaderLen(f) = 9
    BY <1>2, <1>3, <1>4 DEF Header, HeaderLen
  <2>2. <<a, g, 0, s, 1, 1, m, 0, 0>> \in Seq(Byte)
    BY <1>1, <1>2, <1>3
  <2>3. QED BY <1>2, <1>3, <1>4, <2>1, <2>2
<1>5. CASE ~f.v2
  <2>1. Header(f) = <<a, s, 1, 1, m>> /\ HeaderLen(f) = 5
    BY <1>2, <1>5 DEF Header, HeaderLen
  <2>2. <<a, s, 1, 1, m>> \in Seq(Byte)
    BY <1>1, <1>2
  <2>3. QED BY <1>2, <1>3, <1>5, <2>1, <2>2
<1>6. QED BY <1>4, <1>5

\* What the checksum covers: the header and the payload.
LEMMA CoveredIs ==
  ASSUME NEW f \in Frames
  PROVE  /\ Covered(f) \in Seq(Byte)
         /\ Len(Covered(f)) = HeaderLen(f) + Len(f.payload)
         /\ Covered(f)[1] = Len(f.payload)
         /\ f.v2 => Covered(f)[2] = Flags(f)
<1>1. Covered(f) = Header(f) \o f.payload
  BY DEF Covered, Header, Flags
<1>2. PICK H \in Seq(Byte), P \in Seq(Byte) : H = Header(f) /\ P = f.payload
  BY HeaderIs, FrameIs
<1>3. /\ H \o P \in Seq(Byte) /\ Len(H \o P) = Len(H) + Len(P)
      /\ \A i \in 1..(Len(H) + Len(P)) :
           (H \o P)[i] = IF i <= Len(H) THEN H[i] ELSE P[i - Len(H)]
  BY ConcatProperties
<1>4. Len(H) \in {5, 9} /\ Len(H) = HeaderLen(f) /\ Len(P) \in Nat
  BY <1>2, HeaderIs, LenProperties DEF HeaderLen
<1>5. (H \o P)[1] = H[1] /\ (H \o P)[2] = H[2]
  BY <1>3, <1>4
<1>6. QED BY <1>1, <1>2, <1>3, <1>4, <1>5, HeaderIs

\* A frame on the wire, byte by byte.
LEMMA BytesAre ==
  ASSUME NEW f \in Frames, NEW k \in Nat, k = Len(Covered(f))
  PROVE  /\ Bytes(f) \in Seq(Byte) /\ Len(Bytes(f)) = k + 3 + Signature(f)
         /\ Bytes(f)[1] = Opening(f)
         /\ \A i \in 1..k : Bytes(f)[i + 1] = Covered(f)[i]
         /\ Bytes(f)[k + 2] = f.ck[1] /\ Bytes(f)[k + 3] = f.ck[2]
<1>1. PICK O \in Seq(Byte) : O = <<Opening(f)>> /\ Len(O) = 1 /\ O[1] = Opening(f)
  <2>1. PICK b \in Byte : b = Opening(f)
    BY MarkersAre DEF Opening
  <2>2. <<b>> \in Seq(Byte) /\ Len(<<b>>) = 1 /\ <<b>>[1] = b
    OBVIOUS
  <2>3. QED BY <2>1, <2>2
<1>2. PICK C \in Seq(Byte), K \in Seq(Byte) :
        C = Covered(f) /\ K = f.ck /\ Len(C) = k /\ Len(K) = 2
  BY CoveredIs, FrameIs
<1>3. PICK S \in Seq(Byte), z \in Nat :
        /\ S = IF f.signed THEN [i \in 1..SIGNATURE_BLOCK_LEN |-> 0] ELSE <<>>
        /\ Len(S) = z /\ z = Signature(f)
  <2>1. /\ [i \in 1..SIGNATURE_BLOCK_LEN |-> 0] \in Seq(Byte)
        /\ Len([i \in 1..SIGNATURE_BLOCK_LEN |-> 0]) = SIGNATURE_BLOCK_LEN
    BY MarkersAre
  <2>2. CASE f.signed
    <3>1. PICK S \in Seq(Byte) : S = [i \in 1..SIGNATURE_BLOCK_LEN |-> 0]
      BY <2>1
    <3>2. Len(S) = SIGNATURE_BLOCK_LEN /\ Signature(f) = SIGNATURE_BLOCK_LEN
      BY <2>1, <2>2, <3>1 DEF Signature
    <3>3. QED BY <2>2, <3>1, <3>2, MarkersAre
  <2>3. CASE ~f.signed
    <3>1. <<>> \in Seq(Byte) /\ Len(<<>>) = 0 /\ Signature(f) = 0
      BY <2>3 DEF Signature
    <3>2. QED BY <2>3, <3>1
  <2>4. QED BY <2>2, <2>3
<1>4. Bytes(f) = ((O \o C) \o K) \o S
  BY <1>1, <1>2, <1>3 DEF Bytes, Opening
<1>5. PICK A \in Seq(Byte) :
        /\ A = O \o C /\ Len(A) = k + 1
        /\ A[1] = O[1] /\ \A i \in 1..k : A[i + 1] = C[i]
  <2>1. /\ O \o C \in Seq(Byte) /\ Len(O \o C) = 1 + k
        /\ \A i \in 1..1 : (O \o C)[i] = O[i]
        /\ \A i \in 1..k : (O \o C)[1 + i] = C[i]
    BY <1>1, <1>2, JoinIs
  <2>2. ASSUME NEW i \in 1..k PROVE (O \o C)[i + 1] = C[i]
    <3>1. i + 1 = 1 + i
      OBVIOUS
    <3>2. QED BY <2>1, <3>1
  <2>3. (O \o C)[1] = O[1] /\ 1 + k = k + 1
    BY <2>1
  <2>4. QED BY <2>1, <2>2, <2>3
<1>6. PICK B \in Seq(Byte) :
        /\ B = A \o K /\ Len(B) = k + 3
        /\ \A i \in 1..(k + 1) : B[i] = A[i]
        /\ B[k + 2] = K[1] /\ B[k + 3] = K[2]
  <2>1. PICK a \in Nat, c \in Nat : a = k + 1 /\ a = Len(A) /\ c = 2 /\ c = Len(K)
    BY <1>2, <1>5
  <2>2. /\ A \o K \in Seq(Byte) /\ Len(A \o K) = a + c
        /\ \A i \in 1..a : (A \o K)[i] = A[i]
        /\ \A i \in 1..c : (A \o K)[a + i] = K[i]
    <3>1. A \in Seq(Byte) /\ K \in Seq(Byte) /\ a = Len(A) /\ c = Len(K)
      BY <1>2, <1>5, <2>1
    <3>2. a \in Nat /\ c \in Nat
      BY <2>1
    <3>3. QED BY <3>1, <3>2, JoinIs
  <2>3. a + 1 = k + 2 /\ a + 2 = k + 3
    BY <2>1
  <2>4. (A \o K)[k + 2] = K[1] /\ (A \o K)[k + 3] = K[2]
    BY <2>1, <2>2, <2>3
  <2>5. QED BY <2>1, <2>2, <2>3, <2>4
<1>7. /\ B \o S \in Seq(Byte) /\ Len(B \o S) = k + 3 + z
      /\ \A i \in 1..(k + 3) : (B \o S)[i] = B[i]
  <2>1. PICK b \in Nat : b = k + 3 /\ b = Len(B)
    BY <1>6
  <2>2. /\ B \o S \in Seq(Byte) /\ Len(B \o S) = b + z
        /\ \A i \in 1..b : (B \o S)[i] = B[i]
    <3>1. B \in Seq(Byte) /\ S \in Seq(Byte) /\ b = Len(B) /\ z = Len(S)
      BY <1>3, <1>6, <2>1
    <3>2. b \in Nat /\ z \in Nat
      BY <1>3, <2>1
    <3>3. QED BY <3>1, <3>2, JoinIs
  <2>3. QED BY <2>1, <2>2
<1>8. ASSUME NEW i \in 1..k PROVE (B \o S)[i + 1] = C[i]
  <2>1. i + 1 \in 1..(k + 1) /\ i + 1 \in 1..(k + 3)
    OBVIOUS
  <2>2. B[i + 1] = A[i + 1] /\ (B \o S)[i + 1] = B[i + 1]
    BY <1>6, <1>7, <2>1
  <2>3. QED BY <1>5, <2>2
<1>9. (B \o S)[1] = O[1] /\ (B \o S)[k + 2] = K[1] /\ (B \o S)[k + 3] = K[2]
  <2>1. /\ 1 \in 1..(k + 1) /\ 1 \in 1..(k + 3)
        /\ k + 2 \in 1..(k + 3) /\ k + 3 \in 1..(k + 3)
    OBVIOUS
  <2>2. QED BY <1>5, <1>6, <1>7, <2>1
<1>10. Bytes(f) = B \o S
  BY <1>4, <1>5, <1>6
<1>11. QED BY <1>1, <1>2, <1>3, <1>7, <1>8, <1>9, <1>10

-----------------------------------------------------------------------------
(***************************************************************************)
(* Where the parser is when it has read the first p bytes of a frame: in   *)
(* which state, with what read, and with which fields set.                 *)
(***************************************************************************)
HeaderStates == {"GOT_LENGTH", "GOT_INCOMPAT_FLAGS", "GOT_COMPAT_FLAGS", "GOT_SEQ",
                 "GOT_SYSID", "GOT_COMPID", "GOT_MSGID1", "GOT_MSGID2"}

\* The first h bytes of it open it and its header, k are covered, l are all.
HeaderState(h, p) ==
  IF h = 9
    THEN [GOT_LENGTH |-> 2, GOT_INCOMPAT_FLAGS |-> 3, GOT_COMPAT_FLAGS |-> 4,
          GOT_SEQ |-> 5, GOT_SYSID |-> 6, GOT_COMPID |-> 7, GOT_MSGID1 |-> 8,
          GOT_MSGID2 |-> 9][parse_state] = p
    ELSE [GOT_LENGTH |-> 0, GOT_INCOMPAT_FLAGS |-> 0, GOT_COMPAT_FLAGS |-> 2,
          GOT_SEQ |-> 3, GOT_SYSID |-> 4, GOT_COMPID |-> 5, GOT_MSGID1 |-> 0,
          GOT_MSGID2 |-> 0][parse_state] = p

StateAt(h, k, l, p) ==
  /\ p = 0 => parse_state = "IDLE"
  /\ p = 1 => parse_state = "GOT_STX"
  /\ p \in 2..h => parse_state \in HeaderStates /\ HeaderState(h, p)
  /\ p \in (h + 1)..k => parse_state = "GOT_MSGID3"
  /\ p = k + 1 => parse_state = "GOT_PAYLOAD"
  /\ p = k + 2 => parse_state = "GOT_CRC1"
  /\ p > k + 2 /\ p < l => parse_state = "SIGNATURE_WAIT" /\ signature_wait = l - p
  /\ p = l => parse_state = "IDLE"

ReadAt(f, k, p) ==
  /\ p \in 1..(k + 1) =>
       /\ checksum \in Seq(Byte) /\ Len(checksum) = p - 1
       /\ \A i \in 1..(p - 1) : checksum[i] = Covered(f)[i]
  /\ p > k + 1 => checksum = Covered(f)

FieldsAt(h, k, flags, p) ==
  /\ p \in 2..k => len = k - h
  /\ p \in 2..h => packet_idx = 0
  /\ p \in (h + 1)..k => packet_idx = p - (h + 1)
  /\ p >= 3 \/ (p = 2 /\ h = 5) => incompat_flags = flags

VersionAt(h, p) == p >= 1 => (in_mavlink1 <=> h = 5)
GivenAt(l, p)   == p = l => msg_received

InStepAt(f, p) ==
  LET h == HeaderLen(f)  k == Len(Covered(f))  l == Len(Bytes(f)) IN
  /\ StateAt(h, k, l, p) /\ ReadAt(f, k, p) /\ FieldsAt(h, k, Flags(f), p)
  /\ VersionAt(h, p) /\ GivenAt(l, p)

\* Each parse state has its action.
LEMMA ActionIs ==
  ASSUME NEW c, ParseChar(c)
  PROVE  /\ parse_state = "IDLE" => Idle(c)
         /\ parse_state = "GOT_STX" => GotStx(c)
         /\ parse_state = "GOT_LENGTH" => GotLength(c)
         /\ parse_state \in HeaderStates \ {"GOT_LENGTH"} => GotHeaderByte(c)
         /\ parse_state = "GOT_MSGID3" => GotPayloadByte(c)
         /\ parse_state = "GOT_PAYLOAD" => GotChecksum1(c)
         /\ parse_state \in {"GOT_CRC1", "GOT_BAD_CRC1"} => GotChecksum2(c)
         /\ parse_state = "SIGNATURE_WAIT" => GotSignatureByte(c)
BY DEF ParseChar, Idle, GotStx, GotLength, GotHeaderByte, GotPayloadByte,
   GotChecksum1, GotChecksum2, GotSignatureByte, Follows, HeaderStates

\* A byte that the checksum covers.
LEMMA ReadGrows ==
  ASSUME NEW f \in Frames, NEW p \in Nat, NEW k \in Nat, ReadAt(f, k, p),
         k = Len(Covered(f)), p \in 1..k, NEW c, c = Covered(f)[p],
         checksum' = Append(checksum, c)
  PROVE  ReadAt(f, k, p + 1)'
<1>1. /\ Covered(f) \in Seq(Byte) /\ k = HeaderLen(f) + Len(f.payload)
  BY CoveredIs
<1>2. PICK C \in Seq(Byte) : C = Covered(f) /\ k = Len(C)
  BY <1>1
<1>3. PICK D \in Seq(Byte) :
        D = checksum /\ Len(D) = p - 1 /\ \A i \in 1..(p - 1) : D[i] = C[i]
  BY <1>1, <1>2 DEF ReadAt
<1>4. c \in Byte
  BY <1>2, ElementOfSeq
<1>5. /\ Append(D, c) \in Seq(Byte) /\ Len(Append(D, c)) = Len(D) + 1
      /\ Append(D, c)[Len(D) + 1] = c
      /\ \A i \in 1..Len(D) : Append(D, c)[i] = D[i]
  BY <1>4, AppendProperties
<1>6. PICK E \in Seq(Byte) :
        /\ E = Append(D, c) /\ Len(E) = p /\ E[p] = c
        /\ \A i \in 1..(p - 1) : E[i] = D[i]
  <2>1. Len(D) + 1 = p /\ Len(D) = p - 1
    BY <1>3
  <2>2. QED BY <1>5, <2>1
<1>7. checksum' = E
  BY <1>3, <1>6
<1>8. ASSUME NEW i \in 1..p PROVE E[i] = C[i]
  <2>1. i = p \/ i \in 1..(p - 1)
    OBVIOUS
  <2>2. QED BY <1>2, <1>3, <1>6, <2>1
<1>9. (p + 1) - 1 = p /\ ~(p + 1 > k + 1)
  OBVIOUS
<1>10. QED BY <1>1, <1>2, <1>6, <1>7, <1>8, <1>9 DEF ReadAt

\* When all of it is read the checksum is over what was sent.
LEMMA ReadAll ==
  ASSUME NEW f \in Frames, NEW k \in Nat, k = Len(Covered(f)), ReadAt(f, k, k + 1)
  PROVE  checksum = Covered(f)
<1>1. PICK C \in Seq(Byte) : C = Covered(f) /\ k = Len(C)
  BY CoveredIs
<1>2. PICK D \in Seq(Byte) :
        D = checksum /\ Len(D) = k /\ \A i \in 1..k : D[i] = C[i]
  <2>1. k + 1 \in 1..(k + 1) /\ (k + 1) - 1 = k
    OBVIOUS
  <2>2. QED BY <1>1, <2>1 DEF ReadAt
<1>3. D = C
  BY <1>1, <1>2, SeqEqual
<1>4. QED BY <1>1, <1>2, <1>3

\* A parser in step with a frame stays in step with its next byte.
LEMMA StepKeepsStep ==
  ASSUME NEW f \in Frames, NEW p \in Nat, p < Len(Bytes(f)), InStepAt(f, p),
         NEW c, c = Bytes(f)[p + 1], ParseChar(c)
  PROVE  InStepAt(f, p + 1)'
<1>1. PICK h \in {5, 9}, n \in Nat, g \in {0, 1}, k \in Nat, z \in Nat, l \in Nat :
        /\ h = HeaderLen(f) /\ n = Len(f.payload) /\ g = Flags(f)
        /\ k = Len(Covered(f)) /\ z = Signature(f) /\ l = Len(Bytes(f))
        /\ k = h + n /\ l = k + 3 + z
        /\ g = 1 => z = SIGNATURE_BLOCK_LEN /\ z > 0
        /\ g = 0 => z = 0
        /\ h = 5 => g = 0
  <2>1. PICK h \in {5, 9} : h = HeaderLen(f) /\ (h = 5 <=> ~f.v2)
    BY DEF HeaderLen
  <2>2. PICK z \in Nat : /\ z = Signature(f)
                         /\ f.signed => z = SIGNATURE_BLOCK_LEN /\ z > 0
                         /\ ~f.signed => z = 0
    BY MarkersAre DEF Signature
  <2>3. PICK g \in {0, 1} : g = Flags(f) /\ (g = 1 <=> f.signed)
    BY DEF Flags, MAVLINK_IFLAG_SIGNED
  <2>4. f.signed => f.v2
    BY FrameIs
  <2>5. PICK n \in Nat : n = Len(f.payload)
    BY FrameIs, MarkersAre
  <2>6. PICK k \in Nat : k = h + n /\ k = Len(Covered(f))
    BY <2>1, <2>5, CoveredIs
  <2>7. PICK l \in Nat : l = Len(Bytes(f)) /\ l = k + 3 + z
    BY <2>2, <2>6, BytesAre
  <2>8. h = 5 => g = 0
    BY <2>1, <2>3, <2>4
  <2>9. /\ g = 1 => z = SIGNATURE_BLOCK_LEN /\ z > 0
        /\ g = 0 => z = 0
    BY <2>2, <2>3
  <2>10. QED BY <2>1, <2>2, <2>3, <2>5, <2>6, <2>7, <2>8, <2>9
<1>2. /\ p < l /\ k = h + n /\ l = k + 3 + z /\ k >= 5
      /\ h \in {5, 9} /\ n \in Nat /\ k \in Nat /\ z \in Nat /\ l \in Nat
      /\ g = 1 \/ g = 0
      /\ g = 1 => z = SIGNATURE_BLOCK_LEN /\ z > 0
      /\ g = 0 => z = 0
      /\ h = 5 => g = 0
  <2>1. p < l
    BY <1>1
  <2>2. k = h + n => k >= 5
    <3>1. \A x \in {5, 9}, y \in Nat : x + y >= 5
      OBVIOUS
    <3>2. h + n >= 5
      BY <1>1, <3>1
    <3>3. QED BY <3>2
  <2>3. QED BY <1>1, <2>1, <2>2
<1>3. /\ StateAt(h, k, l, p) /\ ReadAt(f, k, p) /\ FieldsAt(h, k, g, p)
      /\ VersionAt(h, p)
  BY <1>1 DEF InStepAt
<1>4. /\ Bytes(f)[1] = Opening(f) /\ \A i \in 1..k : Bytes(f)[i + 1] = Covered(f)[i]
      /\ Bytes(f)[k + 2] = f.ck[1] /\ Bytes(f)[k + 3] = f.ck[2]
      /\ Covered(f)[1] = n /\ (h = 9 => Covered(f)[2] = g)
  <2>1. h = 9 => f.v2
    BY <1>1 DEF HeaderLen
  <2>2. QED BY <1>1, <2>1, BytesAre, CoveredIs
<1>5. p \in 1..k => c = Covered(f)[p] /\ (checksum' = Append(checksum, c)
                                            => ReadAt(f, k, p + 1)')
  <2>1. p \in 1..k => c = Covered(f)[p]
    BY <1>4
  <2>2. QED BY <1>1, <1>3, <2>1, ReadGrows
<1>6. PICK q \in Nat : q = p + 1
  OBVIOUS
<1>7. SUFFICES /\ StateAt(h, k, l, q)' /\ ReadAt(f, k, q)' /\ FieldsAt(h, k, g, q)'
               /\ VersionAt(h, q)' /\ GivenAt(l, q)'
  BY <1>1, <1>6 DEF InStepAt
<1>8. CASE p = 0
  <2>1. Idle(c) /\ c = Opening(f)
    BY <1>3, <1>4, <1>8, ActionIs DEF StateAt
  <2>2. /\ IsStx(c) /\ parse_state' = "GOT_STX" /\ checksum' = <<>>
        /\ in_mavlink1' = (c = MAVLINK_STX_MAVLINK1)
    BY <2>1 DEF Idle, IsStx, Opening, VersionOf
  <2>3. StateAt(h, k, l, q)' /\ FieldsAt(h, k, g, q)'
    BY <1>2, <1>6, <1>8, <2>2 DEF StateAt, FieldsAt
  <2>4. ReadAt(f, k, q)'
    <3>1. <<>> \in Seq(Byte) /\ Len(<<>>) = 0 /\ q - 1 = 0 /\ ~(q > k + 1)
      BY <1>6, <1>8
    <3>2. QED BY <2>2, <3>1 DEF ReadAt
  <2>5. VersionAt(h, q)'
    <3>1. h = 5 <=> ~f.v2
      BY <1>1 DEF HeaderLen
    <3>2. in_mavlink1' <=> ~f.v2
      BY <2>1, <2>2, MarkersAre DEF Opening
    <3>3. QED BY <3>1, <3>2, Zenon DEF VersionAt
  <2>6. GivenAt(l, q)'
    BY <1>2, <1>6, <1>8 DEF GivenAt
  <2>7. QED BY <2>3, <2>4, <2>5, <2>6
<1>9. ASSUME p >= 1, in_mavlink1' = in_mavlink1 PROVE VersionAt(h, q)'
  BY <1>3, <1>9, Zenon DEF VersionAt
<1>10. CASE p = 1
  <2>1. GotStx(c) /\ c = n
    <3>1. p \in 1..k
      BY <1>2, <1>10
    <3>2. c = n
      BY <1>4, <1>5, <1>10, <3>1
    <3>3. parse_state = "GOT_STX"
      BY <1>3, <1>10 DEF StateAt
    <3>4. QED BY <3>2, <3>3, ActionIs
  <2>2. /\ in_mavlink1 <=> h = 5
        /\ in_mavlink1' = in_mavlink1
    BY <1>3, <1>10, <2>1 DEF VersionAt, GotStx
  <2>3. /\ len' = n /\ packet_idx' = 0 /\ checksum' = Append(checksum, c)
        /\ h = 9 => parse_state' = "GOT_LENGTH"
        /\ h = 5 => parse_state' = "GOT_COMPAT_FLAGS" /\ incompat_flags' = 0
    BY <2>1, <2>2 DEF GotStx
  <2>4. StateAt(h, k, l, q)'
    <3>1. /\ q = 2 /\ q \in 2..h /\ q \notin (h + 1)..k /\ q # k + 1 /\ q # k + 2
          /\ ~(q > k + 2) /\ q # l
      <4>1. q = 2
        BY <1>6, <1>10
      <4>2. h \in {5, 9} /\ k \in Nat /\ k >= 5 /\ z \in Nat /\ l = k + 3 + z
        BY <1>2
      <4>3. \A x \in {5, 9} : 2 \in 2..x /\ ~(2 >= x + 1)
        OBVIOUS
      <4>4. \A y \in Nat, x \in Nat : y >= 5 =>
              2 # y + 1 /\ 2 # y + 2 /\ ~(2 > y + 2) /\ 2 # y + 3 + x
        OBVIOUS
      <4>5. 2 \in 2..h /\ 2 \notin (h + 1)..k
        BY <4>2, <4>3
      <4>6. 2 # k + 1 /\ 2 # k + 2 /\ ~(2 > k + 2) /\ 2 # l
        BY <4>2, <4>4
      <4>7. QED BY <4>1, <4>5, <4>6
    <3>2. parse_state' \in HeaderStates /\ HeaderState(h, q)'
      BY <1>2, <2>3, <3>1 DEF HeaderStates, HeaderState
    <3>3. QED BY <3>1, <3>2 DEF StateAt
  <2>5. ReadAt(f, k, q)'
    BY <1>2, <1>5, <1>6, <1>10, <2>3
  <2>6. FieldsAt(h, k, g, q)'
    BY <1>2, <1>6, <1>10, <2>3 DEF FieldsAt
  <2>7. GivenAt(l, q)'
    BY <1>2, <1>6, <1>10 DEF GivenAt
  <2>8. QED BY <1>9, <1>10, <2>2, <2>4, <2>5, <2>6, <2>7
<1>11. CASE p \in 2..h
  <2>1. /\ parse_state \in HeaderStates /\ HeaderState(h, p)
        /\ len = n /\ packet_idx = 0
        /\ p >= 3 \/ (p = 2 /\ h = 5) => incompat_flags = g
    BY <1>2, <1>3, <1>11 DEF StateAt, FieldsAt
  <2>2. in_mavlink1 <=> h = 5
    BY <1>3, <1>11 DEF VersionAt
  <2>3. /\ checksum' = Append(checksum, c) /\ in_mavlink1' = in_mavlink1
        /\ len' = len /\ packet_idx' = packet_idx /\ incompat_flags' = g
        /\ p < h => parse_state' \in HeaderStates /\ HeaderState(h, p + 1)'
        /\ p = h => parse_state' = IF n > 0 THEN "GOT_MSGID3" ELSE "GOT_PAYLOAD"
    <3>1. CASE h = 9 /\ parse_state = "GOT_LENGTH"
      <4>1. p = 2
        BY <2>1, <3>1 DEF HeaderState
      <4>2. GotLength(c) /\ c = g /\ c \in {0, MAVLINK_IFLAG_SIGNED}
        <5>1. p \in 1..k
          BY <1>2, <4>1
        <5>2. c = g
          BY <1>4, <1>5, <3>1, <4>1, <5>1
        <5>3. GotLength(c)
          BY <3>1, ActionIs
        <5>4. QED BY <1>2, <5>2, <5>3 DEF MAVLINK_IFLAG_SIGNED
      <4>3. QED BY <3>1, <4>1, <4>2 DEF GotLength, HeaderStates, HeaderState
    <3>2. CASE h = 9 /\ parse_state # "GOT_LENGTH"
      <4>1. p >= 3 /\ incompat_flags = g
        BY <2>1, <3>2 DEF HeaderState, HeaderStates
      <4>2. GotHeaderByte(c)
        BY <2>1, <3>2, ActionIs
      <4>3. LastHeaderByte <=> p = 9
        BY <2>1, <2>2, <3>2 DEF LastHeaderByte, HeaderState, HeaderStates
      <4>4. p # 9 => parse_state' \in HeaderStates /\ HeaderState(h, p + 1)'
        BY <2>1, <3>2, <4>2, <4>3
        DEF GotHeaderByte, LastHeaderByte, HeaderState, HeaderStates, Follows
      <4>5. QED BY <1>11, <2>1, <3>2, <4>1, <4>2, <4>3, <4>4 DEF GotHeaderByte
    <3>3. CASE h = 5
      <4>1. parse_state # "GOT_LENGTH" /\ incompat_flags = g
        BY <1>11, <2>1, <3>3 DEF HeaderState, HeaderStates
      <4>2. GotHeaderByte(c)
        BY <2>1, <4>1, ActionIs
      <4>3. LastHeaderByte <=> p = 5
        BY <1>11, <2>1, <2>2, <3>3 DEF LastHeaderByte, HeaderState, HeaderStates
      <4>4. p # 5 => parse_state' \in HeaderStates /\ HeaderState(h, p + 1)'
        BY <1>11, <2>1, <3>3, <4>2, <4>3
        DEF GotHeaderByte, LastHeaderByte, HeaderState, HeaderStates, Follows
      <4>5. QED BY <1>11, <2>1, <3>3, <4>1, <4>2, <4>3, <4>4 DEF GotHeaderByte
    <3>4. QED BY <3>1, <3>2, <3>3
  <2>4. StateAt(h, k, l, q)'
    BY <1>2, <1>6, <1>11, <2>3 DEF StateAt
  <2>5. ReadAt(f, k, q)'
    BY <1>2, <1>5, <1>6, <1>11, <2>3
  <2>6. FieldsAt(h, k, g, q)'
    BY <1>2, <1>6, <1>11, <2>1, <2>3 DEF FieldsAt
  <2>7. GivenAt(l, q)'
    BY <1>2, <1>6, <1>11 DEF GivenAt
  <2>8. QED BY <1>9, <1>11, <2>3, <2>4, <2>5, <2>6, <2>7
<1>12. CASE p \in (h + 1)..k
  <2>1. /\ parse_state = "GOT_MSGID3" /\ packet_idx = p - (h + 1) /\ len = n
        /\ incompat_flags = g
    BY <1>2, <1>3, <1>12 DEF StateAt, FieldsAt
  <2>2. GotPayloadByte(c)
    BY <2>1, ActionIs
  <2>3. /\ checksum' = Append(checksum, c) /\ packet_idx' = p - h
        /\ len' = len /\ in_mavlink1' = in_mavlink1 /\ incompat_flags' = incompat_flags
        /\ parse_state' = IF p = k THEN "GOT_PAYLOAD" ELSE "GOT_MSGID3"
    BY <1>2, <1>12, <2>1, <2>2 DEF GotPayloadByte
  <2>4. StateAt(h, k, l, q)'
    BY <1>2, <1>6, <1>12, <2>3 DEF StateAt
  <2>5. ReadAt(f, k, q)'
    BY <1>2, <1>5, <1>6, <1>12, <2>3
  <2>6. FieldsAt(h, k, g, q)'
    BY <1>2, <1>6, <1>12, <2>1, <2>3 DEF FieldsAt
  <2>7. GivenAt(l, q)'
    BY <1>2, <1>6, <1>12 DEF GivenAt
  <2>8. QED BY <1>9, <1>12, <2>3, <2>4, <2>5, <2>6, <2>7
<1>13. CASE p = k + 1
  <2>1. parse_state = "GOT_PAYLOAD" /\ incompat_flags = g
    BY <1>2, <1>3, <1>13 DEF StateAt, FieldsAt
  <2>2. checksum = Covered(f)
    BY <1>1, <1>3, <1>13, ReadAll
  <2>3. c = f.ck[1]
    BY <1>4, <1>13
  <2>4. GotChecksum1(c) /\ f \in Matches
    BY <2>1, <2>2, ActionIs DEF Matches
  <2>5. /\ parse_state' = "GOT_CRC1" /\ checksum' = checksum
        /\ in_mavlink1' = in_mavlink1 /\ incompat_flags' = incompat_flags
    BY <2>3, <2>4 DEF GotChecksum1
  <2>6. StateAt(h, k, l, q)' /\ FieldsAt(h, k, g, q)'
    BY <1>2, <1>6, <1>13, <2>1, <2>5 DEF StateAt, FieldsAt
  <2>7. ReadAt(f, k, q)'
    BY <1>6, <1>13, <2>2, <2>5 DEF ReadAt
  <2>8. GivenAt(l, q)'
    BY <1>2, <1>6, <1>13 DEF GivenAt
  <2>9. QED BY <1>9, <1>13, <2>5, <2>6, <2>7, <2>8
<1>14. CASE p = k + 2
  <2>1. parse_state = "GOT_CRC1" /\ incompat_flags = g
    BY <1>2, <1>3, <1>14 DEF StateAt, FieldsAt
  <2>2. checksum = Covered(f)
    BY <1>2, <1>3, <1>14 DEF ReadAt
  <2>3. c = f.ck[2]
    <3>1. p + 1 = k + 3
      BY <1>14
    <3>2. QED BY <1>4, <3>1
  <2>4. GotChecksum2(c) /\ f \in Matches
    BY <2>1, <2>2, ActionIs DEF Matches
  <2>5. /\ checksum' = checksum
        /\ in_mavlink1' = in_mavlink1 /\ incompat_flags' = incompat_flags
        /\ g = 1 => parse_state' = "SIGNATURE_WAIT"
                      /\ signature_wait' = SIGNATURE_BLOCK_LEN
        /\ g = 0 => Complete
    BY <2>1, <2>3, <2>4 DEF GotChecksum2, MAVLINK_IFLAG_SIGNED
  <2>6. StateAt(h, k, l, q)' /\ FieldsAt(h, k, g, q)'
    BY <1>2, <1>6, <1>14, <2>1, <2>5 DEF StateAt, FieldsAt, Complete
  <2>7. ReadAt(f, k, q)'
    BY <1>6, <1>14, <2>2, <2>5 DEF ReadAt
  <2>8. GivenAt(l, q)'
    <3>1. q = l => g = 0
      BY <1>2, <1>6, <1>14
    <3>2. QED BY <2>5, <3>1, Zenon DEF GivenAt, Complete
  <2>9. QED BY <1>9, <1>14, <2>5, <2>6, <2>7, <2>8
<1>15. CASE p > k + 2
  <2>1. /\ parse_state = "SIGNATURE_WAIT" /\ signature_wait = l - p
        /\ incompat_flags = g
    BY <1>2, <1>3, <1>15 DEF StateAt, FieldsAt
  <2>2. checksum = Covered(f)
    BY <1>2, <1>3, <1>15 DEF ReadAt
  <2>3. GotSignatureByte(c)
    BY <2>1, ActionIs
  <2>4. /\ checksum' = checksum /\ signature_wait' = l - q
        /\ in_mavlink1' = in_mavlink1 /\ incompat_flags' = incompat_flags
    BY <1>2, <1>6, <2>1, <2>3 DEF GotSignatureByte
  <2>5. /\ q = l => Complete
        /\ q # l => parse_state' = "SIGNATURE_WAIT"
    <3>1. signature_wait' = 0 <=> q = l
      BY <1>2, <1>6, <2>4
    <3>2. QED BY <2>1, <2>3, <3>1, Zenon DEF GotSignatureByte
  <2>6. StateAt(h, k, l, q)' /\ FieldsAt(h, k, g, q)'
    BY <1>2, <1>6, <1>15, <2>1, <2>4, <2>5 DEF StateAt, FieldsAt, Complete
  <2>7. ReadAt(f, k, q)'
    BY <1>6, <1>15, <2>2, <2>4 DEF ReadAt
  <2>8. GivenAt(l, q)'
    BY <2>5, Zenon DEF GivenAt, Complete
  <2>9. p >= 1
    BY <1>15
  <2>10. QED BY <1>9, <2>4, <2>6, <2>7, <2>8, <2>9
<1>16. p = 0 \/ p = 1 \/ p \in 2..h \/ p \in (h + 1)..k \/ p = k + 1 \/ p = k + 2 \/ p > k + 2
  BY <1>2
<1>17. QED BY <1>8, <1>10, <1>11, <1>12, <1>13, <1>14, <1>15, <1>16

-----------------------------------------------------------------------------
(***************************************************************************)
(* How far a parser that is out of step goes on: it takes at most k bytes  *)
(* before it is idle, or opens a frame again.                              *)
(***************************************************************************)
ParseStates == HeaderStates \cup {"IDLE", "GOT_STX", "GOT_MSGID3", "GOT_PAYLOAD",
                                  "GOT_CRC1", "GOT_BAD_CRC1", "SIGNATURE_WAIT"}

ParserType ==
  /\ parse_state \in ParseStates
  /\ len \in Byte /\ packet_idx \in Nat
  /\ parse_state \in HeaderStates => packet_idx = 0
  /\ parse_state = "GOT_MSGID3" => packet_idx < len
  /\ parse_state = "SIGNATURE_WAIT" => signature_wait \in 1..SIGNATURE_BLOCK_LEN

\* What is still to come behind the header, and how much shorter that one is.
Expected == IF incompat_flags = MAVLINK_IFLAG_SIGNED THEN SIGNATURE_BLOCK_LEN ELSE 0
Shorter  == IF in_mavlink1 THEN 2 ELSE 0

Owes(k) ==
  \/ parse_state = "IDLE"
  \/ parse_state = "GOT_STX" /\ Shorter = 2 /\ k >= 7 + MaxByte
  \/ parse_state = "GOT_STX" /\ Shorter = 0 /\ k >= 11 + MaxByte + SIGNATURE_BLOCK_LEN
  \/ parse_state = "GOT_LENGTH" /\ k >= 10 + len + SIGNATURE_BLOCK_LEN
  \/ parse_state = "GOT_INCOMPAT_FLAGS" /\ k >= 9 + len + Expected
  \/ parse_state = "GOT_COMPAT_FLAGS" /\ k >= 8 - Shorter + len + Expected
  \/ parse_state = "GOT_SEQ" /\ k >= 7 - Shorter + len + Expected
  \/ parse_state = "GOT_SYSID" /\ k >= 6 - Shorter + len + Expected
  \/ parse_state = "GOT_COMPID" /\ k >= 5 - Shorter + len + Expected
  \/ parse_state = "GOT_MSGID1" /\ k >= 4 + len + Expected
  \/ parse_state = "GOT_MSGID2" /\ k >= 3 + len + Expected
  \/ parse_state = "GOT_MSGID3" /\ k >= (len - packet_idx) + 2 + Expected
  \/ parse_state = "GOT_PAYLOAD" /\ k >= 2 + Expected
  \/ parse_state \in {"GOT_CRC1", "GOT_BAD_CRC1"} /\ k >= 1 + Expected
  \/ parse_state = "SIGNATURE_WAIT" /\ k >= signature_wait

LEMMA ExpectedIs ==
  /\ Expected \in Nat /\ Expected <= SIGNATURE_BLOCK_LEN
  /\ incompat_flags = MAVLINK_IFLAG_SIGNED => Expected = SIGNATURE_BLOCK_LEN
  /\ Shorter \in {0, 2} /\ (Shorter = 2 <=> in_mavlink1)
BY MarkersAre DEF Expected, Shorter

\* Whatever is being read, it is never more than the horizon.
LEMMA OwesAtMost ==
  ASSUME ParserType
  PROVE  Owes(Horizon)
<1>1. PICK S \in Nat \ {0}, M \in Nat, e \in Nat, v \in {0, 2}, n \in Nat :
        /\ S = SIGNATURE_BLOCK_LEN /\ M = MaxByte /\ e = Expected /\ v = Shorter
        /\ n = len /\ e <= S /\ n <= M
  BY MarkersAre, ExpectedIs DEF ParserType
<1>2. PICK H \in Nat : H = Horizon /\ H = 11 + M + S
  BY <1>1 DEF Horizon
<1>3. /\ H >= 7 + MaxByte /\ H >= 11 + MaxByte + SIGNATURE_BLOCK_LEN
      /\ H >= 10 + len + SIGNATURE_BLOCK_LEN /\ H >= 9 + len + Expected
      /\ H >= 8 - Shorter + len + Expected /\ H >= 7 - Shorter + len + Expected
      /\ H >= 6 - Shorter + len + Expected /\ H >= 5 - Shorter + len + Expected
      /\ H >= 4 + len + Expected /\ H >= 3 + len + Expected
      /\ H >= 2 + Expected /\ H >= 1 + Expected
  BY <1>1, <1>2
<1>4. H >= (len - packet_idx) + 2 + Expected \/ parse_state # "GOT_MSGID3"
  BY <1>1, <1>2 DEF ParserType
<1>5. H >= signature_wait \/ parse_state # "SIGNATURE_WAIT"
  BY <1>1, <1>2 DEF ParserType
<1>6. Shorter \in {0, 2}
  BY ExpectedIs
<1>7. QED BY <1>2, <1>3, <1>4, <1>5, <1>6 DEF ParserType, ParseStates, HeaderStates, Owes

\* One that owes nothing is idle.
LEMMA OwesNothing ==
  ASSUME ParserType, NEW k \in Int, k <= 0, Owes(k)
  PROVE  parse_state = "IDLE"
<1>1. PICK S \in Nat \ {0}, M \in Nat, e \in Nat, v \in {0, 2}, n \in Nat :
        /\ S = SIGNATURE_BLOCK_LEN /\ M = MaxByte /\ e = Expected /\ v = Shorter
        /\ n = len
  BY MarkersAre, ExpectedIs DEF ParserType
<1>2. /\ parse_state = "GOT_MSGID3" => ~(k >= (len - packet_idx) + 2 + Expected)
      /\ parse_state = "SIGNATURE_WAIT" => ~(k >= signature_wait)
  BY <1>1 DEF ParserType
<1>3. /\ ~(k >= 7 + MaxByte) /\ ~(k >= 11 + MaxByte + SIGNATURE_BLOCK_LEN)
      /\ ~(k >= 10 + len + SIGNATURE_BLOCK_LEN) /\ ~(k >= 9 + len + Expected)
      /\ ~(k >= 8 - Shorter + len + Expected) /\ ~(k >= 7 - Shorter + len + Expected)
      /\ ~(k >= 6 - Shorter + len + Expected) /\ ~(k >= 5 - Shorter + len + Expected)
      /\ ~(k >= 4 + len + Expected) /\ ~(k >= 3 + len + Expected)
      /\ ~(k >= 2 + Expected) /\ ~(k >= 1 + Expected)
  BY <1>1
<1>4. QED BY <1>2, <1>3 DEF Owes

\* A frame is opened again by the byte that made a checksum wrong.
Reopened(c) ==
  /\ c = MAVLINK_STX /\ parse_state' = "GOT_STX"
  /\ checksum' = <<>> /\ in_mavlink1' = in_mavlink1

\* What happens behind the payload: a step nearer to the end, or a beginning.
LEMMA ChecksumEnds ==
  ASSUME NEW c, GotChecksum2(c)
  PROVE  \/ parse_state' = "IDLE"
         \/ /\ parse_state' = "SIGNATURE_WAIT"
            /\ signature_wait' = SIGNATURE_BLOCK_LEN /\ len' = len
            /\ incompat_flags = MAVLINK_IFLAG_SIGNED
         \/ Reopened(c) /\ len' = 0
<1>1. CASE parse_state = "GOT_BAD_CRC1" \/ \A f \in Matches : f.ck[2] # c
  <2>1. BadChecksum(c) /\ in_mavlink1' = in_mavlink1
    BY <1>1 DEF GotChecksum2
  <2>2. QED BY <2>1 DEF BadChecksum, Restart, Reopened
<1>2. CASE ~(parse_state = "GOT_BAD_CRC1" \/ \A f \in Matches : f.ck[2] # c)
  BY <1>2 DEF GotChecksum2, Complete
<1>3. QED BY <1>1, <1>2

\* The parser's fields stay in their ranges.
LEMMA ParserTypeKept ==
  ASSUME ParserType, NEW c \in Byte, ParseChar(c)
  PROVE  ParserType'
<1>1. CASE Idle(c)
  BY <1>1, MarkersAre DEF Idle, ParserType, ParseStates, HeaderStates
<1>2. CASE GotStx(c)
  BY <1>2 DEF GotStx, ParserType, ParseStates, HeaderStates
<1>3. CASE GotLength(c)
  BY <1>3 DEF GotLength, ParserType, ParseStates, HeaderStates
<1>4. CASE GotHeaderByte(c)
  <2>1. /\ parse_state \in HeaderStates /\ packet_idx = 0
        /\ len' = len /\ packet_idx' = packet_idx
        /\ parse_state' \in HeaderStates \/ (len > 0 /\ parse_state' = "GOT_MSGID3")
             \/ parse_state' = "GOT_PAYLOAD"
    BY <1>4 DEF GotHeaderByte, ParserType, HeaderStates, Follows, LastHeaderByte
  <2>2. QED BY <2>1 DEF ParserType, ParseStates, HeaderStates
<1>5. CASE GotPayloadByte(c)
  <2>1. PICK n \in Nat, i \in Nat : n = len /\ i = packet_idx /\ i < n
    BY <1>5, MarkersAre DEF GotPayloadByte, ParserType
  <2>2. /\ packet_idx' = i + 1 /\ len' = len /\ len' = n
        /\ parse_state' = IF i + 1 = n THEN "GOT_PAYLOAD" ELSE "GOT_MSGID3"
    BY <1>5, <2>1 DEF GotPayloadByte
  <2>3. i + 1 # n => i + 1 < n
    BY <2>1
  <2>4. QED BY <2>1, <2>2, <2>3 DEF ParserType, ParseStates, HeaderStates
<1>6. CASE GotChecksum1(c)
  BY <1>6 DEF GotChecksum1, ParserType, ParseStates, HeaderStates
<1>7. CASE GotChecksum2(c)
  <2>1. packet_idx' = packet_idx /\ (len' = len \/ len' = 0) /\ 0 \in Byte
    BY <1>7, MarkersAre DEF GotChecksum2, BadChecksum, Complete
  <2>2. SIGNATURE_BLOCK_LEN \in 1..SIGNATURE_BLOCK_LEN
    BY MarkersAre
  <2>3. QED BY <1>7, <2>1, <2>2, ChecksumEnds DEF Reopened, ParserType, ParseStates,
       HeaderStates
<1>8. CASE GotSignatureByte(c)
  <2>1. /\ packet_idx' = packet_idx /\ len' = len
        /\ signature_wait' = signature_wait - 1
        /\ signature_wait' = 0 => parse_state' = "IDLE"
        /\ signature_wait' # 0 => parse_state' = "SIGNATURE_WAIT"
    BY <1>8 DEF GotSignatureByte, Complete, ParserType
  <2>2. signature_wait' # 0 => signature_wait' \in 1..SIGNATURE_BLOCK_LEN
    BY <1>8, <2>1, MarkersAre DEF GotSignatureByte, ParserType
  <2>3. QED BY <2>1, <2>2 DEF ParserType, ParseStates, HeaderStates
<1>9. QED
  BY <1>1, <1>2, <1>3, <1>4, <1>5, <1>6, <1>7, <1>8 DEF ParseChar

\* A byte brings it a step nearer.
LEMMA OwesLess ==
  ASSUME ParserType, NEW c \in Byte, ParseChar(c), NEW k \in Int, Owes(k),
         parse_state # "IDLE"
  PROVE  Owes(k - 1)' \/ Reopened(c)
<1>1. PICK S \in Nat \ {0}, M \in Nat, e \in Nat, v \in {0, 2}, n \in Nat, b \in Nat :
        /\ S = SIGNATURE_BLOCK_LEN /\ M = MaxByte /\ e = Expected /\ v = Shorter
        /\ n = len /\ e <= S /\ b = c /\ b <= M
  BY MarkersAre, ExpectedIs DEF ParserType
<1>2. in_mavlink1 <=> v = 2
  BY <1>1, ExpectedIs
<1>3. PICK j \in Int : j = k - 1
  OBVIOUS
<1>4. CASE GotStx(c)
  <2>1. parse_state = "GOT_STX" /\ in_mavlink1' = in_mavlink1 /\ len' = b
    BY <1>1, <1>4 DEF GotStx
  <2>2. CASE v = 2
    <3>1. k >= 7 + M
      BY <1>1, <2>1, <2>2 DEF Owes
    <3>2. parse_state' = "GOT_COMPAT_FLAGS" /\ incompat_flags' = 0
      BY <1>2, <1>4, <2>2 DEF GotStx
    <3>3. Shorter' = 2 /\ Expected' = 0
      BY <1>2, <2>1, <2>2, <3>2 DEF Shorter, Expected, MAVLINK_IFLAG_SIGNED
    <3>4. j >= 8 - 2 + b + 0
      BY <1>1, <1>3, <3>1
    <3>5. QED BY <1>3, <2>1, <3>2, <3>3, <3>4 DEF Owes
  <2>3. CASE v = 0
    <3>1. k >= 11 + M + S
      BY <1>1, <2>1, <2>3 DEF Owes
    <3>2. parse_state' = "GOT_LENGTH"
      BY <1>2, <1>4, <2>3 DEF GotStx
    <3>3. j >= 10 + b + S
      BY <1>1, <1>3, <3>1
    <3>4. QED BY <1>1, <1>3, <2>1, <3>2, <3>3 DEF Owes
  <2>4. QED BY <2>2, <2>3
<1>5. CASE GotLength(c)
  <2>1. /\ parse_state = "GOT_LENGTH" /\ len' = n
        /\ parse_state' \in {"IDLE", "GOT_INCOMPAT_FLAGS"}
    BY <1>1, <1>5 DEF GotLength
  <2>2. k >= 10 + n + S
    BY <1>1, <2>1 DEF Owes
  <2>3. PICK x \in Nat : x = Expected' /\ x <= S
    BY <1>1, MarkersAre DEF Expected
  <2>4. j >= 9 + n + x
    <3>1. j >= 9 + n + S
      BY <1>1, <1>3, <2>2
    <3>2. \A y \in Nat : y <= S => j >= 9 + n + y
      BY <1>1, <1>3, <3>1
    <3>3. QED BY <2>3, <3>2
  <2>5. QED BY <1>3, <2>1, <2>3, <2>4 DEF Owes
<1>6. ASSUME incompat_flags' = incompat_flags PROVE Expected' = e
  BY <1>1, <1>6 DEF Expected
<1>7. ASSUME in_mavlink1' = in_mavlink1 PROVE Shorter' = v
  BY <1>1, <1>7 DEF Shorter
<1>8. CASE GotHeaderByte(c)
  <2>1. /\ len' = n /\ packet_idx' = 0 /\ Expected' = e /\ Shorter' = v
        /\ parse_state \in HeaderStates \ {"GOT_LENGTH"}
    BY <1>1, <1>6, <1>7, <1>8 DEF GotHeaderByte, ParserType, HeaderStates, Follows
  <2>2. CASE LastHeaderByte
    <3>1. k >= 3 + n + e
      BY <1>1, <1>2, <2>1, <2>2 DEF LastHeaderByte, Owes
    <3>2. /\ j >= (n - 0) + 2 + e
          /\ n = 0 => j >= 2 + e
      BY <1>1, <1>3, <3>1
    <3>3. parse_state' = IF n > 0 THEN "GOT_MSGID3" ELSE "GOT_PAYLOAD"
      BY <1>1, <1>8, <2>2 DEF GotHeaderByte
    <3>4. n > 0 \/ n = 0
      OBVIOUS
    <3>5. QED BY <1>3, <2>1, <3>2, <3>3, <3>4 DEF Owes
  <2>3. CASE ~LastHeaderByte
    <3>1. parse_state' = Follows[parse_state] /\ parse_state # "GOT_MSGID2"
      BY <1>8, <2>3 DEF GotHeaderByte, LastHeaderByte
    <3>2. parse_state = "GOT_COMPID" => v = 0
      BY <1>2, <2>3 DEF LastHeaderByte
    <3>3. CASE parse_state = "GOT_INCOMPAT_FLAGS"
      <4>1. k >= 9 + n + e
        BY <1>1, <3>3 DEF Owes
      <4>2. j >= 8 - v + n + e
        BY <1>1, <1>3, <4>1
      <4>3. QED BY <1>3, <2>1, <3>1, <3>3, <4>2 DEF Follows, Owes
    <3>4. CASE parse_state = "GOT_COMPAT_FLAGS"
      <4>1. k >= 8 - v + n + e
        BY <1>1, <3>4 DEF Owes
      <4>2. j >= 7 - v + n + e
        BY <1>1, <1>3, <4>1
      <4>3. QED BY <1>3, <2>1, <3>1, <3>4, <4>2 DEF Follows, Owes
    <3>5. CASE parse_state = "GOT_SEQ"
      <4>1. k >= 7 - v + n + e
        BY <1>1, <3>5 DEF Owes
      <4>2. j >= 6 - v + n + e
        BY <1>1, <1>3, <4>1
      <4>3. QED BY <1>3, <2>1, <3>1, <3>5, <4>2 DEF Follows, Owes
    <3>6. CASE parse_state = "GOT_SYSID"
      <4>1. k >= 6 - v + n + e
        BY <1>1, <3>6 DEF Owes
      <4>2. j >= 5 - v + n + e
        BY <1>1, <1>3, <4>1
      <4>3. QED BY <1>3, <2>1, <3>1, <3>6, <4>2 DEF Follows, Owes
    <3>7. CASE parse_state = "GOT_COMPID"
      <4>1. k >= 5 - v + n + e
        BY <1>1, <3>7 DEF Owes
      <4>2. j >= 4 + n + e
        BY <1>1, <1>3, <3>2, <3>7, <4>1
      <4>3. QED BY <1>3, <2>1, <3>1, <3>7, <4>2 DEF Follows, Owes
    <3>8. CASE parse_state = "GOT_MSGID1"
      <4>1. k >= 4 + n + e
        BY <1>1, <3>8 DEF Owes
      <4>2. j >= 3 + n + e
        BY <1>1, <1>3, <4>1
      <4>3. QED BY <1>3, <2>1, <3>1, <3>8, <4>2 DEF Follows, Owes
    <3>9. QED BY <2>1, <3>1, <3>3, <3>4, <3>5, <3>6, <3>7, <3>8 DEF HeaderStates
  <2>4. QED BY <2>2, <2>3
<1>9. CASE GotPayloadByte(c)
  <2>1. PICK i \in Nat : i = packet_idx /\ i < n
    BY <1>1, <1>9 DEF GotPayloadByte, ParserType
  <2>2. /\ packet_idx' = i + 1 /\ len' = n /\ Expected' = e
        /\ parse_state' = IF i + 1 = n THEN "GOT_PAYLOAD" ELSE "GOT_MSGID3"
    BY <1>1, <1>6, <1>9, <2>1 DEF GotPayloadByte
  <2>3. k >= (n - i) + 2 + e
    BY <1>1, <1>9, <2>1 DEF GotPayloadByte, Owes
  <2>4. /\ j >= (n - (i + 1)) + 2 + e
        /\ i + 1 = n => j >= 2 + e
    BY <1>1, <1>3, <2>1, <2>3
  <2>5. QED BY <1>3, <2>2, <2>4 DEF Owes
<1>10. CASE GotChecksum1(c)
  <2>1. /\ parse_state = "GOT_PAYLOAD" /\ Expected' = e
        /\ parse_state' \in {"GOT_CRC1", "GOT_BAD_CRC1"}
    BY <1>6, <1>10 DEF GotChecksum1
  <2>2. k >= 2 + e
    BY <1>1, <2>1 DEF Owes
  <2>3. j >= 1 + e
    BY <1>1, <1>3, <2>2
  <2>4. QED BY <1>3, <2>1, <2>3 DEF Owes
<1>11. CASE GotChecksum2(c)
  <2>1. k >= 1 + e
    BY <1>1, <1>11 DEF GotChecksum2, Owes
  <2>2. CASE parse_state' = "SIGNATURE_WAIT" /\ signature_wait' = SIGNATURE_BLOCK_LEN
              /\ incompat_flags = MAVLINK_IFLAG_SIGNED
    <3>1. e = S
      BY <1>1, <2>2, ExpectedIs
    <3>2. j >= S
      BY <1>1, <1>3, <2>1, <3>1
    <3>3. QED BY <1>1, <1>3, <2>2, <3>2 DEF Owes
  <2>3. CASE parse_state' = "IDLE"
    BY <2>3 DEF Owes
  <2>4. QED BY <1>11, <2>2, <2>3, ChecksumEnds
<1>12. CASE GotSignatureByte(c)
  <2>1. PICK w \in Nat : w = signature_wait /\ w >= 1
    BY <1>12, MarkersAre DEF GotSignatureByte, ParserType
  <2>2. k >= w
    BY <1>12, <2>1 DEF GotSignatureByte, Owes
  <2>3. /\ signature_wait' = w - 1
        /\ parse_state' \in {"IDLE", "SIGNATURE_WAIT"}
    BY <1>12, <2>1 DEF GotSignatureByte, Complete
  <2>4. j >= w - 1
    BY <1>3, <2>1, <2>2
  <2>5. QED BY <1>3, <2>3, <2>4 DEF Owes
<1>13. QED
  BY <1>4, <1>5, <1>8, <1>9, <1>10, <1>11, <1>12 DEF ParseChar, Idle

-----------------------------------------------------------------------------
(***************************************************************************)
(* The stream: a parser that began a frame idle is in step with it, and    *)
(* one that is out of step settles.                                        *)
(***************************************************************************)
StreamType ==
  frame \in Frames /\ pos \in 0..Len(Bytes(frame)) /\ clean \in 0..Horizon

InStep == \E f \in Frames, p \in Nat : f = frame /\ p = pos /\ InStepAt(f, p)
Tracked == whole /\ idle_at_start => InStep

\* After a bad checksum a frame of version 2 can be taken for one of version 1,
\* which is shorter: the parser is idle again before its end.
Misread == pos = 1 /\ frame.v2 /\ in_mavlink1 /\ parse_state = "GOT_STX"

Settles ==
  \/ pos > 0 /\ InStep
  \/ Misread
  \/ \E k \in Int : /\ Owes(k)
                    /\ \/ k <= Horizon - clean
                       \/ pos > 0 /\ k <= Len(Bytes(frame)) - pos

IdleAgain == clean_at_start >= Horizon => idle_at_start

FInv == ParserType /\ StreamType /\ Settles /\ Tracked /\ IdleAgain

parsedVars == <<parse_state, in_mavlink1, msg_received, len, incompat_flags,
                packet_idx, signature_wait, checksum>>

\* What the parser has read changes only when it reads.
LEMMA UnparsedKeeps ==
  ASSUME UNCHANGED parsedVars, NEW f, NEW p, NEW k
  PROVE  /\ InStepAt(f, p) => InStepAt(f, p)'
         /\ Owes(k) => Owes(k)'
         /\ ParserType => ParserType'
<1>1. InStepAt(f, p) => InStepAt(f, p)'
  BY DEF parsedVars, InStepAt, StateAt, HeaderState, ReadAt, FieldsAt, VersionAt, GivenAt
<1>2. Owes(k) => Owes(k)'
  BY DEF parsedVars, Owes, Expected, Shorter
<1>3. ParserType => ParserType'
  BY DEF parsedVars, ParserType
<1>4. QED BY <1>1, <1>2, <1>3

LEMMA HorizonIs == Horizon \in Nat /\ Horizon >= 11
BY MarkersAre DEF Horizon

LEMMA OwesAtMostNext == ParserType' => Owes(Horizon)'
<1>1. ParserType => Owes(Horizon)
  BY OwesAtMost
<1>2. QED BY <1>1, PTL

\* A frame on the wire is longer than what can be misread of it.
LEMMA LengthIs ==
  ASSUME NEW f \in Frames
  PROVE  /\ Len(Bytes(f)) \in Nat /\ Len(Bytes(f)) >= 8
         /\ f.v2 => Len(Bytes(f)) >= Len(f.payload) + 12
         /\ \A i \in 1..Len(Bytes(f)) : Bytes(f)[i] \in Byte
<1>1. PICK h \in {5, 9}, n \in Nat : h = HeaderLen(f) /\ n = Len(f.payload) /\ (f.v2 => h = 9)
  BY FrameIs, MarkersAre DEF HeaderLen
<1>2. PICK k \in Nat : k = h + n /\ k = Len(Covered(f))
  BY <1>1, CoveredIs
<1>3. PICK z \in Nat : z = Signature(f)
  BY MarkersAre DEF Signature
<1>4. Len(Bytes(f)) = k + 3 + z /\ Bytes(f) \in Seq(Byte)
  BY <1>2, <1>3, BytesAre
<1>5. k + 3 + z >= 8 /\ k + 3 + z \in Nat /\ (h = 9 => k + 3 + z >= n + 12)
  BY <1>2
<1>6. \A i \in 1..Len(Bytes(f)) : Bytes(f)[i] \in Byte
  BY <1>4, ElementOfSeq
<1>7. QED BY <1>1, <1>4, <1>5, <1>6

\* The parser is in step with a frame it is idle before, and with one it opens
\* as what it is.
LEMMA IdleIsInStep ==
  ASSUME NEW f \in Frames, parse_state = "IDLE"
  PROVE  InStepAt(f, 0)
<1>1. PICK h \in {5, 9}, k \in Nat, l \in Nat :
        h = HeaderLen(f) /\ k = Len(Covered(f)) /\ l = Len(Bytes(f)) /\ l >= 8
  <2>1. Len(Covered(f)) \in Nat
    BY CoveredIs, LenProperties
  <2>2. QED BY <2>1, LengthIs DEF HeaderLen
<1>2. StateAt(h, k, l, 0) /\ ReadAt(f, k, 0) /\ FieldsAt(h, k, Flags(f), 0)
  BY <1>1 DEF StateAt, ReadAt, FieldsAt
<1>3. VersionAt(h, 0) /\ GivenAt(l, 0)
  BY <1>1 DEF VersionAt, GivenAt
<1>4. QED BY <1>1, <1>2, <1>3 DEF InStepAt

LEMMA OpenIsInStep ==
  ASSUME NEW f \in Frames, f.v2, parse_state = "GOT_STX", checksum = <<>>, ~in_mavlink1
  PROVE  InStepAt(f, 1)
<1>1. PICK h \in {5, 9}, k \in Nat, l \in Nat :
        h = HeaderLen(f) /\ k = Len(Covered(f)) /\ l = Len(Bytes(f)) /\ l >= 8 /\ h = 9
          /\ k >= 9
  <2>1. HeaderLen(f) = 9
    BY DEF HeaderLen
  <2>2. Len(f.payload) \in Nat
    BY FrameIs, MarkersAre
  <2>3. Len(Covered(f)) \in Nat /\ Len(Covered(f)) >= 9
    BY <2>1, <2>2, CoveredIs
  <2>4. QED BY <2>1, <2>3, LengthIs
<1>2. StateAt(h, k, l, 1) /\ FieldsAt(h, k, Flags(f), 1)
  BY <1>1 DEF StateAt, FieldsAt
<1>3. ReadAt(f, k, 1)
  <2>1. <<>> \in Seq(Byte) /\ Len(<<>>) = 0 /\ 1 - 1 = 0 /\ ~(1 > k + 1)
    BY <1>1
  <2>2. QED BY <2>1 DEF ReadAt
<1>4. VersionAt(h, 1) /\ GivenAt(l, 1)
  BY <1>1 DEF VersionAt, GivenAt
<1>5. QED BY <1>1, <1>2, <1>3, <1>4 DEF InStepAt

\* The same of the next state.
LEMMA InStepNext ==
  ASSUME NEW CONSTANT f \in Frames
  PROVE  /\ parse_state' = "IDLE" => InStepAt(f, 0)'
         /\ f.v2 /\ parse_state' = "GOT_STX" /\ checksum' = <<>> /\ ~in_mavlink1'
              => InStepAt(f, 1)'
<1>1. parse_state = "IDLE" => InStepAt(f, 0)
  BY IdleIsInStep
<1>2. f.v2 /\ parse_state = "GOT_STX" /\ checksum = <<>> /\ ~in_mavlink1
        => InStepAt(f, 1)
  BY OpenIsInStep
<1>3. (parse_state = "IDLE")' => InStepAt(f, 0)'
  BY <1>1, PTL
<1>4. (f.v2 /\ parse_state = "GOT_STX" /\ checksum = <<>> /\ ~in_mavlink1)'
        => InStepAt(f, 1)'
  BY <1>2, PTL
<1>5. QED BY <1>3, <1>4

\* A byte that arrives.
LEMMA ReceiveKeeps ==
  ASSUME FInv, ReceiveByte
  PROVE  FInv'
<1>1. PICK f \in Frames, p \in Nat, l \in Nat, x \in Nat, H \in Nat :
        /\ f = frame /\ p = pos /\ l = Len(Bytes(f)) /\ x = clean /\ H = Horizon
        /\ p < l /\ x <= H /\ l >= 8 /\ H >= 11
  <2>1. PICK f \in Frames : f = frame
    BY DEF FInv, StreamType
  <2>2. PICK l \in Nat : l = Len(Bytes(f)) /\ l >= 8
    BY LengthIs
  <2>3. PICK H \in Nat : H = Horizon /\ H >= 11
    BY HorizonIs
  <2>4. pos \in 0..l /\ clean \in 0..H /\ pos < l
    BY <2>1, <2>2, <2>3 DEF FInv, StreamType, ReceiveByte
  <2>5. QED BY <2>1, <2>2, <2>3, <2>4
<1>2. PICK c \in Byte :
        /\ c = Bytes(f)[p + 1] /\ ParseChar(c)
        /\ clean' = IF p > 0 /\ IsStx(c) THEN 0 ELSE IF x < H THEN x + 1 ELSE x
        /\ frame' = f /\ pos' = p + 1 /\ Len(Bytes(frame')) = l
  <2>1. p + 1 \in 1..Len(Bytes(f))
    BY <1>1
  <2>2. Bytes(f)[p + 1] \in Byte
    BY <2>1, LengthIs
  <2>3. QED BY <1>1, <2>2 DEF ReceiveByte
<1>3. ParserType /\ ParserType'
  BY <1>2, ParserTypeKept DEF FInv
<1>4. StreamType'
  <2>1. p + 1 \in 0..l /\ clean' \in 0..H
    BY <1>1, <1>2
  <2>2. QED BY <1>1, <1>2, <2>1, HorizonIs DEF StreamType, Horizon
<1>5. InStepAt(f, p) => InStepAt(f, p + 1)'
  BY <1>1, <1>2, StepKeepsStep
<1>6. ASSUME NEW q \in Nat, InStepAt(f, q)', q = p + 1 PROVE InStep'
  BY <1>2, <1>6 DEF InStep
<1>7. Settles'
  <2>1. CASE p > 0 /\ IsStx(c)
    <3>1. Owes(H)' /\ clean' = 0
      BY <1>1, <1>2, <1>3, <2>1, OwesAtMostNext
    <3>2. Horizon' = H /\ H - 0 = H
      BY <1>1 DEF Horizon
    <3>3. QED BY <3>1, <3>2 DEF Settles
  <2>2. CASE ~(p > 0 /\ IsStx(c))
    <3>1. clean' = (IF x < H THEN x + 1 ELSE x) /\ Horizon' = H
      BY <1>1, <1>2, <2>2 DEF Horizon
    <3>2. ASSUME InStepAt(f, p + 1)' PROVE Settles'
      <4>1. InStep' /\ pos' > 0
        BY <1>1, <1>2, <1>6, <3>2
      <4>2. QED BY <4>1 DEF Settles
    <3>3. ASSUME parse_state' = "IDLE" PROVE Settles'
      <4>1. PICK k \in Int : k = Horizon' - clean'
        <5>1. PICK y \in Nat : y = clean'
          BY <1>1, <3>1
        <5>2. PICK k \in Int : k = H - y
          OBVIOUS
        <5>3. k = Horizon' - clean'
          BY <3>1, <5>1, <5>2
        <5>4. QED BY <5>3
      <4>2. Owes(k)'
        BY <3>3 DEF Owes
      <4>3. k <= Horizon' - clean'
        BY <4>1
      <4>4. QED BY <4>2, <4>3 DEF Settles
    <3>4. CASE parse_state = "IDLE"
      <4>1. CASE p = 0
        BY <1>1, <1>5, <3>2, <3>4, <4>1, IdleIsInStep
      <4>2. CASE p > 0
        <5>1. Idle(c) /\ ~IsStx(c)
          BY <1>2, <2>2, <3>4, <4>2, ActionIs
        <5>2. parse_state' = "IDLE"
          BY <3>4, <5>1 DEF Idle
        <5>3. QED BY <3>3, <5>2
      <4>3. QED BY <1>1, <4>1, <4>2
    <3>5. CASE InStep
      BY <1>1, <1>5, <3>2, <3>5 DEF InStep
    <3>6. CASE Misread
      <4>1. PICK n \in Nat : n = Len(f.payload) /\ l >= n + 12
        BY <1>1, <3>6, FrameIs, MarkersAre, LengthIs DEF Misread
      <4>2. p = 1 /\ GotStx(c) /\ in_mavlink1
        BY <1>1, <1>2, <3>6, ActionIs DEF Misread
      <4>3. c = n
        <5>1. PICK k \in Nat : k = Len(Covered(f)) /\ k >= 1
          <6>1. Len(Covered(f)) = HeaderLen(f) + n /\ HeaderLen(f) \in {5, 9}
            BY <4>1, CoveredIs DEF HeaderLen
          <6>2. HeaderLen(f) + n \in Nat /\ HeaderLen(f) + n >= 1
            BY <6>1
          <6>3. QED BY <6>1, <6>2
        <5>2. Bytes(f)[1 + 1] = Covered(f)[1]
          BY <5>1, BytesAre
        <5>3. QED BY <1>2, <4>1, <4>2, <5>2, CoveredIs
      <4>4. /\ parse_state' = "GOT_COMPAT_FLAGS" /\ len' = n
            /\ incompat_flags' = 0 /\ in_mavlink1'
        BY <4>2, <4>3 DEF GotStx
      <4>5. Shorter' = 2 /\ Expected' = 0
        BY <4>4 DEF Shorter, Expected, MAVLINK_IFLAG_SIGNED
      <4>6. PICK k \in Int : k = n + 6 /\ k >= 8 - 2 + n + 0 /\ k <= l - 2
        BY <1>1, <4>1
      <4>7. Owes(k)'
        BY <4>4, <4>5, <4>6 DEF Owes
      <4>8. pos' > 0 /\ k <= Len(Bytes(frame')) - pos'
        BY <1>2, <4>2, <4>6
      <4>9. QED BY <4>7, <4>8 DEF Settles
    <3>7. ASSUME NEW k \in Int, Owes(k), parse_state # "IDLE",
                 k <= H - x \/ (p > 0 /\ k <= l - p)
          PROVE  Settles'
      <4>1. k > 0
        BY <1>3, <3>7, OwesNothing
      <4>2. CASE Owes(k - 1)'
        <5>1. PICK j \in Int : j = k - 1
          OBVIOUS
        <5>2. j <= H - clean' \/ j <= l - (p + 1)
          BY <1>1, <3>1, <3>7, <4>1, <5>1
        <5>3. pos' > 0 /\ pos' = p + 1
          BY <1>1, <1>2
        <5>4. QED BY <1>2, <3>1, <4>2, <5>1, <5>2, <5>3 DEF Settles
      <4>3. CASE Reopened(c)
        <5>1. p = 0
          BY <1>1, <2>2, <4>3 DEF Reopened, IsStx
        <5>2. f.v2
          <6>1. PICK k_1 \in Nat : k_1 = Len(Covered(f))
            BY CoveredIs, LenProperties
          <6>2. Bytes(f)[1] = Opening(f)
            BY <6>1, BytesAre
          <6>3. p + 1 = 1
            BY <5>1
          <6>4. c = Opening(f) /\ c = MAVLINK_STX
            BY <1>2, <4>3, <6>2, <6>3 DEF Reopened
          <6>5. QED BY <6>4, MarkersAre DEF Opening
        <5>3. CASE in_mavlink1
          BY <1>2, <4>3, <5>1, <5>2, <5>3 DEF Reopened, Misread, Settles
        <5>4. CASE ~in_mavlink1
          <6>1. InStepAt(f, 1)'
            BY <4>3, <5>2, <5>4, InStepNext DEF Reopened
          <6>2. QED BY <1>1, <3>2, <5>1, <6>1
        <5>5. QED BY <5>3, <5>4
      <4>4. QED BY <1>2, <1>3, <3>7, <4>2, <4>3, OwesLess
    <3>8. QED BY <1>1, <3>4, <3>5, <3>6, <3>7 DEF FInv, Settles
  <2>3. QED BY <2>1, <2>2
<1>8. Tracked'
  <2>1. whole' = whole /\ idle_at_start' = idle_at_start
    BY DEF ReceiveByte
  <2>2. whole /\ idle_at_start => InStepAt(f, p)
    BY <1>1 DEF FInv, Tracked, InStep
  <2>3. InStepAt(f, p) => InStep'
    BY <1>1, <1>5, <1>6
  <2>4. QED BY <2>1, <2>2, <2>3, Zenon DEF Tracked
<1>9. IdleAgain'
  BY DEF ReceiveByte, FInv, IdleAgain, Horizon
<1>10. QED BY <1>3, <1>4, <1>7, <1>8, <1>9 DEF FInv

\* Between two frames the parser is idle, or goes on because of a late loss.
LEMMA BetweenFrames ==
  ASSUME FInv, pos = Len(Bytes(frame))
  PROVE  \/ parse_state = "IDLE"
         \/ clean < Horizon /\ \E k \in Int : k <= Horizon - clean /\ Owes(k)
<1>1. PICK f \in Frames, l \in Nat, x \in Nat, H \in Nat :
        /\ f = frame /\ l = pos /\ l = Len(Bytes(f)) /\ x = clean /\ H = Horizon
        /\ x <= H /\ l >= 8
  <2>1. PICK f \in Frames : f = frame
    BY DEF FInv, StreamType
  <2>2. PICK l \in Nat : l = Len(Bytes(f)) /\ l >= 8
    BY LengthIs
  <2>3. PICK H \in Nat : H = Horizon
    BY HorizonIs
  <2>4. clean \in 0..H
    BY <2>3 DEF FInv, StreamType
  <2>5. QED BY <2>1, <2>2, <2>3, <2>4
<1>2. CASE InStep
  BY <1>1, <1>2 DEF InStep, InStepAt, StateAt
<1>3. CASE Misread
  BY <1>1, <1>3 DEF Misread
<1>4. ASSUME NEW k \in Int, Owes(k), k <= H - x \/ (pos > 0 /\ k <= l - pos)
      PROVE  \/ parse_state = "IDLE"
             \/ clean < Horizon /\ \E j \in Int : j <= Horizon - clean /\ Owes(j)
  <2>1. CASE k <= 0
    BY <1>4, <2>1, OwesNothing DEF FInv
  <2>2. CASE k > 0
    <3>1. k <= H - x /\ x < H
      BY <1>1, <1>4, <2>2
    <3>2. QED BY <1>1, <1>4, <3>1
  <2>3. QED BY <2>1, <2>2
<1>5. QED BY <1>1, <1>2, <1>3, <1>4 DEF FInv, Settles

LEMMA BeginKeeps ==
  ASSUME FInv, NEW f \in Frames, BeginFrame(f)
  PROVE  FInv'
<1>1. /\ pos = Len(Bytes(frame)) /\ frame' = f /\ pos' = 0 /\ clean' = clean
      /\ clean_at_start' = clean /\ UNCHANGED parsedVars
      /\ idle_at_start' = (parse_state = "IDLE")
  BY DEF BeginFrame, parserVars, parsedVars
<1>2. ParserType'
  BY <1>1, UnparsedKeeps DEF FInv
<1>3. StreamType'
  <2>1. Len(Bytes(f)) \in Nat /\ 0 \in 0..Len(Bytes(f))
    BY LengthIs
  <2>2. QED BY <1>1, <2>1 DEF FInv, StreamType, Horizon
<1>4. Settles'
  <2>1. PICK x \in Nat, H \in Nat : x = clean /\ H = Horizon
    BY HorizonIs DEF FInv, StreamType
  <2>2. PICK k \in Int : k <= H - x /\ Owes(k)
    <3>1. CASE parse_state = "IDLE"
      <4>1. PICK k \in Int : k = H - x
        OBVIOUS
      <4>2. Owes(k)
        BY <3>1 DEF Owes
      <4>3. QED BY <4>1, <4>2
    <3>2. CASE \E k \in Int : k <= Horizon - clean /\ Owes(k)
      BY <2>1, <3>2
    <3>3. QED BY <1>1, <3>1, <3>2, BetweenFrames
  <2>3. Owes(k)'
    BY <1>1, <2>2, UnparsedKeeps
  <2>4. Horizon' = H /\ clean' = x
    BY <1>1, <2>1 DEF Horizon
  <2>5. QED BY <2>2, <2>3, <2>4 DEF Settles
<1>5. Tracked'
  <2>1. parse_state = "IDLE" => InStepAt(f, 0)'
    BY <1>1, IdleIsInStep, UnparsedKeeps
  <2>2. InStepAt(f, 0)' => InStep'
    BY <1>1 DEF InStep
  <2>3. idle_at_start' => parse_state = "IDLE"
    BY <1>1
  <2>4. QED BY <2>1, <2>2, <2>3, Zenon DEF Tracked
<1>6. IdleAgain'
  <2>1. CASE parse_state = "IDLE"
    BY <1>1, <2>1 DEF IdleAgain
  <2>2. CASE clean < Horizon
    <3>1. PICK x \in Nat, H \in Nat : x = clean /\ H = Horizon
      BY HorizonIs DEF FInv, StreamType
    <3>2. ~(clean_at_start' >= Horizon')
      BY <1>1, <2>2, <3>1 DEF Horizon
    <3>3. QED BY <3>2 DEF IdleAgain
  <2>3. QED BY <1>1, <2>1, <2>2, BetweenFrames
<1>7. QED BY <1>2, <1>3, <1>4, <1>5, <1>6 DEF FInv

LEMMA LoseKeeps ==
  ASSUME FInv, LoseByte
  PROVE  FInv'
<1>1. /\ pos < Len(Bytes(frame)) /\ frame' = frame /\ pos' = pos + 1 /\ clean' = 0
      /\ ~whole' /\ UNCHANGED <<parsedVars, idle_at_start, clean_at_start>>
  BY DEF LoseByte, parserVars, parsedVars
<1>2. ParserType'
  BY <1>1, UnparsedKeeps DEF FInv
<1>3. StreamType'
  <2>1. PICK f \in Frames : f = frame
    BY DEF FInv, StreamType
  <2>2. PICK l \in Nat : l = Len(Bytes(f))
    BY LengthIs
  <2>3. pos + 1 \in 0..l
    BY <1>1, <2>1, <2>2 DEF FInv, StreamType
  <2>4. 0 \in 0..Horizon
    BY HorizonIs
  <2>5. QED BY <1>1, <2>1, <2>2, <2>3, <2>4 DEF StreamType, Horizon
<1>4. Settles'
  <2>1. PICK H \in Nat : H = Horizon
    BY HorizonIs
  <2>2. Owes(H)' /\ Horizon' = H /\ H - 0 = H
    BY <1>2, <2>1, OwesAtMostNext DEF Horizon
  <2>3. QED BY <1>1, <2>2 DEF Settles
<1>5. Tracked' /\ IdleAgain'
  BY <1>1 DEF FInv, Tracked, IdleAgain, Horizon
<1>6. QED BY <1>2, <1>3, <1>4, <1>5 DEF FInv

\* All that happens to the framing on the path.
LEMMA FramingSteps ==
  ASSUME [PathNext]_pathVars
  PROVE  \/ \E f \in Frames : BeginFrame(f)
         \/ LoseByte
         \/ ReceiveByte
         \/ UNCHANGED <<parsedVars, streamVars>>
<1>1. CASE Arrive
  BY <1>1 DEF Arrive, Send
<1>2. CASE Parse
  BY <1>2 DEF Parse
<1>3. CASE HandOver
  BY <1>3 DEF HandOver, parsedVars
<1>4. CASE EmptyDatagram \/ Draw \/ NothingArrives
  BY <1>4 DEF EmptyDatagram, Draw, NothingArrives, framingVars, parserVars, parsedVars
<1>5. CASE UNCHANGED pathVars
  BY <1>5 DEF pathVars, parserVars, parsedVars
<1>6. QED BY <1>1, <1>2, <1>3, <1>4, <1>5 DEF PathNext

LEMMA FramingHolds == PathSpec => []FInv
<1>1. PathInit => FInv
  <2>1. SUFFICES ASSUME FramingInit PROVE FInv
    BY DEF PathInit
  <2>2. frame \in Frames
    BY <2>1, FramingAssumption DEF FramingInit
  <2>3. PICK l \in Nat : l = Len(Bytes(frame))
    BY <2>2, LengthIs
  <2>4. PICK H \in Nat : H = Horizon /\ H >= 11
    BY HorizonIs
  <2>5. ParserType
    BY <2>1, MarkersAre DEF FramingInit, ParserType, ParseStates, HeaderStates
  <2>6. StreamType
    BY <2>1, <2>2, <2>3, <2>4 DEF FramingInit, StreamType
  <2>7. Settles
    <3>1. Owes(H)
      BY <2>1 DEF FramingInit, Owes
    <3>2. H <= Horizon - clean
      BY <2>1, <2>4 DEF FramingInit
    <3>3. QED BY <3>1, <3>2 DEF Settles
  <2>8. Tracked /\ IdleAgain
    BY <2>1, <2>4 DEF FramingInit, Tracked, IdleAgain
  <2>9. QED BY <2>5, <2>6, <2>7, <2>8 DEF FInv
<1>2. FInv /\ [PathNext]_pathVars => FInv'
  <2>1. SUFFICES ASSUME FInv, [PathNext]_pathVars PROVE FInv'
    OBVIOUS
  <2>2. CASE UNCHANGED <<parsedVars, streamVars>>
    <3>1. /\ UNCHANGED parsedVars
          /\ UNCHANGED <<frame, pos, whole, idle_at_start, clean, clean_at_start>>
      BY <2>2 DEF streamVars
    <3>2. ParserType'
      BY <2>1, <3>1, UnparsedKeeps DEF FInv
    <3>3. StreamType' /\ IdleAgain'
      BY <2>1, <3>1 DEF FInv, StreamType, IdleAgain, Horizon
    <3>4. InStep => InStep'
      <4>1. SUFFICES ASSUME NEW f \in Frames, NEW p \in Nat,
                            f = frame, p = pos, InStepAt(f, p)
                     PROVE  InStep'
        BY DEF InStep
      <4>2. InStepAt(f, p)'
        BY <3>1, <4>1, UnparsedKeeps
      <4>3. QED BY <3>1, <4>1, <4>2 DEF InStep
    <3>5. Tracked'
      BY <2>1, <3>1, <3>4, Zenon DEF FInv, Tracked
    <3>6. Misread => Misread'
      BY <3>1 DEF parsedVars, Misread
    <3>7. ASSUME NEW k \in Int, Owes(k),
                 k <= Horizon - clean \/ (pos > 0 /\ k <= Len(Bytes(frame)) - pos)
          PROVE  Settles'
      <4>1. Owes(k)'
        BY <3>1, <3>7, UnparsedKeeps
      <4>2. QED BY <3>1, <3>7, <4>1 DEF Settles, Horizon
    <3>8. ASSUME pos > 0, InStep PROVE Settles'
      BY <3>1, <3>4, <3>8 DEF Settles
    <3>9. Settles'
      BY <2>1, <3>6, <3>7, <3>8 DEF FInv, Settles
    <3>10. QED BY <3>2, <3>3, <3>5, <3>9 DEF FInv
  <2>3. QED BY <2>1, <2>2, FramingSteps, BeginKeeps, LoseKeeps, ReceiveKeeps
<1>3. QED BY <1>1, <1>2, PTL DEF PathSpec

\* A frame that arrives whole while the parser is idle is taken, whatever came
\* before it: no field of the parser carries over from one frame to the next.
THEOREM WholeFramesAreTaken == PathSpec => []WholeFrameIsTaken
<1>1. FInv => WholeFrameIsTaken
  <2>1. SUFFICES ASSUME FInv, FrameEnds, idle_at_start PROVE Taken
    BY Zenon DEF WholeFrameIsTaken
  <2>2. PICK f \in Frames, p \in Nat : f = frame /\ p = pos /\ InStepAt(f, p)
    BY <2>1, Zenon DEF FInv, Tracked, FrameEnds, InStep
  <2>3. PICK k \in Nat, z \in Nat, l \in Nat :
          k = Len(Covered(f)) /\ l = Len(Bytes(f)) /\ l = k + 3 + z
    <3>1. PICK z \in Nat : z = Signature(f)
      BY MarkersAre DEF Signature
    <3>2. PICK k \in Nat : k = Len(Covered(f))
      BY CoveredIs, LenProperties
    <3>3. Len(Bytes(f)) = k + 3 + z /\ k + 3 + z \in Nat
      BY <3>1, <3>2, BytesAre
    <3>4. QED BY <3>1, <3>2, <3>3
  <2>4. p = l
    BY <2>1, <2>2, <2>3 DEF FrameEnds
  <2>5. ReadAt(f, k, p) /\ GivenAt(l, p)
    BY <2>2, <2>3 DEF InStepAt
  <2>6. msg_received
    BY <2>4, <2>5, Zenon DEF GivenAt
  <2>7. checksum = Covered(f)
    BY <2>3, <2>4, <2>5 DEF ReadAt
  <2>8. QED BY <2>2, <2>6, <2>7, Zenon DEF Taken
<1>2. QED BY <1>1, FramingHolds, PTL

\* A loss costs no frame that begins more than the horizon behind it: wherever
\* the parser was cut off, it is idle again by then.
THEOREM LossesAreLeftBehind == PathSpec => []Resynchronises
<1>1. FInv /\ WholeFrameIsTaken => Resynchronises
  BY DEF FInv, IdleAgain, WholeFrameIsTaken, Resynchronises
<1>2. QED BY <1>1, FramingHolds, WholeFramesAreTaken, PTL
=============================================================================
