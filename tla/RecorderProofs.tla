---------------------------- MODULE RecorderProofs ----------------------------
(***************************************************************************)
(* Proofs about Recorder for every ring size, block size and set of NAL    *)
(* lengths.                                                                *)
(***************************************************************************)
EXTENDS Recorder, TLAPS

\* Slot number k after the tail.
After(k) == IF tail + k < RINGBUFFER_SIZE THEN tail + k
                                          ELSE tail + k - RINGBUFFER_SIZE

\* The indices agree with the count, and a thread in its critical step has
\* what it tested for.
RingShape ==
  /\ head = After(count)
  /\ rx = "copy" => count < RINGBUFFER_SIZE
  /\ Writing => slot = After(RINGBUFFER_SIZE - 1) /\ Dequeued > 0
  /\ Dequeued >= 0

\* The ring holds the blocks that follow the last one dequeued.
RingContents ==
  /\ \A k \in 0..(count - 1) :
       slots[After(k)] = <<Dequeued + 1 + k, Dequeued + 1 + k>>
  /\ rx = "copy" => slots[head][1] = Len(blocks)

\* How far the file is behind the blocks dequeued.
Unwritten == IF saver = "write" THEN 2 ELSE IF saver = "write_rest" THEN 1 ELSE 0

NeverFull == ~filled => count + Copying < RINGBUFFER_SIZE

FileShape ==
  ~filled => /\ Len(file) = 2 * Dequeued - Unwritten
             /\ \A i \in 1..Len(file) : file[i] = (i + 1) \div 2

IInv == TypeOK /\ RingShape /\ RingContents /\ SlotInUseIntact /\ NeverFull /\ FileShape

USE RecorderAssumption

-----------------------------------------------------------------------------
\* The ring index after i, without the modulo.
LEMMA SuccIs ==
  ASSUME NEW i \in 0..(RINGBUFFER_SIZE - 1)
  PROVE  /\ Succ(i) = IF i + 1 < RINGBUFFER_SIZE THEN i + 1 ELSE 0
         /\ Succ(i) \in 0..(RINGBUFFER_SIZE - 1)
<1>1. CASE i + 1 < RINGBUFFER_SIZE
  BY <1>1 DEF Succ
<1>2. CASE i + 1 = RINGBUFFER_SIZE
  BY <1>2 DEF Succ
<1>3. QED BY <1>1, <1>2

\* The initial states satisfy the inductive invariant.
LEMMA InitInv == Init => IInv
<1>1. SUFFICES ASSUME Init PROVE IInv
  OBVIOUS
<1>2. TypeOK
  BY <1>1 DEF Init, TypeOK, Block
<1>3. Dequeued = 0
  BY <1>1 DEF Init, Dequeued, Copying
<1>4. RingShape /\ RingContents /\ SlotInUseIntact /\ NeverFull /\ FileShape
  BY <1>1, <1>3 DEF Init, RingShape, RingContents, SlotInUseIntact, NeverFull,
     FileShape, After, Writing, Unwritten, Copying
<1>5. QED BY <1>2, <1>4 DEF IInv

-----------------------------------------------------------------------------
\* Every step keeps the types; RingShape is what keeps count in its range.
LEMMA TypeStep == TypeOK /\ RingShape /\ [Next]_vars => TypeOK'
<1>1. SUFFICES ASSUME TypeOK, RingShape, [Next]_vars PROVE TypeOK'
  OBVIOUS
<1> USE <1>1 DEF TypeOK, Block
<1>2. ASSUME NEW vps \in BOOLEAN, Skip(vps) PROVE TypeOK'
  BY <1>2 DEF Skip, ringVars
<1>3. ASSUME NEW vps \in BOOLEAN, NEW len \in NalLens, Gather(vps, len)
      PROVE  TypeOK'
  BY <1>3 DEF Gather, Accept, ringVars
<1>4. ASSUME NEW vps \in BOOLEAN, NEW len \in NalLens, BlockFull(vps, len)
      PROVE  TypeOK'
  BY <1>4 DEF BlockFull, Accept, ringVars
<1>5. CASE EnqueueWait
  BY <1>5 DEF EnqueueWait, HasRoom, rxVars, ringVars
<1>6. CASE CopyFirstHalf
  <2>1. slots' \in [0..(RINGBUFFER_SIZE - 1) -> Block]
    <3>1. <<Len(blocks) + 1, slots[head][2]>> \in Block
      BY Len(blocks) \in Nat
    <3>2. QED BY <1>6, <3>1 DEF CopyFirstHalf, HasRoom
  <2>2. blocks' \in Seq(Seq(Nat))
    BY <1>6 DEF CopyFirstHalf, HasRoom
  <2>3. filled' \in BOOLEAN
    BY <1>6, Zenon DEF CopyFirstHalf, HasRoom
  <2>4. rx' = "copy"
    BY <1>6 DEF CopyFirstHalf, HasRoom
  <2>5. QED BY <1>6, <2>1, <2>2, <2>3, <2>4 DEF CopyFirstHalf, HasRoom
<1>7. CASE FinishEnqueue
  <2>1. count < RINGBUFFER_SIZE
    BY <1>7 DEF FinishEnqueue, SignalNotEmpty, StartNextBlock, RingShape
  <2> Succ(head) \in 0..(RINGBUFFER_SIZE - 1)
    BY SuccIs
  <2>2. slots' \in [0..(RINGBUFFER_SIZE - 1) -> Block]
    <3>1. <<slots[head][1], Len(blocks)>> \in Block
      BY Len(blocks) \in Nat
    <3>2. QED BY <1>7, <3>1 DEF FinishEnqueue
  <2>3. count' \in 0..RINGBUFFER_SIZE
    BY <1>7, <2>1 DEF FinishEnqueue
  <2>4. /\ isFoundIFrame' \in BOOLEAN /\ bIsRecorderReady' \in BOOLEAN
        /\ filled' \in BOOLEAN
    BY <1>7, Zenon DEF FinishEnqueue
  <2>5. /\ videoNals' \in Seq(Nat) /\ videoSize' \in 0..BUFFER_SIZE
        /\ pending' \in 0..BUFFER_SIZE
    BY <1>7 DEF FinishEnqueue, StartNextBlock
  <2>6. /\ rx' = "idle" /\ nalCount' = nalCount /\ firstNal' = firstNal
        /\ blocks' = blocks /\ head' = Succ(head) /\ tail' = tail
        /\ slot' = slot /\ file' = file
        /\ saver' = saver \/ saver' = "dequeue"
    BY <1>7 DEF FinishEnqueue, SignalNotEmpty
  <2>7. QED BY <2>2, <2>3, <2>4, <2>5, <2>6
<1>8. CASE StartSaving
  BY <1>8 DEF StartSaving, rxVars, ringVars
<1>9. CASE DequeueWait
  BY <1>9 DEF DequeueWait, rxVars, ringVars
<1>10. CASE Dequeue
  <2>1. Succ(tail) \in 0..(RINGBUFFER_SIZE - 1)
    BY SuccIs
  <2>2. QED BY <1>10, <2>1 DEF Dequeue, TakeOldest, SignalNotFull, rxVars
<1>11. CASE WriteFirstHalf
  BY <1>11 DEF WriteFirstHalf, rxVars, ringVars
<1>12. CASE WriteSecondHalf
  BY <1>12 DEF WriteSecondHalf, rxVars, ringVars
<1>13. CASE SpuriousWakeup
  BY <1>13 DEF SpuriousWakeup, rxVars, ringVars
<1>14. CASE UNCHANGED vars
  BY <1>14 DEF vars, rxVars, ringVars
<1>15. QED
  BY <1>1, <1>2, <1>3, <1>4, <1>5, <1>6, <1>7, <1>8, <1>9, <1>10, <1>11,
     <1>12, <1>13, <1>14
  DEF Next, Input, Enqueue, Save, NoInput

-----------------------------------------------------------------------------
\* The steps that touch neither the ring nor the file, and that neither begin
\* nor end a copy or a write.
Quiet ==
  /\ UNCHANGED <<blocks, slots, head, tail, count, filled, slot, file>>
  /\ rx' = "copy" <=> rx = "copy"
  /\ saver' = "write" <=> saver = "write"
  /\ saver' = "write_rest" <=> saver = "write_rest"

LEMMA StepKinds ==
  [Next]_vars => \/ Quiet \/ CopyFirstHalf \/ FinishEnqueue \/ Dequeue
                 \/ WriteFirstHalf \/ WriteSecondHalf
<1>1. SUFFICES ASSUME [Next]_vars
               PROVE  \/ Quiet \/ CopyFirstHalf \/ FinishEnqueue \/ Dequeue
                      \/ WriteFirstHalf \/ WriteSecondHalf
  OBVIOUS
<1>2. ASSUME NEW vps \in BOOLEAN, Skip(vps) PROVE Quiet
  BY <1>2 DEF Skip, ringVars, Quiet
<1>3. ASSUME NEW vps \in BOOLEAN, NEW len \in NalLens, Gather(vps, len)
      PROVE  Quiet
  BY <1>3 DEF Gather, ringVars, Quiet
<1>4. ASSUME NEW vps \in BOOLEAN, NEW len \in NalLens, BlockFull(vps, len)
      PROVE  Quiet
  BY <1>4 DEF BlockFull, Accept, ringVars, Quiet
<1>5. EnqueueWait => Quiet
  BY DEF EnqueueWait, HasRoom, rxVars, ringVars, Quiet
<1>6. StartSaving => Quiet
  BY DEF StartSaving, rxVars, ringVars, Quiet
<1>7. DequeueWait => Quiet
  BY DEF DequeueWait, rxVars, ringVars, Quiet
<1>8. SpuriousWakeup => Quiet
  BY DEF SpuriousWakeup, rxVars, ringVars, Quiet
<1>9. UNCHANGED vars => Quiet
  BY DEF vars, rxVars, ringVars, Quiet
<1>10. QED
  BY <1>1, <1>2, <1>3, <1>4, <1>5, <1>6, <1>7, <1>8, <1>9
  DEF Next, Input, Enqueue, Save, NoInput

\* A quiet step keeps the whole of the invariant but for the types.
LEMMA QuietStep ==
  ASSUME RingShape, RingContents, SlotInUseIntact, NeverFull, FileShape, Quiet
  PROVE  RingShape' /\ RingContents' /\ SlotInUseIntact' /\ NeverFull' /\ FileShape'
<1>1. Dequeued' = Dequeued /\ Copying' = Copying /\ Unwritten' = Unwritten
  BY DEF Quiet, Dequeued, Copying, Unwritten
<1>2. \A k : After(k)' = After(k)
  BY DEF Quiet, After
<1>3. Writing' <=> Writing
  BY DEF Quiet, Writing
<1>4. RingShape'
  BY <1>1, <1>2, <1>3 DEF Quiet, RingShape, After
<1>5. RingContents'
  BY <1>1, <1>2 DEF Quiet, RingContents, After
<1>6. SlotInUseIntact' /\ NeverFull' /\ FileShape'
  BY <1>1, <1>3 DEF Quiet, SlotInUseIntact, NeverFull, FileShape
<1>7. QED BY <1>4, <1>5, <1>6

\* How the number of blocks dequeued changes: by Dequeue only.
LEMMA DequeuedStep ==
  ASSUME TypeOK
  PROVE  /\ CopyFirstHalf \/ FinishEnqueue \/ WriteFirstHalf \/ WriteSecondHalf
              => Dequeued' = Dequeued
         /\ Dequeue => Dequeued' = Dequeued + 1
<1> USE DEF TypeOK, Dequeued, Copying
<1>1. Len(blocks) \in Nat
  OBVIOUS
<1>2. CopyFirstHalf => Dequeued' = Dequeued
  BY <1>1 DEF CopyFirstHalf, HasRoom
<1>3. FinishEnqueue => Dequeued' = Dequeued
  BY <1>1 DEF FinishEnqueue, SignalNotEmpty, StartNextBlock
<1>4. WriteFirstHalf \/ WriteSecondHalf => Dequeued' = Dequeued
  BY DEF WriteFirstHalf, WriteSecondHalf, rxVars, ringVars
<1>5. Dequeue => Dequeued' = Dequeued + 1
  BY <1>1 DEF Dequeue, TakeOldest, SignalNotFull, rxVars
<1>6. QED BY <1>2, <1>3, <1>4, <1>5

-----------------------------------------------------------------------------
\* The five steps that matter, one lemma each.

\* The copy starts in a free slot: neither a block of the ring is there nor,
\* if another slot is free, the block being written.
LEMMA CopyStep ==
  ASSUME TypeOK, RingShape, RingContents, SlotInUseIntact, NeverFull, FileShape,
         CopyFirstHalf
  PROVE  RingShape' /\ RingContents' /\ SlotInUseIntact' /\ NeverFull' /\ FileShape'
<1>1. Dequeued' = Dequeued
  BY DequeuedStep
<1>2. UNCHANGED <<head, tail, count, saver, slot, file>> /\ rx' = "copy"
  BY DEF CopyFirstHalf, HasRoom
<1>3. count < RINGBUFFER_SIZE /\ Copying = 0 /\ Copying' = 1
  BY DEF CopyFirstHalf, HasRoom, Copying
<1>4. \A k : After(k)' = After(k)
  BY <1>2 DEF After
<1>5. Unwritten' = Unwritten /\ (Writing' <=> Writing)
  BY <1>2 DEF Unwritten, Writing
<1>6. \A i \in 0..(RINGBUFFER_SIZE - 1) : i # head => slots'[i] = slots[i]
  BY DEF CopyFirstHalf, HasRoom, TypeOK
<1>7. RingShape'
  BY <1>1, <1>2, <1>3, <1>4, <1>5 DEF RingShape, After
<1>8. RingContents'
  <2>1. slots'[head][1] = Len(blocks')
    BY Len(blocks') = Len(blocks) + 1 DEF CopyFirstHalf, HasRoom, TypeOK
  <2>2. ASSUME NEW k \in 0..(count - 1)
        PROVE  slots'[After(k)] = <<Dequeued + 1 + k, Dequeued + 1 + k>>
    <3>1. After(k) \in 0..(RINGBUFFER_SIZE - 1) /\ After(k) # head
      BY <1>3 DEF After, RingShape, TypeOK
    <3>2. QED BY <1>6, <3>1 DEF RingContents
  <2>3. QED BY <1>1, <1>2, <1>4, <2>1, <2>2 DEF RingContents, After
<1>9. SlotInUseIntact'
  <2>1. SUFFICES ASSUME Writing, count + 1 < RINGBUFFER_SIZE
                 PROVE  slots'[slot] = <<Dequeued, Dequeued>>
    BY <1>1, <1>2, <1>3, <1>5 DEF SlotInUseIntact
  <2>2. slot # head
    BY <2>1 DEF RingShape, After, TypeOK
  <2>3. slots[slot] = <<Dequeued, Dequeued>>
    BY <1>3, <2>1 DEF SlotInUseIntact, TypeOK
  <2>4. QED BY <1>6, <2>2, <2>3 DEF TypeOK
<1>10. NeverFull'
  <2>1. ~filled' => ~filled /\ count # RINGBUFFER_SIZE - 1
    BY Zenon DEF CopyFirstHalf, HasRoom
  <2>2. QED BY <1>2, <1>3, <2>1 DEF NeverFull, TypeOK
<1>11. FileShape'
  <2>1. ~filled' => ~filled
    BY Zenon DEF CopyFirstHalf, HasRoom
  <2>2. QED BY <1>1, <1>2, <1>5, <2>1 DEF FileShape
<1>12. QED BY <1>7, <1>8, <1>9, <1>10, <1>11

\* The copy ends: the block joins the ring at its end.
LEMMA FinishStep ==
  ASSUME TypeOK, RingShape, RingContents, SlotInUseIntact, NeverFull, FileShape,
         FinishEnqueue
  PROVE  RingShape' /\ RingContents' /\ SlotInUseIntact' /\ NeverFull' /\ FileShape'
<1>1. Dequeued' = Dequeued
  BY DequeuedStep
<1>2. UNCHANGED <<blocks, tail, filled, slot, file>> /\ rx' = "idle" /\ rx = "copy"
  BY DEF FinishEnqueue, SignalNotEmpty, StartNextBlock
<1>3. count' = count + 1 /\ head' = Succ(head) /\ count < RINGBUFFER_SIZE
  BY DEF FinishEnqueue, SignalNotEmpty, StartNextBlock, RingShape
<1>4. Copying = 1 /\ Copying' = 0
  BY <1>2 DEF Copying
<1>5. \A k : After(k)' = After(k)
  BY <1>2 DEF After
<1>6. Unwritten' = Unwritten /\ (Writing' <=> Writing)
  BY DEF FinishEnqueue, SignalNotEmpty, StartNextBlock, Unwritten, Writing
<1>7. Dequeued = Len(blocks) - 1 - count
  BY <1>4 DEF Dequeued
<1>8. /\ \A i \in 0..(RINGBUFFER_SIZE - 1) : i # head => slots'[i] = slots[i]
      /\ slots'[head] = <<Len(blocks), Len(blocks)>>
  BY <1>2 DEF FinishEnqueue, SignalNotEmpty, StartNextBlock, TypeOK, RingContents
<1>9. RingShape'
  <2>1. head' = After(count')
    BY <1>3, SuccIs DEF RingShape, After, TypeOK
  <2>2. QED BY <1>1, <1>2, <1>5, <1>6, <2>1 DEF RingShape, After
<1>10. RingContents'
  <2>1. ASSUME NEW k \in 0..(count' - 1)
        PROVE  slots'[After(k)] = <<Dequeued + 1 + k, Dequeued + 1 + k>>
    <3>1. CASE k = count
      <4>1. Dequeued + 1 + k = Len(blocks)
        BY <1>7, <3>1, Len(blocks) \in Nat DEF TypeOK
      <4>2. After(k) = head
        BY <3>1 DEF RingShape
      <4>3. QED BY <1>8, <4>1, <4>2
    <3>2. CASE k \in 0..(count - 1)
      <4>1. After(k) \in 0..(RINGBUFFER_SIZE - 1) /\ After(k) # head
        BY <1>3, <3>2 DEF After, RingShape, TypeOK
      <4>2. QED BY <1>8, <3>2, <4>1 DEF RingContents
    <3>3. QED BY <1>3, <3>1, <3>2 DEF TypeOK
  <2>2. QED BY <1>1, <1>2, <1>5, <2>1 DEF RingContents, After
<1>11. SlotInUseIntact'
  <2>1. SUFFICES ASSUME Writing, count + 1 < RINGBUFFER_SIZE
                 PROVE  slots'[slot] = <<Dequeued, Dequeued>>
    BY <1>1, <1>2, <1>3, <1>4, <1>6 DEF SlotInUseIntact, TypeOK
  <2>2. slot # head
    BY <2>1 DEF RingShape, After, TypeOK
  <2>3. slots[slot] = <<Dequeued, Dequeued>>
    BY <1>4, <2>1 DEF SlotInUseIntact
  <2>4. QED BY <1>8, <2>2, <2>3 DEF TypeOK
<1>12. NeverFull' /\ FileShape'
  BY <1>1, <1>2, <1>3, <1>4, <1>6 DEF NeverFull, FileShape, TypeOK
<1>13. QED BY <1>9, <1>10, <1>11, <1>12

\* The oldest block leaves the ring but stays in its slot.
LEMMA DequeueStep ==
  ASSUME TypeOK, RingShape, RingContents, SlotInUseIntact, NeverFull, FileShape,
         Dequeue
  PROVE  RingShape' /\ RingContents' /\ SlotInUseIntact' /\ NeverFull' /\ FileShape'
<1>1. Dequeued' = Dequeued + 1
  BY DequeuedStep
<1>2. UNCHANGED <<blocks, slots, head, filled, file>> /\ rx # "copy" /\ rx' # "copy"
  BY DEF Dequeue, TakeOldest, SignalNotFull, rxVars, RingLocked
<1>3. slot' = tail /\ tail' = Succ(tail) /\ count' = count - 1 /\ count > 0
  BY DEF Dequeue, TakeOldest, SignalNotFull
<1>4. Copying = 0 /\ Copying' = 0
  BY <1>2 DEF Copying
<1>5. Unwritten = 0 /\ Unwritten' = 2 /\ Writing'
  BY DEF Dequeue, TakeOldest, SignalNotFull, Unwritten, Writing
<1> tail' = IF tail + 1 < RINGBUFFER_SIZE THEN tail + 1 ELSE 0
  BY <1>3, SuccIs DEF TypeOK
<1>6. \A k \in 0..(RINGBUFFER_SIZE - 1) : After(k)' = After(k + 1)
  BY DEF After, TypeOK
<1>7. RingShape'
  <2>1. head' = After(count)' /\ slot' = After(RINGBUFFER_SIZE - 1)'
    BY <1>2, <1>3 DEF RingShape, After, TypeOK
  <2>2. Dequeued' > 0 /\ Dequeued' >= 0
    BY <1>1 DEF RingShape, Dequeued, Copying, TypeOK
  <2>3. QED BY <1>2, <2>1, <2>2 DEF RingShape
<1>8. RingContents'
  <2>1. ASSUME NEW k \in 0..(count' - 1)
        PROVE  slots'[After(k)'] = <<Dequeued' + 1 + k, Dequeued' + 1 + k>>
    <3>1. k + 1 \in 0..(count - 1) /\ k \in 0..(RINGBUFFER_SIZE - 1)
      BY <1>3 DEF TypeOK
    <3>2. slots[After(k + 1)] = <<Dequeued + 1 + (k + 1), Dequeued + 1 + (k + 1)>>
      BY <3>1 DEF RingContents
    <3>3. Dequeued + 1 + (k + 1) = Dequeued' + 1 + k
      BY <1>1 DEF Dequeued, Copying, TypeOK
    <3>4. QED BY <1>2, <1>6, <3>1, <3>2, <3>3
  <2>2. QED BY <1>2, <2>1 DEF RingContents
<1>9. SlotInUseIntact'
  <2>1. slots[After(0)] = <<Dequeued + 1 + 0, Dequeued + 1 + 0>>
    BY <1>3 DEF RingContents, TypeOK
  <2>2. After(0) = tail /\ Dequeued + 1 + 0 = Dequeued'
    BY <1>1 DEF After, Dequeued, Copying, TypeOK
  <2>3. QED BY <1>2, <1>3, <2>1, <2>2 DEF SlotInUseIntact
<1>10. NeverFull'
  BY <1>2, <1>3, <1>4 DEF NeverFull, TypeOK
<1>11. FileShape'
  <2>1. Dequeued \in Int
    BY DEF Dequeued, Copying, TypeOK
  <2>2. QED BY <1>1, <1>2, <1>5, <2>1 DEF FileShape
<1>12. QED BY <1>7, <1>8, <1>9, <1>10, <1>11

\* fwrite copies the slot, half by half: if the ring never filled, what it
\* reads is the block that was dequeued last.
LEMMA WriteStep ==
  ASSUME TypeOK, RingShape, RingContents, SlotInUseIntact, NeverFull, FileShape,
         WriteFirstHalf \/ WriteSecondHalf
  PROVE  RingShape' /\ RingContents' /\ SlotInUseIntact' /\ NeverFull' /\ FileShape'
<1>1. Dequeued' = Dequeued /\ Dequeued \in Int
  BY DequeuedStep DEF Dequeued, Copying, TypeOK
<1>2. UNCHANGED <<rx, blocks, slots, head, tail, count, filled, slot>>
  BY DEF WriteFirstHalf, WriteSecondHalf, rxVars, ringVars
<1>3. Writing /\ (Copying' = Copying) /\ \A k : After(k)' = After(k)
  BY <1>2 DEF WriteFirstHalf, WriteSecondHalf, Writing, Copying, After
<1>4. RingShape' /\ RingContents' /\ NeverFull'
  BY <1>1, <1>2, <1>3 DEF RingShape, RingContents, NeverFull, After
<1>5. SlotInUseIntact'
  BY <1>1, <1>2, <1>3 DEF SlotInUseIntact
<1>6. ASSUME ~filled
      PROVE  /\ Len(file') = 2 * Dequeued - Unwritten'
             /\ \A i \in 1..Len(file') : file'[i] = (i + 1) \div 2
  <2>1. slots[slot] = <<Dequeued, Dequeued>>
    BY <1>3, <1>6 DEF NeverFull, SlotInUseIntact
  <2>2. file' = Append(file, Dequeued)
    BY <2>1 DEF WriteFirstHalf, WriteSecondHalf
  <2>3. /\ Len(file) = 2 * Dequeued - Unwritten
        /\ \A i \in 1..Len(file) : file[i] = (i + 1) \div 2
    BY <1>6 DEF FileShape
  <2>4. /\ Unwritten \in {1, 2} /\ Unwritten' = Unwritten - 1
    BY DEF WriteFirstHalf, WriteSecondHalf, Unwritten
  <2>5. Len(file') = Len(file) + 1
    BY <2>2 DEF TypeOK
  <2>6. ASSUME NEW i \in 1..Len(file') PROVE file'[i] = (i + 1) \div 2
    <3>1. CASE i = Len(file) + 1
      <4>1. file'[i] = Dequeued
        BY <2>2, <3>1 DEF TypeOK
      <4>2. i + 1 = 2 * Dequeued \/ i + 1 = 2 * Dequeued + 1
        BY <1>1, <2>3, <2>4, <3>1
      <4>3. QED BY <1>1, <4>1, <4>2
    <3>2. CASE i \in 1..Len(file)
      BY <2>2, <2>3, <3>2 DEF TypeOK
    <3>3. i \in 1..(Len(file) + 1) /\ Len(file) \in Nat
      BY <2>5 DEF TypeOK
    <3>4. QED BY <3>1, <3>2, <3>3
  <2>7. QED BY <1>1, <2>3, <2>4, <2>5, <2>6
<1>7. FileShape'
  BY <1>1, <1>2, <1>6 DEF FileShape
<1>8. QED BY <1>4, <1>5, <1>7

-----------------------------------------------------------------------------
LEMMA NextInv == IInv /\ [Next]_vars => IInv'
<1>1. SUFFICES ASSUME IInv, [Next]_vars PROVE IInv'
  OBVIOUS
<1>2. TypeOK'
  BY <1>1, TypeStep DEF IInv
<1>3. RingShape' /\ RingContents' /\ SlotInUseIntact' /\ NeverFull' /\ FileShape'
  BY <1>1, StepKinds, QuietStep, CopyStep, FinishStep, DequeueStep, WriteStep
  DEF IInv
<1>4. QED BY <1>2, <1>3 DEF IInv

LEMMA InvHolds == Spec => []IInv
BY InitInv, NextInv, PTL DEF Spec

\* Type correctness, with the ring's indices and count in their ranges.
THEOREM TypeCorrect == Spec => []TypeOK
<1>1. IInv => TypeOK
  BY DEF IInv
<1>2. QED BY <1>1, InvHolds, PTL

\* fwrite reads the block that was dequeued, whatever the receive thread does
\* meanwhile, unless it fills the ring.
THEOREM SlotIsSafe == Spec => []SlotInUseIntact
<1>1. IInv => SlotInUseIntact
  BY DEF IInv
<1>2. QED BY <1>1, InvHolds, PTL

\* A recording during which the ring never filled is exact.
THEOREM FileIsExact == Spec => []FileExactUnlessFilled
<1>1. IInv => FileExactUnlessFilled
  BY DEF IInv, FileShape, FileExactUnlessFilled, TypeOK
<1>2. QED BY <1>1, InvHolds, PTL

-----------------------------------------------------------------------------
(***************************************************************************)
(* The NALs gathered.  Before the first VPS nothing is; EveryNalGathered   *)
(* carries itself from there, for the first NAL always fits in the empty   *)
(* block (NalLens \subseteq 1..BUFFER_SIZE).                               *)
(***************************************************************************)
Blank == blocks = <<>> /\ videoNals = <<>> /\ videoSize = 0 /\ rx = "idle"
GatherShape ==
  /\ ~isFoundIFrame => Blank
  /\ rx = "copy" => blocks # <<>>
  /\ EveryNalGathered

\* The last block of a sequence of blocks, and those before it.
LEMMA AppendBlock ==
  ASSUME NEW bs \in Seq(Seq(Nat)), NEW b \in Seq(Nat)
  PROVE  /\ Len(bs) \in Nat /\ Len(Append(bs, b)) = Len(bs) + 1
         /\ DOMAIN Append(bs, b) = 1..(Len(bs) + 1) /\ DOMAIN bs = 1..Len(bs)
         /\ Append(bs, b)[Len(bs) + 1] = b /\ Last(Append(bs, b)) = b
         /\ Append(bs, b) # <<>>
         /\ \A k \in 1..Len(bs) : Append(bs, b)[k] = bs[k]
<1>1. PICK bb, L : bb = Append(bs, b) /\ L = Len(bs)
  OBVIOUS
<1>2. /\ L \in Nat /\ Len(bb) = L + 1
      /\ DOMAIN bb = 1..(L + 1) /\ DOMAIN bs = 1..L
      /\ bb[L + 1] = b
      /\ \A k \in 1..L : bb[k] = bs[k]
  BY <1>1
<1>3. Last(bb) = b /\ bb # <<>>
  BY <1>2 DEF Last
<1>4. QED BY <1>1, <1>2, <1>3

\* The next NAL carries a run on.
LEMMA RunGoesOn ==
  ASSUME NEW s \in Seq(Nat), Run(s), NEW n \in Nat, n = Last(s) + 1,
         NEW t, t = Append(s, n)
  PROVE  Run(t) /\ t[1] = s[1] /\ Last(t) = n
<1>1. /\ Len(s) \in Nat /\ s # <<>> /\ DOMAIN s = 1..Len(s)
      /\ \A i \in 1..Len(s) : s[i] = s[1] + i - 1
  <2>1. Len(s) \in Nat /\ DOMAIN s = 1..Len(s)
    OBVIOUS
  <2>2. s # <<>> /\ \A i \in DOMAIN s : s[i] = s[1] + i - 1
    BY DEF Run
  <2>3. QED BY <2>1, <2>2
<1>2. Len(s) \in Nat \ {0} /\ s[1] \in Nat
  <2>1. Len(s) # 0
    BY <1>1
  <2>2. 1 \in 1..Len(s)
    BY <1>1, <2>1
  <2>3. QED BY <1>1, <2>1, <2>2
<1>3. /\ Len(t) = Len(s) + 1 /\ t[Len(s) + 1] = n /\ t # <<>>
      /\ DOMAIN t = 1..(Len(s) + 1)
      /\ \A i \in 1..Len(s) : t[i] = s[i]
  <2>1. t \in Seq(Nat) /\ Len(t) = Len(s) + 1
    BY <1>1
  <2>2. t[Len(s) + 1] = n /\ \A i \in 1..Len(s) : t[i] = s[i]
    BY <1>1
  <2>3. DOMAIN t = 1..Len(t) /\ t # <<>>
    BY <1>1, <2>1
  <2>4. QED BY <2>1, <2>2, <2>3
<1>4. n = s[1] + Len(s)
  <2>1. PICK m \in Nat, a \in Nat : m = Len(s) /\ a = s[1]
    BY <1>2
  <2>2. m \in 1..m
    BY <1>2, <2>1
  <2>3. s[m] = a + m - 1
    BY <1>1, <2>1, <2>2
  <2>4. n = s[m] + 1
    BY <2>1 DEF Last
  <2>5. QED BY <2>1, <2>3, <2>4
<1>5. \A i \in DOMAIN t : t[i] = t[1] + i - 1
  <2>1. t[1] = s[1]
    BY <1>2, <1>3
  <2>2. SUFFICES ASSUME NEW i \in 1..(Len(s) + 1) PROVE t[i] = s[1] + i - 1
    BY <1>3, <2>1, Zenon
  <2>3. CASE i = Len(s) + 1
    BY <1>2, <1>3, <1>4, <2>3
  <2>4. CASE i \in 1..Len(s)
    BY <1>1, <1>3, <2>4
  <2>5. QED BY <1>2, <2>3, <2>4
<1>6. Run(t)
  BY <1>3, <1>5 DEF Run
<1>7. t[1] = s[1] /\ Last(t) = n
  BY <1>2, <1>3 DEF Last
<1>8. QED BY <1>6, <1>7

\* A single NAL is a run.
LEMMA RunOfOne ==
  ASSUME NEW n \in Nat
  PROVE  <<n>> \in Seq(Nat) /\ Run(<<n>>) /\ <<n>>[1] = n /\ Last(<<n>>) = n
BY DEF Run, Last

\* The first NAL of the recording.
LEMMA GatherFirst ==
  ASSUME TypeOK, GatherShape, ~isFoundIFrame,
         NEW vps \in BOOLEAN, NEW len \in NalLens, Gather(vps, len)
  PROVE  GatherShape'
<1>1. /\ blocks' = <<>> /\ rx' = "idle" /\ isFoundIFrame'
      /\ videoNals' = <<nalCount'>> /\ firstNal' = nalCount' /\ nalCount' \in Nat
  <2>1. blocks = <<>> /\ videoNals = <<>> /\ rx = "idle"
    BY DEF GatherShape, Blank
  <2>2. Append(<<>>, nalCount') = <<nalCount'>>
    OBVIOUS
  <2>3. QED BY <2>1, <2>2 DEF Gather, Accept, TypeOK
<1>2. Recorded' = <<videoNals'>>
  <2>1. Append(<<>>, videoNals') = <<videoNals'>>
    OBVIOUS
  <2>2. QED BY <1>1, <2>1 DEF Recorded
<1>3. PICK n \in Nat : n = nalCount'
  BY <1>1
<1>4. PICK r : r = Recorded'
  OBVIOUS
<1>5. r = << <<n>> >> /\ DOMAIN r = {1} /\ r[1] = <<n>> /\ Len(r) = 1 /\ Last(r) = <<n>>
  BY <1>1, <1>2, <1>3, <1>4 DEF Last
<1>6. Run(<<n>>) /\ <<n>>[1] = n /\ Last(<<n>>) = n
  BY RunOfOne
<1>7. QED BY <1>1, <1>3, <1>4, <1>5, <1>6 DEF GatherShape, EveryNalGathered

\* A NAL that fits carries the block being gathered on.
LEMMA GatherNext ==
  ASSUME TypeOK, GatherShape, isFoundIFrame,
         NEW vps \in BOOLEAN, NEW len \in NalLens, Gather(vps, len)
  PROVE  GatherShape'
<1>1. PICK n \in Nat : n = nalCount + 1
  BY DEF TypeOK
<1>2. /\ rx = "idle" /\ rx' = "idle" /\ isFoundIFrame' /\ blocks' = blocks
      /\ videoNals' = Append(videoNals, n) /\ nalCount' = n /\ firstNal' = firstNal
  BY <1>1 DEF Gather, Accept
<1>3. PICK r, s, L : r = Recorded /\ s = Recorded' /\ L = Len(blocks)
  OBVIOUS
<1>4. r = Append(blocks, videoNals) /\ s = Append(blocks, videoNals')
  BY <1>2, <1>3 DEF Recorded
<1>5. /\ blocks \in Seq(Seq(Nat)) /\ videoNals \in Seq(Nat) /\ videoNals' \in Seq(Nat)
  BY <1>2 DEF TypeOK
<1>6. /\ L \in Nat /\ Len(r) = L + 1 /\ Len(s) = L + 1
      /\ DOMAIN r = 1..(L + 1) /\ DOMAIN s = 1..(L + 1)
      /\ r[L + 1] = videoNals /\ s[L + 1] = videoNals'
      /\ Last(r) = videoNals /\ Last(s) = videoNals'
      /\ \A k \in 1..L : r[k] = s[k]
  <2>1. /\ L \in Nat /\ Len(r) = L + 1 /\ DOMAIN r = 1..(L + 1)
        /\ r[L + 1] = videoNals /\ Last(r) = videoNals
        /\ \A k \in 1..L : r[k] = blocks[k]
    BY <1>3, <1>4, <1>5, AppendBlock
  <2>2. /\ Len(s) = L + 1 /\ DOMAIN s = 1..(L + 1)
        /\ s[L + 1] = videoNals' /\ Last(s) = videoNals'
        /\ \A k \in 1..L : s[k] = blocks[k]
    BY <1>3, <1>4, <1>5, AppendBlock
  <2>3. QED BY <2>1, <2>2
<1>7. /\ \A b \in 1..(L + 1) : Run(r[b])
      /\ r[1][1] = firstNal
      /\ \A b \in 1..L : r[b + 1][1] = Last(r[b]) + 1
      /\ Last(videoNals) = nalCount
  <2>1. (L + 1) - 1 = L
    BY <1>6
  <2>2. QED BY <1>2, <1>3, <1>6, <2>1 DEF GatherShape, EveryNalGathered
<1>8. Run(videoNals') /\ videoNals'[1] = videoNals[1] /\ Last(videoNals') = n
  <2>1. Run(videoNals)
    BY <1>6, <1>7
  <2>2. QED BY <1>1, <1>2, <1>5, <1>7, <2>1, RunGoesOn
<1>9. \A b \in 1..(L + 1) : Run(s[b]) /\ s[b][1] = r[b][1]
  BY <1>6, <1>7, <1>8
<1>10. \A b \in 1..L : s[b + 1][1] = Last(s[b]) + 1
  <2>1. SUFFICES ASSUME NEW b \in 1..L PROVE s[b + 1][1] = Last(s[b]) + 1
    OBVIOUS
  <2>2. b + 1 \in 1..(L + 1) /\ s[b] = r[b]
    BY <1>6
  <2>3. QED BY <1>7, <1>9, <2>2
<1>11. s[1][1] = firstNal
  BY <1>6, <1>7, <1>9
<1>12. (L + 1) - 1 = L
  BY <1>6
<1>13. QED
  BY <1>2, <1>3, <1>6, <1>8, <1>9, <1>10, <1>11, <1>12
  DEF GatherShape, EveryNalGathered

\* The full block has been enqueued: the NAL that did not fit begins the next.
LEMMA GatherFinish ==
  ASSUME TypeOK, GatherShape, FinishEnqueue
  PROVE  GatherShape'
<1>1. /\ rx = "copy" /\ rx' = "idle" /\ blocks' = blocks
      /\ videoNals' = <<nalCount>>
      /\ UNCHANGED <<nalCount, firstNal, isFoundIFrame>>
      /\ isFoundIFrame
  BY DEF FinishEnqueue, SignalNotEmpty, StartNextBlock, GatherShape, Blank
<1>2. PICK s, L : s = Recorded' /\ L = Len(blocks)
  OBVIOUS
<1>3. Recorded = blocks /\ s = Append(blocks, <<nalCount>>)
  BY <1>1, <1>2 DEF Recorded
<1>4. /\ blocks \in Seq(Seq(Nat)) /\ nalCount \in Nat
      /\ <<nalCount>> \in Seq(Nat) /\ Run(<<nalCount>>)
      /\ <<nalCount>>[1] = nalCount /\ Last(<<nalCount>>) = nalCount
  BY RunOfOne DEF TypeOK
<1>5. /\ L \in Nat /\ Len(s) = L + 1
      /\ DOMAIN s = 1..(L + 1) /\ DOMAIN blocks = 1..L
      /\ s[L + 1] = <<nalCount>> /\ Last(s) = <<nalCount>>
      /\ \A k \in 1..L : s[k] = blocks[k]
  <2>1. PICK b \in Seq(Nat) : b = <<nalCount>>
    BY <1>4
  <2>2. s = Append(blocks, b)
    BY <1>3, <2>1
  <2>3. blocks \in Seq(Seq(Nat))
    BY <1>4
  <2>4. /\ L \in Nat /\ Len(s) = L + 1
        /\ DOMAIN s = 1..(L + 1) /\ DOMAIN blocks = 1..L
        /\ s[L + 1] = b /\ Last(s) = b
        /\ \A k \in 1..L : s[k] = blocks[k]
    BY <1>2, <2>2, <2>3, AppendBlock
  <2>5. QED BY <2>1, <2>4
<1>6. /\ \A b \in 1..L : Run(blocks[b])
      /\ blocks[1][1] = firstNal
      /\ \A b \in 1..(L - 1) : blocks[b + 1][1] = Last(blocks[b]) + 1
      /\ Last(blocks[L]) = nalCount - 1
  <2>1. Last(blocks) = blocks[L]
    BY <1>2 DEF Last
  <2>2. QED
    BY <1>1, <1>2, <1>3, <1>5, <2>1 DEF GatherShape, EveryNalGathered
<1>7. L - 1 + 1 = L /\ L > 0 /\ (L + 1) - 1 = L
  BY <1>1, <1>2, <1>4, <1>5 DEF GatherShape
<1>8. \A b \in 1..(L + 1) : Run(s[b])
  <2>1. Run(s[L + 1])
    BY <1>4, <1>5
  <2>2. \A b \in 1..L : Run(s[b])
    BY <1>5, <1>6
  <2>3. \A b \in 1..(L + 1) : b \in 1..L \/ b = L + 1
    BY <1>5
  <2>4. QED BY <2>1, <2>2, <2>3
<1>9. s[1][1] = firstNal
  BY <1>5, <1>6, <1>7
<1>10. \A b \in 1..L : s[b + 1][1] = Last(s[b]) + 1
  <2>1. SUFFICES ASSUME NEW b \in 1..L PROVE s[b + 1][1] = Last(s[b]) + 1
    OBVIOUS
  <2>2. s[b] = blocks[b]
    BY <1>5
  <2>3. CASE b = L
    BY <1>4, <1>5, <1>6, <2>2, <2>3
  <2>4. CASE b # L
    <3>1. b \in 1..(L - 1) /\ b + 1 \in 1..L
      BY <1>5, <2>4
    <3>2. QED BY <1>5, <1>6, <2>2, <3>1
  <2>5. QED BY <2>3, <2>4
<1>11. QED
  BY <1>1, <1>2, <1>4, <1>5, <1>7, <1>8, <1>9, <1>10
  DEF GatherShape, EveryNalGathered

\* The copy counts the block as enqueued; nothing else moves a NAL.
LEMMA GatherCopy ==
  ASSUME TypeOK, GatherShape, CopyFirstHalf
  PROVE  GatherShape'
<1>1. /\ rx = "enqueue" /\ rx' = "copy" /\ blocks' = Append(blocks, videoNals)
      /\ UNCHANGED <<nalCount, firstNal, isFoundIFrame, videoNals>>
      /\ isFoundIFrame
  BY DEF CopyFirstHalf, HasRoom, GatherShape, Blank
<1>2. Recorded' = Recorded
  BY <1>1 DEF Recorded
<1>3. blocks' # <<>>
  <2>1. blocks \in Seq(Seq(Nat)) /\ videoNals \in Seq(Nat)
    BY DEF TypeOK
  <2>2. QED BY <1>1, <2>1, AppendBlock
<1>4. QED BY <1>1, <1>2, <1>3 DEF GatherShape, EveryNalGathered

LEMMA GatherQuiet ==
  ASSUME TypeOK, GatherShape,
         UNCHANGED <<blocks, videoNals, videoSize, firstNal, isFoundIFrame>>,
         rx' = "copy" <=> rx = "copy",
         \/ /\ nalCount' = nalCount /\ (rx' = "idle" <=> rx = "idle")
         \/ isFoundIFrame /\ nalCount' = nalCount + 1 /\ rx = "idle" /\ rx' # "idle"
         \/ ~isFoundIFrame /\ rx' = "idle"
  PROVE  GatherShape'
<1>1. Recorded' = Recorded
  BY DEF Recorded
<1>2. CASE nalCount' = nalCount /\ (rx' = "idle" <=> rx = "idle")
  BY <1>1, <1>2 DEF GatherShape, EveryNalGathered, Blank
<1>3. CASE isFoundIFrame /\ nalCount' = nalCount + 1 /\ rx = "idle" /\ rx' # "idle"
  <2>1. nalCount' - 1 = nalCount
    BY <1>3 DEF TypeOK
  <2>2. QED BY <1>1, <1>3, <2>1 DEF GatherShape, EveryNalGathered
<1>4. CASE ~isFoundIFrame /\ rx' = "idle"
  BY <1>4 DEF GatherShape, EveryNalGathered, Blank
<1>5. QED BY <1>2, <1>3, <1>4

\* bIsRecorderReady once set stays: no NAL is skipped after the first recorded.
ReadyShape == isFoundIFrame => bIsRecorderReady

LEMMA GatherStep ==
  ASSUME TypeOK, GatherShape, ReadyShape, [Next]_vars
  PROVE  GatherShape' /\ ReadyShape'
<1>1. ReadyShape'
  BY DEF ReadyShape, Next, Input, Skip, Gather, BlockFull, Accept, Enqueue,
     EnqueueWait, CopyFirstHalf, FinishEnqueue, Save, StartSaving, DequeueWait,
     Dequeue, WriteFirstHalf, WriteSecondHalf, SpuriousWakeup, NoInput,
     vars, rxVars, ringVars
<1>2. ASSUME NEW vps \in BOOLEAN, Skip(vps) PROVE GatherShape'
  <2>1. ~isFoundIFrame
    BY <1>2 DEF Skip, ReadyShape
  <2>2. QED BY <1>2, <2>1, GatherQuiet DEF Skip
<1>3. ASSUME NEW vps \in BOOLEAN, NEW len \in NalLens, Gather(vps, len)
      PROVE  GatherShape'
  BY <1>3, GatherFirst, GatherNext
<1>4. ASSUME NEW vps \in BOOLEAN, NEW len \in NalLens, BlockFull(vps, len)
      PROVE  GatherShape'
  <2>1. isFoundIFrame
    BY <1>4 DEF BlockFull, GatherShape, Blank
  <2>2. QED BY <1>4, <2>1, GatherQuiet DEF BlockFull, Accept
<1>5. FinishEnqueue => GatherShape'
  BY GatherFinish
<1>6. CopyFirstHalf => GatherShape'
  BY GatherCopy
<1>7. EnqueueWait \/ SpuriousWakeup => GatherShape'
  BY GatherQuiet DEF EnqueueWait, SpuriousWakeup, rxVars
<1>8. Save => GatherShape'
  <2>1. Dequeue => GatherShape'
    BY GatherQuiet DEF Dequeue, SignalNotFull, rxVars
  <2>2. StartSaving \/ DequeueWait \/ WriteFirstHalf \/ WriteSecondHalf
          => GatherShape'
    BY GatherQuiet DEF StartSaving, DequeueWait, WriteFirstHalf, WriteSecondHalf,
       rxVars
  <2>3. QED BY <2>1, <2>2 DEF Save
<1>9. UNCHANGED vars => GatherShape'
  BY GatherQuiet DEF vars, rxVars
<1>10. QED
  BY <1>1, <1>2, <1>3, <1>4, <1>5, <1>6, <1>7, <1>8, <1>9
  DEF Next, Input, Enqueue, NoInput

\* Whatever the lengths of the NALs, the size of the blocks and the waiting for
\* the ring, the blocks are the recorded NALs in order, none missing or twice.
THEOREM NalsAreGathered == Spec => []EveryNalGathered
<1>1. Init => GatherShape /\ ReadyShape
  BY DEF Init, GatherShape, ReadyShape, Blank, EveryNalGathered
<1>2. GatherShape /\ ReadyShape /\ IInv /\ [Next]_vars => GatherShape' /\ ReadyShape'
  BY GatherStep DEF IInv
<1>3. GatherShape => EveryNalGathered
  BY DEF GatherShape
<1>4. QED BY <1>1, <1>2, <1>3, InvHolds, PTL DEF Spec
=============================================================================
