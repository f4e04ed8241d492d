------------------------------- MODULE Recorder -------------------------------
(***************************************************************************)
(* The DVR of vdec (vdec/recorder.c).  The receive thread gathers NALs in  *)
(* videoDataBuffer and puts full blocks in a ring; the saving thread takes *)
(* blocks out of the ring and writes them to the file.  The ring has one   *)
(* mutex and two condition variables.  dequeue returns a POINTER to the    *)
(* slot: fwrite reads it after the mutex is released.                      *)
(*                                                                         *)
(* Blocks are numbered in the order they are enqueued.  A slot and a block *)
(* on its way to the file are pairs of halves, each half with the number   *)
(* of the block it belongs to, so that a copy that is overtaken by another *)
(* shows.  A step is what a thread does between two points where the other *)
(* one can act.                                                            *)
(***************************************************************************)
EXTENDS Integers, SequencesExt

CONSTANTS
  RINGBUFFER_SIZE,  \* slots of the ring: 100
  BUFFER_SIZE,      \* capacity of a block: 512*1024
  NalLens,          \* lengths of the NALs decode_frame delivers
  MaxNals           \* bound: NALs delivered to the recorder

ASSUME RecorderAssumption ==
  /\ RINGBUFFER_SIZE \in Nat \ {0}
  /\ BUFFER_SIZE \in Nat
  /\ NalLens \subseteq 1..BUFFER_SIZE
  /\ MaxNals \in Nat

VARIABLES
  \* the receive thread
  rx,                \* where it is
  nalCount,          \* NALs delivered so far; a NAL is named by its number
  isFoundIFrame,     \* a VPS was seen: recording has begun
  videoNals, videoSize,   \* videoDataBuffer: the NALs in it, its size
  pending,           \* length of the NAL that did not fit
  blocks,            \* history: the NALs of every block enqueued
  firstNal,          \* history: the NAL the recording begins with
  \* the ring
  slots, head, tail, count,
  filled,            \* history: a block was put in the last free slot
  \* the saving thread
  saver,             \* where it is
  bIsRecorderReady,  \* set when it starts
  slot,              \* index of the slot dequeue returned
  file               \* what was written: one half after the other

rxVars   == <<nalCount, isFoundIFrame, videoNals, videoSize, pending, blocks,
              firstNal>>
ringVars == <<slots, head, tail, count, filled>>
vars == <<rx, rxVars, ringVars, saver, bIsRecorderReady, slot, file>>

Init ==
  /\ rx = "idle" /\ nalCount = 0 /\ isFoundIFrame = FALSE
  /\ videoNals = <<>> /\ videoSize = 0 /\ pending = 0 /\ blocks = <<>>
  /\ firstNal = 0
  /\ slots = [i \in 0..(RINGBUFFER_SIZE - 1) |-> <<0, 0>>]
  /\ head = 0 /\ tail = 0 /\ count = 0 /\ filled = FALSE
  \* recorder_int: without a file there is no saving thread
  /\ saver \in {"start", "none"}
  /\ bIsRecorderReady = FALSE /\ slot = 0 /\ file = <<>>

Succ(i) == (i + 1) % RINGBUFFER_SIZE

-----------------------------------------------------------------------------
\* recorder_input_data returns before it looks at the NAL, or because the
\* recording waits for a VPS.
Skip(vps) ==
  /\ rx = "idle" /\ nalCount < MaxNals
  /\ ~bIsRecorderReady \/ (~isFoundIFrame /\ ~vps)
  /\ nalCount' = nalCount + 1
  /\ UNCHANGED <<rx, isFoundIFrame, videoNals, videoSize, pending, blocks,
                 firstNal, ringVars, saver, bIsRecorderReady, slot, file>>

\* It is recorded; the first VPS opens the recording.
Accept(vps) ==
  /\ rx = "idle" /\ nalCount < MaxNals
  /\ bIsRecorderReady /\ (isFoundIFrame \/ vps)
  /\ nalCount' = nalCount + 1
  /\ isFoundIFrame' = TRUE
  /\ firstNal' = IF isFoundIFrame THEN firstNal ELSE nalCount'

\* The NAL fits in the block that is being gathered.
Gather(vps, len) ==
  /\ Accept(vps)
  /\ videoSize + len <= BUFFER_SIZE
  /\ videoNals' = Append(videoNals, nalCount')
  /\ videoSize' = videoSize + len
  /\ UNCHANGED <<rx, pending, blocks, ringVars, saver, bIsRecorderReady, slot,
                 file>>

\* It does not: the block has to be enqueued first.
BlockFull(vps, len) ==
  /\ Accept(vps)
  /\ videoSize + len > BUFFER_SIZE
  /\ pending' = len
  /\ rx' = "enqueue"
  /\ UNCHANGED <<videoNals, videoSize, blocks, ringVars, saver,
                 bIsRecorderReady, slot, file>>

-----------------------------------------------------------------------------
HasRoomOffByOne == count <= RINGBUFFER_SIZE
HasRoom == count < RINGBUFFER_SIZE

\* pthread_cond_signal(not_empty) and (not_full): each has at most one waiter.
NoSignalNotEmpty == UNCHANGED saver
SignalNotEmpty == saver' = IF saver = "wait_not_empty" THEN "dequeue" ELSE saver
NoSignalNotFull == UNCHANGED rx
SignalNotFull == rx' = IF rx = "wait_not_full" THEN "enqueue" ELSE rx

\* The next block begins with the NAL that did not fit.
StartEmptyBlock == videoNals' = <<>> /\ videoSize' = 0
StartNextBlock == videoNals' = <<nalCount>> /\ videoSize' = pending

\* enqueue with the mutex held: wait for room, or start the copy.
EnqueueWait ==
  /\ rx = "enqueue" /\ ~HasRoom
  /\ rx' = "wait_not_full"
  /\ UNCHANGED <<rxVars, ringVars, saver, bIsRecorderReady, slot, file>>

CopyFirstHalf ==
  /\ rx = "enqueue" /\ HasRoom
  /\ slots' = [slots EXCEPT ![head] = <<Len(blocks) + 1, @[2]>>]
  /\ blocks' = Append(blocks, videoNals)
  /\ filled' = (filled \/ count = RINGBUFFER_SIZE - 1)
  /\ rx' = "copy"
  /\ UNCHANGED <<nalCount, isFoundIFrame, videoNals, videoSize, pending,
                 firstNal, head, tail, count, saver, bIsRecorderReady, slot,
                 file>>

\* The rest of the copy, the counters, the signal and the unlock; then
\* recorder_input_data starts the next block with the NAL that did not fit.
FinishEnqueue ==
  /\ rx = "copy"
  /\ slots' = [slots EXCEPT ![head] = <<@[1], Len(blocks)>>]
  /\ head' = Succ(head)
  /\ count' = count + 1
  /\ SignalNotEmpty
  /\ StartNextBlock
  /\ rx' = "idle"
  /\ UNCHANGED <<nalCount, isFoundIFrame, pending, blocks, firstNal, tail,
                 filled, bIsRecorderReady, slot, file>>

-----------------------------------------------------------------------------
\* The mutex: enqueue holds it from the test of count to the unlock.
RingLocked == rx = "copy"

TakeAfterAdvance == tail' = Succ(tail) /\ slot' = tail'
TakeOldest == slot' = tail /\ tail' = Succ(tail)

StartSaving ==
  /\ saver = "start"
  /\ bIsRecorderReady' = TRUE
  /\ saver' = "dequeue"
  /\ UNCHANGED <<rx, rxVars, ringVars, slot, file>>

DequeueWait ==
  /\ saver = "dequeue" /\ ~RingLocked /\ count = 0
  /\ saver' = "wait_not_empty"
  /\ UNCHANGED <<rx, rxVars, ringVars, bIsRecorderReady, slot, file>>

Dequeue ==
  /\ saver = "dequeue" /\ ~RingLocked /\ count > 0
  /\ TakeOldest
  /\ count' = count - 1
  /\ SignalNotFull
  /\ saver' = "write"
  /\ UNCHANGED <<rxVars, slots, head, filled, bIsRecorderReady, file>>

\* fwrite reads the slot, without the mutex, in two steps.
WriteFirstHalf ==
  /\ saver = "write"
  /\ file' = Append(file, slots[slot][1])
  /\ saver' = "write_rest"
  /\ UNCHANGED <<rx, rxVars, ringVars, bIsRecorderReady, slot>>

WriteSecondHalf ==
  /\ saver = "write_rest"
  /\ file' = Append(file, slots[slot][2])
  /\ saver' = "dequeue"
  /\ UNCHANGED <<rx, rxVars, ringVars, bIsRecorderReady, slot>>

\* pthread_cond_wait may return without a signal; the while loops test again.
SpuriousWakeup ==
  /\ \/ rx = "wait_not_full" /\ rx' = "enqueue" /\ UNCHANGED saver
     \/ saver = "wait_not_empty" /\ saver' = "dequeue" /\ UNCHANGED rx
  /\ UNCHANGED <<rxVars, ringVars, bIsRecorderReady, slot, file>>

\* The receive loop finds no datagram and goes on polling.
NoInput == rx = "idle" /\ UNCHANGED vars

Input ==
  \E vps \in BOOLEAN :
    \/ Skip(vps)
    \/ \E len \in NalLens : Gather(vps, len) \/ BlockFull(vps, len)
Enqueue == EnqueueWait \/ CopyFirstHalf \/ FinishEnqueue
Save == StartSaving \/ DequeueWait \/ Dequeue \/ WriteFirstHalf \/ WriteSecondHalf

Next == Input \/ Enqueue \/ Save \/ SpuriousWakeup \/ NoInput

Spec == Init /\ [][Next]_vars

\* Both threads are scheduled; nothing obliges the network to send a NAL.
FairSpec == Spec /\ WF_vars(Enqueue) /\ WF_vars(Save)

-----------------------------------------------------------------------------
Block == Nat \X Nat

TypeOK ==
  /\ rx \in {"idle", "enqueue", "wait_not_full", "copy"}
  /\ saver \in {"none", "start", "dequeue", "wait_not_empty", "write", "write_rest"}
  /\ nalCount \in Nat /\ firstNal \in Nat
  /\ isFoundIFrame \in BOOLEAN /\ bIsRecorderReady \in BOOLEAN /\ filled \in BOOLEAN
  /\ videoNals \in Seq(Nat) /\ blocks \in Seq(Seq(Nat))
  /\ videoSize \in 0..BUFFER_SIZE /\ pending \in 0..BUFFER_SIZE
  /\ slots \in [0..(RINGBUFFER_SIZE - 1) -> Block]
  /\ head \in 0..(RINGBUFFER_SIZE - 1) /\ tail \in 0..(RINGBUFFER_SIZE - 1)
  /\ slot \in 0..(RINGBUFFER_SIZE - 1)
  /\ count \in 0..RINGBUFFER_SIZE
  /\ file \in Seq(Nat)

Copying == IF rx = "copy" THEN 1 ELSE 0
Dequeued == Len(blocks) - Copying - count   \* blocks taken out of the ring
Writing == saver \in {"write", "write_rest"}

\* The slot fwrite reads without the mutex keeps the block that was dequeued
\* as long as the ring has room for another one (recorder.c:147 and :46).
SlotInUseIntact ==
  Writing /\ count + Copying < RINGBUFFER_SIZE
    => slots[slot] = <<Dequeued, Dequeued>>

\* A recording during which the ring never filled is exact: the file holds
\* the blocks in order, each whole, none missing and none twice.
FileExactUnlessFilled ==
  ~filled => \A i \in DOMAIN file : file[i] = (i + 1) \div 2

\* What the option promises, "saving video to file": the file is the blocks
\* in order, whether or not the ring ever filled.
FileIsVideo == \A i \in DOMAIN file : file[i] = (i + 1) \div 2

\* The blocks recorded so far: those enqueued and the one being gathered.
Recorded == IF rx = "copy" THEN blocks ELSE Append(blocks, videoNals)
Run(s) == s # <<>> /\ \A i \in DOMAIN s : s[i] = s[1] + i - 1

\* From the VPS on every NAL is in exactly one block, in order, also when a
\* full block makes room for it and while the ring makes the thread wait: each
\* block is a run of consecutive NALs that goes on where the last one ended.
EveryNalGathered ==
  isFoundIFrame =>
    /\ \A b \in DOMAIN Recorded : Run(Recorded[b])
    /\ Recorded[1][1] = firstNal
    /\ \A b \in 1..(Len(Recorded) - 1) :
         Recorded[b + 1][1] = Last(Recorded[b]) + 1
    /\ Last(Last(Recorded)) = IF rx = "idle" THEN nalCount ELSE nalCount - 1

\* The receive thread, which also feeds the decoder, is never held up for good
\* by the recorder.
ReceiveThreadReturns == rx # "idle" ~> rx = "idle"

\* Every block that was enqueued is eventually written.
EveryBlockWritten ==
  \A b \in 1..MaxNals : Len(blocks) >= b ~> Len(file) >= 2 * b
=============================================================================
