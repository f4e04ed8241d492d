---------------------------- MODULE TelemetryQueue ----------------------------
(***************************************************************************)
(* The queue between the telemetry thread and the drawing thread of the    *)
(* OSD (osd/queue.c): a ring of MAX_QUEUE_SIZE items, one mutex and ONE    *)
(* condition variable on which both "not full" and "not empty" are waited  *)
(* for and signalled.  Everything happens under the mutex, so a call is    *)
(* one step, or two when it has to wait.                                   *)
(***************************************************************************)
EXTENDS Integers, Sequences

CONSTANTS
  Item,             \* what can be queued
  NoItem,           \* content of a slot never written
  MAX_QUEUE_SIZE,   \* slots: 10
  MaxItems          \* bound: items the producer queues

ASSUME QueueAssumption ==
  /\ MAX_QUEUE_SIZE \in Nat \ {0}
  /\ MaxItems \in Nat
  /\ NoItem \notin Item

VARIABLES
  data, front, rear, size,   \* the Queue structure
  waiting,                   \* threads blocked in pthread_cond_wait
  queued,                    \* history: number of items enqueued
  taken                      \* history: what dequeue returned, in order

vars == <<data, front, rear, size, waiting, queued, taken>>

Threads == {"producer", "consumer"}

Init ==   \* initQueue
  /\ data = [i \in 0..(MAX_QUEUE_SIZE - 1) |-> NoItem]
  /\ front = 0 /\ rear = -1 /\ size = 0
  /\ waiting = {} /\ queued = 0 /\ taken = <<>>

SuccNoWrap(i) == i + 1
Succ(i) == (i + 1) % MAX_QUEUE_SIZE

FullOffByOne == size > MAX_QUEUE_SIZE
Full == size = MAX_QUEUE_SIZE

\* pthread_cond_signal unblocks one waiting thread, if there is one.
NoSignal == UNCHANGED waiting
Signal ==
  IF waiting = {} THEN UNCHANGED waiting
                  ELSE \E t \in waiting : waiting' = waiting \ {t}

Wait(t) ==
  /\ waiting' = waiting \cup {t}
  /\ UNCHANGED <<data, front, rear, size, queued, taken>>

-----------------------------------------------------------------------------
EnqueueWait ==
  /\ "producer" \notin waiting /\ queued < MaxItems
  /\ Full
  /\ Wait("producer")

Enqueue(item) ==
  /\ "producer" \notin waiting /\ queued < MaxItems
  /\ ~Full
  /\ rear' = Succ(rear)
  /\ data' = [data EXCEPT ![rear'] = item]
  /\ size' = size + 1
  /\ queued' = queued + 1
  /\ Signal
  /\ UNCHANGED <<front, taken>>

DequeueWait ==
  /\ "consumer" \notin waiting
  /\ size = 0
  /\ Wait("consumer")

Dequeue ==
  /\ "consumer" \notin waiting
  /\ size # 0
  /\ taken' = Append(taken, data[front])
  /\ front' = Succ(front)
  /\ size' = size - 1
  /\ Signal
  /\ UNCHANGED <<data, rear, queued>>

\* pthread_cond_wait may return without a signal; the loops test again.
SpuriousWakeup ==
  /\ \E t \in waiting : waiting' = waiting \ {t}
  /\ UNCHANGED <<data, front, rear, size, queued, taken>>

\* mavlink_handler has nothing to enqueue: recv times out every 100 ms.
NoTelemetry == "producer" \notin waiting /\ UNCHANGED vars

Producer == EnqueueWait \/ \E item \in Item : Enqueue(item)
Consumer == DequeueWait \/ Dequeue

Next == Producer \/ Consumer \/ SpuriousWakeup \/ NoTelemetry

Spec == Init /\ [][Next]_vars

\* The drawing thread is scheduled; nothing obliges telemetry to arrive.
FairSpec == Spec /\ WF_vars(Consumer)

-----------------------------------------------------------------------------
Index == 0..(MAX_QUEUE_SIZE - 1)

TypeOK ==
  /\ data \in [Index -> Item \cup {NoItem}]
  /\ front \in Index /\ rear \in Index \cup {-1}
  /\ size \in 0..MAX_QUEUE_SIZE
  /\ waiting \subseteq Threads
  /\ queued \in Nat /\ taken \in Seq(Item \cup {NoItem})

\* One condition variable for two conditions: a thread waits only for the
\* condition that really does not hold, so no signal goes to the wrong thread
\* and the two never wait for each other (queue.c:16, :23, :31, :38).
NoLostSignal ==
  /\ "producer" \in waiting => size = MAX_QUEUE_SIZE
  /\ "consumer" \in waiting => size = 0

\* The ring is a bounded FIFO.
Fifo == INSTANCE BoundedFifo WITH
  Capacity <- MAX_QUEUE_SIZE,
  inside <- [i \in 1..size |-> data[(front + i - 1) % MAX_QUEUE_SIZE]]
QueueIsFifo == Fifo!Spec

\* Every item queued is eventually taken by the drawing thread.
EveryItemTaken ==
  \A n \in 1..MaxItems : queued >= n ~> Len(taken) >= n
=============================================================================
