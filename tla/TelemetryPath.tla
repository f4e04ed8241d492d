---------------------------- MODULE TelemetryPath ----------------------------
(***************************************************************************)
(* From the autopilot's bytes to the drawing thread of the OSD: the        *)
(* telemetry thread parses what it receives and queues what each message   *)
(* carries (osd/mavlink_parser.c), the drawing thread takes it             *)
(* (osd/queue.c).  While the queue is full the thread does not receive.    *)
(***************************************************************************)
EXTENDS TelemetryQueue, MavlinkFraming

ASSUME PathAssumption == \A f \in Frames : f.items \in Seq(Item)

VARIABLE listening   \* the telemetry thread is in its loop

pathVars == <<vars, parserVars, streamVars, listening>>
framingVars == <<parserVars, streamVars>>

\* Without its socket the thread returns at once.
PathInit == Init /\ FramingInit /\ listening \in BOOLEAN

Send == (\E f \in Frames : BeginFrame(f)) \/ LoseByte

Arrive ==
  /\ Send
  /\ UNCHANGED <<vars, listening>>

Parse ==
  /\ listening
  /\ ReceiveByte
  /\ UNCHANGED <<vars, listening>>

\* One item after the other; the first one waits while there is no room.
HandOver ==
  /\ message # <<>>
  /\ \/ Enqueue(Head(message)) /\ message' = Tail(message)
     \/ EnqueueWait /\ UNCHANGED message
  /\ UNCHANGED <<parse_state, in_mavlink1, msg_received, len, incompat_flags,
                 packet_idx, signature_wait, checksum, streamVars, listening>>

\* Between two frames recv returns 0, and the thread ends.
EmptyDatagram ==
  /\ listening /\ message = <<>> /\ pos = Len(Bytes(frame))
  /\ listening' = FALSE
  /\ UNCHANGED <<vars, framingVars>>

Draw == (Consumer \/ SpuriousWakeup) /\ UNCHANGED <<framingVars, listening>>

NothingArrives == NoTelemetry /\ UNCHANGED <<framingVars, listening>>

PathNext == Arrive \/ Parse \/ HandOver \/ EmptyDatagram \/ Draw \/ NothingArrives

PathSpec == PathInit /\ [][PathNext]_pathVars

\* The drawing thread is scheduled; nothing obliges telemetry to arrive.
PathFairSpec == PathSpec /\ WF_pathVars(Consumer /\ UNCHANGED <<framingVars, listening>>)
=============================================================================
