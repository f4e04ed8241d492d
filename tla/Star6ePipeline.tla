---------------------------- MODULE Star6ePipeline ----------------------------
(***************************************************************************)
(* The life of venc on Star6E (venc/star6e_main.c): main starts the camera *)
(* pipeline call by call, any of which may fail, streams until SIGINT or   *)
(* SIGTERM, and undoes what it did by falling through its cleanup labels.  *)
(*                                                                         *)
(* A call of the SDK is a pair: the stage it belongs to, and the thing it  *)
(* takes that has to be given back ("nothing" when it only sets something).*)
(*                                                                         *)
(* A frame is sent as it is, or cut: its first bytes are taken for an RTP  *)
(* header that every fragment repeats (venc/shared.c).                     *)
(***************************************************************************)
EXTENDS Sequences, Integers

CONSTANTS
  FrameSizes,     \* sizes of the frames the encoder delivers
  MaxFrameSizes,  \* values of option -n
  HeaderSize,     \* sizeof(struct RTPHeader)
  WordSize,       \* 2^32, where uint32_t wraps
  SequenceSize    \* 2^16, where the sequence number wraps

StartUp == <<
  <<"sys", "system">>,
  <<"sensor", "nothing">>, <<"sensor", "nothing">>, <<"sensor", "sensor">>,
  <<"vif", "vif_dev">>, <<"vif", "vif_dev_on">>,
  <<"vif", "vif_port">>, <<"vif", "vif_port_on">>,
  <<"vpe", "vpe_channel">>, <<"vpe", "vpe_running">>,
  <<"vpe", "nothing">>, <<"vpe", "vpe_port_on">>,
  <<"venc", "venc_channel">>, <<"venc", "venc_running">>,
  <<"bind", "vif_to_vpe">>, <<"bind", "vpe_to_venc">>,
  <<"socket", "socket">> >>

\* Where main goes when a call of the stage fails.
OnFailureOwnLabel(stage) ==
  [sys |-> "return", sensor |-> "cleanup_sys", vif |-> "cleanup_sensor",
   vpe |-> "cleanup_vpe", venc |-> "cleanup_vpe",
   bind |-> "cleanup_venc", socket |-> "cleanup_venc"][stage]
OnFailure(stage) ==
  [sys |-> "return", sensor |-> "cleanup_sys", vif |-> "cleanup_sensor",
   vpe |-> "cleanup_vif", venc |-> "cleanup_vpe",
   bind |-> "cleanup_venc", socket |-> "cleanup_venc"][stage]

\* The cleanup labels with the things given back below each, to the end.
CleanUp == <<
  <<"cleanup_venc", "vpe_to_venc">>, <<"cleanup_venc", "vif_to_vpe">>,
  <<"cleanup_venc", "venc_running">>, <<"cleanup_venc", "venc_channel">>,
  <<"cleanup_vpe", "vpe_port_on">>, <<"cleanup_vpe", "vpe_running">>,
  <<"cleanup_vpe", "vpe_channel">>,
  <<"cleanup_vif", "vif_port_on">>, <<"cleanup_vif", "vif_port">>,
  <<"cleanup_vif", "vif_dev_on">>, <<"cleanup_vif", "vif_dev">>,
  <<"cleanup_sensor", "sensor">>, <<"cleanup_sys", "system">> >>

\* The first call below a label.
Goto(label) ==
  CHOOSE i \in DOMAIN CleanUp :
    CleanUp[i][1] = label /\ (i > 1 => CleanUp[i - 1][1] # label)

\* When a thing is taken: at its call, the frame after all of them.
Position(thing) ==
  IF thing = "frame" THEN Len(StartUp) + 1
  ELSE CHOOSE i \in DOMAIN StartUp : StartUp[i][2] = thing
StageOf(thing) == IF thing = "frame" THEN "stream" ELSE StartUp[Position(thing)][1]

VARIABLES
  phase,      \* start, loop, send, release, cleanup, exited
  step,       \* the next call of StartUp or CleanUp
  held,       \* what was taken and not given back
  bound,      \* bound_vif_vpe and bound_vpe_venc, those that are set
  g_running,  \* cleared by the signal handler
  ret,        \* 0, or 1 for any error code
  failed,     \* history: the stage whose call failed, or "none"
  stray,      \* history: something was given back that was not held
  max_frame_size,
  frame,      \* pack_size, and the header fields read from the data
  offset,     \* sendPacket's
  datagrams   \* history: what was sent of the frame

sendVars == <<max_frame_size, frame, offset, datagrams>>

NoFrame == [size |-> 0, sequence |-> 0, marker |-> FALSE]

Init ==
  /\ phase = "start" /\ step = 1
  /\ held = {} /\ bound = {}
  /\ g_running = TRUE /\ ret = 0
  /\ failed = "none" /\ stray = FALSE
  /\ max_frame_size \in MaxFrameSizes
  /\ frame = NoFrame /\ offset = 0 /\ datagrams = <<>>

-----------------------------------------------------------------------------
Stage == StartUp[step][1]
Thing == StartUp[step][2]

CallSucceeds ==
  /\ phase = "start"
  /\ held' = IF Thing = "nothing" THEN held ELSE held \cup {Thing}
  /\ bound' = IF Stage = "bind" THEN bound \cup {Thing} ELSE bound
  /\ ret' = IF Stage = "socket" THEN ret ELSE 0
  /\ IF step = Len(StartUp)
       THEN phase' = "loop" /\ UNCHANGED step
       ELSE step' = step + 1 /\ UNCHANGED phase
  /\ UNCHANGED <<g_running, failed, stray, sendVars>>

\* socket() does not set ret: main returns the 0 of the last bind.
ResultOfSensorLost(stage) == IF stage \in {"sensor", "socket"} THEN ret ELSE 1
ResultOf(stage) == IF stage = "socket" THEN ret ELSE 1

CallFails ==
  /\ phase = "start"
  /\ ret' = ResultOf(Stage)
  /\ failed' = Stage
  /\ IF OnFailure(Stage) = "return"
       THEN phase' = "exited" /\ UNCHANGED step
       ELSE phase' = "cleanup" /\ step' = Goto(OnFailure(Stage))
  /\ UNCHANGED <<held, bound, g_running, stray, sendVars>>

\* The handler of SIGINT and SIGTERM, installed before the first call.
Interrupt ==
  /\ g_running /\ phase # "exited"
  /\ g_running' = FALSE
  /\ UNCHANGED <<phase, step, held, bound, ret, failed, stray, sendVars>>

-----------------------------------------------------------------------------
\* while (g_running); mutant: tested only when GetStream fails.
LoopEndsOnError == phase = "loop" /\ ~g_running /\ ret # 0
LoopEnds == phase = "loop" /\ ~g_running
LoopGoesOn == phase = "loop" /\ ~LoopEnds

\* The header fields are whatever the encoder's data has in their place.
GetStream ==
  /\ LoopGoesOn
  /\ held' = held \cup {"frame"}
  /\ ret' = 0
  /\ \E size \in FrameSizes, sequence \in {0, SequenceSize - 1}, marker \in BOOLEAN :
       frame' = [size |-> size, sequence |-> sequence, marker |-> marker]
  /\ offset' = 0 /\ datagrams' = <<>>
  /\ phase' = "send"
  /\ UNCHANGED <<step, bound, g_running, failed, stray, max_frame_size>>

\* It waits a second at most; the loop goes round.
GetStreamFails ==
  /\ LoopGoesOn
  /\ ret' = 1
  /\ UNCHANGED <<phase, step, held, bound, g_running, failed, stray, sendVars>>

Fits == frame.size <= max_frame_size

SendWhole ==
  /\ phase = "send" /\ Fits
  /\ datagrams' = <<[header |-> FALSE, sequence |-> 0, marker |-> FALSE,
                     from |-> 0, to |-> frame.size]>>
  /\ phase' = "release"
  /\ UNCHANGED <<step, held, bound, g_running, ret, failed, stray, max_frame_size,
                 frame, offset>>

PayloadSize == frame.size - HeaderSize

\* Both sides of MIN are unsigned: below HeaderSize the first one wraps.
Room == (max_frame_size - HeaderSize) % WordSize
FragmentSizeUnclamped == Room
FragmentSize == IF Room < PayloadSize - offset THEN Room ELSE PayloadSize - offset

SendFragment ==
  /\ phase = "send" /\ ~Fits
  /\ datagrams' = Append(datagrams,
       [header |-> TRUE,
        sequence |-> (frame.sequence + Len(datagrams)) % SequenceSize,
        marker |-> frame.marker /\ offset + FragmentSize >= PayloadSize,
        from |-> HeaderSize + offset, to |-> HeaderSize + offset + FragmentSize])
  /\ offset' = offset + FragmentSize
  /\ phase' = IF offset' < PayloadSize THEN "send" ELSE "release"
  /\ UNCHANGED <<step, held, bound, g_running, ret, failed, stray, max_frame_size,
                 frame>>

ReleaseStream ==
  /\ phase = "release"
  /\ held' = held \ {"frame"}
  /\ phase' = "loop"
  /\ UNCHANGED <<step, bound, g_running, ret, failed, stray, sendVars>>

CloseSocket ==
  /\ LoopEnds
  /\ held' = held \ {"socket"}
  /\ phase' = "cleanup" /\ step' = Goto("cleanup_venc")
  /\ UNCHANGED <<bound, g_running, ret, failed, stray, sendVars>>

\* One call below a label; an unbind is skipped unless the bind was made.
CleanUpCall ==
  LET thing == CleanUp[step][2]
      skipped == StageOf(thing) = "bind" /\ thing \notin bound
  IN  /\ phase = "cleanup"
      /\ held' = IF skipped THEN held ELSE held \ {thing}
      /\ stray' = (stray \/ (~skipped /\ thing \notin held))
      /\ IF step = Len(CleanUp)
           THEN phase' = "exited" /\ UNCHANGED step
           ELSE step' = step + 1 /\ UNCHANGED phase
      /\ UNCHANGED <<bound, g_running, ret, failed, sendVars>>

Main == CallSucceeds \/ CallFails \/ GetStream \/ GetStreamFails \/ SendWhole
          \/ SendFragment \/ ReleaseStream \/ CloseSocket \/ CleanUpCall
=============================================================================
