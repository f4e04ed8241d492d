------------------------------ MODULE Pipelines ------------------------------
(***************************************************************************)
(* The three mains that own a video pipeline: venc for HiSilicon and Goke, *)
(* venc for Star6E (PLATFORM_STAR6E in the Makefile), and vdec.  The same  *)
(* questions asked of all: what they take, give back and report, when they *)
(* end, and what the next start finds.                                     *)
(***************************************************************************)
EXTENDS SequencesExt

CONSTANTS FrameSizes, MaxFrameSizes, HeaderSize, WordSize, SequenceSize,
          MaxLives

ASSUME PipelinesAssumption ==
  /\ {HeaderSize, WordSize, SequenceSize, MaxLives} \subseteq Nat \ {0}
  /\ FrameSizes \subseteq {n \in Nat : n > HeaderSize}
  /\ MaxFrameSizes \subseteq Nat \ {HeaderSize}   \* -n 12 never ends
  /\ \A n \in FrameSizes \cup MaxFrameSizes : WordSize - HeaderSize > n

VARIABLES
  platform,                                      \* "star6e", "venc", "vdec"
  phase, step, held, ret, failed,                \* of any main
  g_running, stray,                              \* of the two of venc
  bound, max_frame_size, frame, offset, datagrams,   \* Star6ePipeline's
  lives, stale                                   \* VdecPipeline's

Star6e == INSTANCE Star6ePipeline
Venc   == INSTANCE VencPipeline
Vdec   == INSTANCE VdecPipeline

star6eVars == <<bound, max_frame_size, frame, offset, datagrams>>
vdecVars == <<lives, stale>>
vars == <<platform, phase, step, held, ret, failed, g_running, stray,
          star6eVars, vdecVars>>

Init ==
  \/ platform = "star6e" /\ Star6e!Init /\ lives = 1 /\ stale = {}
  \/ /\ platform = "venc" /\ Venc!Init /\ lives = 1 /\ stale = {}
     /\ bound = {} /\ max_frame_size = 0 /\ frame = Star6e!NoFrame
     /\ offset = 0 /\ datagrams = <<>>
  \/ /\ platform = "vdec" /\ Vdec!Init
     /\ g_running = TRUE /\ stray = FALSE
     /\ bound = {} /\ max_frame_size = 0 /\ frame = Star6e!NoFrame
     /\ offset = 0 /\ datagrams = <<>>

Main ==
  /\ UNCHANGED platform
  /\ \/ platform = "star6e" /\ Star6e!Main /\ UNCHANGED vdecVars
     \/ platform = "venc" /\ Venc!Main /\ UNCHANGED <<star6eVars, vdecVars>>
     \/ platform = "vdec" /\ Vdec!Main /\ UNCHANGED <<star6eVars, g_running, stray>>

Signal ==
  /\ UNCHANGED platform
  /\ \/ platform = "star6e" /\ Star6e!Interrupt /\ UNCHANGED vdecVars
     \/ /\ platform = "venc" /\ (Venc!Interrupt \/ Venc!Killed)
        /\ UNCHANGED <<star6eVars, vdecVars>>
     \/ /\ platform = "vdec" /\ (Vdec!Killed \/ Vdec!Restart)
        /\ UNCHANGED <<star6eVars, g_running, stray>>

\* vdec's receiving loop, where nothing changes here.
Receives == platform = "vdec" /\ phase = "loop" /\ UNCHANGED vars

Ended == phase \in {"exited", "killed"} /\ UNCHANGED vars

Next == Main \/ Signal \/ Receives \/ Ended

Spec == Init /\ [][Next]_vars

\* Every call of an SDK returns: GetStream of Star6E after 1000 ms at the
\* latest, that of HiSilicon at once.
FairSpec == Spec /\ WF_vars(Main)

-----------------------------------------------------------------------------
VencPlatforms == {"star6e", "venc"}

\* Things are given back in the reverse of the order they were taken in,
\* whichever call failed and wherever the signal came: when one goes, nothing
\* taken after it is still held that is given back at all.  On Star6E a failed
\* stage leaves what it took; on HiSilicon the ISP is stopped out of order, and
\* the encoder with its connections never.
TakenAfter(thing, other) ==
  IF platform = "star6e" THEN Star6e!Position(thing) > Star6e!Position(other)
                         ELSE Venc!Position(thing) > Venc!Position(other)
Outlives(thing) ==
  IF platform = "star6e" THEN Star6e!StageOf(thing) = failed
                         ELSE thing \notin ToSet(Venc!CleanUp)
ReverseStep ==
  platform \in VencPlatforms =>
    \A thing \in held \ held' :
      thing # "isp" =>
        \A later \in held : TakenAfter(later, thing) => Outlives(later)
UndoneInReverse == [][ReverseStep]_vars

\* Nothing is stopped that was not started, although a failing call is not
\* always looked at: what the exit path of HiSilicon stops was set up by a call
\* whose failure is seen then or by a later one.  What is left at the end is
\* what the failed stage had taken on Star6E, and what no exit path knows on
\* HiSilicon, where a failed start-up leaves everything.
CleanUpIsExact ==
  platform \in VencPlatforms =>
  /\ ~stray
  /\ phase = "exited" =>
       \A thing \in held :
         IF platform = "star6e"
           THEN thing # "frame" /\ Star6e!StageOf(thing) = failed
           ELSE failed # "none" \/ thing \notin ToSet(Venc!CleanUp)

\* vdec has no exit path, and does not look at the results of its reset
\* (vdec/main.c:592-602) nor of the calls that set up the system.  All the same
\* it never receives without the system, or into a pool, a display layer, a
\* decoder or a binding that an earlier life or another program left: a failure
\* nobody looked at makes a later call fail that is looked at.
Fed == {"vdec_pool", "layer", "vo_channel", "decoder", "vdec_to_vo", "receiving"}
ReceivesOnItsOwn ==
  platform = "vdec" /\ phase = "loop" =>
    /\ {"vb", "sys", "vo_device"} \subseteq held
    /\ Fed \subseteq held \ stale

\* A call whose failure ends the start-up is the exit status of the process,
\* after the cleanup calls as well; Star6E's socket is not (star6e_main.c:472).
FailureIsReported ==
  phase = "exited" /\ failed \notin {"none", "socket"} => ret = 1

\* After the signal venc ends, be it starting, streaming, sending or waiting
\* for a frame that does not come.
ExitsAfterSignal == ~g_running ~> phase \in {"exited", "killed"}

\* Before a frame is given back to the encoder it was sent, and once: as it is,
\* or cut into datagrams that fit, numbered on from the number in its first
\* bytes, the marker on the last if on any, which carry without gap or overlap
\* what lies behind its first HeaderSize bytes.  The signal cuts no frame short.
\* Those first bytes are sent as the header only (venc/shared.c:105).
StarFrameIsSent ==
  phase = "release" =>
    LET k == Len(datagrams) IN
    IF frame.size <= max_frame_size
      THEN k = 1 /\ datagrams[1].from = 0 /\ datagrams[1].to = frame.size
      ELSE /\ k > 0
           /\ datagrams[1].from = HeaderSize /\ datagrams[k].to = frame.size
           /\ \A i \in 1..k :
                LET d == datagrams[i] IN
                /\ d.from < d.to /\ (i < k => d.to = datagrams[i + 1].from)
                /\ (d.to - d.from) + HeaderSize <= max_frame_size
                     \/ max_frame_size < HeaderSize
                /\ d.sequence = (frame.sequence + i - 1) % SequenceSize
                /\ d.marker <=> (frame.marker /\ i = k)
=============================================================================
