----------------------------- MODULE VencPipeline -----------------------------
(***************************************************************************)
(* The life of venc on HiSilicon and Goke (venc/main.c): main configures   *)
(* and starts the camera pipeline call by call, streams until SIGINT, and  *)
(* gives the pipeline back in a fixed order.  A failing call is answered   *)
(* in one of two ways: main returns at once and undoes nothing, or it does *)
(* not look at the result and goes on.                                     *)
(*                                                                         *)
(* A call is named for what it sets up; reading an attribute is left out.  *)
(* The reset is HI_MPI_SYS_Exit, its result dropped: this is the first use *)
(* of the camera since the board started, and it finds nothing to stop.    *)
(***************************************************************************)
EXTENDS Sequences, Integers

StartUp == <<
  "reset", "vb_config", "vb", "sys", "vi_vpss_mode",                        \* system
  "mipi",                                                          \* sensor
  "dev_attr", "dev", "dev_pipe", "pipe", "pipe_running",           \* input
  "chn_attr", "chn_on",
  "sensor_callbacks", "ae_awb", "isp_mem", "isp_attr", "isp",      \* ISP
  "exposure",
  "group", "group_chn", "low_delay", "group_chn_on",               \* group
  "group_running", "vi_to_vpss",
  "encoder", "rc_param", "slices", "ref_param", "frame_lost", "roi",
  "vpss_to_venc", "receiving", "isp_thread", "socket", "handler" >>

\* Calls that only set something: nothing is there afterwards to give back.
Settings ==
  {"reset", "vb_config", "vi_vpss_mode", "dev_pipe", "sensor_callbacks", "ae_awb",
   "isp_attr", "exposure", "group_chn", "low_delay", "rc_param", "slices",
   "ref_param", "frame_lost", "roi", "handler"}

\* Calls that main makes only for some options.
Optional == {"exposure", "low_delay", "slices", "frame_lost", "roi"}

\* Calls whose failure main does not look at; mutant: nor at the device's.
UncheckedDevice == {"reset", "vb_config", "vb", "sys", "mipi", "dev_attr", "dev",
  "chn_attr", "sensor_callbacks", "ae_awb", "isp_mem", "isp_attr", "group",
  "vi_to_vpss", "vpss_to_venc", "isp_thread", "socket"}
Unchecked == {"reset", "vb_config", "vb", "sys", "mipi", "dev_attr",
  "chn_attr", "sensor_callbacks", "ae_awb", "isp_mem", "isp_attr", "group",
  "vi_to_vpss", "vpss_to_venc", "isp_thread", "socket"}

\* The SDK refuses a call on what was not set up before.
Needs(call) ==
  CASE call = "sys"          -> {"vb"}
    [] call = "vi_vpss_mode" -> {"sys"}
    [] call = "dev"          -> {"dev_attr"}
    [] call = "chn_on"       -> {"chn_attr"}
    [] call = "isp"          -> {"isp_mem"}
    [] call = "group_chn"    -> {"group"}
    [] OTHER                 -> {}

Position(call) == CHOOSE i \in DOMAIN StartUp : StartUp[i] = call

\* What the exit path stops, in its order; mutant: the group before it is idle.
CleanUpGroupFirst == <<"isp", "group", "group_running", "chn_on", "pipe_running",
                       "pipe", "dev", "sys", "vb">>
CleanUp == <<"isp", "group_running", "group", "chn_on", "pipe_running", "pipe",
             "dev", "sys", "vb">>

VARIABLES
  phase,      \* start, loop, cleanup, exited, killed
  step,       \* the next call of StartUp or CleanUp
  held,       \* what was set up and not given back
  g_running,  \* loop_running, cleared by the signal handler
  ret,        \* 0, or 1 for any error code
  failed,     \* history: the call whose failure ended main, or "none"
  stray       \* history: something was given back that was not held

Init ==
  /\ phase = "start" /\ step = 1
  /\ held = {} /\ g_running = TRUE /\ ret = 0
  /\ failed = "none" /\ stray = FALSE

-----------------------------------------------------------------------------
Call == StartUp[step]

GoOn ==
  IF step = Len(StartUp)
    THEN phase' = "loop" /\ UNCHANGED step
    ELSE step' = step + 1 /\ UNCHANGED phase

CallSucceeds ==
  /\ phase = "start"
  /\ Needs(Call) \subseteq held
  /\ held' = IF Call \in Settings THEN held ELSE held \cup {Call}
  /\ GoOn
  /\ UNCHANGED <<g_running, ret, failed, stray>>

SkipOption ==
  /\ phase = "start" /\ Call \in Optional
  /\ GoOn
  /\ UNCHANGED <<held, g_running, ret, failed, stray>>

\* When SYS_Init fails the video buffer is given back, and main goes on.
CallFailsUnseen ==
  /\ phase = "start" /\ Call \in Unchecked
  /\ held' = IF Call = "sys" THEN held \ {"vb"} ELSE held
  /\ GoOn
  /\ UNCHANGED <<g_running, ret, failed, stray>>

CallFails ==
  /\ phase = "start" /\ Call \notin Unchecked \cup {"handler"}
  /\ ret' = 1 /\ failed' = Call
  /\ phase' = "exited"
  /\ UNCHANGED <<step, held, g_running, stray>>

\* SIGINT once the handler is installed.
Interrupt ==
  /\ g_running /\ phase \in {"loop", "cleanup"}
  /\ g_running' = FALSE
  /\ UNCHANGED <<phase, step, held, ret, failed, stray>>

\* Before that SIGINT ends the process, and SIGTERM always does.
Killed ==
  /\ phase \in {"start", "loop", "cleanup"}
  /\ phase' = "killed"
  /\ UNCHANGED <<step, held, g_running, ret, failed, stray>>

\* The streaming loop is FrameSender's; a turn changes nothing here.
LoopEnds ==
  /\ phase = "loop" /\ ~g_running
  /\ phase' = "cleanup" /\ step' = 1
  /\ UNCHANGED <<held, g_running, ret, failed, stray>>

CleanUpCall ==
  /\ phase = "cleanup"
  /\ held' = held \ {CleanUp[step]}
  /\ stray' = (stray \/ CleanUp[step] \notin held)
  /\ IF step = Len(CleanUp)
       THEN phase' = "exited" /\ ret' = 0 /\ UNCHANGED step
       ELSE step' = step + 1 /\ UNCHANGED <<phase, ret>>
  /\ UNCHANGED <<g_running, failed>>

Main == CallSucceeds \/ SkipOption \/ CallFailsUnseen \/ CallFails
          \/ LoopEnds \/ CleanUpCall
=============================================================================
