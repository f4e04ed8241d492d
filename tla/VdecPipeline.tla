----------------------------- MODULE VdecPipeline -----------------------------
(***************************************************************************)
(* The life of vdec (vdec/main.c, vdec/vo.c): main first tries to give     *)
(* back what an earlier life left in the media system, then configures and *)
(* starts display and decoder call by call, and receives for ever.  It has *)
(* no exit path: a failing call that is looked at returns at once, a       *)
(* signal kills the process, and either leaves to the next start what was  *)
(* set up.  Whether the reset succeeded main never asks.                   *)
(*                                                                         *)
(* A call is named for what it sets up; a reading call whose failure       *)
(* returns is one with the writing call after it.                          *)
(***************************************************************************)
EXTENDS Sequences, Integers

CONSTANT MaxLives   \* bound: how often vdec is started

StartUp == <<
  "vb_config", "vb", "sys_config", "sys",                          \* system
  "vdec_pool_free", "vdec_pool_config", "vdec_pool",               \* pools
  "disp_buf_len", "partition_mode", "vo_attr", "vo_device",        \* display
  "hdmi", "hdmi_open", "hdmi_attr", "hdmi_running",
  "frame_rate", "layer_attr", "layer", "chn_attr", "vo_channel",   \* layer
  "chn_param",
  "decoder", "display_mode", "protocol", "vdec_to_vo", "receiving",
  "socket", "nonblocking", "recorder", "osd" >>                    \* stream

HdmiCalls == {"hdmi", "hdmi_open", "hdmi_attr", "hdmi_running"}

\* Calls that only set something: nothing is there afterwards to give back.
Settings ==
  {"vb_config", "sys_config", "vdec_pool_free", "vdec_pool_config",
   "disp_buf_len", "partition_mode", "vo_attr", "hdmi_attr", "frame_rate",
   "layer_attr", "chn_attr", "chn_param", "display_mode", "protocol",
   "nonblocking"}

\* What belongs to the process, and goes with it.
OfProcess == {"socket", "recorder", "osd"}

\* The recorder runs with -w and H.265 only, the OSD threads with --osd.
Optional == {"recorder", "osd"}

\* Calls whose failure main does not look at, VO_init's and VO_HDMI_init's;
\* mutant: nor at that of the layer's attributes.
UncheckedLayer ==
  HdmiCalls \cup
  {"vb_config", "vb", "sys_config", "sys", "partition_mode", "vo_attr",
   "vo_device", "layer_attr", "chn_param", "socket", "recorder", "osd"}
Unchecked ==
  HdmiCalls \cup
  {"vb_config", "vb", "sys_config", "sys", "partition_mode", "vo_attr",
   "vo_device", "chn_param", "socket", "recorder", "osd"}

Position(call) == CHOOSE i \in DOMAIN StartUp : StartUp[i] = call

\* VO_init and VO_HDMI_init return at the first failure.
AfterFailure(call) ==
  IF call \in {"vo_attr", "vo_device"} THEN Position("hdmi")
  ELSE IF call \in HdmiCalls THEN Position("frame_rate")
  ELSE Position(call) + 1

\* The SDK refuses a call on what was not set up before.
Needs(call) ==
  CASE call = "vb"            -> {}
    [] call = "sys"           -> {"vb"}
    [] call = "vdec_pool"     -> {"vb"}
    [] call = "frame_rate"    -> {"vo_device"}
    [] call = "layer"         -> {"vo_device"}
    [] call = "vo_channel"    -> {"layer"}
    [] call = "decoder"       -> {"sys"}
    [] call = "vdec_to_vo"    -> {"sys"}
    [] OTHER                  -> {}

\* It refuses what only an idle device or layer takes, and a decoder channel
\* that exists (HI_ERR_VO_DEV_HAS_ENABLED, HI_ERR_VO_VIDEO_NOT_DISABLE,
\* HI_ERR_VDEC_EXIST in the headers of sdk/hi3536dv100).
RefusedBy(call) ==
  CASE call = "vo_attr"    -> {"vo_device"}
    [] call = "layer_attr" -> {"layer"}
    [] call = "decoder"    -> {"decoder"}
    [] OTHER               -> {}

\* The reset: the system, the module pools, the pools, the video buffer.
Reset == <<"sys", "module_pools", "pools", "vb">>

\* What each gives back when it succeeds.  Leaving the system stops every channel and device;
\* the video buffer stays while the system or one of its pools does.
GivesBack(call, left) ==
  CASE call = "sys"          -> left \ {"vb", "vdec_pool", "pool"}
    [] call = "module_pools" -> {"vdec_pool"}
    [] call = "pools"        -> {"pool"}
    [] call = "vb"           ->
         IF {"sys", "vdec_pool", "pool"} \cap left = {} THEN {"vb"} ELSE {}

VARIABLES
  phase,      \* reset, start, loop, exited, killed
  step,       \* the next call of Reset or StartUp
  held,       \* what was set up and not given back
  ret,        \* 0, or 1 for any error code
  failed,     \* history: the call whose failure ended main, or "none"
  lives,      \* history: how often vdec was started
  stale       \* history: the part of held that this life did not set up

\* Another program may have used the decoder or the display before.
Init ==
  /\ phase = "reset" /\ step = 1
  /\ held \in {{}, {"vb", "pool", "sys", "decoder"},
               {"vb", "pool", "sys", "vo_device", "layer", "vo_channel"}}
  /\ ret = 0 /\ failed = "none" /\ lives = 1 /\ stale = held

-----------------------------------------------------------------------------
Call == StartUp[step]

\* What an earlier life set up stays its own until it is given back.
StaleStays == stale' = stale \cap held'

\* All four results are overwritten or dropped: a call that fails gives
\* nothing back, and main goes on.
ResetCall ==
  /\ phase = "reset"
  /\ held' \in {held, held \ GivesBack(Reset[step], held)}
  /\ IF step = Len(Reset) THEN phase' = "start" /\ step' = 1
                          ELSE step' = step + 1 /\ UNCHANGED phase
  /\ StaleStays
  /\ UNCHANGED <<ret, failed, lives>>

GoOn ==
  IF step = Len(StartUp) THEN phase' = "loop" /\ UNCHANGED step
                         ELSE step' = step + 1 /\ UNCHANGED phase

\* Setting up what is there already changes nothing; the decoder's pool is
\* released before it is configured.
SetUpBy(call) ==
  CASE call = "vdec_pool_free" -> held \ {"vdec_pool"}
    [] call \in Settings \ {"vdec_pool_free"} -> held
    [] OTHER -> held \cup {call}

CallSucceeds ==
  /\ phase = "start"
  /\ Needs(Call) \subseteq held /\ RefusedBy(Call) \cap held = {}
  /\ held' = SetUpBy(Call)
  /\ GoOn
  /\ StaleStays
  /\ UNCHANGED <<ret, failed, lives>>

SkipOption ==
  /\ phase = "start" /\ Call \in Optional
  /\ GoOn
  /\ UNCHANGED <<held, ret, failed, lives, stale>>

\* When SYS_Init fails VB_Exit is called, and main goes on.
CallFailsUnseen ==
  /\ phase = "start" /\ Call \in Unchecked
  /\ held' = IF Call = "sys" THEN held \ GivesBack("vb", held) ELSE held
  /\ IF Call = "osd" THEN phase' = "loop" /\ UNCHANGED step
                     ELSE step' = AfterFailure(Call) /\ UNCHANGED phase
  /\ StaleStays
  /\ UNCHANGED <<ret, failed, lives>>

CallFails ==
  /\ phase = "start" /\ Call \notin Unchecked
  /\ ret' = 1 /\ failed' = Call
  /\ phase' = "exited"
  /\ held' = held \ OfProcess
  /\ StaleStays
  /\ UNCHANGED <<step, lives>>

\* No signal is handled; the receiving loop never ends.
Killed ==
  /\ phase \in {"reset", "start", "loop"}
  /\ phase' = "killed"
  /\ held' = held \ OfProcess
  /\ StaleStays
  /\ UNCHANGED <<step, ret, failed, lives>>

Restart ==
  /\ phase \in {"exited", "killed"} /\ lives < MaxLives
  /\ lives' = lives + 1
  /\ phase' = "reset" /\ step' = 1
  /\ ret' = 0 /\ failed' = "none"
  /\ stale' = held
  /\ UNCHANGED held

Main == ResetCall \/ CallSucceeds \/ SkipOption \/ CallFailsUnseen \/ CallFails
=============================================================================
