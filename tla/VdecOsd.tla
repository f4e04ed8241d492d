------------------------------- MODULE VdecOsd -------------------------------
(***************************************************************************)
(* The on-screen display inside vdec (vdec/main.c): the receive loop       *)
(* counts bytes, the MAVLink thread keeps position, arm switch, home       *)
(* position and distance, the OSD thread draws the latitude, the received  *)
(* rate and the flight clock.  All three share globals without a lock, so  *)
(* a read and a write of a shared global are separate steps.               *)
(*                                                                         *)
(* A frame's bytes are the frame itself, so a byte count is a set of       *)
(* frames.  Latitude and longitude go through the same code: a position is *)
(* one integer in 1e-7 degrees.                                            *)
(***************************************************************************)
EXTENDS SequencesExt

CONSTANTS
  Positions,    \* what GPS_RAW_INT may report
  Second,       \* clock units in a second
  Minute, Hour, \* 60 seconds, 60 minutes
  FrameGap,     \* longest time between two frames of the OSD thread
  Boot,         \* the monotonic clock when vdec starts
  MaxNow, MaxFrames, MaxMessages   \* bounds: time, frames and messages received

ASSUME OsdAssumption ==
  /\ Positions \subseteq Int
  /\ {Second, Minute, Hour, FrameGap, Boot} \subseteq Nat \ {0}
  /\ FrameGap < Second
  /\ {MaxNow, MaxFrames, MaxMessages} \subseteq Nat

VARIABLES
  \* the receive loop
  frames,          \* frames_received
  rx, rx_register, \* where it is, and what it read of stats_rx_bytes
  stats_rx_bytes,  \* shared with the OSD thread
  \* the MAVLink thread
  messages, listening,
  telemetry_lat,   \* the position reported last, shared with the OSD thread
  arm_switch,      \* telemetry_arm > 1700, shared with the OSD thread
  armed, base,     \* the first armed position was seen, and is
  distance,        \* the two ends it was computed from, home first
  \* the OSD thread
  osd,             \* where it is in its loop
  c1,              \* the text of the latitude, while it is made
  last_timestamp, minutes, seconds,
  \* the clock, and histories
  now, drawn_at,   \* time, and when the OSD thread looked at it last
  flown,           \* the first and the last position reported while armed
  counted,         \* frames that were in a figure
  overlooked,      \* frames added between reading stats_rx_bytes and clearing
  crossed,         \* a report since c1's digits is beyond the one degree line
  recounted,       \* frames in a figure while the receive loop had read them
  on_time, excess  \* time the switch was on, seconds the clock may have in excess

rxVars  == <<frames, rx, rx_register>>
mavVars == <<messages, listening, telemetry_lat, arm_switch, armed, base, distance, flown>>
clockVars == <<last_timestamp, minutes, seconds, drawn_at>>
rateVars  == <<counted, recounted>>
labelVars == <<c1, crossed>>
vars == <<rxVars, stats_rx_bytes, mavVars, osd, labelVars, clockVars, rateVars,
          now, overlooked, on_time, excess>>

NoText == [digits |-> 0, zero |-> FALSE, point |-> FALSE]

Init ==
  /\ frames = 0 /\ rx = "recv" /\ rx_register = {} /\ stats_rx_bytes = {}
  /\ messages = 0 /\ listening = TRUE /\ arm_switch = FALSE /\ armed = FALSE
  /\ telemetry_lat = 0 /\ c1 = NoText /\ crossed = FALSE
  /\ base = 0 /\ distance = <<0, 0>> /\ flown = <<>>
  /\ osd = "digits" /\ last_timestamp = 0 /\ minutes = 0 /\ seconds = 0
  /\ counted = {} /\ overlooked = {} /\ recounted = {}
  /\ now = Boot /\ drawn_at = Boot /\ on_time = 0 /\ excess = 0

-----------------------------------------------------------------------------
\* The receive loop: stats_rx_bytes += u32Len, a read and a write.
ReadStats ==
  /\ rx = "recv" /\ frames < MaxFrames
  /\ frames' = frames + 1
  /\ rx_register' = stats_rx_bytes
  /\ rx' = "add"
  /\ UNCHANGED <<stats_rx_bytes, mavVars, osd, labelVars, clockVars, rateVars,
                 now, overlooked, on_time, excess>>

AddToStats ==
  /\ rx = "add"
  /\ stats_rx_bytes' = rx_register \cup {frames}
  /\ overlooked' = IF osd = "clear" THEN overlooked \cup {frames} ELSE overlooked
  /\ rx' = "recv" /\ rx_register' = {}
  /\ UNCHANGED <<frames, mavVars, osd, labelVars, clockVars, rateVars, now,
                 on_time, excess>>

-----------------------------------------------------------------------------
(***************************************************************************)
(* The distance is computed from decimal texts.  A text is made from an    *)
(* integer of 1e-7 degrees by putting a "0." in front of it or a point     *)
(* into it: after one digit if it has eight, else after two.               *)
(***************************************************************************)
AtMost(v) == v <= 10000000
Below(v) == v < 10000000
Above(v) == v > 9999999

Digits(v) == Cardinality({n \in 0..9 : n = 0 \/ v >= 10^n})

\* What strtod makes of it, in 1e-7 degrees: "0." in front of a minus is 0.
Places(v) == IF Below(v) THEN Digits(v)
             ELSE Digits(v) - (IF Digits(v) = 8 THEN 1 ELSE 2)
Degrees(v) ==
  IF v < 0 THEN 0
  ELSE IF Places(v) <= 7 THEN v * 10^(7 - Places(v)) ELSE v \div 10^(Places(v) - 7)

RcChannels(on) ==
  /\ listening /\ messages < MaxMessages
  /\ messages' = messages + 1
  /\ arm_switch' = on
  /\ excess' = IF on /\ ~arm_switch THEN excess + 1 ELSE excess
  /\ UNCHANGED <<rxVars, stats_rx_bytes, listening, telemetry_lat, armed, base,
                 distance, flown, osd, labelVars, clockVars, rateVars, now,
                 overlooked, on_time>>

\* Home is the first position reported while armed; mutant: the last one.
EachArming == TRUE
FirstArming == ~armed

\* The texts and their values are kept when the switch is off.
GpsRawInt(pos) ==
  /\ listening /\ messages < MaxMessages
  /\ messages' = messages + 1
  /\ telemetry_lat' = pos
  /\ crossed' = (crossed \/ (osd \in {"below", "above"}
                             /\ Below(pos) # Below(c1.digits)))
  /\ IF arm_switch
       THEN /\ armed' = TRUE
            /\ base' = IF FirstArming THEN pos ELSE base
            /\ distance' = <<Degrees(base'), Degrees(pos)>>
            /\ flown' = <<IF flown = <<>> THEN pos ELSE Head(flown), pos>>
       ELSE UNCHANGED <<armed, base, distance, flown>>
  /\ UNCHANGED <<rxVars, stats_rx_bytes, listening, arm_switch, osd, c1, clockVars,
                 rateVars, now, overlooked, on_time, excess>>

\* recv returns 0 for an empty datagram, and the thread ends.
EmptyDatagram ==
  /\ listening
  /\ listening' = FALSE
  /\ UNCHANGED <<rxVars, stats_rx_bytes, messages, telemetry_lat, arm_switch, armed,
                 base, distance, flown, osd, labelVars, clockVars, rateVars, now,
                 overlooked, on_time, excess>>

Mavlink == \/ \E on \in BOOLEAN : RcChannels(on)
           \/ \E pos \in Positions : GpsRawInt(pos)
           \/ EmptyDatagram

-----------------------------------------------------------------------------
(***************************************************************************)
(* The OSD thread, one turn per frame on the screen.                       *)
(***************************************************************************)
\* The text of the latitude is made of three readings: its digits, then "0."
\* in front of them, then a point among them (a read of a double is one access).
MakeDigits ==
  /\ osd = "digits"
  /\ c1' = [digits |-> telemetry_lat, zero |-> FALSE, point |-> FALSE]
  /\ osd' = "below"
  /\ UNCHANGED <<rxVars, stats_rx_bytes, mavVars, crossed, clockVars, rateVars, now,
                 overlooked, on_time, excess>>

PutZero ==
  /\ osd = "below"
  /\ c1' = [c1 EXCEPT !.zero = Below(telemetry_lat)]
  /\ osd' = "above"
  /\ UNCHANGED <<rxVars, stats_rx_bytes, mavVars, crossed, clockVars, rateVars, now,
                 overlooked, on_time, excess>>

PutPoint ==
  /\ osd = "above"
  /\ c1' = [c1 EXCEPT !.point = Above(telemetry_lat)]
  /\ osd' = "clock"
  /\ UNCHANGED <<rxVars, stats_rx_bytes, mavVars, crossed, clockVars, rateVars, now,
                 overlooked, on_time, excess>>

Interval == now - last_timestamp

WholeRounded == (Interval + Second \div 2) \div Second
Whole == Interval \div Second

\* The interval is added at every frame and truncated; only when it is over a
\* second it starts again.  A frame takes longer than the coarse clock's tick.
\* c1 is drawn; sprintf writes it anew before it is looked at again.
UpdateClock ==
  /\ osd = "clock" /\ now > drawn_at
  /\ seconds' = IF arm_switch THEN seconds + Whole ELSE seconds
  /\ excess' = excess + (IF ~arm_switch THEN 0
                         ELSE IF last_timestamp = 0 THEN Whole
                         ELSE IF Interval = Second THEN 1 ELSE 0)
  /\ drawn_at' = now
  /\ c1' = NoText /\ crossed' = FALSE
  /\ IF Interval > Second
       THEN last_timestamp' = now /\ osd' = "rate"
       ELSE osd' = "show" /\ UNCHANGED last_timestamp
  /\ UNCHANGED <<rxVars, stats_rx_bytes, mavVars, minutes, rateVars, now,
                 overlooked, on_time>>

\* rx_rate is only drawn; what matters is which frames were in a figure.
ReadRate ==
  /\ osd = "rate"
  /\ counted' = counted \cup stats_rx_bytes
  /\ recounted' = IF rx = "add" THEN recounted \cup rx_register ELSE recounted
  /\ osd' = "clear"
  /\ UNCHANGED <<rxVars, stats_rx_bytes, mavVars, clockVars, labelVars, now,
                 overlooked, on_time, excess>>

NotCleared == stats_rx_bytes
Cleared == {}

ClearStats ==
  /\ osd = "clear"
  /\ stats_rx_bytes' = Cleared
  /\ recounted' = IF rx = "add" THEN recounted \cup rx_register ELSE recounted
  /\ osd' = "show"
  /\ UNCHANGED <<rxVars, mavVars, clockVars, counted, labelVars, now,
                 overlooked, on_time, excess>>

\* The clock is drawn, then carried over: what is left of a minute is dropped.
MinutesOf(m) == IF m > Hour - 1 THEN 0 ELSE m

Show ==
  /\ osd = "show"
  /\ IF seconds > Minute - 1
       THEN seconds' = 0 /\ minutes' = MinutesOf(minutes + 1)
       ELSE UNCHANGED <<seconds, minutes>>
  /\ osd' = "digits"
  /\ UNCHANGED <<rxVars, stats_rx_bytes, mavVars, last_timestamp, drawn_at,
                 rateVars, labelVars, now, overlooked, on_time, excess>>

Osd == \/ MakeDigits \/ PutZero \/ PutPoint
       \/ UpdateClock \/ ReadRate \/ ClearStats \/ Show

\* Time passes; from the first frame on, one is drawn every FrameGap.
Tick ==
  /\ now < MaxNow
  /\ last_timestamp = 0 \/ now < drawn_at + FrameGap
  /\ now' = now + 1
  /\ on_time' = IF arm_switch THEN on_time + 1 ELSE on_time
  /\ UNCHANGED <<rxVars, stats_rx_bytes, mavVars, osd, labelVars, clockVars,
                 rateVars, overlooked, excess>>

\* recv fails, and both loops go round.
NothingArrives == rx = "recv" /\ UNCHANGED vars

Next == ReadStats \/ AddToStats \/ Mavlink \/ Osd \/ Tick \/ NothingArrives

Spec == Init /\ [][Next]_vars

-----------------------------------------------------------------------------
\* The distance is between the first position ever reported while armed and
\* the last one, whatever the switch did in between: it stands still while
\* disarmed, and a second flight measures from the first one's home
\* (vdec/main.c:1066-1129).  Stated for the positions whose text is right.
Ordinary(pos) == 1000000 <= pos /\ pos <= 999999999
DistanceFromHome ==
  flown # <<>> => /\ Ordinary(Head(flown)) => distance[1] = Head(flown)
                  /\ Ordinary(Last(flown)) => distance[2] = Last(flown)

\* GPS_RAW_INT's lat and lon are "[degE7] Latitude (WGS84, EGM96 ellipsoid)":
\* the distance is computed between the places it reported.
DistanceEndsAreTrue ==
  flown # <<>> => distance = <<Head(flown), Last(flown)>>

\* The latitude drawn is the text of one position, that of the first reading,
\* although it is read three times while the MAVLink thread writes it: only a
\* report from beyond the one degree line in between can give it both a "0." and
\* a point, or neither and no name either (vdec/main.c:1260-1273).
LatitudeOfOnePosition ==
  osd = "clock" /\ ~crossed =>
    IF c1.digits < 10000000 THEN c1.zero /\ ~c1.point ELSE ~c1.zero /\ c1.point

\* The flight clock never runs ahead of the time the switch was on, but for a
\* second at each switching on, one for each frame drawn exactly a second after
\* the last reset, and the time since boot if the first frame finds it on: the
\* interval is added at every frame and reset only when it is over a second.
ClockNotAhead ==
  Second * (Minute * minutes + seconds) <= on_time + Second * excess

\* Every frame received is in a figure or will be: one is overlooked only when
\* it is added between the two statements that read and clear the count, and
\* in two figures only when it was read back while the figure was taken.
EachFrameInOneFigure ==
  LET added == 1..(IF rx = "add" THEN frames - 1 ELSE frames)
  IN  /\ added \subseteq stats_rx_bytes \cup counted \cup overlooked
      /\ osd # "clear" => (stats_rx_bytes \cap counted) \subseteq recounted
=============================================================================
