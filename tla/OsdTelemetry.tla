----------------------------- MODULE OsdTelemetry -----------------------------
(***************************************************************************)
(* The on-screen display program: the MAVLink thread (mavlink_handler in   *)
(* osd/mavlink_parser.c) turns messages into items, the drawing thread     *)
(* (ui_updating_thread in osd/ui/ui.c) takes them out of the queue and     *)
(* updates the screen, and the main thread (osd/osd.c) runs LVGL's timers. *)
(* The queue is what BoundedFifo says; TelemetryQueue shows that it is.    *)
(*                                                                         *)
(* LVGL is called by the drawing thread and the main thread without a      *)
(* lock: each call is a step, a timer callback is a step per call.         *)
(***************************************************************************)
EXTENDS Integers, Sequences

CONSTANTS
  Messages,         \* the messages that may arrive: records with a msgid
  Positions,        \* the positions they report
  MAX_QUEUE_SIZE,   \* capacity of the queue: 10
  MaxMessages,      \* bound: messages received
  MaxTicks          \* bound: ticks of the flight clock

Nowhere == "nowhere"     \* latitude and longitude 0.0
\* A distance is known by its two ends; instead of the first one it may have
Zero    == "zero"        \* it is 0
Garbage == "garbage"     \* computed from memory that was freed
Unread  == "unread"      \* gpsdata->lat and ->lon are still to be read

\* The items that only set the text of a label of their own.
PlainIds == {"E_BATTERY", "E_CURRENT", "E_CURRENT_CONSUMED", "E_THROTTLE",
             "E_RSSI", "E_MPU", "E_TEMP"}

\* Every message has the fields its handler decodes.
MessageAssumption ==
  \A m \in Messages :
    \/ m.msgid = "HEARTBEAT" /\ m.arm \in {0, 1}
    \/ m.msgid = "STATUSTEXT"
    \/ /\ m.msgid \in {"HOME_POSITION", "GPS_RAW_INT", "GLOBAL_POSITION_INT"}
       /\ m.pos \in Positions
    \/ m.msgid = "PLAIN" /\ m.ids \in Seq(PlainIds)

ASSUME TelemetryAssumption ==
  /\ MAX_QUEUE_SIZE \in Nat \ {0} /\ {MaxMessages, MaxTicks} \subseteq Nat
  /\ Positions \cap {Nowhere, Zero, Garbage, Unread} = {}
  /\ MessageAssumption

VARIABLES
  \* the MAVLink thread
  received,      \* messages received so far
  listening,     \* the thread has not returned
  g_armed, s_home, s_set_home,
  todo,          \* items the current message's handler still has to enqueue
  \* shared
  hasGPSInfo, hasGPSPos,   \* s_bHasReceivedGPSInfo, s_bHasReceivedGPSPos
  queue,
  freed,         \* history: message of the last coordinates freed
  \* the drawing thread
  ui, item,      \* where it is, and the item in its hands
  drawn,         \* what the GPS labels show
  visible,       \* the GPS labels not hidden
  \* shared with LVGL's timers
  status_text,   \* ui_StatusText
  timer_arm, timer_flight, seconds,
  arm_shown,     \* history: the armed state handled last
  late,          \* history: ticks since disarmed was handled
  lv             \* where lv_timer_handler is

handlerVars == <<received, listening, g_armed, s_home, s_set_home>>
gpsFlags == <<hasGPSInfo, hasGPSPos>>
gpsVars  == <<drawn, visible, freed>>
armVars  == <<timer_arm, timer_flight, seconds, arm_shown, late>>
vars == <<handlerVars, todo, gpsFlags, queue, gpsVars, ui, item, status_text,
          armVars, lv>>

\* An item: its armed state, or its position and, for a distance, from where.
Item(id, msg, arm, from, at) ==
  [id |-> id, msg |-> msg, arm |-> arm, from |-> from, at |-> at]
NoItem == Item("E_NONE", 0, 0, Nowhere, Nowhere)
GpsLabels == {"E_SATS", "E_GPS_DISTANCE", "E_GPS_CORDINATE", "E_GSPEED"}

Init ==
  /\ received = 0 /\ listening = TRUE
  /\ g_armed = 0 /\ s_home = Nowhere /\ s_set_home = FALSE
  /\ todo = <<>> /\ queue = <<>> /\ freed = 0
  /\ hasGPSInfo = FALSE /\ hasGPSPos = FALSE
  /\ ui = "dequeue" /\ item = NoItem
  /\ drawn = [l \in GpsLabels |-> NoItem] /\ visible = GpsLabels
  /\ status_text = "" /\ timer_arm = "none" /\ timer_flight = "none"
  /\ seconds = -1 /\ arm_shown = 0 /\ late = 0 /\ lv = "idle"

-----------------------------------------------------------------------------
(***************************************************************************)
(* mavlink_handler.  What a handler assigns to the thread's own variables  *)
(* and to the GPS flags happens when the message arrives; each item is     *)
(* enqueued in a step of its own, and waits while the queue is full.       *)
(***************************************************************************)
It(id) == Item(id, received + 1, 0, Nowhere, Nowhere)
Armed(arm) == Item("E_ARMED", received + 1, arm, Nowhere, Nowhere)
Coordinates(pos) == Item("E_GPS_CORDINATE", received + 1, 0, Nowhere, pos)
Distance(from, pos) == Item("E_GPS_DISTANCE", received + 1, 0, from, pos)

Handle(items) ==
  /\ listening /\ todo = <<>> /\ received < MaxMessages
  /\ received' = received + 1
  /\ todo' = items
  /\ UNCHANGED <<listening, queue, gpsVars, ui, item, status_text, armVars, lv>>

\* Only a change of the armed state is queued; disarming forgets the home.
ArmItemsOnArming(arm) == IF g_armed < arm THEN <<Armed(arm)>> ELSE <<>>
ArmItems(arm) == IF g_armed # arm THEN <<Armed(arm)>> ELSE <<>>

Heartbeat(m) ==
  /\ m.msgid = "HEARTBEAT"
  /\ Handle(Append(ArmItems(m.arm), It("E_FLY_MODE")))
  /\ g_armed' = m.arm
  /\ s_set_home' = (s_set_home /\ m.arm = 1)
  /\ UNCHANGED <<s_home, gpsFlags>>

StatusText(m) ==
  /\ m.msgid = "STATUSTEXT"
  /\ Handle(<<It("E_STATUS_TEXT")>>)
  /\ UNCHANGED <<g_armed, s_home, s_set_home, gpsFlags>>

HomePosition(m) ==
  /\ m.msgid = "HOME_POSITION"
  /\ Handle(<<>>)
  /\ s_home' = m.pos /\ s_set_home' = TRUE
  /\ UNCHANGED <<g_armed, gpsFlags>>

GpsRawInt(m) ==
  /\ m.msgid = "GPS_RAW_INT"
  /\ Handle(<<It("E_SATS"), Coordinates(m.pos),
              Distance(IF s_set_home THEN s_home ELSE Zero, m.pos)>>)
  /\ hasGPSInfo' = TRUE
  /\ UNCHANGED <<g_armed, s_home, s_set_home, hasGPSPos>>

\* The distance is computed from gpsdata after gpsdata was enqueued.
GlobalItemsNoDistance(m) ==
  <<It("E_HDG"), Coordinates(m.pos), It("E_GSPEED")>>
GlobalItems(m) ==
  <<It("E_HDG"), Coordinates(m.pos), It("E_GSPEED"), Distance(Unread, m.pos)>>

GlobalPositionInt(m) ==
  /\ m.msgid = "GLOBAL_POSITION_INT"
  /\ Handle(GlobalItems(m))
  /\ hasGPSPos' = TRUE
  /\ UNCHANGED <<g_armed, s_home, s_set_home, hasGPSInfo>>

\* SYS_STATUS, BATTERY_STATUS, VFR_HUD, RC_CHANNELS, ATTITUDE, HIGH_LATENCY,
\* SCALED_PRESSURE: items of PlainIds.
Plain(m) ==
  /\ m.msgid = "PLAIN"
  /\ Handle([i \in DOMAIN m.ids |-> It(m.ids[i])])
  /\ UNCHANGED <<g_armed, s_home, s_set_home, gpsFlags>>

Receive ==
  \E m \in Messages :
    \/ Heartbeat(m) \/ StatusText(m) \/ HomePosition(m)
    \/ GpsRawInt(m) \/ GlobalPositionInt(m) \/ Plain(m)

\* recv returns 0 for an empty datagram, and the thread ends.
EmptyDatagram ==
  /\ listening /\ todo = <<>>
  /\ listening' = FALSE
  /\ UNCHANGED <<received, g_armed, s_home, s_set_home, todo, gpsFlags, queue,
                 gpsVars, ui, item, status_text, armVars, lv>>

ToRead == todo # <<>> /\ Head(todo).from = Unread

\* calculateDistance(home, gpsdata): the drawing thread may have freed it.
ReadGpsData ==
  /\ ToRead
  /\ \E from \in {s_home} \cup (IF freed = Head(todo).msg THEN {Garbage} ELSE {}) :
       todo' = [todo EXCEPT ![1].from = from]
  /\ UNCHANGED <<handlerVars, gpsFlags, queue, gpsVars, ui, item, status_text,
                 armVars, lv>>

HasRoom == Len(queue) < MAX_QUEUE_SIZE

Enqueue ==
  /\ todo # <<>> /\ ~ToRead
  /\ HasRoom
  /\ queue' = Append(queue, Head(todo))
  /\ todo' = Tail(todo)
  /\ UNCHANGED <<handlerVars, gpsFlags, gpsVars, ui, item, status_text, armVars, lv>>

-----------------------------------------------------------------------------
(***************************************************************************)
(* ui_updating_thread: one item after the other, freed when it is drawn.   *)
(***************************************************************************)
Dequeue ==
  /\ ui = "dequeue" /\ queue # <<>>
  /\ item' = Head(queue) /\ queue' = Tail(queue)
  /\ ui' = "draw"
  /\ UNCHANGED <<handlerVars, todo, gpsFlags, gpsVars, status_text, armVars, lv>>

Free ==
  /\ ui' = "dequeue" /\ item' = NoItem
  /\ freed' = IF item.id = "E_GPS_CORDINATE" THEN item.msg ELSE freed

\* The number of satellites needs GPS_RAW_INT, the others both messages.
MayShow(label) == hasGPSInfo /\ (label = "E_SATS" \/ hasGPSPos)

DrawGps ==
  /\ ui = "draw" /\ item.id \in GpsLabels
  /\ IF MayShow(item.id)
       THEN /\ drawn' = [drawn EXCEPT ![item.id] = item]
            /\ visible' = visible \cup {item.id}
       ELSE visible' = visible \ {item.id} /\ UNCHANGED drawn
  /\ Free
  /\ UNCHANGED <<handlerVars, todo, gpsFlags, queue, status_text, armVars, lv>>

DrawStatusText ==
  /\ ui = "draw" /\ item.id = "E_STATUS_TEXT"
  /\ status_text' = "message"
  /\ Free
  /\ UNCHANGED <<handlerVars, todo, gpsFlags, queue, drawn, visible, armVars, lv>>

\* The other items: the text of a label, or nothing.
DrawOther ==
  /\ ui = "draw" /\ item.id \notin GpsLabels \cup {"E_STATUS_TEXT", "E_ARMED"}
  /\ Free
  /\ UNCHANGED <<handlerVars, todo, gpsFlags, queue, drawn, visible,
                 status_text, armVars, lv>>

ArmText(arm) == IF arm = 0 THEN "Armed" ELSE "Disarmed"

DrawArmed ==
  /\ ui = "draw" /\ item.id = "E_ARMED"
  /\ status_text' = ArmText(item.arm)
  /\ ui' = "arm_timer"
  /\ UNCHANGED <<handlerVars, todo, gpsFlags, queue, gpsVars, item, armVars, lv>>

\* Created the first time, reset and resumed from then on.
ArmTimerOnlyReset == IF timer_arm = "none" THEN "running" ELSE timer_arm
ArmTimerRestarted == "running"

StartArmTimer ==
  /\ ui = "arm_timer"
  /\ timer_arm' = ArmTimerRestarted
  /\ ui' = "flight_timer"
  /\ UNCHANGED <<handlerVars, todo, gpsFlags, queue, gpsVars, item, status_text,
                 timer_flight, seconds, arm_shown, late, lv>>

\* The flight clock starts at the first arming, stops while disarmed.
FlightTimerKept(arm) ==
  IF seconds = -1 /\ arm = 1 THEN "running" ELSE timer_flight
FlightTimer(arm) ==
  IF seconds = -1 /\ arm = 1 THEN "running"
  ELSE IF timer_flight = "none" THEN "none"
  ELSE IF arm = 0 THEN "paused" ELSE "running"

SetFlightTimer ==
  /\ ui = "flight_timer"
  /\ timer_flight' = FlightTimer(item.arm)
  /\ seconds' = IF seconds = -1 /\ item.arm = 1 THEN 0 ELSE seconds
  /\ arm_shown' = item.arm
  /\ late' = 0
  /\ Free
  /\ UNCHANGED <<handlerVars, todo, gpsFlags, queue, drawn, visible, status_text,
                 timer_arm, lv>>

Ui == Dequeue \/ DrawGps \/ DrawStatusText \/ DrawOther \/ DrawArmed
        \/ StartArmTimer \/ SetFlightTimer

-----------------------------------------------------------------------------
(***************************************************************************)
(* lv_timer_handler in the main thread: it finds a timer that is due and   *)
(* not paused, then calls its callback.                                    *)
(***************************************************************************)
LvUnchanged == UNCHANGED <<handlerVars, todo, gpsFlags, queue, gpsVars, ui, item>>

ArmTimerDue ==
  /\ lv = "idle" /\ timer_arm = "running"
  /\ lv' = "arm_pause"
  /\ UNCHANGED <<status_text, armVars>> /\ LvUnchanged

PauseArmTimer ==
  /\ lv = "arm_pause"
  /\ timer_arm' = "paused"
  /\ lv' = "arm_clear"
  /\ UNCHANGED <<status_text, timer_flight, seconds, arm_shown, late>>
  /\ LvUnchanged

ClearStatusText ==
  /\ lv = "arm_clear"
  /\ status_text' = ""
  /\ lv' = "idle"
  /\ UNCHANGED armVars /\ LvUnchanged

FlightTimerDue ==
  /\ lv = "idle" /\ timer_flight = "running" /\ seconds < MaxTicks
  /\ lv' = "tick"
  /\ UNCHANGED <<status_text, armVars>> /\ LvUnchanged

Tick ==
  /\ lv = "tick"
  /\ seconds' = seconds + 1
  /\ late' = IF arm_shown = 0 THEN late + 1 ELSE 0
  /\ lv' = "idle"
  /\ UNCHANGED <<status_text, timer_arm, timer_flight, arm_shown>>
  /\ LvUnchanged

Callback == PauseArmTimer \/ ClearStatusText \/ Tick

\* recv times out every 100 ms, the LVGL loop sleeps.
Wait == todo = <<>> /\ UNCHANGED vars

Next == Receive \/ EmptyDatagram \/ ReadGpsData \/ Enqueue \/ Ui
          \/ ArmTimerDue \/ FlightTimerDue \/ Callback \/ Wait

Spec == Init /\ [][Next]_vars

\* The three threads run.  lv_timer_handler walks through all timers, so the
\* arm timer is found due however often the other one is.
FairSpec ==
  /\ Spec
  /\ WF_vars(ReadGpsData \/ Enqueue) /\ WF_vars(Ui)
  /\ WF_vars(Callback) /\ SF_vars(ArmTimerDue)

-----------------------------------------------------------------------------
\* After x and the first n items of s the armed state is a.
Holds(x, s, n, a) ==
  \/ a = x /\ \A k \in 1..n : s[k].id # "E_ARMED"
  \/ \E i \in 1..n : /\ s[i].id = "E_ARMED" /\ s[i].arm = a
                     /\ \A k \in (i + 1)..n : s[k].id # "E_ARMED"

\* The armed states in s change with every item, from x to last.
Alternates(x, s, last) ==
  /\ Holds(x, s, Len(s), last)
  /\ \A n \in DOMAIN s : s[n].id = "E_ARMED" => ~Holds(x, s, n - 1, s[n].arm)

\* The armed state is queued only when it changes, so the items on their way
\* alternate and end in what mavlink_handler believes: nothing in between may
\* drop, double or reorder one (mavlink_parser.c:203, ui.c:241).
OnItsWay == queue \o todo
InHand == IF item.id = "E_ARMED" THEN item.arm ELSE arm_shown
ArmedInStep ==
  /\ item.id = "E_ARMED" => item.arm # arm_shown
  /\ Alternates(InHand, OnItsWay, g_armed)

\* The flight clock stops while disarmed: at most the tick that LVGL had begun
\* when the drawing thread paused the timer is still counted.
ClockStopsWhenDisarmed == late <= 1

\* With nothing on its way, the distance and the coordinates on the screen come
\* from the same position (unless gpsdata was read after the drawing thread
\* freed it), although the two labels are drawn from separate items and may be
\* shown and hidden in between.
DistanceMatchesCoordinates ==
  todo = <<>> /\ queue = <<>> /\ ui = "dequeue"
  /\ drawn["E_GPS_DISTANCE"].from # Garbage
    => drawn["E_GPS_DISTANCE"].at = drawn["E_GPS_CORDINATE"].at

\* What LVGL's timer is for: "Armed" and "Disarmed" do not stay on the screen.
ArmTextIsCleared ==
  status_text \in {"Armed", "Disarmed"} ~> status_text \notin {"Armed", "Disarmed"}

\* The label of the armed state says what the autopilot's flag said.
ArmTextIsTrue ==
  ui = "arm_timer" =>
    status_text \in {"", IF item.arm = 1 THEN "Armed" ELSE "Disarmed"}
=============================================================================
