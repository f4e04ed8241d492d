-------------------------- MODULE OsdTelemetryProofs --------------------------
(***************************************************************************)
(* Proofs about OsdTelemetry for every set of messages and positions and   *)
(* every queue size.                                                       *)
(***************************************************************************)
EXTENDS OsdTelemetry, SequenceTheorems, TLAPS

USE TelemetryAssumption

Ids == PlainIds \cup GpsLabels
         \cup {"E_ARMED", "E_FLY_MODE", "E_STATUS_TEXT", "E_HDG", "E_NONE"}
Places == Positions \cup {Nowhere, Zero, Garbage, Unread}
Items == [id : Ids, msg : Nat, arm : {0, 1}, from : Places, at : Places]

TypeOK ==
  /\ received \in Nat /\ g_armed \in {0, 1} /\ s_home \in Places
  /\ hasGPSInfo \in BOOLEAN /\ hasGPSPos \in BOOLEAN
  /\ todo \in Seq(Items) /\ queue \in Seq(Items) /\ item \in Items
  /\ drawn \in [GpsLabels -> Items]
  /\ arm_shown \in {0, 1} /\ late \in Nat

\* What the drawing thread has in its hands.
HandShape ==
  /\ ui = "dequeue" => item = NoItem
  /\ ui \in {"arm_timer", "flight_timer"} => item.id = "E_ARMED"

\* While disarmed the clock is stopped, except for a tick that LVGL had begun.
ClockShape ==
  /\ late \in 0..1
  /\ arm_shown = 1 => late = 0
  /\ arm_shown = 0 => timer_flight # "running"
  /\ lv = "tick" => late = 0

HandInv == TypeOK /\ HandShape

-----------------------------------------------------------------------------
\* What the handlers queue are items.
LEMMA ItemsAre ==
  ASSUME TypeOK
  PROVE  /\ \A id \in Ids : It(id) \in Items
         /\ \A arm \in {0, 1} : Armed(arm) \in Items
         /\ \A pos \in Positions : Coordinates(pos) \in Items
         /\ \A pos \in Positions, from \in Places : Distance(from, pos) \in Items
         /\ NoItem \in Items
BY DEF TypeOK, Items, It, Armed, Coordinates, Distance, Item, Places, Ids, NoItem,
   GpsLabels

LEMMA IdsAre ==
  /\ {"E_FLY_MODE", "E_STATUS_TEXT", "E_SATS", "E_HDG", "E_GSPEED", "E_ARMED"}
       \subseteq Ids
  /\ PlainIds \subseteq Ids
  /\ {Nowhere, Zero, Garbage, Unread} \subseteq Places
BY DEF Ids, GpsLabels, Places

LEMMA InitHand == Init => HandInv
<1>1. SUFFICES ASSUME Init PROVE HandInv
  OBVIOUS
<1>2. NoItem \in Items
  BY DEF NoItem, Item, Items, Ids, Places
<1>3. drawn \in [GpsLabels -> Items]
  BY <1>1, <1>2 DEF Init
<1>4. s_home \in Places
  BY <1>1 DEF Init, Places
<1>5. /\ received \in Nat /\ g_armed \in {0, 1} /\ hasGPSInfo \in BOOLEAN
      /\ hasGPSPos \in BOOLEAN /\ item \in Items /\ arm_shown \in {0, 1}
      /\ late \in Nat /\ HandShape
  BY <1>1, <1>2 DEF Init, HandShape
<1>6. todo \in Seq(Items) /\ queue \in Seq(Items)
  <2>1. todo = <<>> /\ queue = <<>>
    BY <1>1 DEF Init
  <2>2. QED BY <2>1
<1>7. QED BY <1>3, <1>4, <1>5, <1>6 DEF HandInv, TypeOK

\* What a message hands to its handler is queued as items.
LEMMA HandleHand ==
  ASSUME HandInv, NEW items \in Seq(Items), Handle(items),
         g_armed' \in {0, 1}, s_home' \in Places,
         hasGPSInfo' \in BOOLEAN, hasGPSPos' \in BOOLEAN
  PROVE  HandInv'
BY DEF Handle, HandInv, TypeOK, HandShape, gpsVars, armVars

LEMMA ReceiveHand ==
  ASSUME HandInv, NEW m \in Messages,
         \/ Heartbeat(m) \/ StatusText(m) \/ HomePosition(m)
         \/ GpsRawInt(m) \/ GlobalPositionInt(m) \/ Plain(m)
  PROVE  HandInv'
<1>1. TypeOK
  BY DEF HandInv
<1>2. MessageAssumption
  OBVIOUS
<1>3. CASE Heartbeat(m)
  <2>1. m.arm \in {0, 1}
    BY <1>2, <1>3 DEF Heartbeat, MessageAssumption
  <2>2. Append(ArmItems(m.arm), It("E_FLY_MODE")) \in Seq(Items)
    <3>1. Armed(m.arm) \in Items /\ It("E_FLY_MODE") \in Items
      BY <1>1, <2>1, ItemsAre, IdsAre
    <3>2. QED BY <3>1 DEF ArmItems
  <2>3. QED BY <1>1, <1>3, <2>1, <2>2, HandleHand DEF Heartbeat, gpsFlags, TypeOK
<1>4. CASE StatusText(m)
  <2>1. <<It("E_STATUS_TEXT")>> \in Seq(Items)
    BY <1>1, ItemsAre, IdsAre
  <2>2. QED BY <1>1, <1>4, <2>1, HandleHand DEF StatusText, gpsFlags, TypeOK
<1>5. CASE HomePosition(m)
  <2>1. m.pos \in Places /\ <<>> \in Seq(Items)
    BY <1>2, <1>5 DEF HomePosition, MessageAssumption, Places
  <2>2. QED BY <1>1, <1>5, <2>1, HandleHand DEF HomePosition, gpsFlags, TypeOK
<1>6. CASE GpsRawInt(m)
  <2>1. m.pos \in Positions
    BY <1>2, <1>6 DEF GpsRawInt, MessageAssumption
  <2>2. /\ It("E_SATS") \in Items /\ Coordinates(m.pos) \in Items
        /\ Distance(IF s_set_home THEN s_home ELSE Zero, m.pos) \in Items
    BY <1>1, <2>1, ItemsAre, IdsAre DEF TypeOK
  <2>3. <<It("E_SATS"), Coordinates(m.pos),
          Distance(IF s_set_home THEN s_home ELSE Zero, m.pos)>> \in Seq(Items)
    BY <2>2
  <2>4. QED BY <1>1, <1>6, <2>3, HandleHand DEF GpsRawInt, TypeOK
<1>7. CASE GlobalPositionInt(m)
  <2>1. m.pos \in Positions
    BY <1>2, <1>7 DEF GlobalPositionInt, MessageAssumption
  <2>2. /\ It("E_HDG") \in Items /\ Coordinates(m.pos) \in Items
        /\ It("E_GSPEED") \in Items /\ Distance(Unread, m.pos) \in Items
    BY <1>1, <2>1, ItemsAre, IdsAre
  <2>3. GlobalItems(m) \in Seq(Items)
    BY <2>2 DEF GlobalItems
  <2>4. QED BY <1>1, <1>7, <2>3, HandleHand DEF GlobalPositionInt, TypeOK
<1>8. CASE Plain(m)
  <2>1. m.ids \in Seq(PlainIds)
    BY <1>2, <1>8 DEF Plain, MessageAssumption
  <2>2. [i \in DOMAIN m.ids |-> It(m.ids[i])] \in Seq(Items)
    <3>1. DOMAIN m.ids = 1..Len(m.ids) /\ Len(m.ids) \in Nat
      BY <2>1, LenProperties
    <3>2. \A i \in 1..Len(m.ids) : It(m.ids[i]) \in Items
      BY <1>1, <2>1, ElementOfSeq, ItemsAre, IdsAre
    <3>3. [i \in 1..Len(m.ids) |-> It(m.ids[i])] \in [1..Len(m.ids) -> Items]
      BY <3>2
    <3>4. QED BY <3>1, <3>3, SeqDef
  <2>3. QED BY <1>1, <1>8, <2>2, HandleHand DEF Plain, gpsFlags, TypeOK
<1>9. QED BY <1>3, <1>4, <1>5, <1>6, <1>7, <1>8

\* calculateDistance fills in one end of the item at the front.
LEMMA ReadIs ==
  ASSUME HandInv, ReadGpsData
  PROVE  /\ todo' \in Seq(Items) /\ Len(todo') = Len(todo)
         /\ todo # <<>> /\ Len(todo) \in Nat
         /\ \A i \in 1..Len(todo) : /\ todo'[i].id = todo[i].id
                                    /\ todo'[i].arm = todo[i].arm
                                    /\ todo'[i].at = todo[i].at
<1>1. todo \in Seq(Items) /\ todo # <<>> /\ s_home \in Places
  BY DEF HandInv, TypeOK, ReadGpsData, ToRead
<1>2. PICK from \in Places : todo' = [todo EXCEPT ![1].from = from]
  BY <1>1, IdsAre DEF ReadGpsData
<1>3. Len(todo) \in Nat \ {0} /\ DOMAIN todo = 1..Len(todo) /\ todo[1] \in Items
  BY <1>1, LenProperties, ElementOfSeq
<1>4. PICK new : new = [todo[1] EXCEPT !.from = from]
  OBVIOUS
<1>5. /\ new \in Items /\ new.id = todo[1].id /\ new.arm = todo[1].arm
      /\ new.at = todo[1].at
  BY <1>2, <1>3, <1>4 DEF Items
<1>6. todo' = [todo EXCEPT ![1] = new]
  BY <1>2, <1>4
<1>7. todo' \in Seq(Items) /\ Len(todo') = Len(todo)
  BY <1>1, <1>3, <1>5, <1>6, ExceptSeq
<1>8. \A i \in 1..Len(todo) : todo'[i] = IF i = 1 THEN new ELSE todo[i]
  BY <1>3, <1>6
<1>9. QED BY <1>1, <1>3, <1>5, <1>7, <1>8

LEMMA OtherHand ==
  ASSUME HandInv,
         \/ EmptyDatagram \/ ReadGpsData \/ Enqueue \/ Ui
         \/ ArmTimerDue \/ FlightTimerDue \/ Callback \/ UNCHANGED vars
  PROVE  HandInv'
<1>1. TypeOK /\ HandShape
  BY DEF HandInv
<1>2. NoItem \in Items /\ NoItem.id = "E_NONE"
  BY <1>1, ItemsAre DEF NoItem, Item
<1>3. CASE EmptyDatagram \/ UNCHANGED vars
  BY <1>1, <1>3 DEF EmptyDatagram, vars, handlerVars, gpsFlags, gpsVars, armVars,
     HandInv, TypeOK, HandShape
<1>4. CASE ReadGpsData
  <2>1. todo' \in Seq(Items)
    BY <1>4, ReadIs
  <2>2. QED BY <1>1, <1>4, <2>1 DEF ReadGpsData, handlerVars, gpsFlags, gpsVars,
     armVars, HandInv, TypeOK, HandShape
<1>5. CASE Enqueue
  <2>1. Head(todo) \in Items /\ Tail(todo) \in Seq(Items)
    BY <1>1, <1>5, HeadTailProperties DEF Enqueue, TypeOK
  <2>2. queue' \in Seq(Items) /\ todo' \in Seq(Items)
    BY <1>1, <1>5, <2>1 DEF Enqueue, TypeOK
  <2>3. QED BY <1>1, <1>5, <2>2 DEF Enqueue, handlerVars, gpsFlags, gpsVars,
     armVars, HandInv, TypeOK, HandShape
<1>6. CASE Dequeue
  <2>1. item' \in Items /\ queue' \in Seq(Items)
    BY <1>1, <1>6, HeadTailProperties DEF Dequeue, TypeOK
  <2>2. QED BY <1>1, <1>6, <2>1 DEF Dequeue, handlerVars, gpsFlags, gpsVars,
     armVars, HandInv, TypeOK, HandShape
<1>7. CASE DrawGps
  <2>1. drawn' \in [GpsLabels -> Items]
    BY <1>1, <1>7 DEF DrawGps, TypeOK
  <2>2. QED BY <1>1, <1>2, <1>7, <2>1 DEF DrawGps, Free, handlerVars, gpsFlags,
     armVars, HandInv, TypeOK, HandShape
<1>8. CASE DrawStatusText \/ DrawOther
  BY <1>1, <1>2, <1>8 DEF DrawStatusText, DrawOther, Free, handlerVars, gpsFlags,
     armVars, HandInv, TypeOK, HandShape
<1>9. CASE DrawArmed \/ StartArmTimer
  BY <1>1, <1>9 DEF DrawArmed, StartArmTimer, handlerVars, gpsFlags, gpsVars,
     armVars, HandInv, TypeOK, HandShape
<1>10. CASE SetFlightTimer
  <2>1. item.arm \in {0, 1}
    BY <1>1 DEF TypeOK, Items
  <2>2. QED BY <1>1, <1>2, <1>10, <2>1 DEF SetFlightTimer, Free, handlerVars,
     gpsFlags, HandInv, TypeOK, HandShape
<1>11. CASE ArmTimerDue \/ FlightTimerDue \/ PauseArmTimer \/ ClearStatusText
  BY <1>1, <1>11 DEF ArmTimerDue, FlightTimerDue, PauseArmTimer, ClearStatusText,
     LvUnchanged, handlerVars, gpsFlags, gpsVars, armVars, HandInv, TypeOK, HandShape
<1>12. CASE Tick
  BY <1>1, <1>12 DEF Tick, LvUnchanged, handlerVars, gpsFlags, gpsVars,
     HandInv, TypeOK, HandShape
<1>13. QED
  BY <1>3, <1>4, <1>5, <1>6, <1>7, <1>8, <1>9, <1>10, <1>11, <1>12
  DEF Ui, Callback

LEMMA HandHolds == Spec => []HandInv
<1>1. HandInv /\ [Next]_vars => HandInv'
  BY ReceiveHand, OtherHand DEF Next, Receive, Wait
<1>2. QED BY InitHand, <1>1, PTL DEF Spec

-----------------------------------------------------------------------------
\* Whatever arrives and whenever LVGL runs its timers, at most the tick that
\* had begun is counted after the clock was stopped.
THEOREM ClockStops == Spec => []ClockStopsWhenDisarmed
<1>1. Init => ClockShape
  <2>1. Init => late = 0 /\ timer_flight = "none" /\ arm_shown = 0
    BY DEF Init
  <2>2. QED BY <2>1 DEF ClockShape
<1>2. HandInv /\ ClockShape /\ [Next]_vars => ClockShape'
  <2>1. SUFFICES ASSUME HandInv, ClockShape, [Next]_vars PROVE ClockShape'
    OBVIOUS
  <2>2. UNCHANGED <<armVars, lv>> => ClockShape'
    BY <2>1 DEF armVars, ClockShape
  <2>3. CASE Receive
    BY <2>2, <2>3 DEF Receive, Heartbeat, StatusText, HomePosition, GpsRawInt,
       GlobalPositionInt, Plain, Handle
  <2>4. CASE SetFlightTimer
    <3>1. item.arm \in {0, 1}
      BY <2>1 DEF HandInv, TypeOK, Items
    <3>2. QED BY <2>1, <2>4, <3>1 DEF SetFlightTimer, FlightTimer, ClockShape
  <2>5. CASE FlightTimerDue
    <3>1. arm_shown = 1
      BY <2>1, <2>5 DEF FlightTimerDue, ClockShape, HandInv, TypeOK
    <3>2. QED BY <2>1, <2>5, <3>1 DEF FlightTimerDue, armVars, ClockShape
  <2>6. CASE Tick
    BY <2>1, <2>6 DEF Tick, ClockShape
  <2>7. CASE StartArmTimer \/ PauseArmTimer
    BY <2>1, <2>7 DEF StartArmTimer, PauseArmTimer, ClockShape
  <2>8. CASE ArmTimerDue \/ ClearStatusText
    BY <2>1, <2>8 DEF ArmTimerDue, ClearStatusText, armVars, ClockShape
  <2>9. QED
    BY <2>1, <2>2, <2>3, <2>4, <2>5, <2>6, <2>7, <2>8
    DEF Next, Ui, Callback, EmptyDatagram, ReadGpsData, Enqueue, Dequeue, DrawGps,
        DrawStatusText, DrawOther, DrawArmed, Wait, vars
<1>3. ClockShape => ClockStopsWhenDisarmed
  BY DEF ClockShape, ClockStopsWhenDisarmed
<1>4. QED BY <1>1, <1>2, <1>3, HandHolds, PTL DEF Spec

-----------------------------------------------------------------------------
(***************************************************************************)
(* The armed state after the first n items of a sequence.                  *)
(***************************************************************************)
IsArm(i) == i.id = "E_ARMED"

\* It depends on those items only, on their ids and armed states.
LEMMA HoldsSame ==
  ASSUME NEW x, NEW a, NEW s, NEW t, NEW n \in Nat,
         \A k \in 1..n : s[k].id = t[k].id /\ s[k].arm = t[k].arm
  PROVE  Holds(x, s, n, a) <=> Holds(x, t, n, a)
<1>1. \A i \in 1..n : \A k \in (i + 1)..n : k \in 1..n
  OBVIOUS
<1>2. QED BY <1>1 DEF Holds

\* Items that are no armed state leave it as it is.
LEMMA HoldsQuiet ==
  ASSUME NEW x, NEW a, NEW s, NEW n \in Nat, NEW p \in Nat, n <= p,
         \A k \in (n + 1)..p : ~IsArm(s[k])
  PROVE  Holds(x, s, p, a) <=> Holds(x, s, n, a)
<1>1. \A k \in 1..p : k \in 1..n \/ k \in (n + 1)..p
  OBVIOUS
<1>2. ASSUME Holds(x, s, n, a) PROVE Holds(x, s, p, a)
  <2>1. CASE a = x /\ \A k \in 1..n : ~IsArm(s[k])
    BY <1>1, <2>1 DEF Holds, IsArm
  <2>2. CASE \E i \in 1..n : /\ IsArm(s[i]) /\ s[i].arm = a
                             /\ \A k \in (i + 1)..n : ~IsArm(s[k])
    <3>1. PICK i \in 1..n : /\ IsArm(s[i]) /\ s[i].arm = a
                            /\ \A k \in (i + 1)..n : ~IsArm(s[k])
      BY <2>2
    <3>2. \A k \in (i + 1)..p : k \in (i + 1)..n \/ k \in (n + 1)..p
      OBVIOUS
    <3>3. i \in 1..p
      OBVIOUS
    <3>4. QED BY <3>1, <3>2, <3>3 DEF Holds, IsArm
  <2>3. QED BY <1>2, <2>1, <2>2 DEF Holds, IsArm
<1>3. ASSUME Holds(x, s, p, a) PROVE Holds(x, s, n, a)
  <2>1. CASE a = x /\ \A k \in 1..p : ~IsArm(s[k])
    <3>1. \A k \in 1..n : k \in 1..p
      OBVIOUS
    <3>2. QED BY <2>1, <3>1 DEF Holds, IsArm
  <2>2. CASE \E i \in 1..p : /\ IsArm(s[i]) /\ s[i].arm = a
                             /\ \A k \in (i + 1)..p : ~IsArm(s[k])
    <3>1. PICK i \in 1..p : /\ IsArm(s[i]) /\ s[i].arm = a
                            /\ \A k \in (i + 1)..p : ~IsArm(s[k])
      BY <2>2
    <3>2. i \in 1..n
      BY <1>1, <3>1
    <3>3. \A k \in (i + 1)..n : k \in (i + 1)..p
      OBVIOUS
    <3>4. QED BY <3>1, <3>2, <3>3 DEF Holds, IsArm
  <2>3. QED BY <1>3, <2>1, <2>2 DEF Holds, IsArm
<1>4. QED BY <1>2, <1>3

\* After an armed state it is that one.
LEMMA HoldsArm ==
  ASSUME NEW x, NEW a, NEW s, NEW n \in Nat \ {0}, IsArm(s[n])
  PROVE  Holds(x, s, n, a) <=> a = s[n].arm
<1>1. n \in 1..n /\ (n + 1)..n = {}
  OBVIOUS
<1>2. ASSUME NEW i \in 1..n, \A k \in (i + 1)..n : ~IsArm(s[k])
      PROVE  i = n
  <2>1. n \in (i + 1)..n \/ i = n
    OBVIOUS
  <2>2. QED BY <1>2, <2>1
<1>3. QED BY <1>1, <1>2 DEF Holds, IsArm

\* Without the first item, from the state it left.
LEMMA HoldsTail ==
  ASSUME NEW x, NEW y, NEW a, NEW s, NEW t, NEW n \in Nat,
         \A k \in 1..n : t[k] = s[k + 1],
         IsArm(s[1]) => y = s[1].arm, ~IsArm(s[1]) => y = x
  PROVE  Holds(y, t, n, a) <=> Holds(x, s, n + 1, a)
<1>1. \A k \in 1..(n + 1) : k = 1 \/ k - 1 \in 1..n
  OBVIOUS
<1>2. \A k \in 1..n : k + 1 \in 1..(n + 1) /\ (k + 1) - 1 = k
  OBVIOUS
<1>3. \A k \in 1..(n + 1) : k = 1 \/ s[k] = t[k - 1]
  <2>1. \A k \in 1..(n + 1) : k = 1 \/ (k - 1) + 1 = k
    OBVIOUS
  <2>2. QED BY <1>1, <2>1
<1>4. 1 \in 1..(n + 1)
  OBVIOUS
<1>5. ASSUME Holds(y, t, n, a) PROVE Holds(x, s, n + 1, a)
  <2>1. CASE a = y /\ \A k \in 1..n : ~IsArm(t[k])
    <3>1. \A k \in 1..(n + 1) : k = 1 \/ ~IsArm(s[k])
      BY <1>1, <1>3, <2>1
    <3>2. CASE IsArm(s[1])
      <4>1. \A k \in (1 + 1)..(n + 1) : k \in 1..(n + 1) /\ k # 1
        OBVIOUS
      <4>2. QED BY <1>4, <2>1, <3>1, <3>2, <4>1 DEF Holds, IsArm
    <3>3. CASE ~IsArm(s[1])
      BY <2>1, <3>1, <3>3 DEF Holds, IsArm
    <3>4. QED BY <3>2, <3>3
  <2>2. CASE \E i \in 1..n : /\ IsArm(t[i]) /\ t[i].arm = a
                             /\ \A k \in (i + 1)..n : ~IsArm(t[k])
    <3>1. PICK i \in 1..n : /\ IsArm(t[i]) /\ t[i].arm = a
                            /\ \A k \in (i + 1)..n : ~IsArm(t[k])
      BY <2>2
    <3>2. \A k \in ((i + 1) + 1)..(n + 1) :
            k - 1 \in (i + 1)..n /\ k \in 1..(n + 1) /\ k # 1
      OBVIOUS
    <3>3. \A k \in ((i + 1) + 1)..(n + 1) : ~IsArm(s[k])
      BY <1>3, <3>1, <3>2
    <3>4. IsArm(s[i + 1]) /\ s[i + 1].arm = a /\ i + 1 \in 1..(n + 1)
      BY <1>2, <3>1
    <3>5. QED BY <3>3, <3>4 DEF Holds, IsArm
  <2>3. QED BY <1>5, <2>1, <2>2 DEF Holds, IsArm
<1>6. ASSUME Holds(x, s, n + 1, a) PROVE Holds(y, t, n, a)
  <2>1. CASE a = x /\ \A k \in 1..(n + 1) : ~IsArm(s[k])
    BY <1>2, <1>4, <2>1 DEF Holds, IsArm
  <2>2. CASE \E i \in 1..(n + 1) : /\ IsArm(s[i]) /\ s[i].arm = a
                                   /\ \A k \in (i + 1)..(n + 1) : ~IsArm(s[k])
    <3>1. PICK i \in 1..(n + 1) : /\ IsArm(s[i]) /\ s[i].arm = a
                                  /\ \A k \in (i + 1)..(n + 1) : ~IsArm(s[k])
      BY <2>2
    <3>2. CASE i = 1
      <4>1. \A k \in 1..n : k + 1 \in (i + 1)..(n + 1)
        BY <3>2
      <4>2. \A k \in 1..n : ~IsArm(t[k])
        BY <3>1, <4>1
      <4>3. QED BY <3>1, <3>2, <4>2 DEF Holds, IsArm
    <3>3. CASE i # 1
      <4>1. i - 1 \in 1..n /\ t[i - 1] = s[i]
        BY <1>1, <1>3, <3>3
      <4>2. \A k \in ((i - 1) + 1)..n : k \in 1..n /\ k + 1 \in (i + 1)..(n + 1)
        BY <3>3
      <4>3. \A k \in ((i - 1) + 1)..n : ~IsArm(t[k])
        BY <3>1, <4>2
      <4>4. QED BY <3>1, <4>1, <4>3 DEF Holds, IsArm
    <3>4. QED BY <3>2, <3>3
  <2>3. QED BY <1>6, <2>1, <2>2 DEF Holds, IsArm
<1>7. QED BY <1>5, <1>6

\* It is one state.
LEMMA HoldsOne ==
  ASSUME NEW x, NEW a, NEW b, NEW s, NEW n \in Nat,
         Holds(x, s, n, a), Holds(x, s, n, b)
  PROVE  a = b
<1>1. \A i \in 1..n, j \in 1..n : i = j \/ i \in (j + 1)..n \/ j \in (i + 1)..n
  OBVIOUS
<1>2. QED BY <1>1 DEF Holds

\* Same items but for what is not in their ids and armed states.
LEMMA AlternatesSame ==
  ASSUME NEW x, NEW a, NEW s \in Seq(Items), NEW t \in Seq(Items),
         Len(t) = Len(s),
         \A k \in 1..Len(s) : t[k].id = s[k].id /\ t[k].arm = s[k].arm,
         Alternates(x, s, a)
  PROVE  Alternates(x, t, a)
<1>1. /\ Len(s) \in Nat /\ DOMAIN s = 1..Len(s) /\ DOMAIN t = 1..Len(s)
  BY LenProperties
<1>2. ASSUME NEW n \in 0..Len(s), NEW b
      PROVE  Holds(x, s, n, b) <=> Holds(x, t, n, b)
  <2>1. n \in Nat /\ \A k \in 1..n : k \in 1..Len(s)
    BY <1>1
  <2>2. QED BY <2>1, HoldsSame
<1>3. Len(s) \in 0..Len(s) /\ \A n \in 1..Len(s) : n - 1 \in 0..Len(s)
  BY <1>1
<1>4. QED BY <1>1, <1>2, <1>3 DEF Alternates

\* More items, none of them an armed state.
LEMMA AlternatesQuiet ==
  ASSUME NEW x, NEW a, NEW s \in Seq(Items), NEW t \in Seq(Items),
         Len(s) <= Len(t), \A k \in 1..Len(s) : t[k] = s[k],
         \A k \in (Len(s) + 1)..Len(t) : ~IsArm(t[k]),
         Alternates(x, s, a)
  PROVE  Alternates(x, t, a)
<1>1. /\ Len(s) \in Nat /\ Len(t) \in Nat
      /\ DOMAIN s = 1..Len(s) /\ DOMAIN t = 1..Len(t)
  BY LenProperties
<1>2. ASSUME NEW n \in 0..Len(s), NEW b
      PROVE  Holds(x, s, n, b) <=> Holds(x, t, n, b)
  <2>1. n \in Nat /\ \A k \in 1..n : k \in 1..Len(s)
    BY <1>1
  <2>2. QED BY <2>1, HoldsSame
<1>3. Holds(x, t, Len(t), a)
  <2>1. Holds(x, t, Len(s), a)
    BY <1>1, <1>2 DEF Alternates
  <2>2. QED BY <1>1, <2>1, HoldsQuiet
<1>4. ASSUME NEW n \in 1..Len(t), t[n].id = "E_ARMED"
      PROVE  ~Holds(x, t, n - 1, t[n].arm)
  <2>1. n \in 1..Len(s)
    BY <1>1, <1>4 DEF IsArm
  <2>2. t[n] = s[n] /\ n - 1 \in 0..Len(s)
    BY <1>1, <2>1
  <2>3. ~Holds(x, s, n - 1, s[n].arm)
    BY <1>1, <1>4, <2>1, <2>2 DEF Alternates
  <2>4. QED BY <1>2, <2>2, <2>3
<1>5. QED BY <1>1, <1>3, <1>4 DEF Alternates

\* One more armed state, another one.
LEMMA AlternatesChange ==
  ASSUME NEW x, NEW a, NEW s \in Seq(Items), NEW t \in Seq(Items),
         Len(t) = Len(s) + 1, \A k \in 1..Len(s) : t[k] = s[k],
         IsArm(t[Len(t)]), t[Len(t)].arm # a,
         Alternates(x, s, a)
  PROVE  Alternates(x, t, t[Len(t)].arm)
<1>1. /\ Len(s) \in Nat /\ Len(t) \in Nat \ {0}
      /\ DOMAIN s = 1..Len(s) /\ DOMAIN t = 1..Len(t)
  BY LenProperties
<1>2. ASSUME NEW n \in 0..Len(s), NEW b
      PROVE  Holds(x, s, n, b) <=> Holds(x, t, n, b)
  <2>1. n \in Nat /\ \A k \in 1..n : k \in 1..Len(s)
    BY <1>1
  <2>2. QED BY <2>1, HoldsSame
<1>3. Holds(x, t, Len(t), t[Len(t)].arm)
  BY <1>1, HoldsArm
<1>4. Holds(x, s, Len(s), a)
  BY DEF Alternates
<1>5. ASSUME NEW n \in 1..Len(t), t[n].id = "E_ARMED"
      PROVE  ~Holds(x, t, n - 1, t[n].arm)
  <2>1. CASE n \in 1..Len(s)
    <3>1. t[n] = s[n] /\ n - 1 \in 0..Len(s)
      BY <1>1, <2>1
    <3>2. ~Holds(x, s, n - 1, s[n].arm)
      BY <1>1, <1>5, <2>1, <3>1 DEF Alternates
    <3>3. QED BY <1>2, <3>1, <3>2
  <2>2. CASE n = Len(t)
    <3>1. n - 1 = Len(s) /\ Len(s) \in 0..Len(s)
      BY <1>1, <2>2
    <3>2. ~Holds(x, s, Len(s), t[n].arm)
      BY <1>1, <1>4, <2>2, HoldsOne
    <3>3. QED BY <1>2, <3>1, <3>2
  <2>3. QED BY <1>1, <2>1, <2>2
<1>6. QED BY <1>1, <1>3, <1>5 DEF Alternates

\* Without the first item, from the state it left; the first one was a change.
LEMMA AlternatesTail ==
  ASSUME NEW x, NEW a, NEW s \in Seq(Items), s # <<>>, Alternates(x, s, a)
  PROVE  /\ IsArm(s[1]) => s[1].arm # x
         /\ Alternates(IF IsArm(s[1]) THEN s[1].arm ELSE x, Tail(s), a)
<1>1. PICK y, t : y = (IF IsArm(s[1]) THEN s[1].arm ELSE x) /\ t = Tail(s)
  OBVIOUS
<1>2. /\ Len(s) \in Nat \ {0} /\ DOMAIN s = 1..Len(s)
      /\ t \in Seq(Items) /\ Len(t) = Len(s) - 1 /\ DOMAIN t = 1..(Len(s) - 1)
      /\ \A k \in 1..(Len(s) - 1) : t[k] = s[k + 1]
  BY <1>1, HeadTailProperties, LenProperties
<1>3. ASSUME NEW n \in 0..(Len(s) - 1), NEW b
      PROVE  Holds(y, t, n, b) <=> Holds(x, s, n + 1, b)
  <2>1. n \in Nat /\ \A k \in 1..n : k \in 1..(Len(s) - 1)
    BY <1>2
  <2>2. \A k \in 1..n : t[k] = s[k + 1]
    BY <1>2, <2>1
  <2>3. (IsArm(s[1]) => y = s[1].arm) /\ (~IsArm(s[1]) => y = x)
    BY <1>1
  <2>4. QED BY <2>1, <2>2, <2>3, HoldsTail
<1>4. Holds(y, t, Len(t), a)
  <2>1. (Len(s) - 1) + 1 = Len(s) /\ Len(s) - 1 \in 0..(Len(s) - 1)
    BY <1>2
  <2>2. QED BY <1>2, <1>3, <2>1 DEF Alternates
<1>5. ASSUME NEW n \in 1..(Len(s) - 1), t[n].id = "E_ARMED"
      PROVE  ~Holds(y, t, n - 1, t[n].arm)
  <2>1. /\ n + 1 \in 1..Len(s) /\ n - 1 \in 0..(Len(s) - 1)
        /\ (n + 1) - 1 = (n - 1) + 1 /\ t[n] = s[n + 1]
    BY <1>2
  <2>2. ~Holds(x, s, (n + 1) - 1, s[n + 1].arm)
    BY <1>2, <1>5, <2>1 DEF Alternates
  <2>3. QED BY <1>3, <2>1, <2>2
<1>6. IsArm(s[1]) => s[1].arm # x
  <2>1. SUFFICES ASSUME IsArm(s[1]) PROVE s[1].arm # x
    OBVIOUS
  <2>2. 1 \in DOMAIN s /\ 1 - 1 = 0 /\ 1..0 = {}
    BY <1>2
  <2>3. ~Holds(x, s, 0, s[1].arm)
    BY <2>1, <2>2 DEF Alternates, IsArm
  <2>4. QED BY <2>2, <2>3 DEF Holds
<1>7. QED BY <1>1, <1>2, <1>4, <1>5, <1>6 DEF Alternates

-----------------------------------------------------------------------------
\* What the steps do to the items on their way.
LEMMA WayIs ==
  ASSUME TypeOK
  PROVE  /\ OnItsWay \in Seq(Items) /\ Len(OnItsWay) = Len(queue) + Len(todo)
         /\ Len(queue) \in Nat /\ Len(todo) \in Nat
         /\ \A k \in 1..Len(queue) : OnItsWay[k] = queue[k]
         /\ \A k \in 1..Len(todo) : OnItsWay[Len(queue) + k] = todo[k]
<1>1. queue \in Seq(Items) /\ todo \in Seq(Items)
  BY DEF TypeOK
<1>2. Len(queue) \in Nat /\ Len(todo) \in Nat
  BY <1>1, LenProperties
<1>3. OnItsWay = queue \o todo
  BY DEF OnItsWay
<1>4. QED
  BY <1>1, <1>2, <1>3, ConcatProperties

\* Enqueuing an item does not move it.
LEMMA WayEnqueue ==
  ASSUME TypeOK, Enqueue
  PROVE  OnItsWay' = OnItsWay
<1>1. /\ queue \in Seq(Items) /\ todo \in Seq(Items) /\ todo # <<>>
      /\ queue' = Append(queue, Head(todo)) /\ todo' = Tail(todo)
  BY DEF TypeOK, Enqueue
<1>2. PICK h \in Items, t \in Seq(Items) : h = Head(todo) /\ t = Tail(todo)
  BY <1>1, HeadTailProperties
<1>3. /\ Len(queue) \in Nat /\ Len(todo) \in Nat \ {0} /\ Len(t) = Len(todo) - 1
      /\ \A k \in 1..(Len(todo) - 1) : t[k] = todo[k + 1]
      /\ h = todo[1]
  BY <1>1, <1>2, HeadTailProperties, LenProperties
<1>4. PICK q \in Seq(Items) : q = Append(queue, h)
  BY <1>1, <1>2, AppendProperties
<1>5. /\ Len(q) = Len(queue) + 1 /\ q[Len(queue) + 1] = h
      /\ \A k \in 1..Len(queue) : q[k] = queue[k]
  BY <1>1, <1>2, <1>3, <1>4, AppendProperties
<1>6. PICK u \in Seq(Items), v \in Seq(Items) : u = queue \o todo /\ v = q \o t
  BY <1>1, ConcatProperties
<1>7. /\ Len(u) = Len(queue) + Len(todo) /\ Len(v) = Len(queue) + Len(todo)
  <2>1. Len(u) = Len(queue) + Len(todo) /\ Len(v) = Len(q) + Len(t)
    BY <1>1, <1>6, ConcatProperties
  <2>2. QED BY <1>3, <1>5, <2>1
<1>8. ASSUME NEW k \in 1..Len(u) PROVE u[k] = v[k]
  <2>1. u[k] = IF k <= Len(queue) THEN queue[k] ELSE todo[k - Len(queue)]
    BY <1>1, <1>3, <1>6, <1>7, <1>8
  <2>2. v[k] = IF k <= Len(q) THEN q[k] ELSE t[k - Len(q)]
    BY <1>3, <1>5, <1>6, <1>7, <1>8
  <2>3. CASE k <= Len(queue)
    BY <1>3, <1>5, <2>1, <2>2, <2>3
  <2>4. CASE k = Len(queue) + 1
    BY <1>3, <1>5, <2>1, <2>2, <2>4
  <2>5. CASE k > Len(queue) + 1
    <3>1. /\ k - Len(q) \in 1..(Len(todo) - 1)
          /\ (k - Len(q)) + 1 = k - Len(queue)
      BY <1>3, <1>5, <1>7, <2>5
    <3>2. t[k - Len(q)] = todo[k - Len(queue)]
      BY <1>3, <3>1
    <3>3. ~(k <= Len(queue)) /\ ~(k <= Len(q))
      BY <1>3, <1>5, <1>7, <2>5
    <3>4. QED BY <2>1, <2>2, <3>2, <3>3
  <2>6. QED BY <1>3, <1>7, <2>3, <2>4, <2>5
<1>9. u = v
  BY <1>7, <1>8, SeqEqual
<1>10. QED BY <1>1, <1>2, <1>4, <1>6, <1>9 DEF OnItsWay

\* Dequeuing takes the first one.
LEMMA WayDequeue ==
  ASSUME TypeOK, Dequeue
  PROVE  /\ OnItsWay # <<>> /\ OnItsWay' = Tail(OnItsWay)
         /\ item' = OnItsWay[1]
<1>1. /\ queue \in Seq(Items) /\ todo \in Seq(Items) /\ queue # <<>>
      /\ queue' = Tail(queue) /\ item' = Head(queue) /\ todo' = todo
  BY DEF TypeOK, Dequeue
<1>2. PICK q \in Seq(Items), u \in Seq(Items) : q = Tail(queue) /\ u = queue \o todo
  BY <1>1, HeadTailProperties, ConcatProperties
<1>3. /\ Len(queue) \in Nat \ {0} /\ Len(todo) \in Nat /\ Len(q) = Len(queue) - 1
      /\ \A k \in 1..(Len(queue) - 1) : q[k] = queue[k + 1]
      /\ Head(queue) = queue[1]
  BY <1>1, <1>2, HeadTailProperties, LenProperties
<1>4. /\ Len(u) = Len(queue) + Len(todo)
      /\ \A k \in 1..Len(u) :
           u[k] = IF k <= Len(queue) THEN queue[k] ELSE todo[k - Len(queue)]
  BY <1>1, <1>2, <1>3
<1>5. u # <<>> /\ u[1] = item'
  BY <1>1, <1>3, <1>4
<1>6. PICK v \in Seq(Items), w \in Seq(Items) : v = q \o todo /\ w = Tail(u)
  BY <1>1, <1>2, <1>5, HeadTailProperties, ConcatProperties
<1>7. /\ Len(v) = Len(queue) + Len(todo) - 1 /\ Len(w) = Len(v)
      /\ \A k \in 1..Len(w) : w[k] = u[k + 1]
      /\ \A k \in 1..Len(v) : v[k] = IF k <= Len(q) THEN q[k] ELSE todo[k - Len(q)]
  BY <1>1, <1>2, <1>3, <1>4, <1>5, <1>6, HeadTailProperties
<1>8. ASSUME NEW k \in 1..Len(v) PROVE v[k] = w[k]
  <2>1. k + 1 \in 1..Len(u) /\ (k + 1) - Len(queue) = k - Len(q)
    BY <1>3, <1>4, <1>7
  <2>2. CASE k <= Len(q)
    BY <1>3, <1>4, <1>7, <2>1, <2>2
  <2>3. CASE k > Len(q)
    <3>1. ~(k <= Len(q)) /\ ~(k + 1 <= Len(queue)) /\ k \in 1..Len(w)
      BY <1>3, <1>7, <2>3
    <3>2. v[k] = todo[k - Len(q)]
      BY <1>7, <3>1
    <3>3. w[k] = todo[(k + 1) - Len(queue)]
      BY <1>4, <1>7, <2>1, <3>1
    <3>4. QED BY <2>1, <3>2, <3>3
  <2>4. QED BY <1>3, <1>7, <2>2, <2>3
<1>9. v = w
  BY <1>7, <1>8, SeqEqual
<1>10. QED BY <1>1, <1>2, <1>5, <1>6, <1>9 DEF OnItsWay

\* What a message's handler queues comes after what is on its way.
LEMMA WayHandle ==
  ASSUME TypeOK, NEW items \in Seq(Items), Handle(items)
  PROVE  /\ OnItsWay \in Seq(Items) /\ OnItsWay' \in Seq(Items)
         /\ Len(OnItsWay) \in Nat /\ Len(items) \in Nat
         /\ Len(OnItsWay') = Len(OnItsWay) + Len(items)
         /\ \A k \in 1..Len(OnItsWay) : OnItsWay'[k] = OnItsWay[k]
         /\ \A k \in 1..Len(items) : OnItsWay'[Len(OnItsWay) + k] = items[k]
<1>1. /\ queue \in Seq(Items) /\ todo = <<>> /\ todo' = items /\ queue' = queue
  BY DEF Handle, TypeOK
<1>2. OnItsWay = queue
  BY <1>1 DEF OnItsWay
<1>3. PICK t \in Seq(Items) : t = queue \o items
  BY <1>1, ConcatProperties
<1>4. OnItsWay' = t
  BY <1>1, <1>3 DEF OnItsWay
<1>5. /\ Len(queue) \in Nat /\ Len(items) \in Nat
      /\ Len(t) = Len(queue) + Len(items)
      /\ \A k \in 1..Len(queue) : t[k] = queue[k]
      /\ \A k \in 1..Len(items) : t[Len(queue) + k] = items[k]
  BY <1>1, <1>3
<1>6. QED BY <1>1, <1>2, <1>4, <1>5

\* calculateDistance changes neither ids nor armed states nor positions.
LEMMA WayRead ==
  ASSUME HandInv, ReadGpsData
  PROVE  \E s \in Seq(Items), t \in Seq(Items) :
           /\ s = OnItsWay /\ t = OnItsWay' /\ Len(t) = Len(s)
           /\ \A k \in 1..Len(s) : /\ t[k].id = s[k].id /\ t[k].arm = s[k].arm
                                   /\ t[k].at = s[k].at
<1>1. queue' = queue /\ queue \in Seq(Items) /\ todo \in Seq(Items)
  BY DEF ReadGpsData, HandInv, TypeOK
<1>2. PICK u \in Seq(Items) :
        /\ u = todo' /\ Len(u) = Len(todo)
        /\ \A i \in 1..Len(todo) : /\ u[i].id = todo[i].id
                                   /\ u[i].arm = todo[i].arm
                                   /\ u[i].at = todo[i].at
  BY ReadIs
<1>3. PICK s \in Seq(Items), t \in Seq(Items) : s = queue \o todo /\ t = queue \o u
  BY <1>1, ConcatProperties
<1>4. s = OnItsWay /\ t = OnItsWay'
  BY <1>1, <1>2, <1>3 DEF OnItsWay
<1>5. Len(queue) \in Nat /\ Len(todo) \in Nat
  BY <1>1, LenProperties
<1>6. /\ Len(s) = Len(queue) + Len(todo)
      /\ \A k \in 1..Len(s) :
           s[k] = IF k <= Len(queue) THEN queue[k] ELSE todo[k - Len(queue)]
  BY <1>1, <1>3, <1>5
<1>7. /\ Len(t) = Len(queue) + Len(u)
      /\ \A k \in 1..Len(t) :
           t[k] = IF k <= Len(queue) THEN queue[k] ELSE u[k - Len(queue)]
  BY <1>1, <1>3, <1>5
<1>8. ASSUME NEW k \in 1..Len(s)
      PROVE  t[k].id = s[k].id /\ t[k].arm = s[k].arm /\ t[k].at = s[k].at
  <2>1. k \in 1..Len(t)
    BY <1>2, <1>6, <1>7
  <2>2. CASE k <= Len(queue)
    BY <1>6, <1>7, <1>8, <2>1, <2>2
  <2>3. CASE ~(k <= Len(queue))
    <3>1. k - Len(queue) \in 1..Len(todo)
      BY <1>5, <1>6, <2>3
    <3>2. t[k] = u[k - Len(queue)] /\ s[k] = todo[k - Len(queue)]
      BY <1>6, <1>7, <2>1, <2>3
    <3>3. QED BY <1>2, <3>1, <3>2
  <2>4. QED BY <2>2, <2>3
<1>9. QED BY <1>2, <1>4, <1>6, <1>7, <1>8

\* Items without an armed state change nothing.
LEMMA HandleQuiet ==
  ASSUME HandInv, ArmedInStep, NEW items \in Seq(Items), Handle(items),
         \A k \in 1..Len(items) : ~IsArm(items[k]), g_armed' = g_armed
  PROVE  ArmedInStep'
<1>1. /\ item' = item /\ arm_shown' = arm_shown /\ InHand' = InHand
  BY DEF Handle, armVars, InHand
<1>2. /\ OnItsWay \in Seq(Items) /\ OnItsWay' \in Seq(Items)
      /\ Len(OnItsWay) \in Nat /\ Len(items) \in Nat
      /\ Len(OnItsWay') = Len(OnItsWay) + Len(items)
      /\ \A k \in 1..Len(OnItsWay) : OnItsWay'[k] = OnItsWay[k]
      /\ \A k \in 1..Len(items) : OnItsWay'[Len(OnItsWay) + k] = items[k]
  BY WayHandle DEF HandInv
<1>3. ASSUME NEW k \in (Len(OnItsWay) + 1)..Len(OnItsWay')
      PROVE  ~IsArm(OnItsWay'[k])
  <2>1. PICK j \in 1..Len(items) : Len(OnItsWay) + j = k
    <3>1. k - Len(OnItsWay) \in 1..Len(items) /\ Len(OnItsWay) + (k - Len(OnItsWay)) = k
      BY <1>2
    <3>2. QED BY <3>1
  <2>2. OnItsWay'[k] = items[j]
    BY <1>2, <2>1
  <2>3. QED BY <2>2
<1>4. Alternates(InHand, OnItsWay', g_armed)
  <2>1. Len(OnItsWay) <= Len(OnItsWay')
    BY <1>2
  <2>2. QED BY <1>2, <1>3, <2>1, AlternatesQuiet DEF ArmedInStep
<1>5. QED BY <1>1, <1>4 DEF ArmedInStep

\* A heartbeat with another armed state queues that first.
LEMMA HeartbeatChange ==
  ASSUME HandInv, ArmedInStep, NEW m \in Messages, m.arm \in {0, 1},
         g_armed # m.arm, Heartbeat(m)
  PROVE  ArmedInStep'
<1>1. TypeOK
  BY DEF HandInv
<1>2. PICK e \in Items, f \in Items : e = Armed(m.arm) /\ f = It("E_FLY_MODE")
  BY <1>1, ItemsAre, IdsAre
<1>3. IsArm(e) /\ e.arm = m.arm /\ ~IsArm(f)
  BY <1>2 DEF IsArm, Armed, It, Item
<1>4. PICK items \in Seq(Items) : items = <<e, f>>
  <2>1. <<e, f>> \in Seq(Items)
    OBVIOUS
  <2>2. QED BY <2>1
<1>5. Handle(items) /\ g_armed' = m.arm
  <2>1. ArmItems(m.arm) = <<e>>
    BY <1>2 DEF ArmItems
  <2>2. PICK one \in Seq(Items) : one = <<e>>
    <3>1. <<e>> \in Seq(Items)
      OBVIOUS
    <3>2. QED BY <3>1
  <2>3. Len(one) = 1 /\ one[1] = e
    BY <2>2
  <2>4. PICK two \in Seq(Items) : two = Append(one, f)
    BY AppendProperties
  <2>5. Len(two) = 2 /\ two[1] = e /\ two[2] = f
    <3>1. /\ Len(two) = Len(one) + 1 /\ two[Len(one) + 1] = f
          /\ \A k \in 1..Len(one) : two[k] = one[k]
      BY <2>4, AppendProperties
    <3>2. 1 \in 1..1 /\ 1 + 1 = 2
      OBVIOUS
    <3>3. QED BY <2>3, <3>1, <3>2
  <2>6. Len(items) = 2 /\ items[1] = e /\ items[2] = f
    BY <1>4
  <2>7. \A k \in 1..2 : two[k] = items[k]
    <3>1. \A k \in 1..2 : k = 1 \/ k = 2
      OBVIOUS
    <3>2. QED BY <2>5, <2>6, <3>1
  <2>8. two = items
    BY <2>5, <2>6, <2>7, SeqEqual
  <2>9. QED BY <1>2, <2>1, <2>2, <2>4, <2>8 DEF Heartbeat
<1>6. Len(items) = 2 /\ items[1] = e /\ items[2] = f
  BY <1>4
<1>7. PICK s \in Seq(Items), u \in Seq(Items), L \in Nat :
        /\ s = OnItsWay /\ u = OnItsWay' /\ L = Len(s) /\ Len(u) = L + 2
        /\ \A k \in 1..L : u[k] = s[k]
        /\ u[L + 1] = e /\ u[L + 2] = f
  <2>1. /\ OnItsWay \in Seq(Items) /\ OnItsWay' \in Seq(Items)
        /\ Len(OnItsWay) \in Nat
        /\ Len(OnItsWay') = Len(OnItsWay) + Len(items)
        /\ \A k \in 1..Len(OnItsWay) : OnItsWay'[k] = OnItsWay[k]
        /\ \A k \in 1..Len(items) : OnItsWay'[Len(OnItsWay) + k] = items[k]
    BY <1>1, <1>5, WayHandle
  <2>2. PICK s \in Seq(Items), u \in Seq(Items), L \in Nat :
          s = OnItsWay /\ u = OnItsWay' /\ L = Len(s)
    BY <2>1
  <2>3. Len(u) = L + 2 /\ \A k \in 1..L : u[k] = s[k]
    BY <1>6, <2>1, <2>2
  <2>4. u[L + 1] = e /\ u[L + 2] = f
    <3>1. 1 \in 1..Len(items) /\ 2 \in 1..Len(items)
      BY <1>6
    <3>2. QED BY <1>6, <2>1, <2>2, <3>1
  <2>5. QED BY <2>2, <2>3, <2>4
<1>8. PICK t \in Seq(Items) :
        /\ Len(t) = L + 1 /\ t[L + 1] = e /\ \A k \in 1..L : t[k] = s[k]
  <2>1. Append(s, e) \in Seq(Items)
    OBVIOUS
  <2>2. /\ Len(Append(s, e)) = L + 1 /\ Append(s, e)[L + 1] = e
        /\ \A k \in 1..L : Append(s, e)[k] = s[k]
    BY <1>7
  <2>3. QED BY <2>1, <2>2
<1>9. Alternates(InHand, s, g_armed)
  BY <1>7 DEF ArmedInStep
<1>10. Alternates(InHand, t, m.arm)
  <2>1. t[Len(t)] = e /\ Len(t) = Len(s) + 1
    BY <1>7, <1>8
  <2>2. \A k \in 1..Len(s) : t[k] = s[k]
    BY <1>7, <1>8
  <2>3. Alternates(InHand, t, t[Len(t)].arm)
    BY <1>3, <1>9, <2>1, <2>2, AlternatesChange
  <2>4. QED BY <1>3, <2>1, <2>3
<1>11. Alternates(InHand, u, m.arm)
  <2>1. Len(t) <= Len(u) /\ \A k \in 1..Len(t) : u[k] = t[k]
    BY <1>7, <1>8
  <2>2. \A k \in (Len(t) + 1)..Len(u) : ~IsArm(u[k])
    BY <1>3, <1>7, <1>8
  <2>3. QED BY <1>10, <2>1, <2>2, AlternatesQuiet
<1>12. /\ item' = item /\ arm_shown' = arm_shown /\ InHand' = InHand
  BY <1>5 DEF Handle, armVars, InHand
<1>13. QED BY <1>5, <1>7, <1>11, <1>12 DEF ArmedInStep

LEMMA ReceiveArmed ==
  ASSUME HandInv, ArmedInStep, NEW m \in Messages,
         \/ Heartbeat(m) \/ StatusText(m) \/ HomePosition(m)
         \/ GpsRawInt(m) \/ GlobalPositionInt(m) \/ Plain(m)
  PROVE  ArmedInStep'
<1>1. TypeOK /\ MessageAssumption
  BY DEF HandInv
<1>2. \A id \in Ids \ {"E_ARMED"} : ~IsArm(It(id)) /\ It(id) \in Items
  BY <1>1, ItemsAre DEF IsArm, It, Item
<1>3. \A pos \in Positions : /\ ~IsArm(Coordinates(pos)) /\ Coordinates(pos) \in Items
                             /\ \A from \in Places : /\ ~IsArm(Distance(from, pos))
                                                     /\ Distance(from, pos) \in Items
  BY <1>1, ItemsAre DEF IsArm, Coordinates, Distance, Item
<1>4. /\ {"E_FLY_MODE", "E_STATUS_TEXT", "E_SATS", "E_HDG", "E_GSPEED"}
           \subseteq Ids \ {"E_ARMED"}
      /\ PlainIds \subseteq Ids \ {"E_ARMED"}
  BY DEF Ids, GpsLabels, PlainIds
<1>5. CASE Heartbeat(m)
  <2>1. m.arm \in {0, 1}
    BY <1>1, <1>5 DEF Heartbeat, MessageAssumption
  <2>2. CASE g_armed = m.arm
    <3>1. PICK f \in Items : f = It("E_FLY_MODE") /\ ~IsArm(f)
      BY <1>2, <1>4
    <3>2. PICK items \in Seq(Items) : items = <<f>>
      <4>1. <<f>> \in Seq(Items)
        OBVIOUS
      <4>2. QED BY <4>1
    <3>3. Append(ArmItems(m.arm), It("E_FLY_MODE")) = items
      BY <2>2, <3>1, <3>2 DEF ArmItems
    <3>4. Handle(items) /\ g_armed' = g_armed
      BY <1>5, <2>2, <3>3 DEF Heartbeat
    <3>5. \A k \in 1..Len(items) : ~IsArm(items[k])
      BY <3>1, <3>2
    <3>6. QED BY <3>4, <3>5, HandleQuiet
  <2>3. QED BY <1>5, <2>1, <2>2, HeartbeatChange
<1>6. CASE StatusText(m)
  <2>1. PICK f \in Items : f = It("E_STATUS_TEXT") /\ ~IsArm(f)
    BY <1>2, <1>4
  <2>2. PICK items \in Seq(Items) : items = <<f>>
    <3>1. <<f>> \in Seq(Items)
      OBVIOUS
    <3>2. QED BY <3>1
  <2>3. Handle(items) /\ g_armed' = g_armed
    BY <1>6, <2>1, <2>2 DEF StatusText
  <2>4. \A k \in 1..Len(items) : ~IsArm(items[k])
    BY <2>1, <2>2
  <2>5. QED BY <2>3, <2>4, HandleQuiet
<1>7. CASE HomePosition(m)
  <2>1. PICK items \in Seq(Items) : items = <<>>
    <3>1. <<>> \in Seq(Items)
      OBVIOUS
    <3>2. QED BY <3>1
  <2>2. Handle(items) /\ g_armed' = g_armed
    BY <1>7, <2>1 DEF HomePosition
  <2>3. \A k \in 1..Len(items) : ~IsArm(items[k])
    BY <2>1
  <2>4. QED BY <2>2, <2>3, HandleQuiet
<1>8. CASE GpsRawInt(m)
  <2>1. m.pos \in Positions
    BY <1>1, <1>8 DEF GpsRawInt, MessageAssumption
  <2>2. PICK from \in Places : from = IF s_set_home THEN s_home ELSE Zero
    BY <1>1, IdsAre DEF TypeOK
  <2>3. PICK f \in Items, c \in Items, d \in Items :
          /\ f = It("E_SATS") /\ c = Coordinates(m.pos) /\ d = Distance(from, m.pos)
          /\ ~IsArm(f) /\ ~IsArm(c) /\ ~IsArm(d)
    BY <1>2, <1>3, <1>4, <2>1
  <2>4. PICK items \in Seq(Items) : items = <<f, c, d>>
    <3>1. <<f, c, d>> \in Seq(Items)
      OBVIOUS
    <3>2. QED BY <3>1
  <2>5. Handle(items) /\ g_armed' = g_armed
    BY <1>8, <2>2, <2>3, <2>4 DEF GpsRawInt
  <2>6. \A k \in 1..Len(items) : ~IsArm(items[k])
    BY <2>3, <2>4
  <2>7. QED BY <2>5, <2>6, HandleQuiet
<1>9. CASE GlobalPositionInt(m)
  <2>1. m.pos \in Positions /\ Unread \in Places
    BY <1>1, <1>9, IdsAre DEF GlobalPositionInt, MessageAssumption
  <2>2. PICK f \in Items, c \in Items, g \in Items, d \in Items :
          /\ f = It("E_HDG") /\ c = Coordinates(m.pos) /\ g = It("E_GSPEED")
          /\ d = Distance(Unread, m.pos)
          /\ ~IsArm(f) /\ ~IsArm(c) /\ ~IsArm(g) /\ ~IsArm(d)
    BY <1>2, <1>3, <1>4, <2>1
  <2>3. PICK items \in Seq(Items) : items = <<f, c, g, d>>
    <3>1. <<f, c, g, d>> \in Seq(Items)
      OBVIOUS
    <3>2. QED BY <3>1
  <2>4. Handle(items) /\ g_armed' = g_armed
    BY <1>9, <2>2, <2>3 DEF GlobalPositionInt, GlobalItems
  <2>5. \A k \in 1..Len(items) : ~IsArm(items[k])
    BY <2>2, <2>3
  <2>6. QED BY <2>4, <2>5, HandleQuiet
<1>10. CASE Plain(m)
  <2>1. m.ids \in Seq(PlainIds)
    BY <1>1, <1>10 DEF Plain, MessageAssumption
  <2>2. DOMAIN m.ids = 1..Len(m.ids) /\ Len(m.ids) \in Nat
    BY <2>1, LenProperties
  <2>3. PICK items : items = [i \in DOMAIN m.ids |-> It(m.ids[i])]
    OBVIOUS
  <2>4. \A i \in 1..Len(m.ids) : It(m.ids[i]) \in Items /\ ~IsArm(It(m.ids[i]))
    BY <1>2, <1>4, <2>1, ElementOfSeq
  <2>5. items \in Seq(Items) /\ DOMAIN items = 1..Len(m.ids)
    <3>1. items \in [1..Len(m.ids) -> Items]
      BY <2>2, <2>3, <2>4
    <3>2. QED BY <2>2, <3>1, SeqDef
  <2>6. \A k \in 1..Len(items) : ~IsArm(items[k])
    <3>1. Len(items) = Len(m.ids)
      BY <2>2, <2>5, LenProperties
    <3>2. QED BY <2>2, <2>3, <2>4, <3>1
  <2>7. Handle(items) /\ g_armed' = g_armed
    BY <1>10, <2>3 DEF Plain
  <2>8. QED BY <2>5, <2>6, <2>7, HandleQuiet
<1>11. QED BY <1>5, <1>6, <1>7, <1>8, <1>9, <1>10

LEMMA OtherArmed ==
  ASSUME HandInv, ArmedInStep,
         \/ EmptyDatagram \/ ReadGpsData \/ Enqueue \/ Ui
         \/ ArmTimerDue \/ FlightTimerDue \/ Callback \/ UNCHANGED vars
  PROVE  ArmedInStep'
<1>1. TypeOK /\ HandShape /\ OnItsWay \in Seq(Items)
  BY WayIs DEF HandInv
<1>2. NoItem.id = "E_NONE"
  BY DEF NoItem, Item
<1>3. ASSUME UNCHANGED <<queue, todo, g_armed, arm_shown>>,
             item' = item \/ (item.id # "E_ARMED" /\ item' = NoItem)
      PROVE  ArmedInStep'
  <2>1. OnItsWay' = OnItsWay /\ InHand' = InHand
    BY <1>2, <1>3 DEF OnItsWay, InHand
  <2>2. QED BY <1>2, <1>3, <2>1 DEF ArmedInStep
<1>4. CASE EmptyDatagram \/ UNCHANGED vars
  BY <1>3, <1>4 DEF EmptyDatagram, vars, handlerVars, armVars
<1>5. CASE ReadGpsData
  <2>1. PICK s \in Seq(Items), t \in Seq(Items) :
          /\ s = OnItsWay /\ t = OnItsWay' /\ Len(t) = Len(s)
          /\ \A k \in 1..Len(s) : t[k].id = s[k].id /\ t[k].arm = s[k].arm
    BY <1>5, WayRead
  <2>2. /\ item' = item /\ g_armed' = g_armed /\ InHand' = InHand
        /\ arm_shown' = arm_shown
    BY <1>5 DEF ReadGpsData, handlerVars, armVars, InHand
  <2>3. Alternates(InHand, t, g_armed)
    BY <2>1, AlternatesSame DEF ArmedInStep
  <2>4. QED BY <2>1, <2>2, <2>3 DEF ArmedInStep
<1>6. CASE Enqueue
  <2>1. /\ OnItsWay' = OnItsWay /\ InHand' = InHand
        /\ UNCHANGED <<item, g_armed, arm_shown>>
    BY <1>1, <1>6, WayEnqueue DEF Enqueue, handlerVars, armVars, InHand
  <2>2. QED BY <2>1 DEF ArmedInStep
<1>7. CASE Dequeue
  <2>1. /\ OnItsWay # <<>> /\ OnItsWay' = Tail(OnItsWay) /\ item' = OnItsWay[1]
    BY <1>1, <1>7, WayDequeue
  <2>2. InHand = arm_shown /\ UNCHANGED <<g_armed, arm_shown>>
    BY <1>1, <1>2, <1>7 DEF Dequeue, HandShape, InHand, handlerVars, armVars
  <2>3. PICK s \in Seq(Items) : s = OnItsWay
    BY <1>1
  <2>4. /\ IsArm(s[1]) => s[1].arm # arm_shown
        /\ Alternates(IF IsArm(s[1]) THEN s[1].arm ELSE arm_shown, Tail(s), g_armed)
    BY <2>1, <2>2, <2>3, AlternatesTail DEF ArmedInStep
  <2>5. InHand' = IF IsArm(s[1]) THEN s[1].arm ELSE arm_shown
    BY <2>1, <2>2, <2>3 DEF InHand, IsArm
  <2>6. QED BY <2>1, <2>2, <2>3, <2>4, <2>5 DEF ArmedInStep, IsArm
<1>8. CASE DrawGps \/ DrawStatusText \/ DrawOther
  <2>1. item.id # "E_ARMED"
    BY <1>8 DEF DrawGps, DrawStatusText, DrawOther, GpsLabels
  <2>2. QED BY <1>3, <1>8, <2>1 DEF DrawGps, DrawStatusText, DrawOther, Free,
     handlerVars, armVars
<1>9. CASE DrawArmed \/ StartArmTimer
  BY <1>3, <1>9 DEF DrawArmed, StartArmTimer, handlerVars, armVars
<1>10. CASE SetFlightTimer
  <2>1. /\ item.id = "E_ARMED" /\ item' = NoItem /\ arm_shown' = item.arm
        /\ UNCHANGED <<queue, todo, g_armed>>
    BY <1>1, <1>10 DEF SetFlightTimer, Free, HandShape, handlerVars
  <2>2. OnItsWay' = OnItsWay /\ InHand' = InHand
    BY <1>2, <2>1 DEF OnItsWay, InHand
  <2>3. QED BY <1>2, <2>1, <2>2 DEF ArmedInStep
<1>11. CASE ArmTimerDue \/ FlightTimerDue \/ Callback
  BY <1>3, <1>11 DEF ArmTimerDue, FlightTimerDue, Callback, PauseArmTimer,
     ClearStatusText, Tick, LvUnchanged, handlerVars, armVars
<1>12. QED
  BY <1>4, <1>5, <1>6, <1>7, <1>8, <1>9, <1>10, <1>11 DEF Ui

\* Whatever messages arrive and however long the queue is, every change of the
\* armed state reaches the drawing thread, once and in order.
THEOREM ArmedIsInStep == Spec => []ArmedInStep
<1>1. Init => ArmedInStep
  <2>1. SUFFICES ASSUME Init PROVE ArmedInStep
    OBVIOUS
  <2>2. /\ item = NoItem /\ queue = <<>> /\ todo = <<>>
        /\ g_armed = 0 /\ arm_shown = 0
    BY <2>1 DEF Init
  <2>3. item.id = "E_NONE"
    BY <2>2 DEF NoItem, Item
  <2>4. OnItsWay = <<>> /\ InHand = 0
    BY <2>2, <2>3 DEF OnItsWay, InHand
  <2>5. Len(<<>>) = 0 /\ DOMAIN <<>> = {} /\ 1..0 = {}
    OBVIOUS
  <2>6. Alternates(0, <<>>, 0)
    BY <2>5 DEF Alternates, Holds
  <2>7. QED BY <2>2, <2>3, <2>4, <2>6 DEF ArmedInStep
<1>2. HandInv /\ ArmedInStep /\ [Next]_vars => ArmedInStep'
  BY ReceiveArmed, OtherArmed DEF Next, Receive, Wait
<1>3. QED BY <1>1, <1>2, HandHolds, PTL DEF Spec

-----------------------------------------------------------------------------
(***************************************************************************)
(* The two labels of a position.                                           *)
(***************************************************************************)
COORD == "E_GPS_CORDINATE"
DIST  == "E_GPS_DISTANCE"
Both  == {COORD, DIST}

\* Once the items of s are drawn, after x, label id shows position p.
Latest(id, x, s, p) ==
  \/ x = p /\ \A k \in 1..Len(s) : s[k].id # id
  \/ \E i \in 1..Len(s) : /\ s[i].id = id /\ s[i].at = p
                          /\ \A k \in (i + 1)..Len(s) : s[k].id # id

\* What the label shows, or is about to.
Label(id) == IF item.id = id THEN item.at ELSE drawn[id].at

\* Before both GPS messages have come the labels are not written; from then on
\* they will both show the position that was reported last.
PairShape ==
  /\ ~(hasGPSInfo /\ hasGPSPos) => drawn[COORD].at = drawn[DIST].at
  /\ hasGPSInfo /\ hasGPSPos =>
       \E p \in Places : \A id \in Both : Latest(id, Label(id), OnItsWay, p)

\* It depends on the ids and the positions only.
LEMMA LatestSame ==
  ASSUME NEW id, NEW x, NEW p, NEW s \in Seq(Items), NEW t \in Seq(Items),
         Len(t) = Len(s),
         \A k \in 1..Len(s) : t[k].id = s[k].id /\ t[k].at = s[k].at,
         Latest(id, x, s, p)
  PROVE  Latest(id, x, t, p)
<1>1. Len(s) \in Nat
  BY LenProperties
<1>2. \A i \in 1..Len(s) : \A k \in (i + 1)..Len(s) : k \in 1..Len(s)
  BY <1>1
<1>3. QED BY <1>1, <1>2 DEF Latest

\* Items for other labels do not matter.
LEMMA LatestQuiet ==
  ASSUME NEW id, NEW x, NEW p, NEW s \in Seq(Items), NEW t \in Seq(Items),
         Len(s) <= Len(t), \A k \in 1..Len(s) : t[k] = s[k],
         \A k \in (Len(s) + 1)..Len(t) : t[k].id # id,
         Latest(id, x, s, p)
  PROVE  Latest(id, x, t, p)
<1>1. Len(s) \in Nat /\ Len(t) \in Nat
  BY LenProperties
<1>2. \A k \in 1..Len(t) : k \in 1..Len(s) \/ k \in (Len(s) + 1)..Len(t)
  BY <1>1
<1>3. CASE x = p /\ \A k \in 1..Len(s) : s[k].id # id
  BY <1>2, <1>3 DEF Latest
<1>4. ASSUME NEW i \in 1..Len(s), s[i].id = id, s[i].at = p,
             \A k \in (i + 1)..Len(s) : s[k].id # id
      PROVE  Latest(id, x, t, p)
  <2>1. \A k \in (i + 1)..Len(t) :
          \/ k \in (i + 1)..Len(s) /\ k \in 1..Len(s)
          \/ k \in (Len(s) + 1)..Len(t)
    BY <1>1
  <2>2. i \in 1..Len(t)
    BY <1>1
  <2>3. QED BY <1>4, <2>1, <2>2 DEF Latest
<1>5. QED BY <1>3, <1>4 DEF Latest

\* The first item drawn, the others still will be.
LEMMA LatestTail ==
  ASSUME NEW id, NEW x, NEW y, NEW p, NEW s \in Seq(Items), s # <<>>,
         s[1].id = id => y = s[1].at, s[1].id # id => y = x,
         Latest(id, x, s, p)
  PROVE  Latest(id, y, Tail(s), p)
<1>1. PICK t \in Seq(Items) : t = Tail(s)
  BY HeadTailProperties
<1>2. /\ Len(s) \in Nat \ {0} /\ Len(t) = Len(s) - 1
      /\ \A k \in 1..(Len(s) - 1) : t[k] = s[k + 1]
  BY <1>1, HeadTailProperties, LenProperties
<1>3. 1 \in 1..Len(s) /\ \A k \in 1..(Len(s) - 1) : k + 1 \in 1..Len(s)
  BY <1>2
<1>4. CASE x = p /\ \A k \in 1..Len(s) : s[k].id # id
  BY <1>1, <1>2, <1>3, <1>4 DEF Latest
<1>5. ASSUME NEW i \in 1..Len(s), s[i].id = id, s[i].at = p,
             \A k \in (i + 1)..Len(s) : s[k].id # id
      PROVE  Latest(id, y, t, p)
  <2>1. CASE i = 1
    <3>1. \A k \in 1..(Len(s) - 1) : k + 1 \in (i + 1)..Len(s)
      BY <1>2, <2>1
    <3>2. \A k \in 1..Len(t) : t[k].id # id
      BY <1>2, <1>5, <3>1
    <3>3. QED BY <1>5, <2>1, <3>2 DEF Latest
  <2>2. CASE i # 1
    <3>1. i - 1 \in 1..Len(t) /\ (i - 1) + 1 = i
      BY <1>2, <2>2
    <3>2. t[i - 1] = s[i]
      BY <1>2, <3>1
    <3>3. \A k \in ((i - 1) + 1)..Len(t) :
            k \in 1..(Len(s) - 1) /\ k + 1 \in (i + 1)..Len(s)
      BY <1>2, <2>2
    <3>4. \A k \in ((i - 1) + 1)..Len(t) : t[k].id # id
      BY <1>2, <1>5, <3>3
    <3>5. QED BY <1>5, <3>1, <3>2, <3>4 DEF Latest
  <2>3. QED BY <2>1, <2>2
<1>6. QED BY <1>1, <1>4, <1>5 DEF Latest

\* A message that reports no position leaves both labels alone.
LEMMA PairQuiet ==
  ASSUME HandInv, PairShape, NEW items \in Seq(Items), Handle(items),
         \A k \in 1..Len(items) : items[k].id \notin Both,
         UNCHANGED gpsFlags
  PROVE  PairShape'
<1>1. /\ UNCHANGED <<hasGPSInfo, hasGPSPos, drawn, item>>
      /\ \A id \in Both : Label(id)' = Label(id)
  BY DEF Handle, gpsFlags, gpsVars, Label
<1>2. CASE ~(hasGPSInfo /\ hasGPSPos)
  BY <1>1, <1>2 DEF PairShape
<1>3. CASE hasGPSInfo /\ hasGPSPos
  <2>1. PICK p \in Places : \A id \in Both : Latest(id, Label(id), OnItsWay, p)
    BY <1>3 DEF PairShape
  <2>2. PICK s \in Seq(Items), u \in Seq(Items), L \in Nat :
          /\ s = OnItsWay /\ u = OnItsWay' /\ L = Len(s)
          /\ Len(u) = L + Len(items) /\ Len(items) \in Nat
          /\ \A k \in 1..L : u[k] = s[k]
          /\ \A k \in 1..Len(items) : u[L + k] = items[k]
    <3>1. /\ OnItsWay \in Seq(Items) /\ OnItsWay' \in Seq(Items)
          /\ Len(OnItsWay) \in Nat /\ Len(items) \in Nat
          /\ Len(OnItsWay') = Len(OnItsWay) + Len(items)
          /\ \A k \in 1..Len(OnItsWay) : OnItsWay'[k] = OnItsWay[k]
          /\ \A k \in 1..Len(items) : OnItsWay'[Len(OnItsWay) + k] = items[k]
      BY WayHandle DEF HandInv
    <3> USE <3>1
    <3>2. WITNESS OnItsWay \in Seq(Items), OnItsWay' \in Seq(Items), Len(OnItsWay) \in Nat
    <3>3. QED BY <3>1
  <2>3. ASSUME NEW k \in (Len(s) + 1)..Len(u) PROVE u[k].id \notin Both
    <3>1. k - L \in 1..Len(items) /\ L + (k - L) = k
      BY <2>2
    <3>2. u[L + (k - L)] = items[k - L]
      BY <2>2, <3>1
    <3>3. QED BY <3>1, <3>2
  <2>4. ASSUME NEW id \in Both PROVE Latest(id, Label(id), u, p)
    <3>1. Len(s) <= Len(u)
      BY <2>2
    <3>2. QED BY <2>1, <2>2, <2>3, <3>1, LatestQuiet
  <2>5. QED BY <1>1, <1>3, <2>2, <2>4 DEF PairShape
<1>4. QED BY <1>2, <1>3

\* A message that reports one queues it for both.
LEMMA PairNew ==
  ASSUME HandInv, PairShape, NEW items \in Seq(Items), Handle(items),
         NEW p \in Places, NEW i \in 1..Len(items), NEW j \in 1..Len(items),
         items[i].id = COORD, items[i].at = p,
         items[j].id = DIST, items[j].at = p,
         \A k \in 1..Len(items) : items[k].id \in Both => k \in {i, j},
         hasGPSInfo /\ hasGPSPos => hasGPSInfo' /\ hasGPSPos'
  PROVE  PairShape'
<1>1. drawn' = drawn
  BY DEF Handle, gpsVars
<1>2. CASE ~(hasGPSInfo' /\ hasGPSPos')
  BY <1>1, <1>2 DEF PairShape
<1>3. CASE hasGPSInfo' /\ hasGPSPos'
  <2>1. PICK u \in Seq(Items), L \in Nat :
          /\ u = OnItsWay' /\ Len(u) = L + Len(items) /\ Len(items) \in Nat
          /\ \A k \in 1..Len(items) : u[L + k] = items[k]
    <3>1. /\ OnItsWay \in Seq(Items) /\ OnItsWay' \in Seq(Items)
          /\ Len(OnItsWay) \in Nat /\ Len(items) \in Nat
          /\ Len(OnItsWay') = Len(OnItsWay) + Len(items)
          /\ \A k \in 1..Len(OnItsWay) : OnItsWay'[k] = OnItsWay[k]
          /\ \A k \in 1..Len(items) : OnItsWay'[Len(OnItsWay) + k] = items[k]
      BY WayHandle DEF HandInv
    <3> USE <3>1
    <3>2. WITNESS OnItsWay' \in Seq(Items), Len(OnItsWay) \in Nat
    <3>3. QED BY <3>1
  <2>2. ASSUME NEW id, NEW n \in 1..Len(items), items[n].id = id, items[n].at = p,
               \A k \in (n + 1)..Len(items) : items[k].id # id,
               NEW x
        PROVE  Latest(id, x, u, p)
    <3>1. /\ L + n \in 1..Len(u) /\ u[L + n] = items[n]
      BY <2>1
    <3>2. ASSUME NEW k \in ((L + n) + 1)..Len(u) PROVE u[k].id # id
      <4>1. PICK m \in (n + 1)..Len(items) : m \in 1..Len(items) /\ L + m = k
        <5>1. /\ k - L \in (n + 1)..Len(items) /\ k - L \in 1..Len(items)
              /\ L + (k - L) = k
          BY <2>1
        <5>2. QED BY <5>1
      <4>2. u[k] = items[m]
        BY <2>1, <4>1
      <4>3. QED BY <2>2, <4>2
    <3>3. QED BY <2>2, <3>1, <3>2 DEF Latest
  <2>3. /\ \A k \in (i + 1)..Len(items) : items[k].id # COORD
        /\ \A k \in (j + 1)..Len(items) : items[k].id # DIST
    <3>1. /\ \A k \in (i + 1)..Len(items) : k \in 1..Len(items) /\ k # i
          /\ \A k \in (j + 1)..Len(items) : k \in 1..Len(items) /\ k # j
      BY <2>1
    <3>2. COORD # DIST
      BY DEF COORD, DIST
    <3>3. QED BY <3>1, <3>2 DEF Both
  <2>4. \A id \in Both : Latest(id, Label(id)', u, p)
    BY <2>2, <2>3 DEF Both
  <2>5. QED BY <1>3, <2>1, <2>4 DEF PairShape
<1>4. QED BY <1>2, <1>3

LEMMA ReceivePair ==
  ASSUME HandInv, PairShape, NEW m \in Messages,
         \/ Heartbeat(m) \/ StatusText(m) \/ HomePosition(m)
         \/ GpsRawInt(m) \/ GlobalPositionInt(m) \/ Plain(m)
  PROVE  PairShape'
<1>1. TypeOK /\ MessageAssumption
  BY DEF HandInv
<1>2. /\ \A id \in Ids \ Both : It(id) \in Items /\ It(id).id \notin Both
      /\ \A arm \in {0, 1} : Armed(arm) \in Items /\ Armed(arm).id \notin Both
      /\ \A pos \in Positions : /\ Coordinates(pos) \in Items
                                /\ Coordinates(pos).id = COORD
                                /\ Coordinates(pos).at = pos
      /\ \A pos \in Positions, from \in Places : /\ Distance(from, pos) \in Items
                                                 /\ Distance(from, pos).id = DIST
                                                 /\ Distance(from, pos).at = pos
  BY <1>1, ItemsAre DEF It, Armed, Coordinates, Distance, Item, COORD, DIST, Both
<1>3. /\ {"E_FLY_MODE", "E_STATUS_TEXT", "E_SATS", "E_HDG", "E_GSPEED"}
           \subseteq Ids \ Both
      /\ PlainIds \subseteq Ids \ Both
      /\ Positions \subseteq Places /\ COORD # DIST
  BY DEF Ids, GpsLabels, PlainIds, Both, COORD, DIST, Places
<1>4. CASE Heartbeat(m)
  <2>1. m.arm \in {0, 1}
    BY <1>1, <1>4 DEF Heartbeat, MessageAssumption
  <2>2. PICK f \in Items : f = It("E_FLY_MODE") /\ f.id \notin Both
    BY <1>2, <1>3
  <2>3. PICK armed \in Seq(Items) :
          /\ armed = ArmItems(m.arm)
          /\ \A k \in 1..Len(armed) : armed[k].id \notin Both
    <3>1. PICK e \in Items : e = Armed(m.arm) /\ e.id \notin Both
      BY <1>2, <2>1
    <3>2. /\ <<e>> \in Seq(Items) /\ \A k \in 1..Len(<<e>>) : <<e>>[k].id \notin Both
          /\ <<>> \in Seq(Items) /\ \A k \in 1..Len(<<>>) : <<>>[k].id \notin Both
      BY <3>1
    <3>3. ArmItems(m.arm) = <<e>> \/ ArmItems(m.arm) = <<>>
      BY <3>1 DEF ArmItems
    <3>4. QED BY <3>2, <3>3
  <2>4. PICK items \in Seq(Items) : items = Append(armed, f)
    BY AppendProperties
  <2>5. \A k \in 1..Len(items) : items[k].id \notin Both
    BY <2>2, <2>3, <2>4, AppendProperties
  <2>6. Handle(items) /\ UNCHANGED gpsFlags
    BY <1>4, <2>2, <2>3, <2>4 DEF Heartbeat
  <2>7. QED BY <2>5, <2>6, PairQuiet
<1>5. CASE StatusText(m)
  <2>1. PICK f \in Items : f = It("E_STATUS_TEXT") /\ f.id \notin Both
    BY <1>2, <1>3
  <2>2. PICK items \in Seq(Items) : items = <<f>>
    <3>1. <<f>> \in Seq(Items)
      OBVIOUS
    <3>2. QED BY <3>1
  <2>3. \A k \in 1..Len(items) : items[k].id \notin Both
    BY <2>1, <2>2
  <2>4. Handle(items) /\ UNCHANGED gpsFlags
    BY <1>5, <2>1, <2>2 DEF StatusText
  <2>5. QED BY <2>3, <2>4, PairQuiet
<1>6. CASE HomePosition(m)
  <2>1. PICK items \in Seq(Items) : items = <<>>
    <3>1. <<>> \in Seq(Items)
      OBVIOUS
    <3>2. QED BY <3>1
  <2>2. \A k \in 1..Len(items) : items[k].id \notin Both
    BY <2>1
  <2>3. Handle(items) /\ UNCHANGED gpsFlags
    BY <1>6, <2>1 DEF HomePosition
  <2>4. QED BY <2>2, <2>3, PairQuiet
<1>7. CASE GpsRawInt(m)
  <2>1. m.pos \in Positions
    BY <1>1, <1>7 DEF GpsRawInt, MessageAssumption
  <2>2. PICK from \in Places : from = IF s_set_home THEN s_home ELSE Zero
    BY <1>1, IdsAre DEF TypeOK
  <2>3. PICK f \in Items, c \in Items, d \in Items :
          /\ f = It("E_SATS") /\ c = Coordinates(m.pos) /\ d = Distance(from, m.pos)
          /\ f.id \notin Both /\ c.id = COORD /\ d.id = DIST
          /\ c.at = m.pos /\ d.at = m.pos
    BY <1>2, <1>3, <2>1
  <2>4. PICK items \in Seq(Items) : items = <<f, c, d>>
    <3>1. <<f, c, d>> \in Seq(Items)
      OBVIOUS
    <3>2. QED BY <3>1
  <2>5. /\ Handle(items) /\ hasGPSInfo' /\ hasGPSPos' = hasGPSPos
    BY <1>7, <2>2, <2>3, <2>4 DEF GpsRawInt
  <2>6. Len(items) = 3 /\ items[1] = f /\ items[2] = c /\ items[3] = d
    BY <2>4
  <2>7. \A k \in 1..Len(items) : items[k].id \in Both => k \in {2, 3}
    <3>1. \A k \in 1..3 : k = 1 \/ k \in {2, 3}
      OBVIOUS
    <3>2. QED BY <2>3, <2>6, <3>1
  <2>8. 2 \in 1..Len(items) /\ 3 \in 1..Len(items) /\ m.pos \in Places
    BY <1>3, <2>1, <2>6
  <2>9. /\ items[2].id = COORD /\ items[2].at = m.pos
        /\ items[3].id = DIST /\ items[3].at = m.pos
    BY <2>3, <2>6
  <2>10. Handle(items) /\ (hasGPSInfo /\ hasGPSPos => hasGPSInfo' /\ hasGPSPos')
    BY <2>5
  <2>11. QED BY <2>7, <2>8, <2>9, <2>10, PairNew
<1>8. CASE GlobalPositionInt(m)
  <2>1. m.pos \in Positions /\ Unread \in Places
    BY <1>1, <1>8, IdsAre DEF GlobalPositionInt, MessageAssumption
  <2>2. PICK f \in Items, c \in Items, g \in Items, d \in Items :
          /\ f = It("E_HDG") /\ c = Coordinates(m.pos) /\ g = It("E_GSPEED")
          /\ d = Distance(Unread, m.pos)
          /\ f.id \notin Both /\ c.id = COORD /\ g.id \notin Both /\ d.id = DIST
          /\ c.at = m.pos /\ d.at = m.pos
    BY <1>2, <1>3, <2>1
  <2>3. PICK items \in Seq(Items) : items = <<f, c, g, d>>
    <3>1. <<f, c, g, d>> \in Seq(Items)
      OBVIOUS
    <3>2. QED BY <3>1
  <2>4. /\ Handle(items) /\ hasGPSPos' /\ hasGPSInfo' = hasGPSInfo
    BY <1>8, <2>2, <2>3 DEF GlobalPositionInt, GlobalItems
  <2>5. /\ Len(items) = 4 /\ items[1] = f /\ items[2] = c /\ items[3] = g
        /\ items[4] = d
    BY <2>3
  <2>6. \A k \in 1..Len(items) : items[k].id \in Both => k \in {2, 4}
    <3>1. \A k \in 1..4 : k = 1 \/ k = 3 \/ k \in {2, 4}
      OBVIOUS
    <3>2. QED BY <2>2, <2>5, <3>1
  <2>7. 2 \in 1..Len(items) /\ 4 \in 1..Len(items) /\ m.pos \in Places
    BY <1>3, <2>1, <2>5
  <2>8. /\ items[2].id = COORD /\ items[2].at = m.pos
        /\ items[4].id = DIST /\ items[4].at = m.pos
    BY <2>2, <2>5
  <2>9. Handle(items) /\ (hasGPSInfo /\ hasGPSPos => hasGPSInfo' /\ hasGPSPos')
    BY <2>4
  <2>10. QED BY <2>6, <2>7, <2>8, <2>9, PairNew
<1>9. CASE Plain(m)
  <2>1. m.ids \in Seq(PlainIds)
    BY <1>1, <1>9 DEF Plain, MessageAssumption
  <2>2. DOMAIN m.ids = 1..Len(m.ids) /\ Len(m.ids) \in Nat
    BY <2>1, LenProperties
  <2>3. PICK items : items = [i \in DOMAIN m.ids |-> It(m.ids[i])]
    OBVIOUS
  <2>4. \A i \in 1..Len(m.ids) : It(m.ids[i]) \in Items /\ It(m.ids[i]).id \notin Both
    BY <1>2, <1>3, <2>1, ElementOfSeq
  <2>5. items \in Seq(Items) /\ DOMAIN items = 1..Len(m.ids)
    <3>1. items \in [1..Len(m.ids) -> Items]
      BY <2>2, <2>3, <2>4
    <3>2. QED BY <2>2, <3>1, SeqDef
  <2>6. \A k \in 1..Len(items) : items[k].id \notin Both
    <3>1. Len(items) = Len(m.ids)
      BY <2>2, <2>5, LenProperties
    <3>2. QED BY <2>2, <2>3, <2>4, <3>1
  <2>7. Handle(items) /\ UNCHANGED gpsFlags
    BY <1>9, <2>3 DEF Plain
  <2>8. QED BY <2>5, <2>6, <2>7, PairQuiet
<1>10. QED BY <1>4, <1>5, <1>6, <1>7, <1>8, <1>9

LEMMA OtherPair ==
  ASSUME HandInv, PairShape,
         \/ EmptyDatagram \/ ReadGpsData \/ Enqueue \/ Ui
         \/ ArmTimerDue \/ FlightTimerDue \/ Callback \/ UNCHANGED vars
  PROVE  PairShape'
<1>1. TypeOK /\ HandShape /\ OnItsWay \in Seq(Items)
  BY WayIs DEF HandInv
<1>2. NoItem.id = "E_NONE" /\ "E_NONE" \notin Both
  BY DEF NoItem, Item, Both, COORD, DIST
<1>3. ASSUME UNCHANGED <<hasGPSInfo, hasGPSPos, drawn>>, OnItsWay' = OnItsWay,
             item' = item \/ (item.id \notin Both /\ item' = NoItem)
      PROVE  PairShape'
  <2>1. \A id \in Both : Label(id)' = Label(id)
    BY <1>2, <1>3 DEF Label
  <2>2. QED BY <1>3, <2>1 DEF PairShape
<1>4. UNCHANGED <<queue, todo>> => OnItsWay' = OnItsWay
  BY DEF OnItsWay
<1>5. CASE EmptyDatagram \/ UNCHANGED vars
  BY <1>3, <1>4, <1>5 DEF EmptyDatagram, vars, gpsFlags, gpsVars
<1>6. CASE ReadGpsData
  <2>1. PICK s \in Seq(Items), t \in Seq(Items) :
          /\ s = OnItsWay /\ t = OnItsWay' /\ Len(t) = Len(s)
          /\ \A k \in 1..Len(s) : t[k].id = s[k].id /\ t[k].at = s[k].at
    BY <1>6, WayRead
  <2>2. /\ UNCHANGED <<hasGPSInfo, hasGPSPos, drawn>>
        /\ \A id \in Both : Label(id)' = Label(id)
    BY <1>6 DEF ReadGpsData, gpsFlags, gpsVars, Label
  <2>3. ASSUME NEW p, NEW id \in Both, Latest(id, Label(id), s, p)
        PROVE  Latest(id, Label(id), t, p)
    BY <2>1, <2>3, LatestSame
  <2>4. QED BY <2>1, <2>2, <2>3 DEF PairShape
<1>7. CASE Enqueue
  BY <1>1, <1>3, <1>7, WayEnqueue DEF Enqueue, gpsFlags, gpsVars
<1>8. CASE Dequeue
  <2>1. /\ OnItsWay # <<>> /\ OnItsWay' = Tail(OnItsWay) /\ item' = OnItsWay[1]
    BY <1>1, <1>8, WayDequeue
  <2>2. /\ UNCHANGED <<hasGPSInfo, hasGPSPos, drawn>>
        /\ \A id \in Both : Label(id) = drawn[id].at
    BY <1>1, <1>2, <1>8 DEF Dequeue, HandShape, Label, gpsFlags, gpsVars
  <2>3. PICK s \in Seq(Items) : s = OnItsWay
    BY <1>1
  <2>4. ASSUME NEW p, NEW id \in Both, Latest(id, Label(id), s, p)
        PROVE  Latest(id, Label(id)', Tail(s), p)
    <3>1. PICK y : y = Label(id)'
      OBVIOUS
    <3>2. (s[1].id = id => y = s[1].at) /\ (s[1].id # id => y = Label(id))
      BY <2>1, <2>2, <2>3, <3>1 DEF Label
    <3>3. QED BY <2>1, <2>3, <2>4, <3>1, <3>2, LatestTail
  <2>5. QED BY <2>1, <2>2, <2>3, <2>4 DEF PairShape
<1>9. CASE DrawGps
  <2>1. /\ UNCHANGED <<hasGPSInfo, hasGPSPos>> /\ OnItsWay' = OnItsWay
        /\ item' = NoItem /\ item.id \in GpsLabels
    BY <1>4, <1>9 DEF DrawGps, Free, gpsFlags
  <2>2. CASE hasGPSInfo /\ hasGPSPos
    <3>1. drawn' = [drawn EXCEPT ![item.id] = item] /\ drawn \in [GpsLabels -> Items]
      BY <1>1, <1>9, <2>2 DEF DrawGps, MayShow, TypeOK
    <3>2. \A id \in Both : Label(id)' = Label(id)
      BY <1>2, <2>1, <3>1 DEF Label, Both, COORD, DIST, GpsLabels
    <3>3. QED BY <2>1, <2>2, <3>2 DEF PairShape
  <2>3. CASE ~(hasGPSInfo /\ hasGPSPos)
    <3>1. \A id \in Both : drawn'[id] = drawn[id]
      BY <1>1, <1>9, <2>3 DEF DrawGps, MayShow, TypeOK, Both, COORD, DIST, GpsLabels
    <3>2. COORD \in Both /\ DIST \in Both
      BY DEF Both
    <3>3. QED BY <2>1, <2>3, <3>1, <3>2 DEF PairShape
  <2>4. QED BY <2>2, <2>3
<1>10. CASE DrawStatusText \/ DrawOther
  <2>1. item.id \notin Both
    BY <1>10 DEF DrawStatusText, DrawOther, GpsLabels, Both, COORD, DIST
  <2>2. QED BY <1>3, <1>4, <1>10, <2>1 DEF DrawStatusText, DrawOther, Free, gpsFlags
<1>11. CASE DrawArmed \/ StartArmTimer
  BY <1>3, <1>4, <1>11 DEF DrawArmed, StartArmTimer, gpsFlags, gpsVars
<1>12. CASE SetFlightTimer
  <2>1. item.id \notin Both
    BY <1>1, <1>12 DEF SetFlightTimer, HandShape, Both, COORD, DIST
  <2>2. QED BY <1>3, <1>4, <1>12, <2>1 DEF SetFlightTimer, Free, gpsFlags
<1>13. CASE ArmTimerDue \/ FlightTimerDue \/ Callback
  BY <1>3, <1>4, <1>13 DEF ArmTimerDue, FlightTimerDue, Callback, PauseArmTimer,
     ClearStatusText, Tick, LvUnchanged, gpsFlags, gpsVars
<1>14. QED
  BY <1>5, <1>6, <1>7, <1>8, <1>9, <1>10, <1>11, <1>12, <1>13 DEF Ui

\* Whatever positions are reported, in messages of either kind, the distance
\* and the coordinates that are left on the screen are of one position.
THEOREM LabelsOfOnePosition == Spec => []DistanceMatchesCoordinates
<1>1. Init => PairShape
  BY DEF Init, PairShape, COORD, DIST, GpsLabels
<1>2. HandInv /\ PairShape /\ [Next]_vars => PairShape'
  BY ReceivePair, OtherPair DEF Next, Receive, Wait
<1>3. HandInv /\ PairShape => DistanceMatchesCoordinates
  <2>1. SUFFICES ASSUME HandInv, PairShape,
                        todo = <<>>, queue = <<>>, ui = "dequeue"
                 PROVE  drawn[DIST].at = drawn[COORD].at
    BY DEF DistanceMatchesCoordinates, COORD, DIST
  <2>2. CASE hasGPSInfo /\ hasGPSPos
    <3>1. PICK p \in Places : \A id \in Both : Latest(id, Label(id), OnItsWay, p)
      BY <2>1, <2>2 DEF PairShape
    <3>2. OnItsWay = <<>>
      BY <2>1 DEF OnItsWay
    <3>3. item.id \notin Both
      BY <2>1 DEF HandInv, HandShape, NoItem, Item, Both, COORD, DIST
    <3>4. \A id \in Both : drawn[id].at = p
      <4>1. Len(<<>>) = 0 /\ 1..0 = {}
        OBVIOUS
      <4>2. QED BY <3>1, <3>2, <3>3, <4>1 DEF Latest, Label
    <3>5. QED BY <3>4 DEF Both
  <2>3. CASE ~(hasGPSInfo /\ hasGPSPos)
    BY <2>1, <2>3 DEF PairShape
  <2>4. QED BY <2>2, <2>3
<1>4. QED BY <1>1, <1>2, <1>3, HandHolds, PTL DEF Spec
=============================================================================
