----------------------------- MODULE VdecOsdProofs -----------------------------
(***************************************************************************)
(* Proofs about VdecOsd for every set of positions, every clock and any    *)
(* number of frames and messages.                                          *)
(***************************************************************************)
EXTENDS VdecOsd, FiniteSetTheorems, TLAPS

USE OsdAssumption

\* The places of the OSD thread's loop.
OsdSteps == {"digits", "below", "above", "clock", "rate", "clear", "show"}

Texts == [digits : Int, zero : BOOLEAN, point : BOOLEAN]

TypeOK ==
  /\ frames \in Nat /\ rx \in {"recv", "add"} /\ osd \in OsdSteps
  /\ telemetry_lat \in Int /\ arm_switch \in BOOLEAN /\ armed \in BOOLEAN
  /\ base \in Int /\ crossed \in BOOLEAN /\ c1 \in Texts
  /\ last_timestamp \in Nat /\ minutes \in Nat /\ seconds \in Nat
  /\ now \in Nat /\ drawn_at \in Nat /\ on_time \in Nat /\ excess \in Nat

\* What the OSD thread makes of the latitude is a text.
LEMMA TextsAre ==
  /\ NoText \in Texts
  /\ \A v \in Int : [digits |-> v, zero |-> FALSE, point |-> FALSE] \in Texts
  /\ \A c \in Texts, b \in BOOLEAN : /\ [c EXCEPT !.zero = b] \in Texts
                                     /\ [c EXCEPT !.point = b] \in Texts
BY DEF Texts, NoText

LEMMA ComparesAre ==
  \A v \in Int : Below(v) \in BOOLEAN /\ Above(v) \in BOOLEAN
BY SMT DEF Below, Above

\* Whole seconds of an interval.
LEMMA WholeIs ==
  ASSUME TypeOK, last_timestamp <= now
  PROVE  /\ Interval \in Nat /\ Whole \in Nat
         /\ Interval < Second => Whole = 0
         /\ Interval < 2 * Second => Whole <= 1
         /\ Interval = Second => Whole = 1
BY DEF TypeOK, Interval, Whole

\* The clock does not go back.
TimeShape == last_timestamp <= drawn_at /\ drawn_at <= now

LEMMA InitType == Init => TypeOK /\ TimeShape
<1>1. SUFFICES ASSUME Init PROVE TypeOK /\ TimeShape
  OBVIOUS
<1>2. c1 \in Texts
  BY <1>1, TextsAre DEF Init
<1>3. arm_switch \in BOOLEAN /\ armed \in BOOLEAN /\ crossed \in BOOLEAN
  BY <1>1, Zenon DEF Init
<1>4. TimeShape
  BY <1>1 DEF Init, TimeShape
<1>5. QED BY <1>1, <1>2, <1>3, <1>4 DEF Init, TypeOK, OsdSteps

LEMMA NextType ==
  ASSUME TypeOK, TimeShape, [Next]_vars
  PROVE  TypeOK' /\ TimeShape'
<1>1. CASE ReadStats \/ AddToStats
  BY <1>1 DEF ReadStats, AddToStats, TypeOK, TimeShape, mavVars, labelVars, clockVars
<1>2. CASE Mavlink
  <2>1. ASSUME NEW on \in BOOLEAN, RcChannels(on) PROVE TypeOK' /\ TimeShape'
    BY <2>1 DEF RcChannels, TypeOK, TimeShape, rxVars, labelVars, clockVars
  <2>2. ASSUME NEW pos \in Positions, GpsRawInt(pos) PROVE TypeOK' /\ TimeShape'
    <3>1. pos \in Int
      OBVIOUS
    <3>2. armed' \in BOOLEAN /\ base' \in Int
      BY <2>2, <3>1 DEF GpsRawInt, TypeOK
    <3>3. crossed' \in BOOLEAN
      BY <2>2, Zenon DEF GpsRawInt, TypeOK
    <3>4. QED
      BY <2>2, <3>1, <3>2, <3>3 DEF GpsRawInt, TypeOK, TimeShape, rxVars, clockVars
  <2>3. CASE EmptyDatagram
    BY <2>3 DEF EmptyDatagram, TypeOK, TimeShape, rxVars, labelVars, clockVars
  <2>4. QED BY <1>2, <2>1, <2>2, <2>3 DEF Mavlink
<1>3. CASE MakeDigits \/ PutZero \/ PutPoint
  <2>1. c1' \in Texts
    BY <1>3, TextsAre, ComparesAre DEF MakeDigits, PutZero, PutPoint, TypeOK
  <2>2. QED BY <1>3, <2>1 DEF MakeDigits, PutZero, PutPoint, TypeOK, TimeShape,
     rxVars, mavVars, clockVars, OsdSteps
<1>4. CASE UpdateClock
  <2>1. Whole \in Nat
    BY WholeIs DEF TimeShape, TypeOK
  <2>2. c1' \in Texts /\ seconds' \in Nat /\ excess' \in Nat
    BY <1>4, <2>1, TextsAre DEF UpdateClock, TypeOK
  <2>3. last_timestamp' \in Nat /\ TimeShape'
    BY <1>4 DEF UpdateClock, TypeOK, TimeShape
  <2>4. osd' \in OsdSteps
    BY <1>4 DEF UpdateClock, OsdSteps
  <2>5. crossed' \in BOOLEAN
    BY <1>4, Zenon DEF UpdateClock
  <2>6. QED BY <1>4, <2>2, <2>3, <2>4, <2>5 DEF UpdateClock, TypeOK, rxVars, mavVars
<1>5. CASE ReadRate \/ ClearStats
  BY <1>5 DEF ReadRate, ClearStats, TypeOK, TimeShape, rxVars, mavVars, labelVars,
     clockVars, OsdSteps
<1>6. CASE Show
  BY <1>6 DEF Show, MinutesOf, TypeOK, TimeShape, rxVars, mavVars, labelVars, OsdSteps
<1>7. CASE Tick
  BY <1>7 DEF Tick, TypeOK, TimeShape, rxVars, mavVars, labelVars, clockVars
<1>8. CASE UNCHANGED vars
  BY <1>8 DEF vars, TypeOK, TimeShape, rxVars, mavVars, labelVars, clockVars
<1>9. QED
  BY <1>1, <1>2, <1>3, <1>4, <1>5, <1>6, <1>7, <1>8 DEF Next, Osd, NothingArrives

LEMMA TypeHolds == Spec => [](TypeOK /\ TimeShape)
BY InitType, NextType, PTL DEF Spec

-----------------------------------------------------------------------------
\* What each reading of the position, so far, has made of the text.
LatShape ==
  /\ osd \notin {"below", "above", "clock"} => ~crossed
  /\ osd \in {"below", "above"} /\ ~crossed =>
       (Below(telemetry_lat) <=> Below(c1.digits))
  /\ osd \in {"above", "clock"} /\ ~crossed => (c1.zero <=> Below(c1.digits))
  /\ osd = "below" => ~c1.zero /\ ~c1.point
  /\ osd = "above" => ~c1.point
  /\ osd = "clock" /\ ~crossed => (c1.point <=> ~Below(c1.digits))

\* The point is put where the zero is not.
LEMMA AboveIs == \A v \in Int : Above(v) <=> ~Below(v)
BY SMT DEF Above, Below

\* The latitude's text is of one position, whatever the MAVLink thread writes
\* between the readings, as long as it stays on its side of one degree.
THEOREM LatitudeIsOne == Spec => []LatitudeOfOnePosition
<1>1. Init => LatShape
  BY Zenon DEF Init, LatShape
<1>2. TypeOK /\ LatShape /\ [Next]_vars => LatShape'
  <2>1. SUFFICES ASSUME TypeOK, LatShape, [Next]_vars PROVE LatShape'
    OBVIOUS
  <2>2. UNCHANGED <<osd, crossed, c1, telemetry_lat>> => LatShape'
    BY <2>1 DEF LatShape
  <2>3. ASSUME NEW pos \in Positions, GpsRawInt(pos) PROVE LatShape'
    <3>1. /\ telemetry_lat' = pos /\ osd' = osd /\ c1' = c1
          /\ crossed' = (crossed \/ (osd \in {"below", "above"}
                                     /\ Below(pos) # Below(c1.digits)))
      BY <2>3 DEF GpsRawInt
    <3>2. pos \in Int /\ c1.digits \in Int
      BY <2>1 DEF TypeOK, Texts
    <3>3. Below(pos) \in BOOLEAN /\ Below(c1.digits) \in BOOLEAN
      BY <3>2, ComparesAre
    <3>4. CASE crossed'
      BY <2>1, <3>1, <3>4, Zenon DEF LatShape
    <3>5. CASE ~crossed'
      <4>1. ~crossed
        BY <3>1, <3>5
      <4>2. osd \in {"below", "above"} => (Below(pos) <=> Below(c1.digits))
        BY <3>1, <3>3, <3>5, Zenon
      <4>3. QED BY <2>1, <3>1, <4>1, <4>2, Zenon DEF LatShape
    <3>6. QED BY <3>4, <3>5
  <2>4. CASE MakeDigits
    <3>1. /\ osd = "digits" /\ osd' = "below" /\ telemetry_lat' = telemetry_lat
          /\ c1' = [digits |-> telemetry_lat, zero |-> FALSE, point |-> FALSE]
          /\ crossed' = crossed
      BY <2>4 DEF MakeDigits, mavVars
    <3>2. c1'.digits = telemetry_lat /\ ~c1'.zero /\ ~c1'.point
      BY <3>1
    <3>3. QED BY <3>1, <3>2, Zenon DEF LatShape
  <2>5. CASE PutZero
    <3>1. /\ osd = "below" /\ osd' = "above" /\ telemetry_lat' = telemetry_lat
          /\ c1' = [c1 EXCEPT !.zero = Below(telemetry_lat)]
          /\ crossed' = crossed
      BY <2>5 DEF PutZero, mavVars
    <3>2. PICK b \in BOOLEAN : b = Below(telemetry_lat)
      BY <2>1, ComparesAre DEF TypeOK
    <3>3. c1'.zero = b /\ c1'.digits = c1.digits /\ c1'.point = c1.point
      BY <2>1, <3>1, <3>2 DEF TypeOK, Texts
    <3>4. QED BY <2>1, <3>1, <3>2, <3>3, Zenon DEF LatShape
  <2>6. CASE PutPoint
    <3>1. /\ osd = "above" /\ osd' = "clock" /\ telemetry_lat' = telemetry_lat
          /\ c1' = [c1 EXCEPT !.point = Above(telemetry_lat)]
          /\ crossed' = crossed
      BY <2>6 DEF PutPoint, mavVars
    <3>2. PICK b \in BOOLEAN : b = Above(telemetry_lat) /\ (b <=> ~Below(telemetry_lat))
      BY <2>1, ComparesAre, AboveIs DEF TypeOK
    <3>3. c1'.point = b /\ c1'.digits = c1.digits /\ c1'.zero = c1.zero
      BY <2>1, <3>1, <3>2 DEF TypeOK, Texts
    <3>4. QED BY <2>1, <3>1, <3>2, <3>3, Zenon DEF LatShape
  <2>7. CASE UpdateClock
    <3>1. osd' \in {"rate", "show"} /\ ~crossed'
      BY <2>7 DEF UpdateClock
    <3>2. QED BY <3>1, Zenon DEF LatShape
  <2>8. CASE ReadRate \/ ClearStats \/ Show
    <3>1. osd \in {"rate", "clear", "show"} /\ osd' \in {"clear", "show", "digits"}
          /\ crossed' = crossed
      BY <2>8 DEF ReadRate, ClearStats, Show, labelVars
    <3>2. QED BY <2>1, <3>1, Zenon DEF LatShape
  <2>9. QED
    BY <2>1, <2>2, <2>3, <2>4, <2>5, <2>6, <2>7, <2>8
    DEF Next, ReadStats, AddToStats, Mavlink, RcChannels, EmptyDatagram, Osd, Tick,
        NothingArrives, vars, mavVars, labelVars
<1>3. TypeOK /\ LatShape => LatitudeOfOnePosition
  <2>1. SUFFICES ASSUME TypeOK, LatShape, osd = "clock", ~crossed
                 PROVE  /\ Below(c1.digits) => c1.zero /\ ~c1.point
                        /\ ~Below(c1.digits) => ~c1.zero /\ c1.point
    BY SMT DEF LatitudeOfOnePosition, Below
  <2>2. QED BY <2>1, Zenon DEF LatShape
<1>4. QED BY <1>1, <1>2, <1>3, TypeHolds, PTL DEF Spec

-----------------------------------------------------------------------------
\* Frames the receive loop has added or is adding.
Added == 1..(IF rx = "add" THEN frames - 1 ELSE frames)

\* What was overlooked and what the receive loop read back.
FrameShape ==
  /\ stats_rx_bytes \cup rx_register \cup counted \subseteq Added
  /\ Added \subseteq stats_rx_bytes \cup counted \cup overlooked
  /\ rx = "add" => /\ frames # 0 /\ stats_rx_bytes \subseteq rx_register
                   /\ rx_register \subseteq stats_rx_bytes \cup counted \cup overlooked
  /\ rx = "recv" => rx_register = {}
  /\ osd = "clear" => stats_rx_bytes \subseteq counted \cup overlooked
  /\ osd # "clear" => /\ stats_rx_bytes \cap counted \subseteq recounted
                      /\ rx_register \cap counted \subseteq recounted

\* Every frame received is in a figure or will be, or was overlooked between
\* the reading and the clearing; in two only if it was read back in between.
THEOREM FramesInOneFigure == Spec => []EachFrameInOneFigure
<1>1. Init => FrameShape
  BY DEF Init, FrameShape, Added
<1>2. TypeOK /\ FrameShape /\ [Next]_vars => FrameShape'
  <2>1. SUFFICES ASSUME TypeOK, FrameShape, [Next]_vars PROVE FrameShape'
    OBVIOUS
  <2>2. frames \in Nat
    BY <2>1 DEF TypeOK
  <2>3. CASE ReadStats
    <3>1. Added' = Added
      BY <2>2, <2>3 DEF ReadStats, Added
    <3>2. QED BY <2>1, <2>2, <2>3, <3>1 DEF ReadStats, FrameShape, rateVars
  <2>4. CASE AddToStats
    <3>1. Added' = Added \cup {frames} /\ frames \notin Added
      <4>1. rx = "add" /\ rx' = "recv" /\ frames' = frames
        BY <2>4 DEF AddToStats
      <4>2. frames # 0
        BY <2>1, <4>1 DEF FrameShape
      <4>3. QED BY <2>2, <4>1, <4>2 DEF Added
    <3>2. QED BY <2>1, <2>4, <3>1 DEF AddToStats, FrameShape, rateVars
  <2>5. CASE ReadRate
    <3>1. Added' = Added
      BY <2>5 DEF ReadRate, Added, rxVars
    <3>2. QED BY <2>1, <2>5, <3>1 DEF ReadRate, FrameShape, rxVars
  <2>6. CASE ClearStats
    <3>1. Added' = Added
      BY <2>6 DEF ClearStats, Added, rxVars
    <3>2. QED
      BY <2>1, <2>6, <3>1 DEF ClearStats, Cleared, FrameShape, rxVars, TypeOK
  <2>7. ASSUME UNCHANGED <<rxVars, stats_rx_bytes, rateVars, overlooked>>,
               osd' = osd \/ (osd # "clear" /\ osd' # "clear")
        PROVE  FrameShape'
    <3>1. Added' = Added
      BY <2>7 DEF Added, rxVars
    <3>2. QED BY <2>1, <2>7, <3>1 DEF FrameShape, rxVars, rateVars
  <2>8. CASE Mavlink
    BY <2>7, <2>8 DEF Mavlink, RcChannels, GpsRawInt, EmptyDatagram
  <2>9. CASE MakeDigits \/ PutZero \/ PutPoint \/ UpdateClock \/ Show
    BY <2>7, <2>9 DEF MakeDigits, PutZero, PutPoint, UpdateClock, Show
  <2>10. CASE Tick \/ UNCHANGED vars
    BY <2>7, <2>10 DEF Tick, vars
  <2>11. QED
    BY <2>1, <2>3, <2>4, <2>5, <2>6, <2>8, <2>9, <2>10 DEF Next, Osd, NothingArrives
<1>3. FrameShape => EachFrameInOneFigure
  BY DEF FrameShape, EachFrameInOneFigure, Added
<1>4. QED BY <1>1, <1>2, <1>3, TypeHolds, PTL DEF Spec

-----------------------------------------------------------------------------
\* An ordinary position has seven digits, which "0." makes seven places, or
\* eight or nine, which the point makes seven places.
LEMMA PowersAre ==
  /\ 10^1 = 10 /\ 10^2 = 100 /\ 10^3 = 1000 /\ 10^4 = 10000 /\ 10^5 = 100000
  /\ 10^6 = 1000000 /\ 10^7 = 10000000 /\ 10^8 = 100000000 /\ 10^9 = 1000000000
BY SMT

LEMMA DigitsAre ==
  ASSUME NEW v \in Int, NEW d \in {7, 8, 9}, v >= 10^(d - 1), v < 10^d
  PROVE  Digits(v) = d
<1>1. ASSUME NEW n \in 0..9 PROVE (n = 0 \/ v >= 10^n) <=> n < d
  <2>1. \/ d = 7 /\ v >= 1000000 /\ v < 10000000
        \/ d = 8 /\ v >= 10000000 /\ v < 100000000
        \/ d = 9 /\ v >= 100000000 /\ v < 1000000000
    <3>1. CASE d = 7
      <4>1. v >= 10^6 /\ v < 10^7
        BY <3>1
      <4>2. QED BY <3>1, <4>1, PowersAre, SMT
    <3>2. CASE d = 8
      <4>1. v >= 10^7 /\ v < 10^8
        BY <3>2
      <4>2. QED BY <3>2, <4>1, PowersAre, SMT
    <3>3. CASE d = 9
      <4>1. v >= 10^8 /\ v < 10^9
        BY <3>3
      <4>2. QED BY <3>3, <4>1, PowersAre, SMT
    <3>4. QED BY <3>1, <3>2, <3>3
  <2>2. CASE n = 0
    BY <2>1, <2>2, PowersAre, SMT
  <2>3. CASE n = 1
    BY <2>1, <2>3, PowersAre, SMT
  <2>4. CASE n = 2
    BY <2>1, <2>4, PowersAre, SMT
  <2>5. CASE n = 3
    BY <2>1, <2>5, PowersAre, SMT
  <2>6. CASE n = 4
    BY <2>1, <2>6, PowersAre, SMT
  <2>7. CASE n = 5
    BY <2>1, <2>7, PowersAre, SMT
  <2>8. CASE n = 6
    BY <2>1, <2>8, PowersAre, SMT
  <2>9. CASE n = 7
    BY <2>1, <2>9, PowersAre, SMT
  <2>10. CASE n = 8
    BY <2>1, <2>10, PowersAre, SMT
  <2>11. CASE n = 9
    BY <2>1, <2>11, PowersAre, SMT
  <2>12. n \in {0, 1, 2, 3, 4, 5, 6, 7, 8, 9}
    OBVIOUS
  <2>13. QED
    BY <2>2, <2>3, <2>4, <2>5, <2>6, <2>7, <2>8, <2>9, <2>10, <2>11, <2>12
<1>2. {n \in 0..9 : n = 0 \/ v >= 10^n} = {n \in 0..9 : n < d}
  BY <1>1
<1>3. {n \in 0..9 : n < d} = 0..(d - 1)
  BY SMT
<1>4. Cardinality(0..(d - 1)) = d
  <2>1. 0 \in Int /\ d - 1 \in Int /\ ~(0 > d - 1) /\ (d - 1) - 0 + 1 = d
    OBVIOUS
  <2>2. QED BY <2>1, FS_Interval
<1>5. QED BY <1>2, <1>3, <1>4 DEF Digits

LEMMA DegreesAre ==
  ASSUME NEW v \in Int, Ordinary(v)
  PROVE  Degrees(v) = v
<1>1. v >= 1000000 /\ v <= 999999999
  BY SMT DEF Ordinary
<1>2. Places(v) = 7
  <2>1. CASE v < 10000000
    <3>1. v >= 10^(7 - 1) /\ v < 10^7
      BY <1>1, <2>1, SMT
    <3>2. Digits(v) = 7
      BY <1>1, <3>1, DigitsAre, SMT
    <3>3. QED BY <2>1, <3>2, SMT DEF Places, Below
  <2>2. CASE v >= 10000000 /\ v < 100000000
    <3>1. v >= 10^(8 - 1) /\ v < 10^8
      BY <1>1, <2>2, SMT
    <3>2. Digits(v) = 8
      BY <1>1, <3>1, DigitsAre, SMT
    <3>3. QED BY <1>1, <2>2, <3>2, SMT DEF Places, Below
  <2>3. CASE v >= 100000000
    <3>1. v >= 10^(9 - 1) /\ v < 10^9
      BY <1>1, <2>3, SMT
    <3>2. Digits(v) = 9
      BY <1>1, <3>1, DigitsAre, SMT
    <3>3. QED BY <1>1, <2>3, <3>2, SMT DEF Places, Below
  <2>4. QED BY <1>1, <2>1, <2>2, <2>3, SMT
<1>3. QED BY <1>1, <1>2, SMT DEF Degrees

\* Home stays the first position flown from; the texts are made of both ends.
HomeShape ==
  /\ armed <=> flown # <<>>
  /\ flown # <<>> => \E last \in Int : /\ flown = <<base, last>>
                                       /\ distance = <<Degrees(base), Degrees(last)>>

\* Whatever the switch does, the distance is between the first position
\* reported while armed and the last one.
THEOREM DistanceIsFromHome == Spec => []DistanceFromHome
<1>1. Init => HomeShape
  BY Zenon DEF Init, HomeShape
<1>2. TypeOK /\ HomeShape /\ [Next]_vars => HomeShape'
  <2>1. SUFFICES ASSUME TypeOK, HomeShape, [Next]_vars PROVE HomeShape'
    OBVIOUS
  <2>2. UNCHANGED <<armed, flown, base, distance>> => HomeShape'
    BY <2>1 DEF HomeShape
  <2>3. ASSUME NEW pos \in Positions, GpsRawInt(pos), arm_switch PROVE HomeShape'
    <3>1. /\ armed' = TRUE /\ base' = IF ~armed THEN pos ELSE base
          /\ distance' = <<Degrees(base'), Degrees(pos)>>
          /\ flown' = <<IF flown = <<>> THEN pos ELSE Head(flown), pos>>
      BY <2>3 DEF GpsRawInt, FirstArming
    <3>2. flown # <<>> => Head(flown) = base
      BY <2>1 DEF HomeShape
    <3>3. flown' = <<base', pos>>
      BY <2>1, <3>1, <3>2 DEF HomeShape
    <3>4. pos \in Int /\ flown' # <<>>
      BY <3>3
    <3>5. QED BY <3>1, <3>3, <3>4 DEF HomeShape
  <2>4. QED
    BY <2>1, <2>2, <2>3
    DEF Next, ReadStats, AddToStats, Mavlink, RcChannels, GpsRawInt, EmptyDatagram,
        Osd, MakeDigits, PutZero, PutPoint, UpdateClock, ReadRate, ClearStats, Show,
        Tick, NothingArrives, vars, mavVars
<1>3. TypeOK /\ HomeShape => DistanceFromHome
  <2>1. SUFFICES ASSUME TypeOK, HomeShape, flown # <<>>
                 PROVE  /\ Ordinary(Head(flown)) => distance[1] = Head(flown)
                        /\ Ordinary(Last(flown)) => distance[2] = Last(flown)
    BY DEF DistanceFromHome
  <2>2. PICK last \in Int : /\ flown = <<base, last>>
                            /\ distance = <<Degrees(base), Degrees(last)>>
    BY <2>1 DEF HomeShape
  <2>3. /\ Head(flown) = base /\ Last(flown) = last
        /\ distance[1] = Degrees(base) /\ distance[2] = Degrees(last)
    BY <2>2 DEF Last
  <2>4. QED BY <2>1, <2>2, <2>3, DegreesAre DEF TypeOK
<1>4. QED BY <1>1, <1>2, <1>3, TypeHolds, PTL DEF Spec

-----------------------------------------------------------------------------
(***************************************************************************)
(* The flight clock and the time the switch was on.                        *)
(***************************************************************************)
Seconds(n) == Second * n
Minutes(n) == Minute * n

Shown   == Seconds(Minutes(minutes) + seconds)
Allowed == on_time + Seconds(excess)

\* The part of the interval that the next whole second may be made of.
Pending == IF Interval < Second THEN Interval ELSE Second

ClockShape ==
  /\ Shown <= Allowed
  /\ arm_switch => Shown + Pending <= Allowed
  /\ last_timestamp # 0 => /\ drawn_at <= last_timestamp + Second
                           /\ now <= drawn_at + FrameGap
  /\ now # 0

LEMMA SecondsAre ==
  /\ \A a \in Nat : Seconds(a) \in Nat
  /\ \A a \in Nat, b \in Nat : /\ Seconds(a + b) = Seconds(a) + Seconds(b)
                               /\ a <= b => Seconds(a) <= Seconds(b)
  /\ Seconds(1) = Second /\ Seconds(0) = 0
BY SMT DEF Seconds

LEMMA MinutesAre ==
  /\ \A a \in Nat : Minutes(a) \in Nat /\ Minutes(a + 1) = Minutes(a) + Minute
  /\ Minutes(0) = 0
BY SMT DEF Minutes

LEMMA SumsAre ==
  ASSUME TypeOK
  PROVE  /\ Minutes(minutes) \in Nat /\ Seconds(excess) \in Nat
         /\ Shown \in Nat /\ Allowed \in Nat
<1>1. Minutes(minutes) \in Nat /\ Seconds(excess) \in Nat
  BY SecondsAre, MinutesAre DEF TypeOK
<1>2. Minutes(minutes) + seconds \in Nat
  BY <1>1 DEF TypeOK
<1>3. Shown \in Nat
  BY <1>2, SecondsAre DEF Shown
<1>4. QED BY <1>1, <1>3 DEF Allowed, TypeOK

\* Seconds added to the clock, and granted to it.
LEMMA MoreSeconds ==
  ASSUME TypeOK, NEW w \in Nat
  PROVE  /\ Seconds(Minutes(minutes) + (seconds + w)) = Shown + Seconds(w)
         /\ on_time + Seconds(excess + w) = Allowed + Seconds(w)
<1>1. PICK m \in Nat : m = Minutes(minutes)
  BY SumsAre
<1>2. m + (seconds + w) = (m + seconds) + w /\ m + seconds \in Nat
  BY <1>1 DEF TypeOK
<1>3. Seconds((m + seconds) + w) = Seconds(m + seconds) + Seconds(w)
  BY <1>2, SecondsAre
<1>4. Seconds(excess + w) = Seconds(excess) + Seconds(w)
  BY SecondsAre DEF TypeOK
<1>5. Seconds(w) \in Nat /\ Seconds(excess) \in Nat
  BY SecondsAre DEF TypeOK
<1>6. on_time + (Seconds(excess) + Seconds(w)) = (on_time + Seconds(excess)) + Seconds(w)
  BY <1>5 DEF TypeOK
<1>7. QED BY <1>1, <1>2, <1>3, <1>4, <1>6 DEF Shown, Allowed

\* The frames are closer than a second, so what is added while the interval is
\* not over a second is one second at most, and one more starts it again.
LEMMA UpdateKeeps ==
  ASSUME TypeOK, TimeShape, ClockShape, UpdateClock
  PROVE  ClockShape'
<1>1. /\ Interval \in Nat /\ Whole \in Nat /\ Pending \in Nat /\ Pending <= Second
      /\ Shown \in Nat /\ Allowed \in Nat
  BY WholeIs, SumsAre DEF TimeShape, TypeOK, Pending
<1>2. /\ now' = now /\ minutes' = minutes /\ on_time' = on_time
      /\ arm_switch' = arm_switch /\ drawn_at' = now
      /\ Interval > Second => last_timestamp' = now
      /\ ~(Interval > Second) => last_timestamp' = last_timestamp
  BY DEF UpdateClock, mavVars
<1>3. /\ last_timestamp' # 0 => /\ drawn_at' <= last_timestamp' + Second
                                /\ now' <= drawn_at' + FrameGap
      /\ now' # 0
  BY <1>1, <1>2 DEF ClockShape, TypeOK, Interval
<1>4. /\ Interval > Second => Pending' = 0
      /\ ~(Interval > Second) => Pending' = Pending
  BY <1>2 DEF Pending, Interval, TypeOK
<1>5. CASE ~arm_switch
  <2>1. seconds' = seconds /\ excess' = excess
    BY <1>5 DEF UpdateClock, TypeOK
  <2>2. Shown' = Shown /\ Allowed' = Allowed
    BY <1>2, <2>1 DEF Shown, Allowed
  <2>3. QED BY <1>2, <1>3, <1>5, <2>2 DEF ClockShape
<1>6. CASE arm_switch
  <2>1. PICK e \in Nat : /\ seconds' = seconds + Whole /\ excess' = excess + e
                         /\ e = IF last_timestamp = 0 THEN Whole
                                ELSE IF Interval = Second THEN 1 ELSE 0
    BY <1>1, <1>6 DEF UpdateClock
  <2>2. Shown' = Shown + Seconds(Whole) /\ Allowed' = Allowed + Seconds(e)
    BY <1>1, <1>2, <2>1, MoreSeconds DEF Shown, Allowed
  <2>3. Shown + Pending <= Allowed
    BY <1>6 DEF ClockShape
  <2>4. Seconds(Whole) \in Nat /\ Seconds(1) = Second /\ Seconds(0) = 0
    BY <1>1, SecondsAre
  <2>5. Pending' \in Nat /\ Pending' <= Pending
    BY <1>1, <1>4
  <2>6. CASE e = Whole
    <3>1. Shown' + Pending' <= Allowed' /\ Shown' <= Allowed'
      BY <1>1, <2>2, <2>3, <2>4, <2>5, <2>6
    <3>2. QED BY <1>3, <3>1 DEF ClockShape
  <2>7. CASE e # Whole
    <3>1. last_timestamp # 0 /\ Interval < 2 * Second
      BY <2>1, <2>7 DEF ClockShape, Interval, TypeOK
    <3>2. Interval > Second /\ Whole = 1 /\ e = 0
      BY <1>1, <2>1, <2>7, <3>1, WholeIs DEF TimeShape, TypeOK
    <3>3. Pending' = 0 /\ Pending = Second
      BY <1>1, <1>4, <3>2 DEF Pending
    <3>4. Shown' + Pending' <= Allowed' /\ Shown' <= Allowed'
      BY <1>1, <2>2, <2>3, <2>4, <3>2, <3>3
    <3>5. QED BY <1>3, <3>4 DEF ClockShape
  <2>8. QED BY <2>6, <2>7
<1>7. QED BY <1>5, <1>6 DEF TypeOK

\* The clock is never ahead of the time the switch was on by more than the
\* seconds that the rules of the interval grant it.
THEOREM ClockIsNotAhead == Spec => []ClockNotAhead
<1>1. Init => ClockShape
  <2>1. SUFFICES ASSUME Init PROVE ClockShape
    OBVIOUS
  <2>2. /\ minutes = 0 /\ seconds = 0 /\ on_time = 0 /\ excess = 0 /\ ~arm_switch
        /\ last_timestamp = 0 /\ now = Boot
    BY <2>1 DEF Init
  <2>3. Shown = 0 /\ Allowed = 0
    <3>1. Minutes(0) = 0 /\ Seconds(0) = 0 /\ 0 + 0 = 0
      BY SecondsAre, MinutesAre
    <3>2. QED BY <2>2, <3>1 DEF Shown, Allowed
  <2>4. QED BY <2>2, <2>3 DEF ClockShape
<1>2. TypeOK /\ TimeShape /\ ClockShape /\ [Next]_vars => ClockShape'
  <2>1. SUFFICES ASSUME TypeOK, TimeShape, ClockShape, [Next]_vars PROVE ClockShape'
    OBVIOUS
  <2>2. ASSUME UNCHANGED <<minutes, seconds, on_time, excess, arm_switch,
                           last_timestamp, now, drawn_at>>
        PROVE  ClockShape'
    BY <2>1, <2>2 DEF ClockShape, Shown, Allowed, Pending, Interval
  <2>3. ASSUME NEW on \in BOOLEAN, RcChannels(on) PROVE ClockShape'
    <3>1. /\ UNCHANGED <<minutes, seconds, on_time, last_timestamp, now, drawn_at>>
          /\ arm_switch' = on /\ excess' = IF on /\ ~arm_switch THEN excess + 1 ELSE excess
      BY <2>3 DEF RcChannels, clockVars
    <3>2. CASE on /\ ~arm_switch
      <4>1. /\ Shown' = Shown /\ Allowed' = Allowed + Second
            /\ Pending' = Pending
        <5>1. excess' = excess + 1
          BY <3>1, <3>2
        <5>2. on_time + Seconds(excess + 1) = Allowed + Seconds(1)
          BY <2>1, MoreSeconds
        <5>3. Allowed' = on_time + Seconds(excess + 1)
          BY <3>1, <5>1 DEF Allowed
        <5>4. Shown' = Shown /\ Pending' = Pending
          BY <3>1 DEF Shown, Pending, Interval
        <5>5. Seconds(1) = Second
          BY SecondsAre
        <5>6. QED BY <5>2, <5>3, <5>4, <5>5
      <4>2. Pending \in Nat /\ Pending <= Second /\ Shown \in Nat /\ Allowed \in Nat
        BY <2>1, WholeIs, SumsAre DEF TimeShape, TypeOK, Pending
      <4>3. Shown' <= Allowed' /\ Shown' + Pending' <= Allowed'
        BY <2>1, <4>1, <4>2 DEF ClockShape
      <4>4. QED BY <2>1, <3>1, <4>3 DEF ClockShape
    <3>3. CASE ~(on /\ ~arm_switch)
      <4>1. Shown' = Shown /\ Allowed' = Allowed /\ Pending' = Pending
        BY <3>1, <3>3 DEF Shown, Allowed, Pending, Interval
      <4>2. QED BY <2>1, <3>1, <3>3, <4>1 DEF ClockShape
    <3>4. QED BY <3>2, <3>3
  <2>4. CASE UpdateClock
    BY <2>1, <2>4, UpdateKeeps
  <2>5. CASE Show
    <3>1. /\ UNCHANGED <<on_time, excess, arm_switch, last_timestamp, now, drawn_at>>
          /\ \/ UNCHANGED <<seconds, minutes>>
             \/ /\ seconds > Minute - 1 /\ seconds' = 0
                /\ minutes' \in {minutes + 1, 0}
      BY <2>5 DEF Show, MinutesOf, mavVars
    <3>2. Shown' \in Nat /\ Shown' <= Shown
      <4>1. CASE UNCHANGED <<seconds, minutes>>
        BY <2>1, <4>1, SumsAre DEF Shown
      <4>2. CASE /\ seconds > Minute - 1 /\ seconds' = 0
                 /\ minutes' \in {minutes + 1, 0}
        <5>1. PICK m \in Nat : /\ m = Minutes(minutes)
                               /\ Minutes(minutes + 1) = m + Minute
          BY <2>1, MinutesAre DEF TypeOK
        <5>2. /\ Minutes(minutes') + seconds' \in Nat
              /\ Minutes(minutes') + seconds' <= m + seconds
          BY <2>1, <4>2, <5>1, MinutesAre DEF TypeOK
        <5>3. m + seconds \in Nat
          BY <2>1, <5>1 DEF TypeOK
        <5>4. PICK n \in Nat : n = Minutes(minutes') + seconds'
          BY <5>2
        <5>5. Seconds(n) <= Seconds(m + seconds) /\ Seconds(n) \in Nat
          BY <5>2, <5>3, <5>4, SecondsAre
        <5>6. QED BY <5>1, <5>4, <5>5 DEF Shown
      <4>3. QED BY <3>1, <4>1, <4>2
    <3>3. Allowed' = Allowed /\ Pending' = Pending
      BY <3>1 DEF Allowed, Pending, Interval
    <3>4. Pending \in Nat /\ Shown \in Nat /\ Allowed \in Nat
      BY <2>1, WholeIs, SumsAre DEF TimeShape, TypeOK, Pending
    <3>5. Shown' <= Allowed' /\ (arm_switch => Shown' + Pending' <= Allowed')
      <4>1. Shown <= Allowed /\ (arm_switch => Shown + Pending <= Allowed)
        BY <2>1 DEF ClockShape
      <4>2. /\ Shown' \in Nat /\ Shown' <= Shown
            /\ Allowed' = Allowed /\ Pending' = Pending
        BY <3>2, <3>3
      <4>3. Shown' <= Allowed'
        BY <3>4, <4>1, <4>2
      <4>4. ASSUME arm_switch PROVE Shown' + Pending' <= Allowed'
        <5>1. Shown + Pending <= Allowed
          BY <4>1, <4>4
        <5>2. PICK t \in Nat, p \in Nat, n \in Nat, a \in Nat :
                t = Shown' /\ p = Pending /\ n = Shown /\ a = Allowed
          BY <3>4, <4>2
        <5>3. t <= n /\ n + p <= a
          BY <4>2, <5>1, <5>2
        <5>4. t + p <= a
          BY <5>3
        <5>5. QED BY <4>2, <5>2, <5>4
      <4>5. QED BY <4>3, <4>4
    <3>6. QED BY <2>1, <3>1, <3>5 DEF ClockShape
  <2>6. CASE Tick
    <3>1. /\ UNCHANGED <<minutes, seconds, excess, arm_switch, last_timestamp, drawn_at>>
          /\ now' = now + 1
          /\ on_time' = IF arm_switch THEN on_time + 1 ELSE on_time
          /\ last_timestamp # 0 => now < drawn_at + FrameGap
      BY <2>6 DEF Tick, mavVars, clockVars
    <3>2. Shown' = Shown /\ Pending' <= Pending + 1 /\ Pending' \in Int
      BY <2>1, <3>1 DEF Shown, Pending, Interval, TypeOK, TimeShape
    <3>3. Allowed' = IF arm_switch THEN Allowed + 1 ELSE Allowed
      <4>1. Seconds(excess) \in Nat
        BY <2>1, SumsAre
      <4>2. QED BY <2>1, <3>1, <4>1 DEF Allowed, TypeOK
    <3>4. Pending \in Nat /\ Shown \in Nat /\ Allowed \in Nat
      BY <2>1, WholeIs, SumsAre DEF TimeShape, TypeOK, Pending
    <3>5. Shown' <= Allowed' /\ (arm_switch => Shown' + Pending' <= Allowed')
      <4>1. Shown <= Allowed /\ (arm_switch => Shown + Pending <= Allowed)
        BY <2>1 DEF ClockShape
      <4>2. CASE arm_switch
        <5>1. Allowed' = Allowed + 1 /\ Shown + Pending <= Allowed
          BY <3>3, <4>1, <4>2
        <5>2. PICK p \in Nat, q \in Int, n \in Nat, a \in Nat :
                q = Pending' /\ p = Pending /\ n = Shown /\ a = Allowed
          BY <3>2, <3>4
        <5>3. q <= p + 1 /\ n + p <= a
          BY <3>2, <5>1, <5>2
        <5>4. n + q <= a + 1 /\ n <= a + 1
          BY <5>3
        <5>5. QED BY <3>2, <5>1, <5>2, <5>4
      <4>3. CASE ~arm_switch
        <5>1. Allowed' = Allowed
          BY <3>3, <4>3
        <5>2. Shown' <= Allowed'
          BY <3>2, <4>1, <5>1
        <5>3. QED BY <4>3, <5>2
      <4>4. QED BY <4>2, <4>3
    <3>6. /\ last_timestamp' # 0 => /\ drawn_at' <= last_timestamp' + Second
                                    /\ now' <= drawn_at' + FrameGap
          /\ now' # 0
      BY <2>1, <3>1 DEF ClockShape, TypeOK
    <3>7. QED BY <3>1, <3>5, <3>6 DEF ClockShape
  <2>7. QED
    BY <2>1, <2>2, <2>3, <2>4, <2>5, <2>6
    DEF Next, ReadStats, AddToStats, Mavlink, GpsRawInt, EmptyDatagram, Osd,
        MakeDigits, PutZero, PutPoint, ReadRate, ClearStats, NothingArrives, vars,
        mavVars, clockVars
<1>3. ClockShape => ClockNotAhead
  BY DEF ClockShape, ClockNotAhead, Shown, Allowed, Seconds, Minutes
<1>4. QED BY <1>1, <1>2, <1>3, TypeHolds, PTL DEF Spec
=============================================================================
