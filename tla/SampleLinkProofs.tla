--------------------------- MODULE SampleLinkProofs ---------------------------
(***************************************************************************)
(* Proofs about SampleLink for every set of NALs, both datagram sizes and  *)
(* every number of datagrams lost, doubled and overtaken.  Sender, network *)
(* and the pieces of a NAL are VideoLinkProofs'; here is what the two      *)
(* samples make of them, and how the relay cuts again.                     *)
(***************************************************************************)
EXTENDS SampleLink, VideoLinkProofs

-----------------------------------------------------------------------------
(***************************************************************************)
(* The buffer as memory.                                                   *)
(***************************************************************************)
\* The first items of a sequence joined from two.
LEMMA PrefixIs ==
  ASSUME NEW S, NEW s \in Seq(S), NEW t \in Seq(S)
  PROVE  SubSeq(s \o t, 1, Len(s)) = s
<1>1. PICK m \in Nat, n \in Nat : m = Len(s) /\ n = Len(t)
  BY LenProperties
<1>2. PICK u : u = s \o t
  OBVIOUS
<1>3. /\ u \in Seq(S) /\ Len(u) = m + n /\ \A i \in 1..m : u[i] = s[i]
  BY <1>1, <1>2, JoinedIs
<1>4. PICK v : v = SubSeq(u, 1, m)
  OBVIOUS
<1>5. v \in Seq(S) /\ Len(v) = m /\ \A i \in 1..m : v[i] = u[i]
  <2>1. 1 \in Int /\ m \in Int /\ \A i \in 1..m : u[i] \in S
    BY <1>3, <1>1, ElementOfSeq
  <2>2. /\ v \in Seq(S) /\ Len(v) = IF 1 <= m THEN m - 1 + 1 ELSE 0
        /\ \A i \in 1..(m - 1 + 1) : v[i] = u[1 + i - 1]
    BY <1>4, <2>1, SubSeqProperties
  <2>3. Len(v) = m /\ m - 1 + 1 = m /\ \A i \in 1..m : 1 + i - 1 = i
    BY <2>2
  <2>4. QED BY <2>2, <2>3
<1>6. Len(v) = Len(s) /\ \A i \in 1..Len(v) : v[i] = s[i]
  BY <1>1, <1>3, <1>5
<1>7. v = s
  BY <1>5, <1>6, SeqEqual
<1>8. QED BY <1>1, <1>2, <1>4, <1>7

\* The first items of a sequence.
LEMMA FrontIs ==
  ASSUME NEW S, NEW s \in Seq(S), NEW m \in 0..Len(s)
  PROVE  /\ SubSeq(s, 1, m) \in Seq(S) /\ Len(SubSeq(s, 1, m)) = m
         /\ \A i \in 1..m : SubSeq(s, 1, m)[i] = s[i]
<1>1. PICK v : v = SubSeq(s, 1, m)
  OBVIOUS
<1>2. m \in Nat /\ m <= Len(s) /\ Len(s) \in Nat
  BY LenProperties
<1>3. 1 \in Int /\ m \in Int /\ \A i \in 1..m : s[i] \in S
  BY <1>2, ElementOfSeq
<1>4. /\ v \in Seq(S) /\ Len(v) = IF 1 <= m THEN m - 1 + 1 ELSE 0
      /\ \A i \in 1..(m - 1 + 1) : v[i] = s[1 + i - 1]
  BY <1>1, <1>3, SubSeqProperties
<1>5. Len(v) = m /\ m - 1 + 1 = m /\ \A i \in 1..m : 1 + i - 1 = i
  BY <1>2, <1>4
<1>6. QED BY <1>1, <1>4, <1>5

\* The last ones, or none.
LEMMA BackIs ==
  ASSUME NEW S, NEW s \in Seq(S), NEW m \in Nat
  PROVE  /\ SubSeq(s, m + 1, Len(s)) \in Seq(S)
         /\ Len(SubSeq(s, m + 1, Len(s))) = IF m <= Len(s) THEN Len(s) - m ELSE 0
<1>1. PICK l \in Nat, k \in Nat : l = Len(s) /\ k = m + 1
  BY LenProperties
<1>2. PICK v : v = SubSeq(s, k, l)
  OBVIOUS
<1>3. k \in Int /\ l \in Int /\ \A i \in k..l : s[i] \in S
  <2>1. \A i \in k..l : i \in 1..l
    BY <1>1
  <2>2. QED BY <1>1, <2>1, ElementOfSeq
<1>4. v \in Seq(S) /\ Len(v) = IF k <= l THEN l - k + 1 ELSE 0
  BY <1>2, <1>3, SubSeqProperties
<1>5. Len(v) = IF m <= l THEN l - m ELSE 0
  BY <1>1, <1>4
<1>6. QED BY <1>1, <1>2, <1>4, <1>5

\* What was written is read back behind what was there before it.
LEMMA WrittenIs ==
  ASSUME NEW buf \in Seq(Cell), NEW s \in Seq(Cell), NEW at \in 0..Len(buf),
         NEW w, w = Written(buf, at, s)
  PROVE  /\ w \in Seq(Cell) /\ Len(buf) <= Len(w) /\ at + Len(s) \in 0..Len(w)
         /\ SubSeq(w, 1, at + Len(s)) = SubSeq(buf, 1, at) \o s
<1>1. PICK l \in Nat, m \in Nat : l = Len(buf) /\ m = Len(s) /\ at \in Nat /\ at <= l
  BY LenProperties
<1>2. PICK a, b : a = SubSeq(buf, 1, at) /\ b = SubSeq(buf, at + m + 1, l)
  OBVIOUS
<1>3. a \in Seq(Cell) /\ Len(a) = at
  BY <1>1, <1>2, FrontIs
<1>4. b \in Seq(Cell) /\ Len(b) = IF at + m <= l THEN l - (at + m) ELSE 0
  <2>1. PICK k \in Nat : k = at + m
    BY <1>1
  <2>2. /\ SubSeq(buf, k + 1, l) \in Seq(Cell)
        /\ Len(SubSeq(buf, k + 1, l)) = IF k <= l THEN l - k ELSE 0
    BY <1>1, BackIs
  <2>3. QED BY <1>2, <2>1, <2>2
<1>5. PICK c : c = a \o s
  OBVIOUS
<1>6. c \in Seq(Cell) /\ Len(c) = at + m
  BY <1>1, <1>3, <1>5, JoinedIs
<1>7. w = c \o b
  BY <1>1, <1>2, <1>5 DEF Written
<1>8. PICK n \in Nat, q \in Nat : n = Len(c) /\ q = Len(b)
  BY <1>4, <1>6, LenProperties
<1>9. n = at + m /\ q = IF at + m <= l THEN l - (at + m) ELSE 0
  BY <1>4, <1>6, <1>8
<1>10. w \in Seq(Cell) /\ Len(w) = n + q
  <2>1. c \o b \in Seq(Cell) /\ Len(c \o b) = Len(c) + Len(b)
    BY <1>4, <1>6, JoinedIs
  <2>2. QED BY <1>7, <1>8, <2>1
<1>11. l <= n + q /\ n \in 0..(n + q)
  <2>1. CASE at + m <= l
    <3>1. n <= l /\ q = l - n
      BY <1>9, <2>1
    <3>2. QED BY <3>1
  <2>2. CASE ~(at + m <= l)
    <3>1. ~(n <= l) /\ q = 0
      BY <1>9, <2>2
    <3>2. QED BY <3>1
  <2>3. QED BY <2>1, <2>2
<1>12. SubSeq(w, 1, n) = c
  <2>1. SubSeq(c \o b, 1, Len(c)) = c
    BY <1>4, <1>6, PrefixIs
  <2>2. QED BY <1>7, <1>8, <2>1
<1>13. at + Len(s) = n
  BY <1>1, <1>9
<1>14. QED BY <1>1, <1>2, <1>5, <1>10, <1>11, <1>12, <1>13

\* Rewriting the header in the memory rewrites it in what is kept of it.
LEMMA RewrittenFront ==
  ASSUME NEW buf \in Seq(Cell), NEW h \in Seq(Byte), NEW at \in 0..Len(buf)
  PROVE  /\ Rewritten(buf, h) \in Seq(Cell) /\ Len(Rewritten(buf, h)) = Len(buf)
         /\ SubSeq(Rewritten(buf, h), 1, at) = Rewritten(SubSeq(buf, 1, at), h)
<1>1. PICK l \in Nat : l = Len(buf) /\ at \in Nat /\ at <= l
  BY LenProperties
<1>2. PICK w : w = Rewritten(buf, h)
  OBVIOUS
<1>3. /\ w \in Seq(Cell) /\ Len(w) = l
      /\ \A k \in 1..l : w[k] = IF k - 4 \in 1..Len(h) THEN <<0, h[k - 4]>> ELSE buf[k]
  BY <1>1, <1>2, RewrittenIs
<1>4. PICK x, y : x = SubSeq(w, 1, at) /\ y = SubSeq(buf, 1, at)
  OBVIOUS
<1>5. x \in Seq(Cell) /\ Len(x) = at /\ \A k \in 1..at : x[k] = w[k]
  <2>1. at \in 0..Len(w)
    BY <1>1, <1>3
  <2>2. QED BY <1>3, <1>4, <2>1, FrontIs
<1>6. y \in Seq(Cell) /\ Len(y) = at /\ \A k \in 1..at : y[k] = buf[k]
  BY <1>4, FrontIs
<1>7. PICK z : z = Rewritten(y, h)
  OBVIOUS
<1>8. /\ z \in Seq(Cell) /\ Len(z) = at
      /\ \A k \in 1..at : z[k] = IF k - 4 \in 1..Len(h) THEN <<0, h[k - 4]>> ELSE y[k]
  BY <1>6, <1>7, RewrittenIs
<1>9. \A k \in 1..at : k \in 1..l
  BY <1>1
<1>10. Len(x) = Len(z) /\ \A k \in 1..Len(x) : x[k] = z[k]
  BY <1>3, <1>5, <1>6, <1>8, <1>9
<1>11. x = z
  BY <1>5, <1>8, <1>10, SeqEqual
<1>12. QED BY <1>1, <1>2, <1>3, <1>4, <1>7, <1>11

\* Written over from the start, the memory begins with what was written.
LEMMA WrittenFirst ==
  ASSUME NEW buf \in Seq(Cell), NEW s \in Seq(Cell), NEW w, w = Written(buf, 0, s)
  PROVE  /\ w \in Seq(Cell) /\ Len(buf) <= Len(w) /\ Len(s) \in 0..Len(w)
         /\ SubSeq(w, 1, Len(s)) = s
<1>1. PICK m \in Nat : m = Len(s)
  BY LenProperties
<1>2. 0 \in 0..Len(buf)
  BY LenProperties
<1>3. /\ w \in Seq(Cell) /\ Len(buf) <= Len(w) /\ 0 + m \in 0..Len(w)
      /\ SubSeq(w, 1, 0 + m) = SubSeq(buf, 1, 0) \o s
  BY <1>1, <1>2, WrittenIs
<1>4. 0 + m = m
  BY <1>1
<1>5. PICK a : a = SubSeq(buf, 1, 0)
  OBVIOUS
<1>6. a \in Seq(Cell) /\ Len(a) = 0
  BY <1>2, <1>5, FrontIs
<1>7. a \o s = s
  <2>1. a = <<>>
    BY <1>6
  <2>2. QED BY <2>1
<1>8. QED BY <1>1, <1>3, <1>4, <1>5, <1>7

-----------------------------------------------------------------------------
(***************************************************************************)
(* What decode_frame of the samples makes of a datagram.                   *)
(***************************************************************************)
\* What is collected of a NAL that was cut.
Collection == SubSeq(nal_buffer, 1, nal_size)

MemoryType ==
  /\ nal_buffer \in Seq(Cell) /\ delivered \in Seq(Seq(Cell))
  /\ nal_size \in 0..Len(nal_buffer)

\* What the datagram's part of its NAL becomes: x, returned or collected.  It
\* reads as that NAL from the start when the collection did up to there.
Joins(d, x) ==
  /\ x \in Seq(Cell)
  /\ nal_buffer' \in Seq(Cell) /\ nal_size' \in 0..Len(nal_buffer')
  /\ IF Complete(d)
       THEN /\ Result(d) = Len(x) /\ Len(x) \in 1..Len(nal_buffer')
            /\ SubSeq(nal_buffer', 1, Len(x)) = x
       ELSE Result(d) = 0 /\ Collection' = x
  /\ First(d) \/ Reads(Collection, d.nal, d.from) =>
       IF Complete(d) THEN x = Intact(d.nal) ELSE Reads(x, d.nal, d.to)

\* A NAL has its start code at least.
LEMMA IntactIsLong ==
  ASSUME TypeOK, NEW n \in DOMAIN nals
  PROVE  Len(Intact(n)) # 0
<1>1. PICK p \in Packs : p = nals[n]
  BY ElementOfSeq DEF TypeOK
<1>2. PICK h \in Seq(Byte), to \in Nat : h = p.head /\ to = p.len /\ Len(h) <= to
  BY PackIs DEF HeaderSize
<1>3. n \in Nat
  BY LenProperties DEF TypeOK
<1>4. Len(Begins(h, n, to)) = 4 + to
  BY <1>2, <1>3, BeginsIs DEF ReadsAs
<1>5. 4 + to # 0
  BY <1>2
<1>6. QED BY <1>1, <1>2, <1>4, <1>5, IntactIs

LEMMA JoinWholeIs ==
  ASSUME TypeOK, MemoryType, NEW d, Made(d), JoinWhole(d)
  PROVE  \E x : Joins(d, x)
<1>1. PICK x : x = NalIn(d)
  OBVIOUS
<1>2. ~IsFragment(d.head[1]) /\ nal_size' = nal_size
  BY DEF JoinWhole
<1>3. First(d) /\ Complete(d) /\ x \in Seq(Cell) /\ x = Intact(d.nal)
  BY <1>1, <1>2, WholePart DEF NalIn
<1>4. PICK buf, w : buf \in Seq(Cell) /\ buf = nal_buffer /\ w = nal_buffer'
  <2>1. nal_buffer \in Seq(Cell)
    BY DEF MemoryType
  <2>2. QED BY <2>1
<1>5. w = Written(buf, 0, x)
  BY <1>1, <1>4 DEF JoinWhole
<1>6. /\ w \in Seq(Cell) /\ Len(buf) <= Len(w) /\ Len(x) \in 0..Len(w)
      /\ SubSeq(w, 1, Len(x)) = x
  BY <1>3, <1>4, <1>5, WrittenFirst
<1>7. nal_size' \in 0..Len(w)
  <2>1. nal_size \in 0..Len(buf) /\ Len(buf) \in Nat /\ Len(w) \in Nat
    BY <1>4, <1>6, LenProperties DEF MemoryType
  <2>2. QED BY <1>2, <1>6, <2>1
<1>8. Result(d) = Len(x)
  BY <1>1, <1>2 DEF Result
<1>9. Len(x) \in 1..Len(w)
  <2>1. Len(x) # 0
    BY <1>3, IntactIsLong DEF Made
  <2>2. Len(x) \in Nat /\ Len(w) \in Nat
    BY <1>3, <1>6, LenProperties
  <2>3. QED BY <1>6, <2>1, <2>2
<1>10. QED BY <1>3, <1>4, <1>6, <1>7, <1>8, <1>9 DEF Joins

LEMMA JoinFirstIs ==
  ASSUME TypeOK, MemoryType, NEW d, Made(d), JoinFirst(d)
  PROVE  \E x : Joins(d, x)
<1>1. PICK x : x = Begun(d)
  OBVIOUS
<1>2. IsFragment(d.head[1]) /\ StartBit(FuOf(d)) /\ nal_size' = Len(x)
  BY <1>1 DEF JoinFirst, Collected
<1>3. First(d) /\ ~Complete(d) /\ x \in Seq(Cell) /\ Reads(x, d.nal, d.to)
  BY <1>1, <1>2, FirstPart
<1>4. PICK buf, w : buf \in Seq(Cell) /\ buf = nal_buffer /\ w = nal_buffer'
  <2>1. nal_buffer \in Seq(Cell)
    BY DEF MemoryType
  <2>2. QED BY <2>1
<1>5. w = Written(buf, 0, x)
  BY <1>1, <1>4 DEF JoinFirst
<1>6. /\ w \in Seq(Cell) /\ Len(x) \in 0..Len(w)
      /\ SubSeq(w, 1, Len(x)) = x
  BY <1>3, <1>4, <1>5, WrittenFirst
<1>7. Collection' = x
  BY <1>2, <1>4, <1>6 DEF Collection
<1>8. Result(d) = 0
  BY <1>2 DEF Result
<1>9. QED BY <1>2, <1>3, <1>4, <1>6, <1>7, <1>8 DEF Joins

LEMMA JoinNextIs ==
  ASSUME TypeOK, MemoryType, NEW d, Made(d), JoinNext(d)
  PROVE  \E x : Joins(d, x)
<1>1. PICK p, n, from, to, m : PartOf(d, p, n, from, to, m)
  BY PartIs
<1>2. /\ IsFragment(d.head[1]) /\ ~StartBit(FuOf(d)) /\ RebuiltHead(d) = p.head
  BY <1>1 DEF JoinNext, Made, PartOf
<1>3. PICK h, s : h \in Seq(Byte) /\ h = RebuiltHead(d) /\ s = Payload(d)
  BY <1>1, <1>2 DEF PartOf
<1>4. PICK q \in Nat : q = to - from /\ q >= 1
  <2>1. to - from \in Nat /\ to - from >= 1
    BY <1>1 DEF PartOf
  <2>2. QED BY <2>1
<1>5. s \in Seq(Cell) /\ Len(s) = q
  <2>1. IsInterval(Bytes(n, from, to), n, from, q)
    BY <1>1, <1>4, BytesAre DEF PartOf
  <2>2. s = Bytes(n, from, to)
    BY <1>1, <1>3 DEF PartOf, Payload
  <2>3. QED BY <2>1, <2>2 DEF IsInterval
<1>6. PICK buf, at, front :
        /\ buf \in Seq(Cell) /\ buf = nal_buffer /\ at = nal_size /\ front = Collection
        /\ at \in 0..Len(buf)
  <2>1. nal_buffer \in Seq(Cell) /\ nal_size \in 0..Len(nal_buffer)
    BY DEF MemoryType
  <2>2. QED BY <2>1
<1>7. front = SubSeq(buf, 1, at) /\ front \in Seq(Cell) /\ Len(front) = at
  BY <1>6, FrontIs DEF Collection
<1>8. PICK y : y = Rewritten(buf, h)
  OBVIOUS
<1>9. y \in Seq(Cell) /\ at \in 0..Len(y) /\ SubSeq(y, 1, at) = Rewritten(front, h)
  <2>1. /\ Rewritten(buf, h) \in Seq(Cell) /\ Len(Rewritten(buf, h)) = Len(buf)
        /\ SubSeq(Rewritten(buf, h), 1, at) = Rewritten(SubSeq(buf, 1, at), h)
    BY <1>3, <1>6, RewrittenFront, Zenon
  <2>2. QED BY <1>6, <1>7, <1>8, <2>1
<1>10. PICK w, x : w = Written(y, at, s) /\ x = Rewritten(front, h) \o s
  OBVIOUS
<1>11. /\ w \in Seq(Cell) /\ at + q \in 0..Len(w) /\ SubSeq(w, 1, at + q) = x
  <2>1. /\ w \in Seq(Cell) /\ at + Len(s) \in 0..Len(w)
        /\ SubSeq(w, 1, at + Len(s)) = SubSeq(y, 1, at) \o s
    BY <1>5, <1>9, <1>10, WrittenIs
  <2>2. QED BY <1>5, <1>9, <1>10, <2>1
<1>12. w = nal_buffer' /\ nal_size' = at + q
  BY <1>3, <1>5, <1>6, <1>8, <1>10 DEF JoinNext
<1>13. /\ ~First(d) /\ (EndBit(FuOf(d)) <=> Complete(d)) /\ x \in Seq(Cell)
       /\ Reads(front, d.nal, d.from) =>
            IF Complete(d) THEN x = Intact(d.nal) ELSE Reads(x, d.nal, d.to)
  BY <1>2, <1>3, <1>7, <1>10, NextPart
<1>14. Len(x) = at + q
  <2>1. Rewritten(front, h) \in Seq(Cell) /\ Len(Rewritten(front, h)) = Len(front)
    BY <1>3, <1>7, RewrittenIs
  <2>2. Len(Rewritten(front, h) \o s) = Len(Rewritten(front, h)) + Len(s)
    BY <1>5, <2>1, JoinedIs
  <2>3. QED BY <1>5, <1>7, <1>10, <2>1, <2>2
<1>15. at + q \in 1..Len(w)
  <2>1. at \in Nat /\ Len(w) \in Nat
    BY <1>6, <1>11, LenProperties
  <2>2. QED BY <1>4, <1>11, <2>1
<1>16. CASE Complete(d)
  <2>1. Result(d) = at + q
    BY <1>2, <1>12, <1>13, <1>16 DEF Result
  <2>2. QED BY <1>6, <1>11, <1>12, <1>13, <1>14, <1>15, <1>16, <2>1 DEF Joins
<1>17. CASE ~Complete(d)
  <2>1. Result(d) = 0
    BY <1>2, <1>13, <1>17 DEF Result
  <2>2. Collection' = x
    BY <1>11, <1>12 DEF Collection
  <2>3. QED BY <1>6, <1>11, <1>12, <1>13, <1>17, <2>1, <2>2 DEF Joins
<1>18. QED BY <1>16, <1>17

LEMMA JoinIs ==
  ASSUME TypeOK, MemoryType, NEW d, Made(d), Join(d)
  PROVE  \E x : Joins(d, x)
BY JoinWholeIs, JoinFirstIs, JoinNextIs DEF Join


-----------------------------------------------------------------------------
(***************************************************************************)
(* What a step is of: the sender and the network, one datagram received,   *)
(* or one sent on.                                                         *)
(***************************************************************************)
Waits == UNCHANGED <<nal_buffer, delivered, arrived, sampleRest>>

\* The datagram in place i is received and goes to one program's decode_frame.
Received(i) ==
  /\ Fetched(i) /\ program' = program
  /\ \/ program = "vdec-sample" /\ RelayDecode(net[i]) /\ UNCHANGED nal_start
     \/ program = "vdec-stdout" /\ StdoutDecode(net[i]) /\ UNCHANGED relayVars

Sends == CreateFragment /\ UNCHANGED <<arrived, nal_start, program>>

SampleKind == Grown /\ (Waits \/ Sends \/ \E i : Received(i))

LEMMA SampleReceiveIs ==
  ASSUME NetInv, SampleReceive
  PROVE  NetInv' /\ \E i : Received(i)
<1>1. PICK i \in DOMAIN net :
        /\ net' = RemoveAt(net, i)
        /\ \E d \in Unwrapped(Truncate(net[i])) :
               \/ program = "vdec-sample" /\ RelayDecode(d) /\ UNCHANGED nal_start
               \/ program = "vdec-stdout" /\ StdoutDecode(d) /\ UNCHANGED relayVars
        /\ arrived' = Append(arrived, net[i])
        /\ senderRest' = senderRest /\ lost' = lost /\ program' = program
  BY DEF SampleReceive, faultVars
<1>2. SenderInv' /\ SenderStill
  BY <1>1, RemovedIs, KeepsNet DEF NetInv
<1>3. Fetched(i)
  BY <1>1, <1>2 DEF Fetched
<1>4. NetInv'
  BY <1>2, <1>3, NetFetched
<1>5. Unwrapped(Truncate(net[i])) = {net[i]}
  <2>1. PICK d : d = net[i]
    OBVIOUS
  <2>2. Made(d)
    <3>1. PICK s, L : Comes(net[i], s, L)
      BY <1>3, ComesIs
    <3>2. QED BY <2>1, <3>1 DEF Comes
  <2>3. TypeOK
    BY DEF NetInv, SenderInv, IInv
  <2>4. QED BY <2>1, <2>2, <2>3, ReadAsMade
<1>6. Received(i)
  BY <1>1, <1>3, <1>5 DEF Received
<1>7. QED BY <1>4, <1>6

LEMMA SampleStep ==
  ASSUME NetInv, [SampleNext]_sampleVars
  PROVE  NetInv' /\ SampleKind
<1>1. CASE (Send /\ UNCHANGED sampleRest) \/ UNCHANGED sampleVars
  <2>1. (Send \/ UNCHANGED linkVars) /\ UNCHANGED sampleRest
    BY <1>1 DEF sampleVars
  <2>2. /\ NetInv' /\ (Quiet \/ \E d : Carried(d))
        /\ UNCHANGED <<nal_buffer, delivered, arrived>>
    BY <2>1, SendStep
  <2>3. QED BY <2>1, <2>2, KindGrows DEF SampleKind, Waits
<1>2. CASE (Lose \/ Duplicate) /\ UNCHANGED sampleRest
  <2>1. /\ NetInv' /\ \E i : Lost(i) \/ Doubled(i)
        /\ UNCHANGED <<nal_buffer, delivered, arrived>>
    BY <1>2, FaultStep
  <2>2. QED BY <1>2, <2>1, KindGrows DEF SampleKind, Waits
<1>3. CASE SampleReceive
  <2>1. NetInv' /\ \E i : Received(i)
    BY <1>3, SampleReceiveIs
  <2>2. QED BY <2>1, KindGrows DEF SampleKind, Received
<1>4. CASE SendOn
  <2>1. UNCHANGED linkVars
    BY <1>4 DEF SendOn, CreateFragment, RelayWhole, RelayFragment, linkVars
  <2>2. NetInv' /\ (Quiet \/ \E d : Carried(d))
    BY <2>1, SendStep
  <2>3. Sends
    BY <1>4 DEF SendOn, Sends
  <2>4. QED BY <2>2, <2>3, KindGrows DEF SampleKind
<1>5. QED BY <1>1, <1>2, <1>3, <1>4 DEF SampleNext

\* What is received, as values: the datagram, what arrived before it, and what
\* becomes of its part, which one program returns to its main.
Reception(d, s, L, x) ==
  /\ Comes(d, s, L) /\ Joins(d, x) /\ Join(d) /\ program' = program
  /\ \/ program = "vdec-sample" /\ RelayDecode(d) /\ UNCHANGED nal_start
     \/ program = "vdec-stdout" /\ StdoutDecode(d) /\ UNCHANGED relayVars

LEMMA ReceptionIs ==
  ASSUME NetInv, MemoryType, NEW i, Received(i)
  PROVE  \E d, s, L, x : Reception(d, s, L, x)
<1>1. PICK d : d = net[i]
  OBVIOUS
<1>2. PICK s, L : Comes(d, s, L)
  BY <1>1, ComesIs DEF Received
<1>3. /\ \/ program = "vdec-sample" /\ RelayDecode(d) /\ UNCHANGED nal_start
         \/ program = "vdec-stdout" /\ StdoutDecode(d) /\ UNCHANGED relayVars
      /\ program' = program
  BY <1>1 DEF Received
<1>4. Join(d)
  BY <1>3 DEF RelayDecode, StdoutDecode
<1>5. PICK x : Joins(d, x)
  BY <1>2, <1>4, JoinIs DEF Comes, NetInv, SenderInv, IInv
<1>6. QED BY <1>2, <1>3, <1>4, <1>5 DEF Reception


-----------------------------------------------------------------------------
(***************************************************************************)
(* A NAL that arrives whole, and what vdec-stdout writes first.            *)
(***************************************************************************)
\* A NAL that is complete goes on, from the first parameter set on if to stdout.
HandsOn == program = "vdec-stdout" => nal_start

\* What is held after datagram d of a NAL that is read from its start.
JoinOutcome(d) ==
  IF Complete(d) THEN HandsOn => delivered # <<>> /\ Last(delivered) = Intact(d.nal)
                 ELSE Reads(Collection, d.nal, d.to)

JoinShape ==
  \A i \in DOMAIN arrived : Run(i) => JoinOutcome(arrived[Len(arrived)])

StartShape ==
  program = "vdec-stdout" =>
    \A k \in DOMAIN arrived : ParameterSet(arrived[k].nal) => nal_start

OpenShape ==
  program = "vdec-stdout" =>
    IF nal_start THEN /\ delivered # <<>>
                      /\ \E n \in DOMAIN nals : PassesForOne(n) /\ delivered[1] = Intact(n)
                 ELSE delivered = <<>>

SBase == /\ NetInv /\ MemoryType /\ nal_start \in BOOLEAN
         /\ program \in {"vdec-sample", "vdec-stdout"}

LEMMA HandedIs ==
  ASSUME NEW d, NEW s, NEW L, NEW x, Reception(d, s, L, x)
  PROVE  IF Complete(d) /\ HandsOn' THEN delivered' = Append(delivered, x)
                                    ELSE delivered' = delivered
<1>1. /\ Joins(d, x) /\ program' = program
      /\ \/ program = "vdec-sample" /\ RelayDecode(d) /\ UNCHANGED nal_start
         \/ program = "vdec-stdout" /\ StdoutDecode(d) /\ UNCHANGED relayVars
  BY DEF Reception
<1>2. PICK r : r = Result(d)
  OBVIOUS
<1>3. IF Complete(d) THEN r = Len(x) /\ r # 0 /\ SubSeq(nal_buffer', 1, r) = x
                     ELSE r = 0
  <2>1. CASE Complete(d)
    <3>1. r = Len(x) /\ Len(x) \in 1..Len(nal_buffer') /\ SubSeq(nal_buffer', 1, Len(x)) = x
      BY <1>1, <1>2, <2>1 DEF Joins
    <3>2. Len(x) # 0
      BY <3>1
    <3>3. QED BY <2>1, <3>1, <3>2
  <2>2. CASE ~Complete(d)
    BY <1>1, <1>2, <2>2 DEF Joins
  <2>3. QED BY <2>1, <2>2
<1>4. CASE program = "vdec-sample"
  <2>1. IF r = 0 THEN delivered' = delivered
                 ELSE delivered' = Append(delivered, SubSeq(nal_buffer', 1, r))
    BY <1>1, <1>2, <1>4 DEF RelayDecode, GoOn, Return
  <2>2. HandsOn'
    BY <1>1, <1>4 DEF HandsOn
  <2>3. QED BY <1>3, <2>1, <2>2
<1>5. CASE program = "vdec-stdout"
  <2>1. delivered' = IF r # 0 /\ nal_start'
                       THEN Append(delivered, SubSeq(nal_buffer', 1, r)) ELSE delivered
    BY <1>1, <1>2, <1>5 DEF StdoutDecode
  <2>2. HandsOn' <=> nal_start'
    BY <1>1, <1>5 DEF HandsOn
  <2>3. QED BY <1>3, <2>1, <2>2
<1>6. QED BY <1>1, <1>4, <1>5

LEMMA BaseReceived ==
  ASSUME SBase, NEW d, NEW s, NEW L, NEW x, Reception(d, s, L, x), NetInv'
  PROVE  SBase'
<1>1. PICK v \in Seq(Seq(Cell)) : v = delivered
  BY DEF SBase, MemoryType
<1>2. x \in Seq(Cell) /\ nal_buffer' \in Seq(Cell) /\ nal_size' \in 0..Len(nal_buffer')
  BY DEF Reception, Joins
<1>3. delivered' = v \/ delivered' = Append(v, x)
  BY <1>1, HandedIs
<1>4. Append(v, x) \in Seq(Seq(Cell))
  BY <1>2
<1>5. MemoryType'
  BY <1>1, <1>2, <1>3, <1>4 DEF MemoryType
<1>6. nal_start' \in BOOLEAN
  BY DEF Reception, StdoutDecode, Seen, SBase
<1>7. QED BY <1>5, <1>6 DEF SBase, Reception

\* What a datagram brings that begins its NAL, or finds it collected up to there.
LEMMA JoinOutcomeOf ==
  ASSUME SBase, Grown, NEW d, NEW s, NEW L, NEW x, Reception(d, s, L, x),
         First(d) \/ Reads(Collection, d.nal, d.from)
  PROVE  JoinOutcome(d)'
<1>1. Made(d) /\ Joins(d, x)
  BY DEF Reception, Comes
<1>2. /\ d.nal \in DOMAIN nals /\ (Complete(d)' <=> Complete(d))
  BY <1>1, MadeKept DEF Made
<1>3. PICK n, to : n = d.nal /\ to = d.to
  OBVIOUS
<1>4. CASE Complete(d)
  <2>1. SUFFICES ASSUME HandsOn'
                 PROVE  delivered' # <<>> /\ Last(delivered)' = Intact(n)'
    BY <1>2, <1>3, <1>4 DEF JoinOutcome, Intact
  <2>2. delivered' = Append(delivered, x) /\ x = Intact(n) /\ x \in Seq(Cell)
    BY <1>1, <1>3, <1>4, <2>1, HandedIs DEF Joins
  <2>3. PICK u, v : u = delivered' /\ v = delivered
    OBVIOUS
  <2>4. u # <<>> /\ u[Len(u)] = x
    <3>1. v \in Seq(Seq(Cell)) /\ u = Append(v, x)
      BY <2>2, <2>3 DEF SBase, MemoryType
    <3>2. u \in Seq(Seq(Cell)) /\ Len(u) = Len(v) + 1 /\ u[Len(v) + 1] = x
      BY <2>2, <3>1, AppendProperties
    <3>3. Len(v) \in Nat
      BY <3>1, LenProperties
    <3>4. Len(u) # 0
      BY <3>2, <3>3
    <3>5. QED BY <3>2, <3>3, <3>4
  <2>5. Intact(n)' = Intact(n)
    BY <1>2, <1>3, ReadsKept
  <2>6. QED BY <2>2, <2>3, <2>4, <2>5 DEF Last
<1>5. CASE ~Complete(d)
  <2>1. Collection' = x /\ Reads(x, n, to)
    BY <1>1, <1>3, <1>5 DEF Joins
  <2>2. Reads(x, n, to)'
    BY <1>2, <1>3, <2>1, ReadsKept
  <2>3. Reads(Collection, d.nal, d.to)'
    BY <1>3, <2>1, <2>2 DEF Reads, HeaderSize
  <2>4. QED BY <1>2, <1>5, <2>3 DEF JoinOutcome
<1>6. QED BY <1>4, <1>5

LEMMA JoinReceived ==
  ASSUME SBase, JoinShape, Grown, NEW d, NEW s, NEW L, NEW x, Reception(d, s, L, x)
  PROVE  JoinShape'
<1>1. /\ Comes(d, s, L) /\ L \in Nat /\ s = arrived /\ L = Len(s) /\ DOMAIN s = 1..L
      /\ Len(arrived') = L + 1 /\ DOMAIN arrived' = 1..(L + 1) /\ arrived'[L + 1] = d
  BY DEF Reception, Comes
<1>2. SUFFICES ASSUME NEW j \in 1..(L + 1), Run(j)' PROVE JoinOutcome(d)'
  BY <1>1 DEF JoinShape
<1>3. First(d) \/ Reads(Collection, d.nal, d.from)
  <2>1. SUFFICES ASSUME ~First(d) PROVE Reads(Collection, d.nal, d.from)
    OBVIOUS
  <2>2. /\ j \in 1..L /\ L \in 1..L /\ Run(j) /\ ~Complete(s[L])
        /\ s[L].nal = d.nal /\ s[L].to = d.from
    BY <1>1, <1>2, <2>1, RunComes DEF SBase
  <2>3. JoinOutcome(s[L])
    BY <1>1, <2>2 DEF JoinShape
  <2>4. QED BY <2>2, <2>3 DEF JoinOutcome
<1>4. QED BY <1>3, JoinOutcomeOf

LEMMA JoinKept ==
  ASSUME SBase, JoinShape, Grown,
         UNCHANGED <<nal_buffer, nal_size, delivered, arrived, nal_start, program>>
  PROVE  JoinShape'
<1>1. SUFFICES ASSUME NEW i \in DOMAIN arrived, Run(i)'
               PROVE  JoinOutcome(arrived[Len(arrived)])'
  BY DEF JoinShape
<1>2. PICK d : d = arrived[Len(arrived)]
  OBVIOUS
<1>3. JoinOutcome(d) /\ Made(d)
  BY <1>1, <1>2, RunStays DEF JoinShape, SBase
<1>4. /\ d.nal \in DOMAIN nals /\ (Complete(d)' <=> Complete(d))
  BY <1>3, MadeKept DEF Made
<1>5. PICK n, b, to : n = d.nal /\ b = Collection /\ to = d.to
  OBVIOUS
<1>6. Intact(n)' = Intact(n) /\ (Reads(b, n, to)' <=> Reads(b, n, to))
  BY <1>4, <1>5, ReadsKept
<1>7. HandsOn' = HandsOn /\ Collection' = b
  BY <1>5 DEF HandsOn, Collection
<1>8. Reads(Collection, d.nal, d.to)' <=> Reads(Collection, d.nal, d.to)
  BY <1>5, <1>6, <1>7 DEF Reads, HeaderSize
<1>9. JoinOutcome(d)'
  BY <1>3, <1>4, <1>5, <1>6, <1>7, <1>8 DEF JoinOutcome, Intact
<1>10. QED
  BY <1>2, <1>9 DEF JoinOutcome, Complete, Reads, Intact, HeaderSize, Collection, HandsOn


\* No fragment looks like a parameter set.
LEMMA FragmentPassesNot ==
  ASSUME NEW b \in Byte, IsFragment(b)
  PROVE  AvcType(b) # 7 /\ HevcType(b) # 32
<1>1. b \in 0..255
  BY DEF Byte
<1>2. CASE b % 32 = 28
  BY <1>1, <1>2 DEF AvcType, HevcType
<1>3. CASE (b \div 2) % 64 = 49
  BY <1>1, <1>3 DEF AvcType, HevcType
<1>4. QED
  BY <1>2, <1>3 DEF IsFragment, IsAvcFragment, IsHevcFragment, AvcType, HevcType

\* What passes for a parameter set came whole; a real one does.
LEMMA PassingIs ==
  ASSUME TypeOK, NEW d, Made(d)
  PROVE  /\ AvcType(d.head[1]) = 7 \/ HevcType(d.head[1]) = 32 =>
              First(d) /\ Complete(d) /\ PassesForOne(d.nal)
         /\ ParameterSet(d.nal) => AvcType(d.head[1]) = 7 \/ HevcType(d.head[1]) = 32
<1>1. PICK p \in Packs : p = nals[d.nal]
  BY PartIs DEF PartOf
<1>2. CASE ~IsFragment(d.head[1])
  <2>1. d.head = p.head /\ First(d) /\ Complete(d)
    BY <1>1, <1>2 DEF Made
  <2>2. QED BY <1>1, <2>1 DEF PassesForOne, ParameterSet
<1>3. CASE IsFragment(d.head[1])
  <2>1. d.head[1] \in Byte
    <3>1. d.head \in Seq(Byte) /\ d.head # <<>>
      BY DEF Made, Datagram
    <3>2. 1 \in 1..Len(d.head)
      BY <3>1
    <3>3. QED BY <3>1, <3>2, ElementOfSeq
  <2>2. AvcType(d.head[1]) # 7 /\ HevcType(d.head[1]) # 32
    BY <1>3, <2>1, FragmentPassesNot
  <2>3. Cuttable(p.head[1])
    BY <1>1, <1>3 DEF Made
  <2>4. \/ p.head \in [1..1 -> 0..127] /\ ~CutHevc(p.head[1])
        \/ p.head \in [1..2 -> 0..127] /\ ~CutAvc(p.head[1])
    BY SenderAssumption DEF SenderConstants, PackAssumption
  <2>5. CASE p.head \in [1..1 -> 0..127] /\ ~CutHevc(p.head[1])
    <3>1. Len(p.head) = 1 /\ AvcType(p.head[1]) \in {1, 5}
      BY <2>3, <2>5, HeaderIsSeq DEF Cuttable, CutAvc
    <3>2. ~ParameterSet(d.nal)
      BY <1>1, <3>1 DEF ParameterSet
    <3>3. QED BY <2>2, <3>2
  <2>6. CASE p.head \in [1..2 -> 0..127] /\ ~CutAvc(p.head[1])
    <3>1. Len(p.head) = 2 /\ HevcType(p.head[1]) \in {1, 19}
      BY <2>3, <2>6, HeaderIsSeq DEF Cuttable, CutHevc
    <3>2. ~ParameterSet(d.nal)
      BY <1>1, <3>1 DEF ParameterSet
    <3>3. QED BY <2>2, <3>2
  <2>7. QED BY <2>4, <2>5, <2>6
<1>4. QED BY <1>2, <1>3

LEMMA StartReceived ==
  ASSUME SBase, StartShape, Grown, NEW d, NEW s, NEW L, NEW x, Reception(d, s, L, x)
  PROVE  StartShape'
<1>1. SUFFICES ASSUME program' = "vdec-stdout", NEW k \in DOMAIN arrived',
                      ParameterSet(arrived[k].nal)'
               PROVE  nal_start'
  BY DEF StartShape
<1>2. program = "vdec-stdout" /\ nal_start' = Seen(d)
  BY <1>1 DEF Reception, StdoutDecode
<1>3. /\ L \in Nat /\ s = arrived /\ DOMAIN s = 1..L /\ DOMAIN arrived' = 1..(L + 1)
      /\ arrived'[L + 1] = d /\ \A i \in 1..L : arrived'[i] = s[i]
      /\ Made(d) /\ nals' = nals
  BY DEF Reception, Comes, SenderStill
<1>4. ParameterSet(arrived'[k].nal)
  BY <1>1, <1>3 DEF ParameterSet
<1>5. CASE k = L + 1
  <2>1. ParameterSet(d.nal)
    BY <1>3, <1>4, <1>5
  <2>2. AvcType(d.head[1]) = 7 \/ HevcType(d.head[1]) = 32
    BY <1>3, <2>1, PassingIs DEF SBase, NetInv, SenderInv, IInv
  <2>3. QED BY <1>2, <2>2 DEF Seen
<1>6. CASE k # L + 1
  <2>1. k \in 1..L
    BY <1>1, <1>3, <1>6
  <2>2. nal_start
    BY <1>2, <1>3, <1>4, <2>1 DEF StartShape
  <2>3. QED BY <1>2, <2>2 DEF Seen
<1>7. QED BY <1>5, <1>6

\* The NALs vdec-stdout may open with stay such.
LEMMA OpenerKept ==
  ASSUME Grown, NEW n \in DOMAIN nals
  PROVE  n \in DOMAIN nals' /\ Intact(n)' = Intact(n) /\ (PassesForOne(n)' <=> PassesForOne(n))
BY ReadsKept DEF Grown, PassesForOne

LEMMA OpenReceived ==
  ASSUME SBase, OpenShape, Grown, NEW d, NEW s, NEW L, NEW x, Reception(d, s, L, x)
  PROVE  OpenShape'
<1>1. SUFFICES ASSUME program' = "vdec-stdout"
               PROVE  (IF nal_start
                         THEN /\ delivered # <<>>
                              /\ \E n \in DOMAIN nals : PassesForOne(n) /\ delivered[1] = Intact(n)
                         ELSE delivered = <<>>)'
  BY DEF OpenShape
<1>2. /\ program = "vdec-stdout" /\ nal_start' = Seen(d)
      /\ Made(d) /\ Joins(d, x) /\ d.nal \in DOMAIN nals
  BY <1>1 DEF Reception, StdoutDecode, Comes, Made
<1>3. HandsOn' <=> nal_start'
  BY <1>1 DEF HandsOn
<1>4. PICK v, u : v \in Seq(Seq(Cell)) /\ u = delivered' /\ v = delivered
  <2>1. delivered \in Seq(Seq(Cell))
    BY DEF SBase, MemoryType
  <2>2. QED BY <2>1
<1>5. x \in Seq(Cell)
  BY <1>2 DEF Joins
<1>6. IF Complete(d) /\ nal_start' THEN u = Append(v, x) ELSE u = v
  BY <1>3, <1>4, HandedIs
<1>7. CASE nal_start
  <2>1. PICK n \in DOMAIN nals : PassesForOne(n) /\ v # <<>> /\ v[1] = Intact(n)
    BY <1>2, <1>4, <1>7 DEF OpenShape
  <2>2. u # <<>> /\ u[1] = v[1]
    <3>1. CASE u = v
      BY <2>1, <3>1
    <3>2. CASE u = Append(v, x)
      <4>1. PICK m \in Nat : m = Len(v) /\ m # 0
        BY <2>1, LenProperties
      <4>2. /\ u \in Seq(Seq(Cell)) /\ Len(u) = m + 1 /\ \A k \in 1..m : u[k] = v[k]
        BY <1>4, <1>5, <3>2, <4>1, AppendProperties
      <4>3. 1 \in 1..m /\ m + 1 # 0
        BY <4>1
      <4>4. QED BY <4>2, <4>3
    <3>3. QED BY <1>6, <3>1, <3>2
  <2>3. nal_start'
    BY <1>2, <1>7 DEF Seen
  <2>4. n \in DOMAIN nals' /\ PassesForOne(n)' /\ u[1] = Intact(n)'
    BY <2>1, <2>2, OpenerKept
  <2>5. QED BY <1>4, <2>2, <2>3, <2>4
<1>8. CASE ~nal_start /\ nal_start'
  <2>1. AvcType(d.head[1]) = 7 \/ HevcType(d.head[1]) = 32
    BY <1>2, <1>8 DEF Seen
  <2>2. First(d) /\ Complete(d) /\ PassesForOne(d.nal)
    BY <1>2, <2>1, PassingIs DEF SBase, NetInv, SenderInv, IInv
  <2>3. x = Intact(d.nal) /\ u = Append(v, x) /\ v = <<>>
    BY <1>2, <1>4, <1>6, <1>8, <2>2 DEF Joins, OpenShape
  <2>4. u # <<>> /\ u[1] = x
    BY <2>3
  <2>5. PICK n \in DOMAIN nals : n = d.nal
    BY <1>2
  <2>6. n \in DOMAIN nals' /\ PassesForOne(n)' /\ u[1] = Intact(n)'
    BY <2>2, <2>3, <2>4, <2>5, OpenerKept
  <2>7. QED BY <1>4, <1>8, <2>4, <2>6
<1>9. CASE ~nal_start'
  <2>1. ~nal_start
    BY <1>2, <1>9 DEF Seen
  <2>2. u = <<>>
    BY <1>2, <1>4, <1>6, <1>9, <2>1 DEF OpenShape
  <2>3. QED BY <1>4, <1>9, <2>2
<1>10. QED BY <1>7, <1>8, <1>9

\* The rest of the samples leaves all this alone.
LEMMA StartKept ==
  ASSUME SBase, StartShape, OpenShape, Grown,
         UNCHANGED <<delivered, arrived, nal_start, program>>
  PROVE  StartShape' /\ OpenShape'
<1>1. ASSUME NEW k \in DOMAIN arrived
      PROVE  ParameterSet(arrived[k].nal)' <=> ParameterSet(arrived[k].nal)
  <2>1. PICK n : n = arrived[k].nal
    OBVIOUS
  <2>2. n \in DOMAIN nals
    BY <1>1, <2>1 DEF SBase, NetInv, Exchanged, Range, Made
  <2>3. nals'[n] = nals[n]
    BY <2>2 DEF Grown
  <2>4. QED BY <2>1, <2>3 DEF ParameterSet
<1>2. StartShape'
  BY <1>1 DEF StartShape
<1>3. ASSUME program = "vdec-stdout", nal_start
      PROVE  \E n \in DOMAIN nals' : PassesForOne(n)' /\ delivered[1] = Intact(n)'
  <2>1. PICK n \in DOMAIN nals : PassesForOne(n) /\ delivered[1] = Intact(n)
    BY <1>3 DEF OpenShape
  <2>2. QED BY <2>1, OpenerKept
<1>4. OpenShape'
  BY <1>3 DEF OpenShape
<1>5. QED BY <1>2, <1>4

JInv == SBase /\ JoinShape /\ StartShape /\ OpenShape

LEMMA JoinInit0 ==
  ASSUME SampleInit
  PROVE  JInv
<1>1. LinkInit /\ JoinInit /\ StdoutInit /\ program \in {"vdec-sample", "vdec-stdout"}
  BY DEF SampleInit
<1>2. NetInv /\ BufferType /\ arrived = <<>> /\ delivered = <<>> /\ nal_size = 0
  BY <1>1, NothingSent DEF LinkInit, JoinInit, ReceiverInit
<1>3. MemoryType
  <2>1. 0 \in 0..Len(nal_buffer)
    BY <1>2, LenProperties DEF BufferType
  <2>2. QED BY <1>2, <2>1 DEF BufferType, MemoryType
<1>4. DOMAIN arrived = {}
  BY <1>2
<1>5. QED
  BY <1>1, <1>2, <1>3, <1>4 DEF JInv, SBase, JoinShape, StartShape, OpenShape, StdoutInit

LEMMA JoinStep == JInv /\ [SampleNext]_sampleVars => JInv'
<1>1. SUFFICES ASSUME JInv, [SampleNext]_sampleVars PROVE JInv'
  OBVIOUS
<1>2. NetInv' /\ SampleKind
  BY <1>1, SampleStep DEF JInv, SBase
<1>3. CASE Waits \/ Sends
  <2>1. UNCHANGED <<nal_buffer, nal_size, delivered, arrived, nal_start, program>>
    BY <1>3 DEF Waits, Sends, sampleRest, CreateFragment, RelayWhole, RelayFragment
  <2>2. SBase'
    BY <1>1, <1>2, <2>1 DEF JInv, SBase, MemoryType
  <2>3. QED BY <1>1, <1>2, <2>1, <2>2, JoinKept, StartKept DEF JInv, SampleKind
<1>4. CASE \E i : Received(i)
  <2>1. PICK d, s, L, x : Reception(d, s, L, x)
    BY <1>1, <1>4, ReceptionIs DEF JInv, SBase
  <2>2. Grown
    BY <1>2 DEF SampleKind
  <2>3. SBase'
    BY <1>1, <1>2, <2>1, BaseReceived DEF JInv
  <2>4. JoinShape'
    BY <1>1, <2>1, <2>2, JoinReceived DEF JInv
  <2>5. StartShape' /\ OpenShape'
    BY <1>1, <2>1, <2>2, StartReceived, OpenReceived DEF JInv
  <2>6. QED BY <2>3, <2>4, <2>5 DEF JInv
<1>5. QED BY <1>2, <1>3, <1>4 DEF SampleKind

LEMMA JoinHolds == SampleSpec => []JInv
BY JoinInit0, JoinStep, PTL DEF SampleSpec

\* Although no decode_frame of the samples resets the size it keeps, and however
\* many datagrams were lost, doubled or overtaken before, a NAL whose datagrams
\* arrive in order and together is joined intact, and handed on.
THEOREM WholeArrivalsJoined == SampleSpec => []WholeArrivalIsJoined
<1>1. JInv => WholeArrivalIsJoined
  <2>1. SUFFICES ASSUME JInv, NEW i \in DOMAIN arrived,
                        IsWholeNal(SubSeq(arrived, i, Len(arrived))),
                        program = "vdec-stdout" =>
                          \E k \in DOMAIN arrived : ParameterSet(arrived[k].nal)
                 PROVE  delivered # <<>> /\ Last(delivered) = Intact(arrived[i].nal)
    BY DEF WholeArrivalIsJoined
  <2>2. /\ Run(i) /\ Complete(arrived[Len(arrived)])
        /\ arrived[Len(arrived)].nal = arrived[i].nal
    BY <2>1, WholeNalIsRun DEF JInv, SBase
  <2>3. JoinOutcome(arrived[Len(arrived)])
    BY <2>1, <2>2 DEF JInv, JoinShape
  <2>4. HandsOn
    BY <2>1 DEF JInv, StartShape, HandsOn
  <2>5. QED BY <2>2, <2>3, <2>4 DEF JoinOutcome
<1>2. QED BY <1>1, JoinHolds, PTL

\* Whatever was lost or reordered, vdec-stdout opens with the whole of a NAL that
\* it takes for a parameter set, never with the rest of one or with a slice.
THEOREM StdoutOpens == SampleSpec => []StdoutOpensWithParameterSet
<1>1. JInv => StdoutOpensWithParameterSet
  BY DEF JInv, OpenShape, StdoutOpensWithParameterSet
<1>2. QED BY <1>1, JoinHolds, PTL


-----------------------------------------------------------------------------
(***************************************************************************)
(* The relay's loop: it ends, and within how many datagrams.               *)
(***************************************************************************)
IsList(s) == \E S : s \in Seq(S)

\* A list with e behind it.
Longer(t, s, m, e) ==
  /\ IsList(t) /\ m \in Nat /\ m = Len(s) /\ DOMAIN s = 1..m
  /\ Len(t) = m + 1 /\ DOMAIN t = 1..(m + 1) /\ t[m + 1] = e
  /\ \A k \in 1..m : t[k] = s[k]

LEMMA LongerIs ==
  ASSUME NEW s, IsList(s), NEW e, NEW t, t = Append(s, e)
  PROVE  \E m : Longer(t, s, m, e)
<1>1. PICK S : s \in Seq(S)
  BY DEF IsList
<1>2. PICK T : T = S \cup {e}
  OBVIOUS
<1>3. s \in Seq(T) /\ e \in T
  <2>1. S \subseteq T
    BY <1>2
  <2>2. QED BY <1>1, <1>2, <2>1, SeqMonotonic
<1>4. PICK m \in Nat : m = Len(s) /\ DOMAIN s = 1..m
  BY <1>1, LenProperties
<1>5. /\ Append(s, e) \in Seq(T) /\ Len(Append(s, e)) = Len(s) + 1
      /\ DOMAIN Append(s, e) = 1..(Len(s) + 1) /\ Append(s, e)[Len(s) + 1] = e
      /\ \A k \in 1..Len(s) : Append(s, e)[k] = s[k]
  BY <1>3, AppendedIs
<1>6. Longer(t, s, m, e)
  BY <1>4, <1>5 DEF Longer, IsList
<1>7. QED BY <1>6

LEMMA QuotientBounds ==
  ASSUME NEW M \in Nat \ {0}, NEW l \in Nat, NEW a \in Int, a * M <= l
  PROVE  a <= l \div M
<1>1. PICK q \in Int : q = l \div M
  BY Z3
<1>2. l < (q + 1) * M
  BY <1>1, Z3
<1>3. a * M < (q + 1) * M
  BY <1>2, Z3
<1>4. a < q + 1
  BY <1>3, Z3
<1>5. QED BY <1>1, <1>4

RelayType ==
  /\ relay_pc \in {"recv", "whole", "fragment"} /\ relay_start \in BOOLEAN
  /\ relay_data \in Int /\ relay_size \in Int /\ relay_sequence \in Nat
  /\ IsList(out) /\ \A k \in DOMAIN out : out[k].of \in DOMAIN delivered
  /\ program = "vdec-stdout" => relay_pc = "recv" /\ out = <<>>

\* The NAL being sent, the r-th: it is still in the memory, and what is left of
\* it is known.
Current(r, nal) ==
  /\ r = Len(delivered) /\ r \in DOMAIN delivered /\ nal = delivered[r]
  /\ nal \in Seq(Cell) /\ Len(nal) \in 0..Len(nal_buffer)
  /\ SubSeq(nal_buffer, 1, Len(nal)) = nal
  /\ relay_data >= 4 /\ relay_data + relay_size = Len(nal)
  /\ IF relay_start
       THEN /\ relay_data = 4 /\ \A k \in DOMAIN out : out[k].of # r
            /\ relay_pc = "fragment" => relay_size > MAX_SIZE
       ELSE relay_pc = "fragment" /\ relay_size # 0 /\ relay_size >= -1

SendShape == relay_pc # "recv" => \E r, nal : Current(r, nal)

\* Datagrams i and j of one NAL lie no further apart than its bytes allow.
Near(o, r, len) ==
  \A i, j \in DOMAIN o :
    i <= j /\ o[i].of = r /\ o[j].of = r => (j - i) * MAX_SIZE <= len

\* So they will with the datagrams that are still to come.
ComesNear(o, r, len, left) ==
  \A i \in DOMAIN o : o[i].of = r => (Len(o) + 1 - i) * MAX_SIZE + left + 4 <= len

CountShape ==
  /\ \A r \in DOMAIN delivered : Near(out, r, Len(delivered[r]))
  /\ \A r, nal : relay_pc # "recv" /\ ~relay_start /\ Current(r, nal) =>
                   ComesNear(out, r, Len(nal), relay_size)

RInvs == SBase /\ RelayType /\ SendShape /\ CountShape

\* One turn of create_fragment's loop: q bytes of header stripped, c bytes sent.
Cuts(r, nal, e, c, q) ==
  /\ Current(r, nal) /\ relay_pc = "fragment"
  /\ q = SampleStripped /\ q \in 0..2 /\ (~relay_start => q = 0)
  /\ c = IF relay_size > MAX_SIZE THEN MAX_SIZE ELSE relay_size
  /\ out' = Append(out, e) /\ e.of = r /\ e.seq = relay_sequence
  /\ e.from = relay_data + q
  /\ c >= 0 => /\ e.bytes = Chunk(relay_data + q, c)
               /\ e.head = SampleHead(c = relay_size - q)
  /\ relay_data' = relay_data + q + c /\ relay_size' = relay_size - q - c
  /\ relay_start' = FALSE /\ relay_sequence' = OutSequence
  /\ relay_pc' = IF relay_size' = 0 THEN "recv" ELSE "fragment"
  /\ UNCHANGED <<delivered, nal_buffer, program>>

LEMMA CutsIs ==
  ASSUME RelayType, SendShape, Sends, RelayFragment
  PROVE  \E r, nal, e, c, q : Cuts(r, nal, e, c, q)
<1>1. PICK r, nal : Current(r, nal)
  BY DEF SendShape, RelayFragment
<1>2. PICK c, q, from : c = SampleChunk /\ q = SampleStripped /\ from = relay_data + q
  OBVIOUS
<1>3. q \in 0..2 /\ (~relay_start => q = 0)
  BY <1>2 DEF SampleStripped
<1>4. PICK head, bytes :
        /\ c >= 0 => head = SampleHead(IsLast) /\ bytes = Chunk(from, c)
        /\ CreateStream(head, from, bytes)
  <2>1. CASE c >= 0
    BY <1>2, <2>1 DEF RelayFragment
  <2>2. CASE ~(c >= 0)
    BY <1>2, <2>2 DEF RelayFragment
  <2>3. QED BY <2>1, <2>2
<1>5. PICK e : e = [head |-> head, from |-> from, bytes |-> bytes,
                    seq |-> relay_sequence, of |-> Len(delivered)]
  OBVIOUS
<1>6. out' = Append(out, e) /\ relay_sequence' = OutSequence
  BY <1>4, <1>5 DEF CreateStream
<1>7. /\ e.of = r /\ e.seq = relay_sequence /\ e.from = relay_data + q
      /\ c >= 0 => e.bytes = Chunk(relay_data + q, c) /\ e.head = SampleHead(IsLast)
  BY <1>1, <1>2, <1>4, <1>5 DEF Current
<1>8. /\ relay_pc = "fragment" /\ relay_start' = FALSE
      /\ relay_data' = relay_data + q + c /\ relay_size' = relay_size - q - c
      /\ relay_pc' = IF relay_size' = 0 THEN "recv" ELSE "fragment"
      /\ UNCHANGED <<delivered, nal_buffer, program>>
  BY <1>2 DEF RelayFragment, Sends
<1>9. c = (IF relay_size > MAX_SIZE THEN MAX_SIZE ELSE relay_size)
  BY <1>2 DEF SampleChunk
<1>10. IsLast = (c = relay_size - q)
  BY <1>2 DEF IsLast
<1>11. Cuts(r, nal, e, c, q)
  BY <1>1, <1>2, <1>3, <1>6, <1>7, <1>8, <1>9, <1>10 DEF Cuts
<1>12. QED BY <1>11


\* What a turn of the loop may do to the sizes.
LEMMA CutNumbers ==
  ASSUME NEW M \in Nat \ {0}, NEW s \in Int, NEW q \in 0..2, NEW c \in Int,
         c = IF s > M THEN M ELSE s,
         s > M \/ (q = 0 /\ s # 0 /\ s >= -1)
  PROVE  /\ c <= M /\ c >= -1 /\ s - q - c >= -1
         /\ s - q - c # 0 => c = M
<1>1. CASE s > M
  BY <1>1
<1>2. CASE ~(s > M)
  BY <1>2
<1>3. QED BY <1>1, <1>2

\* The sizes of a turn as values: s bytes were left, t are.
Sizes(r, nal, e, c, q, l, s, t, m) ==
  /\ MAX_SIZE \in Nat \ {0} /\ l \in Nat /\ l = Len(nal) /\ s \in Int /\ t \in Int
  /\ c \in Int /\ q \in 0..2 /\ s = relay_size /\ t = relay_size' /\ t = s - q - c
  /\ s + 4 <= l /\ c <= MAX_SIZE /\ c >= -1 /\ s >= -1 /\ t >= -1
  /\ t # 0 => c = MAX_SIZE
  /\ relay_start => s > MAX_SIZE
  /\ Longer(out', out, m, e)

LEMMA SizesAre ==
  ASSUME RelayType, NEW r, NEW nal, NEW e, NEW c, NEW q, Cuts(r, nal, e, c, q)
  PROVE  \E l, s, t, m : Sizes(r, nal, e, c, q, l, s, t, m)
<1>1. PICK l \in Nat : l = Len(nal)
  BY LenProperties DEF Cuts, Current
<1>2. PICK s \in Int, d \in Int : s = relay_size /\ d = relay_data
  BY DEF RelayType
<1>3. /\ q \in 0..2 /\ (~relay_start => q = 0) /\ d >= 4 /\ d + s = l
      /\ c = (IF s > MAX_SIZE THEN MAX_SIZE ELSE s)
      /\ relay_size' = s - q - c
      /\ relay_start => s > MAX_SIZE
      /\ ~relay_start => s # 0 /\ s >= -1
  BY <1>1, <1>2 DEF Cuts, Current
<1>4. MAX_SIZE \in Nat \ {0}
  BY SampleAssumption
<1>5. c \in Int
  BY <1>3, <1>4
<1>6. PICK t \in Int : t = s - q - c
  <2>1. s - q - c \in Int
    BY <1>2, <1>3, <1>5
  <2>2. QED BY <2>1
<1>7. s > MAX_SIZE \/ (q = 0 /\ s # 0 /\ s >= -1)
  BY <1>3
<1>8. /\ c <= MAX_SIZE /\ c >= -1 /\ s - q - c >= -1
      /\ s - q - c # 0 => c = MAX_SIZE
  BY <1>3, <1>4, <1>5, <1>7, CutNumbers
<1>9. s + 4 <= l /\ s >= -1
  BY <1>3, <1>4, <1>7
<1>10. PICK m : Longer(out', out, m, e)
  BY LongerIs DEF Cuts, RelayType
<1>11. t >= -1 /\ (t # 0 => c = MAX_SIZE) /\ t = relay_size'
  BY <1>3, <1>6, <1>8
<1>12. Sizes(r, nal, e, c, q, l, s, t, m)
  BY <1>1, <1>2, <1>3, <1>4, <1>5, <1>6, <1>8, <1>9, <1>10, <1>11 DEF Sizes
<1>13. QED BY <1>12

LEMMA CutsType ==
  ASSUME RelayType, NEW r, NEW nal, NEW e, NEW c, NEW q, Cuts(r, nal, e, c, q)
  PROVE  RelayType'
<1>1. PICK l, s, t, m : Sizes(r, nal, e, c, q, l, s, t, m)
  BY SizesAre
<1>2. relay_data' \in Int /\ relay_size' \in Int
  BY <1>1 DEF Cuts, Sizes, RelayType
<1>3. relay_sequence' \in Nat
  <2>1. relay_sequence \in Nat /\ OutSeqRange \in Nat \ {0}
    BY SampleAssumption DEF RelayType
  <2>2. QED BY <2>1 DEF Cuts, OutSequence
<1>4. IsList(out') /\ \A k \in DOMAIN out' : out'[k].of \in DOMAIN delivered'
  <2>1. Longer(out', out, m, e)
    BY <1>1 DEF Sizes
  <2>2. e.of \in DOMAIN delivered /\ delivered' = delivered
    BY DEF Cuts, Current
  <2>3. \A k \in 1..(m + 1) : k \in 1..m \/ k = m + 1
    BY <2>1 DEF Longer
  <2>4. QED BY <2>1, <2>2, <2>3 DEF Longer, RelayType
<1>5. relay_pc' \in {"recv", "fragment"} /\ relay_start' = FALSE
  BY DEF Cuts
<1>6. program' # "vdec-stdout"
  BY DEF Cuts, RelayType
<1>7. QED BY <1>2, <1>3, <1>4, <1>5, <1>6 DEF RelayType

LEMMA CutsSend ==
  ASSUME RelayType, NEW r, NEW nal, NEW e, NEW c, NEW q, Cuts(r, nal, e, c, q),
         relay_pc' # "recv"
  PROVE  Current(r, nal)'
<1>1. PICK l, s, t, m : Sizes(r, nal, e, c, q, l, s, t, m)
  BY SizesAre
<1>2. relay_pc' = "fragment" /\ t # 0
  BY <1>1 DEF Cuts, Sizes
<1>3. PICK d \in Int : d = relay_data /\ d >= 4 /\ d + s = l
  BY <1>1 DEF Cuts, Current, RelayType, Sizes
<1>4. relay_data' = d + q + c
  BY <1>3 DEF Cuts
<1>5. c >= 1 /\ d + q + c >= 4 /\ (d + q + c) + t = l
  BY <1>1, <1>2, <1>3 DEF Sizes
<1>6. relay_data' >= 4 /\ relay_data' + relay_size' = Len(nal)
  BY <1>1, <1>4, <1>5 DEF Sizes
<1>7. /\ r = Len(delivered') /\ r \in DOMAIN delivered' /\ nal = delivered'[r]
      /\ nal \in Seq(Cell) /\ Len(nal) \in 0..Len(nal_buffer')
      /\ SubSeq(nal_buffer', 1, Len(nal)) = nal
  BY DEF Cuts, Current
<1>8. ~relay_start' /\ relay_size' # 0 /\ relay_size' >= -1
  BY <1>1, <1>2 DEF Sizes, Cuts
<1>9. QED BY <1>2, <1>6, <1>7, <1>8 DEF Current

LEMMA BoundFits ==
  ASSUME NEW M \in Nat, NEW i \in Int, NEW m \in Int, NEW j, NEW l \in Int, NEW s \in Int,
         j = m + 1, s >= -1, (m + 1 - i) * M + s + 4 <= l
  PROVE  (j - i) * M <= l
OBVIOUS

LEMMA CutsCount ==
  ASSUME RelayType, CountShape,
         NEW r, NEW nal, NEW e, NEW c, NEW q, Cuts(r, nal, e, c, q)
  PROVE  CountShape'
<1>1. PICK l, s, t, m : Sizes(r, nal, e, c, q, l, s, t, m)
  BY SizesAre
<1>2. /\ m \in Nat /\ DOMAIN out = 1..m /\ Len(out) = m
      /\ DOMAIN out' = 1..(m + 1) /\ Len(out') = m + 1 /\ out'[m + 1] = e
      /\ \A k \in 1..m : out'[k] = out[k]
  BY <1>1 DEF Sizes, Longer
<1>3. /\ e.of = r /\ delivered' = delivered /\ r \in DOMAIN delivered /\ nal = delivered[r]
      /\ r = Len(delivered) /\ relay_pc = "fragment" /\ Current(r, nal)
      /\ ~relay_start => q = 0
  BY DEF Cuts, Current
<1>4. ASSUME NEW i \in 1..m, out[i].of = r
      PROVE  (m + 1 - i) * MAX_SIZE + s + 4 <= l /\ q = 0
  <2>1. ~relay_start
    BY <1>2, <1>3, <1>4 DEF Current
  <2>2. ComesNear(out, r, l, s)
    BY <1>1, <1>3, <2>1 DEF CountShape, Sizes
  <2>3. QED BY <1>2, <1>3, <1>4, <2>1, <2>2 DEF ComesNear
<1>5. ASSUME NEW a \in DOMAIN delivered PROVE Near(out', a, Len(delivered[a]))
  <2>1. SUFFICES ASSUME NEW i \in 1..(m + 1), NEW j \in 1..(m + 1), i <= j,
                        out'[i].of = a, out'[j].of = a
                 PROVE  (j - i) * MAX_SIZE <= Len(delivered[a])
    BY <1>2 DEF Near
  <2>2. CASE j \in 1..m
    <3>1. i \in 1..m
      BY <1>2, <2>1, <2>2
    <3>2. Near(out, a, Len(delivered[a]))
      BY DEF CountShape
    <3>3. QED BY <1>2, <2>1, <2>2, <3>1, <3>2 DEF Near
  <2>3. CASE j = m + 1 /\ i = m + 1
    <3>1. (j - i) * MAX_SIZE = 0 /\ l \in Nat
      BY <1>1, <1>2, <2>3 DEF Sizes
    <3>2. a = r /\ Len(delivered[a]) = l
      BY <1>1, <1>2, <1>3, <2>1, <2>3 DEF Sizes
    <3>3. QED BY <3>1, <3>2
  <2>4. CASE j = m + 1 /\ i \in 1..m
    <3>1. a = r /\ Len(delivered[a]) = l
      BY <1>1, <1>2, <1>3, <2>1, <2>4 DEF Sizes
    <3>2. (m + 1 - i) * MAX_SIZE + s + 4 <= l
      BY <1>2, <1>4, <2>1, <2>4, <3>1
    <3>3. MAX_SIZE \in Nat /\ i \in Int /\ m \in Int /\ l \in Int /\ s \in Int /\ s >= -1
      BY <1>1, <1>2, <2>4 DEF Sizes
    <3>4. (j - i) * MAX_SIZE <= l
      BY <2>4, <3>2, <3>3, BoundFits
    <3>5. QED BY <3>1, <3>4
  <2>5. QED BY <1>2, <2>1, <2>2, <2>3, <2>4
<1>6. ASSUME relay_pc' # "recv" PROVE ComesNear(out', r, l, t)
  <2>1. c = MAX_SIZE
    BY <1>1, <1>6 DEF Sizes, Cuts
  <2>2. SUFFICES ASSUME NEW i \in 1..(m + 1), out'[i].of = r
                 PROVE  (m + 1 + 1 - i) * MAX_SIZE + t + 4 <= l
    BY <1>2 DEF ComesNear
  <2>3. PICK v \in Int : v = (m + 1 - i) * MAX_SIZE
    BY <1>1, <1>2 DEF Sizes
  <2>4. (m + 1 + 1 - i) * MAX_SIZE = v + MAX_SIZE
    BY <1>1, <1>2, <2>2, <2>3 DEF Sizes
  <2>5. CASE i = m + 1
    <3>1. v = 0
      BY <1>1, <1>2, <2>3, <2>5 DEF Sizes
    <3>2. 0 + MAX_SIZE + t + 4 <= l
      BY <1>1, <2>1 DEF Sizes
    <3>3. QED BY <2>4, <3>1, <3>2
  <2>6. CASE i \in 1..m
    <3>1. v + s + 4 <= l /\ q = 0
      BY <1>2, <1>4, <2>2, <2>3, <2>6
    <3>2. v + MAX_SIZE + t + 4 <= l
      BY <1>1, <2>1, <3>1 DEF Sizes
    <3>3. QED BY <2>4, <3>2
  <2>7. QED BY <1>2, <2>2, <2>5, <2>6
<1>7. ASSUME NEW a, NEW x, relay_pc' # "recv", Current(a, x)'
      PROVE  ComesNear(out', a, Len(x), relay_size')
  <2>1. a = r /\ x = nal
    BY <1>3, <1>7 DEF Current
  <2>2. QED BY <1>1, <1>6, <1>7, <2>1 DEF Sizes
<1>8. QED BY <1>3, <1>5, <1>7 DEF CountShape, Near, ComesNear

\* A NAL that is sent as it is, and what create_stream made of it, unless the
\* joined NAL is shorter than its start code.
Whole(r, nal, e) ==
  /\ Current(r, nal) /\ relay_pc = "whole" /\ relay_pc' = "recv"
  /\ relay_start /\ relay_data = 4
  /\ e.of = r /\ e.head = <<>> /\ e.from = 4
  /\ e.bytes = Chunk(4, relay_size)
  /\ IF relay_size >= 0 THEN out' = Append(out, e) ELSE out' = out
  /\ relay_sequence' = OutSequence
  /\ UNCHANGED <<relay_data, relay_size, relay_start, delivered, nal_buffer, program>>

LEMMA WholeIs ==
  ASSUME RelayType, SendShape, Sends, RelayWhole
  PROVE  \E r, nal, e : Whole(r, nal, e)
<1>1. PICK r, nal : Current(r, nal)
  BY DEF SendShape, RelayWhole
<1>2. relay_pc = "whole" /\ relay_start /\ relay_data = 4
  BY <1>1 DEF RelayWhole, Current
<1>3. PICK bytes : bytes = Chunk(4, relay_size)
  OBVIOUS
<1>4. PICK e : e = [head |-> <<>>, from |-> 4, bytes |-> bytes,
                    seq |-> relay_sequence, of |-> Len(delivered)]
  OBVIOUS
<1>5. e.of = r /\ e.head = <<>> /\ e.from = 4 /\ e.bytes = Chunk(4, relay_size)
  BY <1>1, <1>3, <1>4 DEF Current
<1>6. /\ IF relay_size >= 0 THEN out' = Append(out, e) ELSE out' = out
      /\ relay_sequence' = OutSequence
  BY <1>2, <1>3, <1>4 DEF RelayWhole, CreateStream
<1>7. /\ relay_pc' = "recv" /\ UNCHANGED <<relay_data, relay_size, relay_start>>
      /\ UNCHANGED <<delivered, nal_buffer, program>>
  BY DEF RelayWhole, Sends
<1>8. Whole(r, nal, e)
  BY <1>1, <1>2, <1>5, <1>6, <1>7 DEF Whole
<1>9. QED BY <1>8

LEMMA WholeType ==
  ASSUME RelayType, NEW r, NEW nal, NEW e, Whole(r, nal, e)
  PROVE  RelayType'
<1>1. relay_sequence' \in Nat
  <2>1. relay_sequence \in Nat /\ OutSeqRange \in Nat \ {0}
    BY SampleAssumption DEF RelayType
  <2>2. QED BY <2>1 DEF Whole, OutSequence
<1>2. IsList(out') /\ \A k \in DOMAIN out' : out'[k].of \in DOMAIN delivered'
  <2>1. CASE out' = out
    BY <2>1 DEF Whole, RelayType
  <2>2. CASE out' = Append(out, e)
    <3>1. PICK m : Longer(out', out, m, e)
      BY <2>2, LongerIs DEF RelayType
    <3>2. e.of \in DOMAIN delivered /\ delivered' = delivered
      BY DEF Whole, Current
    <3>3. \A k \in 1..(m + 1) : k \in 1..m \/ k = m + 1
      BY <3>1 DEF Longer
    <3>4. QED BY <3>1, <3>2, <3>3 DEF Longer, RelayType
  <2>3. QED BY <2>1, <2>2 DEF Whole
<1>3. QED BY <1>1, <1>2 DEF Whole, RelayType

LEMMA WholeCount ==
  ASSUME RelayType, CountShape, NEW r, NEW nal, NEW e, Whole(r, nal, e)
  PROVE  CountShape'
<1>1. relay_pc' = "recv" /\ delivered' = delivered
  BY DEF Whole
<1>2. CASE out' = out
  BY <1>1, <1>2 DEF CountShape, Near
<1>3. CASE out' = Append(out, e)
  <2>1. PICK m : Longer(out', out, m, e)
    BY <1>3, LongerIs DEF RelayType
  <2>2. /\ m \in Nat /\ DOMAIN out = 1..m /\ DOMAIN out' = 1..(m + 1)
        /\ out'[m + 1] = e /\ \A k \in 1..m : out'[k] = out[k]
    BY <2>1 DEF Longer
  <2>3. e.of = r /\ \A k \in 1..m : out[k].of # r
    BY <2>2 DEF Whole, Current
  <2>4. ASSUME NEW a \in DOMAIN delivered PROVE Near(out', a, Len(delivered[a]))
    <3>1. SUFFICES ASSUME NEW i \in 1..(m + 1), NEW j \in 1..(m + 1), i <= j,
                          out'[i].of = a, out'[j].of = a
                   PROVE  (j - i) * MAX_SIZE <= Len(delivered[a])
      BY <2>2 DEF Near
    <3>2. CASE i \in 1..m /\ j \in 1..m
      <4>1. Near(out, a, Len(delivered[a]))
        BY DEF CountShape
      <4>2. QED BY <2>2, <3>1, <3>2, <4>1 DEF Near
    <3>3. CASE i = m + 1 /\ j = m + 1
      <4>1. a = r /\ delivered[a] = nal
        BY <2>2, <2>3, <3>1, <3>3 DEF Whole, Current
      <4>2. Len(nal) \in Nat
        BY LenProperties DEF Whole, Current
      <4>3. j - i = 0 /\ 0 * MAX_SIZE = 0
        BY <2>2, <3>3, SampleAssumption
      <4>4. (j - i) * MAX_SIZE = 0
        BY <4>3
      <4>5. QED BY <4>1, <4>2, <4>4
    <3>4. CASE i \in 1..m /\ j = m + 1
      BY <2>2, <2>3, <3>1, <3>4
    <3>5. QED BY <2>2, <3>1, <3>2, <3>3, <3>4
  <2>5. QED BY <1>1, <2>4 DEF CountShape, Near
<1>4. QED BY <1>2, <1>3 DEF Whole

-----------------------------------------------------------------------------
\* What the relay hands on: x, the new last of m + 1 NALs.
Handed(x, m) ==
  /\ x \in Seq(Cell) /\ Len(x) \in 0..Len(nal_buffer')
  /\ SubSeq(nal_buffer', 1, Len(x)) = x
  /\ relay_pc = "recv" /\ program = "vdec-sample"
  /\ UNCHANGED <<program, out, relay_sequence>>
  /\ delivered' = Append(delivered, x) /\ Longer(delivered', delivered, m, x)
  /\ relay_pc' = (IF Len(x) - 4 > MAX_SIZE THEN "fragment" ELSE "whole")
  /\ relay_data' = 4 /\ relay_size' = Len(x) - 4 /\ relay_start' = TRUE

\* A reception is of vdec-stdout's, leaves the relay as it was, or hands on.
LEMMA RelayReceives ==
  ASSUME SBase, RelayType, NEW d, NEW s, NEW L, NEW x, Reception(d, s, L, x)
  PROVE  \/ /\ UNCHANGED <<relayVars, program>> /\ out = <<>> /\ relay_pc = "recv"
            /\ program = "vdec-stdout"
            /\ delivered' = delivered \/ delivered' = Append(delivered, x)
         \/ UNCHANGED <<relayVars, program, delivered>> /\ relay_pc = "recv"
         \/ Complete(d) /\ \E m : Handed(x, m)
<1>1. /\ Joins(d, x) /\ program' = program
      /\ \/ program = "vdec-sample" /\ RelayDecode(d)
         \/ program = "vdec-stdout" /\ UNCHANGED relayVars
  BY DEF Reception
<1>2. CASE program = "vdec-stdout"
  BY <1>1, <1>2, HandedIs DEF RelayType
<1>3. CASE program = "vdec-sample" /\ ~Complete(d)
  <2>1. Result(d) = 0
    BY <1>1, <1>3 DEF Joins
  <2>2. QED BY <1>1, <1>3, <2>1 DEF RelayDecode, GoOn, relayVars
<1>4. CASE program = "vdec-sample" /\ Complete(d)
  <2>1. PICK n : n = Result(d)
    OBVIOUS
  <2>2. /\ n = Len(x) /\ Len(x) \in 1..Len(nal_buffer')
        /\ SubSeq(nal_buffer', 1, Len(x)) = x /\ x \in Seq(Cell)
    BY <1>1, <1>4, <2>1 DEF Joins
  <2>3. n # 0
    BY <2>2
  <2>4. /\ delivered' = Append(delivered, SubSeq(nal_buffer', 1, n))
        /\ relay_pc' = IF n - 4 > MAX_SIZE THEN "fragment" ELSE "whole"
        /\ relay_data' = 4 /\ relay_size' = n - 4 /\ relay_start' = TRUE
        /\ relay_pc = "recv" /\ UNCHANGED <<relay_sequence, out>>
    BY <1>1, <1>4, <2>1, <2>3 DEF RelayDecode, Return
  <2>5. Len(x) \in 0..Len(nal_buffer')
    BY <2>2
  <2>6. delivered' = Append(delivered, x)
    BY <2>2, <2>4
  <2>7. PICK m : Longer(delivered', delivered, m, x)
    <3>1. IsList(delivered)
      BY DEF SBase, MemoryType, IsList
    <3>2. QED BY <2>6, <3>1, LongerIs
  <2>8. Handed(x, m)
    BY <1>1, <1>4, <2>2, <2>4, <2>5, <2>6, <2>7 DEF Handed
  <2>9. QED BY <1>4, <2>8
<1>5. QED BY <1>2, <1>3, <1>4 DEF SBase

\* The NAL handed on is the current one.
LEMMA HandedShape ==
  ASSUME RelayType, CountShape, NEW x, NEW m, Handed(x, m)
  PROVE  /\ RelayType' /\ Current(m + 1, x)' /\ CountShape'
         /\ m \in Nat /\ DOMAIN delivered = 1..m /\ delivered'[m + 1] = x
         /\ \A k \in 1..m : delivered'[k] = delivered[k]
<1>1. /\ m \in Nat /\ DOMAIN delivered = 1..m /\ DOMAIN delivered' = 1..(m + 1)
      /\ Len(delivered') = m + 1 /\ delivered'[m + 1] = x
      /\ \A k \in 1..m : delivered'[k] = delivered[k]
  BY DEF Handed, Longer
<1>2. PICK l \in Nat : l = Len(x)
  BY LenProperties DEF Handed
<1>3. /\ out' = out /\ relay_data' = 4 /\ relay_size' = l - 4 /\ relay_start'
      /\ relay_pc' = IF l - 4 > MAX_SIZE THEN "fragment" ELSE "whole"
      /\ relay_sequence' = relay_sequence /\ program' = program
  BY <1>2 DEF Handed
<1>4. \A k \in DOMAIN out : out[k].of \in 1..m
  BY <1>1 DEF RelayType
<1>5. RelayType'
  <2>1. relay_data' \in Int /\ relay_size' \in Int
    BY <1>2, <1>3
  <2>2. \A k \in DOMAIN out' : out'[k].of \in DOMAIN delivered'
    <3>1. 1..m \subseteq 1..(m + 1)
      BY <1>1
    <3>2. QED BY <1>1, <1>3, <1>4, <3>1
  <2>3. relay_pc' \in {"recv", "whole", "fragment"} /\ relay_start' \in BOOLEAN
    BY <1>3
  <2>4. program' # "vdec-stdout"
    BY DEF Handed
  <2>5. QED BY <1>3, <2>1, <2>2, <2>3, <2>4 DEF RelayType
<1>6. Current(m + 1, x)'
  <2>1. m + 1 \in 1..(m + 1) /\ m + 1 \notin 1..m
    BY <1>1
  <2>2. \A k \in DOMAIN out' : out'[k].of # m + 1
    BY <1>3, <1>4, <2>1
  <2>3. relay_data' >= 4 /\ relay_data' + relay_size' = l
    BY <1>2, <1>3
  <2>4. relay_pc' = "fragment" => relay_size' > MAX_SIZE
    BY <1>3
  <2>5. /\ x \in Seq(Cell) /\ Len(x) \in 0..Len(nal_buffer')
        /\ SubSeq(nal_buffer', 1, Len(x)) = x
    BY DEF Handed
  <2>6. QED BY <1>1, <1>2, <1>3, <2>1, <2>2, <2>3, <2>4, <2>5 DEF Current
<1>7. ASSUME NEW a \in 1..(m + 1) PROVE Near(out', a, Len(delivered'[a]))
  <2>1. CASE a \in 1..m
    BY <1>1, <1>3, <2>1 DEF CountShape
  <2>2. CASE a \notin 1..m
    BY <1>3, <1>4, <2>2 DEF Near
  <2>3. QED BY <2>1, <2>2
<1>8. CountShape'
  BY <1>1, <1>3, <1>7 DEF CountShape, Near
<1>9. QED BY <1>1, <1>5, <1>6, <1>8

LEMMA RelayIdle ==
  ASSUME RelayType, SendShape, CountShape, UNCHANGED <<relayVars, program>>,
         relay_pc = "recv",
         \/ delivered' = delivered
         \/ out = <<>> /\ \E S, x : delivered \in Seq(S) /\ delivered' = Append(delivered, x)
  PROVE  RelayType' /\ SendShape' /\ CountShape'
<1>1. UNCHANGED <<relay_pc, relay_data, relay_size, relay_start, relay_sequence, out>>
  BY DEF relayVars
<1>2. SendShape'
  BY <1>1 DEF SendShape
<1>3. CASE delivered' = delivered
  BY <1>1, <1>2, <1>3 DEF RelayType, CountShape, Near
<1>4. CASE out = <<>>
  <2>1. DOMAIN out = {}
    BY <1>4
  <2>2. QED BY <1>1, <1>2, <1>4, <2>1 DEF RelayType, CountShape, Near
<1>5. QED BY <1>3, <1>4

LEMMA RelayInit0 ==
  ASSUME SampleInit
  PROVE  RInvs
<1>1. SBase
  BY JoinInit0 DEF JInv
<1>2. /\ relay_pc = "recv" /\ relay_data = 0 /\ relay_size = 0 /\ relay_start = FALSE
      /\ relay_sequence = 0 /\ out = <<>>
  BY DEF SampleInit, RelayInit
<1>3. IsList(out) /\ DOMAIN out = {}
  <2>1. <<>> \in Seq(Nat) /\ DOMAIN <<>> = {}
    OBVIOUS
  <2>2. QED BY <1>2, <2>1 DEF IsList
<1>4. RelayType
  <2>1. 0 \in Int /\ 0 \in Nat /\ FALSE \in BOOLEAN
    OBVIOUS
  <2>2. relay_data \in Int /\ relay_size \in Int /\ relay_sequence \in Nat
    BY <1>2, <2>1
  <2>3. /\ relay_pc \in {"recv", "whole", "fragment"} /\ relay_start \in BOOLEAN
        /\ \A k \in DOMAIN out : out[k].of \in DOMAIN delivered
    BY <1>2, <1>3, <2>1
  <2>4. QED BY <1>2, <1>3, <2>2, <2>3, Zenon DEF RelayType
<1>5. SendShape
  BY <1>2 DEF SendShape
<1>6. CountShape
  BY <1>2, <1>3 DEF CountShape, Near
<1>7. QED BY <1>1, <1>4, <1>5, <1>6 DEF RInvs

LEMMA RelayStep == RInvs /\ [SampleNext]_sampleVars => RInvs'
<1>1. SUFFICES ASSUME RInvs, [SampleNext]_sampleVars PROVE RInvs'
  OBVIOUS
<1>2. NetInv' /\ SampleKind /\ SBase /\ RelayType /\ SendShape /\ CountShape
  BY <1>1, SampleStep DEF RInvs, SBase
<1>3. CASE Waits
  <2>1. SBase' /\ UNCHANGED <<relayVars, program, nal_buffer, delivered>>
    BY <1>2, <1>3 DEF Waits, sampleRest, SBase, MemoryType
  <2>2. UNCHANGED <<relay_pc, relay_data, relay_size, relay_start, relay_sequence, out>>
    BY <2>1 DEF relayVars
  <2>3. RelayType'
    BY <1>2, <2>1, <2>2 DEF RelayType
  <2>4. SendShape'
    BY <1>2, <2>1, <2>2 DEF SendShape, Current
  <2>5. CountShape'
    BY <1>2, <2>1, <2>2 DEF CountShape, Current, Near, ComesNear
  <2>6. QED BY <2>1, <2>3, <2>4, <2>5 DEF RInvs
<1>4. CASE Sends
  <2>1. SBase'
    BY <1>2, <1>4 DEF Sends, CreateFragment, RelayWhole, RelayFragment, SBase, MemoryType
  <2>2. CASE RelayWhole
    <3>1. PICK r, nal, e : Whole(r, nal, e)
      BY <1>2, <1>4, <2>2, WholeIs
    <3>2. RelayType' /\ CountShape'
      BY <1>2, <3>1, WholeType, WholeCount
    <3>3. SendShape'
      BY <3>1 DEF Whole, SendShape
    <3>4. QED BY <2>1, <3>2, <3>3 DEF RInvs
  <2>3. CASE RelayFragment
    <3>1. PICK r, nal, e, c, q : Cuts(r, nal, e, c, q)
      BY <1>2, <1>4, <2>3, CutsIs
    <3>2. RelayType' /\ CountShape'
      BY <1>2, <3>1, CutsType, CutsCount
    <3>3. relay_pc' # "recv" => Current(r, nal)'
      BY <1>2, <3>1, CutsSend
    <3>4. SendShape'
      BY <3>3 DEF SendShape, Current
    <3>5. QED BY <2>1, <3>2, <3>4 DEF RInvs
  <2>4. QED BY <1>4, <2>2, <2>3 DEF Sends, CreateFragment
<1>5. CASE \E i : Received(i)
  <2>1. PICK d, s, L, x : Reception(d, s, L, x)
    BY <1>2, <1>5, ReceptionIs DEF SBase
  <2>2. SBase'
    BY <1>2, <2>1, BaseReceived
  <2>3. CASE /\ UNCHANGED <<relayVars, program>> /\ relay_pc = "recv"
             /\ \/ delivered' = delivered
                \/ out = <<>> /\ delivered' = Append(delivered, x)
    <3>1. \E S : delivered \in Seq(S)
      BY <1>2 DEF SBase, MemoryType
    <3>2. RelayType' /\ SendShape' /\ CountShape'
      BY <1>2, <2>3, <3>1, RelayIdle
    <3>3. QED BY <2>2, <3>2 DEF RInvs
  <2>4. CASE \E m : Handed(x, m)
    <3>1. PICK m : Handed(x, m)
      BY <2>4
    <3>2. RelayType' /\ Current(m + 1, x)' /\ CountShape'
      BY <1>2, <3>1, HandedShape
    <3>3. SendShape'
      BY <3>2 DEF SendShape, Current
    <3>4. QED BY <2>2, <3>2, <3>3 DEF RInvs
  <2>5. QED BY <1>2, <2>1, <2>3, <2>4, RelayReceives
<1>6. QED BY <1>2, <1>3, <1>4, <1>5 DEF SampleKind

LEMMA RelayHolds == SampleSpec => []RInvs
BY RelayInit0, RelayStep, PTL DEF SampleSpec

\* The loop that counts an int down past zero ends, whatever was joined: no NAL
\* becomes more datagrams than its bytes need, and one.
THEOREM RelayEnds == SampleSpec => []FragmentsBounded
<1>1. RInvs => FragmentsBounded
  <2>1. SUFFICES ASSUME RInvs, NEW i \in DOMAIN out, NEW j \in DOMAIN out,
                        out[i].of = out[j].of
                 PROVE  j - i <= Len(delivered[out[i].of]) \div MAX_SIZE
    BY DEF FragmentsBounded
  <2>2. PICK m : m \in Nat /\ DOMAIN out = 1..m
    <3>1. PICK S : out \in Seq(S)
      BY <2>1 DEF RInvs, RelayType, IsList
    <3>2. QED BY <3>1, LenProperties
  <2>3. PICK r : r = out[i].of /\ r \in DOMAIN delivered
    BY <2>1 DEF RInvs, RelayType
  <2>4. PICK l \in Nat : l = Len(delivered[r])
    <3>1. delivered[r] \in Seq(Cell)
      BY <2>1, <2>3, ElementOfSeq DEF RInvs, SBase, MemoryType
    <3>2. QED BY <3>1, LenProperties
  <2>5. i \in Int /\ j \in Int /\ MAX_SIZE \in Nat \ {0}
    BY <2>1, <2>2, SampleAssumption
  <2>6. PICK a \in Int : a = j - i
    BY <2>5
  <2>7. a * MAX_SIZE <= l
    <3>1. CASE i <= j
      <4>1. Near(out, r, l)
        BY <2>1, <2>3, <2>4 DEF RInvs, CountShape
      <4>2. (j - i) * MAX_SIZE <= l
        BY <2>1, <2>3, <3>1, <4>1 DEF Near
      <4>3. QED BY <2>6, <4>2
    <3>2. CASE ~(i <= j)
      <4>1. a < 0
        BY <2>5, <2>6, <3>2
      <4>2. a * MAX_SIZE <= 0
        BY <2>5, <4>1, Z3
      <4>3. a * MAX_SIZE \in Int
        BY <2>5
      <4>4. QED BY <2>4, <4>2, <4>3
    <3>3. QED BY <3>1, <3>2
  <2>8. a <= l \div MAX_SIZE
    BY <2>5, <2>7, QuotientBounds
  <2>9. QED BY <2>3, <2>4, <2>6, <2>8
<1>2. QED BY <1>1, RelayHolds, PTL


-----------------------------------------------------------------------------
(***************************************************************************)
(* What the relay sends of a NAL: all of it, framed to be joined again.    *)
(***************************************************************************)
EndOf(e) == e.from + Len(e.bytes)

Copies(e, nal) == e.bytes = SubSeq(nal, e.from + 1, EndOf(e))

Continues(e, f) == f.from = EndOf(e) /\ f.seq = (e.seq + 1) % OutSeqRange

\* The header of e is that of a fragment, and gives back h.
Says(e, h, start, last) ==
  /\ IsFragment(e.head[1]) /\ RebuiltHead(e) = h /\ Len(e.head) = Len(h) + 1
  /\ StartBit(FuOf(e)) <=> start
  /\ EndBit(FuOf(e)) <=> last

\* Datagrams i to j, and no others, are read on from the r-th NAL.
Linked(o, nal, r, i, j) ==
  /\ i \in DOMAIN o /\ j \in DOMAIN o /\ i <= j
  /\ \A k \in DOMAIN o : o[k].of = r <=> k \in i..j
  /\ \A k \in i..j : Copies(o[k], nal)
  /\ \A k \in i..(j - 1) : Continues(o[k], o[k + 1])

\* They are fragments of the NAL with header h; the last one is done.
Framed(o, nal, h, i, j, done) ==
  /\ SubSeq(nal, 1, o[i].from) = StartCode \o RawBytes(h)
  /\ \A k \in i..j : Says(o[k], h, k = i, done /\ k = j)

PassedOn(o, nal, r, i, j) ==
  /\ Linked(o, nal, r, i, j) /\ EndOf(o[j]) = Len(nal)
  /\ IF i = j THEN o[i].head = <<>> /\ o[i].from = 4
              ELSE \E h : Framed(o, nal, h, i, j, TRUE)

LEMMA PassedIsRelayed ==
  ASSUME NEW r, NEW i \in Nat, NEW j \in Nat, PassedOn(out, delivered[r], r, i, j)
  PROVE  Relayed(r, i, j)
<1>1. PICK nal : nal = delivered[r]
  OBVIOUS
<1>2. /\ Linked(out, nal, r, i, j) /\ EndOf(out[j]) = Len(nal)
      /\ IF i = j THEN out[i].head = <<>> /\ out[i].from = 4
                  ELSE \E h : Framed(out, nal, h, i, j, TRUE)
  BY <1>1 DEF PassedOn
<1>3. /\ i <= j /\ (\A k \in DOMAIN out : out[k].of = r <=> k \in i..j)
      /\ \A k \in i..j :
           out[k].bytes = SubSeq(nal, out[k].from + 1, out[k].from + Len(out[k].bytes))
      /\ \A k \in i..(j - 1) :
           /\ out[k + 1].from = out[k].from + Len(out[k].bytes)
           /\ out[k + 1].seq = (out[k].seq + 1) % OutSeqRange
      /\ out[j].from + Len(out[j].bytes) = Len(nal)
  BY <1>2 DEF Linked, Copies, Continues, EndOf
<1>4. CASE i = j
  BY <1>1, <1>2, <1>3, <1>4 DEF Relayed
<1>5. CASE i # j
  <2>1. PICK h : Framed(out, nal, h, i, j, TRUE)
    BY <1>2, <1>5
  <2>2. i \in i..j
    BY <1>3
  <2>3. RebuiltHead(out[i]) = h
    BY <2>1, <2>2 DEF Framed, Says
  <2>4. /\ SubSeq(nal, 1, out[i].from) = StartCode \o RawBytes(h)
        /\ \A k \in i..j :
             /\ IsFragment(out[k].head[1]) /\ RebuiltHead(out[k]) = h
             /\ Len(out[k].head) = Len(h) + 1
             /\ StartBit(FuOf(out[k])) <=> k = i
             /\ EndBit(FuOf(out[k])) <=> k = j
    BY <2>1 DEF Framed, Says
  <2>5. QED BY <1>1, <1>3, <1>5, <2>3, <2>4 DEF Relayed
<1>6. QED BY <1>4, <1>5

\* A datagram of another NAL disturbs nothing.
LEMMA LinkedBeside ==
  ASSUME NEW o, NEW nal, NEW r, NEW i, NEW j, Linked(o, nal, r, i, j),
         NEW t, NEW m, NEW e, Longer(t, o, m, e), e.of # r
  PROVE  Linked(t, nal, r, i, j) /\ j \in i..j /\ \A k \in i..j : t[k] = o[k]
<1>1. /\ m \in Nat /\ DOMAIN o = 1..m /\ DOMAIN t = 1..(m + 1) /\ t[m + 1] = e
      /\ \A k \in 1..m : t[k] = o[k]
  BY DEF Longer
<1>2. /\ i \in 1..m /\ j \in 1..m /\ i <= j
      /\ \A k \in 1..m : o[k].of = r <=> k \in i..j
      /\ \A k \in i..j : Copies(o[k], nal)
      /\ \A k \in i..(j - 1) : Continues(o[k], o[k + 1])
  BY <1>1 DEF Linked
<1>3. /\ \A k \in i..j : k \in 1..m
      /\ \A k \in i..(j - 1) : k \in 1..m /\ k + 1 \in 1..m
      /\ j \in i..j /\ m + 1 \notin i..j
  BY <1>1, <1>2
<1>4. ASSUME NEW k \in 1..(m + 1) PROVE t[k].of = r <=> k \in i..j
  <2>1. k \in 1..m \/ k = m + 1
    BY <1>1
  <2>2. CASE k \in 1..m
    BY <1>1, <1>2, <2>2
  <2>3. CASE k = m + 1
    BY <1>1, <1>3, <2>3
  <2>4. QED BY <2>1, <2>2, <2>3
<1>5. \A k \in i..j : t[k] = o[k] /\ Copies(t[k], nal)
  BY <1>1, <1>2, <1>3
<1>6. \A k \in i..(j - 1) : Continues(t[k], t[k + 1])
  BY <1>1, <1>2, <1>3
<1>7. i \in 1..(m + 1) /\ j \in 1..(m + 1)
  BY <1>1, <1>2
<1>8. QED BY <1>1, <1>2, <1>3, <1>4, <1>5, <1>6, <1>7 DEF Linked

\* The first datagram of a NAL, and the next one.
LEMMA LinkedFirst ==
  ASSUME NEW o, NEW nal, NEW r, NEW t, NEW m, NEW e, Longer(t, o, m, e),
         \A k \in DOMAIN o : o[k].of # r, e.of = r, Copies(e, nal)
  PROVE  Linked(t, nal, r, m + 1, m + 1)
<1>1. /\ m \in Nat /\ DOMAIN o = 1..m /\ DOMAIN t = 1..(m + 1) /\ t[m + 1] = e
      /\ \A k \in 1..m : t[k] = o[k]
  BY DEF Longer
<1>2. ASSUME NEW k \in 1..(m + 1) PROVE t[k].of = r <=> k \in (m + 1)..(m + 1)
  <2>1. k \in 1..m \/ k = m + 1
    BY <1>1
  <2>2. CASE k \in 1..m
    BY <1>1, <2>2
  <2>3. CASE k = m + 1
    BY <1>1, <2>3
  <2>4. QED BY <2>1, <2>2, <2>3
<1>3. /\ m + 1 \in 1..(m + 1) /\ m + 1 <= m + 1
      /\ \A k \in (m + 1)..(m + 1) : k = m + 1
      /\ \A k \in (m + 1)..(m + 1 - 1) : FALSE
  BY <1>1
<1>4. QED BY <1>1, <1>2, <1>3 DEF Linked

LEMMA LinkedNext ==
  ASSUME NEW o, NEW nal, NEW r, NEW t, NEW m, NEW e, Longer(t, o, m, e),
         NEW i, Linked(o, nal, r, i, m), e.of = r, Copies(e, nal), Continues(o[m], e)
  PROVE  Linked(t, nal, r, i, m + 1)
<1>1. /\ m \in Nat /\ DOMAIN o = 1..m /\ DOMAIN t = 1..(m + 1) /\ t[m + 1] = e
      /\ \A k \in 1..m : t[k] = o[k]
  BY DEF Longer
<1>2. /\ i \in 1..m /\ m \in 1..m
      /\ \A k \in 1..m : o[k].of = r <=> k \in i..m
      /\ \A k \in i..m : Copies(o[k], nal)
      /\ \A k \in i..(m - 1) : Continues(o[k], o[k + 1])
  BY <1>1 DEF Linked
<1>3. ASSUME NEW k \in 1..(m + 1) PROVE t[k].of = r <=> k \in i..(m + 1)
  <2>1. CASE k \in 1..m
    BY <1>1, <1>2, <2>1
  <2>2. CASE k = m + 1
    BY <1>1, <1>2, <2>2
  <2>3. QED BY <1>1, <2>1, <2>2
<1>4. ASSUME NEW k \in i..(m + 1) PROVE Copies(t[k], nal)
  <2>1. CASE k = m + 1
    BY <1>1, <2>1
  <2>2. CASE k \in i..m
    <3>1. k \in 1..m
      BY <1>2, <2>2
    <3>2. QED BY <1>1, <1>2, <2>2, <3>1
  <2>3. QED BY <1>1, <1>2, <2>1, <2>2
<1>5. ASSUME NEW k \in i..m PROVE Continues(t[k], t[k + 1])
  <2>1. k \in 1..m
    BY <1>2
  <2>2. CASE k = m
    BY <1>1, <2>1, <2>2
  <2>3. CASE k # m
    <3>1. k \in i..(m - 1) /\ k + 1 \in 1..m
      BY <1>1, <1>2, <2>1, <2>3
    <3>2. QED BY <1>1, <1>2, <2>1, <3>1
  <2>4. QED BY <2>2, <2>3
<1>6. i \in 1..(m + 1) /\ m + 1 \in 1..(m + 1) /\ i <= m + 1 /\ m + 1 - 1 = m
  BY <1>1, <1>2
<1>7. QED BY <1>1, <1>3, <1>4, <1>5, <1>6 DEF Linked

LEMMA FramedNext ==
  ASSUME NEW o, NEW nal, NEW r, NEW t, NEW m, NEW e, Longer(t, o, m, e),
         NEW i, Linked(o, nal, r, i, m), NEW h, Framed(o, nal, h, i, m, FALSE),
         NEW done, Says(e, h, FALSE, done)
  PROVE  Framed(t, nal, h, i, m + 1, done) /\ i # m + 1
<1>1. /\ m \in Nat /\ DOMAIN o = 1..m /\ t[m + 1] = e /\ \A k \in 1..m : t[k] = o[k]
  BY DEF Longer
<1>2. i \in 1..m
  BY <1>1 DEF Linked
<1>3. /\ SubSeq(nal, 1, t[i].from) = StartCode \o RawBytes(h)
      /\ \A k \in i..m : Says(o[k], h, k = i, FALSE)
  BY <1>1, <1>2 DEF Framed
<1>4. ASSUME NEW k \in i..(m + 1) PROVE Says(t[k], h, k = i, done /\ k = m + 1)
  <2>1. CASE k = m + 1
    <3>1. k # i
      BY <1>1, <1>2, <2>1
    <3>2. QED BY <1>1, <2>1, <3>1 DEF Says
  <2>2. CASE k \in i..m
    <3>1. k \in 1..m /\ k # m + 1
      BY <1>1, <1>2, <2>2
    <3>2. QED BY <1>1, <1>3, <2>2, <3>1 DEF Says
  <2>3. QED BY <1>1, <1>2, <2>1, <2>2
<1>5. i # m + 1
  BY <1>1, <1>2
<1>6. QED BY <1>3, <1>4, <1>5 DEF Framed

LEMMA PassedBeside ==
  ASSUME NEW o, NEW nal, NEW r, NEW i, NEW j, PassedOn(o, nal, r, i, j),
         NEW t, NEW m, NEW e, Longer(t, o, m, e), e.of # r
  PROVE  PassedOn(t, nal, r, i, j)
<1>1. /\ Linked(t, nal, r, i, j) /\ j \in i..j /\ \A k \in i..j : t[k] = o[k]
  BY LinkedBeside DEF PassedOn
<1>2. i \in i..j
  <2>1. m \in Nat /\ DOMAIN t = 1..(m + 1)
    BY DEF Longer
  <2>2. QED BY <1>1, <2>1 DEF Linked
<1>3. EndOf(t[j]) = Len(nal)
  BY <1>1 DEF PassedOn
<1>4. CASE i = j
  BY <1>1, <1>2, <1>3, <1>4 DEF PassedOn
<1>5. CASE i # j
  <2>1. PICK h : Framed(o, nal, h, i, j, TRUE)
    BY <1>5 DEF PassedOn
  <2>2. Framed(t, nal, h, i, j, TRUE)
    BY <1>1, <1>2, <2>1 DEF Framed
  <2>3. QED BY <1>1, <1>3, <1>5, <2>2 DEF PassedOn
<1>6. QED BY <1>4, <1>5

\* A fragment's header says what it was made of.
LEMMA FragmentSays ==
  ASSUME NEW p \in Packs, Cuttable(p.head[1]), NEW start \in BOOLEAN, NEW last \in BOOLEAN,
         NEW e, e.head = FragmentHeadOf(p.head[1], start, last)
  PROVE  Says(e, p.head, start, last)
<1>1. IsFragment(e.head[1]) /\ RebuiltHead(e) = p.head
  BY HeadRebuilt
<1>2. PICK b \in 0..127 : b = p.head[1]
  BY CutHeadIs
<1>3. AvcType(b) \in 0..63 /\ HevcType(b) \in 0..63
  BY FieldsInRange
<1>4. CASE CutAvc(b)
  <2>1. PICK f : f = FuHeader(AvcType(b), start, last)
    OBVIOUS
  <2>2. (StartBit(f) <=> start) /\ (EndBit(f) <=> last)
    BY <1>3, <2>1, FuHeaderIs
  <2>3. PICK g : g = p.head /\ g = <<b>>
    BY <1>2, <1>4, CutHeadIs
  <2>4. e.head = <<AvcIndicator(b), f>>
    BY <1>2, <1>4, <2>1 DEF FragmentHeadOf
  <2>5. FuOf(e) = f /\ Len(e.head) = 2 /\ Len(g) = 1
    <3>1. FuOf(e) = f
      BY <2>4 DEF FuOf
    <3>2. Len(e.head) = 2
      BY <2>4
    <3>3. Len(g) = 1
      BY <2>3
    <3>4. QED BY <3>1, <3>2, <3>3
  <2>6. QED BY <1>1, <2>2, <2>3, <2>5 DEF Says
<1>5. CASE ~CutAvc(b)
  <2>1. PICK f : f = FuHeader(HevcType(b), start, last)
    OBVIOUS
  <2>2. (StartBit(f) <=> start) /\ (EndBit(f) <=> last)
    BY <1>3, <2>1, FuHeaderIs
  <2>3. PICK g : g = p.head /\ g = <<b, 1>>
    BY <1>2, <1>5, CutHeadIs
  <2>4. e.head = <<HevcIndicator(b), 1, f>>
    BY <1>2, <1>5, <2>1 DEF FragmentHeadOf
  <2>5. FuOf(e) = f /\ Len(e.head) = 3 /\ Len(g) = 2
    <3>1. FuOf(e) = f
      BY <2>4 DEF FuOf
    <3>2. Len(e.head) = 3
      BY <2>4
    <3>3. Len(g) = 2
      BY <2>3
    <3>4. QED BY <3>1, <3>2, <3>3
  <2>6. QED BY <1>1, <2>2, <2>3, <2>5 DEF Says
<1>6. QED BY <1>4, <1>5

\* What the loop reads of the memory is the NAL's, as long as it is there.
LEMMA MemoryChunkIs ==
  ASSUME nal_buffer \in Seq(Cell), NEW nal \in Seq(Cell), Len(nal) \in 0..Len(nal_buffer),
         SubSeq(nal_buffer, 1, Len(nal)) = nal,
         NEW from \in Nat, NEW c \in Nat, from + c <= Len(nal)
  PROVE  Chunk(from, c) = SubSeq(nal, from + 1, from + c) /\ Len(Chunk(from, c)) = c
<1>1. PICK l \in Nat, b \in Nat : l = Len(nal) /\ b = Len(nal_buffer)
  BY LenProperties
<1>2. /\ l <= b /\ DOMAIN nal_buffer = 1..b
      /\ \A i \in 1..l : nal[i] = nal_buffer[i]
  <2>1. \A i \in 1..l : SubSeq(nal_buffer, 1, l)[i] = nal_buffer[i]
    BY <1>1, FrontIs
  <2>2. QED BY <1>1, <2>1, LenProperties
<1>3. \A i \in 1..c : from + i \in 1..l /\ from + i \in DOMAIN nal_buffer
  BY <1>1, <1>2
<1>4. \A i \in 1..c : Memory(from + i) = nal[from + i] /\ nal[from + i] \in Cell
  BY <1>1, <1>2, <1>3, ElementOfSeq DEF Memory
<1>5. PICK v : v = Chunk(from, c)
  OBVIOUS
<1>6. v \in Seq(Cell) /\ Len(v) = c /\ \A i \in 1..c : v[i] = nal[from + i]
  <2>1. v = [i \in 1..c |-> Memory(from + i)]
    BY <1>5 DEF Chunk
  <2>2. v \in [1..c -> Cell]
    BY <1>4, <2>1
  <2>3. v \in Seq(Cell) /\ Len(v) = c
    BY <2>2
  <2>4. QED BY <1>4, <2>1, <2>3
<1>7. PICK w : w = SubSeq(nal, from + 1, from + c)
  OBVIOUS
<1>8. w \in Seq(Cell) /\ Len(w) = c /\ \A i \in 1..c : w[i] = nal[from + i]
  <2>1. PICK x \in Int, y \in Int : x = from + 1 /\ y = from + c
    OBVIOUS
  <2>2. \A i \in x..y : nal[i] \in Cell
    <3>1. \A i \in x..y : i \in 1..l
      BY <1>1, <2>1
    <3>2. QED BY <1>1, <3>1, ElementOfSeq
  <2>3. /\ w \in Seq(Cell) /\ Len(w) = IF x <= y THEN y - x + 1 ELSE 0
        /\ \A i \in 1..(y - x + 1) : w[i] = nal[x + i - 1]
    BY <1>7, <2>1, <2>2, SubSeqProperties
  <2>4. Len(w) = c /\ y - x + 1 = c
    BY <2>1, <2>3
  <2>5. \A i \in 1..c : x + i - 1 = from + i
    BY <2>1
  <2>6. QED BY <2>3, <2>4, <2>5
<1>9. v = w
  BY <1>6, <1>8, SeqEqual
<1>10. Chunk(from, c) = w /\ Len(Chunk(from, c)) = c
  BY <1>5, <1>6, <1>9
<1>11. QED BY <1>7, <1>10

\* A NAL that was not damaged before, of a size the loop gets right.
Sounds(nal, p, n) ==
  /\ p \in Packs /\ n \in Nat /\ nal = Begins(p.head, n, p.len) /\ ~MissedSize(p)

\* Such a NAL as values, and what the relay reads of its header.
SoundAs(nal, p, h, b, len) ==
  /\ p \in Packs /\ h = p.head /\ len = p.len /\ b \in {1, 2} /\ Len(h) = b
  /\ len \in Nat /\ len > b /\ ~(len - MAX_SIZE \in 1..b)
  /\ Len(nal) = 4 + len /\ SubSeq(nal, 1, 4 + b) = StartCode \o RawBytes(h)
  /\ len <= MAX_SIZE \/ Cuttable(h[1])
  /\ HeaderByte = h[1]

LEMMA SoundIs ==
  ASSUME SBase, NEW r, NEW nal, Current(r, nal), NEW p, NEW n, Sounds(nal, p, n)
  PROVE  \E h, b, len : SoundAs(nal, p, h, b, len)
<1>1. PICK h \in Seq(Byte), len \in Nat, b \in {1, 2} :
        h = p.head /\ len = p.len /\ b = Len(h) /\ len > b /\ b >= 1
  <2>1. /\ p.head \in Seq(Byte) /\ p.len \in Nat /\ Len(p.head) \in {1, 2}
        /\ p.len > Len(p.head)
    BY PackIs DEF Sounds, HeaderSize
  <2>2. PICK h, len, b : h = p.head /\ len = p.len /\ b = Len(p.head)
    OBVIOUS
  <2>3. h \in Seq(Byte) /\ len \in Nat /\ b \in {1, 2} /\ b = Len(h) /\ len > b
    BY <2>1, <2>2, Zenon
  <2>4. b >= 1
    BY <2>3
  <2>5. QED BY <2>2, <2>3, <2>4
<1>2. /\ nal \in Seq(Cell) /\ nal = Begins(h, n, len) /\ n \in Nat /\ p \in Packs
      /\ Len(nal) \in 0..Len(nal_buffer) /\ SubSeq(nal_buffer, 1, Len(nal)) = nal
  BY <1>1 DEF Sounds, Current
<1>3. ReadsAs(nal, h, n, len)
  BY <1>1, <1>2, BeginsIs
<1>4. Len(nal) = 4 + len /\ \A i \in 1..b : nal[4 + i] = <<0, h[i]>>
  BY <1>1, <1>3 DEF ReadsAs
<1>5. ~(len - MAX_SIZE \in 1..b)
  BY <1>1 DEF Sounds, MissedSize
<1>6. len <= MAX_SIZE \/ Cuttable(h[1])
  BY <1>1, <1>2, SampleAssumption
<1>7. HeaderByte = h[1]
  <2>1. nal_buffer \in Seq(Cell)
    BY DEF SBase, MemoryType
  <2>2. PICK l \in Nat, m \in Nat : l = Len(nal) /\ m = Len(nal_buffer)
    BY <1>2, <2>1, LenProperties
  <2>3. 5 \in 1..l /\ 5 \in 1..m /\ DOMAIN nal_buffer = 1..m /\ l \in 0..m
    BY <1>1, <1>2, <1>4, <2>1, <2>2, LenProperties
  <2>4. nal[5] = nal_buffer[5]
    <3>1. SubSeq(nal_buffer, 1, l)[5] = nal_buffer[5]
      BY <2>1, <2>2, <2>3, FrontIs
    <3>2. QED BY <1>2, <2>2, <3>1
  <2>5. 1 \in 1..b /\ 4 + 1 = 5
    BY <1>1
  <2>6. nal[5] = <<0, h[1]>>
    BY <1>4, <2>5
  <2>7. Memory(5) = <<0, h[1]>>
    BY <2>3, <2>4, <2>6 DEF Memory
  <2>8. QED BY <2>7 DEF HeaderByte
<1>8. SubSeq(nal, 1, 4 + b) = StartCode \o RawBytes(h)
  <2>1. PICK a, c : a = StartCode \o RawBytes(h) /\ c = Bytes(n, Len(h), len)
    OBVIOUS
  <2>2. nal = a \o c
    BY <1>2, <2>1 DEF Begins
  <2>3. RawBytes(h) \in Seq(Cell) /\ Len(RawBytes(h)) = b
    BY <1>1, RawBytesIs
  <2>4. a \in Seq(Cell) /\ Len(a) = 4 + b
    <3>1. PICK g : g = RawBytes(h)
      OBVIOUS
    <3>2. StartCode \o g \in Seq(Cell) /\ Len(StartCode \o g) = Len(StartCode) + Len(g)
      BY <2>3, <3>1, StartCodeIs, JoinedIs
    <3>3. QED BY <2>1, <2>3, <3>1, <3>2, StartCodeIs
  <2>5. c \in Seq(Cell)
    <3>1. PICK q \in Nat : q = len - b
      BY <1>1
    <3>2. IsInterval(c, n, b, q)
      BY <1>1, <1>2, <2>1, <3>1, BytesAre
    <3>3. QED BY <3>2 DEF IsInterval
  <2>6. SubSeq(a \o c, 1, Len(a)) = a
    BY <2>4, <2>5, PrefixIs
  <2>7. QED BY <2>1, <2>2, <2>4, <2>6
<1>9. SoundAs(nal, p, h, b, len)
  BY <1>1, <1>2, <1>4, <1>5, <1>6, <1>7, <1>8 DEF SoundAs
<1>10. QED BY <1>9

\* What the relay has done with every NAL that it is not sending.
DoneShape ==
  \A r \in DOMAIN delivered :
    /\ program = "vdec-sample" /\ (r = Len(delivered) => relay_pc = "recv")
    /\ \E p, n : Sounds(delivered[r], p, n)
    => \E i, j \in Nat : PassedOn(out, delivered[r], r, i, j)

\* And of the one it is cutting: the datagrams sent end where it reads on.
PartSent(o, from, left, seq, nal, r, p) ==
  /\ left > 0 /\ Cuttable(p.head[1])
  /\ \E i : Linked(o, nal, r, i, Len(o)) /\ Framed(o, nal, p.head, i, Len(o), FALSE)
  /\ EndOf(o[Len(o)]) = from /\ seq = (o[Len(o)].seq + 1) % OutSeqRange

PartShape ==
  relay_pc = "fragment" /\ ~relay_start =>
    \A r, nal, p, n : Current(r, nal) /\ Sounds(nal, p, n) =>
      PartSent(out, relay_data, relay_size, relay_sequence, nal, r, p)

\* A NAL of a datagram's length is passed on as it is.
LEMMA WholeSends ==
  ASSUME SBase, RelayType, NEW r, NEW nal, NEW e, Whole(r, nal, e),
         NEW p, NEW n, Sounds(nal, p, n)
  PROVE  \E i, j \in Nat : PassedOn(out', nal, r, i, j)
<1>1. /\ Current(r, nal) /\ relay_start /\ relay_data = 4
      /\ e.of = r /\ e.head = <<>> /\ e.from = 4 /\ e.bytes = Chunk(4, relay_size)
  BY DEF Whole
<1>2. PICK h, b, len : SoundAs(nal, p, h, b, len)
  BY <1>1, SoundIs
<1>3. len \in Nat /\ Len(nal) = 4 + len
  BY <1>2 DEF SoundAs
<1>4. relay_size = len
  <2>1. relay_data + relay_size = Len(nal) /\ relay_size \in Int
    BY <1>1 DEF Current, RelayType
  <2>2. QED BY <1>1, <1>3, <2>1
<1>5. PICK m : Longer(out', out, m, e)
  <2>1. out' = Append(out, e)
    BY <1>3, <1>4 DEF Whole
  <2>2. QED BY <2>1, LongerIs DEF RelayType
<1>6. /\ m \in Nat /\ DOMAIN out = 1..m /\ out'[m + 1] = e
  BY <1>5 DEF Longer
<1>7. Chunk(4, len) = SubSeq(nal, 4 + 1, 4 + len) /\ Len(Chunk(4, len)) = len
  <2>1. /\ nal_buffer \in Seq(Cell) /\ nal \in Seq(Cell)
        /\ Len(nal) \in 0..Len(nal_buffer) /\ SubSeq(nal_buffer, 1, Len(nal)) = nal
    BY <1>1 DEF SBase, MemoryType, Current
  <2>2. 4 + len <= Len(nal) /\ 4 \in Nat
    BY <1>3
  <2>3. QED BY <1>3, <2>1, <2>2, MemoryChunkIs
<1>8. EndOf(e) = Len(nal) /\ Copies(e, nal)
  <2>1. Len(e.bytes) = len
    BY <1>1, <1>4, <1>7
  <2>2. EndOf(e) = 4 + len
    BY <1>1, <2>1 DEF EndOf
  <2>3. QED BY <1>1, <1>3, <1>4, <1>7, <2>2 DEF Copies
<1>9. \A k \in DOMAIN out : out[k].of # r
  BY <1>1 DEF Current
<1>10. Linked(out', nal, r, m + 1, m + 1)
  BY <1>1, <1>5, <1>8, <1>9, LinkedFirst
<1>11. PassedOn(out', nal, r, m + 1, m + 1)
  BY <1>1, <1>6, <1>8, <1>10 DEF PassedOn
<1>12. m + 1 \in Nat
  BY <1>6
<1>13. QED BY <1>11, <1>12

\* What a turn of the loop reads and sends, if there is enough to read.
LEMMA CutCopies ==
  ASSUME SBase, RelayType, NEW r, NEW nal, NEW e, NEW c, NEW q, Cuts(r, nal, e, c, q),
         NEW at, at = relay_data + q, at \in Nat, c \in Nat, at + c <= Len(nal)
  PROVE  e.from = at /\ EndOf(e) = at + c /\ Copies(e, nal)
<1>1. Current(r, nal) /\ e.from = at /\ e.bytes = Chunk(at, c)
  <2>1. c >= 0
    OBVIOUS
  <2>2. QED BY <2>1 DEF Cuts
<1>2. Chunk(at, c) = SubSeq(nal, at + 1, at + c) /\ Len(Chunk(at, c)) = c
  <2>1. /\ nal_buffer \in Seq(Cell) /\ nal \in Seq(Cell)
        /\ Len(nal) \in 0..Len(nal_buffer) /\ SubSeq(nal_buffer, 1, Len(nal)) = nal
    BY <1>1 DEF SBase, MemoryType, Current
  <2>2. QED BY <2>1, MemoryChunkIs
<1>3. EndOf(e) = at + c
  BY <1>1, <1>2 DEF EndOf
<1>4. QED BY <1>1, <1>2, <1>3 DEF Copies

LEMMA CutStrips ==
  ASSUME relay_start, NEW r, NEW nal, NEW e, NEW c, NEW q, Cuts(r, nal, e, c, q),
         NEW p \in Packs, HeaderByte = p.head[1], Cuttable(p.head[1])
  PROVE  q = Len(p.head)
<1>1. PICK b : b = p.head[1] /\ b = HeaderByte /\ Cuttable(b)
  OBVIOUS
<1>2. CASE CutAvc(b)
  <2>1. PICK g : g = p.head /\ g = <<b>>
    BY <1>1, <1>2, CutHeadIs
  <2>2. q = 1
    BY <1>1, <1>2 DEF Cuts, SampleStripped
  <2>3. Len(g) = 1
    BY <2>1
  <2>4. QED BY <2>1, <2>2, <2>3
<1>3. CASE ~CutAvc(b)
  <2>1. PICK g : g = p.head /\ g = <<b, 1>>
    BY <1>1, <1>3, CutHeadIs
  <2>2. q = 2
    BY <1>1, <1>3 DEF Cuts, SampleStripped, Cuttable
  <2>3. Len(g) = 2
    BY <2>1
  <2>4. QED BY <2>1, <2>2, <2>3
<1>4. QED BY <1>2, <1>3

LEMMA CutSays ==
  ASSUME RelayType, NEW r, NEW nal, NEW e, NEW c, NEW q, Cuts(r, nal, e, c, q),
         NEW p \in Packs, HeaderByte = p.head[1], Cuttable(p.head[1]), c \in Nat,
         NEW last \in BOOLEAN, last <=> c = relay_size - q
  PROVE  Says(e, p.head, relay_start, last)
<1>1. PICK b : b = p.head[1] /\ b = HeaderByte /\ Cuttable(b)
  OBVIOUS
<1>2. e.head = SampleHead(last)
  <2>1. c >= 0
    OBVIOUS
  <2>2. (c = relay_size - q) \in BOOLEAN
    OBVIOUS
  <2>3. last = (c = relay_size - q)
    BY <2>2
  <2>4. QED BY <2>1, <2>3 DEF Cuts
<1>3. relay_start \in BOOLEAN
  BY DEF RelayType
<1>4. e.head = FragmentHeadOf(b, relay_start, last)
  BY <1>1, <1>2 DEF SampleHead, FragmentHeadOf, Cuttable
<1>5. Says(e, p.head, relay_start, last)
  BY <1>1, <1>3, <1>4, FragmentSays
<1>6. QED BY <1>5

\* The first turn leaves some of such a NAL for the next.
LEMMA FirstTurn ==
  ASSUME NEW M \in Nat \ {0}, NEW len \in Nat, NEW b \in {1, 2}, ~(len - M \in 1..b),
         len > M
  PROVE  len - b - M > 0 /\ M # len - b /\ 4 + b + M <= 4 + len
<1>1. len - M \in Nat /\ len - M > 0
  OBVIOUS
<1>2. len - M > b
  BY <1>1
<1>3. QED BY <1>2

LEMMA CutFirst ==
  ASSUME SBase, RelayType, relay_start,
         NEW r, NEW nal, NEW e, NEW c, NEW q, Cuts(r, nal, e, c, q),
         NEW p, NEW n, Sounds(nal, p, n)
  PROVE  /\ relay_pc' = "fragment"
         /\ PartSent(out', relay_data', relay_size', relay_sequence', nal, r, p)
<1>1. PICK l, s, t, m : Sizes(r, nal, e, c, q, l, s, t, m)
  BY SizesAre
<1>2. /\ Current(r, nal) /\ relay_pc = "fragment"
      /\ e.of = r /\ e.seq = relay_sequence /\ relay_sequence' = OutSequence
      /\ relay_data' = relay_data + q + c
      /\ relay_pc' = IF relay_size' = 0 THEN "recv" ELSE "fragment"
  BY DEF Cuts
<1>3. PICK h, b, len : SoundAs(nal, p, h, b, len)
  BY <1>2, SoundIs
<1>4. /\ p \in Packs /\ h = p.head /\ len \in Nat /\ b \in {1, 2} /\ b = Len(h)
      /\ Len(nal) = 4 + len /\ HeaderByte = h[1] /\ ~(len - MAX_SIZE \in 1..b)
      /\ SubSeq(nal, 1, 4 + b) = StartCode \o RawBytes(h)
      /\ len <= MAX_SIZE \/ Cuttable(h[1])
  BY <1>3 DEF SoundAs
<1>5. /\ MAX_SIZE \in Nat \ {0} /\ s \in Int /\ s = relay_size /\ t = relay_size'
      /\ t = s - q - c /\ s > MAX_SIZE /\ Longer(out', out, m, e)
  BY <1>1 DEF Sizes
<1>6. relay_data = 4 /\ s = len /\ \A k \in DOMAIN out : out[k].of # r
  <2>1. relay_data = 4 /\ relay_data + s = 4 + len /\ \A k \in DOMAIN out : out[k].of # r
    BY <1>2, <1>4, <1>5 DEF Current
  <2>2. 4 + s = 4 + len
    BY <2>1
  <2>3. QED BY <1>4, <1>5, <2>1, <2>2
<1>7. c = MAX_SIZE /\ c \in Nat
  BY <1>5 DEF Cuts
<1>8. Cuttable(h[1]) /\ len > MAX_SIZE
  BY <1>4, <1>5, <1>6
<1>9. len - b - MAX_SIZE > 0 /\ MAX_SIZE # len - b /\ 4 + b + MAX_SIZE <= 4 + len
  BY <1>4, <1>5, <1>8, FirstTurn
<1>10. Says(e, h, TRUE, FALSE) /\ q = b
  <2>1. q = Len(p.head)
    <3>1. p \in Packs /\ HeaderByte = p.head[1] /\ Cuttable(p.head[1])
      BY <1>4, <1>8
    <3>2. QED BY <3>1, CutStrips
  <2>2. q = b
    BY <1>4, <2>1
  <2>3. FALSE \in BOOLEAN /\ (FALSE <=> c = relay_size - q)
    BY <1>4, <1>5, <1>6, <1>7, <1>9, <2>2
  <2>4. Says(e, p.head, relay_start, FALSE)
    <3>1. p \in Packs /\ HeaderByte = p.head[1] /\ Cuttable(p.head[1]) /\ c \in Nat
      BY <1>4, <1>7, <1>8
    <3>2. QED BY <2>3, <3>1, CutSays
  <2>5. relay_start = TRUE
    BY DEF RelayType
  <2>6. QED BY <1>4, <2>2, <2>4, <2>5
<1>11. PICK at \in Nat : at = 4 + b
  BY <1>4
<1>12. e.from = at /\ EndOf(e) = at + c /\ Copies(e, nal)
  <2>1. at = relay_data + q /\ at + c <= Len(nal)
    BY <1>4, <1>6, <1>7, <1>9, <1>10, <1>11
  <2>2. QED BY <1>7, <1>11, <2>1, CutCopies
<1>13. Linked(out', nal, r, m + 1, m + 1)
  BY <1>2, <1>5, <1>6, <1>12, LinkedFirst
<1>14. m \in Nat /\ Len(out') = m + 1 /\ out'[m + 1] = e
  BY <1>5 DEF Longer
<1>15. Framed(out', nal, h, m + 1, m + 1, FALSE)
  <2>1. SubSeq(nal, 1, out'[m + 1].from) = StartCode \o RawBytes(h)
    BY <1>4, <1>11, <1>12, <1>14
  <2>2. ASSUME NEW k \in (m + 1)..(m + 1)
        PROVE  Says(out'[k], h, k = m + 1, FALSE /\ k = m + 1)
    <3>1. k = m + 1
      BY <1>14
    <3>2. QED BY <1>10, <1>14, <3>1 DEF Says
  <2>3. QED BY <2>1, <2>2 DEF Framed
<1>16. relay_size' > 0 /\ relay_size' # 0
  BY <1>4, <1>5, <1>6, <1>7, <1>9, <1>10
<1>17. EndOf(out'[Len(out')]) = relay_data'
  <2>1. relay_data' = at + c
    BY <1>2, <1>4, <1>6, <1>7, <1>10, <1>11
  <2>2. QED BY <1>12, <1>14, <2>1
<1>18. relay_sequence' = (out'[Len(out')].seq + 1) % OutSeqRange
  BY <1>2, <1>14 DEF OutSequence
<1>19. \E i : /\ Linked(out', nal, r, i, Len(out'))
              /\ Framed(out', nal, p.head, i, Len(out'), FALSE)
  BY <1>4, <1>13, <1>14, <1>15
<1>20. QED BY <1>2, <1>4, <1>8, <1>16, <1>17, <1>18, <1>19 DEF PartSent

LEMMA CutNext ==
  ASSUME SBase, RelayType, PartShape, ~relay_start,
         NEW r, NEW nal, NEW e, NEW c, NEW q, Cuts(r, nal, e, c, q),
         NEW p, NEW n, Sounds(nal, p, n)
  PROVE  IF relay_pc' = "recv"
           THEN \E i, j \in Nat : PassedOn(out', nal, r, i, j)
           ELSE PartSent(out', relay_data', relay_size', relay_sequence', nal, r, p)
<1>1. PICK l, s, t, m : Sizes(r, nal, e, c, q, l, s, t, m)
  BY SizesAre
<1>2. /\ Current(r, nal) /\ relay_pc = "fragment" /\ q = 0
      /\ e.of = r /\ e.seq = relay_sequence /\ relay_sequence' = OutSequence
      /\ relay_data' = relay_data + q + c
      /\ relay_pc' = IF relay_size' = 0 THEN "recv" ELSE "fragment"
      /\ c = IF relay_size > MAX_SIZE THEN MAX_SIZE ELSE relay_size
  BY DEF Cuts
<1>3. PICK h, b, len : SoundAs(nal, p, h, b, len)
  BY <1>2, SoundIs
<1>4. p \in Packs /\ h = p.head /\ HeaderByte = h[1]
  BY <1>3 DEF SoundAs
<1>5. /\ MAX_SIZE \in Nat \ {0} /\ s \in Int /\ s = relay_size /\ t = relay_size'
      /\ t = s - q - c /\ l = Len(nal) /\ l \in Nat /\ Longer(out', out, m, e)
  BY <1>1 DEF Sizes
<1>6. PartSent(out, relay_data, relay_size, relay_sequence, nal, r, p)
  BY <1>2 DEF PartShape
<1>7. /\ m \in Nat /\ Len(out) = m /\ Len(out') = m + 1 /\ out'[m + 1] = e
      /\ DOMAIN out' = 1..(m + 1) /\ DOMAIN out = 1..m
  BY <1>5 DEF Longer
<1>8. PICK i : Linked(out, nal, r, i, m) /\ Framed(out, nal, h, i, m, FALSE)
  BY <1>4, <1>6, <1>7 DEF PartSent
<1>9. /\ s > 0 /\ Cuttable(h[1]) /\ EndOf(out[m]) = relay_data
      /\ relay_sequence = (out[m].seq + 1) % OutSeqRange
  BY <1>4, <1>5, <1>6, <1>7 DEF PartSent
<1>10. PICK at \in Nat : at = relay_data /\ at + s = l
  <2>1. relay_data \in Int /\ relay_data >= 4 /\ relay_data + s = l
    BY <1>2, <1>5 DEF Current, RelayType
  <2>2. QED BY <2>1
<1>11. c \in Nat /\ c <= s /\ t >= 0
  BY <1>2, <1>5, <1>9
<1>12. e.from = at /\ EndOf(e) = at + c /\ Copies(e, nal)
  <2>1. at = relay_data + q /\ at + c <= Len(nal)
    BY <1>2, <1>5, <1>10, <1>11
  <2>2. QED BY <1>11, <2>1, CutCopies
<1>13. PICK last \in BOOLEAN : last <=> t = 0
  OBVIOUS
<1>14. Says(e, h, FALSE, last)
  <2>1. last <=> c = relay_size - q
    BY <1>2, <1>5, <1>11, <1>13
  <2>2. Says(e, p.head, relay_start, last)
    <3>1. HeaderByte = p.head[1] /\ Cuttable(p.head[1])
      BY <1>4, <1>9
    <3>2. QED BY <1>4, <1>11, <1>13, <2>1, <3>1, CutSays
  <2>3. relay_start = FALSE
    BY DEF RelayType
  <2>4. QED BY <1>4, <2>2, <2>3
<1>15. Continues(out[m], e)
  BY <1>2, <1>9, <1>10, <1>12 DEF Continues
<1>16. Linked(out', nal, r, i, m + 1)
  BY <1>2, <1>5, <1>8, <1>12, <1>15, LinkedNext
<1>17. Framed(out', nal, h, i, m + 1, last) /\ i # m + 1
  <2>1. Longer(out', out, m, e)
    BY <1>5
  <2>2. QED BY <1>8, <1>14, <2>1, FramedNext
<1>18. CASE t = 0
  <2>1. Framed(out', nal, h, i, m + 1, TRUE)
    <3>1. last = TRUE
      BY <1>13, <1>18
    <3>2. QED BY <1>17, <3>1
  <2>2. EndOf(out'[m + 1]) = Len(nal)
    BY <1>2, <1>5, <1>7, <1>10, <1>11, <1>12, <1>18
  <2>3. PassedOn(out', nal, r, i, m + 1)
    BY <1>16, <1>17, <2>1, <2>2 DEF PassedOn
  <2>4. i \in Nat /\ m + 1 \in Nat
    BY <1>7, <1>16 DEF Linked
  <2>5. QED BY <1>2, <1>5, <1>18, <2>3, <2>4
<1>19. CASE t # 0
  <2>1. relay_pc' = "fragment" /\ relay_size' > 0
    BY <1>2, <1>5, <1>11, <1>19
  <2>2. Framed(out', nal, h, i, m + 1, FALSE)
    <3>1. last = FALSE
      BY <1>13, <1>19
    <3>2. QED BY <1>17, <3>1
  <2>3. EndOf(out'[Len(out')]) = relay_data'
    <3>1. relay_data' = at + c
      BY <1>2, <1>10, <1>11
    <3>2. QED BY <1>7, <1>12, <3>1
  <2>4. relay_sequence' = (out'[Len(out')].seq + 1) % OutSeqRange
    BY <1>2, <1>7 DEF OutSequence
  <2>5. \E a : /\ Linked(out', nal, r, a, Len(out'))
               /\ Framed(out', nal, p.head, a, Len(out'), FALSE)
    BY <1>4, <1>7, <1>16, <2>2
  <2>6. PartSent(out', relay_data', relay_size', relay_sequence', nal, r, p)
    BY <1>4, <1>9, <2>1, <2>3, <2>4, <2>5 DEF PartSent
  <2>7. QED BY <2>1, <2>6
<1>20. QED BY <1>18, <1>19

\* What is passed on stays passed on while another NAL is.
LEMMA DoneBeside ==
  ASSUME RelayType, DoneShape, delivered' = delivered, program' = program,
         NEW a \in DOMAIN delivered, a # Len(delivered),
         program = "vdec-sample", \E p, n : Sounds(delivered[a], p, n),
         NEW e, e.of = Len(delivered), out' = out \/ out' = Append(out, e)
  PROVE  \E i, j \in Nat : PassedOn(out', delivered[a], a, i, j)
<1>1. PICK nal : nal = delivered[a]
  OBVIOUS
<1>2. PICK i \in Nat, j \in Nat : PassedOn(out, nal, a, i, j)
  BY <1>1 DEF DoneShape
<1>3. CASE out' = out
  BY <1>1, <1>2, <1>3
<1>4. CASE out' = Append(out, e)
  <2>1. PICK m : Longer(out', out, m, e)
    BY <1>4, LongerIs DEF RelayType
  <2>2. e.of # a
    OBVIOUS
  <2>3. PassedOn(out', nal, a, i, j)
    BY <1>2, <2>1, <2>2, PassedBeside
  <2>4. QED BY <1>1, <2>3
<1>5. QED BY <1>3, <1>4

LEMMA WholeDone ==
  ASSUME SBase, RelayType, DoneShape, NEW r, NEW nal, NEW e, Whole(r, nal, e)
  PROVE  DoneShape' /\ PartShape'
<1>1. /\ r = Len(delivered) /\ nal = delivered[r] /\ e.of = r
      /\ UNCHANGED <<delivered, program>> /\ relay_pc' = "recv"
      /\ out' = out \/ out' = Append(out, e)
  BY DEF Whole, Current
<1>2. ASSUME NEW a \in DOMAIN delivered, program = "vdec-sample",
             \E p, n : Sounds(delivered[a], p, n)
      PROVE  \E i, j \in Nat : PassedOn(out', delivered[a], a, i, j)
  <2>1. CASE a = r
    <3>1. PICK p, n : Sounds(nal, p, n)
      BY <1>1, <1>2, <2>1
    <3>2. \E i, j \in Nat : PassedOn(out', nal, r, i, j)
      BY <3>1, WholeSends
    <3>3. QED BY <1>1, <2>1, <3>2
  <2>2. CASE a # r
    BY <1>1, <1>2, <2>2, DoneBeside
  <2>3. QED BY <2>1, <2>2
<1>3. DoneShape'
  BY <1>1, <1>2 DEF DoneShape
<1>4. PartShape'
  BY <1>1 DEF PartShape
<1>5. QED BY <1>3, <1>4

LEMMA CutsDone ==
  ASSUME SBase, RelayType, DoneShape, PartShape,
         NEW r, NEW nal, NEW e, NEW c, NEW q, Cuts(r, nal, e, c, q)
  PROVE  DoneShape' /\ PartShape'
<1>1. /\ r = Len(delivered) /\ nal = delivered[r] /\ e.of = r
      /\ UNCHANGED <<delivered, program>> /\ relay_pc' \in {"recv", "fragment"}
      /\ out' = Append(out, e)
  BY DEF Cuts, Current
<1>2. ASSUME NEW p, NEW n, Sounds(nal, p, n)
      PROVE  IF relay_pc' = "recv"
               THEN \E i, j \in Nat : PassedOn(out', nal, r, i, j)
               ELSE PartSent(out', relay_data', relay_size', relay_sequence', nal, r, p)
  <2>1. CASE relay_start
    <3>1. /\ relay_pc' = "fragment"
          /\ PartSent(out', relay_data', relay_size', relay_sequence', nal, r, p)
      BY <1>2, <2>1, CutFirst
    <3>2. QED BY <3>1
  <2>2. CASE ~relay_start
    BY <1>2, <2>2, CutNext
  <2>3. QED BY <2>1, <2>2
<1>3. ASSUME NEW a \in DOMAIN delivered, program = "vdec-sample",
             a = r => relay_pc' = "recv", \E p, n : Sounds(delivered[a], p, n)
      PROVE  \E i, j \in Nat : PassedOn(out', delivered[a], a, i, j)
  <2>1. CASE a = r
    <3>1. PICK p, n : Sounds(nal, p, n)
      BY <1>1, <1>3, <2>1
    <3>2. \E i, j \in Nat : PassedOn(out', nal, r, i, j)
      BY <1>2, <1>3, <2>1, <3>1
    <3>3. QED BY <1>1, <2>1, <3>2
  <2>2. CASE a # r
    BY <1>1, <1>3, <2>2, DoneBeside
  <2>3. QED BY <2>1, <2>2
<1>4. DoneShape'
  BY <1>1, <1>3 DEF DoneShape
<1>5. ASSUME relay_pc' = "fragment", NEW a, NEW x, NEW p, NEW n,
             Current(a, x)', Sounds(x, p, n)
      PROVE  PartSent(out', relay_data', relay_size', relay_sequence', x, a, p)
  <2>1. a = Len(delivered') /\ x = delivered'[a]
    BY <1>5 DEF Current
  <2>2. a = r /\ x = nal
    BY <1>1, <2>1
  <2>3. QED BY <1>2, <1>5, <2>2
<1>6. PartShape'
  BY <1>5 DEF PartShape
<1>7. QED BY <1>4, <1>6

LEMMA HandedDone ==
  ASSUME RelayType, DoneShape, NEW x, NEW m, Handed(x, m)
  PROVE  DoneShape' /\ PartShape'
<1>1. /\ relay_pc = "recv" /\ out' = out /\ program' = program
      /\ relay_start' = TRUE /\ relay_pc' # "recv"
      /\ DOMAIN delivered = 1..m /\ DOMAIN delivered' = 1..(m + 1) /\ m \in Nat
      /\ Len(delivered') = m + 1 /\ \A k \in 1..m : delivered'[k] = delivered[k]
  BY DEF Handed, Longer
<1>2. ASSUME NEW a \in 1..(m + 1), program = "vdec-sample", a # m + 1,
             \E p, n : Sounds(delivered'[a], p, n)
      PROVE  \E i, j \in Nat : PassedOn(out, delivered'[a], a, i, j)
  <2>1. a \in 1..m
    BY <1>1, <1>2
  <2>2. PICK nal : nal = delivered[a] /\ nal = delivered'[a]
    BY <1>1, <2>1
  <2>3. \E p, n : Sounds(nal, p, n)
    BY <1>2, <2>2
  <2>4. \E i, j \in Nat : PassedOn(out, nal, a, i, j)
    BY <1>1, <1>2, <2>1, <2>2, <2>3 DEF DoneShape
  <2>5. QED BY <2>2, <2>4
<1>3. DoneShape'
  BY <1>1, <1>2 DEF DoneShape
<1>4. PartShape'
  BY <1>1 DEF PartShape
<1>5. QED BY <1>3, <1>4

LEMMA IdleDone ==
  ASSUME DoneShape, UNCHANGED <<relayVars, program>>, relay_pc = "recv",
         delivered' = delivered \/ program = "vdec-stdout"
  PROVE  DoneShape' /\ PartShape'
<1>1. relay_pc' = "recv" /\ out' = out /\ program' = program
  BY DEF relayVars
<1>2. PartShape'
  BY <1>1 DEF PartShape
<1>3. CASE delivered' = delivered
  BY <1>1, <1>2, <1>3 DEF DoneShape
<1>4. CASE program = "vdec-stdout"
  BY <1>1, <1>2, <1>4 DEF DoneShape
<1>5. QED BY <1>3, <1>4

PInv == RInvs /\ DoneShape /\ PartShape

LEMMA PassedInit == SampleInit => PInv
<1>1. SUFFICES ASSUME SampleInit PROVE PInv
  OBVIOUS
<1>2. RInvs
  BY <1>1, RelayInit0
<1>3. relay_pc = "recv" /\ delivered = <<>>
  BY <1>1 DEF SampleInit, RelayInit, LinkInit, ReceiverInit
<1>4. DOMAIN delivered = {}
  BY <1>3
<1>5. QED BY <1>2, <1>3, <1>4 DEF PInv, DoneShape, PartShape

LEMMA PassedStep == PInv /\ [SampleNext]_sampleVars => PInv'
<1>1. SUFFICES ASSUME PInv, [SampleNext]_sampleVars PROVE PInv'
  OBVIOUS
<1>2. RInvs' /\ SampleKind /\ SBase /\ RelayType /\ SendShape /\ DoneShape /\ PartShape
  BY <1>1, RelayStep, SampleStep DEF PInv, RInvs, SBase
<1>3. CASE Waits
  <2>1. UNCHANGED <<relayVars, program, nal_buffer, delivered>>
    BY <1>3 DEF Waits, sampleRest
  <2>2. UNCHANGED <<relay_pc, relay_data, relay_size, relay_start, relay_sequence, out>>
    BY <2>1 DEF relayVars
  <2>3. DoneShape'
    BY <1>2, <2>1, <2>2 DEF DoneShape
  <2>4. PartShape'
    BY <1>2, <2>1, <2>2 DEF PartShape, Current
  <2>5. QED BY <1>2, <2>3, <2>4 DEF PInv
<1>4. CASE Sends
  <2>1. CASE RelayWhole
    <3>1. PICK r, nal, e : Whole(r, nal, e)
      BY <1>2, <1>4, <2>1, WholeIs
    <3>2. QED BY <1>2, <3>1, WholeDone DEF PInv
  <2>2. CASE RelayFragment
    <3>1. PICK r, nal, e, c, q : Cuts(r, nal, e, c, q)
      BY <1>2, <1>4, <2>2, CutsIs
    <3>2. QED BY <1>2, <3>1, CutsDone DEF PInv
  <2>3. QED BY <1>4, <2>1, <2>2 DEF Sends, CreateFragment
<1>5. CASE \E i : Received(i)
  <2>1. PICK d, s, L, x : Reception(d, s, L, x)
    BY <1>2, <1>5, ReceptionIs DEF SBase
  <2>2. CASE /\ UNCHANGED <<relayVars, program>> /\ relay_pc = "recv"
             /\ delivered' = delivered \/ program = "vdec-stdout"
    BY <1>2, <2>2, IdleDone DEF PInv
  <2>3. CASE \E m : Handed(x, m)
    BY <1>2, <2>3, HandedDone DEF PInv
  <2>4. QED BY <1>2, <2>1, <2>2, <2>3, RelayReceives
<1>6. QED BY <1>2, <1>3, <1>4, <1>5 DEF SampleKind

LEMMA PassedHolds == SampleSpec => []PInv
BY PassedInit, PassedStep, PTL DEF SampleSpec

\* The relay's loop is the inverse of its own decode_frame: of every NAL that was
\* not damaged before, and of a size the loop gets right, it sends on all bytes,
\* framed so that they are joined to that NAL again.
THEOREM RelaysWhole == SampleSpec => []RelayedWhole
<1>1. PInv => RelayedWhole
  <2>1. SUFFICES ASSUME PInv, program = "vdec-sample", NEW r \in DOMAIN delivered,
                        NEW n \in DOMAIN nals, delivered[r] = Intact(n),
                        ~MissedSize(nals[n]), ~(r = Len(delivered) /\ relay_pc # "recv")
                 PROVE  \E i, j \in DOMAIN out : Relayed(r, i, j)
    BY DEF RelayedWhole
  <2>2. PICK nal, p : nal = delivered[r] /\ p = nals[n]
    OBVIOUS
  <2>3. nals \in Seq(Packs)
    BY <2>1 DEF PInv, RInvs, SBase, NetInv, SenderInv, IInv, TypeOK
  <2>4. n \in Nat /\ p \in Packs
    BY <2>2, <2>3, ElementOfSeq, LenProperties
  <2>5. nal = Begins(p.head, n, p.len)
    BY <2>1, <2>2, IntactIs
  <2>6. Sounds(nal, p, n)
    BY <2>1, <2>2, <2>4, <2>5 DEF Sounds
  <2>7. PICK i \in Nat, j \in Nat : PassedOn(out, delivered[r], r, i, j)
    BY <2>1, <2>2, <2>6 DEF PInv, DoneShape
  <2>8. Relayed(r, i, j)
    BY <2>7, PassedIsRelayed
  <2>9. i \in DOMAIN out /\ j \in DOMAIN out
    BY <2>7 DEF PassedOn, Linked
  <2>10. QED BY <2>8, <2>9
<1>2. QED BY <1>1, PassedHolds, PTL
=============================================================================
