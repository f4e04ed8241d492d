---------------------------- MODULE VideoLinkProofs ----------------------------
(***************************************************************************)
(* Proofs about VideoLink for every set of NALs, every max_frame_size and  *)
(* every number of datagrams lost, doubled and overtaken: what vdec's      *)
(* decode_frame makes of what venc's sendPacket cut.  The sender's own     *)
(* invariant comes from FrameSenderProofs; the network leaves it alone.    *)
(***************************************************************************)
EXTENDS VideoLink, FrameSenderProofs

\* A byte of nal_buffer: the NAL it is of, 0 for a known value, and which.
Cell == Nat \X Nat

\* A NAL under reconstruction: header h, then the bytes of NAL n up to byte to.
Begins(h, n, to) == StartCode \o RawBytes(h) \o Bytes(n, Len(h), to)

-----------------------------------------------------------------------------
(***************************************************************************)
(* Sequences: what joining them, removing and doubling an item gives.      *)
(***************************************************************************)
\* Two sequences joined, item by item.
LEMMA JoinedIs ==
  ASSUME NEW S, NEW s \in Seq(S), NEW t \in Seq(S)
  PROVE  /\ s \o t \in Seq(S) /\ Len(s \o t) = Len(s) + Len(t)
         /\ \A i \in 1..Len(s) : (s \o t)[i] = s[i]
         /\ \A i \in 1..Len(t) : (s \o t)[Len(s) + i] = t[i]
<1>1. /\ s \o t \in Seq(S) /\ Len(s \o t) = Len(s) + Len(t)
      /\ \A i \in 1..(Len(s) + Len(t)) :
           (s \o t)[i] = IF i <= Len(s) THEN s[i] ELSE t[i - Len(s)]
  BY ConcatProperties
<1>2. PICK m \in Nat, n \in Nat : m = Len(s) /\ n = Len(t)
  BY LenProperties
<1>3. ASSUME NEW i \in 1..m PROVE (s \o t)[i] = s[i]
  BY <1>1, <1>2
<1>4. ASSUME NEW i \in 1..n PROVE (s \o t)[m + i] = t[i]
  <2>1. m + i \in 1..(m + n) /\ ~(m + i <= m) /\ (m + i) - m = i
    OBVIOUS
  <2>2. QED BY <1>1, <1>2, <2>1
<1>5. QED BY <1>1, <1>2, <1>3, <1>4

\* A sequence given by its items.
LEMMA ListIs ==
  ASSUME NEW S, NEW m \in Nat, NEW s, s \in [1..m -> S]
  PROVE  /\ s \in Seq(S) /\ Len(s) = m /\ DOMAIN s = 1..m
<1>1. s \in Seq(S)
  BY SeqDef
<1>2. Len(s) \in Nat /\ DOMAIN s = 1..Len(s)
  BY <1>1, LenProperties
<1>3. 1..Len(s) = 1..m
  BY <1>2
<1>4. Len(s) = m
  BY <1>2, <1>3
<1>5. QED BY <1>1, <1>2, <1>4

LEMMA RemoveAtIs ==
  ASSUME NEW S, NEW s \in Seq(S), NEW i \in DOMAIN s, NEW m \in Nat, m = Len(s)
  PROVE  /\ RemoveAt(s, i) \in Seq(S) /\ Len(RemoveAt(s, i)) = m - 1
         /\ DOMAIN RemoveAt(s, i) = 1..(m - 1)
         /\ \A k \in 1..(m - 1) : RemoveAt(s, i)[k] = IF k < i THEN s[k] ELSE s[k + 1]
<1>1. /\ i \in 1..m /\ DOMAIN s = 1..m /\ \A k \in 1..m : s[k] \in S
  BY LenProperties, ElementOfSeq
<1>2. i \in 1..m
  BY <1>1
<1>3. PICK a : a = SubSeq(s, 1, i - 1)
  OBVIOUS
<1>4. PICK b : b = SubSeq(s, i + 1, m)
  OBVIOUS
<1>5. /\ a \in Seq(S) /\ Len(a) = i - 1
      /\ \A k \in 1..(i - 1) : a[k] = s[k]
  <2>1. i - 1 \in Int /\ 1 \in Int /\ \A k \in 1..(i - 1) : s[k] \in S
    BY <1>1
  <2>2. /\ a \in Seq(S) /\ Len(a) = IF 1 <= i - 1 THEN (i - 1) - 1 + 1 ELSE 0
        /\ \A k \in 1..((i - 1) - 1 + 1) : a[k] = s[1 + k - 1]
    BY <1>3, <2>1, SubSeqProperties
  <2>3. Len(a) = i - 1 /\ (i - 1) - 1 + 1 = i - 1
    BY <1>1, <2>2
  <2>4. \A k \in 1..(i - 1) : 1 + k - 1 = k
    BY <1>1
  <2>5. QED BY <2>2, <2>3, <2>4
<1>6. /\ b \in Seq(S) /\ Len(b) = m - i
      /\ \A k \in 1..(m - i) : b[k] = s[i + k]
  <2>1. PICK j \in Int : j = i + 1 /\ \A k \in j..m : s[k] \in S
    BY <1>1
  <2>2. /\ b \in Seq(S) /\ Len(b) = IF j <= m THEN m - j + 1 ELSE 0
        /\ \A k \in 1..(m - j + 1) : b[k] = s[j + k - 1]
    BY <1>4, <2>1, SubSeqProperties
  <2>3. Len(b) = m - i /\ m - j + 1 = m - i
    BY <1>1, <2>1, <2>2
  <2>4. \A k \in 1..(m - i) : j + k - 1 = i + k
    BY <1>1, <2>1
  <2>5. QED BY <2>2, <2>3, <2>4
<1>7. PICK p \in Nat, q \in Nat : p = i - 1 /\ q = m - i /\ p + q = m - 1
  <2>1. i - 1 \in Nat /\ m - i \in Nat /\ (i - 1) + (m - i) = m - 1
    BY <1>1
  <2>2. QED BY <2>1
<1>8. p = Len(a) /\ q = Len(b)
  BY <1>5, <1>6, <1>7
<1>9. /\ a \o b \in Seq(S) /\ Len(a \o b) = p + q
      /\ \A k \in 1..p : (a \o b)[k] = a[k]
      /\ \A k \in 1..q : (a \o b)[p + k] = b[k]
  <2>1. a \in Seq(S) /\ b \in Seq(S)
    BY <1>5, <1>6
  <2>2. QED BY <1>8, <2>1, JoinedIs
<1>10. RemoveAt(s, i) = a \o b
  BY <1>3, <1>4 DEF RemoveAt
<1>11. ASSUME NEW k \in 1..(m - 1)
       PROVE  (a \o b)[k] = IF k < i THEN s[k] ELSE s[k + 1]
  <2>1. CASE k < i
    <3>1. k \in 1..p /\ k \in 1..(i - 1)
      BY <1>1, <1>7, <2>1
    <3>2. QED BY <1>5, <1>9, <2>1, <3>1
  <2>2. CASE ~(k < i)
    <3>1. PICK j \in 1..(m - i) : k = p + j /\ i + j = k + 1
      <4>1. \A x \in 1..m, y \in 1..(m - 1) : ~(y < x) =>
              /\ y - x + 1 \in 1..(m - x) /\ y = (x - 1) + (y - x + 1)
              /\ x + (y - x + 1) = y + 1
        OBVIOUS
      <4>2. QED BY <1>7, <1>2, <2>2, <4>1
    <3>2. (a \o b)[k] = b[j]
      BY <1>7, <1>9, <3>1
    <3>3. QED BY <1>6, <2>2, <3>1, <3>2
  <2>3. QED BY <2>1, <2>2
<1>12. DOMAIN (a \o b) = 1..(m - 1)
  BY <1>9, <1>7, LenProperties
<1>13. QED BY <1>9, <1>10, <1>7, <1>11, <1>12

\* t is s with item i doubled.
IsDoubled(t, s, i) ==
  /\ Len(t) = Len(s) + 1 /\ DOMAIN t = 1..(Len(s) + 1)
  /\ \A k \in 1..(Len(s) + 1) : t[k] = IF k <= i THEN s[k] ELSE s[k - 1]

LEMMA DoubledIs ==
  ASSUME NEW S, NEW s \in Seq(S), NEW i \in DOMAIN s,
         NEW t, t = InsertAt(s, i, s[i])
  PROVE  t \in Seq(S) /\ IsDoubled(t, s, i)
<1>1. PICK m \in Nat : m = Len(s)
  BY LenProperties
<1>2. /\ i \in 1..m /\ DOMAIN s = 1..m /\ \A k \in 1..m : s[k] \in S
  BY <1>1, LenProperties, ElementOfSeq
<1>3. i \in 1..m
  BY <1>2
<1>4. PICK a : a = SubSeq(s, 1, i - 1)
  OBVIOUS
<1>5. PICK b : b = SubSeq(s, i, m)
  OBVIOUS
<1>6. /\ a \in Seq(S) /\ Len(a) = i - 1
      /\ \A k \in 1..(i - 1) : a[k] = s[k]
  <2>1. i - 1 \in Int /\ 1 \in Int /\ \A k \in 1..(i - 1) : s[k] \in S
    BY <1>2
  <2>2. /\ a \in Seq(S) /\ Len(a) = IF 1 <= i - 1 THEN (i - 1) - 1 + 1 ELSE 0
        /\ \A k \in 1..((i - 1) - 1 + 1) : a[k] = s[1 + k - 1]
    BY <1>4, <2>1, SubSeqProperties
  <2>3. Len(a) = i - 1 /\ (i - 1) - 1 + 1 = i - 1
    BY <1>2, <2>2
  <2>4. \A k \in 1..(i - 1) : 1 + k - 1 = k
    BY <1>2
  <2>5. QED BY <2>2, <2>3, <2>4
<1>7. /\ b \in Seq(S) /\ Len(b) = m - i + 1
      /\ \A k \in 1..(m - i + 1) : b[k] = s[i + k - 1]
  <2>1. i \in Int /\ m \in Int /\ \A k \in i..m : s[k] \in S
    BY <1>2
  <2>2. /\ b \in Seq(S) /\ Len(b) = IF i <= m THEN m - i + 1 ELSE 0
        /\ \A k \in 1..(m - i + 1) : b[k] = s[i + k - 1]
    BY <1>5, <2>1, SubSeqProperties
  <2>3. QED BY <1>2, <2>2
<1>8. PICK c : c = <<s[i]>>
  OBVIOUS
<1>9. c \in Seq(S) /\ Len(c) = 1 /\ c[1] = s[i]
  BY <1>2, <1>8
<1>10. i - 1 \in Nat /\ (i - 1) + 1 = i /\ i + (m - i + 1) = m + 1
  BY <1>3
<1>11. /\ a \o c \in Seq(S) /\ Len(a \o c) = i
       /\ \A k \in 1..(i - 1) : (a \o c)[k] = s[k]
       /\ (a \o c)[i] = s[i]
  <2>1. a \in Seq(S) /\ c \in Seq(S)
    BY <1>6, <1>9
  <2>2. /\ a \o c \in Seq(S) /\ Len(a \o c) = (i - 1) + 1
        /\ \A k \in 1..(i - 1) : (a \o c)[k] = a[k]
        /\ \A k \in 1..1 : (a \o c)[(i - 1) + k] = c[k]
    <3>1. Len(a) = i - 1 /\ Len(c) = 1
      BY <1>6, <1>9
    <3>2. /\ a \o c \in Seq(S) /\ Len(a \o c) = Len(a) + Len(c)
          /\ \A k \in 1..Len(a) : (a \o c)[k] = a[k]
          /\ \A k \in 1..Len(c) : (a \o c)[Len(a) + k] = c[k]
      BY <2>1, JoinedIs
    <3>3. QED BY <3>1, <3>2
  <2>3. (a \o c)[(i - 1) + 1] = c[1]
    BY <2>2
  <2>4. (a \o c)[i] = s[i] /\ Len(a \o c) = i
    BY <1>9, <1>10, <2>2, <2>3
  <2>5. \A k \in 1..(i - 1) : (a \o c)[k] = s[k]
    BY <1>6, <2>2
  <2>6. QED BY <2>2, <2>4, <2>5
<1>12. /\ (a \o c) \o b \in Seq(S) /\ Len((a \o c) \o b) = m + 1
       /\ \A k \in 1..i : ((a \o c) \o b)[k] = (a \o c)[k]
       /\ \A k \in 1..(m - i + 1) : ((a \o c) \o b)[i + k] = s[i + k - 1]
  <2>1. a \o c \in Seq(S) /\ b \in Seq(S)
    BY <1>7, <1>11
  <2>2. Len(a \o c) = i /\ Len(b) = m - i + 1
    BY <1>7, <1>11
  <2>3. /\ (a \o c) \o b \in Seq(S) /\ Len((a \o c) \o b) = i + (m - i + 1)
        /\ \A k \in 1..i : ((a \o c) \o b)[k] = (a \o c)[k]
        /\ \A k \in 1..(m - i + 1) : ((a \o c) \o b)[i + k] = b[k]
    <3>1. /\ (a \o c) \o b \in Seq(S) /\ Len((a \o c) \o b) = Len(a \o c) + Len(b)
          /\ \A k \in 1..Len(a \o c) : ((a \o c) \o b)[k] = (a \o c)[k]
          /\ \A k \in 1..Len(b) : ((a \o c) \o b)[Len(a \o c) + k] = b[k]
      BY <2>1, JoinedIs
    <3>2. QED BY <2>2, <3>1
  <2>4. QED BY <1>7, <1>10, <2>3
<1>13. t = (a \o c) \o b
  BY <1>1, <1>4, <1>5, <1>8 DEF InsertAt
<1>14. ASSUME NEW k \in 1..(m + 1)
       PROVE  t[k] = IF k <= i THEN s[k] ELSE s[k - 1]
  <2>1. k \in 1..(i - 1) \/ k = i \/ k - i \in 1..(m - i + 1)
    BY <1>3
  <2>2. CASE k \in 1..(i - 1)
    <3>1. k \in 1..i /\ k <= i
      BY <1>3, <2>2
    <3>2. t[k] = (a \o c)[k] /\ (a \o c)[k] = s[k]
      BY <1>11, <1>12, <1>13, <2>2, <3>1
    <3>3. QED BY <3>1, <3>2
  <2>3. CASE k = i
    <3>1. k \in 1..i /\ k <= i
      BY <1>3, <2>3
    <3>2. t[k] = (a \o c)[k] /\ (a \o c)[k] = s[k]
      BY <1>11, <1>12, <1>13, <2>3, <3>1
    <3>3. QED BY <3>1, <3>2
  <2>4. CASE k - i \in 1..(m - i + 1)
    <3>1. k = i + (k - i) /\ i + (k - i) - 1 = k - 1 /\ ~(k <= i)
      BY <1>3, <2>4
    <3>2. t[i + (k - i)] = s[i + (k - i) - 1]
      BY <1>12, <1>13, <2>4
    <3>3. QED BY <3>1, <3>2
  <2>5. QED BY <2>1, <2>2, <2>3, <2>4
<1>15. DOMAIN t = 1..(m + 1)
  BY <1>12, <1>13, LenProperties
<1>16. QED BY <1>1, <1>12, <1>13, <1>14, <1>15 DEF IsDoubled

-----------------------------------------------------------------------------
(***************************************************************************)
(* The bytes decode_frame puts together.                                   *)
(***************************************************************************)
LEMMA RawBytesIs ==
  ASSUME NEW h \in Seq(Byte)
  PROVE  /\ RawBytes(h) \in Seq(Cell) /\ Len(RawBytes(h)) = Len(h)
         /\ \A i \in 1..Len(h) : RawBytes(h)[i] = <<0, h[i]>>
<1>1. PICK m \in Nat : m = Len(h)
  BY LenProperties
<1>2. DOMAIN h = 1..m /\ \A i \in 1..m : h[i] \in Nat
  <2>1. DOMAIN h = 1..Len(h)
    BY LenProperties
  <2>2. \A i \in 1..Len(h) : h[i] \in Byte
    BY ElementOfSeq
  <2>3. \A b \in Byte : b \in Nat
    BY DEF Byte
  <2>4. \A i \in 1..m : h[i] \in Nat
    BY <1>1, <2>2, <2>3
  <2>5. DOMAIN h = 1..m
    BY <1>1, <2>1
  <2>6. QED BY <2>4, <2>5
<1>3. \A i \in 1..m : <<0, h[i]>> \in Cell
  BY <1>2 DEF Cell
<1>4. RawBytes(h) \in [1..m -> Cell] /\ \A i \in 1..m : RawBytes(h)[i] = <<0, h[i]>>
  BY <1>2, <1>3 DEF RawBytes, Raw
<1>5. RawBytes(h) \in Seq(Cell) /\ Len(RawBytes(h)) = m
  BY <1>4, ListIs
<1>6. QED BY <1>1, <1>4, <1>5

\* x is m bytes of NAL n, from byte from on.
IsInterval(x, n, from, m) ==
  x \in Seq(Cell) /\ Len(x) = m /\ \A i \in 1..m : x[i] = <<n, from + i - 1>>

LEMMA BytesAre ==
  ASSUME NEW n \in Nat, NEW from \in Nat, NEW to \in Nat, NEW m \in Nat, m = to - from
  PROVE  IsInterval(Bytes(n, from, to), n, from, m)
<1>1. \A i \in 1..m : <<n, from + i - 1>> \in Cell
  BY DEF Cell
<1>2. Bytes(n, from, to) = [i \in 1..m |-> <<n, from + i - 1>>]
  BY DEF Bytes
<1>3. PICK x : x = Bytes(n, from, to)
  OBVIOUS
<1>4. x \in [1..m -> Cell] /\ \A i \in 1..m : x[i] = <<n, from + i - 1>>
  BY <1>1, <1>2, <1>3
<1>5. x \in Seq(Cell) /\ Len(x) = m
  BY <1>4, ListIs
<1>6. QED BY <1>3, <1>4, <1>5 DEF IsInterval

LEMMA StartCodeIs ==
  /\ StartCode \in Seq(Cell) /\ Len(StartCode) = 4
  /\ \A i \in 1..4 : StartCode[i][1] = 0
<1>1. PICK h : h = <<0, 0, 0, 1>>
  OBVIOUS
<1>2. h \in Seq(Byte) /\ Len(h) = 4
  BY <1>1 DEF Byte
<1>3. StartCode = RawBytes(h)
  BY <1>1 DEF StartCode
<1>4. QED BY <1>2, <1>3, RawBytesIs

\* The NAL under reconstruction, byte by byte.
ReadsAs(x, h, n, to) ==
  /\ x \in Seq(Cell) /\ Len(x) = 4 + to
  /\ \A i \in 1..4 : x[i] = StartCode[i]
  /\ \A i \in 1..Len(h) : x[4 + i] = <<0, h[i]>>
  /\ \A i \in 1..(to - Len(h)) : x[4 + Len(h) + i] = <<n, Len(h) + i - 1>>

LEMMA BeginsIs ==
  ASSUME NEW h \in Seq(Byte), NEW n \in Nat, NEW to \in Nat, Len(h) <= to
  PROVE  ReadsAs(Begins(h, n, to), h, n, to)
<1>1. PICK m \in Nat : m = Len(h) /\ m <= to
  BY LenProperties
<1>2. PICK a, b : a = RawBytes(h) /\ b = Bytes(n, m, to)
  OBVIOUS
<1>3. /\ a \in Seq(Cell) /\ Len(a) = m /\ \A i \in 1..m : a[i] = <<0, h[i]>>
  BY <1>2, <1>1, RawBytesIs
<1>4. /\ b \in Seq(Cell) /\ Len(b) = to - m
      /\ \A i \in 1..(to - m) : b[i] = <<n, m + i - 1>>
  <2>1. PICK q \in Nat : q = to - m
    BY <1>1
  <2>2. IsInterval(b, n, m, q)
    BY <1>2, <2>1, BytesAre
  <2>3. QED BY <2>1, <2>2 DEF IsInterval
<1>5. Begins(h, n, to) = (StartCode \o a) \o b
  BY <1>2, <1>1 DEF Begins
<1>6. /\ StartCode \o a \in Seq(Cell) /\ Len(StartCode \o a) = 4 + m
      /\ \A i \in 1..4 : (StartCode \o a)[i] = StartCode[i]
      /\ \A i \in 1..m : (StartCode \o a)[4 + i] = a[i]
  <2>1. /\ StartCode \o a \in Seq(Cell)
        /\ Len(StartCode \o a) = Len(StartCode) + Len(a)
        /\ \A i \in 1..Len(StartCode) : (StartCode \o a)[i] = StartCode[i]
        /\ \A i \in 1..Len(a) : (StartCode \o a)[Len(StartCode) + i] = a[i]
    <3>1. StartCode \in Seq(Cell) /\ a \in Seq(Cell)
      BY <1>3, StartCodeIs
    <3>2. QED BY <3>1, JoinedIs
  <2>2. QED BY <1>3, <2>1, StartCodeIs
<1>7. PICK c : c = StartCode \o a
  OBVIOUS
<1>8. /\ c \o b \in Seq(Cell) /\ Len(c \o b) = (4 + m) + (to - m)
      /\ \A i \in 1..(4 + m) : (c \o b)[i] = c[i]
      /\ \A i \in 1..(to - m) : (c \o b)[4 + m + i] = b[i]
  <2>1. c \in Seq(Cell) /\ Len(c) = 4 + m
    BY <1>6, <1>7
  <2>2. /\ c \o b \in Seq(Cell) /\ Len(c \o b) = Len(c) + Len(b)
        /\ \A i \in 1..Len(c) : (c \o b)[i] = c[i]
        /\ \A i \in 1..Len(b) : (c \o b)[Len(c) + i] = b[i]
    <3>1. c \in Seq(Cell) /\ b \in Seq(Cell)
      BY <1>4, <2>1
    <3>2. QED BY <3>1, JoinedIs
  <2>3. QED BY <1>4, <2>1, <2>2
<1>9. (4 + m) + (to - m) = 4 + to
  BY <1>1
<1>10. (\A i \in 1..4 : i \in 1..(4 + m)) /\ (\A i \in 1..m : 4 + i \in 1..(4 + m))
  OBVIOUS
<1>11. /\ c \o b \in Seq(Cell) /\ Len(c \o b) = 4 + to
       /\ \A i \in 1..4 : (c \o b)[i] = StartCode[i]
       /\ \A i \in 1..m : (c \o b)[4 + i] = <<0, h[i]>>
       /\ \A i \in 1..(to - m) : (c \o b)[4 + m + i] = <<n, m + i - 1>>
  <2>1. \A i \in 1..4 : (c \o b)[i] = StartCode[i]
    BY <1>6, <1>7, <1>8, <1>10
  <2>2. \A i \in 1..m : (c \o b)[4 + i] = <<0, h[i]>>
    BY <1>3, <1>6, <1>7, <1>8, <1>10
  <2>3. \A i \in 1..(to - m) : (c \o b)[4 + m + i] = <<n, m + i - 1>>
    BY <1>4, <1>8
  <2>4. QED BY <1>8, <1>9, <2>1, <2>2, <2>3
<1>12. QED BY <1>5, <1>7, <1>11, <1>1 DEF ReadsAs

\* The bytes of an interval and of the next one are the bytes of both.
JoinsTo(n, a, b, c) == Bytes(n, a, b) \o Bytes(n, b, c) = Bytes(n, a, c)

LEMMA BytesJoined ==
  ASSUME NEW n \in Nat, NEW a \in Nat, NEW b \in Nat, NEW c \in Nat,
         a <= b, b <= c
  PROVE  JoinsTo(n, a, b, c)
<1>1. PICK x, y, z : x = Bytes(n, a, b) /\ y = Bytes(n, b, c) /\ z = Bytes(n, a, c)
  OBVIOUS
<1>2. PICK p \in Nat, q \in Nat : p = b - a /\ q = c - b /\ p + q = c - a
  <2>1. b - a \in Nat /\ c - b \in Nat /\ (b - a) + (c - b) = c - a
    OBVIOUS
  <2>2. QED BY <2>1
<1>3. x \in Seq(Cell) /\ Len(x) = p /\ \A i \in 1..p : x[i] = <<n, a + i - 1>>
  <2>1. IsInterval(x, n, a, p)
    BY <1>1, <1>2, BytesAre
  <2>2. QED BY <2>1 DEF IsInterval
<1>4. y \in Seq(Cell) /\ Len(y) = q /\ \A i \in 1..q : y[i] = <<n, b + i - 1>>
  <2>1. IsInterval(y, n, b, q)
    BY <1>1, <1>2, BytesAre
  <2>2. QED BY <2>1 DEF IsInterval
<1>5. /\ z \in Seq(Cell) /\ Len(z) = p + q
      /\ \A i \in 1..(p + q) : z[i] = <<n, a + i - 1>>
  <2>1. PICK r \in Nat : r = p + q
    OBVIOUS
  <2>2. IsInterval(z, n, a, r)
    BY <1>1, <1>2, <2>1, BytesAre
  <2>3. QED BY <2>1, <2>2 DEF IsInterval
<1>6. /\ x \o y \in Seq(Cell) /\ Len(x \o y) = p + q
      /\ \A i \in 1..p : (x \o y)[i] = x[i]
      /\ \A i \in 1..q : (x \o y)[p + i] = y[i]
  <2>1. x \in Seq(Cell) /\ y \in Seq(Cell)
    BY <1>3, <1>4
  <2>2. /\ x \o y \in Seq(Cell) /\ Len(x \o y) = Len(x) + Len(y)
        /\ \A i \in 1..Len(x) : (x \o y)[i] = x[i]
        /\ \A i \in 1..Len(y) : (x \o y)[Len(x) + i] = y[i]
    BY <2>1, JoinedIs
  <2>3. QED BY <1>3, <1>4, <2>2
<1>7. ASSUME NEW k \in 1..(p + q) PROVE (x \o y)[k] = z[k]
  <2>1. CASE k \in 1..p
    BY <1>3, <1>5, <1>6, <2>1
  <2>2. CASE k \notin 1..p
    <3>1. PICK i \in 1..q : k = p + i
      <4>1. k - p \in 1..q /\ k = p + (k - p)
        BY <1>2, <2>2
      <4>2. QED BY <4>1
    <3>2. b + i - 1 = a + k - 1
      BY <1>2, <3>1
    <3>3. (x \o y)[k] = <<n, b + i - 1>>
      BY <1>4, <1>6, <3>1
    <3>4. QED BY <1>5, <3>2, <3>3
  <2>3. QED BY <2>1, <2>2
<1>8. Len(x \o y) = Len(z) /\ \A k \in 1..Len(x \o y) : (x \o y)[k] = z[k]
  BY <1>5, <1>6, <1>7
<1>9. x \o y = z
  BY <1>5, <1>6, <1>8, SeqEqual
<1>10. QED BY <1>1, <1>9 DEF JoinsTo

Associates(s, t, u) == (s \o t) \o u = s \o (t \o u)

LEMMA CellsAssociate ==
  ASSUME NEW s \in Seq(Cell), NEW t \in Seq(Cell), NEW u \in Seq(Cell)
  PROVE  Associates(s, t, u)
BY ConcatAssociative DEF Associates

\* The next datagram's bytes extend the NAL under reconstruction.
GoesOn(h, n, a, b) == Begins(h, n, a) \o Bytes(n, a, b) = Begins(h, n, b)

LEMMA BeginsOn ==
  ASSUME NEW h \in Seq(Byte), NEW n \in Nat, NEW a \in Nat, NEW b \in Nat,
         Len(h) <= a, a <= b
  PROVE  GoesOn(h, n, a, b)
<1>1. PICK m \in Nat : m = Len(h)
  BY LenProperties
<1>2. PICK s, x, y : s = StartCode \o RawBytes(h) /\ x = Bytes(n, m, a) /\ y = Bytes(n, a, b)
  OBVIOUS
<1>3. s \in Seq(Cell)
  <2>1. StartCode \in Seq(Cell) /\ RawBytes(h) \in Seq(Cell)
    BY StartCodeIs, RawBytesIs
  <2>2. QED BY <1>2, <2>1, JoinedIs
<1>4. x \in Seq(Cell) /\ y \in Seq(Cell) /\ x \o y = Bytes(n, m, b)
  <2>1. m <= a
    BY <1>1
  <2>2. x \in Seq(Cell)
    <3>1. PICK q \in Nat : q = a - m
      BY <2>1
    <3>2. IsInterval(x, n, m, q)
      BY <1>2, <3>1, BytesAre
    <3>3. QED BY <3>2 DEF IsInterval
  <2>3. y \in Seq(Cell)
    <3>1. PICK q \in Nat : q = b - a
      <4>1. b - a \in Nat
        OBVIOUS
      <4>2. QED BY <4>1
    <3>2. IsInterval(y, n, a, q)
      BY <1>2, <3>1, BytesAre
    <3>3. QED BY <3>2 DEF IsInterval
  <2>4. JoinsTo(n, m, a, b)
    BY <2>1, BytesJoined
  <2>5. QED BY <1>2, <2>2, <2>3, <2>4 DEF JoinsTo
<1>5. Associates(s, x, y)
  BY <1>3, <1>4, CellsAssociate
<1>6. Begins(h, n, a) = s \o x /\ Begins(h, n, b) = s \o Bytes(n, m, b)
  BY <1>1, <1>2 DEF Begins
<1>7. QED BY <1>2, <1>4, <1>5, <1>6 DEF Associates, GoesOn

\* Every fragment writes the NAL header again, over whatever is there.
LEMMA RewrittenIs ==
  ASSUME NEW buf \in Seq(Cell), NEW h \in Seq(Byte)
  PROVE  /\ Rewritten(buf, h) \in Seq(Cell) /\ Len(Rewritten(buf, h)) = Len(buf)
         /\ \A k \in 1..Len(buf) :
              Rewritten(buf, h)[k] = IF k - 4 \in 1..Len(h) THEN <<0, h[k - 4]>> ELSE buf[k]
<1>1. PICK l \in Nat, m \in Nat : l = Len(buf) /\ m = Len(h)
  BY LenProperties
<1>2. DOMAIN buf = 1..l /\ DOMAIN h = 1..m
  BY <1>1, LenProperties
<1>3. \A k \in 1..l : buf[k] \in Cell
  BY <1>1, ElementOfSeq
<1>4. \A k \in 1..m : <<0, h[k]>> \in Cell
  <2>1. \A k \in 1..m : h[k] \in Byte
    BY <1>1, ElementOfSeq
  <2>2. \A v \in Byte : <<0, v>> \in Cell
    <3>1. 0 \in Nat /\ \A v \in Byte : v \in Nat
      BY DEF Byte
    <3>2. QED BY <3>1 DEF Cell
  <2>3. QED BY <2>1, <2>2
<1>5. Rewritten(buf, h) = [k \in 1..l |-> IF k - 4 \in 1..m THEN <<0, h[k - 4]>> ELSE buf[k]]
  BY <1>2 DEF Rewritten, Raw
<1>6. /\ Rewritten(buf, h) \in [1..l -> Cell]
      /\ \A k \in 1..l : Rewritten(buf, h)[k] = IF k - 4 \in 1..m THEN <<0, h[k - 4]>> ELSE buf[k]
  BY <1>3, <1>4, <1>5
<1>7. Rewritten(buf, h) \in Seq(Cell) /\ Len(Rewritten(buf, h)) = l
  BY <1>6, ListIs
<1>8. QED BY <1>1, <1>6, <1>7

\* Over a NAL under reconstruction it changes nothing but the header.
LEMMA RewrittenBegins ==
  ASSUME NEW g \in Seq(Byte), NEW h \in Seq(Byte), NEW n \in Nat, NEW to \in Nat,
         Len(g) = Len(h), Len(h) <= to
  PROVE  Rewritten(Begins(g, n, to), h) = Begins(h, n, to)
<1>1. PICK m \in Nat : m = Len(h) /\ m = Len(g) /\ m <= to
  BY LenProperties
<1>2. PICK x, y, z : x = Begins(g, n, to) /\ y = Begins(h, n, to) /\ z = Rewritten(x, h)
  OBVIOUS
<1>3. ReadsAs(x, g, n, to) /\ ReadsAs(y, h, n, to)
  BY <1>1, <1>2, BeginsIs
<1>4. /\ x \in Seq(Cell) /\ Len(x) = 4 + to
      /\ \A i \in 1..4 : x[i] = StartCode[i]
      /\ \A i \in 1..(to - m) : x[4 + m + i] = <<n, m + i - 1>>
  BY <1>1, <1>3 DEF ReadsAs
<1>5. /\ y \in Seq(Cell) /\ Len(y) = 4 + to
      /\ \A i \in 1..4 : y[i] = StartCode[i]
      /\ \A i \in 1..m : y[4 + i] = <<0, h[i]>>
      /\ \A i \in 1..(to - m) : y[4 + m + i] = <<n, m + i - 1>>
  BY <1>1, <1>3 DEF ReadsAs
<1>6. /\ z \in Seq(Cell) /\ Len(z) = 4 + to
      /\ \A k \in 1..(4 + to) : z[k] = IF k - 4 \in 1..m THEN <<0, h[k - 4]>> ELSE x[k]
  <2>1. /\ Rewritten(x, h) \in Seq(Cell) /\ Len(Rewritten(x, h)) = Len(x)
        /\ \A k \in 1..Len(x) :
             Rewritten(x, h)[k] = IF k - 4 \in 1..Len(h) THEN <<0, h[k - 4]>> ELSE x[k]
    BY <1>4, RewrittenIs
  <2>2. QED BY <1>1, <1>2, <1>4, <2>1
<1>7. ASSUME NEW k \in 1..(4 + to) PROVE z[k] = y[k]
  <2>1. k \in 1..4 \/ k - 4 \in 1..m \/ k - 4 - m \in 1..(to - m)
    BY <1>1
  <2>2. CASE k \in 1..4
    <3>1. k - 4 \notin 1..m
      BY <2>2
    <3>2. QED BY <1>4, <1>5, <1>6, <2>2, <3>1
  <2>3. CASE k - 4 \in 1..m
    <3>1. 4 + (k - 4) = k
      OBVIOUS
    <3>2. y[4 + (k - 4)] = <<0, h[k - 4]>>
      BY <1>5, <2>3
    <3>3. QED BY <1>6, <2>3, <3>1, <3>2
  <2>4. CASE k - 4 - m \in 1..(to - m)
    <3>1. 4 + m + (k - 4 - m) = k /\ k - 4 \notin 1..m
      BY <2>4
    <3>2. /\ y[4 + m + (k - 4 - m)] = <<n, m + (k - 4 - m) - 1>>
          /\ x[4 + m + (k - 4 - m)] = <<n, m + (k - 4 - m) - 1>>
      BY <1>4, <1>5, <2>4
    <3>3. QED BY <1>6, <3>1, <3>2
  <2>5. QED BY <2>1, <2>2, <2>3, <2>4
<1>8. Len(z) = Len(y) /\ \A k \in 1..Len(z) : z[k] = y[k]
  BY <1>5, <1>6, <1>7
<1>9. z = y
  BY <1>5, <1>6, <1>8, SeqEqual
<1>10. QED BY <1>2, <1>9

-----------------------------------------------------------------------------
(***************************************************************************)
(* The headers of a fragment, written by sendPacket and read back by       *)
(* decode_frame.                                                           *)
(***************************************************************************)
\* The type field survives the two bits above it.
LEMMA TypeComesBack ==
  ASSUME NEW type \in 0..63, NEW start \in BOOLEAN, NEW last \in BOOLEAN
  PROVE  /\ FuHeader(type, start, last) % 64 = type
         /\ type < 32 => FuHeader(type, start, last) % 32 = type
<1>1. CASE start /\ last
  BY <1>1 DEF FuHeader
<1>2. CASE start /\ ~last
  BY <1>2 DEF FuHeader
<1>3. CASE ~start /\ last
  BY <1>3 DEF FuHeader
<1>4. CASE ~start /\ ~last
  BY <1>4 DEF FuHeader
<1>5. QED BY <1>1, <1>2, <1>3, <1>4

\* An H.264 header byte is its upper bits and its type.
LEMMA AvcComesBack ==
  ASSUME NEW b \in 0..127
  PROVE  /\ IsAvcFragment(AvcIndicator(b))
         /\ AvcBits(AvcIndicator(b)) + AvcType(b) = b
         /\ AvcType(b) < 32
BY DEF IsAvcFragment, AvcIndicator, AvcBits, AvcType

\* An H.265 one is its lowest bit and its type.
LEMMA HevcComesBack ==
  ASSUME NEW b \in 0..127
  PROVE  /\ IsHevcFragment(HevcIndicator(b)) /\ ~IsAvcFragment(HevcIndicator(b))
         /\ HevcBits(HevcIndicator(b)) + 2 * HevcType(b) = b
<1>1. PICK q \in 0..63, r \in {0, 1} : b = 2 * q + r
  <2>1. b \div 2 \in 0..63 /\ b % 2 \in {0, 1} /\ b = 2 * (b \div 2) + (b % 2)
    OBVIOUS
  <2>2. QED BY <2>1
<1>2. b \div 128 = 0 /\ b % 2 = r /\ (b \div 2) % 64 = q
  BY <1>1
<1>3. HevcIndicator(b) = 98 + r
  BY <1>2 DEF HevcIndicator, HevcBits
<1>4. HevcType(b) = q
  BY <1>2 DEF HevcType
<1>5. HevcIndicator(b) = 98 \/ HevcIndicator(b) = 99
  BY <1>3
<1>6. HevcBits(98) = 0 /\ HevcBits(99) = 1
  BY DEF HevcBits
<1>7. HevcBits(HevcIndicator(b)) = r
  BY <1>3, <1>6
<1>8. IsHevcFragment(HevcIndicator(b)) /\ ~IsAvcFragment(HevcIndicator(b))
  BY <1>5 DEF IsHevcFragment, HevcType, IsAvcFragment, AvcType
<1>9. QED BY <1>1, <1>4, <1>7, <1>8

\* The header of a NAL of a type that is cut, written out.
LEMMA CutHeadIs ==
  ASSUME NEW p \in Packs, Cuttable(p.head[1])
  PROVE  /\ p.head[1] \in 0..127
         /\ CutAvc(p.head[1]) => p.head = <<p.head[1]>>
         /\ ~CutAvc(p.head[1]) => p.head = <<p.head[1], 1>>
<1>1. Cuttable(p.head[1]) /\ p.head[1] \in 0..127 /\ HeaderSize(p) \in {1, 2}
  BY PackIs
<1>2. \/ p.head \in [1..1 -> 0..127] /\ ~CutHevc(p.head[1])
      \/ /\ p.head \in [1..2 -> 0..127]
         /\ ~CutAvc(p.head[1]) /\ p.head[2] = 1
  BY SenderAssumption DEF SenderConstants, PackAssumption
<1>3. CASE p.head \in [1..1 -> 0..127] /\ ~CutHevc(p.head[1])
  <2>1. CutAvc(p.head[1])
    BY <1>1, <1>3 DEF Cuttable
  <2>2. p.head = <<p.head[1]>>
    <3>1. PICK h : h = p.head
      OBVIOUS
    <3>2. h \in Seq(Byte) /\ Len(h) = 1
      BY <1>3, <3>1, HeaderIsSeq
    <3>3. h = <<h[1]>>
      BY <3>2
    <3>4. QED BY <3>1, <3>3
  <2>3. QED BY <1>1, <2>1, <2>2
<1>4. CASE /\ p.head \in [1..2 -> 0..127]
           /\ ~CutAvc(p.head[1]) /\ p.head[2] = 1
  <2>1. p.head = <<p.head[1], 1>>
    <3>1. PICK h : h = p.head
      OBVIOUS
    <3>2. h \in Seq(Byte) /\ Len(h) = 2 /\ h[2] = 1
      BY <1>4, <3>1, HeaderIsSeq
    <3>3. h = <<h[1], 1>>
      BY <3>2
    <3>4. QED BY <3>1, <3>3
  <2>2. QED BY <1>1, <1>4, <2>1
<1>5. QED BY <1>2, <1>3, <1>4

\* A fragment is recognised and gives back the NAL header, whatever its bits.
FragmentHeadOf(b, start, last) ==
  IF CutAvc(b) THEN <<AvcIndicator(b), FuHeader(AvcType(b), start, last)>>
               ELSE <<HevcIndicator(b), 1, FuHeader(HevcType(b), start, last)>>

LEMMA HeadRebuilt ==
  ASSUME NEW p \in Packs, Cuttable(p.head[1]), NEW start \in BOOLEAN, NEW last \in BOOLEAN,
         NEW d, d.head = FragmentHeadOf(p.head[1], start, last)
  PROVE  IsFragment(d.head[1]) /\ RebuiltHead(d) = p.head
<1>1. PICK b \in 0..127 :
        /\ b = p.head[1]
        /\ d.head = IF CutAvc(b)
                      THEN <<AvcIndicator(b), FuHeader(AvcType(b), start, last)>>
                      ELSE <<HevcIndicator(b), 1, FuHeader(HevcType(b), start, last)>>
  BY CutHeadIs DEF FragmentHeadOf
<1>2. AvcType(b) \in 0..63 /\ HevcType(b) \in 0..63
  BY FieldsInRange
<1>3. CASE CutAvc(b)
  <2>1. PICK f : f = FuHeader(AvcType(b), start, last)
    OBVIOUS
  <2>2. f % 32 = AvcType(b)
    BY <1>2, <2>1, TypeComesBack, AvcComesBack
  <2>3. d.head[1] = AvcIndicator(b) /\ FuOf(d) = f
    BY <1>1, <1>3, <2>1 DEF FuOf
  <2>4. IsAvcFragment(d.head[1])
    BY <2>3, AvcComesBack
  <2>5. RebuiltHead(d) = <<AvcBits(AvcIndicator(b)) + AvcType(b)>>
    BY <2>2, <2>3, <2>4 DEF RebuiltHead
  <2>6. p.head = <<b>>
    BY <1>1, <1>3, CutHeadIs
  <2>7. QED BY <2>4, <2>5, <2>6, AvcComesBack DEF IsFragment
<1>4. CASE ~CutAvc(b)
  <2>1. PICK f : f = FuHeader(HevcType(b), start, last)
    OBVIOUS
  <2>2. f % 64 = HevcType(b)
    BY <1>2, <2>1, TypeComesBack
  <2>3. d.head[1] = HevcIndicator(b) /\ FuOf(d) = f
    BY <1>1, <1>4, <2>1 DEF FuOf
  <2>4. IsHevcFragment(d.head[1]) /\ ~IsAvcFragment(d.head[1])
    BY <2>3, HevcComesBack
  <2>5. RebuiltHead(d) = <<HevcBits(HevcIndicator(b)) + 2 * HevcType(b), 1>>
    BY <2>2, <2>3, <2>4 DEF RebuiltHead
  <2>6. p.head = <<b, 1>>
    BY <1>1, <1>4, CutHeadIs
  <2>7. QED BY <2>4, <2>5, <2>6, HevcComesBack DEF IsFragment
<1>5. QED BY <1>3, <1>4

-----------------------------------------------------------------------------
(***************************************************************************)
(* What the sender puts on the network.                                    *)
(***************************************************************************)
\* A datagram carries the first bytes of its NAL, or the last ones.
First(d)    == d.from = HeaderSize(nals[d.nal])
Complete(d) == d.to = nals[d.nal].len

\* A datagram as sendPacket makes it: it fits in what vdec reads, carries an
\* interval of a NAL that was encoded, and its header says which: that NAL's
\* own, or a slice fragment's that gives it back and tells the first and last.
Made(d) ==
  /\ d \in Datagram /\ d.nal \in DOMAIN nals
  /\ WireSize(d) <= RxCap /\ d.head # <<>>
  /\ LET p == nals[d.nal] IN
     /\ HeaderSize(p) <= d.from /\ d.from < d.to /\ d.to <= p.len
     /\ IF IsFragment(d.head[1])
          THEN /\ RebuiltHead(d) = p.head /\ Cuttable(p.head[1])
               /\ StartBit(FuOf(d)) <=> First(d)
               /\ EndBit(FuOf(d)) <=> Complete(d)
               /\ ~(First(d) /\ Complete(d))
          ELSE d.head = p.head /\ First(d) /\ Complete(d)

\* Between two fragments of a NAL at least one of its bytes has been sent.
CursorShape == Partial => HeaderSize(nals[Sent + 1]) < data

SenderInv == IInv /\ ChannelShape /\ CursorShape

\* The datagram carries on where the sender stands, and moves it on.
Carries(d) ==
  /\ Made(d) /\ d.nal = Sent + 1 /\ Sent \in Nat
  /\ d.from = IF Partial THEN data ELSE HeaderSize(nals[d.nal])
  /\ net' = Append(net, d) /\ nals' = nals
  /\ IF Complete(d) THEN Sent' = d.nal /\ ~Partial'
                    ELSE Sent' = Sent /\ Partial' /\ data' = d.to

LEMMA FitsIs ==
  ASSUME IInv', NEW d, net' = Append(net, d), IInv
  PROVE  d \in Datagram /\ WireSize(d) <= RxCap
<1>1. PICK u, m : u = net' /\ m = Len(net) + 1
  OBVIOUS
<1>2. net \in Seq(Datagram) /\ u \in Seq(Datagram)
  BY <1>1 DEF IInv, TypeOK
<1>3. m \in 1..Len(u) /\ u[m] = d /\ DOMAIN u = 1..Len(u)
  BY <1>1, <1>2, LenProperties
<1>4. d \in Datagram
  BY <1>2, <1>3, ElementOfSeq
<1>5. Sound(d)
  BY <1>1, <1>3 DEF IInv, NetSound
<1>6. WireSize(d) <= Limit
  BY <1>5 DEF Sound
<1>7. PICK w \in Int : w = WireSize(d)
  <2>1. Len(d.head) \in Nat /\ d.to \in Nat /\ d.from \in Nat
    BY <1>4, LenProperties DEF Datagram
  <2>2. WireSize(d) \in Int
    BY <2>1 DEF WireSize, PayloadSize, RtpHeaderSize
  <2>3. QED BY <2>2
<1>8. Limit \in Nat /\ RxCap \in Nat /\ Limit <= RxCap
  BY SenderAssumption, LinkAssumption DEF SenderConstants, Limit, Prefix, RtpHeaderSize
<1>9. QED BY <1>4, <1>6, <1>7, <1>8

LEMMA WholeCarries ==
  ASSUME SenderInv, SendWhole
  PROVE  CursorShape' /\ \E d : Carries(d)
<1>. DEFINE c == [head |-> Pack.head, nal |-> Head(stream),
                  from |-> HeaderSize(Pack), to |-> Pack.len,
                  rtp |-> RtpMode, seq |-> rtp_sequence]
<1>1. /\ IInv /\ ChannelShape /\ TypeOK /\ pc = "send" /\ stream # <<>>
      /\ nals' = nals /\ net' = Append(net, c) /\ ~MustCut(Pack)
  BY DEF SenderInv, IInv, SendWhole, Transmit
<1>2. PICK m : m = Sent + 1
  OBVIOUS
<1>3. /\ Sent \in Nat /\ Head(stream) = m /\ m \in 1..Len(nals)
      /\ Pack = nals[m] /\ Pack \in Packs /\ DOMAIN nals = 1..Len(nals)
  BY <1>1, <1>2, CountersAre, PackInPacks, LenProperties DEF TypeOK, Pack
<1>4. PICK p \in Packs : p = nals[m] /\ p = Pack
  BY <1>3
<1>5. /\ p.len \in Nat /\ HeaderSize(p) \in Nat /\ p.len > HeaderSize(p)
      /\ ~IsFragment(p.head[1])
  BY PackIs
<1>6. PICK d : d = c
  OBVIOUS
<1>7. /\ d.nal = m /\ d.head = p.head /\ d.from = HeaderSize(p) /\ d.to = p.len
  BY <1>3, <1>4, <1>6
<1>8. /\ net' = Append(net, d)
  BY <1>1, <1>6
<1>9. d \in Datagram /\ WireSize(d) <= RxCap
  BY <1>1, <1>8, SendWholeInv, FitsIs
<1>10. First(d) /\ Complete(d)
  BY <1>4, <1>7 DEF First, Complete
<1>11. Made(d)
  <2>1. d.nal \in DOMAIN nals
    BY <1>3, <1>7
  <2>2. HeaderSize(p) <= d.from /\ d.from < d.to /\ d.to <= p.len
    BY <1>5, <1>7
  <2>3. ~IsFragment(d.head[1])
    BY <1>5, <1>7
  <2>4. d.head # <<>>
    <3>1. Len(p.head) # 0
      BY PackIs DEF HeaderSize
    <3>2. QED BY <1>7, <3>1
  <2>5. QED BY <1>4, <1>7, <1>9, <1>10, <2>1, <2>2, <2>3, <2>4 DEF Made
<1>12. ~Partial /\ ~Partial'
  BY <1>1 DEF Partial, SendWhole
<1>13. Sent' = m
  BY <1>1, <1>2, OneSent DEF SendWhole
<1>14. d.from = HeaderSize(nals[d.nal])
  BY <1>10 DEF First
<1>15. Carries(d)
  BY <1>1, <1>2, <1>3, <1>7, <1>8, <1>10, <1>11, <1>12, <1>13, <1>14 DEF Carries
<1>16. QED BY <1>12, <1>15 DEF CursorShape

LEMMA FragmentCarries ==
  ASSUME SenderInv, SendFragment
  PROVE  CursorShape' /\ \E d : Carries(d)
<1>. DEFINE c == [head |-> FragmentHead, nal |-> Head(stream),
                  from |-> data + Stripped, to |-> data + Stripped + ChunkSize,
                  rtp |-> RtpMode, seq |-> rtp_sequence]
<1>1. /\ IInv /\ ChannelShape /\ TypeOK /\ pc = "fragment" /\ stream # <<>>
      /\ FragmentShape /\ MustCut(Pack) /\ start_bit \in BOOLEAN
      /\ nals' = nals /\ net' = Append(net, c)
      /\ data' = c.to /\ start_bit' = FALSE /\ size' = LeftSize - ChunkSize
  BY DEF SenderInv, IInv, SendFragment, Transmit, StreamShape, TypeOK, FragmentShape
<1>2. PICK m : m = Sent + 1
  OBVIOUS
<1>3. /\ Sent \in Nat /\ Head(stream) = m /\ m \in 1..Len(nals)
      /\ Pack = nals[m] /\ Pack \in Packs /\ DOMAIN nals = 1..Len(nals)
  BY <1>1, <1>2, CountersAre, PackInPacks, LenProperties DEF TypeOK, Pack
<1>4. PICK p \in Packs : p = nals[m] /\ p = Pack
  BY <1>3
<1>5. p.len \in Nat /\ HeaderSize(p) \in Nat
  BY PackIs
<1>6. PICK k \in Nat, l \in Nat :
        /\ k = ChunkSize /\ l = LeftSize /\ k >= 1 /\ k <= l
        /\ start_bit => k # l
  BY <1>1, ChunkIs
<1>7. PICK a \in Nat :
        /\ a = data + Stripped /\ a + l = p.len
        /\ start_bit => a = HeaderSize(p)
        /\ ~start_bit => a = data
  <2>1. data \in Nat /\ Stripped \in 0..2 /\ data + Stripped + LeftSize = Pack.len
    BY <1>1, ChunkIs DEF TypeOK
  <2>2. data + Stripped \in Nat
    BY <2>1
  <2>3. start_bit => data + Stripped = HeaderSize(p)
    BY <1>1, <1>4, <1>5 DEF FragmentShape, Stripped
  <2>4. ~start_bit => data + Stripped = data
    BY <2>1 DEF Stripped
  <2>5. QED BY <1>4, <1>6, <2>1, <2>2, <2>3, <2>4
<1>8. PICK d : d = c
  OBVIOUS
<1>9. /\ d.nal = m /\ d.head = FragmentHead /\ d.from = a /\ d.to = a + k
      /\ net' = Append(net, d) /\ data' = d.to
  <2>1. /\ d.nal = Head(stream) /\ d.head = FragmentHead /\ d.from = data + Stripped
        /\ d.to = data + Stripped + ChunkSize
    BY <1>8
  <2>2. d.from = a /\ d.to = a + k
    BY <1>6, <1>7, <2>1
  <2>3. net' = Append(net, d) /\ data' = d.to
    BY <1>1, <1>8
  <2>4. QED BY <1>3, <2>1, <2>2, <2>3
<1>10. d \in Datagram /\ WireSize(d) <= RxCap
  BY <1>1, <1>9, SendFragmentInv, FitsIs
<1>11. Partial <=> ~start_bit
  BY <1>1 DEF Partial
<1>12. ~start_bit => HeaderSize(p) < a
  <2>1. SUFFICES ASSUME ~start_bit PROVE HeaderSize(p) < a
    OBVIOUS
  <2>2. Partial /\ a = data
    BY <1>7, <1>11, <2>1
  <2>3. HeaderSize(nals[Sent + 1]) < data
    BY <2>2 DEF SenderInv, CursorShape
  <2>4. QED BY <1>2, <1>4, <2>2, <2>3
<1>13. /\ HeaderSize(p) <= d.from /\ d.from < d.to /\ d.to <= p.len
       /\ d.to = p.len <=> k = l
       /\ d.from = HeaderSize(p) <=> start_bit
  <2>1. PICK g \in Nat : g = HeaderSize(p)
    BY <1>5
  <2>2. g <= a /\ (a = g <=> start_bit)
    <3>1. CASE start_bit
      BY <1>7, <2>1, <3>1
    <3>2. CASE ~start_bit
      <4>1. g < a
        BY <1>12, <2>1, <3>2
      <4>2. g <= a /\ a # g
        BY <4>1
      <4>3. QED BY <3>2, <4>2
    <3>3. QED BY <3>1, <3>2
  <2>3. a < a + k /\ a + k <= a + l /\ (a + k = a + l <=> k = l)
    BY <1>6
  <2>4. /\ g <= d.from /\ d.from < d.to /\ d.to <= p.len
        /\ (d.to = p.len <=> k = l)
    BY <1>7, <1>9, <2>3, <2>2
  <2>5. d.from = g <=> start_bit
    BY <1>9, <2>2
  <2>6. QED BY <2>1, <2>4, <2>5
<1>14. First(d) = (d.from = HeaderSize(p)) /\ Complete(d) = (d.to = p.len)
  BY <1>4, <1>9 DEF First, Complete
<1>15. /\ First(d) <=> start_bit
       /\ Complete(d) <=> k = l
  BY <1>13, <1>14
<1>16. /\ StartBit(FuOf(d)) <=> start_bit
       /\ EndBit(FuOf(d)) <=> k = l
  BY <1>1, <1>6, <1>9, FragmentHeadIs DEF FuOf
<1>17. IsFragment(d.head[1]) /\ RebuiltHead(d) = p.head /\ Cuttable(p.head[1])
  <2>1. (ChunkSize = LeftSize) \in BOOLEAN /\ start_bit \in BOOLEAN
    BY <1>1, Zenon DEF TypeOK
  <2>2. PICK first \in BOOLEAN, last \in BOOLEAN :
          d.head = FragmentHeadOf(p.head[1], first, last)
    BY <1>4, <1>9, <2>1, Zenon DEF FragmentHead, FragmentHeadOf
  <2>3. Cuttable(p.head[1])
    <3>1. MustCut(p)
      BY <1>1, <1>4, Zenon
    <3>2. Cuttable(p.head[1]) \/ ~MustCut(p)
      BY PackIs
    <3>3. QED BY <3>1, <3>2
  <2>4. QED BY <2>2, <2>3, HeadRebuilt
<1>18. Made(d)
  <2>1. d.nal \in DOMAIN nals
    BY <1>3, <1>9
  <2>2. ~(First(d) /\ Complete(d))
    BY <1>6, <1>15
  <2>3. /\ StartBit(FuOf(d)) <=> First(d)
        /\ EndBit(FuOf(d)) <=> Complete(d)
    BY <1>15, <1>16
  <2>4. p = nals[d.nal]
    BY <1>4, <1>9
  <2>5. d.head # <<>>
    <3>1. Len(FragmentHead) # 0
      <4>1. Len(FragmentHead) \in {2, 3}
        BY <1>1, FragmentHeadIs
      <4>2. QED BY <4>1
    <3>2. QED BY <1>9, <3>1
  <2>6. QED BY <1>10, <1>13, <1>17, <2>1, <2>2, <2>3, <2>4, <2>5 DEF Made
<1>19. d.from = IF Partial THEN data ELSE HeaderSize(nals[d.nal])
  <2>1. CASE start_bit
    BY <1>4, <1>7, <1>9, <1>11, <2>1
  <2>2. CASE ~start_bit
    BY <1>7, <1>9, <1>11, <2>2
  <2>3. QED BY <1>1, <2>1, <2>2
<1>20. CASE k = l
  <2>1. size' = 0
    BY <1>1, <1>6, <1>20
  <2>2. stream' = Tail(stream) /\ pc' = "send"
    BY <2>1 DEF SendFragment
  <2>3. Sent' = m /\ ~Partial'
    BY <1>1, <1>2, <2>2, OneSent DEF SendFragment, Partial
  <2>4. Carries(d)
    BY <1>1, <1>2, <1>3, <1>9, <1>15, <1>18, <1>19, <1>20, <2>3 DEF Carries
  <2>5. QED BY <2>3, <2>4 DEF CursorShape
<1>21. CASE k # l
  <2>1. size' # 0
    BY <1>1, <1>6, <1>21
  <2>2. UNCHANGED <<pc, stream, cur_packs, chn>>
    BY <2>1 DEF SendFragment
  <2>3. Sent' = Sent /\ Partial'
    BY <1>1, <2>2 DEF Sent, Released, Partial
  <2>4. Carries(d)
    BY <1>1, <1>2, <1>3, <1>9, <1>15, <1>18, <1>19, <1>21, <2>3 DEF Carries
  <2>5. HeaderSize(nals[m]) < data'
    BY <1>4, <1>5, <1>6, <1>7, <1>9, <1>13
  <2>6. CursorShape'
    BY <1>1, <1>2, <2>3, <2>5 DEF CursorShape, HeaderSize
  <2>7. QED BY <2>4, <2>6
<1>22. QED BY <1>20, <1>21

-----------------------------------------------------------------------------
(***************************************************************************)
(* What decode_frame makes of a datagram.                                  *)
(***************************************************************************)
\* The bytes of NAL n up to byte to, behind a header of its size.
Reads(x, n, to) ==
  \E h \in Seq(Byte) : Len(h) = HeaderSize(nals[n]) /\ x = Begins(h, n, to)

Holds(n, to) == Reads(nal_buffer, n, to)

\* The NALs whose bytes are in x.
Sources(x) == {x[k][1] : k \in 1..Len(x)}

LEMMA SourcesAre ==
  ASSUME NEW h \in Seq(Byte), NEW n \in Nat, NEW to \in Nat, Len(h) <= to
  PROVE  Begins(h, n, to) \in Seq(Cell) /\ Sources(Begins(h, n, to)) \subseteq {0, n}
<1>1. PICK x : x = Begins(h, n, to)
  OBVIOUS
<1>2. PICK m \in Nat : m = Len(h) /\ m <= to
  BY LenProperties
<1>3. ReadsAs(x, h, n, to)
  BY <1>1, BeginsIs
<1>4. /\ x \in Seq(Cell) /\ Len(x) = 4 + to
      /\ \A i \in 1..4 : x[i] = StartCode[i]
      /\ \A i \in 1..m : x[4 + i] = <<0, h[i]>>
      /\ \A i \in 1..(to - m) : x[4 + m + i] = <<n, m + i - 1>>
  BY <1>2, <1>3 DEF ReadsAs
<1>5. ASSUME NEW k \in 1..(4 + to) PROVE x[k][1] \in {0, n}
  <2>1. k \in 1..4 \/ k - 4 \in 1..m \/ k - 4 - m \in 1..(to - m)
    BY <1>2
  <2>2. CASE k \in 1..4
    BY <1>4, <2>2, StartCodeIs
  <2>3. CASE k - 4 \in 1..m
    <3>1. 4 + (k - 4) = k
      OBVIOUS
    <3>2. x[4 + (k - 4)] = <<0, h[k - 4]>>
      BY <1>4, <2>3
    <3>3. x[k] = <<0, h[k - 4]>>
      BY <3>1, <3>2
    <3>4. QED BY <3>3
  <2>4. CASE k - 4 - m \in 1..(to - m)
    <3>1. 4 + m + (k - 4 - m) = k
      OBVIOUS
    <3>2. x[4 + m + (k - 4 - m)] = <<n, m + (k - 4 - m) - 1>>
      BY <1>4, <2>4
    <3>3. x[k] = <<n, m + (k - 4 - m) - 1>>
      BY <3>1, <3>2
    <3>4. QED BY <3>3
  <2>5. QED BY <2>1, <2>2, <2>3, <2>4
<1>6. QED BY <1>1, <1>4, <1>5 DEF Sources

\* What is appended to a buffer brings its own sources only.
LEMMA SourcesJoined ==
  ASSUME NEW buf \in Seq(Cell), NEW h \in Seq(Byte), NEW n \in Nat,
         NEW from \in Nat, NEW to \in Nat, from <= to
  PROVE  /\ Rewritten(buf, h) \o Bytes(n, from, to) \in Seq(Cell)
         /\ Sources(Rewritten(buf, h) \o Bytes(n, from, to))
              \subseteq {0, n} \cup Sources(buf)
<1>1. PICK y, b : y = Rewritten(buf, h) /\ b = Bytes(n, from, to)
  OBVIOUS
<1>2. PICK l \in Nat, m \in Nat : l = Len(buf) /\ m = to - from
  <2>1. to - from \in Nat /\ Len(buf) \in Nat
    BY LenProperties
  <2>2. QED BY <2>1
<1>3. /\ y \in Seq(Cell) /\ Len(y) = l
      /\ \A k \in 1..l : y[k] = IF k - 4 \in 1..Len(h) THEN <<0, h[k - 4]>> ELSE buf[k]
  <2>1. /\ Rewritten(buf, h) \in Seq(Cell) /\ Len(Rewritten(buf, h)) = Len(buf)
        /\ \A k \in 1..Len(buf) :
             Rewritten(buf, h)[k] = IF k - 4 \in 1..Len(h) THEN <<0, h[k - 4]>> ELSE buf[k]
    BY RewrittenIs
  <2>2. QED BY <1>1, <1>2, <2>1
<1>4. b \in Seq(Cell) /\ Len(b) = m /\ \A i \in 1..m : b[i] = <<n, from + i - 1>>
  <2>1. IsInterval(b, n, from, m)
    BY <1>1, <1>2, BytesAre
  <2>2. QED BY <2>1 DEF IsInterval
<1>5. /\ y \o b \in Seq(Cell) /\ Len(y \o b) = l + m
      /\ \A i \in 1..l : (y \o b)[i] = y[i]
      /\ \A i \in 1..m : (y \o b)[l + i] = b[i]
  <2>1. y \in Seq(Cell) /\ b \in Seq(Cell)
    BY <1>3, <1>4
  <2>2. /\ y \o b \in Seq(Cell) /\ Len(y \o b) = Len(y) + Len(b)
        /\ \A i \in 1..Len(y) : (y \o b)[i] = y[i]
        /\ \A i \in 1..Len(b) : (y \o b)[Len(y) + i] = b[i]
    BY <2>1, JoinedIs
  <2>3. QED BY <1>3, <1>4, <2>2
<1>6. ASSUME NEW k \in 1..(l + m) PROVE (y \o b)[k][1] \in {0, n} \cup Sources(buf)
  <2>1. CASE k \in 1..l
    <3>1. (y \o b)[k] = <<0, h[k - 4]>> \/ (y \o b)[k] = buf[k]
      BY <1>3, <1>5, <2>1
    <3>2. buf[k][1] \in Sources(buf)
      BY <1>2, <2>1 DEF Sources
    <3>3. <<0, h[k - 4]>>[1] = 0
      OBVIOUS
    <3>4. QED BY <3>1, <3>2, <3>3
  <2>2. CASE k \notin 1..l
    <3>1. PICK i \in 1..m : k = l + i
      <4>1. k - l \in 1..m /\ k = l + (k - l)
        BY <2>2
      <4>2. QED BY <4>1
    <3>2. (y \o b)[k] = <<n, from + i - 1>>
      BY <1>4, <1>5, <3>1
    <3>3. QED BY <3>2
  <2>3. QED BY <2>1, <2>2
<1>7. PICK z : z = y \o b
  OBVIOUS
<1>8. z \in Seq(Cell) /\ Len(z) = l + m
  BY <1>5, <1>7
<1>9. \A k \in 1..Len(z) : z[k][1] \in {0, n} \cup Sources(buf)
  BY <1>6, <1>7, <1>8
<1>10. Sources(z) \subseteq {0, n} \cup Sources(buf)
  BY <1>9 DEF Sources
<1>11. QED BY <1>1, <1>7, <1>8, <1>10

\* What the datagram's part of its NAL becomes: x, delivered or kept.  It reads
\* as that NAL from the start when the buffer did up to there, and has no bytes
\* but the NAL's and the buffer's.
Becomes(d, x) ==
  /\ x \in Seq(Cell)
  /\ IF Complete(d) THEN delivered' = Append(delivered, x) /\ nal_buffer' = <<>>
                    ELSE delivered' = delivered /\ nal_buffer' = x
  /\ IF First(d) THEN Sources(x) \subseteq {0, d.nal}
                 ELSE Sources(x) \subseteq {0, d.nal} \cup Sources(nal_buffer)
  /\ First(d) \/ Holds(d.nal, d.from) =>
       IF Complete(d) THEN x = Intact(d.nal) ELSE Reads(x, d.nal, d.to)

LEMMA IntactIs == \A n : Intact(n) = Begins(nals[n].head, n, nals[n].len)
BY DEF Intact, AnnexB, Begins

\* The NAL a datagram is of and the interval it carries, as values.
PartOf(d, p, n, from, to, m) ==
  /\ p \in Packs /\ p = nals[d.nal]
  /\ n \in Nat /\ from \in Nat /\ to \in Nat /\ m \in Nat
  /\ n = d.nal /\ from = d.from /\ to = d.to /\ m = HeaderSize(p)
  /\ m <= from /\ from < to /\ to <= p.len
  /\ p.head \in Seq(Byte) /\ Len(p.head) = m /\ p.len \in Nat
  /\ First(d) <=> from = m
  /\ Complete(d) <=> to = p.len

LEMMA PartIs ==
  ASSUME TypeOK, NEW d, Made(d)
  PROVE  \E p, n, from, to, m : PartOf(d, p, n, from, to, m)
<1>1. PICK p \in Packs : p = nals[d.nal]
  <2>1. nals \in Seq(Packs) /\ d.nal \in DOMAIN nals
    BY DEF Made, TypeOK
  <2>2. QED BY <2>1, ElementOfSeq
<1>2. PICK n \in Nat, from \in Nat, to \in Nat, m \in Nat :
        /\ n = d.nal /\ from = d.from /\ to = d.to /\ m = HeaderSize(p)
        /\ m <= from /\ from < to /\ to <= p.len
  <2>1. /\ d.nal \in Nat /\ d.from \in Nat /\ d.to \in Nat /\ HeaderSize(p) \in Nat
        /\ HeaderSize(p) <= d.from /\ d.from < d.to /\ d.to <= p.len
    BY <1>1, PackIs DEF Made, Datagram
  <2>2. QED BY <2>1
<1>3. /\ p.head \in Seq(Byte) /\ Len(p.head) = m /\ p.len \in Nat
  BY <1>2, PackIs DEF HeaderSize
<1>4. /\ First(d) <=> from = m
      /\ Complete(d) <=> to = p.len
  BY <1>1, <1>2 DEF First, Complete
<1>5. PartOf(d, p, n, from, to, m)
  BY <1>1, <1>2, <1>3, <1>4 DEF PartOf
<1>6. QED BY <1>5

\* recv gets the whole of a datagram that sendPacket made.
LEMMA ReadWhole ==
  ASSUME NEW d, Made(d)
  PROVE  Truncate(d) = d
<1>1. Len(d.head) \in Nat /\ d.to \in Nat /\ d.from \in Nat
  BY LenProperties DEF Made, Datagram
<1>2. WireSize(d) \in Int /\ RxCap \in Nat
  BY <1>1, LinkAssumption DEF WireSize, PayloadSize, RtpHeaderSize
<1>3. WireSize(d) <= RxCap
  BY DEF Made
<1>4. ~(WireSize(d) > RxCap)
  BY <1>2, <1>3
<1>5. QED BY <1>4 DEF Truncate

\* The receive loop skips a header exactly when there is one: the encoder leaves
\* the first bit of a NAL header clear, and the indicators keep it clear.
LEMMA HeaderIsSeen ==
  ASSUME TypeOK, NEW d, Made(d)
  PROVE  Unwrapped(d) = {d}
<1>1. PICK p : p = nals[d.nal] /\ p \in Packs
  BY DEF Made, TypeOK
<1>2. p.head[1] \in 0..127
  BY <1>1, SenderAssumption DEF SenderConstants, PackAssumption
<1>3. d.head \in Seq(Byte) /\ d.head # <<>> /\ d.rtp \in BOOLEAN
  BY DEF Made, Datagram
<1>4. PICK b, f : b = d.head[1] /\ f = FuOf(d) /\ b \in Byte /\ f \in Byte
  <2>1. Len(d.head) \in 1..Len(d.head) /\ 1 \in 1..Len(d.head)
    BY <1>3
  <2>2. d.head[1] \in Byte /\ d.head[Len(d.head)] \in Byte
    BY <1>3, <2>1
  <2>3. QED BY <2>2 DEF FuOf
<1>5. b < 128
  <2>1. CASE ~IsFragment(d.head[1])
    <3>1. d.head = p.head
      BY <1>1, <2>1 DEF Made
    <3>2. QED BY <1>2, <1>4, <3>1
  <2>2. CASE IsFragment(d.head[1])
    <3>1. RebuiltHead(d) = p.head
      BY <1>1, <2>2 DEF Made
    <3>2. CASE IsAvcFragment(b)
      <4>1. p.head[1] = AvcBits(b) + (f % 32)
        BY <1>4, <3>1, <3>2 DEF RebuiltHead
      <4>2. QED BY <1>2, <1>4, <4>1 DEF AvcBits, Byte
    <3>3. CASE ~IsAvcFragment(b)
      <4>1. p.head[1] = HevcBits(b) + 2 * (f % 64)
        BY <1>4, <3>1, <3>3 DEF RebuiltHead
      <4>2. PICK q, r, t : q = b \div 128 /\ r = b % 2 /\ t = f % 64
        OBVIOUS
      <4>3. q \in Nat /\ r \in Nat /\ t \in Nat /\ (b >= 128 => q >= 1)
        BY <1>4, <4>2 DEF Byte
      <4>4. p.head[1] = (128 * q + r) + 2 * t
        BY <4>1, <4>2 DEF HevcBits
      <4>5. QED BY <1>2, <1>4, <4>3, <4>4 DEF Byte
    <3>4. QED BY <3>2, <3>3
  <2>3. QED BY <2>1, <2>2
<1>6. CASE d.rtp
  <2>1. RtpHeader[1] = 128 /\ RtpHeader[2] = 96
    BY DEF RtpHeader, RtpHeaderSize
  <2>2. FirstByte(d) = 128 /\ SecondByte(d) = 96
    BY <1>6, <2>1 DEF FirstByte, SecondByte
  <2>3. LooksLikeRtp(d)
    BY <2>2 DEF LooksLikeRtp
  <2>4. QED BY <1>3, <1>6, <2>3 DEF Unwrapped
<1>7. CASE ~d.rtp
  <2>1. FirstByte(d) = b
    BY <1>4, <1>7 DEF FirstByte
  <2>2. ~LooksLikeRtp(d)
    BY <1>4, <1>5, <2>1 DEF LooksLikeRtp, Byte
  <2>3. LooksLikeRtp(d) = d.rtp
    BY <1>3, <1>7, <2>2 DEF LooksLikeRtp
  <2>4. QED BY <2>3 DEF Unwrapped
<1>8. QED BY <1>3, <1>6, <1>7

\* So decode_frame is given each datagram on the way as it was made.
LEMMA ReadAsMade ==
  ASSUME TypeOK, NEW d, Made(d)
  PROVE  Unwrapped(Truncate(d)) = {d}
BY ReadWhole, HeaderIsSeen

\* A datagram that is no fragment is its NAL.
LEMMA WholePart ==
  ASSUME TypeOK, NEW d, Made(d), ~IsFragment(d.head[1]),
         NEW x, x = StartCode \o RawBytes(d.head) \o Payload(d)
  PROVE  /\ First(d) /\ Complete(d)
         /\ x \in Seq(Cell) /\ Sources(x) \subseteq {0, d.nal}
         /\ x = Intact(d.nal)
<1>1. PICK p, n, from, to, m : PartOf(d, p, n, from, to, m)
  BY PartIs
<1>2. d.head = p.head /\ First(d) /\ Complete(d)
  BY <1>1 DEF PartOf, Made
<1>3. x = Begins(p.head, n, to)
  BY <1>1, <1>2 DEF PartOf, Begins, Payload
<1>4. x \in Seq(Cell) /\ Sources(x) \subseteq {0, n}
  <2>1. p.head \in Seq(Byte) /\ Len(p.head) <= to /\ n \in Nat /\ to \in Nat
    BY <1>1 DEF PartOf
  <2>2. QED BY <1>3, <2>1, SourcesAre
<1>5. x = Intact(d.nal)
  BY <1>1, <1>2, <1>3, IntactIs DEF PartOf
<1>6. QED BY <1>1, <1>2, <1>4, <1>5 DEF PartOf

\* A first fragment makes the NAL read from its start.
LEMMA FirstPart ==
  ASSUME TypeOK, NEW d, Made(d), IsFragment(d.head[1]), StartBit(FuOf(d)),
         NEW x, x = Begun(d)
  PROVE  /\ First(d) /\ ~Complete(d)
         /\ x \in Seq(Cell) /\ Sources(x) \subseteq {0, d.nal}
         /\ Reads(x, d.nal, d.to)
<1>1. PICK p, n, from, to, m : PartOf(d, p, n, from, to, m)
  BY PartIs
<1>2. /\ RebuiltHead(d) = p.head /\ First(d) /\ ~Complete(d)
  BY <1>1 DEF PartOf, Made
<1>3. FuOf(d) \in Byte
  <2>1. d.head \in Seq(Byte) /\ d.head # <<>>
    BY DEF Made, Datagram
  <2>2. Len(d.head) \in 1..Len(d.head)
    BY <2>1
  <2>3. QED BY <2>1, <2>2, ElementOfSeq DEF FuOf
<1>4. PICK g : g = [p.head EXCEPT ![m] = FuOf(d)]
  OBVIOUS
<1>5. g \in Seq(Byte) /\ Len(g) = m
  <2>1. m \in 1..Len(p.head)
    <3>1. m \in {1, 2} /\ Len(p.head) = m
      BY <1>1, PackIs DEF PartOf
    <3>2. QED BY <3>1
  <2>2. PICK h, b : h = p.head /\ b = FuOf(d)
    OBVIOUS
  <2>3. h \in Seq(Byte) /\ m \in 1..Len(h) /\ b \in Byte /\ Len(h) = m
    BY <1>1, <1>3, <2>1, <2>2 DEF PartOf
  <2>4. [h EXCEPT ![m] = b] \in Seq(Byte) /\ Len([h EXCEPT ![m] = b]) = Len(h)
    BY <2>3, ExceptSeq
  <2>5. QED BY <1>4, <2>2, <2>3, <2>4
<1>6. /\ from = m /\ n = d.nal /\ to = d.to /\ n \in Nat /\ to \in Nat /\ m <= to
      /\ from = d.from /\ Len(p.head) = m /\ m = HeaderSize(nals[n])
  BY <1>1, <1>2 DEF PartOf
<1>7. x = Begins(g, n, to)
  BY <1>2, <1>4, <1>5, <1>6 DEF Begins, Begun, Payload
<1>8. x \in Seq(Cell) /\ Sources(x) \subseteq {0, n}
  BY <1>5, <1>6, <1>7, SourcesAre
<1>9. Reads(x, n, to)
  BY <1>5, <1>6, <1>7 DEF Reads
<1>10. QED BY <1>2, <1>6, <1>8, <1>9

\* A later fragment carries a NAL on that buf reads as up to there.
LEMMA NextPart ==
  ASSUME TypeOK, NEW d, Made(d), IsFragment(d.head[1]), ~StartBit(FuOf(d)),
         NEW buf \in Seq(Cell),
         NEW x, x = Rewritten(buf, RebuiltHead(d)) \o Payload(d)
  PROVE  /\ ~First(d) /\ (EndBit(FuOf(d)) <=> Complete(d))
         /\ x \in Seq(Cell) /\ Sources(x) \subseteq {0, d.nal} \cup Sources(buf)
         /\ Reads(buf, d.nal, d.from) =>
              IF Complete(d) THEN x = Intact(d.nal) ELSE Reads(x, d.nal, d.to)
<1>1. PICK p, n, from, to, m : PartOf(d, p, n, from, to, m)
  BY PartIs
<1>2. /\ RebuiltHead(d) = p.head /\ ~First(d) /\ (EndBit(FuOf(d)) <=> Complete(d))
  BY <1>1 DEF PartOf, Made
<1>3. /\ n = d.nal /\ to = d.to /\ from = d.from /\ n \in Nat /\ to \in Nat
      /\ from \in Nat /\ m \in Nat /\ m <= from /\ from < to /\ from <= to
      /\ p.head \in Seq(Byte) /\ Len(p.head) = m /\ m = HeaderSize(nals[n])
  BY <1>1 DEF PartOf
<1>4. x = Rewritten(buf, p.head) \o Bytes(n, from, to)
  BY <1>2, <1>3 DEF Payload
<1>5. x \in Seq(Cell) /\ Sources(x) \subseteq {0, n} \cup Sources(buf)
  <2>1. PICK h \in Seq(Byte) : h = p.head
    BY <1>3
  <2>2. x = Rewritten(buf, h) \o Bytes(n, from, to)
    BY <1>4, <2>1
  <2>3. /\ Rewritten(buf, h) \o Bytes(n, from, to) \in Seq(Cell)
        /\ Sources(Rewritten(buf, h) \o Bytes(n, from, to))
             \subseteq {0, n} \cup Sources(buf)
    BY <1>3, SourcesJoined
  <2>4. QED BY <2>2, <2>3
<1>6. ASSUME Reads(buf, n, from)
      PROVE  x = Begins(p.head, n, to)
  <2>1. PICK g \in Seq(Byte) : Len(g) = m /\ buf = Begins(g, n, from)
    BY <1>3, <1>6 DEF Reads
  <2>2. Len(g) = Len(p.head) /\ Len(p.head) <= from /\ from <= to
    BY <1>3, <2>1
  <2>3. Rewritten(buf, p.head) = Begins(p.head, n, from)
    BY <1>3, <2>1, <2>2, RewrittenBegins
  <2>4. GoesOn(p.head, n, from, to)
    BY <1>3, <2>2, BeginsOn
  <2>5. QED BY <1>4, <2>3, <2>4 DEF GoesOn
<1>7. ASSUME Reads(buf, n, from)
      PROVE  IF Complete(d) THEN x = Intact(n) ELSE Reads(x, n, to)
  <2>1. CASE Complete(d)
    BY <1>1, <1>6, <1>7, <2>1, IntactIs DEF PartOf
  <2>2. CASE ~Complete(d)
    BY <1>3, <1>6, <1>7, <2>2 DEF Reads
  <2>3. QED BY <2>1, <2>2
<1>8. QED BY <1>2, <1>3, <1>5, <1>7

LEMMA DecodeIs ==
  ASSUME TypeOK, nal_buffer \in Seq(Cell), NEW d, Made(d), Decode(Truncate(d))
  PROVE  \E x : Becomes(d, x)
<1>1. Decode(d)
  BY ReadWhole
<1>2. CASE TakeWhole(d)
  <2>1. PICK x : x = StartCode \o RawBytes(d.head) \o Payload(d)
    OBVIOUS
  <2>2. ~IsFragment(d.head[1]) /\ delivered' = Append(delivered, x) /\ nal_buffer' = <<>>
    BY <1>2, <2>1 DEF TakeWhole, Deliver
  <2>3. /\ First(d) /\ Complete(d) /\ x \in Seq(Cell)
        /\ Sources(x) \subseteq {0, d.nal} /\ x = Intact(d.nal)
    BY <2>1, <2>2, WholePart
  <2>4. QED BY <2>2, <2>3 DEF Becomes
<1>3. CASE TakeFirst(d)
  <2>1. PICK x : x = Begun(d)
    OBVIOUS
  <2>2. /\ IsFragment(d.head[1]) /\ StartBit(FuOf(d))
        /\ delivered' = delivered /\ nal_buffer' = x
    BY <1>3, <2>1 DEF TakeFirst, BeginNal
  <2>3. /\ First(d) /\ ~Complete(d) /\ x \in Seq(Cell)
        /\ Sources(x) \subseteq {0, d.nal} /\ Reads(x, d.nal, d.to)
    BY <2>1, <2>2, FirstPart
  <2>4. QED BY <2>2, <2>3 DEF Becomes
<1>4. CASE TakeNext(d)
  <2>1. PICK buf \in Seq(Cell) : buf = nal_buffer
    OBVIOUS
  <2>2. PICK x : x = Rewritten(buf, RebuiltHead(d)) \o Payload(d)
    OBVIOUS
  <2>3. /\ IsFragment(d.head[1]) /\ ~StartBit(FuOf(d))
        /\ IF EndBit(FuOf(d)) THEN delivered' = Append(delivered, x) /\ nal_buffer' = <<>>
                              ELSE delivered' = delivered /\ nal_buffer' = x
    BY <1>4, <2>1, <2>2 DEF TakeNext, Deliver
  <2>4. /\ ~First(d) /\ (EndBit(FuOf(d)) <=> Complete(d))
        /\ x \in Seq(Cell) /\ Sources(x) \subseteq {0, d.nal} \cup Sources(buf)
        /\ Reads(buf, d.nal, d.from) =>
             IF Complete(d) THEN x = Intact(d.nal) ELSE Reads(x, d.nal, d.to)
    BY <2>2, <2>3, NextPart
  <2>5. QED BY <2>1, <2>3, <2>4 DEF Becomes, Holds
<1>5. QED BY <1>1, <1>2, <1>3, <1>4 DEF Decode

-----------------------------------------------------------------------------
(***************************************************************************)
(* The network: which datagrams are on it, and in which order.             *)
(***************************************************************************)
\* Every datagram that was sent and not lost.
Exchanged == Range(arrived) \cup Range(net)

\* d lies behind the sender.
SentBefore(d) ==
  d.nal <= Sent \/ (Partial /\ d.nal = Sent + 1 /\ d.to <= data)

\* d lies before e in the stream of the NALs' bytes.
Before(d, e) == d.nal < e.nal \/ (d.nal = e.nal /\ d.to <= e.from)

\* In the order of the stream, but for doubles side by side.
Ordered(s) ==
  \A i, j \in DOMAIN s : i < j => s[i] = s[j] \/ Before(s[i], s[j])

\* Of a NAL that lost no datagram each one has its neighbours, up to where the
\* sender is.
Chained(d) ==
  d.nal \notin lost =>
    /\ First(d) \/ \E e \in Exchanged : e.nal = d.nal /\ e.to = d.from
    /\ \/ Complete(d) \/ (Partial /\ d.nal = Sent + 1 /\ d.to = data)
       \/ \E e \in Exchanged : e.nal = d.nal /\ e.from = d.to

ChainShape ==
  /\ \A d \in Exchanged : Chained(d)
  /\ Partial /\ Sent + 1 \notin lost =>
       \E e \in Exchanged : e.nal = Sent + 1 /\ e.to = data

NetInv ==
  /\ SenderInv /\ arrived \in Seq(Datagram)
  /\ \A d \in Exchanged : Made(d) /\ SentBefore(d)
  /\ Ordered(net) /\ ChainShape

\* NALs keep their indices.
Grown == \A n \in DOMAIN nals : n \in DOMAIN nals' /\ nals'[n] = nals[n]

\* The four kinds of steps that receive nothing.
Quiet ==
  /\ Grown /\ net' = net /\ lost' = lost
  /\ Sent' = Sent /\ Partial' = Partial /\ (Partial => data' = data)

Carried(d) == Carries(d) /\ lost' = lost

SenderStill == nals' = nals /\ Sent' = Sent /\ Partial' = Partial /\ data' = data

Lost(i) ==
  /\ i \in DOMAIN net /\ net' = RemoveAt(net, i) /\ lost' = lost \cup {net[i].nal}
  /\ SenderStill

Doubled(i) ==
  /\ i \in DOMAIN net /\ net' = InsertAt(net, i, net[i]) /\ lost' = lost
  /\ SenderStill

\* The datagram in place i is received, whatever becomes of it, and decode_frame
\* takes it.
Fetched(i) ==
  /\ i \in DOMAIN net /\ net' = RemoveAt(net, i) /\ lost' = lost
  /\ arrived' = Append(arrived, net[i])
  /\ SenderStill

Taken(i) == Fetched(i) /\ Decode(Truncate(net[i]))

LEMMA AppendedIs ==
  ASSUME NEW S, NEW s \in Seq(S), NEW d \in S
  PROVE  /\ Append(s, d) \in Seq(S) /\ Len(Append(s, d)) = Len(s) + 1
         /\ DOMAIN Append(s, d) = 1..(Len(s) + 1) /\ DOMAIN s = 1..Len(s)
         /\ Append(s, d)[Len(s) + 1] = d
         /\ \A k \in 1..Len(s) : Append(s, d)[k] = s[k]
         /\ Range(Append(s, d)) = Range(s) \cup {d}
<1>1. PICK m \in Nat, t \in {Append(s, d)} : m = Len(s) /\ t = Append(s, d)
  BY LenProperties
<1>2. /\ t \in Seq(S) /\ Len(t) = m + 1
      /\ t[m + 1] = d /\ \A k \in 1..m : t[k] = s[k]
  BY <1>1, AppendProperties
<1>3. DOMAIN t = 1..(m + 1) /\ DOMAIN s = 1..m
  BY <1>2, <1>1, LenProperties
<1>4. \A k \in 1..(m + 1) : k \in 1..m \/ k = m + 1
  OBVIOUS
<1>5. m + 1 \in 1..(m + 1) /\ \A k \in 1..m : k \in 1..(m + 1)
  OBVIOUS
<1>6. Range(t) \subseteq Range(s) \cup {d}
  BY <1>2, <1>3, <1>4 DEF Range
<1>7. Range(s) \cup {d} \subseteq Range(t)
  BY <1>2, <1>3, <1>5 DEF Range
<1>8. QED BY <1>2, <1>3, <1>6, <1>7, <1>1

LEMMA RangeRemoved ==
  ASSUME NEW S, NEW s \in Seq(S), NEW i \in DOMAIN s, NEW t, t = RemoveAt(s, i)
  PROVE  /\ t \in Seq(S) /\ Range(t) \cup {s[i]} = Range(s)
         /\ Ordered(s) => Ordered(t)
<1>1. PICK m \in Nat : m = Len(s)
  BY LenProperties
<1>2. /\ t \in Seq(S) /\ DOMAIN t = 1..(m - 1)
      /\ \A k \in 1..(m - 1) : t[k] = IF k < i THEN s[k] ELSE s[k + 1]
  BY <1>1, RemoveAtIs
<1>3. i \in 1..m /\ DOMAIN s = 1..m
  BY <1>1, LenProperties
<1>4. \A k \in 1..(m - 1) : k \in 1..m /\ k + 1 \in 1..m
  BY <1>1
<1>5. Range(t) \cup {s[i]} \subseteq Range(s)
  BY <1>2, <1>3, <1>4 DEF Range
<1>6. ASSUME NEW k \in 1..m, k # i PROVE s[k] \in Range(t)
  <2>1. CASE k < i
    <3>1. k \in 1..(m - 1)
      BY <1>1, <1>3, <2>1
    <3>2. QED BY <1>2, <2>1, <3>1 DEF Range
  <2>2. CASE ~(k < i)
    <3>1. k - 1 \in 1..(m - 1) /\ ~(k - 1 < i) /\ (k - 1) + 1 = k
      BY <1>1, <1>3, <1>6, <2>2
    <3>2. t[k - 1] = s[k]
      BY <1>2, <3>1
    <3>3. QED BY <1>2, <3>1, <3>2 DEF Range
  <2>3. QED BY <2>1, <2>2
<1>7. Range(s) \subseteq Range(t) \cup {s[i]}
  BY <1>3, <1>6 DEF Range
<1>8. ASSUME Ordered(s), NEW j \in DOMAIN t, NEW k \in DOMAIN t, j < k
      PROVE  t[j] = t[k] \/ Before(t[j], t[k])
  <2>1. PICK x \in DOMAIN s, y \in DOMAIN s : x < y /\ t[j] = s[x] /\ t[k] = s[y]
    <3>1. j \in 1..(m - 1) /\ k \in 1..(m - 1) /\ j < k
      BY <1>2, <1>8
    <3>2. CASE k < i
      <4>1. j < i
        BY <1>3, <3>1, <3>2
      <4>2. QED BY <1>2, <1>3, <1>4, <3>1, <3>2, <4>1
    <3>3. CASE ~(k < i) /\ j < i
      <4>1. j < k + 1
        BY <3>1
      <4>2. QED BY <1>2, <1>3, <1>4, <3>1, <3>3, <4>1
    <3>4. CASE ~(k < i) /\ ~(j < i)
      <4>1. j + 1 < k + 1
        BY <3>1
      <4>2. QED BY <1>2, <1>3, <1>4, <3>1, <3>4, <4>1
    <3>5. QED BY <3>2, <3>3, <3>4
  <2>2. s[x] = s[y] \/ Before(s[x], s[y])
    BY <1>8, <2>1 DEF Ordered
  <2>3. QED BY <2>1, <2>2
<1>9. QED BY <1>2, <1>5, <1>7, <1>8 DEF Ordered

LEMMA RangeDoubled ==
  ASSUME NEW S, NEW s \in Seq(S), NEW i \in DOMAIN s,
         NEW t, t = InsertAt(s, i, s[i])
  PROVE  /\ t \in Seq(S) /\ Range(t) = Range(s)
         /\ Ordered(s) => Ordered(t)
<1>1. PICK m \in Nat : m = Len(s)
  BY LenProperties
<1>2. /\ t \in Seq(S) /\ DOMAIN t = 1..(m + 1)
      /\ \A k \in 1..(m + 1) : t[k] = IF k <= i THEN s[k] ELSE s[k - 1]
  BY <1>1, DoubledIs DEF IsDoubled
<1>3. i \in 1..m /\ DOMAIN s = 1..m
  BY <1>1, LenProperties
<1>4. \A k \in 1..(m + 1) : (k <= i => k \in 1..m) /\ (~(k <= i) => k - 1 \in 1..m)
  BY <1>3
<1>5. Range(t) \subseteq Range(s)
  BY <1>2, <1>3, <1>4 DEF Range
<1>6. ASSUME NEW k \in 1..m PROVE s[k] \in Range(t)
  <2>1. CASE k <= i
    <3>1. k \in 1..(m + 1)
      OBVIOUS
    <3>2. QED BY <1>2, <2>1, <3>1 DEF Range
  <2>2. CASE ~(k <= i)
    <3>1. k + 1 \in 1..(m + 1) /\ ~(k + 1 <= i) /\ (k + 1) - 1 = k
      BY <1>3, <2>2
    <3>2. t[k + 1] = s[k]
      BY <1>2, <3>1
    <3>3. QED BY <1>2, <3>1, <3>2 DEF Range
  <2>3. QED BY <2>1, <2>2
<1>7. Range(s) \subseteq Range(t)
  BY <1>3, <1>6 DEF Range
<1>8. ASSUME Ordered(s), NEW j \in DOMAIN t, NEW k \in DOMAIN t, j < k
      PROVE  t[j] = t[k] \/ Before(t[j], t[k])
  <2>1. PICK x \in DOMAIN s, y \in DOMAIN s :
          (x < y \/ x = y) /\ t[j] = s[x] /\ t[k] = s[y]
    <3>1. j \in 1..(m + 1) /\ k \in 1..(m + 1) /\ j < k
      BY <1>2, <1>8
    <3>2. CASE k <= i
      <4>1. j <= i
        BY <1>3, <3>1, <3>2
      <4>2. QED BY <1>2, <1>3, <1>4, <3>1, <3>2, <4>1
    <3>3. CASE ~(k <= i) /\ j <= i
      <4>1. j < k - 1 \/ j = k - 1
        BY <1>3, <3>1, <3>3
      <4>2. QED BY <1>2, <1>3, <1>4, <3>1, <3>3, <4>1
    <3>4. CASE ~(k <= i) /\ ~(j <= i)
      <4>1. j - 1 < k - 1
        BY <3>1
      <4>2. QED BY <1>2, <1>3, <1>4, <3>1, <3>4, <4>1
    <3>5. QED BY <3>2, <3>3, <3>4
  <2>2. s[x] = s[y] \/ Before(s[x], s[y])
    BY <1>8, <2>1 DEF Ordered
  <2>3. QED BY <2>1, <2>2
<1>9. QED BY <1>2, <1>5, <1>7, <1>8 DEF Ordered

LEMMA MadeKept ==
  ASSUME Grown, NEW d, Made(d)
  PROVE  Made(d)' /\ (First(d)' <=> First(d)) /\ (Complete(d)' <=> Complete(d))
<1>1. d.nal \in DOMAIN nals' /\ nals'[d.nal] = nals[d.nal]
  BY DEF Grown, Made
<1>2. (First(d)' <=> First(d)) /\ (Complete(d)' <=> Complete(d))
  BY <1>1 DEF First, Complete, HeaderSize
<1>3. QED BY <1>1, <1>2 DEF Made, HeaderSize

LEMMA NetQuiet ==
  ASSUME NetInv, SenderInv', Quiet, arrived' = arrived
  PROVE  NetInv'
<1>1. Exchanged' = Exchanged
  BY DEF Exchanged, Quiet
<1>2. ASSUME NEW d \in Exchanged PROVE Made(d)' /\ SentBefore(d)' /\ Chained(d)'
  <2>1. Made(d) /\ SentBefore(d) /\ Chained(d)
    BY DEF NetInv, ChainShape
  <2>2. Made(d)' /\ (First(d)' <=> First(d)) /\ (Complete(d)' <=> Complete(d))
    BY <2>1, MadeKept DEF Quiet
  <2>3. SentBefore(d)'
    BY <2>1 DEF SentBefore, Quiet
  <2>4. Chained(d)'
    BY <1>1, <2>1, <2>2 DEF Chained, Quiet
  <2>5. QED BY <2>2, <2>3, <2>4
<1>3. ChainShape'
  <2>1. Partial' /\ Sent' + 1 \notin lost' =>
          \E e \in Exchanged' : e.nal = Sent' + 1 /\ e.to = data'
    BY <1>1 DEF NetInv, ChainShape, Quiet
  <2>2. \A d \in Exchanged' : Chained(d)'
    BY <1>1, <1>2
  <2>3. QED BY <2>1, <2>2 DEF ChainShape
<1>4. Ordered(net)'
  BY DEF NetInv, Quiet, Ordered, Before
<1>5. QED BY <1>1, <1>2, <1>3, <1>4 DEF NetInv

\* Every datagram sent lies before the one that is sent now.
LEMMA BehindIs ==
  ASSUME NEW d, Carries(d), NEW e, Made(e), SentBefore(e)
  PROVE  Before(e, d) /\ SentBefore(e)'
<1>1. PICK m \in Nat : m = Sent /\ d.nal = m + 1
  BY DEF Carries
<1>2. /\ e.nal \in Nat /\ e.to \in Nat /\ d.nal \in Nat /\ d.to \in Nat /\ d.from \in Nat
      /\ d.from < d.to
  <2>1. d \in Datagram /\ e \in Datagram /\ d.from < d.to
    BY DEF Carries, Made
  <2>2. QED BY <2>1 DEF Datagram
<1>3. CASE e.nal <= m
  <2>1. e.nal < d.nal
    BY <1>1, <1>2, <1>3
  <2>2. Sent' = m \/ Sent' = m + 1
    BY <1>1 DEF Carries
  <2>3. e.nal <= Sent'
    BY <1>1, <1>2, <1>3, <2>2
  <2>4. QED BY <2>1, <2>3 DEF Before, SentBefore
<1>4. CASE ~(e.nal <= m)
  <2>1. Partial /\ e.nal = m + 1 /\ e.to <= data /\ d.from = data
    BY <1>1, <1>4 DEF SentBefore, Carries
  <2>2. Before(e, d)
    BY <1>1, <2>1 DEF Before
  <2>3. CASE Complete(d)
    <3>1. Sent' = m + 1 /\ m + 1 <= m + 1
      BY <1>1, <2>3 DEF Carries
    <3>2. QED BY <1>1, <2>1, <2>2, <3>1 DEF SentBefore
  <2>4. CASE ~Complete(d)
    <3>1. Sent' = m /\ Partial' /\ data' = d.to
      BY <1>1, <2>4 DEF Carries
    <3>2. e.to <= d.to
      BY <1>2, <2>1
    <3>3. QED BY <1>1, <2>1, <2>2, <3>1, <3>2 DEF SentBefore
  <2>5. QED BY <2>3, <2>4
<1>5. QED BY <1>3, <1>4

LEMMA SentIsBehind ==
  ASSUME NEW d, Carries(d)
  PROVE  SentBefore(d)'
<1>1. PICK m \in Nat : m = Sent /\ d.nal = m + 1
  BY DEF Carries
<1>2. d.to \in Nat
  BY DEF Carries, Made, Datagram
<1>3. CASE Complete(d)
  <2>1. Sent' = m + 1 /\ m + 1 <= m + 1
    BY <1>1, <1>3 DEF Carries
  <2>2. QED BY <1>1, <2>1 DEF SentBefore
<1>4. CASE ~Complete(d)
  <2>1. Sent' = m /\ Partial' /\ data' = d.to /\ d.to <= d.to
    BY <1>1, <1>2, <1>4 DEF Carries
  <2>2. QED BY <1>1, <2>1 DEF SentBefore
<1>5. QED BY <1>3, <1>4

LEMMA NetCarried ==
  ASSUME NetInv, SenderInv', NEW d, Carried(d), arrived' = arrived
  PROVE  NetInv'
<1>1. /\ Carries(d) /\ Made(d) /\ nals' = nals /\ net' = Append(net, d) /\ lost' = lost
      /\ net \in Seq(Datagram) /\ d \in Datagram /\ Grown
  BY DEF Carried, Carries, NetInv, SenderInv, IInv, TypeOK, Made, Grown
<1>2. PICK m \in Nat : m = Len(net)
  BY <1>1, LenProperties
<1>3. PICK u : u = net'
  OBVIOUS
<1>4. /\ u \in Seq(Datagram) /\ DOMAIN u = 1..(m + 1) /\ u[m + 1] = d
      /\ \A k \in 1..m : u[k] = net[k]
      /\ DOMAIN net = 1..m /\ Range(u) = Range(net) \cup {d}
  <2>1. PICK s \in Seq(Datagram) : s = net
    BY <1>1
  <2>2. d \in Datagram /\ m = Len(s) /\ u = Append(s, d)
    BY <1>1, <1>2, <1>3, <2>1
  <2>3. /\ Append(s, d) \in Seq(Datagram) /\ DOMAIN Append(s, d) = 1..(Len(s) + 1)
        /\ Append(s, d)[Len(s) + 1] = d /\ DOMAIN s = 1..Len(s)
        /\ \A k \in 1..Len(s) : Append(s, d)[k] = s[k]
        /\ Range(Append(s, d)) = Range(s) \cup {d}
    BY <2>2, AppendedIs
  <2>4. QED BY <2>1, <2>2, <2>3
<1>5. Exchanged' = Exchanged \cup {d}
  BY <1>3, <1>4 DEF Exchanged
<1>6. ASSUME NEW e \in Exchanged
      PROVE  Made(e)' /\ SentBefore(e)' /\ Before(e, d)
             /\ (First(e)' <=> First(e)) /\ (Complete(e)' <=> Complete(e))
  <2>1. Made(e) /\ SentBefore(e)
    BY DEF NetInv
  <2>2. QED BY <1>1, <2>1, BehindIs, MadeKept
<1>7. /\ Made(d)' /\ SentBefore(d)'
      /\ (First(d)' <=> First(d)) /\ (Complete(d)' <=> Complete(d))
  BY <1>1, SentIsBehind, MadeKept
<1>8. Ordered(u)
  <2>1. SUFFICES ASSUME NEW i \in 1..(m + 1), NEW j \in 1..(m + 1), i < j
                 PROVE  u[i] = u[j] \/ Before(u[i], u[j])
    BY <1>4 DEF Ordered
  <2>2. CASE j = m + 1
    <3>1. i \in 1..m
      BY <2>1, <2>2
    <3>2. u[i] = net[i] /\ net[i] \in Range(net)
      BY <1>4, <3>1 DEF Range
    <3>3. u[i] \in Exchanged
      BY <3>2 DEF Exchanged
    <3>4. QED BY <1>4, <1>6, <2>2, <3>3
  <2>3. CASE j # m + 1
    <3>1. i \in 1..m /\ j \in 1..m
      BY <2>1, <2>3
    <3>2. QED BY <1>4, <2>1, <3>1 DEF NetInv, Ordered
  <2>4. QED BY <2>2, <2>3
<1>9. \/ Complete(d) /\ ~Partial'
      \/ ~Complete(d) /\ Partial' /\ Sent' + 1 = d.nal /\ data' = d.to
  BY <1>1 DEF Carries
<1>10. ASSUME NEW e \in Exchanged, e.nal \notin lost
       PROVE  \/ Complete(e) \/ (Partial' /\ e.nal = Sent' + 1 /\ e.to = data')
              \/ \E f \in Exchanged' : f.nal = e.nal /\ f.from = e.to
  <2>1. Chained(e)
    BY DEF NetInv, ChainShape
  <2>2. CASE Complete(e) \/ \E f \in Exchanged : f.nal = e.nal /\ f.from = e.to
    BY <1>5, <2>2
  <2>3. CASE Partial /\ e.nal = Sent + 1 /\ e.to = data
    <3>1. d.nal = e.nal /\ d.from = e.to
      BY <1>1, <2>3 DEF Carries
    <3>2. QED BY <1>5, <3>1
  <2>4. QED BY <1>10, <2>1, <2>2, <2>3 DEF Chained
<1>11. ASSUME NEW e \in Exchanged PROVE Chained(e)'
  <2>1. Chained(e)
    BY DEF NetInv, ChainShape
  <2>2. e.nal \notin lost => First(e)' \/ \E f \in Exchanged' : f.nal = e.nal /\ f.to = e.from
    BY <1>5, <1>6, <2>1 DEF Chained
  <2>3. e.nal \notin lost =>
          \/ Complete(e)' \/ (Partial' /\ e.nal = Sent' + 1 /\ e.to = data')
          \/ \E f \in Exchanged' : f.nal = e.nal /\ f.from = e.to
    BY <1>6, <1>10
  <2>4. QED BY <1>1, <2>2, <2>3 DEF Chained
<1>12. Chained(d)'
  <2>1. d.nal \notin lost => First(d)' \/ \E f \in Exchanged' : f.nal = d.nal /\ f.to = d.from
    <3>1. CASE ~Partial
      BY <1>1, <1>7, <3>1 DEF Carries, First
    <3>2. CASE Partial
      <4>1. d.nal = Sent + 1 /\ d.from = data
        BY <1>1, <3>2 DEF Carries
      <4>2. d.nal \notin lost => \E f \in Exchanged : f.nal = d.nal /\ f.to = d.from
        BY <3>2, <4>1 DEF NetInv, ChainShape
      <4>3. QED BY <1>5, <4>2
    <3>3. QED BY <3>1, <3>2
  <2>2. Complete(d)' \/ (Partial' /\ d.nal = Sent' + 1 /\ d.to = data')
    BY <1>7, <1>9
  <2>3. QED BY <1>1, <2>1, <2>2 DEF Chained
<1>13. Partial' => \E e \in Exchanged' : e.nal = Sent' + 1 /\ e.to = data'
  BY <1>5, <1>9
<1>14. ChainShape'
  <2>1. \A e \in Exchanged' : Chained(e)'
    BY <1>5, <1>11, <1>12
  <2>2. QED BY <1>13, <2>1 DEF ChainShape
<1>15. \A e \in Exchanged' : Made(e)' /\ SentBefore(e)'
  BY <1>5, <1>6, <1>7
<1>16. Ordered(net)'
  BY <1>3, <1>8 DEF Ordered, Before
<1>17. arrived' \in Seq(Datagram)
  BY DEF NetInv
<1>18. QED BY <1>14, <1>15, <1>16, <1>17 DEF NetInv

\* A step that only moves datagrams about.
LEMMA NetStill ==
  ASSUME NetInv, SenderInv', SenderStill, Exchanged' = Exchanged, lost' = lost,
         arrived' \in Seq(Datagram), Ordered(net)'
  PROVE  NetInv'
<1>1. Grown
  BY DEF SenderStill, Grown
<1>2. ASSUME NEW d \in Exchanged PROVE Made(d)' /\ SentBefore(d)' /\ Chained(d)'
  <2>1. Made(d) /\ SentBefore(d) /\ Chained(d)
    BY DEF NetInv, ChainShape
  <2>2. Made(d)' /\ (First(d)' <=> First(d)) /\ (Complete(d)' <=> Complete(d))
    BY <1>1, <2>1, MadeKept
  <2>3. SentBefore(d)'
    BY <2>1 DEF SentBefore, SenderStill
  <2>4. Chained(d)'
    BY <2>1, <2>2 DEF Chained, SenderStill
  <2>5. QED BY <2>2, <2>3, <2>4
<1>3. ChainShape'
  <2>1. Partial' /\ Sent' + 1 \notin lost' =>
          \E e \in Exchanged' : e.nal = Sent' + 1 /\ e.to = data'
    BY DEF NetInv, ChainShape, SenderStill
  <2>2. \A d \in Exchanged' : Chained(d)'
    BY <1>2
  <2>3. QED BY <2>1, <2>2 DEF ChainShape
<1>4. QED BY <1>2, <1>3 DEF NetInv

\* net[i] as a value, and the network without it.
LEMMA RemovedIs ==
  ASSUME NetInv, NEW i \in DOMAIN net, net' = RemoveAt(net, i)
  PROVE  /\ net' \in Seq(Datagram) /\ Range(net') \cup {net[i]} = Range(net)
         /\ Ordered(net)'
<1>1. PICK s \in Seq(Datagram), t \in {net'} : s = net /\ t = net'
  BY DEF NetInv, SenderInv, IInv, TypeOK
<1>2. i \in DOMAIN s /\ t = RemoveAt(s, i)
  BY <1>1
<1>3. /\ t \in Seq(Datagram) /\ Range(t) \cup {s[i]} = Range(s)
      /\ Ordered(s) => Ordered(t)
  BY <1>2, RangeRemoved
<1>4. Ordered(t)
  BY <1>1, <1>3 DEF NetInv
<1>5. Ordered(net)'
  BY <1>1, <1>4 DEF Ordered, Before
<1>6. QED BY <1>1, <1>3, <1>5

LEMMA NetDoubled ==
  ASSUME NetInv, SenderInv', NEW i, Doubled(i), arrived' = arrived
  PROVE  NetInv'
<1>1. PICK s \in Seq(Datagram), t \in {net'} : s = net /\ t = net'
  BY DEF NetInv, SenderInv, IInv, TypeOK
<1>2. i \in DOMAIN s /\ t = InsertAt(s, i, s[i])
  BY <1>1 DEF Doubled
<1>3. Range(t) = Range(s) /\ (Ordered(s) => Ordered(t))
  BY <1>2, RangeDoubled
<1>4. Ordered(t)
  BY <1>1, <1>3 DEF NetInv
<1>5. Ordered(net)'
  BY <1>1, <1>4 DEF Ordered, Before
<1>6. Exchanged' = Exchanged
  BY <1>1, <1>3 DEF Exchanged
<1>7. arrived' \in Seq(Datagram)
  BY DEF NetInv
<1>8. QED BY <1>5, <1>6, <1>7, NetStill DEF Doubled

LEMMA NetFetched ==
  ASSUME NetInv, SenderInv', NEW i, Fetched(i)
  PROVE  NetInv'
<1>1. PICK s \in Seq(Datagram), d \in {net[i]}, t \in {arrived'} :
        s = arrived /\ d = net[i] /\ t = arrived'
  BY DEF NetInv
<1>2. /\ net' \in Seq(Datagram) /\ Range(net') \cup {d} = Range(net)
      /\ Ordered(net)'
  BY <1>1, RemovedIs DEF Fetched
<1>3. d \in Datagram
  <2>1. d \in Exchanged
    BY <1>1, <1>2 DEF Exchanged
  <2>2. QED BY <2>1 DEF NetInv, Made
<1>4. t = Append(s, d)
  BY <1>1 DEF Fetched
<1>5. Append(s, d) \in Seq(Datagram) /\ Range(Append(s, d)) = Range(s) \cup {d}
  BY <1>3, AppendedIs
<1>6. Exchanged' = Exchanged
  BY <1>1, <1>2, <1>4, <1>5 DEF Exchanged
<1>7. arrived' \in Seq(Datagram)
  BY <1>1, <1>4, <1>5
<1>8. QED BY <1>2, <1>6, <1>7, NetStill DEF Fetched

LEMMA NetLost ==
  ASSUME NetInv, SenderInv', NEW i, Lost(i), arrived' = arrived
  PROVE  NetInv'
<1>1. PICK d : d = net[i]
  OBVIOUS
<1>2. /\ net' \in Seq(Datagram) /\ Range(net') \cup {d} = Range(net)
      /\ Ordered(net)'
  BY <1>1, RemovedIs DEF Lost
<1>3. lost' = lost \cup {d.nal} /\ SenderStill /\ Grown
  BY <1>1 DEF Lost, SenderStill, Grown
<1>4. /\ Exchanged' \subseteq Exchanged
      /\ \A e \in Exchanged : e \in Exchanged' \/ e = d
  BY <1>2 DEF Exchanged
<1>5. ASSUME NEW e \in Exchanged'
      PROVE  Made(e)' /\ SentBefore(e)' /\ Chained(e)'
  <2>1. Made(e) /\ SentBefore(e) /\ Chained(e)
    BY <1>4 DEF NetInv, ChainShape
  <2>2. Made(e)' /\ (First(e)' <=> First(e)) /\ (Complete(e)' <=> Complete(e))
    BY <1>3, <2>1, MadeKept
  <2>3. SentBefore(e)'
    BY <1>3, <2>1 DEF SentBefore, SenderStill
  <2>4. ASSUME e.nal \notin lost'
        PROVE  \A f \in Exchanged : f.nal = e.nal => f \in Exchanged'
    BY <1>3, <1>4, <2>4
  <2>5. e.nal \notin lost' => e.nal \notin lost
    BY <1>3
  <2>6. Chained(e)'
    BY <1>3, <2>1, <2>2, <2>4, <2>5 DEF Chained, SenderStill
  <2>7. QED BY <2>2, <2>3, <2>6
<1>6. ChainShape'
  <2>1. SUFFICES ASSUME Partial', Sent' + 1 \notin lost'
                 PROVE  \E e \in Exchanged' : e.nal = Sent' + 1 /\ e.to = data'
    BY <1>5 DEF ChainShape
  <2>2. PICK e \in Exchanged : e.nal = Sent + 1 /\ e.to = data
    BY <1>3, <2>1 DEF NetInv, ChainShape, SenderStill
  <2>3. e # d
    BY <1>3, <2>1, <2>2 DEF SenderStill
  <2>4. QED BY <1>3, <1>4, <2>2, <2>3 DEF SenderStill
<1>7. arrived' \in Seq(Datagram)
  BY DEF NetInv
<1>8. QED BY <1>2, <1>5, <1>6, <1>7 DEF NetInv

-----------------------------------------------------------------------------
(***************************************************************************)
(* Every step is of one of the five kinds.                                 *)
(***************************************************************************)
LEMMA KeepsNet ==
  ASSUME SenderInv, senderRest' = senderRest, net' \in Seq(Datagram),
         Range(net') \subseteq Range(net)
  PROVE  SenderInv' /\ SenderStill
<1>1. UNCHANGED <<nals, chn, loop_running, pc, cur_packs, stream, data, size,
                  start_bit, rtp_sequence, fails>>
  BY DEF senderRest
<1>2. Released' = Released /\ Sent' = Sent /\ Partial' = Partial
  BY <1>1 DEF Released, Sent, Partial
<1>3. TypeOK'
  BY <1>1 DEF SenderInv, IInv, TypeOK
<1>4. StreamShape' /\ FragmentShape'
  BY <1>1 DEF SenderInv, IInv, StreamShape, FragmentShape, Pack, MustCut
<1>5. NetSound'
  <2>1. SUFFICES ASSUME NEW i \in DOMAIN net' PROVE Sound(net'[i])
    BY DEF NetSound, Sound, Limit
  <2>2. net'[i] \in Range(net)
    BY <2>1 DEF Range
  <2>3. PICK j \in DOMAIN net : net[j] = net'[i]
    BY <2>2 DEF Range
  <2>4. Sound(net[j])
    BY DEF SenderInv, IInv, NetSound
  <2>5. QED BY <2>3, <2>4
<1>6. ChannelShape' /\ CursorShape'
  BY <1>1, <1>2 DEF SenderInv, ChannelShape, CursorShape, HeaderSize
<1>7. QED BY <1>1, <1>2, <1>3, <1>4, <1>5, <1>6 DEF SenderInv, IInv, SenderStill

LEMMA SenderStep ==
  ASSUME SenderInv, [Next]_senderVars, lost' = lost
  PROVE  SenderInv' /\ (Quiet \/ \E d : Carried(d))
<1>1. IInv /\ ChannelShape /\ IInv' /\ ChannelShape'
  BY NextInv, ChannelStep DEF SenderInv
<1>2. CASE SendWhole
  BY <1>1, <1>2, WholeCarries DEF SenderInv, Carried
<1>3. CASE SendFragment
  BY <1>1, <1>3, FragmentCarries DEF SenderInv, Carried
<1>4. CASE ~SendWhole /\ ~SendFragment
  <2>1. /\ net' = net /\ Sent' = Sent /\ Partial' = Partial
        /\ Partial => data' = data /\ stream # <<>>
        /\ \A n \in DOMAIN nals : n \in DOMAIN nals' /\ nals'[n] = nals[n]
    BY <1>1, <1>4, QuietIs
  <2>2. Quiet
    BY <2>1 DEF Quiet, Grown
  <2>3. CursorShape'
    <3>1. SUFFICES ASSUME Partial PROVE HeaderSize(nals'[Sent + 1]) < data
      BY <2>1 DEF CursorShape, HeaderSize
    <3>2. HeaderSize(nals[Sent + 1]) < data
      BY <3>1 DEF SenderInv, CursorShape
    <3>3. pc = "fragment" /\ stream # <<>>
      BY <2>1, <3>1 DEF Partial
    <3>4. Sent + 1 \in DOMAIN nals
      <4>1. Sent \in Nat /\ Sent + 1 <= Len(nals) /\ Len(nals) \in Nat
        BY <1>1, <3>3, CountersAre, LenProperties DEF IInv, TypeOK
      <4>2. DOMAIN nals = 1..Len(nals)
        BY <1>1, LenProperties DEF IInv, TypeOK
      <4>3. QED BY <4>1, <4>2
    <3>5. QED BY <2>1, <3>2, <3>4
  <2>4. QED BY <1>1, <2>2, <2>3 DEF SenderInv
<1>5. QED BY <1>2, <1>3, <1>4

\* What decode_frame takes or nothing, and what becomes of the network.
Kind ==
  \/ /\ Quiet \/ (\E d : Carried(d)) \/ (\E i : Lost(i) \/ Doubled(i))
     /\ UNCHANGED <<nal_buffer, delivered, arrived>>
  \/ \E i : Taken(i)

LEMMA SendStep ==
  ASSUME NetInv, Send \/ UNCHANGED linkVars
  PROVE  /\ NetInv' /\ (Quiet \/ \E d : Carried(d))
         /\ UNCHANGED <<nal_buffer, delivered, arrived>>
<1>1. /\ [Next]_senderVars /\ lost' = lost
      /\ UNCHANGED <<nal_buffer, delivered, arrived>>
  BY DEF Send, linkVars, faultVars, senderRest, senderVars
<1>2. SenderInv' /\ (Quiet \/ \E d : Carried(d))
  BY <1>1, SenderStep DEF NetInv
<1>3. NetInv'
  BY <1>1, <1>2, NetQuiet, NetCarried
<1>4. QED BY <1>1, <1>2, <1>3

LEMMA ReceiveStep ==
  ASSUME NetInv, Receive
  PROVE  NetInv' /\ \E i : Taken(i) /\ i <= Overtake + 1
<1>1. PICK i \in DOMAIN net :
        /\ i <= Overtake + 1 /\ net' = RemoveAt(net, i)
        /\ \E d \in Unwrapped(Truncate(net[i])) : Decode(d)
        /\ arrived' = Append(arrived, net[i])
        /\ senderRest' = senderRest /\ lost' = lost
  BY DEF Receive, faultVars
<1>2. SenderInv' /\ SenderStill
  BY <1>1, RemovedIs, KeepsNet DEF NetInv
<1>3. Fetched(i)
  BY <1>1, <1>2 DEF Fetched
<1>4. PICK d, e : d = net[i] /\ e = Truncate(d)
  OBVIOUS
<1>5. Made(d)
  <2>1. d \in Exchanged
    BY <1>1, <1>4 DEF Exchanged, Range
  <2>2. QED BY <2>1 DEF NetInv
<1>6. TypeOK
  BY DEF NetInv, SenderInv, IInv
<1>7. e = d /\ Decode(d)
  BY <1>1, <1>4, <1>5, <1>6, ReadWhole, ReadAsMade
<1>8. Taken(i)
  BY <1>3, <1>4, <1>7 DEF Taken
<1>9. QED BY <1>1, <1>2, <1>8, NetFetched DEF Taken

LEMMA FaultStep ==
  ASSUME NetInv, Lose \/ Duplicate
  PROVE  /\ NetInv' /\ \E i : Lost(i) \/ Doubled(i)
         /\ UNCHANGED <<nal_buffer, delivered, arrived>>
<1>1. CASE Lose
  <2>1. PICK i \in DOMAIN net :
          /\ net' = RemoveAt(net, i) /\ lost' = lost \cup {net[i].nal}
          /\ senderRest' = senderRest
          /\ UNCHANGED <<nal_buffer, delivered, arrived>>
    BY <1>1 DEF Lose
  <2>2. SenderInv' /\ SenderStill
    BY <2>1, RemovedIs, KeepsNet DEF NetInv
  <2>3. Lost(i)
    BY <2>1, <2>2 DEF Lost
  <2>4. QED BY <2>1, <2>2, <2>3, NetLost
<1>2. CASE Duplicate
  <2>1. PICK i \in DOMAIN net :
          /\ net' = InsertAt(net, i, net[i]) /\ lost' = lost
          /\ senderRest' = senderRest
          /\ UNCHANGED <<nal_buffer, delivered, arrived>>
    BY <1>2 DEF Duplicate
  <2>2. net' \in Seq(Datagram) /\ Range(net') = Range(net)
    <3>1. PICK s \in Seq(Datagram), t \in {net'} : s = net /\ t = net'
      BY DEF NetInv, SenderInv, IInv, TypeOK
    <3>2. i \in DOMAIN s /\ t = InsertAt(s, i, s[i])
      BY <2>1, <3>1
    <3>3. t \in Seq(Datagram) /\ Range(t) = Range(s)
      BY <3>2, RangeDoubled
    <3>4. QED BY <3>1, <3>3
  <2>3. SenderInv' /\ SenderStill
    BY <2>1, <2>2, KeepsNet DEF NetInv
  <2>4. Doubled(i)
    BY <2>1, <2>3 DEF Doubled
  <2>5. QED BY <2>1, <2>3, <2>4, NetDoubled
<1>3. QED BY <1>1, <1>2

LEMMA LinkStep ==
  ASSUME NetInv, [LinkNext]_linkVars
  PROVE  NetInv' /\ Kind
<1>1. CASE Send \/ UNCHANGED linkVars
  BY <1>1, SendStep DEF Kind
<1>2. CASE Receive
  BY <1>2, ReceiveStep DEF Kind
<1>3. CASE Lose \/ Duplicate
  BY <1>3, FaultStep DEF Kind
<1>4. QED BY <1>1, <1>2, <1>3 DEF LinkNext

-----------------------------------------------------------------------------
(***************************************************************************)
(* A NAL that arrives whole.                                               *)
(***************************************************************************)
BufferType == nal_buffer \in Seq(Cell) /\ delivered \in Seq(Seq(Cell))

\* What decode_frame holds after datagram d of a NAL it reads from its start.
Outcome(d) ==
  IF Complete(d) THEN delivered # <<>> /\ Last(delivered) = Intact(d.nal)
                 ELSE Holds(d.nal, d.to)

\* From datagram i on one NAL has been arriving, from its first byte.
Run(i) ==
  /\ First(arrived[i])
  /\ \A k \in i..Len(arrived) : arrived[k].nal = arrived[i].nal
  /\ \A k \in i..(Len(arrived) - 1) : arrived[k].to = arrived[k + 1].from

RunShape ==
  \A i \in DOMAIN arrived : Run(i) => Outcome(arrived[Len(arrived)])

LEMMA KindGrows ==
  Quiet \/ (\E d : Carried(d)) \/ (\E i : Lost(i) \/ Doubled(i) \/ Fetched(i) \/ Taken(i)) => Grown
BY DEF Quiet, Carried, Carries, Lost, Doubled, Taken, Fetched, SenderStill, Grown

LEMMA ReadsKept ==
  ASSUME Grown, NEW n \in DOMAIN nals
  PROVE  /\ Intact(n)' = Intact(n)
         /\ \A x, to : Reads(x, n, to)' <=> Reads(x, n, to)
<1>1. nals'[n] = nals[n]
  BY DEF Grown
<1>2. Intact(n)' = Intact(n)
  BY <1>1 DEF Intact
<1>3. ASSUME NEW x, NEW to PROVE Reads(x, n, to)' <=> Reads(x, n, to)
  BY <1>1 DEF Reads, HeaderSize
<1>4. QED BY <1>2, <1>3

\* With nothing received a NAL held or delivered stays.
LEMMA OutcomeKept ==
  ASSUME Grown, UNCHANGED <<nal_buffer, delivered>>, NEW d, Made(d), Outcome(d)
  PROVE  Outcome(d)'
<1>1. /\ d.nal \in DOMAIN nals /\ (Complete(d)' <=> Complete(d))
  BY MadeKept DEF Made
<1>2. /\ Intact(d.nal)' = Intact(d.nal)
      /\ Reads(nal_buffer, d.nal, d.to)' <=> Reads(nal_buffer, d.nal, d.to)
  <2>1. PICK n, b, to : n = d.nal /\ b = nal_buffer /\ to = d.to
    OBVIOUS
  <2>2. /\ Intact(n)' = Intact(n)
        /\ Reads(b, n, to)' <=> Reads(b, n, to)
    BY <1>1, <2>1, ReadsKept
  <2>3. QED BY <2>1, <2>2 DEF Reads, Intact, HeaderSize
<1>3. QED BY <1>1, <1>2 DEF Outcome, Holds

\* What a datagram brings that begins its NAL, or finds it held up to there.
LEMMA OutcomeOf ==
  ASSUME Grown, BufferType, NEW d, Made(d), NEW x, Becomes(d, x),
         First(d) \/ Holds(d.nal, d.from)
  PROVE  Outcome(d)'
<1>1. /\ d.nal \in DOMAIN nals /\ (Complete(d)' <=> Complete(d))
  BY MadeKept DEF Made
<1>2. PICK n, to : n = d.nal /\ to = d.to
  OBVIOUS
<1>3. CASE Complete(d)
  <2>1. /\ delivered' = Append(delivered, x) /\ x = Intact(n)
        /\ delivered \in Seq(Seq(Cell)) /\ x \in Seq(Cell)
    BY <1>2, <1>3 DEF Becomes, BufferType
  <2>2. PICK u, v : u = delivered' /\ v = delivered
    OBVIOUS
  <2>3. /\ Len(u) \in Nat \ {0} /\ u[Len(u)] = x /\ u # <<>>
    <3>1. v \in Seq(Seq(Cell)) /\ u = Append(v, x) /\ x \in Seq(Cell)
      BY <2>1, <2>2
    <3>2. u \in Seq(Seq(Cell)) /\ Len(u) = Len(v) + 1 /\ u[Len(v) + 1] = x
      BY <3>1, AppendProperties
    <3>3. Len(v) \in Nat
      BY <3>1, LenProperties
    <3>4. Len(u) # 0
      BY <3>2, <3>3
    <3>5. QED BY <3>2, <3>3, <3>4
  <2>4. Last(delivered)' = x
    BY <2>2, <2>3 DEF Last
  <2>5. Intact(n)' = Intact(n)
    BY <1>1, <1>2, ReadsKept
  <2>6. QED BY <1>1, <1>2, <1>3, <2>1, <2>2, <2>3, <2>4, <2>5 DEF Outcome, Intact
<1>4. CASE ~Complete(d)
  <2>1. nal_buffer' = x /\ Reads(x, n, to)
    BY <1>2, <1>4 DEF Becomes
  <2>2. Reads(x, n, to)'
    BY <1>1, <1>2, <2>1, ReadsKept
  <2>3. Holds(d.nal, d.to)'
    BY <1>2, <2>1, <2>2 DEF Holds, Reads, HeaderSize
  <2>4. QED BY <1>1, <1>4, <2>3 DEF Outcome
<1>5. QED BY <1>3, <1>4

\* What arrives, as values: d is the datagram, s what arrived before it, L their
\* number, and x what becomes of its part.
Comes(d, s, L) ==
  /\ s = arrived /\ L \in Nat /\ L = Len(s) /\ DOMAIN s = 1..L
  /\ d \in Range(net) /\ Made(d)
  /\ d \in Exchanged /\ \A k \in 1..L : s[k] \in Exchanged /\ Made(s[k])
  /\ Len(arrived') = L + 1 /\ DOMAIN arrived' = 1..(L + 1) /\ arrived'[L + 1] = d
  /\ \A k \in 1..L : arrived'[k] = s[k]
  /\ Range(net') \cup {d} = Range(net) /\ SenderStill /\ lost' = lost

Arrives(d, s, L, x) == Comes(d, s, L) /\ Becomes(d, x)

LEMMA ComesIs ==
  ASSUME NetInv, NEW i, Fetched(i)
  PROVE  \E s, L : Comes(net[i], s, L)
<1>1. PICK s \in Seq(Datagram), d \in {net[i]} : s = arrived /\ d = net[i]
  BY DEF NetInv
<1>2. PICK L \in Nat : L = Len(s) /\ DOMAIN s = 1..L
  BY LenProperties
<1>3. Range(net') \cup {d} = Range(net)
  BY <1>1, RemovedIs DEF Fetched
<1>4. d \in Range(net) /\ d \in Exchanged
  BY <1>3 DEF Exchanged
<1>5. Made(d) /\ d \in Datagram
  BY <1>4 DEF NetInv, Made
<1>6. PICK t : t = arrived' /\ t = Append(s, d)
  BY <1>1 DEF Fetched
<1>7. /\ Len(Append(s, d)) = Len(s) + 1 /\ DOMAIN Append(s, d) = 1..(Len(s) + 1)
      /\ Append(s, d)[Len(s) + 1] = d
      /\ \A k \in 1..Len(s) : Append(s, d)[k] = s[k]
  BY <1>5, AppendedIs
<1>8. \A k \in 1..L : s[k] \in Exchanged /\ Made(s[k])
  BY <1>1, <1>2 DEF Exchanged, Range, NetInv
<1>9. SenderStill /\ lost' = lost
  BY DEF Fetched
<1>10. Comes(d, s, L)
  BY <1>1, <1>2, <1>3, <1>4, <1>5, <1>6, <1>7, <1>8, <1>9 DEF Comes
<1>11. QED BY <1>1, <1>10

LEMMA ArrivesIs ==
  ASSUME NetInv, BufferType, NEW i, Taken(i)
  PROVE  \E d, s, L, x : Arrives(d, s, L, x)
<1>1. PICK d : d = net[i]
  OBVIOUS
<1>2. PICK s, L : Comes(d, s, L)
  BY <1>1, ComesIs DEF Taken
<1>3. PICK x : Becomes(d, x)
  <2>1. Decode(Truncate(d)) /\ Made(d)
    BY <1>1, <1>2 DEF Taken, Comes
  <2>2. TypeOK /\ nal_buffer \in Seq(Cell)
    BY DEF NetInv, SenderInv, IInv, BufferType
  <2>3. QED BY <2>1, <2>2, DecodeIs
<1>4. QED BY <1>2, <1>3 DEF Arrives

LEMMA BuffersTaken ==
  ASSUME BufferType, NEW d, NEW x, Becomes(d, x)
  PROVE  BufferType'
<1>1. /\ x \in Seq(Cell) /\ nal_buffer \in Seq(Cell) /\ delivered \in Seq(Seq(Cell))
  BY DEF Becomes, BufferType
<1>2. nal_buffer' = <<>> \/ nal_buffer' = x
  BY DEF Becomes
<1>3. delivered' = delivered \/ delivered' = Append(delivered, x)
  BY DEF Becomes
<1>4. <<>> \in Seq(Cell) /\ Append(delivered, x) \in Seq(Seq(Cell))
  BY <1>1
<1>5. QED BY <1>1, <1>2, <1>3, <1>4 DEF BufferType

\* A run goes on with d, or d begins it.
LEMMA RunComes ==
  ASSUME NetInv, NEW d, NEW s, NEW L, Comes(d, s, L), NEW j \in 1..(L + 1), Run(j)'
  PROVE  \/ First(d)
         \/ /\ j \in 1..L /\ L \in 1..L /\ Run(j) /\ ~Complete(s[L])
            /\ s[L].nal = d.nal /\ s[L].to = d.from
<1>1. /\ s = arrived /\ L \in Nat /\ L = Len(s) /\ DOMAIN s = 1..L
      /\ Made(d) /\ \A k \in 1..L : Made(s[k])
      /\ Len(arrived') = L + 1 /\ DOMAIN arrived' = 1..(L + 1) /\ arrived'[L + 1] = d
      /\ \A k \in 1..L : arrived'[k] = s[k]
      /\ nals' = nals
  BY DEF Comes, SenderStill
<1>2. CASE j = L + 1
  BY <1>1, <1>2 DEF Run, First, HeaderSize
<1>3. CASE j # L + 1
  <2>1. /\ j \in 1..L /\ L \in 1..L /\ L \in j..((L + 1) - 1) /\ L \in j..(L + 1)
        /\ L + 1 \in j..(L + 1)
    BY <1>1, <1>3
  <2>2. /\ First(s[j])
        /\ \A k \in j..(L + 1) : arrived'[k].nal = s[j].nal
        /\ \A k \in j..((L + 1) - 1) : arrived'[k].to = arrived'[k + 1].from
    BY <1>1, <2>1 DEF Run, First, HeaderSize
  <2>3. s[L].nal = d.nal /\ s[L].to = d.from
    BY <1>1, <2>1, <2>2
  <2>4. Run(j)
    <3>1. \A k \in j..L : k \in 1..L /\ k \in j..(L + 1)
      BY <2>1
    <3>2. \A k \in j..(L - 1) : k \in 1..L /\ k + 1 \in 1..L /\ k \in j..((L + 1) - 1)
      BY <2>1
    <3>3. \A k \in j..L : s[k].nal = s[j].nal
      BY <1>1, <2>2, <3>1
    <3>4. \A k \in j..(L - 1) : s[k].to = s[k + 1].from
      BY <1>1, <2>2, <3>2
    <3>5. QED BY <1>1, <2>2, <3>3, <3>4 DEF Run
  <2>5. ~Complete(s[L])
    <3>1. d.from < d.to /\ d.to <= nals[d.nal].len /\ d.from \in Nat /\ d.to \in Nat
      BY <1>1 DEF Made, Datagram
    <3>2. nals[d.nal].len \in Nat
      <4>1. nals \in Seq(Packs) /\ d.nal \in DOMAIN nals
        BY <1>1 DEF Made, NetInv, SenderInv, IInv, TypeOK
      <4>2. nals[d.nal] \in Packs
        BY <4>1, ElementOfSeq
      <4>3. QED BY <4>2, PackIs
    <3>3. d.from # nals[d.nal].len
      BY <3>1, <3>2
    <3>4. QED BY <2>3, <3>3 DEF Complete
  <2>6. QED BY <2>1, <2>3, <2>4, <2>5
<1>4. QED BY <1>2, <1>3

LEMMA RunTaken ==
  ASSUME NetInv, BufferType, RunShape, NEW i, Taken(i)
  PROVE  RunShape'
<1>1. PICK d, s, L, x : Arrives(d, s, L, x)
  BY ArrivesIs
<1>2. /\ Comes(d, s, L) /\ Made(d) /\ Becomes(d, x) /\ L \in Nat
      /\ s = arrived /\ L = Len(s) /\ DOMAIN s = 1..L
      /\ Len(arrived') = L + 1 /\ DOMAIN arrived' = 1..(L + 1) /\ arrived'[L + 1] = d
  BY <1>1 DEF Arrives, Comes
<1>3. Grown
  BY KindGrows
<1>4. SUFFICES ASSUME NEW j \in 1..(L + 1), Run(j)' PROVE Outcome(d)'
  BY <1>2 DEF RunShape
<1>5. CASE First(d)
  BY <1>2, <1>3, <1>5, OutcomeOf
<1>6. CASE ~First(d)
  <2>1. /\ j \in 1..L /\ L \in 1..L /\ Run(j) /\ ~Complete(s[L])
        /\ s[L].nal = d.nal /\ s[L].to = d.from
    BY <1>2, <1>4, <1>6, RunComes
  <2>2. Outcome(s[L])
    BY <1>2, <2>1 DEF RunShape
  <2>3. Holds(d.nal, d.from)
    BY <2>1, <2>2 DEF Outcome
  <2>4. QED BY <1>2, <1>3, <2>3, OutcomeOf
<1>7. QED BY <1>5, <1>6

\* With nothing received a run is one that there was.
LEMMA RunStays ==
  ASSUME NetInv, Grown, arrived' = arrived, NEW i \in DOMAIN arrived, Run(i)'
  PROVE  Run(i) /\ Made(arrived[Len(arrived)])
<1>1. PICK L \in Nat : L = Len(arrived) /\ i \in 1..L /\ DOMAIN arrived = 1..L
  BY LenProperties DEF NetInv
<1>2. \A k \in 1..L : Made(arrived[k])
  BY <1>1 DEF NetInv, Exchanged, Range
<1>3. L \in 1..L
  BY <1>1
<1>4. PICK e : e = arrived[i] /\ Made(e)
  BY <1>1, <1>2
<1>5. First(e)' <=> First(e)
  BY <1>4, MadeKept
<1>6. Run(i)
  BY <1>4, <1>5 DEF Run, First, HeaderSize
<1>7. QED BY <1>1, <1>2, <1>3, <1>6

LEMMA RunKept ==
  ASSUME NetInv, RunShape, Grown, UNCHANGED <<nal_buffer, delivered, arrived>>
  PROVE  RunShape'
<1>1. SUFFICES ASSUME NEW i \in DOMAIN arrived, Run(i)'
               PROVE  Outcome(arrived[Len(arrived)])'
  BY DEF RunShape
<1>2. PICK d : d = arrived[Len(arrived)]
  OBVIOUS
<1>3. Outcome(d) /\ Made(d)
  BY <1>1, <1>2, RunStays DEF RunShape
<1>4. Outcome(d)'
  BY <1>3, OutcomeKept
<1>5. QED BY <1>2, <1>4 DEF Outcome, Complete, Holds, Reads, Intact, HeaderSize

\* The link starts empty.
LEMMA NothingSent ==
  ASSUME LinkInit
  PROVE  NetInv /\ BufferType /\ RunShape
<1>1. /\ Init /\ net = <<>> /\ arrived = <<>> /\ nal_buffer = <<>> /\ delivered = <<>>
      /\ pc = "query" /\ chn = <<>>
  BY DEF LinkInit, Init, ReceiverInit
<1>2. IInv /\ ChannelShape
  BY <1>1, InitInv DEF ChannelShape
<1>3. ~Partial
  BY <1>1 DEF Partial
<1>4. SenderInv
  BY <1>2, <1>3 DEF SenderInv, CursorShape
<1>5. \A S : <<>> \in Seq(S) /\ DOMAIN <<>> = {}
  OBVIOUS
<1>6. Exchanged = {}
  BY <1>1, <1>5 DEF Exchanged, Range
<1>7. NetInv
  BY <1>1, <1>3, <1>4, <1>5, <1>6 DEF NetInv, ChainShape, Ordered
<1>8. BufferType /\ RunShape
  BY <1>1, <1>5 DEF BufferType, RunShape
<1>9. QED BY <1>7, <1>8

RInv == NetInv /\ BufferType /\ RunShape

LEMMA RunStep == RInv /\ [LinkNext]_linkVars => RInv'
<1>1. SUFFICES ASSUME RInv, [LinkNext]_linkVars PROVE RInv'
  OBVIOUS
<1>2. NetInv' /\ Kind
  BY <1>1, LinkStep DEF RInv
<1>3. CASE \E i : Taken(i)
  <2>1. PICK i : Taken(i)
    BY <1>3
  <2>2. PICK d, s, L, x : Arrives(d, s, L, x)
    BY <1>1, <2>1, ArrivesIs DEF RInv
  <2>3. BufferType'
    BY <1>1, <2>2, BuffersTaken DEF RInv, Arrives, Comes
  <2>4. RunShape'
    BY <1>1, <2>1, RunTaken DEF RInv
  <2>5. QED BY <1>2, <2>3, <2>4 DEF RInv
<1>4. CASE ~ \E i : Taken(i)
  <2>1. Grown /\ UNCHANGED <<nal_buffer, delivered, arrived>>
    BY <1>2, <1>4, KindGrows DEF Kind
  <2>2. BufferType' /\ RunShape'
    BY <1>1, <2>1, RunKept DEF RInv, BufferType
  <2>3. QED BY <1>2, <2>2 DEF RInv
<1>5. QED BY <1>3, <1>4

LEMMA RunHolds == LinkSpec => []RInv
<1>1. LinkInit => RInv
  BY NothingSent DEF RInv
<1>2. QED BY <1>1, RunStep, PTL DEF LinkSpec

\* The datagrams from the i-th on carry a NAL whole: a run, and complete.
LEMMA WholeNalIsRun ==
  ASSUME NetInv, NEW i \in DOMAIN arrived,
         IsWholeNal(SubSeq(arrived, i, Len(arrived)))
  PROVE  /\ Run(i) /\ Complete(arrived[Len(arrived)])
         /\ arrived[Len(arrived)].nal = arrived[i].nal
<1>1. PICK s \in Seq(Datagram), L \in Nat :
        s = arrived /\ L = Len(s) /\ DOMAIN s = 1..L /\ i \in 1..L
  BY LenProperties DEF NetInv
<1>2. PICK m \in Nat : m = L - i + 1 /\ m >= 1
  <2>1. L - i + 1 \in Nat /\ L - i + 1 >= 1
    BY <1>1
  <2>2. QED BY <2>1
<1>3. PICK t : t = SubSeq(s, i, L)
  OBVIOUS
<1>4. /\ t \in Seq(Datagram) /\ Len(t) = m
      /\ \A k \in 1..m : t[k] = s[i + k - 1]
  <2>1. i \in Int /\ L \in Int /\ \A k \in i..L : s[k] \in Datagram
    BY <1>1, ElementOfSeq
  <2>2. /\ t \in Seq(Datagram) /\ Len(t) = IF i <= L THEN L - i + 1 ELSE 0
        /\ \A k \in 1..(L - i + 1) : t[k] = s[i + k - 1]
    BY <1>3, <2>1, SubSeqProperties
  <2>3. QED BY <1>1, <1>2, <2>2
<1>5. DOMAIN t = 1..m
  BY <1>4, LenProperties
<1>6. t[1] = s[i] /\ t[m] = s[L]
  <2>1. 1 \in 1..m /\ m \in 1..m /\ i + 1 - 1 = i /\ i + m - 1 = L
    BY <1>1, <1>2
  <2>2. t[1] = s[i + 1 - 1] /\ t[m] = s[i + m - 1]
    BY <1>4, <2>1
  <2>3. QED BY <2>1, <2>2
<1>7. /\ \A k \in 1..m : t[k].nal = s[i].nal
      /\ s[i].from = HeaderSize(nals[s[i].nal])
      /\ s[L].to = nals[s[i].nal].len
      /\ \A k \in 1..(m - 1) : t[k].to = t[k + 1].from
  <2>1. IsWholeNal(t)
    BY <1>1, <1>3
  <2>2. QED BY <1>4, <1>5, <1>6, <2>1 DEF IsWholeNal, HeaderSize
<1>8. s[L].nal = s[i].nal
  <2>1. m \in 1..m
    BY <1>2
  <2>2. QED BY <1>6, <1>7, <2>1
<1>9. \A k \in i..L : s[k].nal = s[i].nal
  <2>1. TAKE k \in i..L
  <2>2. k - i + 1 \in 1..m /\ i + (k - i + 1) - 1 = k
    BY <1>1, <1>2
  <2>3. QED BY <1>4, <1>7, <2>2
<1>10. \A k \in i..(L - 1) : s[k].to = s[k + 1].from
  <2>1. TAKE k \in i..(L - 1)
  <2>2. PICK j \in 1..(m - 1) : k = i + j - 1
    <3>1. k - i + 1 \in 1..(m - 1) /\ k = i + (k - i + 1) - 1
      BY <1>1, <1>2
    <3>2. QED BY <3>1
  <2>3. j \in 1..m /\ j + 1 \in 1..m /\ i + (j + 1) - 1 = k + 1
    BY <1>1, <1>2, <2>2
  <2>4. t[j] = s[k] /\ t[j + 1] = s[k + 1]
    BY <1>4, <2>2, <2>3
  <2>5. QED BY <1>7, <2>2, <2>4
<1>11. First(s[i]) /\ Complete(s[L])
  BY <1>7, <1>8 DEF First, Complete
<1>12. QED BY <1>1, <1>8, <1>9, <1>10, <1>11 DEF Run

\* However many datagrams were lost, doubled or overtaken before, a NAL whose
\* datagrams arrive in order and together is handed to the decoder intact as
\* its last one is in.
THEOREM WholeArrivals == LinkSpec => []WholeArrivalIsDelivered
<1>1. RInv => WholeArrivalIsDelivered
  <2>1. SUFFICES ASSUME RInv, NEW i \in DOMAIN arrived,
                        IsWholeNal(SubSeq(arrived, i, Len(arrived)))
                 PROVE  delivered # <<>> /\ Last(delivered) = Intact(arrived[i].nal)
    BY DEF WholeArrivalIsDelivered
  <2>2. /\ Run(i) /\ Complete(arrived[Len(arrived)])
        /\ arrived[Len(arrived)].nal = arrived[i].nal
    BY <2>1, WholeNalIsRun DEF RInv
  <2>3. Outcome(arrived[Len(arrived)])
    BY <2>1, <2>2 DEF RInv, RunShape
  <2>4. QED BY <2>2, <2>3 DEF Outcome
<1>2. QED BY <1>1, RunHolds, PTL

-----------------------------------------------------------------------------
(***************************************************************************)
(* What loss alone does.                                                   *)
(***************************************************************************)
\* So far each datagram that arrived lies behind the one before.
Sorted == \A i \in 1..(Len(arrived) - 1) : Before(arrived[i], arrived[i + 1])

\* Why bytes of NAL n may be in something damaged: they are known bytes, n lost
\* a datagram, or one of n's has been overtaken.
Spoils(n) ==
  \/ n = 0 \/ n \in lost
  \/ arrived # <<>> /\ \E e \in Range(net) :
                         e.nal = n /\ ~Before(arrived[Len(arrived)], e)

Spoilt(x) == \A n \in Sources(x) : Spoils(n)

LastShape ==
  Sorted => \A k \in 1..(Len(arrived) - 1) :
              Before(arrived[k], arrived[Len(arrived)])

\* After the datagram l: nothing is held after the last one of a NAL, otherwise
\* l's NAL is read from its start, or spoilt.
After(l) ==
  IF Complete(l) THEN nal_buffer = <<>>
  ELSE /\ \A n \in Sources(nal_buffer) : n = l.nal \/ Spoils(n)
       /\ Holds(l.nal, l.to) \/ Spoils(l.nal)

BufferShape ==
  /\ arrived = <<>> => nal_buffer = <<>>
  /\ arrived # <<>> /\ Sorted => After(arrived[Len(arrived)])

DeliveredShape ==
  Sorted => \A i \in DOMAIN delivered :
              (\E n \in DOMAIN nals : delivered[i] = Intact(n)) \/ Spoilt(delivered[i])

DInv == NetInv /\ BufferType /\ LastShape /\ BufferShape /\ DeliveredShape

LEMMA MadeIs ==
  ASSUME NEW d, Made(d)
  PROVE  d.nal \in Nat /\ d.from \in Nat /\ d.to \in Nat /\ d.from < d.to
BY DEF Made, Datagram

LEMMA BeforeIs ==
  ASSUME NEW d, Made(d), NEW e, Made(e), NEW f, Made(f), Before(d, e), Before(e, f)
  PROVE  Before(d, f)
<1>1. /\ d.nal \in Nat /\ e.nal \in Nat /\ f.nal \in Nat /\ d.to \in Nat
      /\ e.from \in Nat /\ e.to \in Nat /\ f.from \in Nat /\ e.from < e.to
  BY MadeIs
<1>2. QED BY <1>1 DEF Before

\* Which NALs spoil others once d has arrived.
LEMMA SpoilsIs ==
  ASSUME NEW d, NEW s, NEW L, NEW x, Arrives(d, s, L, x), NEW n
  PROVE  /\ Spoils(n)' <=> \/ n = 0 \/ n \in lost
                           \/ \E e \in Range(net') : e.nal = n /\ ~Before(d, e)
         /\ Sorted' => Sorted /\ (L # 0 => Before(s[L], d))
<1>1. /\ s = arrived /\ L \in Nat /\ Len(s) = L /\ Len(arrived') = L + 1
      /\ arrived'[L + 1] = d /\ \A k \in 1..L : arrived'[k] = s[k]
      /\ lost' = lost
  BY DEF Arrives, Comes
<1>2. PICK t : t = arrived' /\ t # <<>>
  BY <1>1
<1>3. Spoils(n)' <=> \/ n = 0 \/ n \in lost
                     \/ \E e \in Range(net') : e.nal = n /\ ~Before(d, e)
  BY <1>1, <1>2 DEF Spoils, Before
<1>4. ASSUME Sorted' PROVE Sorted /\ (L # 0 => Before(s[L], d))
  <2>1. \A i \in 1..((L + 1) - 1) : Before(t[i], t[i + 1])
    BY <1>1, <1>2, <1>4 DEF Sorted, Before
  <2>2. \A i \in 1..(L - 1) : i \in 1..((L + 1) - 1) /\ i \in 1..L /\ i + 1 \in 1..L
    BY <1>1
  <2>3. \A i \in 1..(L - 1) : Before(s[i], s[i + 1])
    BY <1>1, <1>2, <2>1, <2>2
  <2>4. L # 0 => L \in 1..((L + 1) - 1) /\ L \in 1..L
    BY <1>1
  <2>5. L # 0 => Before(s[L], d)
    BY <1>1, <1>2, <2>1, <2>4
  <2>6. QED BY <1>1, <2>3, <2>5 DEF Sorted
<1>5. QED BY <1>3, <1>4

\* A NAL that spoils goes on to.
LEMMA SpoilsTaken ==
  ASSUME NetInv, NEW d, NEW s, NEW L, NEW x, Arrives(d, s, L, x), Sorted',
         NEW n, Spoils(n)
  PROVE  Spoils(n)'
<1>1. /\ s = arrived /\ L \in Nat /\ L = Len(s) /\ Made(d)
      /\ Range(net') \cup {d} = Range(net)
      /\ \A k \in 1..L : Made(s[k])
  BY DEF Arrives, Comes
<1>2. CASE n = 0 \/ n \in lost
  BY <1>2, SpoilsIs
<1>3. CASE ~(n = 0 \/ n \in lost)
  <2>1. PICK e \in Range(net) :
          arrived # <<>> /\ e.nal = n /\ ~Before(arrived[Len(arrived)], e)
    BY <1>3 DEF Spoils
  <2>2. L # 0
    BY <1>1, <2>1, LenProperties DEF NetInv
  <2>3. Before(s[L], d) /\ ~Before(s[L], e) /\ Made(s[L]) /\ Made(e)
    <3>1. Before(s[L], d)
      BY <2>2, SpoilsIs
    <3>2. L \in 1..L
      BY <1>1, <2>2
    <3>3. Made(e)
      BY <2>1 DEF NetInv, Exchanged
    <3>4. QED BY <1>1, <2>1, <3>1, <3>2, <3>3
  <2>4. e # d /\ ~Before(d, e)
    BY <1>1, <2>3, BeforeIs
  <2>5. e \in Range(net')
    BY <1>1, <2>1, <2>4
  <2>6. QED BY <2>1, <2>4, <2>5, SpoilsIs
<1>4. QED BY <1>2, <1>3

\* A datagram of the middle finds its NAL held up to it, unless that lost one
\* or this one has overtaken another.
LEMMA MiddleFits ==
  ASSUME DInv, NEW d, NEW s, NEW L, NEW x, Arrives(d, s, L, x), Sorted'
  PROVE  First(d) \/ Holds(d.nal, d.from) \/ Spoils(d.nal)'
<1>1. /\ s = arrived /\ L \in Nat /\ L = Len(s) /\ Made(d) /\ d \in Exchanged
      /\ DOMAIN s = 1..L /\ Range(net') \cup {d} = Range(net)
      /\ \A k \in 1..L : Made(s[k])
  BY DEF Arrives, Comes
<1>2. SUFFICES ASSUME ~First(d), ~Spoils(d.nal)' PROVE Holds(d.nal, d.from)
  OBVIOUS
<1>3. d.nal \notin lost
  BY <1>2, SpoilsIs
<1>4. PICK e \in Exchanged : e.nal = d.nal /\ e.to = d.from
  BY <1>1, <1>2, <1>3 DEF DInv, NetInv, ChainShape, Chained
<1>5. Made(e)
  BY <1>4 DEF DInv, NetInv
<1>6. /\ d.nal \in Nat /\ d.from \in Nat /\ d.to \in Nat /\ d.from < d.to
      /\ e.from \in Nat /\ e.to \in Nat /\ e.from < e.to
  BY <1>1, <1>5, MadeIs
<1>7. e # d /\ ~Before(d, e)
  BY <1>4, <1>6 DEF Before
<1>8. e \notin Range(net')
  BY <1>2, <1>4, <1>7, SpoilsIs
<1>9. PICK k \in 1..L : s[k] = e
  <2>1. e \in Range(arrived)
    BY <1>1, <1>4, <1>7, <1>8 DEF Exchanged
  <2>2. QED BY <1>1, <2>1 DEF Range
<1>10. L # 0 /\ L \in 1..L
  BY <1>1, <1>9
<1>11. PICK l : l = s[L] /\ Made(l)
  BY <1>1, <1>10
<1>12. Before(l, d) /\ Sorted
  BY <1>10, <1>11, SpoilsIs
<1>13. l = e
  <2>1. SUFFICES ASSUME k # L PROVE FALSE
    BY <1>9, <1>11
  <2>2. k \in 1..(L - 1)
    BY <1>1, <1>9, <2>1
  <2>3. Before(e, l)
    BY <1>1, <1>9, <1>11, <1>12, <2>2 DEF DInv, LastShape
  <2>4. l.nal \in Nat /\ l.from \in Nat /\ l.to \in Nat /\ l.from < l.to
    BY <1>11, MadeIs
  <2>5. QED BY <1>4, <1>6, <1>12, <2>3, <2>4 DEF Before
<1>14. ~Complete(l)
  <2>1. d.to <= nals[d.nal].len /\ nals[d.nal].len \in Nat
    <3>1. nals \in Seq(Packs) /\ d.nal \in DOMAIN nals
      BY <1>1 DEF Made, DInv, NetInv, SenderInv, IInv, TypeOK
    <3>2. nals[d.nal] \in Packs
      BY <3>1, ElementOfSeq
    <3>3. QED BY <1>1, <3>2, PackIs DEF Made
  <2>2. QED BY <1>4, <1>6, <1>13, <2>1 DEF Complete
<1>15. After(l)
  <2>1. arrived # <<>>
    BY <1>1, <1>10
  <2>2. QED BY <1>1, <1>11, <1>12, <2>1 DEF DInv, BufferShape
<1>16. Holds(l.nal, l.to) \/ Spoils(l.nal)
  BY <1>14, <1>15 DEF After
<1>17. ~Spoils(d.nal)
  BY <1>2, SpoilsTaken DEF DInv
<1>18. QED BY <1>4, <1>13, <1>16, <1>17

\* What is held but of another NAL has an excuse once d has arrived.
LEMMA HeldSpoils ==
  ASSUME DInv, NEW d, NEW s, NEW L, NEW x, Arrives(d, s, L, x), Sorted',
         NEW n \in Sources(nal_buffer), n # d.nal
  PROVE  Spoils(n)'
<1>1. /\ s = arrived /\ L \in Nat /\ L = Len(s) /\ Made(d) /\ d \in Exchanged
      /\ DOMAIN s = 1..L /\ Range(net') \cup {d} = Range(net)
      /\ \A k \in 1..L : Made(s[k]) /\ s[k] \in Exchanged
  BY DEF Arrives, Comes
<1>2. SUFFICES ASSUME ~Spoils(n)' PROVE FALSE
  OBVIOUS
<1>3. ~Spoils(n) /\ n \notin lost
  BY <1>2, SpoilsTaken, SpoilsIs DEF DInv
<1>4. Sources(<<>>) = {}
  BY DEF Sources
<1>5. nal_buffer # <<>> /\ arrived # <<>>
  BY <1>4 DEF DInv, BufferShape
<1>6. L # 0 /\ L \in 1..L
  BY <1>1, <1>5, LenProperties DEF DInv, NetInv
<1>7. PICK l \in Exchanged : l = s[L] /\ Made(l)
  BY <1>1, <1>6
<1>8. Before(l, d) /\ Sorted
  BY <1>6, <1>7, SpoilsIs
<1>9. After(l)
  BY <1>1, <1>5, <1>7, <1>8 DEF DInv, BufferShape
<1>10. ~Complete(l) /\ n = l.nal
  BY <1>3, <1>5, <1>9 DEF After
<1>11. /\ d.nal \in Nat /\ d.from \in Nat /\ d.to \in Nat /\ d.from < d.to
       /\ l.nal \in Nat /\ l.from \in Nat /\ l.to \in Nat /\ l.from < l.to
  BY <1>1, <1>7, MadeIs
<1>12. l.nal < d.nal
  BY <1>8, <1>10 DEF Before
<1>13. ~(Partial /\ l.nal = Sent + 1)
  <2>1. SentBefore(d)
    BY <1>1 DEF DInv, NetInv
  <2>2. d.nal <= Sent \/ d.nal = Sent + 1
    BY <2>1 DEF SentBefore
  <2>3. Sent \in Nat
    BY CountersAre DEF DInv, NetInv, SenderInv
  <2>4. QED BY <1>11, <1>12, <2>2, <2>3
<1>14. PICK e \in Exchanged : e.nal = l.nal /\ e.from = l.to
  BY <1>3, <1>7, <1>10, <1>13 DEF DInv, NetInv, ChainShape, Chained
<1>15. Made(e)
  BY <1>14 DEF DInv, NetInv
<1>16. e.nal \in Nat /\ e.from \in Nat /\ e.to \in Nat /\ e.from < e.to
  BY <1>15, MadeIs
<1>17. ~Before(e, l) /\ e # l /\ e # d /\ ~Before(d, e)
  BY <1>11, <1>12, <1>14, <1>16 DEF Before
<1>18. e \notin Range(arrived)
  <2>1. SUFFICES ASSUME e \in Range(arrived) PROVE FALSE
    OBVIOUS
  <2>2. PICK k \in 1..L : s[k] = e
    BY <1>1, <2>1 DEF Range
  <2>3. k \in 1..(L - 1)
    BY <1>1, <1>7, <1>17, <2>2
  <2>4. Before(e, l)
    BY <1>1, <1>7, <1>8, <2>2, <2>3 DEF DInv, LastShape
  <2>5. QED BY <1>17, <2>4
<1>19. e \in Range(net')
  BY <1>1, <1>14, <1>17, <1>18 DEF Exchanged
<1>20. QED BY <1>2, <1>10, <1>14, <1>17, <1>19, SpoilsIs

\* The part of d's NAL: all of its bytes but that NAL's have an excuse.
LEMMA PartSpoils ==
  ASSUME DInv, NEW d, NEW s, NEW L, NEW x, Arrives(d, s, L, x), Sorted',
         NEW n \in Sources(x), n # d.nal
  PROVE  Spoils(n)'
<1>1. Becomes(d, x)
  BY DEF Arrives, Comes
<1>2. n = 0 \/ n \in Sources(nal_buffer)
  BY <1>1 DEF Becomes
<1>3. CASE n = 0
  BY <1>3, SpoilsIs
<1>4. CASE n \in Sources(nal_buffer)
  BY <1>4, HeldSpoils
<1>5. QED BY <1>2, <1>3, <1>4

LEMMA LastTaken ==
  ASSUME DInv, NEW d, NEW s, NEW L, NEW x, Arrives(d, s, L, x)
  PROVE  LastShape'
<1>1. /\ s = arrived /\ L \in Nat /\ L = Len(s) /\ Made(d)
      /\ Len(arrived') = L + 1 /\ arrived'[L + 1] = d
      /\ \A k \in 1..L : arrived'[k] = s[k] /\ Made(s[k])
  BY DEF Arrives, Comes
<1>2. SUFFICES ASSUME Sorted', NEW k \in 1..L PROVE Before(s[k], d)
  <2>1. 1..((L + 1) - 1) = 1..L
    BY <1>1
  <2>2. QED BY <1>1, <2>1 DEF LastShape, Before
<1>3. L \in 1..L /\ L # 0
  BY <1>1, <1>2
<1>4. Sorted /\ Before(s[L], d)
  BY <1>2, <1>3, SpoilsIs
<1>5. CASE k = L
  BY <1>4, <1>5
<1>6. CASE k # L
  <2>1. k \in 1..(L - 1)
    BY <1>1, <1>2, <1>6
  <2>2. Before(s[k], s[L])
    BY <1>1, <1>4, <2>1 DEF DInv, LastShape
  <2>3. QED BY <1>1, <1>2, <1>3, <1>4, <2>2, BeforeIs
<1>7. QED BY <1>5, <1>6

LEMMA BufferTaken ==
  ASSUME DInv, NEW d, NEW s, NEW L, NEW x, Arrives(d, s, L, x)
  PROVE  BufferShape'
<1>1. /\ L \in Nat /\ Made(d) /\ Becomes(d, x) /\ SenderStill
      /\ Len(arrived') = L + 1 /\ arrived'[L + 1] = d
  BY DEF Arrives, Comes
<1>2. arrived' # <<>>
  BY <1>1
<1>3. Grown
  BY <1>1 DEF SenderStill, Grown
<1>4. Complete(d)' <=> Complete(d)
  BY <1>1, <1>3, MadeKept
<1>5. SUFFICES ASSUME Sorted' PROVE After(d)'
  BY <1>1, <1>2 DEF BufferShape, After, Complete, Holds, Reads, HeaderSize, Spoils
<1>6. CASE Complete(d)
  BY <1>1, <1>4, <1>6 DEF Becomes, After
<1>7. CASE ~Complete(d)
  <2>1. nal_buffer' = x
    BY <1>1, <1>7 DEF Becomes
  <2>2. \A n \in Sources(nal_buffer') : n = d.nal \/ Spoils(n)'
    BY <1>5, <2>1, PartSpoils
  <2>3. First(d) \/ Holds(d.nal, d.from) => Holds(d.nal, d.to)'
    <3>1. First(d) \/ Holds(d.nal, d.from) => Outcome(d)'
      BY <1>1, <1>3, OutcomeOf DEF DInv
    <3>2. QED BY <1>4, <1>7, <3>1 DEF Outcome
  <2>4. Holds(d.nal, d.to)' \/ Spoils(d.nal)'
    BY <1>5, <2>3, MiddleFits
  <2>5. QED BY <1>4, <1>7, <2>2, <2>4 DEF After, Sources, Spoils
<1>8. QED BY <1>6, <1>7

LEMMA DeliveredTaken ==
  ASSUME DInv, NEW d, NEW s, NEW L, NEW x, Arrives(d, s, L, x)
  PROVE  DeliveredShape'
<1>1. /\ Made(d) /\ Becomes(d, x) /\ SenderStill /\ nals' = nals
  BY DEF Arrives, Comes, SenderStill
<1>2. Grown
  BY <1>1 DEF Grown
<1>3. PICK v \in Seq(Seq(Cell)), m \in Nat :
        v = delivered /\ m = Len(v) /\ DOMAIN v = 1..m
  BY LenProperties DEF DInv, BufferType
<1>4. SUFFICES ASSUME Sorted', NEW i \in DOMAIN delivered'
               PROVE  \/ \E n \in DOMAIN nals : delivered'[i] = Intact(n)
                      \/ \A n \in Sources(delivered'[i]) : Spoils(n)'
  <2>1. \A n : Intact(n)' = Intact(n)
    BY <1>1 DEF Intact
  <2>2. QED BY <1>1, <2>1 DEF DeliveredShape, Spoilt, Spoils, Sources, Intact
<1>5. Sorted
  BY <1>4, SpoilsIs
<1>6. ASSUME NEW k \in 1..m
      PROVE  \/ \E n \in DOMAIN nals : v[k] = Intact(n)
             \/ \A n \in Sources(v[k]) : Spoils(n)'
  <2>1. (\E n \in DOMAIN nals : v[k] = Intact(n)) \/ Spoilt(v[k])
    BY <1>3, <1>5 DEF DInv, DeliveredShape
  <2>2. QED BY <1>4, <2>1, SpoilsTaken DEF Spoilt, DInv
<1>7. CASE ~Complete(d)
  BY <1>1, <1>3, <1>4, <1>6, <1>7 DEF Becomes
<1>8. CASE Complete(d)
  <2>1. delivered' = Append(v, x) /\ x \in Seq(Cell)
    BY <1>1, <1>3, <1>8 DEF Becomes
  <2>2. PICK u : u = delivered' /\ u = Append(v, x)
    BY <2>1
  <2>3. /\ DOMAIN u = 1..(m + 1) /\ u[m + 1] = x
        /\ \A k \in 1..m : u[k] = v[k]
    <3>1. u \in Seq(Seq(Cell)) /\ Len(u) = m + 1
      BY <1>3, <2>1, <2>2, AppendProperties
    <3>2. u[m + 1] = x /\ \A k \in 1..m : u[k] = v[k]
      BY <1>3, <2>1, <2>2, AppendProperties
    <3>3. QED BY <3>1, <3>2, LenProperties
  <2>4. CASE i \in 1..m
    BY <1>6, <2>2, <2>3, <2>4
  <2>5. CASE i = m + 1
    <3>1. delivered'[i] = x
      BY <2>2, <2>3, <2>5
    <3>2. First(d) \/ Holds(d.nal, d.from) => x = Intact(d.nal)
      BY <1>1, <1>8 DEF Becomes
    <3>3. d.nal \in DOMAIN nals
      BY <1>1 DEF Made
    <3>4. Spoils(d.nal)' => \A n \in Sources(x) : Spoils(n)'
      BY <1>4, PartSpoils
    <3>5. QED BY <1>4, <3>1, <3>2, <3>3, <3>4, MiddleFits
  <2>6. i \in 1..m \/ i = m + 1
    BY <1>3, <1>4, <2>2, <2>3
  <2>7. QED BY <2>4, <2>5, <2>6
<1>9. QED BY <1>7, <1>8

\* What is not received leaves the network only as a loss.
LEMMA NothingVanishes ==
  ASSUME NetInv, Quiet \/ (\E d : Carried(d)) \/ (\E i : Lost(i) \/ Doubled(i))
  PROVE  /\ lost \subseteq lost'
         /\ \A e \in Range(net) : e \in Range(net') \/ e.nal \in lost'
<1>1. net \in Seq(Datagram)
  BY DEF NetInv, SenderInv, IInv, TypeOK
<1>2. CASE Quiet
  BY <1>2 DEF Quiet
<1>3. ASSUME NEW d, Carried(d)
      PROVE  lost' = lost /\ \A e \in Range(net) : e \in Range(net')
  <2>1. d \in Datagram /\ net' = Append(net, d) /\ lost' = lost
    BY <1>3 DEF Carried, Carries, Made
  <2>2. PICK s \in Seq(Datagram), t \in {net'} : s = net /\ t = net' /\ t = Append(s, d)
    BY <1>1, <2>1
  <2>3. Range(t) = Range(s) \cup {d}
    BY <2>1, <2>2, AppendedIs
  <2>4. QED BY <2>1, <2>2, <2>3
<1>4. ASSUME NEW i, Lost(i)
      PROVE  lost \subseteq lost' /\ \A e \in Range(net) : e \in Range(net') \/ e.nal \in lost'
  <2>1. Range(net') \cup {net[i]} = Range(net)
    BY <1>4, RemovedIs DEF Lost
  <2>2. QED BY <1>4, <2>1 DEF Lost
<1>5. ASSUME NEW i, Doubled(i)
      PROVE  lost' = lost /\ Range(net') = Range(net)
  <2>1. PICK s \in Seq(Datagram), t \in {net'} : s = net /\ t = net'
    BY <1>1
  <2>2. i \in DOMAIN s /\ t = InsertAt(s, i, s[i])
    BY <1>5, <2>1 DEF Doubled
  <2>3. Range(t) = Range(s)
    BY <2>2, RangeDoubled
  <2>4. QED BY <1>5, <2>1, <2>3 DEF Doubled
<1>6. QED BY <1>2, <1>3, <1>4, <1>5

LEMMA DamageKept ==
  ASSUME DInv, Grown, UNCHANGED <<nal_buffer, delivered, arrived>>,
         lost \subseteq lost',
         \A e \in Range(net) : e \in Range(net') \/ e.nal \in lost'
  PROVE  LastShape' /\ BufferShape' /\ DeliveredShape'
<1>1. /\ Sorted' <=> Sorted
      /\ arrived' = arrived /\ nal_buffer' = nal_buffer /\ delivered' = delivered
  BY DEF Sorted, Before
<1>2. ASSUME NEW n, Spoils(n) PROVE Spoils(n)'
  BY <1>2 DEF Spoils, Before
<1>3. LastShape'
  BY <1>1 DEF DInv, LastShape, Before
<1>4. BufferShape'
  <2>1. SUFFICES ASSUME arrived # <<>>, Sorted PROVE After(arrived[Len(arrived)])'
    BY <1>1 DEF DInv, BufferShape
  <2>2. PICK l : l = arrived[Len(arrived)]
    OBVIOUS
  <2>3. Made(l)
    <3>1. PICK s \in Seq(Datagram), L \in Nat : s = arrived /\ L = Len(s) /\ DOMAIN s = 1..L
      BY LenProperties DEF DInv, NetInv
    <3>2. L \in 1..L
      BY <2>1, <3>1
    <3>3. QED BY <2>2, <3>1, <3>2 DEF DInv, NetInv, Exchanged, Range
  <2>4. After(l)
    BY <2>1, <2>2 DEF DInv, BufferShape
  <2>5. Complete(l)' <=> Complete(l)
    BY <2>3, MadeKept
  <2>6. PICK b, n, to : b = nal_buffer /\ n = l.nal /\ to = l.to
    OBVIOUS
  <2>7. Reads(b, n, to) => Reads(b, n, to)'
    BY <2>3, <2>6, ReadsKept DEF Made
  <2>8. Holds(l.nal, l.to) => Holds(l.nal, l.to)'
    BY <1>1, <2>6, <2>7 DEF Holds, Reads, HeaderSize
  <2>9. After(l)'
    <3>1. CASE Complete(l)
      BY <1>1, <2>4, <2>5, <3>1 DEF After
    <3>2. CASE ~Complete(l)
      <4>1. /\ \A m \in Sources(nal_buffer) : m = l.nal \/ Spoils(m)
            /\ Holds(l.nal, l.to) \/ Spoils(l.nal)
        BY <2>4, <3>2 DEF After
      <4>2. \A m \in Sources(nal_buffer') : m = l.nal \/ Spoils(m)'
        BY <1>1, <1>2, <4>1
      <4>3. Holds(l.nal, l.to)' \/ Spoils(l.nal)'
        BY <1>2, <2>8, <4>1
      <4>4. QED BY <2>5, <3>2, <4>2, <4>3 DEF After, Sources, Spoils
    <3>3. QED BY <3>1, <3>2
  <2>10. QED
    BY <1>1, <2>2, <2>9 DEF After, Complete, Holds, Reads, HeaderSize
<1>5. DeliveredShape'
  <2>1. SUFFICES ASSUME Sorted, NEW i \in DOMAIN delivered
                 PROVE  \/ \E n \in DOMAIN nals' : delivered[i] = Intact(n)'
                        \/ \A n \in Sources(delivered[i]) : Spoils(n)'
    BY <1>1 DEF DeliveredShape, Spoilt, Sources, Spoils, Intact
  <2>2. CASE \E n \in DOMAIN nals : delivered[i] = Intact(n)
    <3>1. PICK n \in DOMAIN nals : delivered[i] = Intact(n)
      BY <2>2
    <3>2. n \in DOMAIN nals' /\ Intact(n)' = Intact(n)
      BY ReadsKept DEF Grown
    <3>3. QED BY <3>1, <3>2 DEF Intact
  <2>3. CASE Spoilt(delivered[i])
    BY <1>2, <2>3 DEF Spoilt
  <2>4. QED BY <2>1, <2>2, <2>3 DEF DInv, DeliveredShape
<1>6. QED BY <1>3, <1>4, <1>5

LEMMA DamageStep == DInv /\ [LinkNext]_linkVars => DInv'
<1>1. SUFFICES ASSUME DInv, [LinkNext]_linkVars PROVE DInv'
  OBVIOUS
<1>2. NetInv' /\ Kind
  BY <1>1, LinkStep DEF DInv
<1>3. CASE \E i : Taken(i)
  <2>1. PICK i : Taken(i)
    BY <1>3
  <2>2. PICK d, s, L, x : Arrives(d, s, L, x)
    BY <1>1, <2>1, ArrivesIs DEF DInv
  <2>3. BufferType'
    BY <1>1, <2>2, BuffersTaken DEF DInv, Arrives, Comes
  <2>4. LastShape' /\ BufferShape' /\ DeliveredShape'
    BY <1>1, <2>2, LastTaken, BufferTaken, DeliveredTaken
  <2>5. QED BY <1>2, <2>3, <2>4 DEF DInv
<1>4. CASE ~ \E i : Taken(i)
  <2>1. /\ Quiet \/ (\E d : Carried(d)) \/ (\E i : Lost(i) \/ Doubled(i))
        /\ UNCHANGED <<nal_buffer, delivered, arrived>>
    BY <1>2, <1>4 DEF Kind
  <2>2. /\ Grown /\ lost \subseteq lost'
        /\ \A e \in Range(net) : e \in Range(net') \/ e.nal \in lost'
    BY <1>1, <2>1, KindGrows, NothingVanishes DEF DInv
  <2>3. LastShape' /\ BufferShape' /\ DeliveredShape'
    BY <1>1, <2>1, <2>2, DamageKept
  <2>4. QED BY <1>1, <1>2, <2>1, <2>3 DEF DInv, BufferType
<1>5. QED BY <1>3, <1>4

LEMMA DamageHolds == LinkSpec => []DInv
<1>1. LinkInit => DInv
  <2>1. SUFFICES ASSUME LinkInit PROVE DInv
    OBVIOUS
  <2>2. arrived = <<>> /\ nal_buffer = <<>> /\ delivered = <<>>
    BY <2>1 DEF LinkInit, ReceiverInit
  <2>3. DOMAIN <<>> = {} /\ Len(<<>>) = 0 /\ 1..(0 - 1) = {}
    OBVIOUS
  <2>4. LastShape /\ BufferShape /\ DeliveredShape
    BY <2>2, <2>3 DEF LastShape, BufferShape, DeliveredShape
  <2>5. QED BY <2>1, <2>4, NothingSent DEF DInv
<1>2. QED BY <1>1, DamageStep, PTL DEF LinkSpec

\* In order means: in order so far, and nothing on the way has been overtaken.
LEMMA InOrderIs ==
  ASSUME NetInv, InOrder
  PROVE  Sorted /\ \A n : Spoils(n) => n \in lost \cup {0}
<1>1. PICK s \in Seq(Datagram), t \in Seq(Datagram) : s = arrived /\ t = net
  BY DEF NetInv, SenderInv, IInv, TypeOK
<1>2. PICK L \in Nat, M \in Nat :
        L = Len(s) /\ M = Len(t) /\ DOMAIN s = 1..L /\ DOMAIN t = 1..M
  BY LenProperties
<1>3. /\ Len(s \o t) = L + M
      /\ \A i \in 1..L : (s \o t)[i] = s[i]
      /\ \A i \in 1..M : (s \o t)[L + i] = t[i]
  BY <1>2, JoinedIs
<1>4. PICK u : u = s \o t
  OBVIOUS
<1>5. \A i \in 1..(L + M - 1) : Before(u[i], u[i + 1])
  <2>1. u = arrived \o net /\ Len(u) = L + M
    BY <1>1, <1>3, <1>4
  <2>2. \A i \in 1..(Len(u) - 1) : Before(u[i], u[i + 1])
    BY <2>1 DEF InOrder, Before
  <2>3. QED BY <2>1, <2>2
<1>6. Sorted
  <2>1. SUFFICES ASSUME NEW i \in 1..(L - 1) PROVE Before(s[i], s[i + 1])
    BY <1>1, <1>2 DEF Sorted
  <2>2. i \in 1..(L + M - 1) /\ i \in 1..L /\ i + 1 \in 1..L
    BY <1>2, <2>1
  <2>3. QED BY <1>3, <1>4, <1>5, <2>2
<1>7. ASSUME NEW n, Spoils(n) PROVE n \in lost \cup {0}
  <2>1. SUFFICES ASSUME s # <<>>, NEW j \in 1..M, ~Before(s[L], t[j]) PROVE FALSE
    BY <1>1, <1>2, <1>7 DEF Spoils, Range
  <2>2. L # 0
    BY <1>2, <2>1
  <2>3. L \in 1..L /\ L \in 1..(L + M - 1) /\ 1 \in 1..M
    BY <1>2, <2>1, <2>2
  <2>4. Before(s[L], t[1])
    BY <1>3, <1>4, <1>5, <2>3
  <2>5. j # 1
    BY <2>1, <2>4
  <2>6. t[1] = t[j] \/ Before(t[1], t[j])
    BY <1>1, <1>2, <2>1, <2>3, <2>5 DEF NetInv, Ordered
  <2>7. Made(s[L]) /\ Made(t[1]) /\ Made(t[j])
    BY <1>1, <1>2, <2>1, <2>3 DEF NetInv, Exchanged, Range
  <2>8. QED BY <2>1, <2>4, <2>6, <2>7, BeforeIs
<1>8. QED BY <1>6, <1>7

\* However many datagrams are lost, and whatever the NALs: as long as none is
\* doubled or overtaken, what the decoder is handed is intact or is made of
\* NALs that lost a datagram, and of no other.
THEOREM DamageStaysContained == LinkSpec => []DamageContained
<1>1. DInv => DamageContained
  <2>1. SUFFICES ASSUME DInv, InOrder, NEW i \in DOMAIN delivered,
                        ~ \E n \in DOMAIN nals : delivered[i] = Intact(n)
                 PROVE  \A k \in DOMAIN delivered[i] : delivered[i][k][1] \in lost \cup {0}
    BY DEF DamageContained
  <2>2. Spoilt(delivered[i])
    BY <2>1, InOrderIs DEF DInv, DeliveredShape
  <2>3. delivered[i] \in Seq(Cell)
    BY <2>1, ElementOfSeq, LenProperties DEF DInv, BufferType
  <2>4. DOMAIN delivered[i] = 1..Len(delivered[i])
    BY <2>3, LenProperties
  <2>5. QED BY <2>1, <2>2, <2>4, InOrderIs DEF DInv, Spoilt, Sources
<1>2. QED BY <1>1, DamageHolds, PTL

-----------------------------------------------------------------------------
(***************************************************************************)
(* A network without faults: the link is a FIFO.                           *)
(***************************************************************************)
\* The network loses, doubles and reorders nothing.
NoFaults == MaxLosses = 0 /\ MaxDups = 0 /\ Overtake = 0

\* e is the next datagram after d.
Follows(d, e) ==
  IF Complete(d) THEN e.nal = d.nal + 1 /\ First(e)
                 ELSE e.nal = d.nal /\ e.from = d.to

\* The sender goes on where d ends.
Ends(d) ==
  IF Complete(d) THEN d.nal = Sent /\ ~Partial
                 ELSE d.nal = Sent + 1 /\ Partial /\ d.to = data

\* The datagrams on the way carry on from what decode_frame has delivered and
\* holds to where the sender is.
LineShape ==
  /\ \A k \in 1..(Len(net) - 1) : Follows(net[k], net[k + 1])
  /\ IF net = <<>>
       THEN Len(delivered) = Sent /\ (Partial => Holds(Sent + 1, data))
       ELSE /\ Ends(net[Len(net)]) /\ net[1].nal = Len(delivered) + 1
            /\ First(net[1]) \/ Holds(net[1].nal, net[1].from)

QInv == /\ NoFaults /\ losses = 0 /\ dups = 0
        /\ NetInv /\ BufferType /\ LineShape

LEMMA HoldsKept ==
  ASSUME Grown, nal_buffer' = nal_buffer, NEW n \in DOMAIN nals, NEW to, Holds(n, to)
  PROVE  Holds(n, to)'
<1>1. nals'[n] = nals[n]
  BY DEF Grown
<1>2. QED BY <1>1 DEF Holds, Reads, HeaderSize

LEMMA FollowsKept ==
  ASSUME Grown, NEW d, Made(d), NEW e, Made(e), Follows(d, e)
  PROVE  Follows(d, e)'
BY MadeKept DEF Follows

LEMMA SentIs ==
  ASSUME NetInv
  PROVE  Sent \in Nat /\ Sent <= Len(nals) /\ (Partial => Sent + 1 \in DOMAIN nals)
<1>1. Sent \in Nat /\ Sent <= Len(nals)
  BY CountersAre DEF NetInv, SenderInv
<1>2. ASSUME Partial PROVE Sent + 1 \in DOMAIN nals
  <2>1. pc = "fragment" /\ stream # <<>>
    BY <1>2 DEF Partial, NetInv, SenderInv, IInv, StreamShape
  <2>2. Sent + 1 <= Len(nals) /\ Len(nals) \in Nat
    BY <2>1, CountersAre, LenProperties DEF NetInv, SenderInv, IInv, TypeOK
  <2>3. DOMAIN nals = 1..Len(nals)
    BY LenProperties DEF NetInv, SenderInv, IInv, TypeOK
  <2>4. QED BY <1>1, <2>2, <2>3
<1>3. QED BY <1>1, <1>2

\* net as a value.
LEMMA NetIs ==
  ASSUME NetInv
  PROVE  \E s \in Seq(Datagram), m \in Nat :
           /\ s = net /\ m = Len(s) /\ DOMAIN s = 1..m
           /\ \A k \in 1..m : Made(s[k]) /\ s[k] \in Datagram
<1>1. PICK s \in Seq(Datagram) : s = net
  BY DEF NetInv, SenderInv, IInv, TypeOK
<1>2. PICK m \in Nat : m = Len(s) /\ DOMAIN s = 1..m
  BY LenProperties
<1>3. \A k \in 1..m : s[k] \in Exchanged
  BY <1>1, <1>2 DEF Exchanged, Range
<1>4. \A k \in 1..m : Made(s[k]) /\ s[k] \in Datagram
  BY <1>3 DEF NetInv, Made
<1>5. QED BY <1>1, <1>2, <1>4

\* LineShape after a step, told of values.
LEMMA LineIs ==
  ASSUME NEW t, t = net', NEW m \in Nat, m = Len(t),
         \A k \in 1..(m - 1) : Follows(t[k], t[k + 1])',
         t = <<>> => /\ Len(delivered') = Sent'
                     /\ Partial' => \E n, to : /\ n = Sent' + 1 /\ to = data'
                                               /\ Holds(n, to)',
         t # <<>> => \E d, l : /\ d = t[1] /\ l = t[m] /\ Ends(l)'
                               /\ d.nal = Len(delivered') + 1
                               /\ First(d)' \/ Holds(d.nal, d.from)'
  PROVE  LineShape'
<1>1. \A k \in 1..(Len(net') - 1) : Follows(t[k], t[k + 1])'
  OBVIOUS
<1>2. CASE t = <<>>
  BY <1>1, <1>2 DEF LineShape, Follows, First, Complete, Holds, Reads, HeaderSize
<1>3. CASE t # <<>>
  <2>1. PICK d, l : /\ d = t[1] /\ l = t[m] /\ Ends(l)'
                    /\ d.nal = Len(delivered') + 1
                    /\ First(d)' \/ Holds(d.nal, d.from)'
    BY <1>3
  <2>2. QED
    BY <1>1, <1>3, <2>1
    DEF LineShape, Follows, Ends, First, Complete, Holds, Reads, HeaderSize
<1>4. QED BY <1>2, <1>3

LEMMA LineQuiet ==
  ASSUME NetInv, LineShape, Quiet, UNCHANGED <<nal_buffer, delivered>>
  PROVE  LineShape'
<1>1. PICK s \in Seq(Datagram), m \in Nat :
        /\ s = net /\ m = Len(s) /\ DOMAIN s = 1..m
        /\ \A k \in 1..m : Made(s[k]) /\ s[k] \in Datagram
  BY NetIs
<1>2. /\ s = net' /\ Sent' = Sent /\ Partial' = Partial /\ (Partial => data' = data)
      /\ Grown /\ delivered' = delivered /\ nal_buffer' = nal_buffer
  BY <1>1 DEF Quiet
<1>3. ASSUME NEW k \in 1..(m - 1) PROVE Follows(s[k], s[k + 1])'
  <2>1. k \in 1..m /\ k + 1 \in 1..m
    OBVIOUS
  <2>2. Follows(s[k], s[k + 1])
    BY <1>1 DEF LineShape
  <2>3. PICK d, e : d = s[k] /\ e = s[k + 1] /\ Made(d) /\ Made(e)
    BY <1>1, <2>1
  <2>4. Follows(d, e)'
    BY <1>2, <2>2, <2>3, FollowsKept
  <2>5. QED BY <2>3, <2>4 DEF Follows, First, Complete, HeaderSize
<1>4. ASSUME s = <<>>
      PROVE  /\ Len(delivered') = Sent'
             /\ Partial' => \E n, to : n = Sent' + 1 /\ to = data' /\ Holds(n, to)'
  <2>1. Len(delivered) = Sent /\ (Partial => Holds(Sent + 1, data))
    BY <1>1, <1>4 DEF LineShape
  <2>2. ASSUME Partial
        PROVE  \E n, to : n = Sent' + 1 /\ to = data' /\ Holds(n, to)'
    <3>1. PICK n, to : n = Sent + 1 /\ to = data /\ n \in DOMAIN nals
      BY <2>2, SentIs
    <3>2. Holds(n, to)'
      BY <1>2, <2>1, <2>2, <3>1, HoldsKept
    <3>3. QED BY <1>2, <2>2, <3>1, <3>2
  <2>3. QED BY <1>2, <2>1, <2>2
<1>5. ASSUME s # <<>>
      PROVE  \E d, l : /\ d = s[1] /\ l = s[m] /\ Ends(l)'
                       /\ d.nal = Len(delivered') + 1
                       /\ First(d)' \/ Holds(d.nal, d.from)'
  <2>1. 1 \in 1..m /\ m \in 1..m
    BY <1>1, <1>5
  <2>2. PICK d, l : d = s[1] /\ l = s[m] /\ Made(d) /\ Made(l)
    BY <1>1, <2>1
  <2>3. /\ Ends(l) /\ d.nal = Len(delivered) + 1
        /\ First(d) \/ Holds(d.nal, d.from)
    BY <1>1, <1>5, <2>2 DEF LineShape
  <2>4. Ends(l)'
    <3>1. Complete(l)' <=> Complete(l)
      BY <1>2, <2>2, MadeKept
    <3>2. QED BY <1>2, <2>3, <3>1 DEF Ends
  <2>5. First(d)' \/ Holds(d.nal, d.from)'
    <3>1. First(d)' <=> First(d)
      BY <1>2, <2>2, MadeKept
    <3>2. PICK n, to : n = d.nal /\ to = d.from /\ n \in DOMAIN nals
      BY <2>2 DEF Made
    <3>3. Holds(n, to) => Holds(n, to)'
      BY <1>2, <3>2, HoldsKept
    <3>4. Holds(d.nal, d.from) => Holds(d.nal, d.from)'
      BY <3>2, <3>3 DEF Holds, Reads, HeaderSize
    <3>5. QED BY <2>3, <3>1, <3>4
  <2>6. QED BY <1>2, <2>2, <2>3, <2>4, <2>5
<1>6. QED BY <1>1, <1>2, <1>3, <1>4, <1>5, LineIs

LEMMA LineCarried ==
  ASSUME NetInv, LineShape, NEW d, Carried(d), UNCHANGED <<nal_buffer, delivered>>
  PROVE  LineShape'
<1>1. PICK s \in Seq(Datagram), m \in Nat :
        /\ s = net /\ m = Len(s) /\ DOMAIN s = 1..m
        /\ \A k \in 1..m : Made(s[k]) /\ s[k] \in Datagram
  BY NetIs
<1>2. /\ Carries(d) /\ Made(d) /\ d \in Datagram /\ d.nal = Sent + 1 /\ Sent \in Nat
      /\ d.from = IF Partial THEN data ELSE HeaderSize(nals[d.nal])
      /\ nals' = nals /\ Grown
  BY DEF Carried, Carries, Made, Grown
<1>3. PICK t : t = net' /\ t = Append(s, d)
  BY <1>1 DEF Carried, Carries
<1>4. /\ t \in Seq(Datagram) /\ Len(t) = m + 1 /\ t[m + 1] = d
      /\ \A k \in 1..m : t[k] = s[k]
  BY <1>1, <1>2, <1>3, AppendProperties
<1>5. Complete(d)' <=> Complete(d)
  BY <1>2, MadeKept
<1>6. Ends(d)'
  BY <1>2, <1>5 DEF Carries, Ends
<1>7. s # <<>> => Ends(s[m]) /\ m \in 1..m
  BY <1>1 DEF LineShape
<1>8. ASSUME NEW k \in 1..((m + 1) - 1) PROVE Follows(t[k], t[k + 1])'
  <2>1. PICK c, e : c = t[k] /\ e = t[k + 1]
    OBVIOUS
  <2>2. Made(c) /\ Made(e) /\ Follows(c, e)
    <3>1. CASE k = m
      <4>1. c = s[m] /\ e = d /\ m \in 1..m
        BY <1>1, <1>4, <1>8, <2>1, <3>1
      <4>2. s # <<>>
        BY <1>1, <1>8, <3>1
      <4>3. Ends(c)
        BY <1>7, <4>1, <4>2
      <4>4. Follows(c, e)
        BY <1>2, <4>1, <4>3 DEF Ends, Follows, First
      <4>5. QED BY <1>1, <1>2, <4>1, <4>4
    <3>2. CASE k # m
      <4>1. k \in 1..(m - 1) /\ k \in 1..m /\ k + 1 \in 1..m
        BY <1>8, <3>2
      <4>2. Follows(s[k], s[k + 1])
        BY <1>1, <4>1 DEF LineShape
      <4>3. QED BY <1>1, <1>4, <2>1, <4>1, <4>2
    <3>3. QED BY <3>1, <3>2
  <2>3. Follows(c, e)'
    BY <1>2, <2>2, FollowsKept
  <2>4. QED BY <2>1, <2>3 DEF Follows, First, Complete, HeaderSize
<1>9. PICK a : a = t[1]
  OBVIOUS
<1>10. a.nal = Len(delivered') + 1 /\ (First(a)' \/ Holds(a.nal, a.from)')
  <2>1. Made(a) /\ a.nal = Len(delivered) + 1 /\ (First(a) \/ Holds(a.nal, a.from))
    <3>1. CASE s = <<>>
      <4>1. m = 0 /\ a = d
        BY <1>1, <1>4, <1>9, <3>1
      <4>2. Len(delivered) = Sent /\ (Partial => Holds(Sent + 1, data))
        BY <1>1, <3>1 DEF LineShape
      <4>3. QED BY <1>2, <4>1, <4>2 DEF First
    <3>2. CASE s # <<>>
      <4>1. 1 \in 1..m /\ a = s[1]
        BY <1>1, <1>4, <1>9, <3>2
      <4>2. QED BY <1>1, <3>2, <4>1 DEF LineShape
    <3>3. QED BY <3>1, <3>2
  <2>2. First(a)' <=> First(a)
    BY <1>2, <2>1, MadeKept
  <2>3. PICK n, to : n = a.nal /\ to = a.from /\ n \in DOMAIN nals
    BY <2>1 DEF Made
  <2>4. Holds(n, to) => Holds(n, to)'
    BY <1>2, <2>3, HoldsKept
  <2>5. Holds(a.nal, a.from) => Holds(a.nal, a.from)'
    BY <2>3, <2>4 DEF Holds, Reads, HeaderSize
  <2>6. QED BY <2>1, <2>2, <2>5
<1>11. t # <<>> /\ m + 1 \in Nat
  BY <1>4
<1>12. QED BY <1>3, <1>4, <1>6, <1>8, <1>9, <1>10, <1>11, LineIs

\* The first datagram on the way is taken: it fits, and what is delivered, if
\* anything is, is its NAL, which is the next one.
LEMMA FirstFits ==
  ASSUME NetInv, BufferType, LineShape, Taken(1)
  PROVE  \E d, x : /\ d = net[1] /\ Made(d) /\ Becomes(d, x)
                   /\ First(d) \/ Holds(d.nal, d.from)
                   /\ d.nal = Len(delivered) + 1
<1>1. PICK s \in Seq(Datagram), m \in Nat :
        /\ s = net /\ m = Len(s) /\ DOMAIN s = 1..m
        /\ \A k \in 1..m : Made(s[k]) /\ s[k] \in Datagram
  BY NetIs
<1>2. 1 \in 1..m /\ s # <<>>
  BY <1>1 DEF Taken, Fetched
<1>3. PICK d : d = s[1] /\ Made(d)
  BY <1>1, <1>2
<1>4. PICK x : Becomes(d, x)
  <2>1. Decode(Truncate(d))
    BY <1>1, <1>3 DEF Taken, Fetched
  <2>2. TypeOK /\ nal_buffer \in Seq(Cell)
    BY DEF NetInv, SenderInv, IInv, BufferType
  <2>3. QED BY <1>3, <2>1, <2>2, DecodeIs
<1>5. /\ First(d) \/ Holds(d.nal, d.from)
      /\ d.nal = Len(delivered) + 1
  BY <1>1, <1>2, <1>3 DEF LineShape
<1>6. QED BY <1>1, <1>3, <1>4, <1>5

LEMMA LineTaken ==
  ASSUME NetInv, BufferType, LineShape, Taken(1)
  PROVE  LineShape'
<1>1. PICK s \in Seq(Datagram), m \in Nat :
        /\ s = net /\ m = Len(s) /\ DOMAIN s = 1..m
        /\ \A k \in 1..m : Made(s[k]) /\ s[k] \in Datagram
  BY NetIs
<1>2. 1 \in DOMAIN s /\ 1 \in 1..m /\ m \in 1..m /\ s # <<>>
  BY <1>1 DEF Taken, Fetched
<1>3. PICK d, x : /\ d = s[1] /\ Made(d) /\ Becomes(d, x)
                  /\ First(d) \/ Holds(d.nal, d.from)
                  /\ d.nal = Len(delivered) + 1
  BY <1>1, FirstFits
<1>4. SenderStill /\ Grown
  BY DEF Taken, Fetched, SenderStill, Grown
<1>5. Outcome(d)' /\ (Complete(d)' <=> Complete(d))
  BY <1>3, <1>4, OutcomeOf, MadeKept
<1>6. PICK D \in Nat : D = Len(delivered)
  BY LenProperties DEF BufferType
<1>7. Len(delivered') = IF Complete(d) THEN D + 1 ELSE D
  BY <1>3, <1>6, AppendProperties DEF Becomes, BufferType
<1>8. PICK t : t = net' /\ t = RemoveAt(s, 1)
  BY <1>1 DEF Taken, Fetched
<1>9. PICK n \in Nat : n = m - 1
  BY <1>2
<1>10. /\ t \in Seq(Datagram) /\ Len(t) = n
       /\ \A k \in 1..n : t[k] = s[k + 1]
  <2>1. /\ RemoveAt(s, 1) \in Seq(Datagram) /\ Len(RemoveAt(s, 1)) = m - 1
        /\ \A k \in 1..(m - 1) : RemoveAt(s, 1)[k] = IF k < 1 THEN s[k] ELSE s[k + 1]
    BY <1>1, <1>2, RemoveAtIs
  <2>2. \A k \in 1..n : ~(k < 1)
    OBVIOUS
  <2>3. QED BY <1>8, <1>9, <2>1, <2>2
<1>11. ASSUME NEW k \in 1..(n - 1) PROVE Follows(t[k], t[k + 1])'
  <2>1. /\ k \in 1..n /\ k + 1 \in 1..n /\ k + 1 \in 1..(m - 1)
        /\ k + 1 \in 1..m /\ (k + 1) + 1 \in 1..m
    BY <1>9
  <2>2. PICK c, e : c = s[k + 1] /\ e = s[(k + 1) + 1] /\ Made(c) /\ Made(e)
    BY <1>1, <2>1
  <2>3. Follows(s[k + 1], s[(k + 1) + 1])
    BY <1>1, <2>1 DEF LineShape
  <2>4. Follows(c, e)'
    BY <1>4, <2>2, <2>3, FollowsKept
  <2>5. c = t[k] /\ e = t[k + 1]
    BY <1>10, <2>1, <2>2
  <2>6. QED BY <2>4, <2>5 DEF Follows, First, Complete, HeaderSize
<1>12. PICK l : l = s[m] /\ Made(l) /\ Ends(l)
  BY <1>1, <1>2 DEF LineShape
<1>13. ASSUME t = <<>>
       PROVE  /\ Len(delivered') = Sent'
              /\ Partial' => \E a, to : a = Sent' + 1 /\ to = data' /\ Holds(a, to)'
  <2>1. n = 0 /\ m = 1 /\ l = d
    BY <1>2, <1>3, <1>9, <1>10, <1>12, <1>13
  <2>2. Sent \in Nat
    BY SentIs
  <2>3. CASE Complete(d)
    <3>1. d.nal = Sent /\ ~Partial
      BY <1>12, <2>1, <2>3 DEF Ends
    <3>2. QED BY <1>3, <1>4, <1>6, <1>7, <2>3, <3>1 DEF SenderStill
  <2>4. CASE ~Complete(d)
    <3>1. d.nal = Sent + 1 /\ d.to = data
      BY <1>12, <2>1, <2>4 DEF Ends
    <3>2. PICK a, to : a = d.nal /\ to = d.to
      OBVIOUS
    <3>3. Holds(a, to)'
      BY <1>5, <2>4, <3>2 DEF Outcome, Holds, Reads, HeaderSize
    <3>4. D = Sent
      BY <1>3, <1>6, <2>2, <3>1
    <3>5. QED BY <1>4, <1>7, <2>4, <3>1, <3>2, <3>3, <3>4 DEF SenderStill
  <2>5. QED BY <2>3, <2>4
<1>14. ASSUME t # <<>>
       PROVE  \E a, b : /\ a = t[1] /\ b = t[n] /\ Ends(b)'
                        /\ a.nal = Len(delivered') + 1
                        /\ First(a)' \/ Holds(a.nal, a.from)'
  <2>1. /\ 1 \in 1..n /\ n \in 1..n /\ 1 \in 1..(m - 1) /\ 1 + 1 \in 1..m
        /\ n + 1 = m
    BY <1>1, <1>9, <1>10, <1>14
  <2>2. t[n] = l
    BY <1>10, <1>12, <2>1
  <2>3. Ends(l)'
    <3>1. Complete(l)' <=> Complete(l)
      BY <1>4, <1>12, MadeKept
    <3>2. QED BY <1>4, <1>12, <3>1 DEF Ends, SenderStill
  <2>4. PICK a : a = t[1] /\ a = s[1 + 1] /\ Made(a)
    BY <1>1, <1>10, <2>1
  <2>5. Follows(d, a)
    BY <1>1, <1>3, <2>1, <2>4 DEF LineShape
  <2>6. First(a)' <=> First(a)
    BY <1>4, <2>4, MadeKept
  <2>7. CASE Complete(d)
    <3>1. a.nal = d.nal + 1 /\ First(a)
      BY <2>5, <2>7 DEF Follows
    <3>2. a.nal = Len(delivered') + 1
      BY <1>3, <1>6, <1>7, <2>7, <3>1
    <3>3. QED BY <2>2, <2>3, <2>4, <2>6, <3>1, <3>2
  <2>8. CASE ~Complete(d)
    <3>1. a.nal = d.nal /\ a.from = d.to
      BY <2>5, <2>8 DEF Follows
    <3>2. a.nal = Len(delivered') + 1
      BY <1>3, <1>6, <1>7, <2>8, <3>1
    <3>3. Holds(a.nal, a.from)'
      BY <1>5, <2>8, <3>1 DEF Outcome, Holds, Reads, HeaderSize
    <3>4. QED BY <2>2, <2>3, <2>4, <3>2, <3>3
  <2>9. QED BY <2>7, <2>8
<1>15. QED BY <1>8, <1>10, <1>11, <1>13, <1>14, LineIs

\* Without faults the sender sends or the first datagram is taken.
LEMMA FaultlessStep ==
  ASSUME QInv, [LinkNext]_linkVars
  PROVE  /\ QInv'
         /\ \/ (Send \/ UNCHANGED linkVars) /\ UNCHANGED <<nal_buffer, delivered>>
            \/ Taken(1)
<1>1. /\ NoFaults /\ losses = 0 /\ dups = 0 /\ NetInv /\ BufferType /\ LineShape
      /\ NoFaults'
  BY DEF QInv, NoFaults
<1>2. CASE Send \/ UNCHANGED linkVars
  <2>1. /\ NetInv' /\ (Quiet \/ \E d : Carried(d))
        /\ UNCHANGED <<nal_buffer, delivered, arrived>>
    BY <1>1, <1>2, SendStep
  <2>2. LineShape'
    BY <1>1, <2>1, LineQuiet, LineCarried
  <2>3. losses' = 0 /\ dups' = 0
    BY <1>1, <1>2 DEF Send, faultVars, linkVars
  <2>4. BufferType'
    BY <1>1, <2>1 DEF BufferType
  <2>5. QED BY <1>1, <1>2, <2>1, <2>2, <2>3, <2>4 DEF QInv
<1>3. CASE Receive
  <2>1. PICK i : NetInv' /\ Taken(i) /\ i <= Overtake + 1
    BY <1>1, <1>3, ReceiveStep
  <2>2. Taken(1)
    <3>1. net \in Seq(Datagram)
      BY <1>1 DEF NetInv, SenderInv, IInv, TypeOK
    <3>2. i \in 1..Len(net) /\ Len(net) \in Nat
      BY <2>1, <3>1, LenProperties DEF Taken, Fetched
    <3>3. i = 1
      BY <1>1, <2>1, <3>2 DEF NoFaults
    <3>4. QED BY <2>1, <3>3
  <2>3. LineShape'
    BY <1>1, <2>2, LineTaken
  <2>4. BufferType'
    <3>1. PICK d, x : Becomes(d, x)
      BY <1>1, <2>2, FirstFits
    <3>2. QED BY <1>1, <3>1, BuffersTaken
  <2>5. losses' = 0 /\ dups' = 0
    BY <1>1, <1>3 DEF Receive, faultVars
  <2>6. QED BY <1>1, <2>1, <2>2, <2>3, <2>4, <2>5 DEF QInv
<1>4. ~Lose /\ ~Duplicate
  BY <1>1 DEF Lose, Duplicate, NoFaults
<1>5. QED BY <1>2, <1>3, <1>4 DEF LinkNext

\* The NALs of ns after the first D, as bytes.
AllNals == {AnnexB(n, p) : n \in Nat, p \in Packs}
Waiting(ns, D) == [i \in 1..(Len(ns) - D) |-> AnnexB(D + i, ns[D + i])]

LEMMA ListAppended ==
  ASSUME NEW S, NEW m \in Nat, NEW s \in [1..m -> S], NEW t \in [1..(m + 1) -> S],
         \A k \in 1..m : t[k] = s[k]
  PROVE  t = Append(s, t[m + 1])
<1>1. s \in Seq(S) /\ Len(s) = m /\ t \in Seq(S) /\ Len(t) = m + 1 /\ m + 1 \in 1..(m + 1)
  BY ListIs
<1>2. PICK u : u = Append(s, t[m + 1])
  OBVIOUS
<1>3. /\ u \in Seq(S) /\ Len(u) = m + 1 /\ u[m + 1] = t[m + 1]
      /\ \A k \in 1..m : u[k] = s[k]
  BY <1>1, <1>2, AppendProperties
<1>4. \A k \in 1..(m + 1) : k \in 1..m \/ k = m + 1
  OBVIOUS
<1>5. \A k \in 1..(m + 1) : t[k] = u[k]
  BY <1>3, <1>4
<1>6. DOMAIN u = 1..(m + 1) /\ DOMAIN t = 1..(m + 1)
  BY <1>3, LenProperties
<1>7. u \in [1..(m + 1) -> S]
  BY <1>3, LenProperties
<1>8. t = u
  BY <1>5, <1>7
<1>9. QED BY <1>2, <1>8

LEMMA ListTail ==
  ASSUME NEW S, NEW m \in Nat, NEW s \in [1..(m + 1) -> S], NEW t \in [1..m -> S],
         \A k \in 1..m : t[k] = s[k + 1]
  PROVE  s # <<>> /\ Head(s) = s[1] /\ t = Tail(s)
<1>1. s \in Seq(S) /\ Len(s) = m + 1 /\ t \in Seq(S) /\ Len(t) = m
  BY ListIs
<1>2. s # <<>> /\ Head(s) = s[1]
  BY <1>1
<1>3. PICK u : u = Tail(s)
  OBVIOUS
<1>4. /\ u \in Seq(S) /\ Len(u) = m /\ \A k \in 1..m : u[k] = s[k + 1]
  BY <1>1, <1>2, <1>3, HeadTailProperties
<1>5. u \in [1..m -> S]
  BY <1>4, LenProperties
<1>6. t = u
  BY <1>4, <1>5
<1>7. QED BY <1>2, <1>3, <1>6

\* w lists m NALs of ns after the first D.
Lists(w, ns, D, m) ==
  w \in [1..m -> AllNals] /\ \A k \in 1..m : w[k] = AnnexB(D + k, ns[D + k])

LEMMA WaitingIs ==
  ASSUME NEW ns \in Seq(Packs), NEW N \in Nat, N = Len(ns), NEW D \in 0..N,
         NEW m \in Nat, m = N - D
  PROVE  Lists(Waiting(ns, D), ns, D, m)
<1>1. ASSUME NEW k \in 1..m PROVE AnnexB(D + k, ns[D + k]) \in AllNals
  <2>1. PICK n \in Nat : n = D + k /\ n \in 1..N
    BY <1>1
  <2>2. ns[n] \in Packs
    BY <2>1, ElementOfSeq
  <2>3. AnnexB(n, ns[n]) \in AllNals
    BY <2>2 DEF AllNals
  <2>4. QED BY <2>1, <2>3
<1>2. Waiting(ns, D) = [k \in 1..m |-> AnnexB(D + k, ns[D + k])]
  BY DEF Waiting
<1>3. PICK w : w = Waiting(ns, D)
  OBVIOUS
<1>4. w \in [1..m -> AllNals]
  BY <1>1, <1>2, <1>3
<1>5. \A k \in 1..m : w[k] = AnnexB(D + k, ns[D + k])
  BY <1>2, <1>3
<1>6. QED BY <1>3, <1>4, <1>5 DEF Lists

LEMMA WaitingGrows ==
  ASSUME NEW ns \in Seq(Packs), NEW N \in Nat, N = Len(ns), NEW D \in 0..N,
         NEW p \in Packs
  PROVE  Waiting(Append(ns, p), D) = Append(Waiting(ns, D), AnnexB(N + 1, p))
<1>1. PICK us : us = Append(ns, p)
  OBVIOUS
<1>2. /\ us \in Seq(Packs) /\ Len(us) = N + 1 /\ us[N + 1] = p
      /\ \A n \in 1..N : us[n] = ns[n]
  BY <1>1, AppendProperties
<1>3. PICK m \in Nat : m = N - D
  <2>1. N - D \in Nat
    OBVIOUS
  <2>2. QED BY <2>1
<1>4. PICK s, t : s = Waiting(ns, D) /\ t = Waiting(us, D)
  OBVIOUS
<1>5. s \in [1..m -> AllNals] /\ \A k \in 1..m : s[k] = AnnexB(D + k, ns[D + k])
  <2>1. Lists(s, ns, D, m)
    BY <1>3, <1>4, WaitingIs
  <2>2. QED BY <2>1 DEF Lists
<1>6. /\ t \in [1..(m + 1) -> AllNals]
      /\ \A k \in 1..(m + 1) : t[k] = AnnexB(D + k, us[D + k])
  <2>1. PICK M \in Nat, l \in Nat :
          M = Len(us) /\ D \in 0..M /\ l = m + 1 /\ l = M - D
    <3>1. N + 1 \in Nat /\ m + 1 \in Nat /\ D \in 0..(N + 1) /\ m + 1 = (N + 1) - D
      BY <1>3
    <3>2. QED BY <1>2, <3>1
  <2>2. Lists(t, us, D, l)
    BY <1>2, <1>4, <2>1, WaitingIs
  <2>3. QED BY <2>1, <2>2 DEF Lists
<1>7. ASSUME NEW k \in 1..m PROVE t[k] = s[k]
  <2>1. k \in 1..(m + 1) /\ D + k \in 1..N
    BY <1>3, <1>7
  <2>2. us[D + k] = ns[D + k]
    BY <1>2, <2>1
  <2>3. QED BY <1>5, <1>6, <1>7, <2>1, <2>2
<1>8. t = Append(s, t[m + 1])
  BY <1>5, <1>6, <1>7, ListAppended
<1>9. t[m + 1] = AnnexB(N + 1, p)
  <2>1. m + 1 \in 1..(m + 1) /\ D + (m + 1) = N + 1
    BY <1>3
  <2>2. QED BY <1>2, <1>6, <2>1
<1>10. QED BY <1>1, <1>4, <1>8, <1>9

LEMMA WaitingShrinks ==
  ASSUME NEW ns \in Seq(Packs), NEW N \in Nat, N = Len(ns), NEW D \in Nat, D + 1 <= N
  PROVE  /\ Waiting(ns, D) # <<>>
         /\ Head(Waiting(ns, D)) = AnnexB(D + 1, ns[D + 1])
         /\ Waiting(ns, D + 1) = Tail(Waiting(ns, D))
<1>1. PICK m \in Nat : m = N - (D + 1) /\ m + 1 = N - D
  <2>1. N - (D + 1) \in Nat
    OBVIOUS
  <2>2. QED BY <2>1
<1>2. PICK s, t : s = Waiting(ns, D) /\ t = Waiting(ns, D + 1)
  OBVIOUS
<1>3. /\ s \in [1..(m + 1) -> AllNals]
      /\ \A k \in 1..(m + 1) : s[k] = AnnexB(D + k, ns[D + k])
  <2>1. PICK l \in Nat : l = m + 1 /\ l = N - D
    <3>1. m + 1 \in Nat
      OBVIOUS
    <3>2. QED BY <1>1, <3>1
  <2>2. D \in 0..N
    OBVIOUS
  <2>3. Lists(s, ns, D, l)
    BY <1>2, <2>1, <2>2, WaitingIs
  <2>4. QED BY <2>1, <2>3 DEF Lists
<1>4. /\ t \in [1..m -> AllNals]
      /\ \A k \in 1..m : t[k] = AnnexB((D + 1) + k, ns[(D + 1) + k])
  <2>1. PICK E \in 0..N : E = D + 1 /\ m = N - E
    <3>1. D + 1 \in 0..N
      OBVIOUS
    <3>2. QED BY <1>1, <3>1
  <2>2. Lists(t, ns, E, m)
    BY <1>2, <2>1, WaitingIs
  <2>3. QED BY <2>1, <2>2 DEF Lists
<1>5. ASSUME NEW k \in 1..m PROVE t[k] = s[k + 1]
  <2>1. k + 1 \in 1..(m + 1) /\ D + (k + 1) = (D + 1) + k
    BY <1>5
  <2>2. s[k + 1] = AnnexB(D + (k + 1), ns[D + (k + 1)])
    BY <1>3, <2>1
  <2>3. t[k] = AnnexB((D + 1) + k, ns[(D + 1) + k])
    BY <1>4, <1>5
  <2>4. QED BY <2>1, <2>2, <2>3
<1>6. s # <<>> /\ Head(s) = s[1] /\ t = Tail(s)
  BY <1>3, <1>4, <1>5, ListTail
<1>7. s[1] = AnnexB(D + 1, ns[D + 1])
  <2>1. 1 \in 1..(m + 1)
    OBVIOUS
  <2>2. QED BY <1>3, <2>1
<1>8. QED BY <1>2, <1>6, <1>7

\* At most as many are delivered as were encoded.
LEMMA DeliveredIs ==
  ASSUME QInv
  PROVE  \E D \in Nat, N \in Nat :
           D = Len(delivered) /\ N = Len(nals) /\ D <= N /\ nals \in Seq(Packs)
<1>1. PICK s \in Seq(Datagram), m \in Nat :
        /\ s = net /\ m = Len(s) /\ DOMAIN s = 1..m
        /\ \A k \in 1..m : Made(s[k]) /\ s[k] \in Datagram
  BY NetIs DEF QInv
<1>2. PICK D \in Nat, N \in Nat :
        D = Len(delivered) /\ N = Len(nals) /\ nals \in Seq(Packs) /\ DOMAIN nals = 1..N
  BY LenProperties DEF QInv, BufferType, NetInv, SenderInv, IInv, TypeOK
<1>3. CASE s = <<>>
  <2>1. D = Sent
    BY <1>1, <1>2, <1>3 DEF QInv, LineShape
  <2>2. D <= N
    BY <1>2, <2>1, SentIs DEF QInv
  <2>3. QED BY <1>2, <2>2
<1>4. CASE s # <<>>
  <2>1. 1 \in 1..m
    BY <1>1, <1>4
  <2>2. s[1].nal = D + 1 /\ s[1].nal \in DOMAIN nals
    BY <1>1, <1>2, <1>4, <2>1 DEF QInv, LineShape, Made
  <2>3. D <= N
    BY <1>2, <2>2
  <2>4. QED BY <1>2, <2>3
<1>5. QED BY <1>3, <1>4

\* The queue of NalFifo, before and after a step.
LEMMA QueueIs ==
  /\ [i \in 1..(Len(nals) - Len(delivered)) |-> Intact(Len(delivered) + i)]
       = Waiting(nals, Len(delivered))
  /\ [i \in 1..(Len(nals) - Len(delivered)) |-> Intact(Len(delivered) + i)]'
       = Waiting(nals', Len(delivered'))
BY DEF Waiting, Intact

\* What is encoded is produced.
LEMMA SendIsFifo ==
  ASSUME QInv, Send \/ UNCHANGED linkVars
  PROVE  [Fifo!Next]_(Fifo!fifoVars)
<1>1. PICK D \in Nat, N \in Nat :
        D = Len(delivered) /\ N = Len(nals) /\ D <= N /\ nals \in Seq(Packs)
  BY DeliveredIs
<1>2. delivered' = delivered
  BY DEF Send, linkVars
<1>3. CASE nals' = nals
  BY <1>2, <1>3 DEF Fifo!fifoVars, Intact
<1>4. CASE \E p \in Packs : Encode(p)
  <2>1. PICK p \in Packs : Len(nals) < MaxNals /\ nals' = Append(nals, p)
    BY <1>4 DEF Encode
  <2>2. PICK x : x = AnnexB(N + 1, p)
    OBVIOUS
  <2>3. x \in {AnnexB(n, q) : n \in 1..MaxNals, q \in Packs}
    <3>1. N + 1 \in 1..MaxNals
      BY <1>1, <2>1, SenderAssumption DEF SenderConstants
    <3>2. QED BY <2>2, <3>1
  <2>4. Waiting(nals', D) = Append(Waiting(nals, D), x)
    <3>1. D \in 0..N
      BY <1>1
    <3>2. QED BY <1>1, <2>1, <2>2, <3>1, WaitingGrows
  <2>5. Fifo!Produce(x)
    BY <1>1, <1>2, <2>4, QueueIs DEF Fifo!Produce, Intact
  <2>6. QED BY <2>3, <2>5 DEF Fifo!Next
<1>5. nals' = nals \/ \E p \in Packs : Encode(p)
  BY DEF Send, Next, Loop, Interrupt, QueryStatus, GetStream, GetStreamFails,
         SendWhole, BeginFragments, SendFragment, ReleaseStream, Stop, Idle,
         senderVars, linkVars, senderRest
<1>6. QED BY <1>3, <1>4, <1>5

\* What is delivered is handed on: it is the oldest NAL not handed on yet.
LEMMA TakenIsFifo ==
  ASSUME QInv, Taken(1)
  PROVE  [Fifo!Next]_(Fifo!fifoVars)
<1>1. PICK D \in Nat, N \in Nat :
        D = Len(delivered) /\ N = Len(nals) /\ D <= N /\ nals \in Seq(Packs)
  BY DeliveredIs
<1>2. PICK d, x : /\ Made(d) /\ Becomes(d, x)
                  /\ First(d) \/ Holds(d.nal, d.from)
                  /\ d.nal = D + 1
  BY <1>1, FirstFits DEF QInv
<1>3. nals' = nals
  BY DEF Taken, Fetched, SenderStill
<1>4. CASE ~Complete(d)
  BY <1>2, <1>3, <1>4 DEF Becomes, Fifo!fifoVars, Intact
<1>5. CASE Complete(d)
  <2>1. delivered' = Append(delivered, x) /\ x = Intact(d.nal) /\ x \in Seq(Cell)
    BY <1>2, <1>5 DEF Becomes
  <2>2. Len(delivered') = D + 1
    BY <1>1, <2>1, AppendProperties DEF QInv, BufferType
  <2>3. D + 1 <= N
    <3>1. D + 1 \in DOMAIN nals
      BY <1>2 DEF Made
    <3>2. DOMAIN nals = 1..N
      BY <1>1, LenProperties
    <3>3. QED BY <3>1, <3>2
  <2>4. x = AnnexB(D + 1, nals[D + 1])
    BY <1>2, <2>1 DEF Intact
  <2>5. /\ Waiting(nals, D) # <<>> /\ Head(Waiting(nals, D)) = x
        /\ Waiting(nals, D + 1) = Tail(Waiting(nals, D))
    BY <1>1, <2>3, <2>4, WaitingShrinks
  <2>6. Fifo!Hand
    BY <1>1, <1>3, <2>1, <2>2, <2>5, QueueIs DEF Fifo!Hand, Intact
  <2>7. QED BY <2>6 DEF Fifo!Next
<1>6. QED BY <1>4, <1>5

LEMMA NextIsFifo == QInv /\ [LinkNext]_linkVars => [Fifo!Next]_(Fifo!fifoVars)
BY FaultlessStep, SendIsFifo, TakenIsFifo

LEMMA InitIsFifo == NoFaults /\ LinkInit => QInv /\ Fifo!Init
<1>1. SUFFICES ASSUME NoFaults, LinkInit PROVE QInv /\ Fifo!Init
  OBVIOUS
<1>2. /\ net = <<>> /\ nals = <<>> /\ delivered = <<>> /\ pc = "query" /\ chn = <<>>
      /\ losses = 0 /\ dups = 0
  BY <1>1 DEF LinkInit, Init, ReceiverInit
<1>3. Sent = 0 /\ ~Partial /\ Len(delivered) = 0
  BY <1>2 DEF Sent, Released, Partial
<1>4. LineShape
  BY <1>2, <1>3 DEF LineShape
<1>5. QInv
  BY <1>1, <1>2, <1>4, NothingSent DEF QInv
<1>6. Fifo!Init
  BY <1>2 DEF Fifo!Init
<1>7. QED BY <1>5, <1>6

\* Where nothing is lost, doubled or reordered, venc's cutting and vdec's joining
\* cancel out: whatever the NALs and max_frame_size, the link implements a FIFO
\* that hands on each NAL byte for byte, in order.
THEOREM LinkImplementsFifo == NoFaults /\ LinkSpec => LinkIsFifo
<1>1. QInv /\ [LinkNext]_linkVars => QInv'
  BY FaultlessStep
<1>2. QED BY <1>1, InitIsFifo, NextIsFifo, PTL DEF LinkSpec, LinkIsFifo, Fifo!Spec
=============================================================================
