---------------------------- MODULE Uart_proofs ----------------------------
(***************************************************************************)
(* Proofs about the serial adaptor: what waits in a sound buffer is made   *)
(* of whole frames, so no read, however it splits or joins them, yields    *)
(* anything but a frame that was offered; what writes that were cut short  *)
(* leave is made of parts of frames, so the type, the command and the      *)
(* length of what it yields are those of one; and a frame that is read     *)
(* whole is handed up as it was given to send().                           *)
(***************************************************************************)
EXTENDS Uart, FiniteSetTheorems, SequenceTheorems, TLAPS

---------------------------------------------------------------------------
(* Two ports. *)

LEMMA TwoPorts == \E a, b \in Ports : a # b /\ Ports = {a, b}
BY UartAssumption

LEMMA Peers ==
    ASSUME NEW p \in Ports
    PROVE  /\ Peer(p) \in Ports /\ Peer(p) # p
           /\ Peer(Peer(p)) = p
           /\ \A q \in Ports : q = p \/ q = Peer(p)
<1>1. PICK a \in Ports, b \in Ports : a # b /\ Ports = {a, b}
  BY TwoPorts
<1>2. \A q \in Ports : \E r \in Ports : r # q
  BY <1>1
<1>3. \A q \in Ports : Peer(q) \in Ports /\ Peer(q) # q
  BY <1>2 DEF Peer
<1> QED BY <1>1, <1>3

---------------------------------------------------------------------------
(* The frame on the line. *)

LEMMA CrcValue == ASSUME NEW s \in Seq(Byte) PROVE Crc(s) \in {0, 128}
<1>1. IsFiniteSet(DOMAIN s) /\ IsFiniteSet(0..7)
  <2>1. DOMAIN s = 1..Len(s) /\ Len(s) \in Int /\ 1 \in Int /\ 0 \in Int /\ 7 \in Int
    BY LenProperties
  <2>2. IsFiniteSet(1..Len(s)) /\ IsFiniteSet(0..7)
    BY <2>1, FS_Interval, Zenon
  <2> QED BY <2>1, <2>2
<1>2. IsFiniteSet((DOMAIN s) \X (0..7))
  BY <1>1, FS_Product
<1>3. Ones(s) \subseteq (DOMAIN s) \X (0..7)
  BY DEF Ones
<1>4. Cardinality(Ones(s)) \in Nat
  BY <1>2, <1>3, FS_Subset, FS_CardinalityType
<1>5. Cardinality(Ones(s)) % 2 \in {0, 1}
  BY <1>4
<1> QED BY <1>5 DEF Crc

\* The messages that reach the line: what send() has room for.
Sent(m) == m \in Msgs /\ Len(m.data) <= 159 /\ m.dest = Platform

\* Two strings of bytes, one behind the other.
LEMMA LaterIndex ==
    ASSUME NEW a \in Nat, NEW b \in Nat, NEW i \in 1..(a + b), i + 1 \in 1..(a + b), i > a
    PROVE  /\ i - a \in 1..b /\ (i - a) + 1 \in 1..b /\ i - a \in Nat /\ i \in Nat
           /\ a + (i - a) = i /\ a + ((i - a) + 1) = i + 1
OBVIOUS

LEMMA AllIndices ==
    ASSUME NEW a \in Nat, NEW b \in Nat
    PROVE  /\ (a + 1) + b - 1 = a + b /\ (a + 1) + b = (a + b) + 1
           /\ \A x \in 1..b : (a + 1) + x - 1 = a + x
OBVIOUS

LEMMA WithinLonger ==
    ASSUME NEW b \in Nat, NEW l \in Nat, b <= l, NEW x \in 1..b
    PROVE  x \in 1..l
OBVIOUS

LEMMA ConcatParts ==
    ASSUME NEW s \in Seq(Byte), NEW t \in Seq(Byte)
    PROVE  /\ Len(s) \in Nat /\ Len(t) \in Nat
           /\ s \o t \in Seq(Byte) /\ Len(s \o t) = Len(s) + Len(t)
           /\ DOMAIN (s \o t) = 1..(Len(s) + Len(t))
           /\ \A i \in 1..Len(s) : (s \o t)[i] = s[i]
           /\ \A i \in 1..Len(t) : (s \o t)[Len(s) + i] = t[i]
<1> DEFINE a == Len(s)
           b == Len(t)
           st == s \o t
<1>1. a \in Nat /\ b \in Nat
  BY LenProperties
<1>2. /\ st \in Seq(Byte) /\ Len(st) = a + b
      /\ \A i \in 1..(a + b) : st[i] = IF i <= a THEN s[i] ELSE t[i - a]
  BY ConcatProperties
<1> HIDE DEF a, b, st
<1>3. DOMAIN st = 1..(a + b)
  BY <1>2, LenProperties
<1>4. ASSUME NEW i \in 1..a PROVE st[i] = s[i]
  <2>1. i \in 1..(a + b) /\ i <= a
    BY <1>1
  <2> QED BY <1>2, <2>1
<1>5. ASSUME NEW i \in 1..b PROVE st[a + i] = t[i]
  <2>1. a + i \in 1..(a + b) /\ ~(a + i <= a) /\ (a + i) - a = i
    BY <1>1
  <2> QED BY <1>2, <2>1
<1> QED BY <1>1, <1>2, <1>3, <1>4, <1>5 DEF a, b, st

LEMMA SmallWord ==
    ASSUME NEW n \in Nat, n <= 255
    PROVE  Word(n) = <<0, n>>
<1>1. n \div 256 = 0 /\ n % 256 = n /\ 0 % 256 = 0
  OBVIOUS
<1> QED BY <1>1 DEF Word

LEMMA Triple ==
    ASSUME NEW S, NEW a \in S, NEW b \in S, NEW c \in S
    PROVE  /\ <<a, b, c>> \in Seq(S) /\ Len(<<a, b, c>>) = 3
           /\ <<a, b, c>>[1] = a /\ <<a, b, c>>[2] = b /\ <<a, b, c>>[3] = c
OBVIOUS

\* The bytes from the length on, without and with the data.
LEMMA CheckedShape ==
    ASSUME NEW m, Sent(m)
    PROVE  /\ Checked(m) \in Seq(Byte) /\ Len(Checked(m)) = Len(m.data) + 5
           /\ Checked(m)[1] = 0 /\ Checked(m)[2] = Len(m.data) + 3
           /\ Checked(m)[3] = m.type /\ Checked(m)[4] = m.cmd /\ Checked(m)[5] = m.id
           /\ \A k \in 1..Len(m.data) : Checked(m)[5 + k] = m.data[k]
<1> DEFINE n == Len(m.data)
           len == <<0, n + 3>>
           fields == <<m.type, m.cmd, m.id>>
           front == len \o fields
<1>1. /\ m.data \in Seq(Byte) /\ n <= 159
      /\ m.type \in Byte /\ m.cmd \in Byte /\ m.id \in Byte
  BY DEF Sent, Msgs
<1>2. n \in Nat
  BY <1>1, LenProperties
<1>3. Len(m.data) = n
  OBVIOUS
<1> HIDE DEF n
<1>4. LengthField(n) = n + 3
  BY <1>2 DEF LengthField, HeadSize, TailSize
<1>5. n + 3 \in Nat /\ n + 3 <= 255
  BY <1>1, <1>2
<1>6. Word(n + 3) = len
  BY <1>5, SmallWord
<1>7. Checked(m) = front \o m.data
  BY <1>3, <1>4, <1>6 DEF Checked
<1>8. 0 \in Byte /\ n + 3 \in Byte
  BY <1>5 DEF Byte
<1>9. len \in Seq(Byte) /\ Len(len) = 2 /\ len[1] = 0 /\ len[2] = n + 3
  BY <1>8
<1>10. /\ fields \in Seq(Byte) /\ Len(fields) = 3
       /\ fields[1] = m.type /\ fields[2] = m.cmd /\ fields[3] = m.id
  BY <1>1, Triple
<1> HIDE DEF len, fields
<1>11. /\ front \in Seq(Byte) /\ Len(front) = 5
       /\ \A i \in 1..2 : front[i] = len[i]
       /\ \A i \in 1..3 : front[2 + i] = fields[i]
  <2>1. /\ front \in Seq(Byte) /\ Len(front) = Len(len) + Len(fields)
        /\ \A i \in 1..Len(len) : front[i] = len[i]
        /\ \A i \in 1..Len(fields) : front[Len(len) + i] = fields[i]
    BY <1>9, <1>10, ConcatParts
  <2> HIDE DEF front
  <2> QED BY <1>9, <1>10, <2>1
<1> HIDE DEF front
<1>12. /\ front[1] = 0 /\ front[2] = n + 3
       /\ front[3] = m.type /\ front[4] = m.cmd /\ front[5] = m.id
  <2>1. /\ front[1] = len[1] /\ front[2] = len[2]
        /\ front[2 + 1] = fields[1] /\ front[2 + 2] = fields[2] /\ front[2 + 3] = fields[3]
    BY <1>11
  <2> QED BY <1>9, <1>10, <2>1
<1> DEFINE c == front \o m.data
<1>13. /\ c \in Seq(Byte) /\ Len(c) = 5 + n
       /\ \A i \in 1..5 : c[i] = front[i]
       /\ \A i \in 1..n : c[5 + i] = m.data[i]
  <2>1. /\ c \in Seq(Byte) /\ Len(c) = Len(front) + Len(m.data)
        /\ \A i \in 1..Len(front) : c[i] = front[i]
        /\ \A i \in 1..Len(m.data) : c[Len(front) + i] = m.data[i]
    BY <1>1, <1>11, ConcatParts
  <2> HIDE DEF c
  <2> QED BY <1>3, <1>11, <2>1
<1> HIDE DEF c
<1>14. Len(c) = n + 5
  BY <1>2, <1>13
<1>15. /\ c[1] = 0 /\ c[2] = n + 3
       /\ c[3] = m.type /\ c[4] = m.cmd /\ c[5] = m.id
  BY <1>12, <1>13
<1>16. Checked(m) = c
  BY <1>7 DEF c
<1> QED BY <1>3, <1>13, <1>14, <1>15, <1>16

LEMMA WireShape ==
    ASSUME NEW m, Sent(m)
    PROVE  /\ Len(m.data) \in Nat /\ Len(m.data) <= 159
           /\ Wire(m) \in Seq(Byte) /\ Len(Wire(m)) = Len(m.data) + 9
           /\ WireLen(m) = Len(m.data) + 9
           /\ Wire(m)[1] = 235 /\ Wire(m)[2] = 144 /\ Wire(m)[3] = Platform
           /\ Wire(m)[4] = 0 /\ Wire(m)[5] = Len(m.data) + 3
           /\ Wire(m)[6] = m.type /\ Wire(m)[7] = m.cmd /\ Wire(m)[8] = m.id
           /\ \A k \in 1..Len(m.data) : Wire(m)[8 + k] = m.data[k]
           /\ Wire(m)[Len(m.data) + 9] \in {0, 128}
<1> DEFINE n == Len(m.data)
           head == <<235, 144, Platform>>
           c == Checked(m)
           crc == <<Crc(c)>>
           most == head \o c
           w == most \o crc
<1>1. m.data \in Seq(Byte) /\ n <= 159
  BY DEF Sent, Msgs
<1>2. n \in Nat
  BY <1>1, LenProperties
<1>3. /\ c \in Seq(Byte) /\ Len(c) = n + 5
      /\ c[1] = 0 /\ c[2] = n + 3
      /\ c[3] = m.type /\ c[4] = m.cmd /\ c[5] = m.id
      /\ \A k \in 1..n : c[5 + k] = m.data[k]
  BY CheckedShape
<1>4. Wire(m) = w /\ Len(m.data) = n
  BY DEF Wire
<1> HIDE DEF n
<1>5. head \in Seq(Byte) /\ Len(head) = 3 /\ head[1] = 235 /\ head[2] = 144 /\ head[3] = Platform
  <2>1. 235 \in Byte /\ 144 \in Byte /\ Platform \in Byte
    BY DEF Byte, Platform
  <2> QED BY <2>1, Triple
<1>6. crc \in Seq(Byte) /\ Len(crc) = 1 /\ crc[1] \in {0, 128}
  <2>1. Crc(c) \in {0, 128}
    BY <1>3, CrcValue
  <2>2. Crc(c) \in Byte
    BY <2>1 DEF Byte
  <2> QED BY <2>1, <2>2
<1> HIDE DEF c, head, crc
<1>7. /\ most \in Seq(Byte) /\ Len(most) = 3 + (n + 5)
      /\ \A i \in 1..3 : most[i] = head[i]
      /\ \A i \in 1..(n + 5) : most[3 + i] = c[i]
  <2>1. /\ most \in Seq(Byte) /\ Len(most) = Len(head) + Len(c)
        /\ \A i \in 1..Len(head) : most[i] = head[i]
        /\ \A i \in 1..Len(c) : most[Len(head) + i] = c[i]
    <3>1. head \in Seq(Byte) /\ c \in Seq(Byte)
      BY <1>3, <1>5
    <3> QED BY <3>1, ConcatParts
  <2> HIDE DEF most
  <2> QED BY <1>3, <1>5, <2>1
<1> HIDE DEF most
<1>8. Len(most) = n + 8
  BY <1>2, <1>7
<1>9. \A k \in 1..n : most[8 + k] = m.data[k]
  <2> TAKE k \in 1..n
  <2>1. 5 + k \in 1..(n + 5) /\ 3 + (5 + k) = 8 + k
    BY <1>2
  <2> QED BY <1>3, <1>7, <2>1
<1>10. /\ most[1] = 235 /\ most[2] = 144 /\ most[3] = Platform
       /\ most[4] = 0 /\ most[5] = n + 3
       /\ most[6] = m.type /\ most[7] = m.cmd /\ most[8] = m.id
  <2>1. /\ 1 \in 1..(n + 5) /\ 2 \in 1..(n + 5) /\ 3 \in 1..(n + 5)
        /\ 4 \in 1..(n + 5) /\ 5 \in 1..(n + 5)
    BY <1>2
  <2>2. /\ most[3 + 1] = c[1] /\ most[3 + 2] = c[2] /\ most[3 + 3] = c[3]
        /\ most[3 + 4] = c[4] /\ most[3 + 5] = c[5]
    BY <1>7, <2>1
  <2>3. /\ most[4] = c[1] /\ most[5] = c[2] /\ most[6] = c[3]
        /\ most[7] = c[4] /\ most[8] = c[5]
    BY <2>2
  <2>4. most[1] = head[1] /\ most[2] = head[2] /\ most[3] = head[3]
    BY <1>7
  <2> QED BY <1>3, <1>5, <2>3, <2>4
<1>11. /\ w \in Seq(Byte) /\ Len(w) = (n + 8) + 1
       /\ \A i \in 1..(n + 8) : w[i] = most[i]
       /\ \A i \in 1..1 : w[(n + 8) + i] = crc[i]
  <2>1. /\ w \in Seq(Byte) /\ Len(w) = Len(most) + Len(crc)
        /\ \A i \in 1..Len(most) : w[i] = most[i]
        /\ \A i \in 1..Len(crc) : w[Len(most) + i] = crc[i]
    <3>1. most \in Seq(Byte) /\ crc \in Seq(Byte)
      BY <1>6, <1>7
    <3> QED BY <3>1, ConcatParts
  <2> HIDE DEF w
  <2> QED BY <1>6, <1>8, <2>1
<1> HIDE DEF w
<1>12. (n + 8) + 1 = n + 9
  BY <1>2
<1>13. WireLen(m) = n + 9
  BY <1>2, <1>4 DEF WireLen, HeadSize, TailSize
<1>14. w[n + 9] \in {0, 128}
  <2>1. w[(n + 8) + 1] = crc[1]
    BY <1>11
  <2> QED BY <1>6, <1>12, <2>1
<1>15. \A k \in 1..n : w[8 + k] = m.data[k]
  <2> TAKE k \in 1..n
  <2>1. 8 + k \in 1..(n + 8)
    BY <1>2
  <2> QED BY <1>9, <1>11, <2>1
<1>16. /\ w[1] = most[1] /\ w[2] = most[2] /\ w[3] = most[3] /\ w[4] = most[4]
       /\ w[5] = most[5] /\ w[6] = most[6] /\ w[7] = most[7] /\ w[8] = most[8]
  <2>1. /\ 1 \in 1..(n + 8) /\ 2 \in 1..(n + 8) /\ 3 \in 1..(n + 8) /\ 4 \in 1..(n + 8)
        /\ 5 \in 1..(n + 8) /\ 6 \in 1..(n + 8) /\ 7 \in 1..(n + 8) /\ 8 \in 1..(n + 8)
    BY <1>2
  <2> QED BY <1>11, <2>1
<1> QED BY <1>1, <1>2, <1>4, <1>10, <1>11, <1>12, <1>13, <1>14, <1>15, <1>16

\* An offered message fits.
LEMMA OfferFacts ==
    ASSUME NEW p \in Ports, NEW m \in Offers[p]
    PROVE  Sent(m)
<1>0. PICK t \in Tasks : \E r \in Requests[p][t] : Sendable(r) /\ m = MessageOf(r)
  BY DEF Offers
<1>1. PICK req \in Requests[p][t] : Sendable(req) /\ m = MessageOf(req)
  BY <1>0
<1>2. req \in Request
  BY <1>1, UartAssumption
<1>3. /\ m.dest = Platform /\ m.id = req.id /\ m.type = req.type
      /\ m.cmd = req.cmd /\ m.data = req.data
  BY <1>1 DEF MessageOf
<1>4. m \in Msgs
  BY <1>1, <1>2 DEF MessageOf, Msgs, Request, Platform, Byte
<1>5. Len(req.data) <= 159
  <2> DEFINE off == req.off
             n == Len(req.data)
  <2>1. off \in Nat
    <3>1. off \in 0..168
      BY <1>2 DEF Request
    <3> HIDE DEF off
    <3> QED BY <3>1
  <2>2. n \in Nat
    <3>1. req.data \in Seq(Byte)
      BY <1>2 DEF Request
    <3> QED BY <3>1, LenProperties
  <2>3. off >= 8 /\ off + n + 1 <= 168
    BY <1>1 DEF Sendable, HeadSize, TailSize
  <2>4. n <= 159
    <3> HIDE DEF off, n
    <3> QED BY <2>1, <2>2, <2>3
  <2> QED BY <2>4
<1> QED BY <1>3, <1>4, <1>5 DEF Sent

---------------------------------------------------------------------------
(* Sound buffers. *)

SoundBytes(p, s) == \A i \in DOMAIN s : Marker(s, i) => Begins(p, s, i)

\* What s holds from i on, u holds from j on.
Shows(s, i, u, j) ==
    \A k \in Nat : i + k <= Len(s) => j + k <= Len(u) /\ u[j + k] = s[i + k]

\* What begins at i still begins where it is shown.
LEMMA BeginsWhereShown ==
    ASSUME NEW p \in Ports, NEW s, NEW u, NEW i \in Nat, NEW j \in Nat,
           Begins(p, s, i), Shows(s, i, u, j), Len(s) \in Nat, Len(u) \in Nat
    PROVE  Begins(p, u, j)
<1>1. CASE AnnouncesNothing(s, i)
  <2>1. i + 3 <= Len(s) /\ i + 4 <= Len(s) /\ s[i + 3] = 0 /\ s[i + 4] < 3
    BY <1>1 DEF AnnouncesNothing
  <2>2. j + 4 <= Len(u) /\ u[j + 3] = s[i + 3] /\ u[j + 4] = s[i + 4]
    BY <2>1 DEF Shows
  <2>3. AnnouncesNothing(u, j)
    BY <2>1, <2>2 DEF AnnouncesNothing
  <2> QED BY <2>3 DEF Begins
<1>2. CASE \E m \in OfferedSet(Peer(p)) : FrameAt(s, i, m)
  <2>1. PICK m \in OfferedSet(Peer(p)) : FrameAt(s, i, m)
    BY <1>2
  <2> DEFINE n == WireLen(m)
             w == Wire(m)
  <2>2. n \in Nat /\ n >= 9
    <3>1. Sent(m)
      BY <2>1, Peers, OfferFacts DEF OfferedSet
    <3>2. Len(m.data) \in Nat /\ n = Len(m.data) + 9
      BY <3>1, WireShape
    <3> HIDE DEF n
    <3> QED BY <3>2
  <2>3. i + n - 1 <= Len(s) /\ \A k \in 1..n : s[i + k - 1] = w[k]
    BY <2>1 DEF FrameAt, PartAt
  <2> HIDE DEF n, w
  <2>4. \A k \in 1..n : j + k - 1 <= Len(u) /\ u[j + k - 1] = w[k]
    <3> TAKE k \in 1..n
    <3> DEFINE h == k - 1
    <3>1. h \in Nat /\ i + h <= Len(s) /\ i + k - 1 = i + h /\ j + k - 1 = j + h
      BY <2>2, <2>3
    <3> HIDE DEF h
    <3>2. j + h <= Len(u) /\ u[j + h] = s[i + h]
      BY <3>1 DEF Shows
    <3> QED BY <2>3, <3>1, <3>2
  <2>5. n \in 1..n
    BY <2>2
  <2>6. FrameAt(u, j, m)
    BY <2>4, <2>5 DEF FrameAt, PartAt, n, w
  <2> QED BY <2>1, <2>6 DEF Begins
<1> QED BY <1>1, <1>2 DEF Begins

\* What is read off the front leaves the rest sound.
LEMMA SoundSuffix ==
    ASSUME NEW p \in Ports, NEW s \in Seq(Byte), SoundBytes(p, s), NEW n \in Nat, n <= Len(s)
    PROVE  /\ SubSeq(s, n + 1, Len(s)) \in Seq(Byte)
           /\ Len(SubSeq(s, n + 1, Len(s))) = Len(s) - n
           /\ SoundBytes(p, SubSeq(s, n + 1, Len(s)))
<1> DEFINE z == Len(s)
           u == SubSeq(s, n + 1, z)
<1>1. z \in Nat /\ DOMAIN s = 1..z /\ \A i \in 1..z : s[i] \in Byte
  BY LenProperties
<1>2. n <= z
  OBVIOUS
<1>3. Len(s) = z
  OBVIOUS
<1> HIDE DEF z
<1>4. n + 1 \in Int /\ z \in Int /\ \A i \in (n + 1)..z : s[i] \in Byte
  BY <1>1
<1>5. /\ u \in Seq(Byte) /\ Len(u) = (IF n + 1 <= z THEN z - (n + 1) + 1 ELSE 0)
      /\ \A i \in 1..(z - (n + 1) + 1) : u[i] = s[(n + 1) + i - 1]
  BY <1>4, SubSeqProperties
<1> HIDE DEF u
<1>6. Len(u) = z - n
  BY <1>1, <1>2, <1>5
<1>7. DOMAIN u = 1..(z - n)
  BY <1>5, <1>6, LenProperties
<1>8. \A i \in 1..(z - n) : u[i] = s[n + i]
  <2> TAKE i \in 1..(z - n)
  <2>1. i \in 1..(z - (n + 1) + 1) /\ (n + 1) + i - 1 = n + i
    BY <1>1
  <2> QED BY <1>5, <2>1
<1>9. ASSUME NEW i \in DOMAIN u, Marker(u, i) PROVE Begins(p, u, i)
  <2>1. i \in 1..(z - n) /\ i + 1 \in 1..(z - n) /\ u[i] = 235 /\ u[i + 1] = 144
    BY <1>7, <1>9 DEF Marker
  <2>2. n + i \in 1..z /\ (n + i) + 1 \in 1..z /\ n + (i + 1) = (n + i) + 1 /\ i \in Nat /\ n + i \in Nat
    BY <1>1, <2>1
  <2>3. s[n + i] = 235 /\ s[(n + i) + 1] = 144
    BY <1>8, <2>1, <2>2
  <2>4. Begins(p, s, n + i)
    BY <1>1, <2>2, <2>3 DEF SoundBytes, Marker
  <2>5. Shows(s, n + i, u, i)
    <3> SUFFICES ASSUME NEW k \in Nat, (n + i) + k <= z
                 PROVE  i + k <= Len(u) /\ u[i + k] = s[(n + i) + k]
      BY <1>3 DEF Shows
    <3>1. i + k \in 1..(z - n) /\ n + (i + k) = (n + i) + k
      BY <1>1, <2>1
    <3> QED BY <1>6, <1>8, <3>1
  <2>6. Len(u) \in Nat /\ Len(s) \in Nat
    BY <1>1, <1>2, <1>3, <1>6
  <2> QED BY <2>2, <2>4, <2>5, <2>6, BeginsWhereShown
<1> QED BY <1>3, <1>5, <1>6, <1>9 DEF SoundBytes, u

\* Sound bytes behind sound bytes, none of them the second half of a marker.
LEMMA SoundConcat ==
    ASSUME NEW p \in Ports, NEW s \in Seq(Byte), NEW w \in Seq(Byte),
           SoundBytes(p, s), SoundBytes(p, w), w[1] # 144
    PROVE  SoundBytes(p, s \o w)
<1> DEFINE a == Len(s)
           b == Len(w)
           u == s \o w
<1>1. /\ a \in Nat /\ b \in Nat
      /\ u \in Seq(Byte) /\ Len(u) = a + b /\ DOMAIN u = 1..(a + b)
      /\ \A i \in 1..a : u[i] = s[i]
      /\ \A i \in 1..b : u[a + i] = w[i]
  BY ConcatParts
<1>2. DOMAIN s = 1..a /\ DOMAIN w = 1..b
  BY LenProperties
<1>3. Len(s) = a /\ Len(w) = b
  OBVIOUS
<1> HIDE DEF a, b, u
<1>4. ASSUME NEW i \in DOMAIN u, Marker(u, i) PROVE Begins(p, u, i)
  <2>1. i \in 1..(a + b) /\ i + 1 \in 1..(a + b) /\ u[i] = 235 /\ u[i + 1] = 144
    BY <1>1, <1>4 DEF Marker
  <2>2. CASE i < a
    <3>1. i \in 1..a /\ i + 1 \in 1..a /\ i \in Nat
      BY <1>1, <2>1, <2>2
    <3>2. Marker(s, i)
      BY <1>1, <1>2, <2>1, <3>1 DEF Marker
    <3>3. Begins(p, s, i)
      BY <1>2, <3>1, <3>2 DEF SoundBytes
    <3>4. Shows(s, i, u, i)
      <4> SUFFICES ASSUME NEW k \in Nat, i + k <= a
                   PROVE  i + k <= Len(u) /\ u[i + k] = s[i + k]
        BY <1>3 DEF Shows
      <4>1. i + k \in 1..a /\ i + k <= a + b
        BY <1>1, <2>1
      <4> QED BY <1>1, <4>1
    <3>5. Len(s) \in Nat /\ Len(u) \in Nat
      BY <1>1, <1>3
    <3> QED BY <3>1, <3>3, <3>4, <3>5, BeginsWhereShown
  <2>3. CASE i = a
    <3>1. 1 \in 1..b /\ i + 1 = a + 1
      BY <1>1, <2>1, <2>3
    <3>2. u[a + 1] = w[1]
      BY <1>1, <3>1
    <3>3. u[a + 1] = 144
      BY <2>1, <3>1
    <3> QED BY <3>2, <3>3
  <2>4. CASE i > a
    <3> DEFINE j == i - a
    <3>1. /\ j \in 1..b /\ j + 1 \in 1..b /\ j \in Nat /\ i \in Nat
          /\ a + j = i /\ a + (j + 1) = i + 1
      BY <1>1, <2>1, <2>4, LaterIndex
    <3> HIDE DEF j
    <3>2. Marker(w, j)
      BY <1>1, <1>2, <2>1, <3>1 DEF Marker
    <3>3. Begins(p, w, j)
      BY <1>2, <3>1, <3>2 DEF SoundBytes
    <3>4. Shows(w, j, u, i)
      <4> SUFFICES ASSUME NEW k \in Nat, j + k <= b
                   PROVE  i + k <= Len(u) /\ u[i + k] = w[j + k]
        BY <1>3 DEF Shows
      <4>1. j + k \in 1..b /\ a + (j + k) = i + k /\ i + k <= a + b
        BY <1>1, <3>1
      <4>2. u[a + (j + k)] = w[j + k]
        BY <1>1, <4>1
      <4> QED BY <1>1, <4>1, <4>2
    <3>5. Len(w) \in Nat /\ Len(u) \in Nat
      BY <1>1, <1>3
    <3> QED BY <3>1, <3>3, <3>4, <3>5, BeginsWhereShown
  <2> QED BY <1>1, <2>1, <2>2, <2>3, <2>4
<1> QED BY <1>4 DEF SoundBytes, u

\* A frame on its own is sound.
LEMMA WireSound ==
    ASSUME NEW p \in Ports, NEW m \in OfferedSet(Peer(p)), Plain(Wire(m))
    PROVE  Wire(m) \in Seq(Byte) /\ SoundBytes(p, Wire(m)) /\ Wire(m)[1] # 144
<1> DEFINE w == Wire(m)
           n == WireLen(m)
<1>1. Sent(m)
  BY Peers, OfferFacts DEF OfferedSet
<1>2. w \in Seq(Byte) /\ w[1] = 235 /\ Len(w) = n
  BY <1>1, WireShape
<1>3. ASSUME NEW i \in DOMAIN w, Marker(w, i) PROVE Begins(p, w, i)
  <2>1. i = 1
    BY <1>3 DEF Plain
  <2>2. n \in Nat
    BY <1>2, LenProperties
  <2> HIDE DEF n, w
  <2>3. i + n - 1 <= Len(w) /\ \A k \in 1..n : w[i + k - 1] = w[k]
    <3>1. \A k \in 1..n : i + k - 1 = k
      BY <2>1
    <3> QED BY <1>2, <2>1, <2>2, <3>1
  <2>4. FrameAt(w, i, m)
    BY <2>3 DEF FrameAt, PartAt, n, w
  <2> QED BY <2>4 DEF Begins
<1> QED BY <1>2, <1>3 DEF SoundBytes

LEMMA NoiseSound ==
    ASSUME NEW p \in Ports, NEW s \in Noise[p]
    PROVE  s \in Seq(Byte) /\ SoundBytes(p, s) /\ s[1] # 144
BY UartAssumption DEF Harmless, SoundBytes, Begins

---------------------------------------------------------------------------
(* Who waits for a mutex. *)

InLine(q, x) == \E i \in DOMAIN q : q[i] = x
Once(q) == \A i, j \in DOMAIN q : q[i] = q[j] => i = j

LEMMA QueueAppend ==
    ASSUME NEW S, NEW q \in Seq(S), NEW x \in S, Once(q), ~InLine(q, x)
    PROVE  /\ Append(q, x) \in Seq(S) /\ Once(Append(q, x))
           /\ \A y : InLine(Append(q, x), y) <=> InLine(q, y) \/ y = x
<1> DEFINE n == Len(q)
           u == Append(q, x)
<1>1. n \in Nat /\ DOMAIN q = 1..n
  BY LenProperties
<1>2. /\ u \in Seq(S) /\ Len(u) = n + 1
      /\ \A i \in 1..n : u[i] = q[i]
      /\ u[n + 1] = x
  BY AppendProperties
<1>3. DOMAIN u = 1..(n + 1)
  BY <1>2, LenProperties
<1> HIDE DEF n, u
<1>4. \A i \in 1..(n + 1) : i \in 1..n \/ i = n + 1
  BY <1>1
<1>5. \A i \in 1..n : i \in 1..(n + 1)
  BY <1>1
<1>6. n + 1 \in 1..(n + 1)
  BY <1>1
<1>7. \A y : InLine(u, y) <=> InLine(q, y) \/ y = x
  BY <1>1, <1>2, <1>3, <1>4, <1>5, <1>6 DEF InLine
<1>8. \A i \in 1..n : q[i] # x
  BY <1>1 DEF InLine
<1>9. Once(u)
  BY <1>1, <1>2, <1>3, <1>4, <1>8 DEF Once
<1> QED BY <1>2, <1>7, <1>9 DEF u

LEMMA QueueTail ==
    ASSUME NEW S, NEW q \in Seq(S), q # <<>>, Once(q)
    PROVE  /\ Tail(q) \in Seq(S) /\ Once(Tail(q))
           /\ \A y : InLine(Tail(q), y) <=> InLine(q, y) /\ y # Head(q)
<1> DEFINE n == Len(q)
           u == Tail(q)
<1>1. n \in Nat /\ DOMAIN q = 1..n
  BY LenProperties
<1>2. n # 0 /\ Head(q) = q[1]
  BY EmptySeq
<1>3. u \in Seq(S) /\ Len(u) = n - 1 /\ \A i \in 1..Len(u) : u[i] = q[i + 1]
  BY HeadTailProperties
<1>4. DOMAIN u = 1..Len(u)
  BY <1>3, LenProperties
<1> HIDE DEF n, u
<1>5. DOMAIN u = 1..(n - 1) /\ \A i \in 1..(n - 1) : u[i] = q[i + 1]
  BY <1>3, <1>4
<1>6. \A i \in 1..(n - 1) : i + 1 \in 1..n /\ i + 1 # 1
  BY <1>1
<1>7. \A i \in 1..n : i # 1 => i - 1 \in 1..(n - 1) /\ (i - 1) + 1 = i
  BY <1>1
<1>8. 1 \in 1..n
  BY <1>1, <1>2
<1>9. Once(u)
  <2> SUFFICES ASSUME NEW i \in 1..(n - 1), NEW j \in 1..(n - 1), u[i] = u[j]
               PROVE  i = j
    BY <1>5 DEF Once
  <2>1. i + 1 = j + 1
    BY <1>1, <1>5, <1>6 DEF Once
  <2> QED BY <2>1
<1>10. ASSUME NEW y, InLine(u, y) PROVE InLine(q, y) /\ y # Head(q)
  <2>1. PICK i \in 1..(n - 1) : u[i] = y
    BY <1>5, <1>10 DEF InLine
  <2>2. i + 1 \in 1..n /\ i + 1 # 1 /\ q[i + 1] = y
    BY <1>5, <1>6, <2>1
  <2> QED BY <1>1, <1>2, <1>8, <2>2 DEF InLine, Once
<1>11. ASSUME NEW y, InLine(q, y), y # Head(q) PROVE InLine(u, y)
  <2>1. PICK i \in 1..n : q[i] = y
    BY <1>1, <1>11 DEF InLine
  <2>2. i # 1
    BY <1>2, <1>11, <2>1
  <2>3. i - 1 \in 1..(n - 1) /\ u[i - 1] = y
    BY <1>5, <1>7, <2>1, <2>2
  <2> QED BY <1>5, <2>3 DEF InLine
<1> QED BY <1>3, <1>9, <1>10, <1>11 DEF u
---------------------------------------------------------------------------
(* The steps, part by part of the invariant. *)

Actors == Tasks \cup {"recv"}
Harm == {"cut", "change", "lose", "noise", "marker"}

Typed ==
    /\ line \in [Ports -> Seq(Byte)]
    /\ file \in [Ports -> Seq(Actors)]
    /\ job \in [Ports -> [Tasks -> Seq(Byte)]]
    /\ harm \in [Ports -> SUBSET Harm]
    /\ sent \in [Ports -> [Tasks -> Seq(Msgs)]]
    /\ got \in [Ports -> Seq(Msgs)]
    /\ garbled \in [Ports -> SUBSET Nat]
    /\ spent \in [sends : 0..MaxSends, faults : 0..MaxFaults]

\* What a call of send() makes of its frame.
LEMMA Sends ==
    ASSUME NEW p \in Ports, NEW t \in Tasks, NEW req \in Requests[p][t], Sendable(req)
    PROVE  /\ MessageOf(req) \in Offers[p] /\ MessageOf(req) \in Msgs
           /\ Wire(MessageOf(req)) \in Seq(Byte) /\ Wire(MessageOf(req)) # <<>>
<1> DEFINE m == MessageOf(req)
<1>1. m \in Offers[p]
  BY DEF Offers
<1> HIDE DEF m
<1>2. Sent(m)
  BY <1>1, OfferFacts
<1>3. Wire(m) \in Seq(Byte) /\ Len(m.data) \in Nat /\ Len(Wire(m)) = Len(m.data) + 9
  BY <1>2, WireShape
<1>4. Wire(m) # <<>>
  <2> DEFINE n == Len(m.data)
  <2>1. n \in Nat /\ Len(Wire(m)) = n + 9
    BY <1>3
  <2> HIDE DEF n
  <2>2. Len(Wire(m)) # 0
    BY <2>1
  <2> QED BY <1>3, <2>2, EmptySeq
<1> QED BY <1>1, <1>2, <1>3, <1>4 DEF Sent, m

\* A part of a string of bytes.
LEMMA Part ==
    ASSUME NEW s \in Seq(Byte), NEW a \in Nat, NEW b \in Nat, a >= 1, b <= Len(s)
    PROVE  SubSeq(s, a, b) \in Seq(Byte)
<1> DEFINE n == Len(s)
<1>1. n \in Nat /\ \A i \in 1..n : s[i] \in Byte
  BY LenProperties
<1>2. b <= n
  OBVIOUS
<1> HIDE DEF n
<1>3. \A i \in a..b : s[i] \in Byte
  BY <1>1, <1>2
<1> QED BY <1>3, SubSeqProperties

\* What is accepted is a message.
LEMMA ReceivedIsMessage ==
    ASSUME NEW c \in Seq(Byte), Accepted(c)
    PROVE  Received(c) \in Msgs
<1> DEFINE n == Len(c)
<1>1. n \in Nat /\ \A i \in 1..n : c[i] \in Byte
  BY LenProperties
<1>2. n >= 8
  BY DEF Accepted, HeadSize
<1>3. n = Len(c)
  OBVIOUS
<1> HIDE DEF n
<1>4. 3 \in 1..n /\ 6 \in 1..n /\ 7 \in 1..n /\ 8 \in 1..n
  BY <1>1, <1>2
<1>5. SubSeq(c, HeadSize + 1, n - TailSize) \in Seq(Byte)
  <2>1. HeadSize + 1 = 9 /\ n - TailSize = n - 1 /\ n - 1 \in Nat /\ n - 1 <= n
    BY <1>1, <1>2 DEF HeadSize, TailSize
  <2>2. n - 1 <= Len(c)
    BY <1>3, <2>1
  <2>3. SubSeq(c, 9, n - 1) \in Seq(Byte)
    BY <2>1, <2>2, Part
  <2> QED BY <2>1, <2>3
<1> QED BY <1>1, <1>3, <1>4, <1>5 DEF Received, Msgs

\* A counter of spent goes up by one, and not above its bound.
LEMMA SendsCount ==
    ASSUME Typed, spent.sends < MaxSends
    PROVE  [spent EXCEPT !.sends = @ + 1] \in [sends : 0..MaxSends, faults : 0..MaxFaults]
<1> DEFINE x == spent.sends
<1>1. x \in 0..MaxSends /\ MaxSends \in Nat /\ x < MaxSends
  BY UartAssumption DEF Typed
<1> HIDE DEF x
<1>2. x + 1 \in 0..MaxSends
  BY <1>1
<1> QED BY <1>2 DEF Typed, x

LEMMA FaultsCount ==
    ASSUME Typed, NEW kind, Fault(kind)
    PROVE  spent' \in [sends : 0..MaxSends, faults : 0..MaxFaults]
<1> DEFINE x == spent.faults
<1>1. x \in 0..MaxFaults /\ MaxFaults \in Nat /\ x < MaxFaults
  BY UartAssumption DEF Typed, Fault
<1> HIDE DEF x
<1>2. x + 1 \in 0..MaxFaults
  BY <1>1
<1> QED BY <1>2 DEF Typed, Fault, x

\* Locks and Releases keep the types of file.
LEMMA LocksTyped ==
    ASSUME Typed, NEW p \in Ports, NEW x \in Actors, Locks(p, x)
    PROVE  /\ file' \in [Ports -> Seq(Actors)]
           /\ file'[p] = Append(file[p], x)
           /\ \A q \in Ports : q # p => file'[q] = file[q]
<1>1. Append(file[p], x) \in Seq(Actors)
  <2>1. file[p] \in Seq(Actors)
    BY DEF Typed
  <2> QED BY <2>1, AppendProperties
<1> QED BY <1>1 DEF Typed, Locks

LEMMA ReleasesTyped ==
    ASSUME Typed, NEW p \in Ports, NEW x, Holds(p, x), Releases(p)
    PROVE  /\ file' \in [Ports -> Seq(Actors)]
           /\ file'[p] = Tail(file[p]) /\ file[p] # <<>> /\ Head(file[p]) = x
           /\ \A q \in Ports : q # p => file'[q] = file[q]
<1>1. file[p] \in Seq(Actors) /\ file[p] # <<>>
  BY DEF Typed, Holds
<1>2. Tail(file[p]) \in Seq(Actors)
  BY <1>1, HeadTailProperties
<1> QED BY <1>1, <1>2 DEF Typed, Holds, Releases, Released

LEMMA TypedSend ==
    ASSUME Typed, NEW p \in Ports, NEW t \in Tasks, Send(p, t)
    PROVE  Typed'
<1>1. PICK req \in Requests[p][t] :
         IF Sendable(req)
         THEN /\ job' = [job EXCEPT ![p][t] = Wire(MessageOf(req))]
              /\ sent' = [sent EXCEPT ![p][t] = Append(@, MessageOf(req))]
              /\ Locks(p, t)
         ELSE UNCHANGED <<job, sent, file>>
  BY DEF Send
<1>2. spent' \in [sends : 0..MaxSends, faults : 0..MaxFaults]
  BY SendsCount DEF Send
<1>3. UNCHANGED <<line, harm, got, garbled>>
  BY DEF Send
<1>4. CASE Sendable(req)
  <2> DEFINE m == MessageOf(req)
  <2>1. m \in Msgs /\ Wire(m) \in Seq(Byte)
    BY <1>4, Sends
  <2> HIDE DEF m
  <2>2. job' = [job EXCEPT ![p][t] = Wire(m)] /\ sent' = [sent EXCEPT ![p][t] = Append(@, m)]
    BY <1>1, <1>4 DEF m
  <2>3. file' \in [Ports -> Seq(Actors)]
    <3>1. t \in Actors /\ Locks(p, t)
      BY <1>1, <1>4 DEF Actors
    <3> QED BY <3>1, LocksTyped
  <2>4. job' \in [Ports -> [Tasks -> Seq(Byte)]]
    BY <2>1, <2>2 DEF Typed
  <2>5. Append(sent[p][t], m) \in Seq(Msgs)
    <3>1. sent[p][t] \in Seq(Msgs)
      BY DEF Typed
    <3> QED BY <2>1, <3>1, AppendProperties
  <2>6. sent' \in [Ports -> [Tasks -> Seq(Msgs)]]
    BY <2>2, <2>5 DEF Typed
  <2> QED BY <1>2, <1>3, <2>3, <2>4, <2>6 DEF Typed
<1>5. CASE ~Sendable(req)
  BY <1>1, <1>2, <1>3, <1>5 DEF Typed
<1> QED BY <1>4, <1>5

\* A write leaves the job empty.
LEMMA TypedWriting ==
    ASSUME Typed, NEW p \in Ports, NEW t \in Tasks, Writing(p, t)
    PROVE  /\ file' \in [Ports -> Seq(Actors)]
           /\ job' \in [Ports -> [Tasks -> Seq(Byte)]]
           /\ UNCHANGED <<sent, got, garbled>>
<1>1. file' \in [Ports -> Seq(Actors)]
  BY ReleasesTyped DEF Writing
<1>2. <<>> \in Seq(Byte)
  BY EmptySeq
<1> QED BY <1>1, <1>2 DEF Typed, Writing

\* What is written arrives behind what is there.
LEMMA TypedArrival ==
    ASSUME Typed, NEW q \in Ports, NEW s \in Seq(Byte), line' = [line EXCEPT ![q] = @ \o s]
    PROVE  line' \in [Ports -> Seq(Byte)]
<1>1. line[q] \in Seq(Byte)
  BY DEF Typed
<1>2. line[q] \o s \in Seq(Byte)
  BY <1>1, ConcatProperties
<1> QED BY <1>2 DEF Typed

\* What happens to the bytes of a port is forgotten when none is left.
LEMMA HarmsTyped ==
    ASSUME Typed, NEW q \in Ports, NEW kinds \in SUBSET Harm, Harms(q, kinds)
    PROVE  /\ harm' \in [Ports -> SUBSET Harm]
           /\ line'[q] = <<>> \/ harm'[q] = harm[q] \cup kinds
           /\ \A r \in Ports : r # q => harm'[r] = harm[r]
<1> DEFINE h == IF line'[q] = <<>> THEN {} ELSE harm[q] \cup kinds
<1>1. harm' = [harm EXCEPT ![q] = h]
  BY DEF Harms
<1>2. h \in SUBSET Harm
  BY DEF Typed
<1>3. line'[q] = <<>> \/ h = harm[q] \cup kinds
  OBVIOUS
<1> HIDE DEF h
<1> QED BY <1>1, <1>2, <1>3 DEF Typed

LEMMA MarksHarm == \A w : Marks(w) \in SUBSET Harm
BY DEF Marks, Harm

LEMMA TypedWriteAll ==
    ASSUME Typed, NEW p \in Ports, NEW t \in Tasks, WriteAll(p, t)
    PROVE  Typed'
<1>1. /\ Writing(p, t) /\ UNCHANGED spent
      /\ line' = [line EXCEPT ![Peer(p)] = @ \o job[p][t]]
  BY DEF WriteAll
<1>2. Peer(p) \in Ports /\ job[p][t] \in Seq(Byte)
  BY Peers DEF Typed
<1>3. line' \in [Ports -> Seq(Byte)]
  BY <1>1, <1>2, TypedArrival
<1>4. harm' \in [Ports -> SUBSET Harm]
  BY <1>2, MarksHarm, HarmsTyped DEF WriteAll
<1> QED BY <1>1, <1>3, <1>4, TypedWriting DEF Typed

LEMMA TypedWriteCut ==
    ASSUME Typed, NEW p \in Ports, NEW t \in Tasks, WriteCut(p, t)
    PROVE  Typed'
<1>1. PICK n \in 0..(Len(job[p][t]) - 1) :
         line' = [line EXCEPT ![Peer(p)] = @ \o SubSeq(job[p][t], 1, n)]
  BY DEF WriteCut
<1>2. Writing(p, t) /\ Fault("cut") /\ Peer(p) \in Ports
  BY Peers DEF WriteCut
<1>3. SubSeq(job[p][t], 1, n) \in Seq(Byte)
  <2> DEFINE s == job[p][t]
             l == Len(s)
  <2>1. s \in Seq(Byte)
    BY DEF Typed
  <2>2. l \in Nat
    BY <2>1, LenProperties
  <2>3. l = Len(s) /\ n \in 0..(l - 1)
    OBVIOUS
  <2> HIDE DEF l
  <2>4. n \in Nat /\ 1 \in Nat /\ 1 >= 1 /\ n <= l
    BY <2>2, <2>3
  <2>5. n <= Len(s)
    BY <2>3, <2>4
  <2> HIDE DEF s
  <2>6. SubSeq(s, 1, n) \in Seq(Byte)
    BY <2>1, <2>4, <2>5, Part
  <2> QED BY <2>6 DEF s
<1>4. line' \in [Ports -> Seq(Byte)]
  BY <1>1, <1>2, <1>3, TypedArrival
<1>5. spent' \in [sends : 0..MaxSends, faults : 0..MaxFaults]
  BY <1>2, FaultsCount
<1>6. harm' \in [Ports -> SUBSET Harm]
  <2>1. Marks(job[p][t]) \cup {"cut"} \in SUBSET Harm
    BY MarksHarm DEF Harm
  <2> QED BY <1>2, <2>1, HarmsTyped DEF WriteCut
<1> QED BY <1>2, <1>4, <1>5, <1>6, TypedWriting DEF Typed

LEMMA TypedByteChanges ==
    ASSUME Typed, NEW p \in Ports, ByteChanges(p)
    PROVE  Typed'
<1>1. PICK i \in DOMAIN line[p] : line' = [line EXCEPT ![p][i] = (@ + 1) % 256]
  BY DEF ByteChanges
<1>2. Fault("change") /\ UNCHANGED <<file, job, sent, got, garbled>>
  BY DEF ByteChanges
<1> DEFINE s == line[p]
           b == (s[i] + 1) % 256
<1>3. s \in Seq(Byte)
  BY DEF Typed
<1>4. i \in 1..Len(s) /\ s[i] \in Byte
  BY <1>3, LenProperties
<1>5. b \in Byte
  <2> DEFINE x == s[i]
  <2>1. x \in 0..255
    BY <1>4 DEF Byte
  <2> HIDE DEF x
  <2>2. (x + 1) % 256 \in 0..255
    BY <2>1
  <2> QED BY <2>2 DEF x, Byte
<1>6. [s EXCEPT ![i] = b] \in Seq(Byte)
  <2> HIDE DEF s, b
  <2> QED BY <1>3, <1>4, <1>5, ExceptSeq
<1>7. line' = [line EXCEPT ![p] = [s EXCEPT ![i] = b]]
  BY <1>1
<1>8. line' \in [Ports -> Seq(Byte)]
  <2> HIDE DEF s, b
  <2> QED BY <1>6, <1>7 DEF Typed
<1>9. spent' \in [sends : 0..MaxSends, faults : 0..MaxFaults]
  BY <1>2, FaultsCount
<1>10. harm' \in [Ports -> SUBSET Harm]
  <2>1. {"change"} \in SUBSET Harm
    BY DEF Harm
  <2> QED BY <2>1, HarmsTyped DEF ByteChanges
<1> QED BY <1>2, <1>8, <1>9, <1>10 DEF Typed

LEMMA TypedByteLost ==
    ASSUME Typed, NEW p \in Ports, ByteLost(p)
    PROVE  Typed'
<1> DEFINE s == line[p]
           n == Len(s)
<1>1. PICK i \in DOMAIN s :
         line' = [line EXCEPT ![p] = SubSeq(@, 1, i - 1) \o SubSeq(@, i + 1, Len(@))]
  BY DEF ByteLost
<1>2. Fault("lose") /\ UNCHANGED <<file, job, sent, got, garbled>>
  BY DEF ByteLost
<1>3. s \in Seq(Byte)
  BY DEF Typed
<1>4. n \in Nat /\ i \in 1..n
  BY <1>3, LenProperties
<1>5. n = Len(s)
  OBVIOUS
<1>6. line' = [line EXCEPT ![p] = SubSeq(s, 1, i - 1) \o SubSeq(s, i + 1, n)]
  BY <1>1
<1> HIDE DEF n, s
<1>7. i - 1 \in Nat /\ i - 1 <= n /\ i + 1 \in Nat /\ i + 1 >= 1
  BY <1>4
<1>8. SubSeq(s, 1, i - 1) \in Seq(Byte) /\ SubSeq(s, i + 1, n) \in Seq(Byte)
  <2>1. i - 1 <= Len(s) /\ n <= Len(s)
    BY <1>4, <1>5, <1>7
  <2>2. SubSeq(s, 1, i - 1) \in Seq(Byte)
    BY <1>3, <1>7, <2>1, Part
  <2>3. SubSeq(s, i + 1, n) \in Seq(Byte)
    BY <1>3, <1>4, <1>7, <2>1, Part
  <2> QED BY <2>2, <2>3
<1>9. SubSeq(s, 1, i - 1) \o SubSeq(s, i + 1, n) \in Seq(Byte)
  BY <1>8, ConcatProperties
<1>10. line' \in [Ports -> Seq(Byte)]
  BY <1>6, <1>9 DEF Typed
<1>11. spent' \in [sends : 0..MaxSends, faults : 0..MaxFaults]
  BY <1>2, FaultsCount
<1>12. harm' \in [Ports -> SUBSET Harm]
  <2>1. {"lose"} \in SUBSET Harm
    BY DEF Harm
  <2> QED BY <2>1, HarmsTyped DEF ByteLost
<1> QED BY <1>2, <1>10, <1>11, <1>12 DEF Typed

LEMMA TypedNoise ==
    ASSUME Typed, NEW p \in Ports, NoiseArrives(p)
    PROVE  Typed'
<1>1. PICK s \in Noise[p] : line' = [line EXCEPT ![p] = @ \o s]
  BY DEF NoiseArrives
<1>2. Fault("noise") /\ UNCHANGED <<file, job, sent, got, garbled>>
  BY DEF NoiseArrives
<1>3. line' \in [Ports -> Seq(Byte)]
  BY <1>1, NoiseSound, TypedArrival
<1>4. spent' \in [sends : 0..MaxSends, faults : 0..MaxFaults]
  BY <1>2, FaultsCount
<1>5. harm' \in [Ports -> SUBSET Harm]
  <2>1. {"noise"} \in SUBSET Harm
    BY DEF Harm
  <2> QED BY <2>1, HarmsTyped DEF NoiseArrives
<1> QED BY <1>2, <1>3, <1>4, <1>5 DEF Typed

LEMMA TypedListens ==
    ASSUME Typed, NEW p \in Ports, Listens(p)
    PROVE  Typed'
<1>1. "recv" \in Actors /\ Locks(p, "recv")
  BY DEF Listens, Actors
<1>2. file' \in [Ports -> Seq(Actors)]
  BY <1>1, LocksTyped
<1> QED BY <1>2 DEF Typed, Listens

LEMMA TypedTimeout ==
    ASSUME Typed, NEW p \in Ports, ReadTimesOut(p)
    PROVE  Typed'
<1>1. file' \in [Ports -> Seq(Actors)]
  BY ReleasesTyped DEF ReadTimesOut
<1> QED BY <1>1 DEF Typed, ReadTimesOut

\* The bytes of one read, and those it leaves.
LEMMA ReadParts ==
    ASSUME Typed, NEW p \in Ports, NEW n \in DOMAIN line[p]
    PROVE  /\ n \in Nat /\ n >= 1 /\ n <= Len(line[p]) /\ Len(line[p]) \in Nat
           /\ SubSeq(line[p], 1, n) \in Seq(Byte)
           /\ Len(SubSeq(line[p], 1, n)) = n
           /\ \A i \in 1..n : SubSeq(line[p], 1, n)[i] = line[p][i]
           /\ SubSeq(line[p], n + 1, Len(line[p])) \in Seq(Byte)
<1> DEFINE s == line[p]
           z == Len(s)
<1>1. s \in Seq(Byte)
  BY DEF Typed
<1>2. z \in Nat /\ DOMAIN s = 1..z /\ \A i \in 1..z : s[i] \in Byte
  BY <1>1, LenProperties
<1>3. n \in DOMAIN s /\ z = Len(s)
  OBVIOUS
<1> HIDE DEF z, s
<1>4. n \in Nat /\ n >= 1 /\ n <= z /\ n + 1 \in Nat /\ n + 1 >= 1
  BY <1>2, <1>3
<1>5. \A i \in 1..n : s[i] \in Byte /\ 1 + i - 1 = i
  BY <1>2, <1>4
<1>6. /\ SubSeq(s, 1, n) \in Seq(Byte)
      /\ Len(SubSeq(s, 1, n)) = IF 1 <= n THEN n - 1 + 1 ELSE 0
      /\ \A i \in 1..(n - 1 + 1) : SubSeq(s, 1, n)[i] = s[1 + i - 1]
  BY <1>4, <1>5, SubSeqProperties
<1>7. Len(SubSeq(s, 1, n)) = n /\ \A i \in 1..n : SubSeq(s, 1, n)[i] = s[i]
  BY <1>4, <1>5, <1>6
<1>8. z <= Len(s)
  BY <1>2, <1>3
<1>9. SubSeq(s, n + 1, z) \in Seq(Byte)
  BY <1>1, <1>2, <1>4, <1>8, Part
<1> QED BY <1>2, <1>3, <1>4, <1>6, <1>7, <1>9 DEF s

LEMMA TypedReads ==
    ASSUME Typed, NEW p \in Ports, NEW n \in DOMAIN line[p], Reads(p, n)
    PROVE  Typed'
<1> DEFINE c == SubSeq(line[p], 1, n)
           rest == SubSeq(line[p], n + 1, Len(line[p]))
<1>1. c \in Seq(Byte) /\ rest \in Seq(Byte)
  BY ReadParts
<1>2. file' \in [Ports -> Seq(Actors)]
  BY ReleasesTyped DEF Reads
<1>3. /\ line' = [line EXCEPT ![p] = rest]
      /\ IF Accepted(c)
         THEN /\ got' = [got EXCEPT ![p] = Append(@, Received(c))]
              /\ garbled' = IF Sound(p) THEN garbled
                            ELSE [garbled EXCEPT ![p] = @ \cup {Len(got[p]) + 1}]
         ELSE UNCHANGED <<got, garbled>>
      /\ UNCHANGED <<job, sent, spent>>
  BY DEF Reads
<1>4. harm' \in [Ports -> SUBSET Harm]
  BY HarmsTyped DEF Reads
<1> HIDE DEF c, rest
<1>5. line' \in [Ports -> Seq(Byte)]
  BY <1>1, <1>3 DEF Typed
<1>6. got' \in [Ports -> Seq(Msgs)] /\ garbled' \in [Ports -> SUBSET Nat]
  <2>1. CASE Accepted(c)
    <3>1. Received(c) \in Msgs
      BY <1>1, <2>1, ReceivedIsMessage
    <3>2. got[p] \in Seq(Msgs)
      BY DEF Typed
    <3>3. Append(got[p], Received(c)) \in Seq(Msgs)
      BY <3>1, <3>2, AppendProperties
    <3>4. Len(got[p]) \in Nat
      BY <3>2, LenProperties
    <3> DEFINE k == Len(got[p])
               more == [garbled EXCEPT ![p] = @ \cup {k + 1}]
    <3>5. k + 1 \in Nat
      <4> HIDE DEF k
      <4> QED BY <3>4 DEF k
    <3>6. more \in [Ports -> SUBSET Nat]
      <4> HIDE DEF k
      <4> QED BY <3>5 DEF Typed
    <3>7. garbled' = garbled \/ garbled' = more
      BY <1>3, <2>1
    <3> HIDE DEF more
    <3>8. garbled' \in [Ports -> SUBSET Nat]
      BY <3>6, <3>7 DEF Typed
    <3>9. got' = [got EXCEPT ![p] = Append(@, Received(c))]
      BY <1>3, <2>1
    <3> QED BY <3>3, <3>8, <3>9 DEF Typed
  <2>2. CASE ~Accepted(c)
    BY <1>3, <2>2 DEF Typed
  <2> QED BY <2>1, <2>2
<1> QED BY <1>2, <1>3, <1>4, <1>5, <1>6 DEF Typed

LEMMA TypedStep == Typed /\ [Next]_vars => Typed'
<1> SUFFICES ASSUME Typed, [Next]_vars PROVE Typed'
  OBVIOUS
<1>1. CASE UNCHANGED vars
  BY <1>1 DEF vars, Typed
<1>2. ASSUME NEW p \in Ports, NEW t \in Tasks, Send(p, t) \/ WriteAll(p, t) \/ WriteCut(p, t)
      PROVE  Typed'
  BY <1>2, TypedSend, TypedWriteAll, TypedWriteCut
<1>3. ASSUME NEW p \in Ports, ByteChanges(p) \/ ByteLost(p) \/ NoiseArrives(p)
      PROVE  Typed'
  BY <1>3, TypedByteChanges, TypedByteLost, TypedNoise
<1>4. ASSUME NEW p \in Ports, Listens(p) \/ Read(p) \/ ReadTimesOut(p)
      PROVE  Typed'
  BY <1>4, TypedListens, TypedReads, TypedTimeout DEF Read
<1> QED BY <1>1, <1>2, <1>3, <1>4 DEF Next
---------------------------------------------------------------------------
(* A task waits for the mutex once, and while it has a frame to write. *)

Queued(p) ==
    /\ \A t \in Tasks : job[p][t] # <<>> <=> InLine(file[p], t)
    /\ Once(file[p])

LEMMA QueuedSend ==
    ASSUME Typed, NEW q \in Ports, Queued(q), NEW p \in Ports, NEW t \in Tasks, Send(p, t)
    PROVE  Queued(q)'
<1>1. job[p][t] = <<>>
  BY DEF Send
<1>2. PICK req \in Requests[p][t] :
         IF Sendable(req)
         THEN /\ job' = [job EXCEPT ![p][t] = Wire(MessageOf(req))]
              /\ Locks(p, t)
         ELSE UNCHANGED <<job, file>>
  BY DEF Send
<1>3. CASE Sendable(req)
  <2> DEFINE w == Wire(MessageOf(req))
  <2>1. w # <<>>
    BY <1>3, Sends
  <2>2. job' = [job EXCEPT ![p][t] = w] /\ Locks(p, t)
    BY <1>2, <1>3
  <2> HIDE DEF w
  <2>3. /\ job'[p][t] = w
        /\ \A r \in Ports, u \in Tasks : (r # p \/ u # t) => job'[r][u] = job[r][u]
    BY <2>2 DEF Typed
  <2>4. t \in Actors
    BY DEF Actors
  <2>5. /\ file'[p] = Append(file[p], t)
        /\ \A r \in Ports : r # p => file'[r] = file[r]
    BY <2>2, <2>4, LocksTyped
  <2>6. CASE q # p
    BY <2>3, <2>5, <2>6 DEF Queued
  <2>7. CASE q = p
    <3>1. ~InLine(file[p], t) /\ Once(file[p])
      BY <1>1, <2>7 DEF Queued
    <3>2. file[p] \in Seq(Actors)
      BY DEF Typed
    <3>3. /\ Once(Append(file[p], t))
          /\ \A y : InLine(Append(file[p], t), y) <=> InLine(file[p], y) \/ y = t
      BY <2>4, <3>1, <3>2, QueueAppend
    <3>4. Once(file'[p]) /\ \A y : InLine(file'[p], y) <=> InLine(file[p], y) \/ y = t
      BY <2>5, <3>3
    <3>5. \A u \in Tasks : job'[p][u] # <<>> <=> InLine(file'[p], u)
      BY <2>1, <2>3, <2>7, <3>4 DEF Queued
    <3> QED BY <2>7, <3>4, <3>5 DEF Queued
  <2> QED BY <2>6, <2>7
<1>4. CASE ~Sendable(req)
  BY <1>2, <1>4 DEF Queued
<1> QED BY <1>3, <1>4

LEMMA QueuedWriting ==
    ASSUME Typed, NEW q \in Ports, Queued(q), NEW p \in Ports, NEW t \in Tasks, Writing(p, t)
    PROVE  Queued(q)'
<1>1. job' = [job EXCEPT ![p][t] = <<>>]
  BY DEF Writing
<1>2. /\ job'[p][t] = <<>>
      /\ \A r \in Ports, u \in Tasks : (r # p \/ u # t) => job'[r][u] = job[r][u]
  BY <1>1 DEF Typed
<1>3. /\ file'[p] = Tail(file[p]) /\ file[p] # <<>> /\ Head(file[p]) = t
      /\ \A r \in Ports : r # p => file'[r] = file[r]
  BY ReleasesTyped DEF Writing
<1>4. CASE q # p
  BY <1>2, <1>3, <1>4 DEF Queued
<1>5. CASE q = p
  <2>1. file[p] \in Seq(Actors) /\ Once(file[p])
    BY <1>5 DEF Typed, Queued
  <2>2. /\ Once(Tail(file[p]))
        /\ \A y : InLine(Tail(file[p]), y) <=> InLine(file[p], y) /\ y # Head(file[p])
    BY <1>3, <2>1, QueueTail
  <2>3. Once(file'[p]) /\ \A y : InLine(file'[p], y) <=> InLine(file[p], y) /\ y # t
    BY <1>3, <2>2
  <2>4. \A u \in Tasks : job'[p][u] # <<>> <=> InLine(file'[p], u)
    BY <1>2, <1>5, <2>3 DEF Queued
  <2> QED BY <1>5, <2>3, <2>4 DEF Queued
<1> QED BY <1>4, <1>5

LEMMA QueuedListens ==
    ASSUME Typed, NEW q \in Ports, Queued(q), NEW p \in Ports, Listens(p)
    PROVE  Queued(q)'
<1>1. ~InLine(file[p], "recv") /\ Locks(p, "recv") /\ UNCHANGED job
  BY DEF Listens, Waits, InLine
<1>2. "recv" \in Actors /\ \A u \in Tasks : u # "recv"
  BY UartAssumption DEF Actors
<1>3. /\ file'[p] = Append(file[p], "recv")
      /\ \A r \in Ports : r # p => file'[r] = file[r]
  BY <1>1, <1>2, LocksTyped
<1>4. CASE q # p
  BY <1>1, <1>3, <1>4 DEF Queued
<1>5. CASE q = p
  <2>1. file[p] \in Seq(Actors) /\ Once(file[p])
    BY <1>5 DEF Typed, Queued
  <2>2. /\ Once(Append(file[p], "recv"))
        /\ \A y : InLine(Append(file[p], "recv"), y) <=> InLine(file[p], y) \/ y = "recv"
    BY <1>1, <1>2, <2>1, QueueAppend
  <2> QED BY <1>1, <1>2, <1>3, <1>5, <2>2 DEF Queued
<1> QED BY <1>4, <1>5

LEMMA QueuedRecvEnds ==
    ASSUME Typed, NEW q \in Ports, Queued(q), NEW p \in Ports,
           Holds(p, "recv"), Releases(p), UNCHANGED job
    PROVE  Queued(q)'
<1>1. \A u \in Tasks : u # "recv"
  BY UartAssumption
<1>2. /\ file'[p] = Tail(file[p]) /\ file[p] # <<>> /\ Head(file[p]) = "recv"
      /\ \A r \in Ports : r # p => file'[r] = file[r]
  BY ReleasesTyped
<1>3. CASE q # p
  BY <1>2, <1>3 DEF Queued
<1>4. CASE q = p
  <2>1. file[p] \in Seq(Actors) /\ Once(file[p])
    BY <1>4 DEF Typed, Queued
  <2>2. /\ Once(Tail(file[p]))
        /\ \A y : InLine(Tail(file[p]), y) <=> InLine(file[p], y) /\ y # Head(file[p])
    BY <1>2, <2>1, QueueTail
  <2> QED BY <1>1, <1>2, <1>4, <2>2 DEF Queued
<1> QED BY <1>3, <1>4

LEMMA QueuedStep ==
    ASSUME Typed, [Next]_vars, NEW q \in Ports, Queued(q)
    PROVE  Queued(q)'
<1>1. CASE UNCHANGED <<job, file>>
  BY <1>1 DEF Queued
<1>2. ASSUME NEW p \in Ports, NEW t \in Tasks, Send(p, t) \/ WriteAll(p, t) \/ WriteCut(p, t)
      PROVE  Queued(q)'
  <2>1. Send(p, t) \/ Writing(p, t)
    BY <1>2 DEF WriteAll, WriteCut
  <2> QED BY <2>1, QueuedSend, QueuedWriting
<1>3. ASSUME NEW p \in Ports, ByteChanges(p) \/ ByteLost(p) \/ NoiseArrives(p)
      PROVE  Queued(q)'
  BY <1>1, <1>3 DEF ByteChanges, ByteLost, NoiseArrives
<1>4. ASSUME NEW p \in Ports, Listens(p) \/ Read(p) \/ ReadTimesOut(p)
      PROVE  Queued(q)'
  <2>1. CASE Listens(p)
    BY <2>1, QueuedListens
  <2>2. CASE Read(p) \/ ReadTimesOut(p)
    <3>1. Holds(p, "recv") /\ Releases(p) /\ UNCHANGED job
      BY <2>2 DEF Read, Reads, ReadTimesOut
    <3> QED BY <3>1, QueuedRecvEnds
  <2> QED BY <1>4, <2>1, <2>2
<1>5. (UNCHANGED vars) => UNCHANGED <<job, file>>
  BY DEF vars
<1> QED BY <1>1, <1>2, <1>3, <1>4, <1>5 DEF Next

---------------------------------------------------------------------------
(* What was offered stays so, and what a task has to write was offered. *)

JobOffered(p, t) ==
    job[p][t] # <<>> => \E m \in OfferedSet(p) : job[p][t] = Wire(m)

LEMMA SendOffers ==
    ASSUME Typed, NEW q \in Ports, NEW p \in Ports, NEW t \in Tasks,
           NEW req \in Requests[p][t], Sendable(req),
           sent' = [sent EXCEPT ![p][t] = Append(@, MessageOf(req))]
    PROVE  /\ OfferedSet(q) \subseteq OfferedSet(q)'
           /\ MessageOf(req) \in OfferedSet(p)'
<1> DEFINE m == MessageOf(req)
           s == sent[p][t]
           n == Len(s)
<1>1. m \in Offers[p] /\ m \in Msgs
  BY Sends
<1>2. s \in Seq(Msgs)
  BY DEF Typed
<1>3. sent' = [sent EXCEPT ![p][t] = Append(s, m)]
  OBVIOUS
<1> HIDE DEF m
<1>4. n \in Nat /\ DOMAIN s = 1..n
  BY <1>2, LenProperties
<1>5. /\ Append(s, m) \in Seq(Msgs) /\ Len(Append(s, m)) = n + 1
      /\ \A k \in 1..n : Append(s, m)[k] = s[k]
      /\ Append(s, m)[n + 1] = m
  BY <1>1, <1>2, AppendProperties
<1>6. DOMAIN Append(s, m) = 1..(n + 1)
  BY <1>5, LenProperties
<1>7. /\ sent'[p][t] = Append(s, m)
      /\ \A r \in Ports, u \in Tasks : (r # p \/ u # t) => sent'[r][u] = sent[r][u]
  BY <1>3 DEF Typed
<1>8. s = sent[p][t]
  OBVIOUS
<1> HIDE DEF s, n
<1>9. \A k \in 1..n : k \in 1..(n + 1)
  BY <1>4
<1>10. n + 1 \in 1..(n + 1)
  BY <1>4
<1>11. ASSUME NEW r \in Ports, NEW x, Offered(r, x) PROVE Offered(r, x)'
  <2>1. PICK u \in Tasks : \E k \in DOMAIN sent[r][u] : sent[r][u][k] = x
    BY <1>11 DEF Offered
  <2>2. PICK k \in DOMAIN sent[r][u] : sent[r][u][k] = x
    BY <2>1
  <2>3. k \in DOMAIN sent'[r][u] /\ sent'[r][u][k] = x
    <3>1. CASE r = p /\ u = t
      BY <1>4, <1>5, <1>6, <1>7, <1>8, <1>9, <2>2, <3>1
    <3>2. CASE r # p \/ u # t
      BY <1>7, <2>2, <3>2
    <3> QED BY <3>1, <3>2
  <2> QED BY <2>3 DEF Offered
<1>12. Offered(p, m)'
  BY <1>5, <1>6, <1>7, <1>10 DEF Offered, m
<1> QED BY <1>1, <1>11, <1>12 DEF OfferedSet, m

LEMMA OfferedStep ==
    ASSUME Typed, [Next]_vars, NEW q \in Ports
    PROVE  OfferedSet(q) \subseteq OfferedSet(q)'
<1>1. CASE UNCHANGED sent
  BY <1>1 DEF OfferedSet, Offered
<1>2. ASSUME NEW p \in Ports, NEW t \in Tasks, Send(p, t)
      PROVE  OfferedSet(q) \subseteq OfferedSet(q)'
  BY <1>1, <1>2, SendOffers DEF Send
<1>3. \/ UNCHANGED sent
      \/ \E p \in Ports, t \in Tasks : Send(p, t)
  BY DEF Next, vars, WriteAll, WriteCut, Writing, ByteChanges, ByteLost, NoiseArrives,
         Listens, Read, Reads, ReadTimesOut
<1> QED BY <1>1, <1>2, <1>3

\* Only a call of send() gives a task something to write.
LEMMA JobStep ==
    ASSUME Typed, [Next]_vars, NEW q \in Ports, NEW u \in Tasks, JobOffered(q, u)
    PROVE  JobOffered(q, u)'
<1>1. CASE job'[q][u] = job[q][u]
  BY <1>1, OfferedStep DEF JobOffered
<1>2. CASE job'[q][u] = <<>>
  BY <1>2 DEF JobOffered
<1>3. ASSUME NEW p \in Ports, NEW t \in Tasks, Send(p, t)
      PROVE  JobOffered(q, u)'
  <2>1. PICK req \in Requests[p][t] :
           IF Sendable(req)
           THEN /\ job' = [job EXCEPT ![p][t] = Wire(MessageOf(req))]
                /\ sent' = [sent EXCEPT ![p][t] = Append(@, MessageOf(req))]
           ELSE UNCHANGED job
    BY <1>3 DEF Send
  <2>2. CASE Sendable(req) /\ q = p /\ u = t
    <3>1. job'[q][u] = Wire(MessageOf(req))
      BY <2>1, <2>2 DEF Typed
    <3>2. MessageOf(req) \in OfferedSet(p)'
      BY <2>1, <2>2, SendOffers
    <3> QED BY <2>2, <3>1, <3>2 DEF JobOffered
  <2>3. CASE ~(Sendable(req) /\ q = p /\ u = t)
    <3>1. CASE Sendable(req) /\ ~(q = p /\ u = t)
      <4> DEFINE w == Wire(MessageOf(req))
      <4>1. job' = [job EXCEPT ![p][t] = w]
        BY <2>1, <3>1
      <4>2. job \in [Ports -> [Tasks -> Seq(Byte)]]
        BY DEF Typed
      <4> HIDE DEF w
      <4>3. job'[q][u] = job[q][u]
        BY <3>1, <4>1, <4>2
      <4> QED BY <1>1, <4>3
    <3>2. CASE ~Sendable(req)
      <4>1. job' = job
        BY <2>1, <3>2
      <4> QED BY <1>1, <4>1
    <3> QED BY <2>3, <3>1, <3>2
  <2> QED BY <2>2, <2>3
<1>4. ASSUME NEW p \in Ports, NEW t \in Tasks, WriteAll(p, t) \/ WriteCut(p, t)
      PROVE  JobOffered(q, u)'
  <2>1. job' = [job EXCEPT ![p][t] = <<>>]
    BY <1>4 DEF WriteAll, WriteCut, Writing
  <2>2. job'[q][u] = job[q][u] \/ job'[q][u] = <<>>
    BY <2>1 DEF Typed
  <2> QED BY <1>1, <1>2, <2>2
<1>5. \/ UNCHANGED job
      \/ \E p \in Ports, t \in Tasks : Send(p, t) \/ WriteAll(p, t) \/ WriteCut(p, t)
  BY DEF Next, vars, ByteChanges, ByteLost, NoiseArrives, Listens, Read, Reads, ReadTimesOut
<1> QED BY <1>1, <1>3, <1>4, <1>5
---------------------------------------------------------------------------
(* Every marker in a sound buffer begins a frame that was offered, and where *)
(* writes were cut short, a frame or a part of one.                        *)

SoundFor(s, offered) ==
    \A i \in DOMAIN s : Marker(s, i) =>
        (\E m \in offered : FrameAt(s, i, m)) \/ AnnouncesNothing(s, i)

Piece(s, i, m, k) == PartAt(s, i, m, k) /\ (k = WireLen(m) \/ PieceAt(s, i + k))

PartsFor(s, offered) ==
    \A i \in DOMAIN s : Marker(s, i) =>
        \E m \in offered : \E k \in 1..WireLen(m) : Piece(s, i, m, k)

OnlyCuts(p) == harm[p] \subseteq {"cut"}

Buffer(p) ==
    /\ Sound(p) => SoundFor(line[p], OfferedSet(Peer(p)))
    /\ OnlyCuts(p) => PartsFor(line[p], OfferedSet(Peer(p)))

LEMMA SoundIsFor ==
    ASSUME NEW p \in Ports, NEW s
    PROVE  SoundBytes(p, s) <=> SoundFor(s, OfferedSet(Peer(p)))
BY DEF SoundBytes, SoundFor, Begins

LEMMA ForMore ==
    ASSUME NEW s, NEW A, NEW B, A \subseteq B
    PROVE  (SoundFor(s, A) => SoundFor(s, B)) /\ (PartsFor(s, A) => PartsFor(s, B))
BY DEF SoundFor, PartsFor

LEMMA ForNothing == ASSUME NEW A PROVE SoundFor(<<>>, A) /\ PartsFor(<<>>, A)
<1>1. \A i \in DOMAIN <<>> : FALSE
  BY EmptySeq
<1> QED BY <1>1 DEF SoundFor, PartsFor

\* What is read off the front leaves parts of frames.
LEMMA PartsSuffix ==
    ASSUME NEW A, NEW s \in Seq(Byte), PartsFor(s, A), NEW n \in Nat, n <= Len(s),
           \A m \in A : Sent(m)
    PROVE  PartsFor(SubSeq(s, n + 1, Len(s)), A)
<1> DEFINE z == Len(s)
           u == SubSeq(s, n + 1, z)
<1>1. z \in Nat /\ DOMAIN s = 1..z /\ \A i \in 1..z : s[i] \in Byte
  BY LenProperties
<1>2. n <= z
  OBVIOUS
<1>3. Len(s) = z
  OBVIOUS
<1> HIDE DEF z
<1>4. n + 1 \in Int /\ z \in Int /\ \A i \in (n + 1)..z : s[i] \in Byte
  BY <1>1
<1>5. /\ u \in Seq(Byte) /\ Len(u) = (IF n + 1 <= z THEN z - (n + 1) + 1 ELSE 0)
      /\ \A i \in 1..(z - (n + 1) + 1) : u[i] = s[(n + 1) + i - 1]
  BY <1>4, SubSeqProperties
<1> HIDE DEF u
<1>6. Len(u) = z - n
  BY <1>1, <1>2, <1>5
<1>7. DOMAIN u = 1..(z - n)
  BY <1>5, <1>6, LenProperties
<1>8. \A i \in 1..(z - n) : u[i] = s[n + i]
  <2> TAKE i \in 1..(z - n)
  <2>1. i \in 1..(z - (n + 1) + 1) /\ (n + 1) + i - 1 = n + i
    BY <1>1
  <2> QED BY <1>5, <2>1
<1>9. ASSUME NEW i \in DOMAIN u, Marker(u, i)
      PROVE  \E m \in A : \E k \in 1..WireLen(m) : Piece(u, i, m, k)
  <2>1. i \in 1..(z - n) /\ i + 1 \in 1..(z - n) /\ u[i] = 235 /\ u[i + 1] = 144
    BY <1>7, <1>9 DEF Marker
  <2>2. n + i \in 1..z /\ (n + i) + 1 \in 1..z /\ n + (i + 1) = (n + i) + 1 /\ i \in Nat
    BY <1>1, <2>1
  <2>3. s[n + i] = 235 /\ s[(n + i) + 1] = 144
    BY <1>8, <2>1, <2>2
  <2>4. PICK m \in A : \E k \in 1..WireLen(m) : Piece(s, n + i, m, k)
    BY <1>1, <2>2, <2>3 DEF PartsFor, Marker
  <2>5. WireLen(m) \in Nat
    <3>1. Len(m.data) \in Nat /\ WireLen(m) = Len(m.data) + 9
      BY WireShape
    <3> DEFINE d == Len(m.data)
    <3> HIDE DEF d
    <3>2. d \in Nat /\ WireLen(m) = d + 9
      BY <3>1 DEF d
    <3> QED BY <3>2
  <2>6. PICK k \in 1..WireLen(m) : Piece(s, n + i, m, k)
    BY <2>4
  <2> DEFINE w == Wire(m)
             l == WireLen(m)
  <2>7. /\ (n + i) + k - 1 <= z /\ \A x \in 1..k : s[(n + i) + x - 1] = w[x]
        /\ k = l \/ PieceAt(s, (n + i) + k)
    BY <1>3, <2>6 DEF Piece, PartAt
  <2>8. k \in 1..l /\ l \in Nat
    BY <2>5
  <2> HIDE DEF w, l
  <2>9. i + k - 1 <= z - n
    BY <1>1, <2>1, <2>7, <2>8
  <2>10. \A x \in 1..k : u[i + x - 1] = w[x]
    <3> TAKE x \in 1..k
    <3>1. i + x - 1 \in 1..(z - n) /\ n + (i + x - 1) = (n + i) + x - 1
      BY <1>1, <2>1, <2>8, <2>9
    <3> QED BY <1>8, <2>7, <3>1
  <2>11. k = l \/ PieceAt(u, i + k)
    <3>1. CASE k = l
      BY <3>1
    <3> DEFINE j == i + k
    <3>2. j \in Nat /\ j >= 1 /\ (n + i) + k = n + j
      BY <1>1, <2>1, <2>8
    <3> HIDE DEF j
    <3>3. CASE n + j = z + 1
      <4>1. j = Len(u) + 1
        BY <1>1, <1>6, <3>2, <3>3
      <4> QED BY <4>1 DEF PieceAt, j
    <3>4. CASE /\ s[n + j] = 235 /\ n + j <= z
               /\ n + j = z \/ s[(n + j) + 1] \in {144, 235}
      <4>1. j \in 1..(z - n)
        BY <1>1, <3>2, <3>4
      <4>2. u[j] = 235
        BY <1>8, <3>4, <4>1
      <4>3. CASE n + j = z
        <5>1. j = Len(u)
          BY <1>1, <1>6, <3>2, <4>3
        <5> QED BY <4>2, <5>1 DEF PieceAt, j
      <4>4. CASE n + j # z /\ s[(n + j) + 1] \in {144, 235}
        <5>1. j + 1 \in 1..(z - n) /\ n + (j + 1) = (n + j) + 1
          BY <1>1, <3>2, <3>4, <4>4
        <5>2. u[j + 1] \in {144, 235}
          BY <1>8, <4>4, <5>1
        <5> QED BY <4>2, <5>2 DEF PieceAt, j
      <4> QED BY <3>4, <4>3, <4>4
    <3>5. k # l => \/ n + j = z + 1
                   \/ (s[n + j] = 235 /\ (n + j = z \/ s[(n + j) + 1] \in {144, 235}))
      BY <1>3, <2>7, <3>2 DEF PieceAt
    <3>6. n + j <= z + 1
      <4>1. (n + i) + k - 1 <= z /\ z \in Nat /\ i \in Nat /\ k \in Nat
        BY <1>1, <2>1, <2>7, <2>8
      <4> QED BY <3>2, <4>1
    <3>7. n + j = z + 1 \/ n + j <= z
      BY <1>1, <3>2, <3>6
    <3> QED BY <3>1, <3>3, <3>4, <3>5, <3>7
  <2>12. Piece(u, i, m, k)
    BY <1>6, <2>9, <2>10, <2>11 DEF Piece, PartAt, w, l
  <2> QED BY <2>12
<1> QED BY <1>3, <1>9 DEF PartsFor, u

\* A frame, or its beginning, behind parts of frames.
LEMMA PartsConcat ==
    ASSUME NEW A, NEW s \in Seq(Byte), PartsFor(s, A), \A m \in A : Sent(m),
           NEW f \in A, Plain(Wire(f)), NEW v \in Seq(Byte),
           Len(v) <= WireLen(f), \A x \in 1..Len(v) : v[x] = Wire(f)[x]
    PROVE  PartsFor(s \o v, A)
<1> DEFINE a == Len(s)
           b == Len(v)
           u == s \o v
           w == Wire(f)
<1>1. /\ a \in Nat /\ b \in Nat
      /\ u \in Seq(Byte) /\ Len(u) = a + b /\ DOMAIN u = 1..(a + b)
      /\ \A i \in 1..a : u[i] = s[i]
      /\ \A i \in 1..b : u[a + i] = v[i]
  BY ConcatParts
<1>2. DOMAIN s = 1..a /\ DOMAIN v = 1..b
  BY LenProperties
<1>3. Len(s) = a /\ Len(v) = b
  OBVIOUS
<1>4. /\ w \in Seq(Byte) /\ Len(w) = WireLen(f) /\ w[1] = 235 /\ w[2] = 144
      /\ \A x \in 1..b : v[x] = w[x]
  <2>1. Sent(f)
    OBVIOUS
  <2>2. /\ w \in Seq(Byte) /\ Len(w) = Len(f.data) + 9 /\ WireLen(f) = Len(f.data) + 9
        /\ w[1] = 235 /\ w[2] = 144
    BY <2>1, WireShape
  <2>3. \A x \in 1..b : v[x] = w[x]
    OBVIOUS
  <2> HIDE DEF w
  <2> QED BY <2>2, <2>3
<1>5. DOMAIN w = 1..WireLen(f) /\ WireLen(f) \in Nat /\ b <= WireLen(f)
  BY <1>4, LenProperties
<1> DEFINE l == WireLen(f)
<1>6. DOMAIN w = 1..l /\ l \in Nat /\ b <= l
  BY <1>5
<1>7. b >= 1 => u[a + 1] = 235
  <2>1. b >= 1 => 1 \in 1..b
    BY <1>1
  <2> HIDE DEF a, b, u, w
  <2> QED BY <1>1, <1>4, <2>1
<1>8. b >= 2 => u[(a + 1) + 1] = 144
  <2>1. b >= 2 => 2 \in 1..b
    BY <1>1
  <2> HIDE DEF b, u, w
  <2>2. b >= 2 => u[a + 2] = 144
    BY <1>1, <1>4, <2>1
  <2>3. a + 2 = (a + 1) + 1
    BY <1>1
  <2> QED BY <2>2, <2>3
<1> HIDE DEF a, b, u, w, l
<1>9. PieceAt(u, a + 1)
  <2>1. CASE b = 0
    BY <1>1, <2>1 DEF PieceAt
  <2>2. CASE b = 1
    BY <1>1, <1>7, <2>2 DEF PieceAt
  <2>3. CASE b >= 2
    BY <1>1, <1>7, <1>8, <2>3 DEF PieceAt
  <2> QED BY <1>1, <2>1, <2>2, <2>3
<1>10. ASSUME NEW j \in Nat, j >= 1, j <= a + 1, PieceAt(s, j) PROVE PieceAt(u, j)
  <2>1. CASE j = a + 1
    BY <1>9, <2>1
  <2>2. CASE j = a /\ s[j] = 235
    <3>1. u[j] = 235
      BY <1>1, <1>10, <2>2
    <3>2. CASE b = 0
      BY <1>1, <2>2, <3>1, <3>2 DEF PieceAt
    <3>3. CASE b >= 1
      <4>1. u[j + 1] \in {144, 235}
        BY <1>7, <2>2, <3>3
      <4> QED BY <3>1, <4>1 DEF PieceAt
    <3> QED BY <1>1, <3>2, <3>3
  <2>3. CASE j < a /\ s[j] = 235 /\ s[j + 1] \in {144, 235}
    <3>1. j \in 1..a /\ j + 1 \in 1..a
      BY <1>1, <1>10, <2>3
    <3>2. u[j] = 235 /\ u[j + 1] \in {144, 235}
      BY <1>1, <2>3, <3>1
    <3> QED BY <3>2 DEF PieceAt
  <2>4. \/ j = a + 1
        \/ s[j] = 235 /\ j = a
        \/ s[j] = 235 /\ j # a /\ s[j + 1] \in {144, 235}
    BY <1>3, <1>10 DEF PieceAt
  <2>5. j = a + 1 \/ j = a \/ j < a
    BY <1>1, <1>10
  <2> QED BY <2>1, <2>2, <2>3, <2>4, <2>5
<1>11. ASSUME NEW i \in DOMAIN u, Marker(u, i)
       PROVE  \E m \in A : \E k \in 1..WireLen(m) : Piece(u, i, m, k)
  <2>1. i \in 1..(a + b) /\ i + 1 \in 1..(a + b) /\ u[i] = 235 /\ u[i + 1] = 144
    BY <1>1, <1>11 DEF Marker
  <2>2. CASE i < a
    <3>1. i \in 1..a /\ i + 1 \in 1..a /\ i \in Nat
      BY <1>1, <2>1, <2>2
    <3>2. Marker(s, i)
      BY <1>1, <1>2, <2>1, <3>1 DEF Marker
    <3>3. PICK m \in A : \E k \in 1..WireLen(m) : Piece(s, i, m, k)
      BY <1>2, <3>1, <3>2 DEF PartsFor
    <3>4. PICK k \in 1..WireLen(m) : Piece(s, i, m, k)
      BY <3>3
    <3>5. WireLen(m) \in Nat
      <4>1. Len(m.data) \in Nat /\ WireLen(m) = Len(m.data) + 9
        BY WireShape
      <4> DEFINE d == Len(m.data)
      <4> HIDE DEF d
      <4>2. d \in Nat /\ WireLen(m) = d + 9
        BY <4>1 DEF d
      <4> QED BY <4>2
    <3> DEFINE z == Wire(m)
    <3>6. /\ i + k - 1 <= a /\ \A x \in 1..k : s[i + x - 1] = z[x]
          /\ k = WireLen(m) \/ PieceAt(s, i + k)
      BY <1>3, <3>4 DEF Piece, PartAt
    <3>7. k \in Nat /\ k >= 1
      BY <3>5
    <3> HIDE DEF z
    <3>8. i + k - 1 <= a + b
      BY <1>1, <3>1, <3>6, <3>7
    <3>9. \A x \in 1..k : u[i + x - 1] = z[x]
      <4> TAKE x \in 1..k
      <4>1. i + x - 1 \in 1..a
        BY <1>1, <3>1, <3>6, <3>7
      <4> QED BY <1>1, <3>6, <4>1
    <3>10. i + k \in Nat /\ i + k >= 1 /\ i + k <= a + 1
      BY <1>1, <3>1, <3>6, <3>7
    <3>11. k = WireLen(m) \/ PieceAt(u, i + k)
      BY <1>10, <3>6, <3>10
    <3>12. Piece(u, i, m, k)
      BY <1>1, <3>8, <3>9, <3>11 DEF Piece, PartAt, z
    <3> QED BY <3>12
  <2>3. CASE i = a
    <3>1. b >= 1
      BY <1>1, <2>1, <2>3
    <3> QED BY <1>7, <2>1, <2>3, <3>1
  <2>4. CASE i > a
    <3> DEFINE j == i - a
    <3>1. j \in 1..b /\ j + 1 \in 1..b /\ a + j = i /\ a + (j + 1) = i + 1
      BY <1>1, <2>1, <2>4, LaterIndex
    <3> HIDE DEF j
    <3>2. j \in 1..l /\ j + 1 \in 1..l
      BY <1>1, <1>6, <3>1, WithinLonger
    <3>3. w[j] = 235 /\ w[j + 1] = 144
      BY <1>1, <1>4, <2>1, <3>1
    <3>4. Marker(w, j) /\ j \in DOMAIN w
      BY <1>6, <3>2, <3>3 DEF Marker
    <3>5. j = 1
      BY <3>4 DEF Plain, w
    <3>6. b \in 1..l
      BY <1>1, <1>6, <3>1
    <3>7. i + b - 1 = a + b /\ i + b = (a + b) + 1 /\ \A x \in 1..b : i + x - 1 = a + x
      <4>1. a \in Nat /\ b \in Nat
        BY <1>1
      <4>2. i = a + 1
        BY <3>1, <3>5
      <4>3. /\ (a + 1) + b - 1 = a + b /\ (a + 1) + b = (a + b) + 1
            /\ \A x \in 1..b : (a + 1) + x - 1 = a + x
        BY <4>1, AllIndices
      <4> QED BY <4>2, <4>3
    <3>8. \A x \in 1..b : u[i + x - 1] = w[x]
      <4> SUFFICES ASSUME NEW x \in 1..b PROVE u[i + x - 1] = w[x]
        OBVIOUS
      <4>1. u[a + x] = w[x]
        BY <1>1, <1>4
      <4>2. i + x - 1 = a + x
        BY <3>7
      <4> QED BY <4>1, <4>2
    <3>9. PieceAt(u, i + b)
      BY <1>1, <3>7 DEF PieceAt
    <3>10. i + b - 1 <= a + b
      BY <1>1, <3>7
    <3>11. Piece(u, i, f, b)
      BY <1>1, <3>8, <3>9, <3>10 DEF Piece, PartAt, w
    <3> QED BY <3>6, <3>11 DEF l
  <2> QED BY <1>1, <2>1, <2>2, <2>3, <2>4
<1> QED BY <1>11 DEF PartsFor, u

\* A buffer keeps its invariant when its bytes stay, or have the parts that
\* its history calls for.
LEMMA BufferStays ==
    ASSUME Typed, [Next]_vars, NEW q \in Ports, Buffer(q),
           harm'[q] = harm[q], line'[q] = line[q]
    PROVE  Buffer(q)'
<1>1. OfferedSet(Peer(q)) \subseteq OfferedSet(Peer(q))'
  BY Peers, OfferedStep
<1>2. /\ SoundFor(line[q], OfferedSet(Peer(q))) => SoundFor(line[q], OfferedSet(Peer(q))')
      /\ PartsFor(line[q], OfferedSet(Peer(q))) => PartsFor(line[q], OfferedSet(Peer(q))')
  BY <1>1, ForMore
<1> QED BY <1>2 DEF Buffer, Sound, OnlyCuts

LEMMA BufferBecomes ==
    ASSUME Typed, [Next]_vars, NEW q \in Ports,
           \/ line'[q] = <<>>
           \/ /\ Sound(q)' => SoundBytes(q, line'[q])
              /\ OnlyCuts(q)' => PartsFor(line'[q], OfferedSet(Peer(q)))
    PROVE  Buffer(q)'
<1>1. OfferedSet(Peer(q)) \subseteq OfferedSet(Peer(q))'
  BY Peers, OfferedStep
<1>2. /\ SoundFor(line'[q], OfferedSet(Peer(q))) => SoundFor(line'[q], OfferedSet(Peer(q))')
      /\ PartsFor(line'[q], OfferedSet(Peer(q))) => PartsFor(line'[q], OfferedSet(Peer(q))')
  BY <1>1, ForMore
<1>3. SoundBytes(q, line'[q]) <=> SoundFor(line'[q], OfferedSet(Peer(q)))
  BY SoundIsFor
<1>4. SoundFor(<<>>, OfferedSet(Peer(q))') /\ PartsFor(<<>>, OfferedSet(Peer(q))')
  BY ForNothing
<1> QED BY <1>2, <1>3, <1>4 DEF Buffer

\* What a step does to the bytes of a port is on record while one is left.
LEMMA HarmsStay ==
    ASSUME Typed, NEW q \in Ports, NEW kinds \in SUBSET Harm, Harms(q, kinds)
    PROVE  \/ line'[q] = <<>>
           \/ /\ Sound(q)' => Sound(q) /\ kinds \subseteq {"noise"}
              /\ OnlyCuts(q)' => OnlyCuts(q) /\ kinds \subseteq {"cut"}
BY HarmsTyped DEF Sound, OnlyCuts

LEMMA OfferedSent == ASSUME NEW p \in Ports PROVE \A m \in OfferedSet(p) : Sent(m)
BY OfferFacts DEF OfferedSet

\* A task that holds the mutex has an offered frame to write.
LEMMA WritesOffered ==
    ASSUME Typed, NEW p \in Ports, NEW t \in Tasks, Writing(p, t), Queued(p), JobOffered(p, t)
    PROVE  \E m \in OfferedSet(p) : job[p][t] = Wire(m)
<1>1. file[p] \in Seq(Actors) /\ file[p] # <<>> /\ Head(file[p]) = t
  BY DEF Typed, Writing, Holds
<1>2. 1 \in DOMAIN file[p] /\ file[p][1] = t
  BY <1>1
<1>3. job[p][t] # <<>>
  BY <1>2 DEF Queued, InLine
<1> QED BY <1>3 DEF JobOffered

\* A write leaves its frame, or the beginning of it, at the other port.
LEMMA BufferWrites ==
    ASSUME Typed, [Next]_vars, NEW q \in Ports, Buffer(q),
           NEW p \in Ports, NEW t \in Tasks, Writing(p, t), Queued(p), JobOffered(p, t),
           NEW v \in Seq(Byte), line' = [line EXCEPT ![Peer(p)] = @ \o v],
           Len(v) <= Len(job[p][t]), \A x \in 1..Len(v) : v[x] = job[p][t][x],
           NEW kinds \in SUBSET Harm, Harms(Peer(p), kinds),
           Marks(job[p][t]) \subseteq kinds, v = job[p][t] \/ "cut" \in kinds
    PROVE  Buffer(q)'
<1> DEFINE s == line[q]
           A == OfferedSet(p)
<1>1. Peer(p) \in Ports /\ Peer(Peer(p)) = p
  BY Peers
<1>2. CASE q # Peer(p)
  <2>1. harm'[q] = harm[q]
    BY <1>1, <1>2, HarmsTyped
  <2>2. line'[q] = line[q]
    BY <1>2 DEF Typed
  <2> QED BY <2>1, <2>2, BufferStays
<1>3. CASE q = Peer(p)
  <2>1. PICK m \in A : job[p][t] = Wire(m)
    BY WritesOffered
  <2>2. Peer(q) = p
    BY <1>1, <1>3
  <2>3. s \in Seq(Byte) /\ line'[q] = s \o v
    BY <1>3 DEF Typed
  <2>4. Sent(m) /\ \A x \in A : Sent(x)
    BY OfferedSent
  <2>5. Len(v) <= WireLen(m) /\ \A x \in 1..Len(v) : v[x] = Wire(m)[x]
    <3>1. WireLen(m) = Len(Wire(m))
      BY <2>4, WireShape
    <3> QED BY <2>1, <3>1
  <2>6. (kinds \subseteq {"noise"} \/ kinds \subseteq {"cut"}) => Plain(Wire(m))
    BY <2>1 DEF Marks
  <2>7. (Sound(q) => SoundBytes(q, s)) /\ (OnlyCuts(q) => PartsFor(s, A))
    BY <2>2, SoundIsFor DEF Buffer
  <2> HIDE DEF s, A
  <2>8. ASSUME Sound(q), kinds \subseteq {"noise"} PROVE SoundBytes(q, s \o v)
    <3>1. v = Wire(m) /\ Plain(Wire(m)) /\ SoundBytes(q, s)
      BY <2>1, <2>6, <2>7, <2>8
    <3>2. m \in OfferedSet(Peer(q))
      BY <2>1, <2>2 DEF A
    <3>3. SoundBytes(q, v) /\ v[1] # 144
      BY <3>1, <3>2, WireSound
    <3> QED BY <2>3, <3>1, <3>3, SoundConcat
  <2>9. ASSUME OnlyCuts(q), kinds \subseteq {"cut"} PROVE PartsFor(s \o v, A)
    <3>1. Plain(Wire(m)) /\ PartsFor(s, A)
      BY <2>6, <2>7, <2>9
    <3> QED BY <2>1, <2>3, <2>4, <2>5, <3>1, PartsConcat
  <2>10. \/ line'[q] = <<>>
         \/ /\ Sound(q)' => Sound(q) /\ kinds \subseteq {"noise"}
            /\ OnlyCuts(q)' => OnlyCuts(q) /\ kinds \subseteq {"cut"}
    BY <1>3, HarmsStay
  <2>11. \/ line'[q] = <<>>
         \/ /\ Sound(q)' => SoundBytes(q, line'[q])
            /\ OnlyCuts(q)' => PartsFor(line'[q], OfferedSet(Peer(q)))
    BY <2>2, <2>3, <2>8, <2>9, <2>10 DEF A
  <2> QED BY <2>11, BufferBecomes
<1> QED BY <1>2, <1>3

LEMMA BufferWriteAll ==
    ASSUME Typed, [Next]_vars, NEW q \in Ports, Buffer(q),
           NEW p \in Ports, NEW t \in Tasks, WriteAll(p, t), Queued(p), JobOffered(p, t)
    PROVE  Buffer(q)'
<1> DEFINE w == job[p][t]
<1>1. /\ Writing(p, t) /\ line' = [line EXCEPT ![Peer(p)] = @ \o w]
      /\ Harms(Peer(p), Marks(w)) /\ Marks(w) \in SUBSET Harm
  BY MarksHarm DEF WriteAll
<1>2. w \in Seq(Byte) /\ Len(w) \in Nat
  <2>1. w \in Seq(Byte)
    BY DEF Typed
  <2> QED BY <2>1, LenProperties
<1>3. Len(w) <= Len(w)
  <2> DEFINE n == Len(w)
  <2>1. n \in Nat
    BY <1>2
  <2> HIDE DEF n
  <2>2. n <= n
    BY <2>1
  <2> QED BY <2>2 DEF n
<1> QED BY <1>1, <1>2, <1>3, BufferWrites

LEMMA BufferWriteCut ==
    ASSUME Typed, [Next]_vars, NEW q \in Ports, Buffer(q),
           NEW p \in Ports, NEW t \in Tasks, WriteCut(p, t), Queued(p), JobOffered(p, t)
    PROVE  Buffer(q)'
<1> DEFINE w == job[p][t]
           z == Len(w)
           kinds == Marks(w) \cup {"cut"}
<1>1. PICK n \in 0..(z - 1) : line' = [line EXCEPT ![Peer(p)] = @ \o SubSeq(w, 1, n)]
  BY DEF WriteCut
<1>2. Writing(p, t) /\ Harms(Peer(p), kinds) /\ kinds \in SUBSET Harm
  <2>1. kinds \in SUBSET Harm
    BY MarksHarm DEF Harm
  <2> QED BY <2>1 DEF WriteCut
<1>3. w \in Seq(Byte)
  BY DEF Typed
<1>4. z \in Nat /\ \A i \in 1..z : w[i] \in Byte
  BY <1>3, LenProperties
<1> DEFINE v == SubSeq(w, 1, n)
<1>5. v \in Seq(Byte) /\ Len(v) <= z /\ \A x \in 1..Len(v) : v[x] = w[x]
  <2> HIDE DEF z, w
  <2>1. n \in Nat /\ n <= z /\ 1 \in Int /\ n \in Int
    BY <1>4
  <2>2. \A i \in 1..n : w[i] \in Byte /\ 1 + i - 1 = i
    BY <1>4, <2>1
  <2>3. /\ v \in Seq(Byte) /\ Len(v) = IF 1 <= n THEN n - 1 + 1 ELSE 0
        /\ \A i \in 1..(n - 1 + 1) : v[i] = w[1 + i - 1]
    BY <2>1, <2>2, SubSeqProperties
  <2> HIDE DEF v
  <2>4. Len(v) = n /\ n - 1 + 1 = n
    BY <2>1, <2>3
  <2> QED BY <2>1, <2>2, <2>3, <2>4
<1>6. Len(v) <= Len(w)
  BY <1>5
<1>7. "cut" \in kinds /\ Marks(w) \subseteq kinds
  OBVIOUS
<1>8. line' = [line EXCEPT ![Peer(p)] = @ \o v]
  BY <1>1
<1> HIDE DEF v, kinds, z
<1> QED BY <1>2, <1>5, <1>6, <1>7, <1>8, BufferWrites

LEMMA BufferNoise ==
    ASSUME Typed, [Next]_vars, NEW q \in Ports, Buffer(q),
           NEW p \in Ports, NoiseArrives(p)
    PROVE  Buffer(q)'
<1> DEFINE s == line[q]
<1>1. PICK w \in Noise[p] : line' = [line EXCEPT ![p] = @ \o w]
  BY DEF NoiseArrives
<1>2. Harms(p, {"noise"}) /\ {"noise"} \in SUBSET Harm
  BY DEF NoiseArrives, Harm
<1>3. CASE q # p
  <2>1. harm'[q] = harm[q]
    BY <1>2, <1>3, HarmsTyped
  <2> QED BY <1>1, <1>3, <2>1, BufferStays DEF Typed
<1>4. CASE q = p
  <2>1. w \in Seq(Byte) /\ SoundBytes(q, w) /\ w[1] # 144
    BY <1>4, NoiseSound
  <2>2. s \in Seq(Byte) /\ line'[q] = s \o w
    BY <1>1, <1>4 DEF Typed
  <2>3. Sound(q) => SoundBytes(q, s)
    BY SoundIsFor DEF Buffer
  <2> HIDE DEF s
  <2>4. Sound(q) => SoundBytes(q, line'[q])
    BY <2>1, <2>2, <2>3, SoundConcat
  <2>5. ~({"noise"} \subseteq {"cut"})
    OBVIOUS
  <2> QED BY <1>2, <1>4, <2>4, <2>5, HarmsStay, BufferBecomes
<1> QED BY <1>3, <1>4

LEMMA BufferReads ==
    ASSUME Typed, [Next]_vars, NEW q \in Ports, Buffer(q),
           NEW p \in Ports, NEW n \in DOMAIN line[p], Reads(p, n)
    PROVE  Buffer(q)'
<1> DEFINE s == line[q]
           rest == SubSeq(s, n + 1, Len(s))
<1>1. /\ line' = [line EXCEPT ![p] = SubSeq(line[p], n + 1, Len(line[p]))]
      /\ Harms(p, {})
  BY DEF Reads
<1>2. CASE q # p
  <2>1. harm'[q] = harm[q]
    BY <1>1, <1>2, HarmsTyped
  <2> QED BY <1>1, <1>2, <2>1, BufferStays DEF Typed
<1>3. CASE q = p
  <2>1. s \in Seq(Byte) /\ line'[q] = rest
    BY <1>1, <1>3 DEF Typed
  <2>2. n \in Nat /\ n <= Len(s)
    BY <1>3, ReadParts
  <2>3. Sound(q) => SoundBytes(q, s)
    BY SoundIsFor DEF Buffer
  <2>4. OnlyCuts(q) => PartsFor(s, OfferedSet(Peer(q)))
    BY DEF Buffer
  <2>5. \A m \in OfferedSet(Peer(q)) : Sent(m)
    BY Peers, OfferedSent
  <2> HIDE DEF s
  <2>6. Sound(q) => SoundBytes(q, rest)
    BY <2>1, <2>2, <2>3, SoundSuffix
  <2>7. OnlyCuts(q) => PartsFor(rest, OfferedSet(Peer(q)))
    BY <2>1, <2>2, <2>4, <2>5, PartsSuffix
  <2> HIDE DEF rest
  <2> QED BY <1>1, <1>3, <2>1, <2>6, <2>7, HarmsStay, BufferBecomes
<1> QED BY <1>2, <1>3

\* Bytes that change or get lost leave nothing to be known of the buffer.
LEMMA BufferHarmed ==
    ASSUME Typed, [Next]_vars, NEW q \in Ports, Buffer(q), NEW p \in Ports,
           NEW kind \in {"change", "lose"}, Harms(p, {kind}),
           \A r \in Ports : r # p => line'[r] = line[r]
    PROVE  Buffer(q)'
<1>1. {kind} \in SUBSET Harm /\ ~({kind} \subseteq {"noise"}) /\ ~({kind} \subseteq {"cut"})
  BY DEF Harm
<1>2. CASE q # p
  BY <1>1, <1>2, HarmsTyped, BufferStays
<1>3. CASE q = p
  BY <1>1, <1>3, HarmsStay, BufferBecomes
<1> QED BY <1>2, <1>3

LEMMA BufferStep ==
    ASSUME Typed, [Next]_vars, NEW q \in Ports, Buffer(q),
           \A p \in Ports : Queued(p),
           \A p \in Ports, t \in Tasks : JobOffered(p, t)
    PROVE  Buffer(q)'
<1>1. CASE UNCHANGED <<line, harm>>
  BY <1>1, BufferStays
<1>2. ASSUME NEW p \in Ports, NEW t \in Tasks, Send(p, t) \/ WriteAll(p, t) \/ WriteCut(p, t)
      PROVE  Buffer(q)'
  <2>1. CASE Send(p, t)
    BY <1>1, <2>1 DEF Send
  <2>2. CASE WriteAll(p, t)
    BY <2>2, BufferWriteAll
  <2>3. CASE WriteCut(p, t)
    BY <2>3, BufferWriteCut
  <2> QED BY <1>2, <2>1, <2>2, <2>3
<1>3. ASSUME NEW p \in Ports, ByteChanges(p) \/ ByteLost(p)
      PROVE  Buffer(q)'
  <2>1. PICK kind \in {"change", "lose"} : Harms(p, {kind})
    BY <1>3 DEF ByteChanges, ByteLost
  <2>2. \A r \in Ports : r # p => line'[r] = line[r]
    BY <1>3 DEF ByteChanges, ByteLost, Typed
  <2> QED BY <2>1, <2>2, BufferHarmed
<1>4. ASSUME NEW p \in Ports, NoiseArrives(p) \/ Read(p)
      PROVE  Buffer(q)'
  BY <1>4, BufferNoise, BufferReads DEF Read
<1>5. ASSUME NEW p \in Ports, Listens(p) \/ ReadTimesOut(p)
      PROVE  Buffer(q)'
  BY <1>1, <1>5 DEF Listens, ReadTimesOut
<1>6. (UNCHANGED vars) => UNCHANGED <<line, harm>>
  BY DEF vars
<1> QED BY <1>1, <1>2, <1>3, <1>4, <1>5, <1>6 DEF Next

---------------------------------------------------------------------------
(* The invariant. *)

LEMMA Parts ==
    LineInv <=> /\ Typed
                /\ \A p \in Ports : Queued(p) /\ Buffer(p)
                /\ \A p \in Ports, t \in Tasks : JobOffered(p, t)
<1>1. TypeOK <=> Typed /\ \A p \in Ports : Queued(p)
  BY DEF TypeOK, Typed, Queued, Waits, InLine, Once, Actors, Harm
<1>2. MarkersBegin /\ PartsBegin <=> \A p \in Ports : Buffer(p)
  BY DEF MarkersBegin, PartsBegin, Buffer, SoundFor, PartsFor, Piece, OnlyCuts, Begins, BeginsPart
<1>3. JobsOffered <=> \A p \in Ports, t \in Tasks : JobOffered(p, t)
  BY DEF JobsOffered, JobOffered
<1> QED BY <1>1, <1>2, <1>3 DEF LineInv

LEMMA InvInit == Init => LineInv
<1> SUFFICES ASSUME Init PROVE LineInv
  OBVIOUS
<1>1. <<>> \in Seq(Byte) /\ <<>> \in Seq(Actors) /\ <<>> \in Seq(Msgs)
  BY EmptySeq
<1>2. 0 \in 0..MaxSends /\ 0 \in 0..MaxFaults
  BY UartAssumption
<1>3. Typed
  BY <1>1, <1>2 DEF Init, Typed
<1>4. \A i \in DOMAIN <<>> : FALSE
  BY EmptySeq
<1>5. \A p \in Ports : Queued(p)
  BY <1>4 DEF Init, Queued, InLine, Once
<1>6. \A p \in Ports : Buffer(p)
  BY ForNothing DEF Init, Buffer
<1>7. \A p \in Ports, t \in Tasks : JobOffered(p, t)
  BY DEF Init, JobOffered
<1> QED BY <1>3, <1>5, <1>6, <1>7, Parts

LEMMA InvStep == LineInv /\ [Next]_vars => LineInv'
<1> SUFFICES ASSUME LineInv, [Next]_vars PROVE LineInv'
  OBVIOUS
<1>1. /\ Typed
      /\ \A p \in Ports : Queued(p) /\ Buffer(p)
      /\ \A p \in Ports, t \in Tasks : JobOffered(p, t)
  BY Parts
<1>2. Typed'
  BY <1>1, TypedStep
<1>3. \A p \in Ports : Queued(p)'
  BY <1>1, QueuedStep
<1>4. \A p \in Ports : Buffer(p)'
  BY <1>1, BufferStep
<1>5. \A p \in Ports, t \in Tasks : JobOffered(p, t)'
  BY <1>1, JobStep
<1>6. /\ Typed'
      /\ (\A p \in Ports : Queued(p) /\ Buffer(p))'
      /\ (\A p \in Ports, t \in Tasks : JobOffered(p, t))'
  BY <1>2, <1>3, <1>4, <1>5
<1> QED BY <1>6, Parts, PTL

\* The bytes that wait in a sound buffer are whole frames from wherever one
\* begins, however writes fail and reads split and join frames; the mutex
\* has each task in its queue once, exactly while it has a frame to write.
THEOREM LineInvariant == Spec => []LineInv
BY InvInit, InvStep, PTL DEF Spec

---------------------------------------------------------------------------
(* The parser takes out of a frame what send() put into it. *)

LEMMA ReceivedOfWire ==
    ASSUME NEW m, Sent(m)
    PROVE  Received(Wire(m)) = m
<1> DEFINE w == Wire(m)
           n == Len(m.data)
           d == SubSeq(w, 9, n + 8)
<1>1. /\ n \in Nat /\ w \in Seq(Byte) /\ Len(w) = n + 9
      /\ w[3] = Platform /\ w[6] = m.type /\ w[7] = m.cmd /\ w[8] = m.id
      /\ \A k \in 1..n : w[8 + k] = m.data[k]
  BY WireShape
<1>2. m \in Msgs /\ m.data \in Seq(Byte) /\ m.dest = Platform
  BY DEF Sent, Msgs
<1>3. Len(m.data) = n
  OBVIOUS
<1> HIDE DEF n, w
<1>4. \A i \in 1..(n + 9) : w[i] \in Byte
  BY <1>1, LenProperties
<1>5. n + 8 \in Int /\ 9 \in Int /\ \A i \in 9..(n + 8) : w[i] \in Byte
  BY <1>1, <1>4
<1>6. /\ d \in Seq(Byte) /\ Len(d) = (IF 9 <= n + 8 THEN (n + 8) - 9 + 1 ELSE 0)
      /\ \A i \in 1..((n + 8) - 9 + 1) : d[i] = w[9 + i - 1]
  BY <1>5, SubSeqProperties
<1> HIDE DEF d
<1>7. Len(d) = n
  BY <1>1, <1>6
<1>8. \A i \in 1..n : d[i] = m.data[i]
  <2> TAKE i \in 1..n
  <2>1. i \in 1..((n + 8) - 9 + 1) /\ 9 + i - 1 = 8 + i
    BY <1>1
  <2> QED BY <1>1, <1>6, <2>1
<1>9. d = m.data
  BY <1>2, <1>3, <1>6, <1>7, <1>8, SeqEqual
<1>10. SubSeq(w, HeadSize + 1, Len(w) - TailSize) = d
  <2>1. HeadSize + 1 = 9 /\ Len(w) - TailSize = n + 8
    BY <1>1 DEF HeadSize, TailSize
  <2> QED BY <2>1 DEF d
<1>11. Received(w) = [dest |-> m.dest, id |-> m.id, type |-> m.type,
                      cmd |-> m.cmd, data |-> m.data]
  BY <1>1, <1>2, <1>9, <1>10 DEF Received
<1>12. m = [dest |-> m.dest, id |-> m.id, type |-> m.type, cmd |-> m.cmd, data |-> m.data]
  BY <1>2 DEF Msgs
<1> QED BY <1>11, <1>12 DEF w

\* The length that send() writes is the one that the parser counts.
LEMMA PayloadOfLength ==
    ASSUME NEW d \in Nat, d <= 159
    PROVE  PayloadLen(0, d + 3) = d
<1>1. 256 * 0 + (d + 3) - 3 = d
  OBVIOUS
<1>2. d % 65536 = d
  OBVIOUS
<1> QED BY <1>1, <1>2 DEF PayloadLen

LEMMA WireAccepted ==
    ASSUME NEW m, Sent(m), Readable(m)
    PROVE  Accepted(Wire(m))
<1> DEFINE w == Wire(m)
           n == Len(m.data)
<1>1. /\ n \in Nat /\ n <= 159 /\ w \in Seq(Byte) /\ Len(w) = n + 9
      /\ w[1] = 235 /\ w[2] = 144 /\ w[4] = 0 /\ w[5] = n + 3
      /\ w[6] = m.type /\ w[7] = m.cmd
  BY WireShape
<1>2. m.type \in DataTypes /\ m.cmd \in Commands
  BY DEF Readable
<1> HIDE DEF w, n
<1>3. PayloadLen(w[4], w[5]) = n
  BY <1>1, PayloadOfLength
<1>4. Len(w) >= HeadSize /\ Len(w) = HeadSize + n + TailSize
  BY <1>1 DEF HeadSize, TailSize
<1>5. Marker(w, 1)
  <2>1. DOMAIN w = 1..(n + 9)
    BY <1>1, LenProperties
  <2>2. 1 + 1 \in 1..(n + 9)
    BY <1>1
  <2> QED BY <1>1, <2>1, <2>2 DEF Marker
<1> QED BY <1>1, <1>2, <1>3, <1>4, <1>5 DEF Accepted, w

\* What one read takes from a sound buffer and the parser accepts is a frame,
\* whole: neither a piece of one nor a splice passes.
LEMMA AcceptedIsFrame ==
    ASSUME Typed, NEW p \in Ports, Buffer(p), Sound(p),
           NEW n \in DOMAIN line[p], n <= ReadMax, Accepted(SubSeq(line[p], 1, n))
    PROVE  \E m \in OfferedSet(Peer(p)) : SubSeq(line[p], 1, n) = Wire(m)
<1> DEFINE s == line[p]
           c == SubSeq(s, 1, n)
<1>1. /\ n \in Nat /\ n <= Len(s) /\ Len(s) \in Nat
      /\ c \in Seq(Byte) /\ Len(c) = n
      /\ \A i \in 1..n : c[i] = s[i]
  BY ReadParts
<1>2. SoundFor(s, OfferedSet(Peer(p)))
  BY DEF Buffer
<1>3. /\ Len(c) >= 8 /\ c[1] = 235 /\ c[2] = 144
      /\ Len(c) = 8 + PayloadLen(c[4], c[5]) + 1
  <2>1. Accepted(c)
    OBVIOUS
  <2> HIDE DEF c
  <2> QED BY <2>1 DEF Accepted, Marker, HeadSize, TailSize
<1>4. n <= 65535
  <2>1. ReadMax \in Nat /\ ReadMax <= 240
    BY UartAssumption
  <2> HIDE DEF s, c
  <2> QED BY <1>1, <2>1
<1>5. s \in Seq(Byte)
  BY DEF Typed
<1>6. DOMAIN s = 1..Len(s)
  BY <1>5, LenProperties
<1> HIDE DEF s, c
<1>7. n >= 8
  BY <1>1, <1>3
<1>8. 1 \in 1..n /\ 2 \in 1..n /\ 4 \in 1..n /\ 5 \in 1..n
  BY <1>1, <1>7
<1>9. s[1] = 235 /\ s[2] = 144 /\ s[4] = c[4] /\ s[5] = c[5]
  BY <1>1, <1>3, <1>8
<1>10. 1 \in DOMAIN s /\ Marker(s, 1)
  <2>1. 1 \in 1..Len(s) /\ 1 + 1 \in 1..Len(s)
    BY <1>1, <1>7
  <2> QED BY <1>6, <1>9, <2>1 DEF Marker
<1>11. n = 8 + PayloadLen(c[4], c[5]) + 1
  BY <1>1, <1>3
<1>12. CASE AnnouncesNothing(s, 1)
  <2> DEFINE x == c[5]
  <2>1. c[4] = 0 /\ x < 3
    BY <1>9, <1>12 DEF AnnouncesNothing
  <2>2. x \in 0..255
    <3>1. \A i \in 1..n : c[i] \in Byte
      BY <1>1, LenProperties
    <3> QED BY <1>8, <3>1 DEF Byte
  <2>3. n = 8 + PayloadLen(0, x) + 1
    BY <1>11, <2>1
  <2> HIDE DEF x
  <2>4. PayloadLen(0, x) = (256 * 0 + x - 3) % 65536
    BY DEF PayloadLen
  <2>5. x = 0 \/ x = 1 \/ x = 2
    BY <2>1, <2>2
  <2> DEFINE y == PayloadLen(0, x)
  <2>6. y \in Nat /\ y >= 65533
    BY <2>4, <2>5
  <2> HIDE DEF y
  <2>7. n = 8 + y + 1
    BY <2>3 DEF y
  <2> QED BY <1>1, <1>4, <2>6, <2>7
<1>13. CASE \E m \in OfferedSet(Peer(p)) : FrameAt(s, 1, m)
  <2>1. PICK m \in OfferedSet(Peer(p)) : FrameAt(s, 1, m)
    BY <1>13
  <2>2. Sent(m)
    BY <2>1, Peers, OfferFacts DEF OfferedSet
  <2> DEFINE d == Len(m.data)
             w == Wire(m)
             z == WireLen(m)
  <2>3. /\ d \in Nat /\ d <= 159 /\ w \in Seq(Byte) /\ Len(w) = d + 9 /\ z = d + 9
        /\ w[4] = 0 /\ w[5] = d + 3
    BY <2>2, WireShape
  <2>4. 1 + z - 1 <= Len(s) /\ \A k \in 1..z : s[1 + k - 1] = w[k]
    BY <2>1 DEF FrameAt, PartAt
  <2> HIDE DEF d, w, z
  <2>5. \A k \in 1..z : s[k] = w[k]
    <3> TAKE k \in 1..z
    <3>1. 1 + k - 1 = k
      BY <2>3
    <3> QED BY <2>4, <3>1
  <2>6. 4 \in 1..z /\ 5 \in 1..z
    BY <2>3
  <2>7. c[4] = 0 /\ c[5] = d + 3
    BY <1>9, <2>3, <2>5, <2>6
  <2>8. n = d + 9
    <3>1. PayloadLen(c[4], c[5]) = d
      BY <2>3, <2>7, PayloadOfLength
    <3> QED BY <1>1, <1>11, <2>3, <3>1
  <2>9. \A i \in 1..n : c[i] = w[i]
    BY <1>1, <2>3, <2>5, <2>8
  <2>10. c = w
    <3>1. Len(c) = Len(w) /\ \A i \in 1..Len(c) : c[i] = w[i]
      BY <1>1, <2>3, <2>8, <2>9
    <3> QED BY <1>1, <2>3, <3>1, SeqEqual
  <2> QED BY <2>1, <2>10 DEF c, s, w
<1> QED BY <1>2, <1>10, <1>12, <1>13 DEF SoundFor

\* A marker's byte in the place of the length announces too much.
LEMMA HugePayload ==
    ASSUME NEW y \in {144, 235}, NEW z \in 0..255
    PROVE  PayloadLen(y, z) \in Nat /\ PayloadLen(y, z) >= 36861
<1>1. CASE y = 144
  <2>1. 256 * 144 + z - 3 = 36861 + z
    OBVIOUS
  <2>2. (36861 + z) % 65536 = 36861 + z
    OBVIOUS
  <2>3. PayloadLen(y, z) = 36861 + z
    BY <1>1, <2>1, <2>2 DEF PayloadLen
  <2> QED BY <2>3
<1>2. CASE y = 235
  <2>1. 256 * 235 + z - 3 = 60157 + z
    OBVIOUS
  <2>2. (60157 + z) % 65536 = 60157 + z
    OBVIOUS
  <2>3. PayloadLen(y, z) = 60157 + z
    BY <1>2, <2>1, <2>2 DEF PayloadLen
  <2> QED BY <2>3
<1> QED BY <1>1, <1>2

\* Where writes were cut short, what is accepted has the type, the command and
\* the length of an offered frame: one that was cut off before its command
\* would show a marker's byte there, or announce more than the buffer holds.
LEMMA AcceptedHasHead ==
    ASSUME Typed, NEW p \in Ports, Buffer(p), OnlyCuts(p),
           NEW n \in DOMAIN line[p], n <= ReadMax, Accepted(SubSeq(line[p], 1, n))
    PROVE  \E m \in OfferedSet(Peer(p)) :
               LET c == SubSeq(line[p], 1, n)
               IN  c[6] = m.type /\ c[7] = m.cmd /\ n = Len(m.data) + 9
<1> DEFINE s == line[p]
           c == SubSeq(s, 1, n)
           A == OfferedSet(Peer(p))
<1>1. /\ n \in Nat /\ n <= Len(s) /\ Len(s) \in Nat
      /\ c \in Seq(Byte) /\ Len(c) = n
      /\ \A i \in 1..n : c[i] = s[i]
  BY ReadParts
<1>2. PartsFor(s, A)
  BY DEF Buffer
<1>3. /\ Len(c) >= 8 /\ c[1] = 235 /\ c[2] = 144
      /\ c[6] \in DataTypes /\ c[7] \in Commands
      /\ Len(c) = 8 + PayloadLen(c[4], c[5]) + 1
  <2>1. Accepted(c)
    OBVIOUS
  <2> HIDE DEF c
  <2> QED BY <2>1 DEF Accepted, Marker, HeadSize, TailSize
<1>4. n <= 240
  <2>1. ReadMax \in Nat /\ ReadMax <= 240
    BY UartAssumption
  <2> HIDE DEF s, c
  <2> QED BY <1>1, <2>1
<1>5. s \in Seq(Byte)
  BY DEF Typed
<1>6. DOMAIN s = 1..Len(s)
  BY <1>5, LenProperties
<1>7. \A m \in A : Sent(m)
  BY Peers, OfferedSent
<1> HIDE DEF s, c, A
<1>8. n >= 8
  BY <1>1, <1>3
<1>9. \A x \in 1..8 : s[x] = c[x] /\ c[x] \in Byte
  <2>1. \A i \in 1..n : c[i] \in Byte
    BY <1>1, LenProperties
  <2> QED BY <1>1, <1>8, <2>1
<1>10. /\ s[1] = 235 /\ s[2] = 144 /\ s[4] = c[4] /\ s[5] = c[5]
       /\ s[6] = c[6] /\ s[7] = c[7]
  BY <1>3, <1>9
<1>11. 1 \in DOMAIN s /\ Marker(s, 1)
  <2>1. 1 \in 1..Len(s) /\ 1 + 1 \in 1..Len(s)
    BY <1>1, <1>8
  <2> QED BY <1>6, <1>10, <2>1 DEF Marker
<1>12. n = 8 + PayloadLen(c[4], c[5]) + 1
  BY <1>1, <1>3
<1>13. PICK m \in A : \E k \in 1..WireLen(m) : Piece(s, 1, m, k)
  BY <1>2, <1>11 DEF PartsFor
<1>14. PICK k \in 1..WireLen(m) : Piece(s, 1, m, k)
  BY <1>13
<1> DEFINE d == Len(m.data)
           w == Wire(m)
           l == WireLen(m)
<1>15. /\ d \in Nat /\ d <= 159 /\ l = d + 9
       /\ w[4] = 0 /\ w[5] = d + 3 /\ w[6] = m.type /\ w[7] = m.cmd
  BY <1>7, WireShape
<1>16. /\ 1 + k - 1 <= Len(s) /\ \A x \in 1..k : s[1 + x - 1] = w[x]
       /\ k = l \/ PieceAt(s, 1 + k)
  BY <1>14 DEF Piece, PartAt
<1>17. k \in 1..l
  OBVIOUS
<1> HIDE DEF d, w, l
<1>18. k \in Nat /\ k >= 1
  BY <1>15, <1>17
<1>19. \A x \in 1..k : s[x] = w[x]
  <2> TAKE x \in 1..k
  <2>1. 1 + x - 1 = x
    BY <1>18
  <2> QED BY <1>16, <2>1
<1>20. CASE k >= 7
  <2>1. 4 \in 1..k /\ 5 \in 1..k /\ 6 \in 1..k /\ 7 \in 1..k
    BY <1>18, <1>20
  <2>2. c[4] = 0 /\ c[5] = d + 3 /\ c[6] = m.type /\ c[7] = m.cmd
    BY <1>10, <1>15, <1>19, <2>1
  <2>3. PayloadLen(c[4], c[5]) = d
    BY <1>15, <2>2, PayloadOfLength
  <2>4. n = d + 9
    BY <1>1, <1>12, <1>15, <2>3
  <2> QED BY <2>2, <2>4 DEF c, s, A, d
<1>21. ASSUME k < 7 PROVE FALSE
  <2>1. /\ s[k + 1] = 235 /\ s[(k + 1) + 1] \in {144, 235}
    <3>1. 1 + k = k + 1 /\ k # l /\ k + 1 # Len(s) + 1 /\ k + 1 # Len(s)
      BY <1>1, <1>8, <1>15, <1>18, <1>21
    <3> QED BY <1>16, <3>1 DEF PieceAt
  <2>2. ASSUME NEW y \in {144, 235}, c[4] = y PROVE FALSE
    <3> DEFINE z == c[5]
               v == PayloadLen(y, z)
    <3>1. z \in 0..255
      <4>1. 5 \in 1..8
        OBVIOUS
      <4> QED BY <1>9, <4>1 DEF Byte
    <3>2. n = 8 + v + 1
      BY <1>12, <2>2
    <3> HIDE DEF z
    <3>3. v \in Nat /\ v >= 36861
      BY <3>1, HugePayload
    <3> HIDE DEF v
    <3> QED BY <1>1, <1>4, <3>2, <3>3
  <2>3. ASSUME k = 1 PROVE FALSE
    BY <1>10, <2>1, <2>3
  <2>4. ASSUME k = 2 PROVE FALSE
    <3>1. c[4] \in {144, 235}
      BY <1>10, <2>1, <2>4
    <3> QED BY <2>2, <3>1
  <2>5. ASSUME k = 3 PROVE FALSE
    <3>1. c[4] = 235
      BY <1>10, <2>1, <2>5
    <3> QED BY <2>2, <3>1
  <2>6. ASSUME k = 4 PROVE FALSE
    <3>1. 4 \in 1..k
      BY <2>6
    <3>2. c[4] = 0 /\ c[5] = 235
      BY <1>10, <1>15, <1>19, <2>1, <2>6, <3>1
    <3>3. PayloadLen(0, 235) = 232
      BY DEF PayloadLen
    <3> QED BY <1>1, <1>4, <1>12, <3>2, <3>3
  <2>7. ASSUME k = 5 PROVE FALSE
    <3>1. c[6] = 235
      BY <1>10, <2>1, <2>7
    <3> QED BY <1>3, <3>1 DEF DataTypes
  <2>8. ASSUME k = 6 PROVE FALSE
    <3>1. c[7] = 235
      BY <1>10, <2>1, <2>8
    <3> QED BY <1>3, <3>1 DEF Commands
  <2>9. k \in 1..6
    BY <1>18, <1>21
  <2> QED BY <2>3, <2>4, <2>5, <2>6, <2>7, <2>8, <2>9
<1>22. k >= 7
  BY <1>18, <1>21
<1> QED BY <1>20, <1>22

\* Only a read adds to got, and only what the parser accepts.
LEMMA OnlyReadsHand ==
    ASSUME Typed, [Next]_vars, NEW p \in Ports, got'[p] # got[p]
    PROVE  \E n \in DOMAIN line[p] :
               LET c == SubSeq(line[p], 1, n)
               IN  /\ Reads(p, n) /\ n <= ReadMax /\ Accepted(c)
                   /\ got'[p] = Append(got[p], Received(c))
<1>1. PICK q \in Ports : Read(q)
  BY DEF Next, vars, Send, WriteAll, WriteCut, Writing, ByteChanges, ByteLost, NoiseArrives,
         Listens, ReadTimesOut
<1>2. PICK n \in DOMAIN line[q] : Reads(q, n)
  BY <1>1 DEF Read
<1> DEFINE c == SubSeq(line[q], 1, n)
<1>3. /\ n <= ReadMax
      /\ Accepted(c) => got' = [got EXCEPT ![q] = Append(@, Received(c))]
      /\ ~Accepted(c) => got' = got
  BY <1>2 DEF Reads
<1>4. Accepted(c) /\ q = p /\ got'[p] = Append(got[p], Received(c))
  <2> HIDE DEF c
  <2> QED BY <1>3 DEF Typed
<1> QED BY <1>2, <1>3, <1>4

HandsUp(p) ==
    /\ Sound(p) => \E m \in OfferedSet(Peer(p)) : got'[p] = Append(got[p], m)
    /\ harm[p] \subseteq {"cut"} =>
          \E m \in OfferedSet(Peer(p)) :
              LET g == got'[p][Len(got[p]) + 1]
              IN /\ g.type = m.type /\ g.cmd = m.cmd
                 /\ Len(g.data) = Len(m.data)

LEMMA HandedStep ==
    ASSUME LineInv, [Next]_vars, NEW p \in Ports, got'[p] # got[p]
    PROVE  HandsUp(p)
<1>1. Typed /\ Buffer(p)
  BY Parts
<1>2. PICK n \in DOMAIN line[p] :
         LET c == SubSeq(line[p], 1, n)
         IN  /\ Reads(p, n) /\ n <= ReadMax /\ Accepted(c)
             /\ got'[p] = Append(got[p], Received(c))
  BY <1>1, OnlyReadsHand
<1> DEFINE c == SubSeq(line[p], 1, n)
<1>3. n <= ReadMax /\ Accepted(c) /\ got'[p] = Append(got[p], Received(c))
  BY <1>2
<1>4. ASSUME Sound(p) PROVE \E m \in OfferedSet(Peer(p)) : got'[p] = Append(got[p], m)
  <2>1. PICK m \in OfferedSet(Peer(p)) : c = Wire(m)
    BY <1>1, <1>3, <1>4, AcceptedIsFrame
  <2>2. Sent(m)
    BY <2>1, Peers, OfferedSent
  <2>3. Received(c) = m
    BY <2>1, <2>2, ReceivedOfWire
  <2> QED BY <1>3, <2>1, <2>3
<1>5. ASSUME OnlyCuts(p)
      PROVE  \E m \in OfferedSet(Peer(p)) :
                 LET g == got'[p][Len(got[p]) + 1]
                 IN g.type = m.type /\ g.cmd = m.cmd /\ Len(g.data) = Len(m.data)
  <2>1. PICK m \in OfferedSet(Peer(p)) : c[6] = m.type /\ c[7] = m.cmd /\ n = Len(m.data) + 9
    BY <1>1, <1>3, <1>5, AcceptedHasHead
  <2>2. n \in Nat /\ c \in Seq(Byte) /\ Len(c) = n
    BY <1>1, ReadParts
  <2> DEFINE k == Len(m.data)
             r == Received(c)
             d == SubSeq(c, 9, k + 8)
  <2>3. k \in Nat
    <3>1. Sent(m)
      BY <2>1, Peers, OfferedSent
    <3> QED BY <3>1, WireShape
  <2>4. n = k + 9
    BY <2>1
  <2>5. \A i \in 1..n : c[i] \in Byte
    BY <2>2, LenProperties
  <2> HIDE DEF k, c
  <2>6. k + 8 \in Int /\ 9 \in Int /\ \A i \in 9..(k + 8) : c[i] \in Byte
    BY <2>3, <2>4, <2>5
  <2>7. Len(d) = (IF 9 <= k + 8 THEN (k + 8) - 9 + 1 ELSE 0)
    BY <2>6, SubSeqProperties
  <2> HIDE DEF d
  <2>8. Len(d) = k
    BY <2>3, <2>7
  <2>9. SubSeq(c, HeadSize + 1, Len(c) - TailSize) = d
    <3>1. HeadSize + 1 = 9 /\ Len(c) - TailSize = k + 8
      BY <2>2, <2>3, <2>4 DEF HeadSize, TailSize
    <3> QED BY <3>1 DEF d
  <2>10. r.type = c[6] /\ r.cmd = c[7] /\ r.data = d
    BY <2>9 DEF Received
  <2>11. r \in Msgs
    BY <1>3, <2>2, ReceivedIsMessage
  <2>12. got[p] \in Seq(Msgs)
    BY <1>1 DEF Typed
  <2>13. got'[p] = Append(got[p], r)
    BY <1>3
  <2> HIDE DEF r
  <2>14. got'[p][Len(got[p]) + 1] = r
    BY <2>11, <2>12, <2>13, AppendProperties
  <2> QED BY <2>1, <2>8, <2>10, <2>14 DEF c, k
<1> QED BY <1>4, <1>5 DEF HandsUp, OnlyCuts

\* What recv() hands up from a sound buffer is a message that the other end
\* offered, for all messages, lengths, buffers and noise; and after writes that
\* were cut short it has the type, the command and the length of one.
THEOREM HandedOK == Spec => HandedWereOffered
<1>1. LineInv /\ [Next]_vars
      => [\A p \in Ports : got'[p] # got[p] =>
             /\ Sound(p) => \E m \in OfferedSet(Peer(p)) : got'[p] = Append(got[p], m)
             /\ harm[p] \subseteq {"cut"} =>
                   \E m \in OfferedSet(Peer(p)) :
                       LET g == got'[p][Len(got[p]) + 1]
                       IN /\ g.type = m.type /\ g.cmd = m.cmd
                          /\ Len(g.data) = Len(m.data)]_vars
  BY HandedStep DEF HandsUp
<1> QED BY <1>1, LineInvariant, PTL DEF Spec, HandedWereOffered

---------------------------------------------------------------------------
(* Where nothing harms a byte. *)

\* Nothing reaches a buffer but whole frames without a second marker in them,
\* and noise.
AllPlain == \A p \in Ports : \A m \in Offers[p] : Plain(Wire(m))

Clear == \A p \in Ports : Sound(p) /\ garbled[p] = {}

LEMMA ClearStep ==
    ASSUME Faults \subseteq {"noise"}, AllPlain, LineInv, Clear, [Next]_vars
    PROVE  Clear'
<1>1. /\ Typed
      /\ \A p \in Ports : Queued(p)
      /\ \A p \in Ports, t \in Tasks : JobOffered(p, t)
  BY Parts
<1>2. ASSUME NEW q \in Ports, NEW kinds \in SUBSET {"noise"}, Harms(q, kinds)
      PROVE  \A p \in Ports : Sound(p)'
  <2>1. harm' = [harm EXCEPT ![q] = IF line'[q] = <<>> THEN {} ELSE @ \cup kinds]
    BY <1>2 DEF Harms
  <2> QED BY <1>1, <2>1 DEF Clear, Sound, Typed
<1>3. CASE UNCHANGED <<harm, garbled>>
  BY <1>3 DEF Clear, Sound
<1>4. ASSUME NEW p \in Ports, NEW t \in Tasks, WriteAll(p, t)
      PROVE  Clear'
  <2>1. Harms(Peer(p), Marks(job[p][t])) /\ Writing(p, t) /\ UNCHANGED garbled /\ Peer(p) \in Ports
    BY <1>4, Peers DEF WriteAll, Writing
  <2>2. PICK m \in OfferedSet(p) : job[p][t] = Wire(m)
    BY <1>1, <2>1, WritesOffered
  <2>3. Plain(job[p][t])
    BY <2>2 DEF AllPlain, OfferedSet
  <2>4. Marks(job[p][t]) \in SUBSET {"noise"}
    BY <2>3 DEF Marks
  <2> QED BY <1>2, <2>1, <2>4 DEF Clear
<1>5. ASSUME NEW p \in Ports, NoiseArrives(p)
      PROVE  Clear'
  BY <1>2, <1>5 DEF NoiseArrives, Clear
<1>6. ASSUME NEW p \in Ports, Read(p)
      PROVE  Clear'
  <2>1. Harms(p, {}) /\ UNCHANGED garbled
    BY <1>6 DEF Read, Reads, Clear
  <2> QED BY <1>2, <2>1 DEF Clear
<1>7. \/ UNCHANGED <<harm, garbled>>
      \/ \E p \in Ports : (\E t \in Tasks : WriteAll(p, t)) \/ NoiseArrives(p) \/ Read(p)
  BY DEF Next, vars, Send, WriteCut, ByteChanges, ByteLost, Fault, Listens, ReadTimesOut
<1> QED BY <1>3, <1>4, <1>5, <1>6, <1>7

\* When writes succeed, no byte changes or gets lost and no frame looks like
\* the beginning of another, nothing that recv() returns is read from anything
\* but whole frames, whatever noise there is and however reads split and join
\* what arrives.
THEOREM NothingGarbled ==
    Faults \subseteq {"noise"} /\ (\A p \in Ports : \A m \in Offers[p] : Plain(Wire(m)))
    => (Spec => [](\A p \in Ports : garbled[p] = {}))
<1> SUFFICES ASSUME Faults \subseteq {"noise"}, \A p \in Ports : \A m \in Offers[p] : Plain(Wire(m))
             PROVE  Spec => [](\A p \in Ports : garbled[p] = {})
  OBVIOUS
<1>1. AllPlain
  BY DEF AllPlain
<1>2. Init => Clear
  BY DEF Init, Clear, Sound
<1>3. LineInv /\ Clear /\ [Next]_vars => Clear'
  BY <1>1, ClearStep
<1>4. Clear => \A p \in Ports : garbled[p] = {}
  BY DEF Clear
<1> QED BY <1>2, <1>3, <1>4, LineInvariant, PTL DEF Spec

---------------------------------------------------------------------------
(* Frames that are read whole. *)

\* Whatever else happens to the bytes at a port, only a read takes nine of
\* them or more.
LEMMA OnlyReadsTakeNine ==
    ASSUME Typed, [Next]_vars, NEW p \in Ports, NEW k \in Nat, k >= 9,
           Len(line[p]) = k + Len(line'[p])
    PROVE  \E n \in DOMAIN line[p] : Reads(p, n)
<1> DEFINE s == line[p]
           a == Len(s)
           b == Len(line'[p])
<1>1. line' \in [Ports -> Seq(Byte)] /\ s \in Seq(Byte)
  BY TypedStep DEF Typed
<1>2. a \in Nat /\ b \in Nat
  <2>1. line'[p] \in Seq(Byte)
    BY <1>1
  <2> QED BY <1>1, <2>1, LenProperties
<1>3. a = k + b
  OBVIOUS
<1>4. a # b
  <2> HIDE DEF a, b
  <2> QED BY <1>2, <1>3
<1>5. line'[p] # line[p]
  BY <1>4
<1>6. ASSUME NEW u \in Seq(Byte), line'[p] = s \o u PROVE FALSE
  <2>1. Len(u) \in Nat
    BY <1>6, LenProperties
  <2>2. Len(line'[p]) = Len(s) + Len(u)
    BY <1>1, <1>6, ConcatProperties
  <2> DEFINE l == Len(u)
  <2>3. b = a + l /\ l \in Nat
    BY <2>1, <2>2
  <2> HIDE DEF a, b, l
  <2> QED BY <1>2, <1>3, <2>3
<1>7. ASSUME NEW q \in Ports, NEW t \in Tasks, WriteAll(q, t) PROVE FALSE
  <2>1. line' = [line EXCEPT ![Peer(q)] = @ \o job[q][t]]
    BY <1>7 DEF WriteAll
  <2>2. Peer(q) = p
    BY <1>5, <2>1 DEF Typed
  <2>3. line'[p] = s \o job[q][t] /\ job[q][t] \in Seq(Byte)
    BY <2>1, <2>2 DEF Typed
  <2> QED BY <1>6, <2>3
<1>8. ASSUME NEW q \in Ports, NEW t \in Tasks, WriteCut(q, t) PROVE FALSE
  <2>1. PICK n \in 0..(Len(job[q][t]) - 1) :
           line' = [line EXCEPT ![Peer(q)] = @ \o SubSeq(job[q][t], 1, n)]
    BY <1>8 DEF WriteCut
  <2>2. Peer(q) = p
    BY <1>5, <2>1 DEF Typed
  <2> DEFINE v == job[q][t]
             l == Len(v)
             u == SubSeq(v, 1, n)
  <2>3. line'[p] = s \o u /\ v \in Seq(Byte)
    BY <2>1, <2>2 DEF Typed
  <2>4. l \in Nat
    BY <2>3, LenProperties
  <2>5. l = Len(v) /\ n \in 0..(l - 1)
    OBVIOUS
  <2> HIDE DEF l, v
  <2>6. n \in Nat /\ 1 >= 1 /\ n <= l
    BY <2>4, <2>5
  <2>7. n <= Len(v)
    BY <2>5, <2>6
  <2>8. u \in Seq(Byte)
    BY <2>3, <2>6, <2>7, Part
  <2> HIDE DEF u
  <2> QED BY <1>6, <2>3, <2>8
<1>9. ASSUME NEW q \in Ports, ByteChanges(q) PROVE FALSE
  <2>1. PICK i \in DOMAIN line[q] : line' = [line EXCEPT ![q][i] = (@ + 1) % 256]
    BY <1>9 DEF ByteChanges
  <2>2. line' = [line EXCEPT ![q] = [line[q] EXCEPT ![i] = (line[q][i] + 1) % 256]]
    BY <2>1
  <2>3. q = p
    BY <1>5, <2>2 DEF Typed
  <2>4. line'[p] = [s EXCEPT ![i] = (s[i] + 1) % 256]
    BY <2>2, <2>3 DEF Typed
  <2>5. DOMAIN line'[p] = DOMAIN s
    BY <2>4
  <2>6. DOMAIN line'[p] = 1..b /\ DOMAIN s = 1..a
    <3>1. line'[p] \in Seq(Byte)
      BY <1>1
    <3> QED BY <1>1, <3>1, LenProperties
  <2>7. 1..b = 1..a
    BY <2>5, <2>6
  <2> HIDE DEF a, b
  <2>8. a \in 1..a /\ a \notin 1..b
    BY <1>2, <1>3
  <2> QED BY <2>7, <2>8
<1>10. ASSUME NEW q \in Ports, ByteLost(q) PROVE FALSE
  <2>1. PICK i \in DOMAIN line[q] :
           line' = [line EXCEPT ![q] = SubSeq(@, 1, i - 1) \o SubSeq(@, i + 1, Len(@))]
    BY <1>10 DEF ByteLost
  <2>2. q = p
    BY <1>5, <2>1 DEF Typed
  <2>3. line'[p] = SubSeq(s, 1, i - 1) \o SubSeq(s, i + 1, a) /\ i \in DOMAIN s
    BY <2>1, <2>2 DEF Typed
  <2> DEFINE x == SubSeq(s, 1, i - 1)
             y == SubSeq(s, i + 1, a)
  <2>4. i \in 1..a /\ \A h \in 1..a : s[h] \in Byte
    BY <1>1, <2>3, LenProperties
  <2> HIDE DEF a
  <2>5. /\ i - 1 \in Int /\ i + 1 \in Int /\ 1 \in Int /\ a \in Int
        /\ \A h \in 1..(i - 1) : s[h] \in Byte
        /\ \A h \in (i + 1)..a : s[h] \in Byte
    BY <1>2, <2>4
  <2>6. x \in Seq(Byte) /\ Len(x) = IF 1 <= i - 1 THEN (i - 1) - 1 + 1 ELSE 0
    BY <2>5, SubSeqProperties
  <2>7. y \in Seq(Byte) /\ Len(y) = IF i + 1 <= a THEN a - (i + 1) + 1 ELSE 0
    BY <2>5, SubSeqProperties
  <2> HIDE DEF x, y
  <2>8. Len(x) = i - 1 /\ Len(y) = a - i
    BY <1>2, <2>4, <2>6, <2>7
  <2>9. Len(x \o y) = Len(x) + Len(y)
    BY <2>6, <2>7, ConcatProperties
  <2>10. line'[p] = x \o y
    BY <2>3 DEF x, y
  <2>11. b = (i - 1) + (a - i)
    BY <2>8, <2>9, <2>10
  <2> HIDE DEF b
  <2> QED BY <1>2, <1>3, <2>4, <2>11
<1>11. ASSUME NEW q \in Ports, NoiseArrives(q) PROVE FALSE
  <2>1. PICK u \in Noise[q] : line' = [line EXCEPT ![q] = @ \o u]
    BY <1>11 DEF NoiseArrives
  <2>2. q = p
    BY <1>5, <2>1 DEF Typed
  <2>3. line'[p] = s \o u /\ u \in Seq(Byte)
    BY <2>1, <2>2, NoiseSound DEF Typed
  <2> QED BY <1>6, <2>3
<1>12. \E q \in Ports : Read(q)
  BY <1>5, <1>7, <1>8, <1>9, <1>10, <1>11 DEF Next, vars, Send, Listens, ReadTimesOut
<1>13. PICK q \in Ports : Read(q)
  BY <1>12
<1>14. q = p
  BY <1>5, <1>13 DEF Read, Reads, Typed
<1> QED BY <1>13, <1>14 DEF Read

LEMMA WholeReadStep ==
    ASSUME LineInv, [Next]_vars, NEW p \in Ports,
           NEW m \in Offers[Peer(p)], Readable(m),
           Len(line[p]) = WireLen(m) + Len(line'[p]),
           line[p] = Wire(m) \o line'[p]
    PROVE  got'[p] = Append(got[p], m)
<1> DEFINE s == line[p]
           u == line'[p]
           w == Wire(m)
           k == WireLen(m)
<1>1. Typed
  BY Parts
<1>2. Sent(m)
  BY Peers, OfferFacts
<1>3. w \in Seq(Byte) /\ Len(w) = k /\ k \in Nat /\ k >= 9
  <2> DEFINE d == Len(m.data)
  <2>1. w \in Seq(Byte) /\ Len(w) = d + 9 /\ k = d + 9 /\ d \in Nat
    BY <1>2, WireShape
  <2> HIDE DEF d, k
  <2> QED BY <2>1
<1>4. s \in Seq(Byte) /\ u \in Seq(Byte)
  BY <1>1, TypedStep DEF Typed
<1>5. Len(s) = k + Len(u) /\ s = w \o u
  OBVIOUS
<1>6. PICK n \in DOMAIN s : Reads(p, n)
  <2> HIDE DEF k
  <2> QED BY <1>1, <1>3, <1>5, OnlyReadsTakeNine
<1> DEFINE c == SubSeq(s, 1, n)
           rest == SubSeq(s, n + 1, Len(s))
<1>7. /\ n \in Nat /\ n >= 1 /\ n <= Len(s) /\ Len(s) \in Nat
      /\ c \in Seq(Byte) /\ Len(c) = n
      /\ \A i \in 1..n : c[i] = s[i]
  BY <1>1, ReadParts
<1>8. u = rest
  BY <1>1, <1>6 DEF Reads, Typed
<1>9. Accepted(c) => got' = [got EXCEPT ![p] = Append(@, Received(c))]
  BY <1>6 DEF Reads
<1>10. Len(rest) = Len(s) - n
  <2> DEFINE z == Len(s)
  <2>1. \A i \in 1..z : s[i] \in Byte
    BY <1>4, LenProperties
  <2>2. z \in Nat /\ n <= z
    BY <1>7
  <2>3. z = Len(s)
    OBVIOUS
  <2> HIDE DEF z, s
  <2>4. n + 1 \in Int /\ z \in Int /\ \A i \in (n + 1)..z : s[i] \in Byte
    BY <1>7, <2>1, <2>2
  <2>5. Len(SubSeq(s, n + 1, z)) = IF n + 1 <= z THEN z - (n + 1) + 1 ELSE 0
    BY <2>4, SubSeqProperties
  <2>6. Len(SubSeq(s, n + 1, z)) = z - n
    BY <1>7, <2>2, <2>5
  <2> QED BY <2>3, <2>6 DEF s
<1>11. n = k
  <2> DEFINE z == Len(s)
             x == Len(u)
  <2>1. z = k + x /\ x = z - n /\ z \in Nat
    BY <1>5, <1>7, <1>8, <1>10
  <2>2. x \in Nat
    BY <1>4, LenProperties
  <2>3. k \in Nat /\ n \in Nat
    BY <1>3, <1>7
  <2> HIDE DEF z, x, k, s, u
  <2> QED BY <2>1, <2>2, <2>3
<1>12. \A i \in 1..Len(w) : (w \o u)[i] = w[i]
  <2> HIDE DEF w, u
  <2> QED BY <1>3, <1>4, ConcatParts
<1>13. c = w
  <2> HIDE DEF c, w, u, k, s
  <2>1. Len(c) = Len(w) /\ \A i \in 1..Len(c) : c[i] = w[i]
    BY <1>3, <1>5, <1>7, <1>11, <1>12
  <2> QED BY <1>3, <1>7, <2>1, SeqEqual
<1>14. Accepted(c) /\ Received(c) = m
  <2>1. Accepted(w) /\ Received(w) = m
    BY <1>2, WireAccepted, ReceivedOfWire
  <2> QED BY <1>13, <2>1
<1> QED
  <2> HIDE DEF c
  <2> QED BY <1>1, <1>9, <1>14 DEF Typed

\* A read that returns exactly one frame hands up what the line carries of the
\* message that send() was given, for every length of it and whatever happened
\* to the bytes around it.
THEOREM WholeReads == Spec => WholeReadsArrive
<1>1. LineInv /\ [Next]_vars
      => [\A p \in Ports :
             Holds(p, "recv") /\ line'[p] # line[p] =>
                 \A m \in Offers[Peer(p)] :
                     /\ Readable(m)
                     /\ Len(line[p]) = WireLen(m) + Len(line'[p])
                     /\ line[p] = Wire(m) \o line'[p]
                     => got'[p] = Append(got[p], m)]_vars
  BY WholeReadStep
<1> QED BY <1>1, LineInvariant, PTL DEF Spec, WholeReadsArrive

=============================================================================
