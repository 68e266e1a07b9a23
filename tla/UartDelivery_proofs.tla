------------------------ MODULE UartDelivery_proofs ------------------------
(***************************************************************************)
(* The serial adaptor implements the link of BusDelivery: what recv()      *)
(* hands up from sound bytes are messages the other end offered, none of   *)
(* them twice, those of a task in its order, whatever it hands up between  *)
(* them from bytes that were cut short, changed or lost.                   *)
(*                                                                         *)
(* A place <<t, k>> stands for the k-th message that task t of the other   *)
(* end offered.  The invariant gives one to each message that a port got   *)
(* ungarbled and to each frame in its buffer while that is sound, growing  *)
(* along got and then the buffer, task by task, up to the message that the *)
(* task has yet to write.                                                  *)
(***************************************************************************)
EXTENDS Uart_proofs

\* sq and jq are sent and job of the sending port.
Place(sq) == {x \in Tasks \X Nat : x[2] \in DOMAIN sq[x[1]]}
MessageAt(sq, x) == sq[x[1]][x[2]]

\* The message at x was written, or given up.
Written(sq, jq, x) == jq[x[1]] # <<>> => x[2] < Len(sq[x[1]])

Precedes(x, y) == x[1] = y[1] => x[2] < y[2]

\* Where frames begin in a buffer.
Starts(s) == {i \in DOMAIN s : Marker(s, i) /\ ~AnnouncesNothing(s, i)}
SoundStarts(s, damaged) == IF damaged THEN {} ELSE Starts(s)

Row(sq, jq, D, f) ==
    /\ f \in [D -> Place(sq)]
    /\ \A i \in D : Written(sq, jq, f[i])
    /\ \A i, j \in D : i < j => Precedes(f[i], f[j])

\* f gives places to what was handed up in g at the positions G, and h to what
\* begins in buffer s at the positions S.
Trace(sq, jq, g, G, s, S, f, h) ==
    /\ Row(sq, jq, G, f) /\ Row(sq, jq, S, h)
    /\ \A i \in G : g[i] = MessageAt(sq, f[i])
    /\ \A i \in S : FrameAt(s, i, MessageAt(sq, h[i]))
    /\ \A i \in G, j \in S : Precedes(f[i], h[j])

Traced(sq, jq, g, G, s, S) == \E f, h : Trace(sq, jq, g, G, s, S, f, h)

\* A task that has something to write has its last message to write.
WritesLast(sq, jq) ==
    \A t \in Tasks : jq[t] # <<>> => sq[t] # <<>> /\ jq[t] = Wire(sq[t][Len(sq[t])])

OffersOnly(q, sq) == \A t \in Tasks : \A k \in DOMAIN sq[t] : sq[t][k] \in Offers[q]

Sending(p) == WritesLast(sent[p], job[p]) /\ OffersOnly(p, sent[p])

Faithful(p) == DOMAIN got[p] \ garbled[p]

Receiving(p) ==
    /\ garbled[p] \subseteq DOMAIN got[p]
    /\ Traced(sent[Peer(p)], job[Peer(p)], got[p], Faithful(p),
              line[p], SoundStarts(line[p], ~Sound(p)))

DeliveryInv == \A p \in Ports : Sending(p) /\ Receiving(p)

---------------------------------------------------------------------------
(* Places. *)

\* The buffer changes: some frames go, the others move n bytes to the front.
LEMMA TraceMoves ==
    ASSUME NEW sq, NEW jq, NEW g, NEW G, NEW s, NEW S, NEW f, NEW h,
           Trace(sq, jq, g, G, s, S, f, h),
           NEW n \in Nat, NEW u, NEW U \in SUBSET Nat,
           \A i \in U : n + i \in S /\ FrameAt(u, i, MessageAt(sq, h[n + i]))
    PROVE  Traced(sq, jq, g, G, u, U)
<1> DEFINE v == [i \in U |-> h[n + i]]
<1>1. Row(sq, jq, G, f) /\ Row(sq, jq, S, h)
  BY DEF Trace
<1>2. v \in [U -> Place(sq)] /\ \A i \in U : v[i] = h[n + i]
  BY <1>1 DEF Row
<1> HIDE DEF v
<1>3. \A i \in U : Written(sq, jq, v[i])
  BY <1>1, <1>2 DEF Row
<1>4. ASSUME NEW i \in U, NEW j \in U, i < j PROVE Precedes(v[i], v[j])
  <2>1. n + i < n + j
    BY <1>4
  <2> QED BY <1>1, <1>2, <2>1 DEF Row
<1>5. Row(sq, jq, U, v)
  BY <1>2, <1>3, <1>4 DEF Row
<1>6. \A i \in U : FrameAt(u, i, MessageAt(sq, v[i]))
  BY <1>2
<1>7. \A i \in G, j \in U : Precedes(f[i], v[j])
  BY <1>2 DEF Trace
<1>8. Trace(sq, jq, g, G, u, U, f, v)
  BY <1>1, <1>5, <1>6, <1>7 DEF Trace
<1> QED BY <1>8 DEF Traced

\* A task offers another message: the old places keep what they show.
LEMMA TraceGrows ==
    ASSUME NEW sq \in [Tasks -> Seq(Msgs)], NEW jq, NEW g, NEW G, NEW s, NEW S,
           Traced(sq, jq, g, G, s, S), NEW t \in Tasks, NEW m \in Msgs,
           jq[t] = <<>>, NEW sr, NEW jr,
           sr[t] = Append(sq[t], m), \A r \in Tasks : r # t => sr[r] = sq[r] /\ jr[r] = jq[r]
    PROVE  Traced(sr, jr, g, G, s, S)
<1>1. PICK f, h : Trace(sq, jq, g, G, s, S, f, h)
  BY DEF Traced
<1> DEFINE n == Len(sq[t])
<1>2. n \in Nat /\ DOMAIN sq[t] = 1..n /\ sq[t] \in Seq(Msgs)
  BY LenProperties
<1>3. /\ sr[t] \in Seq(Msgs) /\ Len(sr[t]) = n + 1
      /\ \A k \in 1..n : sr[t][k] = sq[t][k]
  BY <1>2, AppendProperties
<1>4. DOMAIN sr[t] = 1..(n + 1)
  BY <1>3, LenProperties
<1> HIDE DEF n
<1>5. ASSUME NEW x \in Place(sq), Written(sq, jq, x)
      PROVE  x \in Place(sr) /\ MessageAt(sr, x) = MessageAt(sq, x) /\ Written(sr, jr, x)
  <2>1. x[1] \in Tasks /\ x[2] \in Nat /\ x[2] \in DOMAIN sq[x[1]] /\ x \in Tasks \X Nat
    BY DEF Place
  <2>2. CASE x[1] = t
    <3>1. x[2] \in 1..n
      BY <1>2, <2>1, <2>2
    <3>2. x[2] \in 1..(n + 1) /\ x[2] < n + 1
      BY <1>2, <3>1
    <3>3. x \in Place(sr)
      BY <1>4, <2>1, <2>2, <3>2 DEF Place
    <3>4. MessageAt(sr, x) = MessageAt(sq, x)
      BY <1>3, <2>2, <3>1 DEF MessageAt
    <3>5. Written(sr, jr, x)
      BY <1>3, <2>2, <3>2 DEF Written
    <3> QED BY <3>3, <3>4, <3>5
  <2>3. CASE x[1] # t
    <3>1. sr[x[1]] = sq[x[1]] /\ jr[x[1]] = jq[x[1]]
      BY <2>1, <2>3
    <3> QED BY <1>5, <2>1, <3>1 DEF Place, MessageAt, Written
  <2> QED BY <2>2, <2>3
<1>6. ASSUME NEW D, NEW e, Row(sq, jq, D, e)
      PROVE  Row(sr, jr, D, e) /\ \A i \in D : MessageAt(sr, e[i]) = MessageAt(sq, e[i])
  <2>1. \A i \in D : e[i] \in Place(sq) /\ Written(sq, jq, e[i])
    BY <1>6 DEF Row
  <2>2. \A i \in D : /\ e[i] \in Place(sr) /\ MessageAt(sr, e[i]) = MessageAt(sq, e[i])
                     /\ Written(sr, jr, e[i])
    BY <1>5, <2>1
  <2>3. e \in [D -> Place(sr)]
    BY <1>6, <2>2 DEF Row
  <2> QED BY <1>6, <2>2, <2>3 DEF Row
<1>7. /\ Row(sr, jr, G, f) /\ Row(sr, jr, S, h)
      /\ \A i \in G : MessageAt(sr, f[i]) = MessageAt(sq, f[i])
      /\ \A i \in S : MessageAt(sr, h[i]) = MessageAt(sq, h[i])
  BY <1>1, <1>6 DEF Trace
<1>8. Trace(sr, jr, g, G, s, S, f, h)
  BY <1>1, <1>7 DEF Trace
<1> QED BY <1>8 DEF Traced

\* A task ends its write: its last message may be in the buffer now, at a.
LEMMA TraceWritten ==
    ASSUME NEW sq \in [Tasks -> Seq(Msgs)], NEW jq, NEW g, NEW G, NEW s, NEW S \in SUBSET Nat,
           NEW f, NEW h, Trace(sq, jq, g, G, s, S, f, h),
           NEW t \in Tasks, jq[t] # <<>>, sq[t] # <<>>, NEW jr,
           jr[t] = <<>>, \A r \in Tasks : r # t => jr[r] = jq[r],
           NEW a \in Nat, \A i \in S : i < a,
           NEW u, NEW U, U \subseteq S \cup {a},
           \A i \in U : i \in S => FrameAt(u, i, MessageAt(sq, h[i])),
           a \in U => FrameAt(u, a, sq[t][Len(sq[t])])
    PROVE  Traced(sq, jr, g, G, u, U)
<1> DEFINE n == Len(sq[t])
           y == <<t, n>>
           v == [i \in U |-> IF i \in S THEN h[i] ELSE y]
<1>1. Row(sq, jq, G, f) /\ Row(sq, jq, S, h)
  BY DEF Trace
<1>2. n \in Nat /\ DOMAIN sq[t] = 1..n /\ n # 0
  BY LenProperties, EmptySeq
<1>3. n = Len(sq[t])
  OBVIOUS
<1> HIDE DEF n
<1>4. n \in 1..n
  BY <1>2
<1>5. y[1] = t /\ y[2] = n /\ y \in Tasks \X Nat
  BY <1>2
<1>6. MessageAt(sq, y) = sq[t][n] /\ y \in Place(sq) /\ Written(sq, jr, y)
  BY <1>2, <1>4, <1>5 DEF MessageAt, Place, Written
<1> HIDE DEF y
<1>7. ASSUME NEW x \in Place(sq), Written(sq, jq, x) PROVE Written(sq, jr, x) /\ Precedes(x, y)
  <2>1. x[1] \in Tasks
    BY DEF Place
  <2> QED BY <1>3, <1>5, <1>7, <2>1 DEF Written, Precedes
<1>8. ASSUME NEW D, NEW e, Row(sq, jq, D, e)
      PROVE  Row(sq, jr, D, e) /\ \A i \in D : Precedes(e[i], y)
  BY <1>7, <1>8 DEF Row
<1>9. /\ Row(sq, jr, G, f) /\ Row(sq, jr, S, h)
      /\ \A i \in G : Precedes(f[i], y)
      /\ \A i \in S : Precedes(h[i], y)
  BY <1>1, <1>8
<1>10. /\ \A i \in U : i \in S => v[i] = h[i]
       /\ \A i \in U : i \notin S => i = a /\ v[i] = y
  OBVIOUS
<1>11. v \in [U -> Place(sq)]
  BY <1>6, <1>9 DEF Row
<1> HIDE DEF v
<1>12. \A i \in U : Written(sq, jr, v[i])
  BY <1>6, <1>9, <1>10 DEF Row
<1>13. ASSUME NEW i \in U, NEW j \in U, i < j PROVE Precedes(v[i], v[j])
  <2>1. i \in Nat /\ j \in Nat
    OBVIOUS
  <2>2. i \in S
    BY <1>10, <1>13, <2>1
  <2> QED BY <1>9, <1>10, <1>13, <2>2 DEF Row
<1>14. Row(sq, jr, U, v)
  BY <1>11, <1>12, <1>13 DEF Row
<1>15. \A i \in U : FrameAt(u, i, MessageAt(sq, v[i]))
  BY <1>3, <1>6, <1>10
<1>16. \A i \in G, j \in U : Precedes(f[i], v[j])
  BY <1>9, <1>10 DEF Trace
<1>17. Trace(sq, jr, g, G, u, U, f, v)
  BY <1>9, <1>14, <1>15, <1>16 DEF Trace
<1> QED BY <1>17 DEF Traced

\* The first n bytes of the buffer, which begins with a frame, are handed up.
LEMMA TraceTaken ==
    ASSUME NEW sq, NEW jq, NEW g \in Seq(Msgs), NEW G \in SUBSET DOMAIN g,
           NEW s, NEW S \in SUBSET Nat, NEW f, NEW h,
           Trace(sq, jq, g, G, s, S, f, h), 1 \in S,
           NEW m \in Msgs, m = MessageAt(sq, h[1]),
           NEW n \in Nat, n >= 1, NEW u, NEW U \in SUBSET (Nat \ {0}),
           \A i \in U : n + i \in S /\ FrameAt(u, i, MessageAt(sq, h[n + i]))
    PROVE  Traced(sq, jq, Append(g, m), G \cup {Len(g) + 1}, u, U)
<1> DEFINE z == Len(g)
           k == Append(g, m)
           K == G \cup {z + 1}
           e == [i \in K |-> IF i \in G THEN f[i] ELSE h[1]]
           v == [i \in U |-> h[n + i]]
<1>1. Row(sq, jq, G, f) /\ Row(sq, jq, S, h)
  BY DEF Trace
<1>2. z \in Nat /\ DOMAIN g = 1..z
  BY LenProperties
<1>3. k \in Seq(Msgs) /\ Len(k) = z + 1 /\ (\A i \in 1..z : k[i] = g[i]) /\ k[z + 1] = m
  BY AppendProperties
<1>4. z = Len(g)
  OBVIOUS
<1> HIDE DEF z, k
<1>5. \A i \in K : i \in G \/ i = z + 1
  OBVIOUS
<1>6. z + 1 \notin G /\ \A i \in G : i \in 1..z
  BY <1>2
<1>7. /\ \A i \in K : i \in G => e[i] = f[i]
      /\ \A i \in K : i = z + 1 => e[i] = h[1]
  BY <1>6
<1>8. e \in [K -> Place(sq)]
  BY <1>1 DEF Row
<1>9. v \in [U -> Place(sq)] /\ \A i \in U : v[i] = h[n + i]
  BY <1>1 DEF Row
<1> HIDE DEF e, v, K
<1>10. Written(sq, jq, h[1])
  BY <1>1 DEF Row
<1>11. \A i \in G : Precedes(f[i], h[1])
  BY DEF Trace
<1>12. \A i \in U : Precedes(h[1], h[n + i])
  <2> TAKE i \in U
  <2>1. 1 < n + i
    OBVIOUS
  <2> QED BY <1>1, <2>1 DEF Row
<1>13. \A i \in K : Written(sq, jq, e[i])
  BY <1>1, <1>5, <1>7, <1>10 DEF Row
<1>14. ASSUME NEW i \in K, NEW j \in K, i < j PROVE Precedes(e[i], e[j])
  <2>1. i \in G
    <3>1. j <= z + 1 /\ j \in Nat
      BY <1>2, <1>5, <1>6
    <3> QED BY <1>2, <1>5, <1>14, <3>1
  <2>2. CASE j \in G
    BY <1>1, <1>7, <1>14, <2>1, <2>2 DEF Row
  <2>3. CASE j = z + 1
    BY <1>7, <1>11, <2>1, <2>3
  <2> QED BY <1>5, <2>2, <2>3
<1>15. Row(sq, jq, K, e)
  BY <1>8, <1>13, <1>14 DEF Row
<1>16. \A i \in U : Written(sq, jq, v[i])
  BY <1>1, <1>9 DEF Row
<1>17. ASSUME NEW i \in U, NEW j \in U, i < j PROVE Precedes(v[i], v[j])
  <2>1. n + i < n + j
    BY <1>17
  <2> QED BY <1>1, <1>9, <2>1 DEF Row
<1>18. Row(sq, jq, U, v)
  BY <1>9, <1>16, <1>17 DEF Row
<1>19. \A i \in K : k[i] = MessageAt(sq, e[i])
  <2>1. \A i \in G : i \in 1..z /\ g[i] = MessageAt(sq, f[i])
    BY <1>6 DEF Trace
  <2> QED BY <1>3, <1>5, <1>7, <2>1
<1>20. \A i \in U : FrameAt(u, i, MessageAt(sq, v[i]))
  BY <1>9
<1>21. \A i \in K, j \in U : Precedes(e[i], v[j])
  <2> TAKE i \in K, j \in U
  <2>1. CASE i \in G
    BY <1>7, <1>9, <2>1 DEF Trace
  <2>2. CASE i = z + 1
    BY <1>7, <1>9, <1>12, <2>2
  <2> QED BY <1>5, <2>1, <2>2
<1>22. Trace(sq, jq, k, K, u, U, e, v)
  BY <1>15, <1>18, <1>19, <1>20, <1>21 DEF Trace
<1> QED BY <1>4, <1>22 DEF Traced, k, K

---------------------------------------------------------------------------
(* Buffers. *)

\* A frame is still one where all its bytes are shown.
LEMMA FrameWhereShown ==
    ASSUME NEW s, NEW u, Len(s) \in Nat, NEW i \in Nat, NEW j \in Nat,
           NEW m, Sent(m),
           FrameAt(s, i, m), Shows(s, i, u, j)
    PROVE  FrameAt(u, j, m)
<1> DEFINE n == WireLen(m)
           w == Wire(m)
<1>1. n \in Nat /\ n >= 9
  <2>1. Len(m.data) \in Nat /\ n = Len(m.data) + 9
    BY WireShape
  <2> HIDE DEF n
  <2> QED BY <2>1
<1>2. i + n - 1 <= Len(s) /\ \A k \in 1..n : s[i + k - 1] = w[k]
  BY DEF FrameAt, PartAt
<1> HIDE DEF n, w
<1> SUFFICES j + n - 1 <= Len(u) /\ \A k \in 1..n : u[j + k - 1] = w[k]
  BY DEF FrameAt, PartAt, n, w
<1> DEFINE z == Len(s)
<1>3. i + n - 1 <= z /\ \A k \in Nat : i + k <= z => j + k <= Len(u) /\ u[j + k] = s[i + k]
  BY <1>2 DEF Shows
<1>4. \A k \in 1..n : j + k - 1 <= Len(u) /\ u[j + k - 1] = w[k]
  <2> TAKE k \in 1..n
  <2> DEFINE b == k - 1
  <2>1. b \in Nat /\ i + k - 1 = i + b /\ j + k - 1 = j + b /\ i + b <= i + n - 1
    BY <1>1
  <2>2. i + b <= z
    <3>1. z \in Nat
      OBVIOUS
    <3> HIDE DEF z, b
    <3> QED BY <1>1, <1>3, <2>1, <3>1
  <2> HIDE DEF b, z
  <2> QED BY <1>2, <1>3, <2>1, <2>2
<1>5. n \in 1..n
  BY <1>1
<1> QED BY <1>4, <1>5
\* What is written behind a buffer, unless it splits a marker.
LEMMA Joined ==
    ASSUME NEW s \in Seq(Byte), NEW w \in Seq(Byte), w[1] # 144
    PROVE  /\ Len(s) \in Nat /\ Len(w) \in Nat /\ DOMAIN s = 1..Len(s)
           /\ \A i \in Nat : Shows(s, i + 1, s \o w, i + 1)
           /\ \A i \in Nat : Shows(w, i + 1, s \o w, Len(s) + (i + 1))
           /\ \A i \in Starts(s \o w) :
                 /\ i \in Nat /\ i >= 1
                 /\ i <= Len(s) => i \in Starts(s)
                 /\ i > Len(s) => i - Len(s) \in Starts(w)
<1> DEFINE a == Len(s)
           b == Len(w)
           u == s \o w
<1>1. /\ a \in Nat /\ b \in Nat
      /\ u \in Seq(Byte) /\ Len(u) = a + b /\ DOMAIN u = 1..(a + b)
      /\ \A i \in 1..a : u[i] = s[i]
      /\ \A i \in 1..b : u[a + i] = w[i]
  BY ConcatParts
<1>2. DOMAIN s = 1..a /\ DOMAIN w = 1..b
  BY LenProperties
<1>3. Len(s) = a /\ Len(w) = b
  OBVIOUS
<1> HIDE DEF a, b, u
<1>4. ASSUME NEW i \in Nat PROVE Shows(s, i + 1, u, i + 1)
  <2> SUFFICES ASSUME NEW k \in Nat, (i + 1) + k <= a
               PROVE  (i + 1) + k <= Len(u) /\ u[(i + 1) + k] = s[(i + 1) + k]
    BY <1>3 DEF Shows
  <2>1. (i + 1) + k \in 1..a /\ (i + 1) + k <= a + b
    BY <1>1
  <2> QED BY <1>1, <2>1
<1>5. ASSUME NEW i \in Nat PROVE Shows(w, i + 1, u, a + (i + 1))
  <2> SUFFICES ASSUME NEW k \in Nat, (i + 1) + k <= b
               PROVE  (a + (i + 1)) + k <= Len(u) /\ u[(a + (i + 1)) + k] = w[(i + 1) + k]
    BY <1>3 DEF Shows
  <2>1. /\ (i + 1) + k \in 1..b /\ a + ((i + 1) + k) = (a + (i + 1)) + k
        /\ (a + (i + 1)) + k <= a + b
    BY <1>1
  <2> QED BY <1>1, <2>1
<1>6. ASSUME NEW i \in Starts(u)
      PROVE  /\ i \in Nat /\ i >= 1
             /\ i <= a => i \in Starts(s)
             /\ i > a => i - a \in Starts(w)
  <2>1. /\ i \in 1..(a + b) /\ i + 1 \in 1..(a + b)
        /\ u[i] = 235 /\ u[i + 1] = 144 /\ ~AnnouncesNothing(u, i)
    BY <1>1 DEF Starts, Marker
  <2>2. i \in Nat /\ i >= 1
    BY <1>1, <2>1
  <2>3. ASSUME i < a PROVE i \in Starts(s)
    <3>1. i \in 1..a /\ i + 1 \in 1..a
      BY <1>1, <2>2, <2>3
    <3>2. i \in DOMAIN s /\ Marker(s, i)
      BY <1>1, <1>2, <2>1, <3>1 DEF Marker
    <3>3. ASSUME AnnouncesNothing(s, i) PROVE FALSE
      <4>1. i + 4 <= a /\ s[i + 3] = 0 /\ s[i + 4] < 3
        BY <1>3, <3>3 DEF AnnouncesNothing
      <4>2. i + 3 \in 1..a /\ i + 4 \in 1..a /\ i + 4 <= a + b
        BY <1>1, <2>2, <4>1
      <4> QED BY <1>1, <2>1, <4>1, <4>2 DEF AnnouncesNothing
    <3> QED BY <3>2, <3>3 DEF Starts
  <2>4. i # a
    <3> SUFFICES ASSUME i = a PROVE FALSE
      OBVIOUS
    <3>1. 1 \in 1..b /\ i + 1 = a + 1
      BY <1>1, <2>1
    <3> QED BY <1>1, <2>1, <3>1
  <2>5. ASSUME i > a PROVE i - a \in Starts(w)
    <3> DEFINE j == i - a
    <3>1. /\ j \in 1..b /\ j + 1 \in 1..b /\ j \in Nat
          /\ a + j = i /\ a + (j + 1) = i + 1
      BY <1>1, <2>1, <2>5
    <3> HIDE DEF j
    <3>2. j \in DOMAIN w /\ Marker(w, j)
      <4>1. w[j] = u[a + j] /\ w[j + 1] = u[a + (j + 1)]
        BY <1>1, <3>1
      <4>2. w[j] = 235 /\ w[j + 1] = 144
        BY <2>1, <3>1, <4>1
      <4> QED BY <1>2, <3>1, <4>2 DEF Marker
    <3>3. ASSUME AnnouncesNothing(w, j) PROVE FALSE
      <4>1. j + 4 <= b /\ w[j + 3] = 0 /\ w[j + 4] < 3
        BY <1>3, <3>3 DEF AnnouncesNothing
      <4>2. j \in Nat /\ a \in Nat /\ b \in Nat /\ j >= 1 /\ j + 4 <= b /\ a + j = i
        BY <1>1, <3>1, <4>1
      <4>3. j + 3 \in 1..b /\ j + 4 \in 1..b
        BY <4>2
      <4>4. i + 4 <= a + b /\ a + (j + 3) = i + 3 /\ a + (j + 4) = i + 4
        BY <4>2
      <4>5. u[a + (j + 3)] = w[j + 3] /\ u[a + (j + 4)] = w[j + 4]
        BY <1>1, <4>3
      <4>6. u[i + 3] = 0 /\ u[i + 4] < 3
        BY <4>1, <4>4, <4>5
      <4> QED BY <1>1, <2>1, <4>4, <4>6 DEF AnnouncesNothing
    <3>4. j \in Starts(w)
      BY <3>2, <3>3 DEF Starts
    <3> QED BY <3>4 DEF j
  <2> QED BY <1>1, <2>2, <2>3, <2>4, <2>5
<1> QED BY <1>1, <1>2, <1>4, <1>5, <1>6 DEF a, b, u

\* What is left of a buffer after its first n bytes.
LEMMA Rest ==
    ASSUME NEW s \in Seq(Byte), NEW n \in Nat, n <= Len(s)
    PROVE  LET u == SubSeq(s, n + 1, Len(s))
           IN \A i \in Starts(u) :
                 i \in Nat /\ i >= 1 /\ n + i \in Starts(s) /\ Shows(s, n + i, u, i)
<1> DEFINE z == Len(s)
           u == SubSeq(s, n + 1, z)
<1>1. z \in Nat /\ DOMAIN s = 1..z /\ \A i \in 1..z : s[i] \in Byte
  BY LenProperties
<1>2. n <= z
  OBVIOUS
<1>3. Len(s) = z
  OBVIOUS
<1> HIDE DEF z
<1>4. n + 1 \in Int /\ z \in Int /\ \A i \in (n + 1)..z : s[i] \in Byte
  BY <1>1
<1>5. /\ u \in Seq(Byte) /\ Len(u) = (IF n + 1 <= z THEN z - (n + 1) + 1 ELSE 0)
      /\ \A i \in 1..(z - (n + 1) + 1) : u[i] = s[(n + 1) + i - 1]
  BY <1>4, SubSeqProperties
<1> HIDE DEF u
<1>6. Len(u) = z - n
  BY <1>1, <1>2, <1>5
<1>7. DOMAIN u = 1..(z - n)
  BY <1>5, <1>6, LenProperties
<1>8. \A i \in 1..(z - n) : u[i] = s[n + i]
  <2> TAKE i \in 1..(z - n)
  <2>1. i \in 1..(z - (n + 1) + 1) /\ (n + 1) + i - 1 = n + i
    BY <1>1
  <2> QED BY <1>5, <2>1
<1>9. ASSUME NEW i \in Starts(u)
      PROVE  i \in Nat /\ i >= 1 /\ n + i \in Starts(s) /\ Shows(s, n + i, u, i)
  <2>1. /\ i \in 1..(z - n) /\ i + 1 \in 1..(z - n) /\ u[i] = 235 /\ u[i + 1] = 144
        /\ ~AnnouncesNothing(u, i)
    BY <1>7, <1>9 DEF Starts, Marker
  <2>2. /\ n + i \in 1..z /\ (n + i) + 1 \in 1..z /\ n + (i + 1) = (n + i) + 1
        /\ i \in Nat /\ i >= 1
    BY <1>1, <2>1
  <2>3. n + i \in DOMAIN s /\ Marker(s, n + i)
    <3>1. s[n + i] = 235 /\ s[(n + i) + 1] = 144
      BY <1>8, <2>1, <2>2
    <3> QED BY <1>1, <2>2, <3>1 DEF Marker
  <2>4. ASSUME AnnouncesNothing(s, n + i) PROVE FALSE
    <3>1. (n + i) + 4 <= z /\ s[(n + i) + 3] = 0 /\ s[(n + i) + 4] < 3
      BY <1>3, <2>4 DEF AnnouncesNothing
    <3>2. /\ i + 3 \in 1..(z - n) /\ i + 4 \in 1..(z - n) /\ i + 4 <= z - n
          /\ n + (i + 3) = (n + i) + 3 /\ n + (i + 4) = (n + i) + 4
      BY <1>1, <2>2, <3>1
    <3>3. u[i + 3] = 0 /\ u[i + 4] < 3
      BY <1>8, <3>1, <3>2
    <3> QED BY <1>6, <2>1, <3>2, <3>3 DEF AnnouncesNothing
  <2>5. Shows(s, n + i, u, i)
    <3> SUFFICES ASSUME NEW k \in Nat, (n + i) + k <= z
                 PROVE  i + k <= Len(u) /\ u[i + k] = s[(n + i) + k]
      BY <1>3 DEF Shows
    <3>1. i + k \in 1..(z - n) /\ n + (i + k) = (n + i) + k
      BY <1>1, <2>1
    <3> QED BY <1>6, <1>8, <3>1
  <2> QED BY <2>2, <2>3, <2>4, <2>5 DEF Starts
<1> QED BY <1>3, <1>9 DEF u

LEMMA StartsInside ==
    ASSUME NEW s \in Seq(Byte)
    PROVE  Starts(s) \in SUBSET Nat
<1>1. DOMAIN s \subseteq Nat
  BY LenProperties
<1> QED BY <1>1 DEF Starts

LEMMA NothingStarts == ASSUME NEW damaged PROVE SoundStarts(<<>>, damaged) = {}
<1>1. \A i \in DOMAIN <<>> : FALSE
  BY EmptySeq
<1> QED BY <1>1 DEF SoundStarts, Starts

\* Nothing to keep track of in the buffer any more; tasks may have ended.
LEMMA TraceForgets ==
    ASSUME NEW sq, NEW jq, NEW g, NEW G, NEW s, NEW S, Traced(sq, jq, g, G, s, S),
           NEW u, NEW jr, \A r \in Tasks : jr[r] # <<>> => jq[r] # <<>>,
           NEW k, \A i \in G : k[i] = g[i]
    PROVE  Traced(sq, jr, k, G, u, {})
<1>1. PICK f, h : Trace(sq, jq, g, G, s, S, f, h)
  BY DEF Traced
<1> DEFINE v == [i \in {} |-> 0]
<1>2. Row(sq, jq, G, f) /\ \A i \in G : g[i] = MessageAt(sq, f[i])
  BY <1>1 DEF Trace
<1>3. ASSUME NEW x \in Place(sq), Written(sq, jq, x) PROVE Written(sq, jr, x)
  <2>1. x[1] \in Tasks
    BY DEF Place
  <2> QED BY <1>3, <2>1 DEF Written
<1>4. Row(sq, jr, G, f)
  BY <1>2, <1>3 DEF Row
<1>5. Row(sq, jr, {}, v)
  BY DEF Row
<1>6. Trace(sq, jr, k, G, u, {}, f, v)
  BY <1>2, <1>4, <1>5 DEF Trace
<1> QED BY <1>6 DEF Traced

\* A read that is accepted begins with the frame of the message it shows.
LEMMA AcceptedShows ==
    ASSUME Typed, NEW p \in Ports, Buffer(p), Sound(p),
           NEW n \in DOMAIN line[p], n <= ReadMax, Accepted(SubSeq(line[p], 1, n))
    PROVE  /\ 1 \in Starts(line[p])
           /\ \A m : Sent(m) /\ FrameAt(line[p], 1, m)
                    => Received(SubSeq(line[p], 1, n)) = m
<1> DEFINE s == line[p]
           c == SubSeq(s, 1, n)
<1>1. /\ n \in Nat /\ n <= Len(s) /\ Len(s) \in Nat
      /\ c \in Seq(Byte) /\ Len(c) = n
      /\ \A i \in 1..n : c[i] = s[i]
  BY ReadParts
<1>2. PICK k \in OfferedSet(Peer(p)) : c = Wire(k)
  BY AcceptedIsFrame
<1>3. Sent(k)
  BY <1>2, Peers, OfferFacts DEF OfferedSet
<1> DEFINE d == Len(k.data)
<1>4. /\ d \in Nat /\ Len(c) = d + 9
      /\ c[1] = 235 /\ c[2] = 144 /\ c[4] = 0 /\ c[5] = d + 3
  <2> DEFINE w == Wire(k)
  <2>1. /\ d \in Nat /\ Len(w) = d + 9
        /\ w[1] = 235 /\ w[2] = 144 /\ w[4] = 0 /\ w[5] = d + 3
    BY <1>3, WireShape
  <2>2. c = w
    BY <1>2
  <2> HIDE DEF c, d, w
  <2> QED BY <2>1, <2>2
<1>5. DOMAIN s = 1..Len(s)
  <2>1. s \in Seq(Byte)
    BY DEF Typed
  <2> QED BY <2>1, LenProperties
<1> HIDE DEF s, c, d
<1>6. n = d + 9
  BY <1>1, <1>4
<1>7. 1 \in 1..n /\ 2 \in 1..n /\ 5 \in 1..n
  BY <1>4, <1>6
<1>8. s[1] = 235 /\ s[2] = 144 /\ s[5] = d + 3
  BY <1>1, <1>4, <1>7
<1>9. 1 \in Starts(s)
  <2>1. 1 \in 1..Len(s) /\ 1 + 1 \in 1..Len(s)
    BY <1>1, <1>4, <1>6
  <2>2. 1 \in DOMAIN s /\ Marker(s, 1)
    BY <1>5, <1>8, <2>1 DEF Marker
  <2>3. ~AnnouncesNothing(s, 1)
    <3> SUFFICES ASSUME s[1 + 4] < 3 PROVE FALSE
      BY DEF AnnouncesNothing
    <3>1. s[1 + 4] = s[5]
      OBVIOUS
    <3> QED BY <1>4, <1>8, <3>1
  <2> QED BY <2>2, <2>3 DEF Starts
<1>10. ASSUME NEW m, Sent(m), FrameAt(s, 1, m) PROVE Received(c) = m
  <2> DEFINE e == Len(m.data)
             w == Wire(m)
             z == WireLen(m)
  <2>1. /\ e \in Nat /\ w \in Seq(Byte) /\ Len(w) = e + 9 /\ z = e + 9 /\ w[5] = e + 3
    BY <1>10, WireShape
  <2>2. \A i \in 1..z : s[1 + i - 1] = w[i]
    BY <1>10 DEF FrameAt, PartAt
  <2> HIDE DEF e, w, z
  <2>3. \A i \in 1..z : s[i] = w[i]
    <3> TAKE i \in 1..z
    <3>1. 1 + i - 1 = i
      BY <2>1
    <3> QED BY <2>2, <3>1
  <2>4. 5 \in 1..z
    BY <2>1
  <2>5. e = d
    BY <1>4, <1>8, <2>1, <2>3, <2>4
  <2>6. Len(c) = Len(w) /\ \A i \in 1..Len(c) : c[i] = w[i]
    BY <1>1, <1>6, <2>1, <2>3, <2>5
  <2>7. c = w
    BY <1>1, <2>1, <2>6, SeqEqual
  <2> QED BY <1>10, <2>7, ReceivedOfWire DEF w
<1> QED BY <1>9, <1>10 DEF s, c

---------------------------------------------------------------------------
(* The steps, for the port q that receives. *)

\* The parts of what each port has that the delivery to q is about.
LEMMA ReceivingStays ==
    ASSUME NEW q \in Ports, Receiving(q),
           sent'[Peer(q)] = sent[Peer(q)], job'[Peer(q)] = job[Peer(q)],
           got'[q] = got[q], garbled'[q] = garbled[q],
           line'[q] = line[q], harm'[q] = harm[q]
    PROVE  Receiving(q)'
<1>1. Peer(q)' = Peer(q)
  BY DEF Peer
<1> QED BY <1>1 DEF Receiving, Faithful, Sound

LEMMA ReceivingSend ==
    ASSUME Typed, NEW q \in Ports, Receiving(q),
           NEW p \in Ports, NEW t \in Tasks, Send(p, t)
    PROVE  Receiving(q)'
<1>1. line' = line /\ harm' = harm /\ got' = got /\ garbled' = garbled /\ job[p][t] = <<>>
  BY DEF Send
<1>2. PICK req \in Requests[p][t] :
         IF Sendable(req)
         THEN /\ job' = [job EXCEPT ![p][t] = Wire(MessageOf(req))]
              /\ sent' = [sent EXCEPT ![p][t] = Append(@, MessageOf(req))]
         ELSE UNCHANGED <<job, sent>>
  BY DEF Send
<1>3. CASE ~Sendable(req) \/ p # Peer(q)
  <2>1. sent'[Peer(q)] = sent[Peer(q)] /\ job'[Peer(q)] = job[Peer(q)]
    BY <1>2, <1>3, Peers DEF Typed
  <2> QED BY <1>1, <2>1, ReceivingStays
<1>4. CASE Sendable(req) /\ p = Peer(q)
  <2> DEFINE m == MessageOf(req)
             sq == sent[p]
             jq == job[p]
             sr == sent'[p]
             jr == job'[p]
  <2>1. sq \in [Tasks -> Seq(Msgs)] /\ jq[t] = <<>>
    BY <1>1 DEF Typed
  <2>2. m \in Msgs
    BY <1>4, Sends
  <2>3. sr[t] = Append(sq[t], m)
    BY <1>2, <1>4 DEF Typed
  <2>4. \A r \in Tasks : r # t => sr[r] = sq[r] /\ jr[r] = jq[r]
    BY <1>2, <1>4 DEF Typed
  <2> DEFINE S == SoundStarts(line[q], ~Sound(q))
             G == Faithful(q)
  <2>5. Traced(sq, jq, got[q], G, line[q], S)
    BY <1>4 DEF Receiving
  <2>6. S' = S /\ G' = G
    BY <1>1 DEF Sound, Faithful
  <2> HIDE DEF m, sq, jq, sr, jr, S, G
  <2>7. Traced(sr, jr, got[q], G, line[q], S)
    BY <2>1, <2>2, <2>3, <2>4, <2>5, TraceGrows, ZenonT(60)
  <2>8. Peer(q)' = p
    BY <1>4 DEF Peer
  <2>9. Traced(sr, jr, got'[q], G', line'[q], S')
    BY <1>1, <2>6, <2>7
  <2> QED BY <1>1, <2>8, <2>9 DEF Receiving, sr, jr, S, G
<1> QED BY <1>3, <1>4

\* The bytes of q are harmed, or all gone; a task of the other port may have
\* ended.
LEMMA ReceivingHarmed ==
    ASSUME Typed, NEW q \in Ports, Receiving(q), line'[q] = <<>> \/ ~Sound(q)',
           UNCHANGED <<sent, got, garbled>>,
           \A r \in Tasks : job'[Peer(q)][r] # <<>> => job[Peer(q)][r] # <<>>
    PROVE  Receiving(q)'
<1>1. SoundStarts(line'[q], ~Sound(q)') = {}
  BY NothingStarts DEF SoundStarts
<1>2. Traced(sent[Peer(q)], job'[Peer(q)], got[q], Faithful(q), line'[q], {})
  BY TraceForgets DEF Receiving
<1>3. Peer(q)' = Peer(q) /\ Faithful(q)' = Faithful(q)
  BY DEF Peer, Faithful
<1> QED BY <1>1, <1>2, <1>3 DEF Receiving

LEMMA ReceivingWriteAll ==
    ASSUME Typed, NEW q \in Ports, Receiving(q),
           NEW p \in Ports, NEW t \in Tasks, WriteAll(p, t), Queued(p), Sending(p)
    PROVE  Receiving(q)'
<1>1. /\ garbled' = garbled /\ sent' = sent /\ got' = got /\ Holds(p, t)
      /\ line' = [line EXCEPT ![Peer(p)] = @ \o job[p][t]]
      /\ job' = [job EXCEPT ![p][t] = <<>>]
      /\ Harms(Peer(p), Marks(job[p][t])) /\ Marks(job[p][t]) \in SUBSET Harm
  BY MarksHarm DEF WriteAll, Writing
<1>2. Peer(p) \in Ports /\ Peer(Peer(p)) = p /\ Peer(p) # p
  BY Peers
<1>3. CASE q # Peer(p)
  <2>1. Peer(q) # p
    BY <1>2, <1>3, Peers
  <2>2. job'[Peer(q)] = job[Peer(q)] /\ line'[q] = line[q]
    BY <1>1, <1>2, <1>3, <2>1, Peers DEF Typed
  <2>3. harm'[q] = harm[q]
    BY <1>1, <1>2, <1>3, HarmsTyped
  <2> QED BY <1>1, <2>2, <2>3, ReceivingStays
<1>4. CASE q = Peer(p) /\ (line'[q] = <<>> \/ ~Sound(q)')
  <2>1. \A r \in Tasks : job'[Peer(q)][r] # <<>> => job[Peer(q)][r] # <<>>
    BY <1>1, <1>2, <1>4 DEF Typed
  <2> QED BY <1>1, <1>4, <2>1, ReceivingHarmed
<1>5. CASE q = Peer(p) /\ line'[q] # <<>> /\ Sound(q)'
  <2> DEFINE s == line[q]
             w == job[p][t]
             u == s \o w
             sq == sent[p]
             jq == job[p]
             jr == job'[p]
             m == sq[t][Len(sq[t])]
             S == Starts(s)
             U == Starts(u)
             G == Faithful(q)
             l == Len(s)
             a == l + 1
  <2>0. Sound(q) /\ Plain(w)
    <3>1. Sound(q) /\ Marks(w) \subseteq {"noise"}
      BY <1>1, <1>5, HarmsStay
    <3> QED BY <3>1 DEF Marks
  <2>1. w # <<>>
    <3>1. file[p] \in Seq(Actors) /\ file[p] # <<>> /\ Head(file[p]) = t
      BY <1>1 DEF Typed, Holds
    <3>2. 1 \in DOMAIN file[p] /\ file[p][1] = t
      BY <3>1
    <3> QED BY <3>2 DEF Queued, InLine
  <2>2. sq[t] # <<>> /\ w = Wire(m)
    BY <2>1 DEF Sending, WritesLast
  <2>3. sq \in [Tasks -> Seq(Msgs)] /\ s \in Seq(Byte)
    BY DEF Typed
  <2>4. m \in Offers[p]
    <3>1. Len(sq[t]) \in DOMAIN sq[t]
      <4> DEFINE v == sq[t]
      <4>1. v \in Seq(Msgs) /\ v # <<>>
        BY <2>2, <2>3
      <4> HIDE DEF v, sq
      <4>2. Len(v) \in Nat /\ Len(v) # 0 /\ DOMAIN v = 1..Len(v)
        BY <4>1, LenProperties, EmptySeq
      <4> QED BY <4>2 DEF v
    <3> QED BY <3>1 DEF Sending, OffersOnly
  <2>5. Sent(m) /\ w \in Seq(Byte) /\ w[1] # 144
    <3> HIDE DEF m
    <3>1. Sent(m)
      BY <2>4, OfferFacts
    <3>2. Wire(m) \in Seq(Byte) /\ Wire(m)[1] = 235
      BY <3>1, WireShape
    <3> HIDE DEF w
    <3> QED BY <2>2, <3>1, <3>2
  <2>6. PICK f, h : Trace(sq, jq, got[q], G, s, S, f, h)
    BY <1>5, <1>2, <2>0 DEF Receiving, Traced, SoundStarts
  <2>7. jr[t] = <<>> /\ \A r \in Tasks : r # t => jr[r] = jq[r]
    BY <1>1 DEF Typed
  <2>8. S \in SUBSET Nat
    BY <2>3, StartsInside
  <2>9. jq[t] # <<>>
    BY <2>1
  <2>10. line'[q] = u
    BY <1>1, <1>2, <1>5 DEF Typed
  <2>11. \A i \in S : i \in DOMAIN s /\ FrameAt(s, i, MessageAt(sq, h[i])) /\ h[i] \in Place(sq)
    BY <2>6 DEF Trace, Row, Starts
  <2>12. m = sq[t][Len(sq[t])]
    OBVIOUS
  <2> HIDE DEF s, w, u, sq, jq, jr, m, S, U, G
  <2>13. /\ l \in Nat /\ DOMAIN s = 1..l
         /\ \A i \in Nat : Shows(s, i + 1, u, i + 1)
         /\ \A i \in Nat : Shows(w, i + 1, u, l + (i + 1))
         /\ \A i \in Starts(u) :
               /\ i \in Nat /\ i >= 1
               /\ i <= l => i \in Starts(s)
               /\ i > l => i - l \in Starts(w)
    BY <2>3, <2>5, Joined DEF u
  <2>14. Len(s) \in Nat
    BY <2>13
  <2> HIDE DEF l
  <2>15. \A x \in Place(sq) : Sent(MessageAt(sq, x))
    BY OfferFacts DEF Sending, OffersOnly, Place, MessageAt, sq
  <2>16. \A i \in S : i < a
    BY <2>11, <2>13
  <2>17. \A i \in U : i \in S \/ i = a
    <3> TAKE i \in U
    <3>1. i \in Starts(u)
      BY DEF U
    <3>2. i \in Nat /\ (i <= l => i \in Starts(s)) /\ (i > l => i - l \in Starts(w))
      BY <2>13, <3>1
    <3>3. CASE i <= l
      BY <3>2, <3>3 DEF S
    <3>4. CASE i > l
      <4>1. i - l \in DOMAIN w /\ Marker(w, i - l)
        BY <3>2, <3>4 DEF Starts
      <4>2. i - l = 1
        BY <2>0, <4>1 DEF Plain
      <4> QED BY <2>13, <3>2, <4>2
    <3> QED BY <2>13, <3>2, <3>3, <3>4
  <2>18. \A i \in S : FrameAt(u, i, MessageAt(sq, h[i]))
    <3> TAKE i \in S
    <3>1. FrameAt(s, i, MessageAt(sq, h[i])) /\ Sent(MessageAt(sq, h[i])) /\ i \in 1..l
      BY <2>11, <2>13, <2>15
    <3> DEFINE b == i - 1
    <3>2. b \in Nat /\ b + 1 = i /\ i \in Nat
      BY <2>13, <3>1
    <3> HIDE DEF b
    <3>3. Shows(s, i, u, i)
      <4>1. Shows(s, b + 1, u, b + 1)
        BY <2>13, <3>2
      <4> QED BY <3>2, <4>1
    <3> QED BY <2>14, <3>1, <3>2, <3>3, FrameWhereShown
  <2>19. FrameAt(u, a, m)
    <3>1. Len(w) = WireLen(m) /\ Len(w) \in Nat
      <4> DEFINE d == Len(m.data)
      <4>1. Len(Wire(m)) = d + 9 /\ WireLen(m) = d + 9 /\ d \in Nat
        BY <2>5, WireShape
      <4> HIDE DEF d
      <4> QED BY <2>2, <4>1
    <3>2. FrameAt(w, 1, m)
      <4> DEFINE z == WireLen(m)
      <4>1. z = Len(w) /\ z \in Nat
        BY <3>1
      <4> HIDE DEF z
      <4>2. 1 + z - 1 <= Len(w)
        BY <4>1
      <4>3. \A k \in 1..z : w[1 + k - 1] = w[k]
        <5> TAKE k \in 1..z
        <5>1. 1 + k - 1 = k
          BY <4>1
        <5> QED BY <5>1
      <4> QED BY <2>2, <4>2, <4>3 DEF FrameAt, PartAt, z
    <3>3. Shows(w, 1, u, a)
      <4>1. 0 \in Nat /\ 0 + 1 = 1 /\ l + (0 + 1) = a
        BY <2>13
      <4>2. Shows(w, 0 + 1, u, l + (0 + 1))
        BY <2>13, <4>1
      <4> QED BY <4>1, <4>2
    <3>4. a \in Nat /\ 1 \in Nat
      BY <2>13
    <3> HIDE DEF a
    <3> QED BY <2>5, <3>1, <3>2, <3>3, <3>4, FrameWhereShown
  <2>20. a \in Nat
    BY <2>13
  <2> HIDE DEF a
  <2>21. U \subseteq S \cup {a}
    BY <2>17
  <2>22. FrameAt(u, a, sq[t][Len(sq[t])])
    BY <2>12, <2>19
  <2>23. Traced(sq, jr, got[q], G, u, U)
    <3>1. \A i \in U : i \in S => FrameAt(u, i, MessageAt(sq, h[i]))
      BY <2>18
    <3>2. sq[t] # <<>>
      BY <2>2
    <3> QED BY <2>3, <2>6, <2>7, <2>8, <2>9, <2>16, <2>20, <2>21, <2>22, <3>1, <3>2, TraceWritten,
            ZenonT(60)
  <2>24. Peer(q)' = p /\ Faithful(q)' = G
    BY <1>1, <1>2, <1>5 DEF Peer, Faithful, G
  <2>25. SoundStarts(line'[q], ~Sound(q)') = U
    BY <1>5, <2>10 DEF SoundStarts, U
  <2>26. Traced(sent'[p], jr, got'[q], Faithful(q)', line'[q], SoundStarts(line'[q], ~Sound(q)'))
    BY <1>1, <2>10, <2>23, <2>24, <2>25 DEF sq
  <2> QED BY <1>1, <2>24, <2>26 DEF Receiving, jr
<1> QED BY <1>3, <1>4, <1>5

LEMMA ReceivingWriteCut ==
    ASSUME Typed, NEW q \in Ports, Receiving(q),
           NEW p \in Ports, NEW t \in Tasks, WriteCut(p, t)
    PROVE  Receiving(q)'
<1> DEFINE kinds == Marks(job[p][t]) \cup {"cut"}
<1>1. /\ sent' = sent /\ got' = got /\ garbled' = garbled /\ Harms(Peer(p), kinds)
      /\ job' = [job EXCEPT ![p][t] = <<>>]
  BY DEF WriteCut, Writing
<1>2. Peer(p) \in Ports /\ Peer(Peer(p)) = p /\ Peer(p) # p
  BY Peers
<1>3. \A r \in Ports : r # Peer(p) => line'[r] = line[r]
  BY <1>2 DEF WriteCut, Typed
<1>4. kinds \in SUBSET Harm /\ ~(kinds \subseteq {"noise"})
  BY MarksHarm DEF Harm
<1> HIDE DEF kinds
<1>5. CASE q # Peer(p)
  <2>1. Peer(q) # p
    BY <1>2, <1>5, Peers
  <2>2. job'[Peer(q)] = job[Peer(q)] /\ line'[q] = line[q]
    BY <1>1, <1>2, <1>3, <1>5, <2>1, Peers DEF Typed
  <2>3. harm'[q] = harm[q]
    BY <1>1, <1>2, <1>4, <1>5, HarmsTyped
  <2> QED BY <1>1, <2>2, <2>3, ReceivingStays
<1>6. CASE q = Peer(p)
  <2>1. \A r \in Tasks : job'[Peer(q)][r] # <<>> => job[Peer(q)][r] # <<>>
    BY <1>1, <1>2, <1>6 DEF Typed
  <2>2. line'[q] = <<>> \/ ~Sound(q)'
    BY <1>1, <1>4, <1>6, HarmsStay
  <2> QED BY <1>1, <2>1, <2>2, ReceivingHarmed
<1> QED BY <1>5, <1>6

LEMMA ReceivingDamage ==
    ASSUME Typed, NEW q \in Ports, Receiving(q),
           NEW p \in Ports, ByteChanges(p) \/ ByteLost(p)
    PROVE  Receiving(q)'
<1>1. sent' = sent /\ got' = got /\ garbled' = garbled /\ job' = job
  BY DEF ByteChanges, ByteLost
<1>2. PICK kind \in {"change", "lose"} : Harms(p, {kind})
  BY DEF ByteChanges, ByteLost
<1>3. {kind} \in SUBSET Harm /\ ~({kind} \subseteq {"noise"})
  BY DEF Harm
<1>4. CASE q # p
  <2>1. line'[q] = line[q]
    BY <1>4 DEF ByteChanges, ByteLost, Typed
  <2>2. harm'[q] = harm[q]
    BY <1>2, <1>3, <1>4, HarmsTyped
  <2> QED BY <1>1, <2>1, <2>2, ReceivingStays
<1>5. CASE q = p
  <2>1. line'[q] = <<>> \/ ~Sound(q)'
    BY <1>2, <1>3, <1>5, HarmsStay
  <2> QED BY <1>1, <2>1, ReceivingHarmed
<1> QED BY <1>4, <1>5

LEMMA ReceivingNoise ==
    ASSUME Typed, NEW q \in Ports, Receiving(q), NEW p \in Ports, NoiseArrives(p), Sending(Peer(q))
    PROVE  Receiving(q)'
<1>1. PICK w \in Noise[p] : line' = [line EXCEPT ![p] = @ \o w]
  BY DEF NoiseArrives
<1>2. /\ garbled' = garbled /\ sent' = sent /\ got' = got /\ job' = job
      /\ Harms(p, {"noise"}) /\ {"noise"} \in SUBSET Harm
  BY DEF NoiseArrives, Harm
<1>3. CASE q # p
  <2>1. harm'[q] = harm[q]
    BY <1>2, <1>3, HarmsTyped
  <2> QED BY <1>1, <1>2, <1>3, <2>1, ReceivingStays DEF Typed
<1>4. CASE q = p /\ (line'[q] = <<>> \/ ~Sound(q)')
  BY <1>2, <1>4, ReceivingHarmed
<1>5. CASE q = p /\ line'[q] # <<>> /\ Sound(q)'
  <2> DEFINE s == line[q]
             u == s \o w
             sq == sent[Peer(q)]
             jq == job[Peer(q)]
             S == Starts(s)
             U == Starts(u)
             G == Faithful(q)
             l == Len(s)
  <2>0. Sound(q)
    BY <1>2, <1>5, HarmsStay
  <2>1. w \in Seq(Byte) /\ w[1] # 144 /\ Starts(w) = {}
    <3>1. w \in Seq(Byte) /\ Harmless(w)
      BY <1>5, UartAssumption
    <3> QED BY <3>1 DEF Harmless, Starts
  <2>2. s \in Seq(Byte) /\ line'[q] = u
    BY <1>1, <1>5 DEF Typed
  <2>3. PICK f, h : Trace(sq, jq, got[q], G, s, S, f, h)
    BY <2>0 DEF Receiving, Traced, SoundStarts
  <2>4. \A i \in S : i \in DOMAIN s /\ FrameAt(s, i, MessageAt(sq, h[i])) /\ h[i] \in Place(sq)
    BY <2>3 DEF Trace, Row, Starts
  <2>5. \A x \in Place(sq) : Sent(MessageAt(sq, x))
    BY Peers, OfferFacts DEF Sending, OffersOnly, Place, MessageAt
  <2> HIDE DEF s, u, sq, jq, S, U, G
  <2>6. u \in Seq(Byte)
    BY <2>1, <2>2, ConcatProperties DEF u
  <2>7. U \in SUBSET Nat
    BY <2>6, StartsInside DEF U
  <2>8. /\ l \in Nat /\ DOMAIN s = 1..l
        /\ \A i \in Nat : Shows(s, i + 1, u, i + 1)
        /\ \A i \in Starts(u) :
              /\ i \in Nat /\ i >= 1
              /\ i <= l => i \in Starts(s)
              /\ i > l => i - l \in Starts(w)
    BY <2>1, <2>2, Joined DEF u
  <2>9. Len(s) \in Nat
    BY <2>8
  <2> HIDE DEF l
  <2>10. ASSUME NEW i \in U PROVE 0 + i \in S /\ FrameAt(u, i, MessageAt(sq, h[0 + i]))
    <3>1. i \in Starts(u)
      BY DEF U
    <3>2. i \in Nat /\ i >= 1 /\ i \in Starts(s)
      BY <2>1, <2>8, <3>1
    <3>3. i \in S
      BY <3>2 DEF S
    <3>4. FrameAt(s, i, MessageAt(sq, h[i])) /\ Sent(MessageAt(sq, h[i]))
      BY <2>4, <2>5, <3>3
    <3> DEFINE b == i - 1
    <3>5. b \in Nat /\ b + 1 = i
      BY <3>2
    <3> HIDE DEF b
    <3>6. Shows(s, i, u, i)
      <4>1. Shows(s, b + 1, u, b + 1)
        BY <2>8, <3>5
      <4> QED BY <3>5, <4>1
    <3>7. FrameAt(u, i, MessageAt(sq, h[i]))
      BY <2>9, <3>2, <3>4, <3>6, FrameWhereShown
    <3>8. 0 + i = i
      BY <3>2
    <3> QED BY <3>3, <3>7, <3>8
  <2>11. Traced(sq, jq, got[q], G, u, U)
    BY <2>3, <2>7, <2>10, TraceMoves
  <2>12. Peer(q)' = Peer(q) /\ Faithful(q)' = G
    BY <1>2 DEF Peer, Faithful, G
  <2>13. SoundStarts(line'[q], ~Sound(q)') = U
    BY <1>5, <2>2 DEF SoundStarts, U
  <2>14. Traced(sq, jq, got'[q], Faithful(q)', line'[q], SoundStarts(line'[q], ~Sound(q)'))
    BY <1>2, <2>2, <2>11, <2>12, <2>13
  <2> QED BY <1>2, <2>12, <2>14 DEF Receiving, sq, jq
<1> QED BY <1>3, <1>4, <1>5

\* What is accepted of bytes that are not sound is garbled, and so no part of
\* what the places are about.
LEMMA ReceivingGarbled ==
    ASSUME Typed, NEW q \in Ports, Receiving(q), ~Sound(q), NEW m \in Msgs,
           UNCHANGED <<job, sent>>, line'[q] = <<>> \/ ~Sound(q)',
           got'[q] = Append(got[q], m),
           garbled'[q] = garbled[q] \cup {Len(got[q]) + 1}
    PROVE  Receiving(q)'
<1> DEFINE g == got[q]
           z == Len(g)
           G == Faithful(q)
<1>1. g \in Seq(Msgs)
  BY DEF Typed
<1>2. z \in Nat /\ DOMAIN g = 1..z
  BY <1>1, LenProperties
<1>3. got'[q] = Append(g, m) /\ garbled'[q] = garbled[q] \cup {z + 1} /\ garbled[q] \subseteq DOMAIN g
  BY DEF Receiving
<1>4. G = DOMAIN g \ garbled[q] /\ Faithful(q)' = DOMAIN got'[q] \ garbled'[q]
  BY DEF Faithful
<1>5. Traced(sent[Peer(q)], job[Peer(q)], g, G, line[q], SoundStarts(line[q], ~Sound(q)))
  BY DEF Receiving
<1> HIDE DEF z, g, G
<1>6. /\ Append(g, m) \in Seq(Msgs) /\ Len(Append(g, m)) = Len(g) + 1
      /\ \A i \in 1..Len(g) : Append(g, m)[i] = g[i]
  BY <1>1, AppendProperties
<1>7. DOMAIN got'[q] = 1..(z + 1) /\ \A i \in 1..z : got'[q][i] = g[i]
  <2>1. DOMAIN Append(g, m) = 1..Len(Append(g, m))
    BY <1>6, LenProperties
  <2> QED BY <1>3, <1>6, <2>1 DEF z
<1>8. \A i \in 1..(z + 1) : i \in 1..z \/ i = z + 1
  BY <1>2
<1>9. (\A i \in 1..z : i \in 1..(z + 1) /\ i # z + 1) /\ z + 1 \in 1..(z + 1)
  BY <1>2
<1>10. Faithful(q)' = G /\ garbled'[q] \subseteq DOMAIN got'[q]
  BY <1>2, <1>3, <1>4, <1>7, <1>8, <1>9
<1>11. \A i \in G : got'[q][i] = g[i]
  BY <1>2, <1>4, <1>7
<1>12. SoundStarts(line'[q], ~Sound(q)') = {}
  BY NothingStarts DEF SoundStarts
<1>13. Traced(sent[Peer(q)], job[Peer(q)], got'[q], G, line'[q], {})
  BY <1>5, <1>11, TraceForgets
<1>14. Peer(q)' = Peer(q)
  BY DEF Peer
<1> QED BY <1>10, <1>12, <1>13, <1>14 DEF Receiving

LEMMA ReceivingReads ==
    ASSUME Typed, NEW q \in Ports, Receiving(q), Buffer(q), Sending(Peer(q)),
           NEW p \in Ports, NEW n \in DOMAIN line[p], Reads(p, n)
    PROVE  Receiving(q)'
<1> DEFINE b == SubSeq(line[p], 1, n)
<1>1. /\ line' = [line EXCEPT ![p] = SubSeq(line[p], n + 1, Len(line[p]))]
      /\ Harms(p, {}) /\ {} \in SUBSET Harm
      /\ Accepted(b) =>
           /\ got' = [got EXCEPT ![p] = Append(@, Received(b))]
           /\ garbled' = IF Sound(p) THEN garbled
                         ELSE [garbled EXCEPT ![p] = @ \cup {Len(got[p]) + 1}]
      /\ ~Accepted(b) => got' = got /\ garbled' = garbled
      /\ UNCHANGED <<job, sent>> /\ n <= ReadMax
  BY DEF Reads
<1> HIDE DEF b
<1>2. CASE q # p
  <2>1. line'[q] = line[q] /\ harm'[q] = harm[q]
    BY <1>1, <1>2, HarmsTyped DEF Typed
  <2>2. got'[q] = got[q] /\ garbled'[q] = garbled[q]
    BY <1>1, <1>2 DEF Typed
  <2> QED BY <1>1, <2>1, <2>2, ReceivingStays
<1>3. CASE q = p /\ ~Sound(q)
  <2>1. line'[q] = <<>> \/ ~Sound(q)'
    BY <1>1, <1>3, HarmsStay
  <2>2. CASE Accepted(b)
    <3>1. Received(b) \in Msgs
      <4>1. b \in Seq(Byte)
        BY ReadParts DEF b
      <4> QED BY <2>2, <4>1, ReceivedIsMessage
    <3>2. /\ got'[q] = Append(got[q], Received(b))
          /\ garbled'[q] = garbled[q] \cup {Len(got[q]) + 1}
      BY <1>1, <1>3, <2>2 DEF Typed
    <3> QED BY <1>1, <1>3, <2>1, <3>1, <3>2, ReceivingGarbled
  <2>3. CASE ~Accepted(b)
    BY <1>1, <2>1, <2>3, ReceivingHarmed
  <2> QED BY <2>2, <2>3
<1>4. CASE q = p /\ Sound(q)
  <2> DEFINE s == line[q]
             c == SubSeq(s, 1, n)
             u == SubSeq(s, n + 1, Len(s))
             g == got[q]
             G == Faithful(q)
             sq == sent[Peer(q)]
             jq == job[Peer(q)]
             S == Starts(s)
             U == Starts(u)
  <2>1. /\ n \in Nat /\ n >= 1 /\ n <= Len(s) /\ Len(s) \in Nat
        /\ c \in Seq(Byte) /\ u \in Seq(Byte)
    BY <1>4, ReadParts
  <2>2. line'[q] = u
    BY <1>1, <1>4 DEF Typed
  <2>3. s \in Seq(Byte) /\ g \in Seq(Msgs)
    BY DEF Typed
  <2>4. PICK f, h : Trace(sq, jq, g, G, s, S, f, h)
    BY <1>4 DEF Receiving, Traced, SoundStarts
  <2>5. \A i \in S : FrameAt(s, i, MessageAt(sq, h[i])) /\ h[i] \in Place(sq)
    BY <2>4 DEF Trace, Row
  <2>6. \A x \in Place(sq) : Sent(MessageAt(sq, x))
    BY Peers, OfferFacts DEF Sending, OffersOnly, Place, MessageAt
  <2>7. /\ garbled'[q] = garbled[q]
        /\ Accepted(c) => got'[q] = Append(g, Received(c))
        /\ ~Accepted(c) => got'[q] = g
    <3>1. got \in [Ports -> Seq(Msgs)] /\ c = b
      BY <1>4 DEF Typed, b
    <3> HIDE DEF c
    <3> QED BY <1>1, <1>4, <3>1
  <2>8. Accepted(c)
        => 1 \in Starts(s) /\ \A m : Sent(m) /\ FrameAt(s, 1, m) => Received(c) = m
    BY <1>1, <1>4, AcceptedShows
  <2>9. Sound(q)' \/ line'[q] = <<>>
    <3>1. line'[q] = <<>> \/ harm'[q] = harm[q] \cup {}
      BY <1>1, <1>4, HarmsTyped
    <3> QED BY <1>4, <3>1 DEF Sound
  <2>10. garbled[q] \subseteq DOMAIN g /\ G = DOMAIN g \ garbled[q]
    BY DEF Receiving, Faithful
  <2> HIDE DEF s, c, u, g, sq, jq, S, U, G
  <2>11. \A i \in Starts(u) :
            i \in Nat /\ i >= 1 /\ n + i \in Starts(s) /\ Shows(s, n + i, u, i)
    BY <2>1, <2>3, Rest DEF u
  <2>12. S \in SUBSET Nat
    BY <2>3, StartsInside DEF S
  <2>13. ASSUME NEW i \in U
         PROVE  i \in Nat \ {0} /\ n + i \in S /\ FrameAt(u, i, MessageAt(sq, h[n + i]))
    <3>1. i \in Nat /\ i >= 1 /\ n + i \in S /\ Shows(s, n + i, u, i)
      BY <2>11 DEF U, S
    <3>2. FrameAt(s, n + i, MessageAt(sq, h[n + i])) /\ Sent(MessageAt(sq, h[n + i]))
      BY <2>5, <2>6, <3>1
    <3>3. n + i \in Nat /\ i # 0
      BY <2>1, <3>1
    <3>4. FrameAt(u, i, MessageAt(sq, h[n + i]))
      BY <2>1, <3>1, <3>2, <3>3, FrameWhereShown
    <3> QED BY <3>1, <3>3, <3>4
  <2>14. U \in SUBSET (Nat \ {0}) /\ U \in SUBSET Nat
    BY <2>13
  <2>15. SoundStarts(line'[q], ~Sound(q)') = U
    <3>1. Starts(<<>>) = {}
      <4>1. \A k \in DOMAIN <<>> : FALSE
        BY EmptySeq
      <4> QED BY <4>1 DEF Starts
    <3> QED BY <2>2, <2>9, <3>1 DEF SoundStarts, U
  <2> DEFINE K == Faithful(q)'
  <2>16. K = DOMAIN got'[q] \ garbled[q]
    BY <2>7 DEF Faithful
  <2> HIDE DEF K
  <2>17. ASSUME Accepted(c)
         PROVE  Traced(sq, jq, got'[q], K, u, U) /\ garbled[q] \subseteq DOMAIN got'[q]
    <3> DEFINE m == MessageAt(sq, h[1])
               z == Len(g)
    <3>1. 1 \in S
      BY <2>8, <2>17 DEF S
    <3>2. Sent(m) /\ FrameAt(s, 1, m)
      BY <2>5, <2>6, <3>1
    <3>3. m \in Msgs /\ Received(c) = m
      BY <2>8, <2>17, <3>2 DEF Sent
    <3>4. m = MessageAt(sq, h[1])
      OBVIOUS
    <3> HIDE DEF m
    <3>5. \A i \in U : n + i \in S /\ FrameAt(u, i, MessageAt(sq, h[n + i]))
      BY <2>13
    <3>6. G \in SUBSET DOMAIN g
      BY <2>10
    <3>7. Traced(sq, jq, Append(g, m), G \cup {z + 1}, u, U)
      BY <2>1, <2>3, <2>4, <2>12, <2>14, <3>1, <3>3, <3>4, <3>5, <3>6, TraceTaken
    <3>8. got'[q] = Append(g, m)
      BY <2>7, <2>17, <3>3
    <3>9. z \in Nat /\ DOMAIN g = 1..z
      BY <2>3, LenProperties
    <3>10. Append(g, m) \in Seq(Msgs) /\ Len(Append(g, m)) = z + 1
      BY <2>3, <3>3, AppendProperties
    <3>11. DOMAIN Append(g, m) = 1..(z + 1)
      BY <3>10, LenProperties
    <3> HIDE DEF z
    <3>12. (\A i \in 1..(z + 1) : i \in 1..z \/ i = z + 1) /\ z + 1 \in 1..(z + 1)
      BY <3>9
    <3>13. \A i \in 1..z : i \in 1..(z + 1) /\ i # z + 1
      BY <3>9
    <3>14. K = G \cup {z + 1} /\ garbled[q] \subseteq DOMAIN got'[q]
      BY <2>10, <2>16, <3>8, <3>9, <3>11, <3>12, <3>13
    <3> QED BY <3>7, <3>8, <3>14
  <2>18. ASSUME ~Accepted(c)
         PROVE  Traced(sq, jq, got'[q], K, u, U) /\ garbled[q] \subseteq DOMAIN got'[q]
    <3>1. \A i \in U : n + i \in S /\ FrameAt(u, i, MessageAt(sq, h[n + i]))
      BY <2>13
    <3>2. Traced(sq, jq, g, G, u, U)
      BY <2>1, <2>4, <2>14, <3>1, TraceMoves
    <3>3. got'[q] = g /\ K = G
      BY <2>7, <2>10, <2>16, <2>18
    <3> QED BY <2>10, <3>2, <3>3
  <2>19. Peer(q)' = Peer(q)
    BY DEF Peer
  <2>20. Traced(sq, jq, got'[q], K, line'[q], SoundStarts(line'[q], ~Sound(q)'))
    BY <2>2, <2>15, <2>17, <2>18
  <2>21. garbled'[q] \subseteq DOMAIN got'[q]
    BY <2>7, <2>17, <2>18
  <2> QED BY <1>1, <2>19, <2>20, <2>21 DEF Receiving, K, sq, jq
<1> QED BY <1>2, <1>3, <1>4

LEMMA ReceivingStep ==
    ASSUME LineInv, [Next]_vars, NEW q \in Ports, Receiving(q), \A p \in Ports : Sending(p)
    PROVE  Receiving(q)'
<1>1. Typed /\ Buffer(q) /\ \A p \in Ports : Queued(p)
  BY Parts
<1>2. Sending(Peer(q))
  BY Peers
<1>3. CASE UNCHANGED <<line, job, harm, sent, got, garbled>>
  BY <1>3, ReceivingStays
<1>4. ASSUME NEW p \in Ports, NEW t \in Tasks, Send(p, t) \/ WriteAll(p, t) \/ WriteCut(p, t)
      PROVE  Receiving(q)'
  BY <1>1, <1>4, ReceivingSend, ReceivingWriteAll, ReceivingWriteCut
<1>5. ASSUME NEW p \in Ports, ByteChanges(p) \/ ByteLost(p) \/ NoiseArrives(p)
      PROVE  Receiving(q)'
  BY <1>1, <1>2, <1>5, ReceivingDamage, ReceivingNoise
<1>6. ASSUME NEW p \in Ports, Read(p)
      PROVE  Receiving(q)'
  BY <1>1, <1>2, <1>6, ReceivingReads DEF Read
<1>7. ASSUME NEW p \in Ports, Listens(p) \/ ReadTimesOut(p)
      PROVE  Receiving(q)'
  BY <1>3, <1>7 DEF Listens, ReadTimesOut
<1>8. (UNCHANGED vars) => UNCHANGED <<line, job, harm, sent, got, garbled>>
  BY DEF vars
<1> QED BY <1>3, <1>4, <1>5, <1>6, <1>7, <1>8 DEF Next

---------------------------------------------------------------------------
(* The steps, for the port q that sends. *)

LEMMA SendingStep ==
    ASSUME Typed, [Next]_vars, NEW q \in Ports, Sending(q)
    PROVE  Sending(q)'
<1>1. ASSUME sent'[q] = sent[q], \A r \in Tasks : job'[q][r] = job[q][r] \/ job'[q][r] = <<>>
      PROVE  Sending(q)'
  BY <1>1 DEF Sending, WritesLast, OffersOnly
<1>2. ASSUME NEW p \in Ports, NEW t \in Tasks, Send(p, t)
      PROVE  Sending(q)'
  <2>1. PICK req \in Requests[p][t] :
           IF Sendable(req)
           THEN /\ job' = [job EXCEPT ![p][t] = Wire(MessageOf(req))]
                /\ sent' = [sent EXCEPT ![p][t] = Append(@, MessageOf(req))]
           ELSE UNCHANGED <<job, sent>>
    BY <1>2 DEF Send
  <2>2. CASE ~Sendable(req) \/ p # q
    BY <1>1, <2>1, <2>2 DEF Typed
  <2>3. CASE Sendable(req) /\ p = q
    <3> DEFINE m == MessageOf(req)
               v == sent[q][t]
               n == Len(v)
    <3>1. m \in Offers[q] /\ m \in Msgs
      BY <2>3, Sends
    <3>2. v \in Seq(Msgs)
      BY DEF Typed
    <3>3. job'[q][t] = Wire(m) /\ sent'[q][t] = Append(v, m)
      BY <2>1, <2>3 DEF Typed
    <3>4. \A r \in Tasks : r # t => job'[q][r] = job[q][r] /\ sent'[q][r] = sent[q][r]
      BY <2>1, <2>3 DEF Typed
    <3>5. \A k \in DOMAIN v : v[k] \in Offers[q]
      BY DEF Sending, OffersOnly
    <3> HIDE DEF m, v
    <3>6. n \in Nat /\ DOMAIN v = 1..n
      BY <3>2, LenProperties
    <3>7. /\ Append(v, m) \in Seq(Msgs) /\ Len(Append(v, m)) = n + 1
          /\ \A k \in 1..n : Append(v, m)[k] = v[k]
          /\ Append(v, m)[n + 1] = m
      BY <3>1, <3>2, AppendProperties
    <3> HIDE DEF n
    <3>8. DOMAIN Append(v, m) = 1..(n + 1)
      BY <3>7, LenProperties
    <3>9. Append(v, m) # <<>>
      <4>1. n + 1 # 0
        BY <3>6
      <4> QED BY <3>7, <4>1, EmptySeq
    <3>10. \A k \in 1..(n + 1) : k \in 1..n \/ k = n + 1
      BY <3>6
    <3>11. \A k \in DOMAIN Append(v, m) : Append(v, m)[k] \in Offers[q]
      BY <3>1, <3>5, <3>6, <3>7, <3>8, <3>10
    <3>12. WritesLast(sent'[q], job'[q])
      <4> SUFFICES ASSUME NEW r \in Tasks, job'[q][r] # <<>>
                   PROVE  /\ sent'[q][r] # <<>>
                          /\ job'[q][r] = Wire(sent'[q][r][Len(sent'[q][r])])
        BY DEF WritesLast
      <4>1. CASE r = t
        BY <3>3, <3>7, <3>9, <4>1
      <4>2. CASE r # t
        BY <3>4, <4>2 DEF Sending, WritesLast
      <4> QED BY <4>1, <4>2
    <3>13. OffersOnly(q, sent'[q])
      <4> SUFFICES ASSUME NEW r \in Tasks, NEW k \in DOMAIN sent'[q][r]
                   PROVE  sent'[q][r][k] \in Offers[q]
        BY DEF OffersOnly
      <4>1. CASE r = t
        BY <3>3, <3>11, <4>1
      <4>2. CASE r # t
        BY <3>4, <4>2 DEF Sending, OffersOnly
      <4> QED BY <4>1, <4>2
    <3> QED BY <3>12, <3>13 DEF Sending, OffersOnly, WritesLast
  <2> QED BY <2>2, <2>3
<1>3. ASSUME NEW p \in Ports, NEW t \in Tasks, Writing(p, t)
      PROVE  Sending(q)'
  BY <1>1, <1>3 DEF Writing, Typed
<1>4. CASE UNCHANGED <<job, sent>>
  BY <1>1, <1>4
<1>5. \/ UNCHANGED <<job, sent>>
      \/ \E p \in Ports, t \in Tasks : Send(p, t) \/ Writing(p, t)
  BY DEF Next, vars, WriteAll, WriteCut, ByteChanges, ByteLost, NoiseArrives, Listens,
         Read, Reads, ReadTimesOut
<1> QED BY <1>2, <1>3, <1>4, <1>5

---------------------------------------------------------------------------
(* The invariant, and the link it is the reason of. *)

LEMMA DeliveryInit == Init => DeliveryInv
<1> SUFFICES ASSUME Init, NEW p \in Ports PROVE Sending(p) /\ Receiving(p)
  BY DEF DeliveryInv
<1>1. \A i \in DOMAIN <<>> : FALSE
  BY EmptySeq
<1>2. Peer(p) \in Ports
  BY Peers
<1>3. Sending(p)
  BY <1>1 DEF Init, Sending, WritesLast, OffersOnly
<1> DEFINE sq == sent[Peer(p)]
           jq == job[Peer(p)]
           v == [i \in {} |-> 0]
<1>4. got[p] = <<>> /\ line[p] = <<>>
  BY DEF Init
<1>5. /\ Faithful(p) = {} /\ garbled[p] \subseteq DOMAIN got[p]
      /\ SoundStarts(line[p], ~Sound(p)) = {}
  BY <1>1, <1>4, NothingStarts DEF Init, Faithful
<1> HIDE DEF sq, jq
<1>6. Row(sq, jq, {}, v)
  BY DEF Row
<1>7. Trace(sq, jq, got[p], {}, line[p], {}, v, v)
  BY <1>5, <1>6 DEF Trace
<1>8. Receiving(p)
  BY <1>5, <1>7 DEF Receiving, Traced, sq, jq
<1> QED BY <1>3, <1>8

LEMMA DeliveryStep == LineInv /\ DeliveryInv /\ [Next]_vars => DeliveryInv'
<1> SUFFICES ASSUME LineInv, DeliveryInv, [Next]_vars, NEW q \in Ports
             PROVE  Sending(q)' /\ Receiving(q)'
  BY DEF DeliveryInv
<1>1. Typed
  BY Parts
<1>2. Receiving(q) /\ \A p \in Ports : Sending(p)
  BY DEF DeliveryInv
<1>3. Sending(q)'
  BY <1>1, <1>2, SendingStep
<1>4. Receiving(q)'
  BY <1>2, ReceivingStep
<1> QED BY <1>3, <1>4

\* Everything that a port got from sound bytes, and every frame that still
\* waits in its buffer while that is sound, is a message of its own that the
\* other end offered, in the order of each task, whatever the port got from
\* bytes that were cut short, changed or lost in between.
THEOREM DeliveryInvariant == Spec => []DeliveryInv
BY DeliveryInit, DeliveryStep, LineInvariant, PTL DEF Spec

\* What a port got is explained by the places of DeliveryInv.
LEMMA PlacesExplain ==
    ASSUME NEW p \in Ports, Sending(Peer(p)), NEW g, NEW G, NEW jq, NEW s, NEW S,
           Traced(sent[Peer(p)], jq, g, G, s, S)
    PROVE  Link!Explained(p, g, G)
<1> DEFINE q == Peer(p)
           sq == sent[q]
<1>1. q \in Ports
  BY Peers
<1>2. PICK f, h : Trace(sq, jq, g, G, s, S, f, h)
  BY DEF Traced
<1>3. /\ f \in [G -> Place(sq)]
      /\ \A i, j \in G : i < j => Precedes(f[i], f[j])
      /\ \A i \in G : g[i] = MessageAt(sq, f[i])
  BY <1>2 DEF Trace, Row
<1> DEFINE e == [i \in G |-> <<q, f[i][1], f[i][2]>>]
<1>4. \A x \in Place(sq) : /\ <<q, x[1], x[2]>> \in Link!Places
                           /\ Link!At(<<q, x[1], x[2]>>) = MessageAt(sq, x)
                           /\ MessageAt(sq, x) \in Offers[q]
  <2> TAKE x \in Place(sq)
  <2> DEFINE t == x[1]
             k == x[2]
  <2>1. t \in Tasks /\ k \in DOMAIN sent[q][t]
    BY DEF Place
  <2>2. MessageAt(sq, x) = sent[q][t][k]
    BY DEF MessageAt
  <2> HIDE DEF q, t, k
  <2>3. <<q, t, k>> \in {q} \X {t} \X DOMAIN sent[q][t]
    BY <2>1
  <2>4. <<q, t, k>> \in Link!Places
    <3> DEFINE P == {{n} \X {r} \X DOMAIN sent[n][r] : n \in Ports, r \in Tasks}
    <3>1. {q} \X {t} \X DOMAIN sent[q][t] \in P
      BY <1>1, <2>1
    <3>2. Link!Places = UNION P
      BY DEF Link!Places
    <3> HIDE DEF P
    <3>3. <<q, t, k>> \in UNION P
      BY <2>3, <3>1
    <3> QED BY <3>2, <3>3
  <2>5. Link!At(<<q, t, k>>) = sent[q][t][k]
    BY DEF Link!At
  <2>6. sent[q][t][k] \in Offers[q]
    BY <2>1 DEF Sending, OffersOnly, q
  <2> QED BY <2>2, <2>4, <2>5, <2>6 DEF t, k
<1>5. e \in [G -> Link!Places]
  BY <1>3, <1>4
<1>6. \A i \in G : g[i] = Link!At(e[i]) /\ g[i] \in Offers[q]
  BY <1>3, <1>4
<1>7. \A i, j \in G :
         i < j /\ Link!SameTask(e[i], e[j]) => e[i][3] < e[j][3]
  BY <1>3 DEF Link!SameTask, Precedes
<1>8. \A i \in G : Addressed(g[i], p)
  BY <1>6 DEF Addressed
<1> HIDE DEF e
<1> QED BY <1>5, <1>6, <1>7, <1>8 DEF Link!Explained

LEMMA LinkStep ==
    ASSUME LineInv, DeliveryInv, DeliveryInv', [Next]_vars
    PROVE  [Link!Next]_<<sent, got, garbled>>
<1>1. Typed
  BY Parts
<1>2. ASSUME NEW p \in Ports, NEW t \in Tasks, Send(p, t)
      PROVE  [Link!Next]_<<sent, got, garbled>>
  <2>1. PICK req \in Requests[p][t] :
           IF Sendable(req)
           THEN sent' = [sent EXCEPT ![p][t] = Append(@, MessageOf(req))]
           ELSE UNCHANGED sent
    BY <1>2 DEF Send
  <2>2. got' = got /\ garbled' = garbled
    BY <1>2 DEF Send
  <2>3. CASE Sendable(req)
    <3>1. MessageOf(req) \in Messages
      BY <2>3, Sends DEF Messages
    <3>2. Link!Offer(p, t)
      BY <2>1, <2>2, <2>3, <3>1 DEF Link!Offer
    <3> QED BY <3>2 DEF Link!Next
  <2> QED BY <2>1, <2>2, <2>3
<1>3. ASSUME NEW p \in Ports, NEW n \in DOMAIN line[p], Reads(p, n)
      PROVE  [Link!Next]_<<sent, got, garbled>>
  <2> DEFINE c == SubSeq(line[p], 1, n)
             m == Received(c)
  <2>1. sent' = sent
    BY <1>3 DEF Reads
  <2>2. /\ Accepted(c) =>
             /\ got' = [got EXCEPT ![p] = Append(@, m)]
             /\ garbled' = IF Sound(p) THEN garbled
                           ELSE [garbled EXCEPT ![p] = @ \cup {Len(got[p]) + 1}]
        /\ ~Accepted(c) => got' = got /\ garbled' = garbled
    BY <1>3 DEF Reads
  <2>3. Accepted(c) => m \in Msgs
    <3>1. c \in Seq(Byte)
      BY <1>1, ReadParts
    <3> QED BY <3>1, ReceivedIsMessage
  <2> HIDE DEF c, m
  <2> DEFINE g == got[p]
             z == Len(g)
  <2>4. g \in Seq(Msgs) /\ z \in Nat
    <3>1. g \in Seq(Msgs)
      BY <1>1 DEF Typed
    <3> QED BY <3>1, LenProperties
  <2>5. Accepted(c) =>
           /\ got'[p] = Append(g, m) /\ Append(g, m) \in Seq(Msgs)
           /\ Len(Append(g, m)) = z + 1 /\ Append(g, m)[z + 1] = m
    <3>1. Accepted(c) => got'[p] = Append(g, m)
      BY <1>1, <2>2 DEF Typed
    <3> HIDE DEF g
    <3> QED BY <2>3, <2>4, <3>1, AppendProperties
  <2>6. Accepted(c) => z + 1 \in DOMAIN got'[p] /\ got'[p][z + 1] = m /\ got'[p] # got[p]
    <3> SUFFICES ASSUME Accepted(c)
                 PROVE  z + 1 \in DOMAIN got'[p] /\ got'[p][z + 1] = m /\ got'[p] # got[p]
      OBVIOUS
    <3>1. z = Len(got[p])
      OBVIOUS
    <3> DEFINE k == Append(g, m)
    <3>2. k \in Seq(Msgs) /\ Len(k) = z + 1 /\ k[z + 1] = m /\ got'[p] = k
      BY <2>5
    <3> HIDE DEF z, k, g
    <3>3. DOMAIN k = 1..(z + 1) /\ z \in Nat
      BY <2>4, <3>2, LenProperties
    <3>4. z + 1 \in 1..(z + 1) /\ z + 1 # z
      BY <3>3
    <3> QED BY <3>1, <3>2, <3>3, <3>4
  <2>7. CASE Accepted(c) /\ Sound(p)
    <3>1. got'[p] # got[p]
      BY <2>6, <2>7
    <3>2. HandsUp(p)
      BY <3>1, HandedStep
    <3>3. PICK k \in OfferedSet(Peer(p)) : got'[p] = Append(got[p], k)
      BY <2>7, <3>2 DEF HandsUp
    <3>4. got' = [got EXCEPT ![p] = Append(@, k)] /\ k \in Messages
      <4>1. got' = [got EXCEPT ![p] = got'[p]]
        BY <1>1, <2>2, <2>7 DEF Typed
      <4> QED BY <3>3, <4>1, Peers DEF Messages, OfferedSet
    <3>5. garbled' = garbled
      BY <2>2, <2>7
    <3>6. Traced(sent[Peer(p)], job'[Peer(p)], got'[p], DOMAIN got'[p] \ garbled[p], line'[p],
                 SoundStarts(line'[p], ~Sound(p)'))
      <4>1. Receiving(p)'
        BY DEF DeliveryInv
      <4>2. Peer(p)' = Peer(p)
        BY DEF Peer
      <4> QED BY <2>1, <3>5, <4>1, <4>2 DEF Receiving, Faithful
    <3>7. Sending(Peer(p))
      BY Peers DEF DeliveryInv
    <3>8. Link!Explained(p, got'[p], DOMAIN got'[p] \ garbled[p])
      BY <3>6, <3>7, PlacesExplain
    <3>9. Link!Deliver(p)
      BY <2>1, <3>4, <3>5, <3>8 DEF Link!Deliver
    <3> QED BY <3>9 DEF Link!Next
  <2>8. CASE Accepted(c) /\ ~Sound(p)
    <3>1. got' = [got EXCEPT ![p] = Append(@, got'[p][z + 1])] /\ z + 1 \in DOMAIN got'[p]
      BY <2>2, <2>6, <2>8
    <3>2. garbled' = [garbled EXCEPT ![p] = @ \cup {Len(got[p]) + 1}]
      BY <2>2, <2>8
    <3> HIDE DEF z
    <3>3. Link!Garble(p)
      BY <2>1, <2>8, <3>1, <3>2 DEF Link!Garble
    <3> QED BY <3>3 DEF Link!Next
  <2>9. CASE ~Accepted(c)
    BY <2>1, <2>2, <2>9
  <2> QED BY <2>7, <2>8, <2>9
<1>4. CASE UNCHANGED <<sent, got, garbled>>
  BY <1>4
<1>5. \/ UNCHANGED <<sent, got, garbled>>
      \/ \E p \in Ports, t \in Tasks : Send(p, t)
      \/ \E p \in Ports : \E n \in DOMAIN line[p] : Reads(p, n)
  BY DEF Next, vars, WriteAll, WriteCut, Writing, ByteChanges, ByteLost, NoiseArrives,
         Listens, Read, ReadTimesOut
<1> QED BY <1>2, <1>3, <1>4, <1>5

\* The adaptor implements the link of BusDelivery, which is faithful while no
\* write is cut short, no byte changes or gets lost and no frame holds another
\* one's marker, and again when what was left of that has been read: for all
\* tasks, messages, lengths and faults, and however reads and writes split.
THEOREM Delivers == Spec => DeliversFaithfully
<1>1. LineInv /\ DeliveryInv /\ DeliveryInv' /\ [Next]_vars
      => [Link!Next]_<<sent, got, garbled>>
  BY LinkStep
<1> QED BY <1>1, LineInvariant, DeliveryInvariant, PTL DEF Spec, DeliversFaithfully

\* So the abstract link, from its initial state on, is all that a user of the
\* adaptor can see in sent, got and garbled.
THEOREM ImplementsLink == Spec => Link!Spec
<1>1. Init => Link!Init
  BY DEF Init, Link!Init
<1>2. Spec => [][Link!Next]_<<sent, got, garbled>>
  BY Delivers DEF DeliversFaithfully
<1> QED BY <1>1, <1>2, PTL DEF Spec, Link!Spec, Link!link
=============================================================================
