----------------------- MODULE ServerResponses_proofs -----------------------
(***************************************************************************)
(* Proofs about what leaves a server: which response goes to whom and      *)
(* shows what, that frames show bytes they have, and what the service is   *)
(* asked; for any servers, applications and requests.                      *)
(***************************************************************************)
EXTENDS Server_proofs, SequenceTheorems

Byte == 0..255

\* Frames inside a server: a window of its own.
Frames == [src : 0..255, dest : 0..255, flag : Flags, off : Nat, len : Nat, bytes : Seq(Nat)]

---------------------------------------------------------------------------
(* Frames: what each operator makes of one. *)

LEMMA HeadBytes ==
    ASSUME NEW S, NEW a \in S, NEW b \in S, NEW s \in Seq(S), NEW h, h = <<a, b>> \o s
    PROVE  /\ h \in Seq(S) /\ Len(h) = Len(s) + 2
           /\ h[1] = a /\ h[2] = b
           /\ \A i \in 1..Len(s) : h[i + 2] = s[i]
<1> DEFINE x == <<a, b>>
<1>1. x \in Seq(S) /\ Len(x) = 2 /\ x[1] = a /\ x[2] = b
  OBVIOUS
<1>2. h = x \o s
  OBVIOUS
<1> HIDE DEF x
<1> QED BY <1>1, <1>2

LEMMA RestBytes ==
    ASSUME NEW s \in Seq(Nat), NEW n \in Nat, NEW h, h = SubSeq(s, n + 1, Len(s))
    PROVE  /\ h \in Seq(Nat)
           /\ Len(h) = (IF Len(s) < n THEN 0 ELSE Len(s) - n)
           /\ \A i \in 1..Len(h) : h[i] = s[i + n]
<1>1. Len(s) \in Nat
  OBVIOUS
<1>2. CASE Len(s) < n
  <2>1. h = <<>>
    BY <1>1, <1>2
  <2> QED BY <1>2, <2>1
<1>3. CASE ~(Len(s) < n)
  <2>1. Len(h) = Len(s) - n
    BY <1>1, <1>3
  <2>2. h \in Seq(Nat)
    BY <1>1, <1>3
  <2>3. \A i \in 1..Len(h) : h[i] = s[i + n]
    BY <1>1, <1>3, <2>1
  <2> QED BY <1>3, <2>1, <2>2, <2>3
<1> QED BY <1>2, <1>3

LEMMA Tuple ==
    ASSUME NEW S, NEW n \in Nat, NEW d \in [1..n -> S]
    PROVE  d \in Seq(S) /\ Len(d) = n
<1>1. d \in Seq(S)
  OBVIOUS
<1>2. Len(d) \in Nat /\ DOMAIN d = 1..Len(d) /\ DOMAIN d = 1..n
  BY <1>1
<1> QED BY <1>1, <1>2

LEMMA WiderSeq ==
    ASSUME NEW S, NEW T, S \subseteq T, NEW b \in Seq(S)
    PROVE  b \in Seq(T)
<1>1. PICK n \in Nat : b \in [1..n -> S]
  <2>1. Len(b) \in Nat /\ b \in [1..Len(b) -> S]
    OBVIOUS
  <2> QED BY <2>1
<1>2. b \in [1..n -> T]
  BY <1>1
<1> QED BY <1>2, Tuple

\* data() of a frame: as many bytes as it says.
LEMMA DataShape ==
    ASSUME NEW f \in Frames
    PROVE  /\ Data(f) \in Seq(Nat) /\ Len(Data(f)) = f.len
           /\ \A i \in 1..f.len :
                 Data(f)[i] = IF i <= Len(f.bytes) THEN f.bytes[i] ELSE 0
<1> DEFINE e(i) == IF i <= Len(f.bytes) THEN f.bytes[i] ELSE 0
           d == [i \in 1..f.len |-> e(i)]
<1>1. f.len \in Nat /\ f.bytes \in Seq(Nat)
  BY DEF Frames
<1>2. \A i \in 1..f.len : e(i) \in Nat
  BY <1>1
<1>3. Data(f) = d
  BY DEF Data
<1>4. d \in [1..f.len -> Nat] /\ \A i \in 1..f.len : d[i] = e(i)
  <2> HIDE DEF e
  <2> QED BY <1>2
<1>5. d \in Seq(Nat) /\ Len(d) = f.len
  <2> HIDE DEF d
  <2> QED BY <1>1, <1>4, Tuple
<1> QED BY <1>3, <1>4, <1>5

LEMMA HeaderInserted ==
    ASSUME NEW f \in Frames, NEW app \in Byte, f.off >= 2, NEW h,
           h = InsertHeader(f, app)
    PROVE  /\ h \in Frames
           /\ h.src = f.src /\ h.dest = f.dest /\ h.flag = f.flag
           /\ h.off = f.off - 2 /\ h.len = f.len + 2
           /\ h.bytes[1] = VersionId /\ h.bytes[2] = app
           /\ Len(h.bytes) = Len(f.bytes) + 2
           /\ \A i \in 1..Len(f.bytes) : h.bytes[i + 2] = f.bytes[i]
<1> DEFINE head == <<VersionId, app>>
           b == head \o f.bytes
           off == f.off - 2
           len == f.len + 2
<1>1. f.bytes \in Seq(Nat) /\ off \in Nat /\ len \in Nat
  BY DEF Frames
<1>2. /\ b \in Seq(Nat) /\ Len(b) = Len(f.bytes) + 2 /\ b[1] = VersionId /\ b[2] = app
      /\ \A i \in 1..Len(f.bytes) : b[i + 2] = f.bytes[i]
  <2> VersionId \in Nat /\ app \in Nat
    BY DEF VersionId, Byte
  <2> QED BY <1>1, HeadBytes
<1>3. Len(head) = 2
  OBVIOUS
<1>4. h = [f EXCEPT !.off = @ - Len(head), !.len = @ + Len(head), !.bytes = head \o @]
  BY DEF InsertHeader, ExpandHead
<1>5. h = [f EXCEPT !.off = off, !.len = len, !.bytes = b]
  BY <1>3, <1>4
<1> HIDE DEF off, len, b
<1>6. /\ h \in Frames /\ h.src = f.src /\ h.dest = f.dest /\ h.flag = f.flag
      /\ h.off = off /\ h.len = len /\ h.bytes = b
  <2>1. h = [src |-> f.src, dest |-> f.dest, flag |-> f.flag, off |-> off, len |-> len,
             bytes |-> b]
    BY <1>5 DEF Frames
  <2>2. f.src \in 0..255 /\ f.dest \in 0..255 /\ f.flag \in Flags
    BY DEF Frames
  <2>3. b \in Seq(Nat)
    BY <1>2
  <2>4. h \in Frames
    BY <1>1, <2>1, <2>2, <2>3 DEF Frames
  <2> QED BY <2>1, <2>4
<1> QED BY <1>2, <1>6 DEF off, len

LEMMA HeadShrunk ==
    ASSUME NEW f \in Frames, NEW n \in Nat, NEW h, h = ShrinkHead(f, n)
    PROVE  /\ h \in Frames
           /\ h.src = f.src /\ h.dest = f.dest /\ h.flag = f.flag
           /\ h.off = f.off + n /\ h.len = (IF f.len < n THEN 0 ELSE f.len - n)
           /\ Len(h.bytes) = (IF Len(f.bytes) < n THEN 0 ELSE Len(f.bytes) - n)
           /\ \A i \in 1..Len(h.bytes) : h.bytes[i] = f.bytes[i + n]
<1> DEFINE b == SubSeq(f.bytes, n + 1, Len(f.bytes))
           off == f.off + n
           len == IF f.len < n THEN 0 ELSE f.len - n
<1>1. f.bytes \in Seq(Nat) /\ off \in Nat /\ len \in Nat
  BY DEF Frames
<1>2. /\ b \in Seq(Nat) /\ Len(b) = (IF Len(f.bytes) < n THEN 0 ELSE Len(f.bytes) - n)
      /\ \A i \in 1..Len(b) : b[i] = f.bytes[i + n]
  <2> DEFINE z == f.bytes
  <2>1. z \in Seq(Nat) /\ b = SubSeq(z, n + 1, Len(z))
    BY <1>1
  <2> HIDE DEF z, b
  <2>2. /\ b \in Seq(Nat) /\ Len(b) = (IF Len(z) < n THEN 0 ELSE Len(z) - n)
        /\ \A i \in 1..Len(b) : b[i] = z[i + n]
    BY <2>1, RestBytes
  <2> QED BY <2>2 DEF z
<1>3. h = [f EXCEPT !.off = off, !.len = len, !.bytes = b]
  BY DEF ShrinkHead
<1> HIDE DEF off, len, b
<1>4. /\ h \in Frames /\ h.src = f.src /\ h.dest = f.dest /\ h.flag = f.flag
      /\ h.off = off /\ h.len = len /\ h.bytes = b
  <2>1. h = [src |-> f.src, dest |-> f.dest, flag |-> f.flag, off |-> off, len |-> len,
             bytes |-> b]
    BY <1>3 DEF Frames
  <2>2. f.src \in 0..255 /\ f.dest \in 0..255 /\ f.flag \in Flags
    BY DEF Frames
  <2>3. b \in Seq(Nat)
    BY <1>2
  <2>4. h \in Frames
    BY <1>1, <2>1, <2>2, <2>3 DEF Frames
  <2> QED BY <2>1, <2>4
<1> QED BY <1>2, <1>4 DEF off, len

LEMMA NewFrameOK ==
    ASSUME NEW f, IsNewFrame(f)
    PROVE  /\ f \in Frames /\ f.off = StartOffset /\ f.len = Len(f.bytes)
           /\ f.len <= FrameMaxLength
<1>1. /\ f.bytes \in Seq(0..255) /\ f.off = StartOffset /\ f.len = Len(f.bytes)
      /\ f.len \in 0..FrameMaxLength
  BY DEF IsNewFrame
<1>2. 0..255 \subseteq Nat
  OBVIOUS
<1>3. f.bytes \in Seq(Nat)
  <2> DEFINE S == 0..255
             b == f.bytes
  <2>1. b \in Seq(S) /\ S \subseteq Nat
    BY <1>1, <1>2
  <2> HIDE DEF S, b
  <2>2. b \in Seq(Nat)
    BY <2>1, WiderSeq
  <2> QED BY <2>2 DEF b
<1>4. f.off \in Nat /\ f.len \in Nat /\ f.len <= FrameMaxLength
  <2> DEFINE n == f.len
  <2>1. n \in 0..150
    BY <1>1 DEF FrameMaxLength
  <2> HIDE DEF n
  <2>2. n \in Nat /\ n <= 150
    BY <2>1
  <2>3. f.off = 16
    BY <1>1 DEF StartOffset
  <2> QED BY <2>2, <2>3 DEF n, FrameMaxLength
<1>5. f \in Frames
  BY <1>3, <1>4 DEF IsNewFrame, Frames
<1> QED BY <1>1, <1>4, <1>5

\* What a parsed request shows: the meta stays, and the application is the
\* one that the header or the flag names.
LEMMA RequestShape ==
    ASSUME NEW f, IsNewFrame(f), Parses(f), NEW r, r = Request(f)
    PROVE  /\ r \in Frames /\ r.len <= FrameMaxLength
           /\ r.src = f.src /\ r.dest = f.dest /\ r.flag = f.flag
           /\ f.flag = UartTelemetry => Application(f) = TelemetryId
           /\ f.flag = CanTimeBroadcast => Application(f) = TimeSyncId
           /\ f.flag = NoFlag =>
                 /\ f.len >= HeaderSize /\ r.len = f.len - HeaderSize
                 /\ f.bytes[1] = VersionId /\ f.bytes[2] = Application(f)
                 /\ Len(r.bytes) = r.len
                 /\ \A i \in 1..r.len : r.bytes[i] = f.bytes[i + HeaderSize]
           /\ f.flag = CanTimeBroadcast /\ f.len >= 2 =>
                 /\ r.len = f.len - 2 /\ Len(r.bytes) = r.len
                 /\ \A i \in 1..r.len : r.bytes[i] = f.bytes[i + 2]
<1> DEFINE g == InstallHeaderIfNeeded(f)
           d == Data(g)
<1>1. /\ f \in Frames /\ f.off = 16 /\ f.len = Len(f.bytes)
      /\ f.len <= 150 /\ f.len \in Nat /\ f.flag \in Flags /\ Len(f.bytes) \in Nat
  BY NewFrameOK DEF Frames, StartOffset, FrameMaxLength
<1>2. /\ Len(d) >= 2 /\ d[1] = VersionId /\ r = ShrinkHead(g, 2) /\ Application(f) = d[2]
      /\ d = Data(g)
  BY DEF Parses, Request, HeaderSize, Application
<1>3. CASE f.flag = UartTelemetry
  <2>1. g = InsertHeader(f, TelemetryId)
    BY <1>3 DEF InstallHeaderIfNeeded, UartTelemetry, CanTimeBroadcast
  <2> HIDE DEF g, d
  <2>2. /\ g \in Frames /\ g.src = f.src /\ g.dest = f.dest /\ g.flag = f.flag
        /\ g.len = f.len + 2 /\ g.bytes[2] = TelemetryId
        /\ Len(g.bytes) = Len(f.bytes) + 2
    <3>1. TelemetryId \in Byte /\ f.off >= 2
      BY <1>1 DEF TelemetryId, Byte
    <3> QED BY <1>1, <2>1, <3>1, HeaderInserted
  <2>3. d[2] = TelemetryId
    <3>1. 2 \in 1..g.len /\ 2 <= Len(g.bytes)
      BY <1>1, <2>2
    <3> QED BY <1>2, <2>2, <3>1, DataShape
  <2>4. /\ r \in Frames /\ r.src = g.src /\ r.dest = g.dest /\ r.flag = g.flag
        /\ r.len = (IF g.len < 2 THEN 0 ELSE g.len - 2)
    BY <1>2, <2>2, HeadShrunk
  <2>5. r.len <= FrameMaxLength
    BY <1>1, <2>2, <2>4 DEF FrameMaxLength
  <2> QED BY <1>2, <1>3, <2>2, <2>3, <2>4, <2>5 DEF UartTelemetry, CanTimeBroadcast, NoFlag
<1>4. CASE f.flag = CanTimeBroadcast
  <2> DEFINE h == ShrinkHead(f, 2)
  <2>1. g = InsertHeader(h, TimeSyncId)
    BY <1>4 DEF InstallHeaderIfNeeded, UartTelemetry, CanTimeBroadcast
  <2>2. /\ h \in Frames /\ h.src = f.src /\ h.dest = f.dest /\ h.flag = f.flag
        /\ h.off = f.off + 2 /\ h.len = (IF f.len < 2 THEN 0 ELSE f.len - 2)
    BY <1>1, HeadShrunk
  <2> HIDE DEF g, d, h
  <2>3. /\ g \in Frames /\ g.src = f.src /\ g.dest = f.dest /\ g.flag = f.flag
        /\ g.len = h.len + 2 /\ g.bytes[2] = TimeSyncId
        /\ Len(g.bytes) = Len(h.bytes) + 2
    <3>1. TimeSyncId \in Byte /\ h.off >= 2
      BY <1>1, <2>2 DEF TimeSyncId, Byte
    <3> QED BY <2>1, <2>2, <3>1, HeaderInserted
  <2>4. h.len \in Nat /\ Len(h.bytes) \in Nat
    BY <2>2 DEF Frames
  <2>5. d[2] = TimeSyncId
    <3>1. 2 \in 1..g.len /\ 2 <= Len(g.bytes)
      BY <2>3, <2>4
    <3> QED BY <1>2, <2>3, <3>1, DataShape
  <2>6. /\ r \in Frames /\ r.src = g.src /\ r.dest = g.dest /\ r.flag = g.flag
        /\ r.len = (IF g.len < 2 THEN 0 ELSE g.len - 2)
    BY <1>2, <2>3, HeadShrunk
  <2>7. r.len <= FrameMaxLength
    BY <1>1, <2>2, <2>3, <2>4, <2>6 DEF FrameMaxLength
  <2>8. ASSUME f.len >= 2
        PROVE  /\ r.len = f.len - 2 /\ Len(r.bytes) = r.len
               /\ \A i \in 1..r.len : r.bytes[i] = f.bytes[i + 2]
    <3>1. /\ h.len = f.len - 2 /\ Len(h.bytes) = h.len
          /\ \A i \in 1..h.len : h.bytes[i] = f.bytes[i + 2]
      BY <1>1, <2>8, HeadShrunk DEF h
    <3>2. \A i \in 1..h.len : g.bytes[i + 2] = h.bytes[i]
      <4> h.off >= 2 /\ TimeSyncId \in Byte
        BY <1>1, <2>2 DEF TimeSyncId, Byte
      <4> QED BY <2>1, <2>2, <3>1, HeaderInserted
    <3>3. r.len = h.len /\ Len(r.bytes) = h.len
      <4>1. Len(r.bytes) = (IF Len(g.bytes) < 2 THEN 0 ELSE Len(g.bytes) - 2)
        BY <1>2, <2>3, HeadShrunk
      <4> QED BY <2>3, <2>4, <2>6, <3>1, <4>1
    <3>4. \A i \in 1..r.len : r.bytes[i] = g.bytes[i + 2]
      BY <1>2, <2>3, <3>3, HeadShrunk
    <3> QED BY <3>1, <3>2, <3>3, <3>4
  <2>9. f.flag # UartTelemetry /\ f.flag # NoFlag
    BY <1>4 DEF UartTelemetry, CanTimeBroadcast, NoFlag
  <2>10. Application(f) = TimeSyncId
    BY <1>2, <2>5
  <2>11. r \in Frames /\ r.src = f.src /\ r.dest = f.dest /\ r.flag = f.flag
    BY <2>2, <2>3, <2>6
  <2> QED BY <2>7, <2>8, <2>9, <2>10, <2>11
<1>5. CASE f.flag = NoFlag
  <2>1. g = f
    BY <1>5 DEF InstallHeaderIfNeeded, UartTelemetry, CanTimeBroadcast, NoFlag
  <2> HIDE DEF g, d
  <2>2. /\ r \in Frames /\ r.src = f.src /\ r.dest = f.dest /\ r.flag = f.flag
        /\ r.len = (IF f.len < 2 THEN 0 ELSE f.len - 2)
        /\ Len(r.bytes) = (IF Len(f.bytes) < 2 THEN 0 ELSE Len(f.bytes) - 2)
        /\ \A i \in 1..Len(r.bytes) : r.bytes[i] = f.bytes[i + 2]
    <3>1. f \in Frames /\ r = ShrinkHead(f, 2) /\ 2 \in Nat
      BY <1>1, <1>2, <2>1
    <3> QED BY <3>1, HeadShrunk
  <2>3. f.len >= 2 /\ d[1] = f.bytes[1] /\ d[2] = f.bytes[2]
    BY <1>1, <1>2, <2>1, DataShape
  <2>4. /\ r.len <= FrameMaxLength /\ f.len >= HeaderSize /\ r.len = f.len - HeaderSize
        /\ Len(r.bytes) = r.len
    BY <1>1, <2>2, <2>3 DEF FrameMaxLength, HeaderSize
  <2>5. \A i \in 1..r.len : r.bytes[i] = f.bytes[i + HeaderSize]
    BY <2>2, <2>4 DEF HeaderSize
  <2> QED BY <1>2, <1>5, <2>2, <2>3, <2>4, <2>5
          DEF UartTelemetry, CanTimeBroadcast, NoFlag
<1> QED BY <1>1, <1>3, <1>4, <1>5 DEF Flags

\* Which application a frame names: the flag does, or the second byte.
LEMMA ApplicationNamed ==
    ASSUME NEW f \in Frames, f.off >= 2
    PROVE  /\ f.flag = UartTelemetry => Application(f) = TelemetryId
           /\ f.flag = CanTimeBroadcast => Application(f) = TimeSyncId
           /\ f.flag = NoFlag /\ f.len >= 2 /\ Len(f.bytes) >= 2 =>
                 Application(f) = f.bytes[2]
<1> DEFINE g == InstallHeaderIfNeeded(f)
<1>1. Application(f) = Data(g)[2] /\ f.off \in Nat /\ f.len \in Nat /\ Len(f.bytes) \in Nat
  BY DEF Application, Frames
<1>2. CASE f.flag = UartTelemetry
  <2>1. g = InsertHeader(f, TelemetryId)
    BY <1>2 DEF InstallHeaderIfNeeded, UartTelemetry, CanTimeBroadcast
  <2> HIDE DEF g
  <2>2. TelemetryId \in Byte
    BY DEF TelemetryId, Byte
  <2>3. /\ g \in Frames /\ g.len = f.len + 2 /\ g.bytes[2] = TelemetryId
        /\ Len(g.bytes) = Len(f.bytes) + 2
    BY <2>1, <2>2, HeaderInserted
  <2>4. 2 \in 1..g.len /\ 2 <= Len(g.bytes)
    BY <1>1, <2>3
  <2>5. Data(g)[2] = TelemetryId
    BY <2>3, <2>4, DataShape
  <2> QED BY <1>1, <1>2, <2>5 DEF UartTelemetry, CanTimeBroadcast, NoFlag
<1>3. CASE f.flag = CanTimeBroadcast
  <2> DEFINE h == ShrinkHead(f, 2)
  <2>1. g = InsertHeader(h, TimeSyncId)
    BY <1>3 DEF InstallHeaderIfNeeded, UartTelemetry, CanTimeBroadcast
  <2>2. h \in Frames /\ h.off = f.off + 2
    BY HeadShrunk
  <2> HIDE DEF g, h
  <2>3. TimeSyncId \in Byte /\ h.off >= 2 /\ h.len \in Nat /\ Len(h.bytes) \in Nat
    BY <1>1, <2>2 DEF TimeSyncId, Byte, Frames
  <2>4. /\ g \in Frames /\ g.len = h.len + 2 /\ g.bytes[2] = TimeSyncId
        /\ Len(g.bytes) = Len(h.bytes) + 2
    BY <2>1, <2>2, <2>3, HeaderInserted
  <2>5. 2 \in 1..g.len /\ 2 <= Len(g.bytes)
    BY <2>3, <2>4
  <2>6. Data(g)[2] = TimeSyncId
    BY <2>4, <2>5, DataShape
  <2> QED BY <1>1, <1>3, <2>6 DEF UartTelemetry, CanTimeBroadcast, NoFlag
<1>4. ASSUME f.flag = NoFlag, f.len >= 2, Len(f.bytes) >= 2
      PROVE  Application(f) = f.bytes[2]
  <2>1. g = f
    BY <1>4 DEF InstallHeaderIfNeeded, UartTelemetry, CanTimeBroadcast, NoFlag
  <2>2. 2 \in 1..f.len /\ 2 <= Len(f.bytes)
    BY <1>1, <1>4
  <2>3. Data(f)[2] = f.bytes[2]
    BY <2>2, DataShape
  <2> QED BY <1>1, <2>1, <2>3
<1> QED BY <1>2, <1>3, <1>4

---------------------------------------------------------------------------
(* Requests and what a loop makes of them. *)

\* The loop of s handles request q, and does not panic.
Serves(s, q) ==
    /\ Parses(q.frame) /\ Application(q.frame) \in Apps[s]
    /\ Application(q.frame) = TimeSyncId => ~(Request(q.frame).len < 4)
    /\ Application(q.frame) = ResetNetworkId => Request(q.frame).len # 0

\* The meta of f is that of q turned round, and an echo has its data.
AnswerTo(f, q) ==
    /\ f.src = q.frame.dest /\ f.dest = q.frame.src /\ f.flag = q.frame.flag
    /\ Application(q.frame) = EchoId =>
          f.len = Request(q.frame).len /\ f.bytes = Data(Request(q.frame))

\* The response a loop builds leaves room for the headers of every layer.
RoomLeft(f) == f \in Frames /\ f.off = StartOffset /\ f.len <= FrameMaxLength

\* Frame f goes back for request q.
GoesBack(f, q) ==
    /\ f.src = q.frame.dest /\ f.dest = q.frame.src
    /\ Application(f) = Application(q.frame)
    /\ Application(q.frame) = EchoId => Data(f) = Data(q.frame)
    /\ InBounds(f) /\ f.off >= 0

LEMMA ServesWhat ==
    ASSUME NEW s, NEW k, Handled(s, k), ~HandlePanics(k)
    PROVE  Serves(s, reqs[k])
BY DEF Serves, Handled, HandlePanics, AppOf, Req

\* What is known of a request a server handles.
LEMMA RequestKnown ==
    ASSUME NEW s \in Servers, NEW q \in Requests[s], Serves(s, q), NEW r,
           r = Request(q.frame)
    PROVE  /\ IsNewFrame(q.frame) /\ Application(q.frame) \in Byte
           /\ r \in Frames /\ r.len <= FrameMaxLength
           /\ r.src = q.frame.src /\ r.dest = q.frame.dest /\ r.flag = q.frame.flag
<1>1. IsNewFrame(q.frame) /\ Apps[s] \subseteq Byte
  BY ServerAssumption DEF Byte
<1>2. Parses(q.frame) /\ Application(q.frame) \in Byte
  BY <1>1 DEF Serves
<1> QED BY <1>1, <1>2, RequestShape

\* set_meta_from_request: the frame a handler starts from.
LEMMA ResponseMeta ==
    ASSUME NEW r \in Frames, r.len <= FrameMaxLength, NEW n \in Nat, NEW b \in Seq(Nat),
           NEW x, x = WithRequestMeta(BusFrame(0, 0, NoFlag, n, b), r)
    PROVE  /\ RoomLeft(x) /\ x.src = r.dest /\ x.dest = r.src /\ x.flag = r.flag
           /\ x.len = r.len /\ x.bytes = b
<1>1. /\ r.src \in 0..255 /\ r.dest \in 0..255 /\ r.flag \in Flags /\ r.len \in Nat
  BY DEF Frames
<1>2. x = [src |-> r.dest, dest |-> r.src, flag |-> r.flag, off |-> StartOffset,
           len |-> r.len, bytes |-> b]
  BY DEF WithRequestMeta, BusFrame
<1>3. x \in Frames
  BY <1>1, <1>2 DEF Frames, StartOffset
<1> QED BY <1>2, <1>3 DEF RoomLeft

LEMMA LengthSet ==
    ASSUME NEW f, RoomLeft(f), NEW n \in Nat, n <= FrameMaxLength, NEW x, x = SetLen(f, n)
    PROVE  /\ RoomLeft(x) /\ x.src = f.src /\ x.dest = f.dest /\ x.flag = f.flag
           /\ x.len = n /\ x.bytes = f.bytes
BY DEF RoomLeft, Frames, SetLen

LEMMA FirstByteSet ==
    ASSUME NEW f, RoomLeft(f), NEW b \in Nat, NEW x, x = [f EXCEPT !.bytes[1] = b]
    PROVE  RoomLeft(x) /\ x.src = f.src /\ x.dest = f.dest /\ x.flag = f.flag
<1> DEFINE c == [f.bytes EXCEPT ![1] = b]
<1>1. f \in Frames /\ f.bytes \in Seq(Nat)
  BY DEF RoomLeft, Frames
<1>2. c \in Seq(Nat)
  <2> DEFINE d == f.bytes
  <2>1. d \in [1..Len(d) -> Nat] /\ Len(d) \in Nat
    BY <1>1
  <2> HIDE DEF d
  <2>2. [d EXCEPT ![1] = b] \in [1..Len(d) -> Nat]
    BY <2>1
  <2>3. [d EXCEPT ![1] = b] \in Seq(Nat)
    BY <2>1, <2>2, Tuple
  <2> QED BY <2>3 DEF d
<1>3. x = [f EXCEPT !.bytes = c]
  BY <1>1 DEF Frames
<1> HIDE DEF c
<1>4. /\ x \in Frames /\ x.src = f.src /\ x.dest = f.dest /\ x.flag = f.flag
      /\ x.off = f.off /\ x.len = f.len
  BY <1>1, <1>2, <1>3 DEF Frames
<1> QED BY <1>4 DEF RoomLeft

\* Echo, Reboot and ResetNetwork answer the one who asked.
LEMMA DirectAnswers ==
    ASSUME NEW s \in Servers, NEW k, reqs[k] \in Requests[s], Serves(s, reqs[k]),
           NEW resp \in DirectResponses(k)
    PROVE  RoomLeft(resp) /\ AnswerTo(resp, reqs[k])
<1> DEFINE r == Req(k)
           q == reqs[k]
<1>1. r = Request(q.frame) /\ AppOf(k) = Application(q.frame)
  BY DEF Req, AppOf
<1>2. /\ r \in Frames /\ r.len <= FrameMaxLength
      /\ r.src = q.frame.src /\ r.dest = q.frame.dest /\ r.flag = q.frame.flag
  BY <1>1, RequestKnown
<1>3. Data(r) \in Seq(Nat) /\ Len(Data(r)) = r.len /\ r.len \in Nat
  BY <1>2, DataShape DEF Frames
<1>4. EchoId # RebootId /\ EchoId # ResetNetworkId /\ RebootId # ResetNetworkId
  BY DEF EchoId, RebootId, ResetNetworkId
<1> HIDE DEF r
<1>5. CASE AppOf(k) = EchoId
  <2>1. resp = WithRequestMeta(BusFrame(0, 0, NoFlag, Len(Data(r)), Data(r)), r)
    BY <1>4, <1>5 DEF DirectResponses, EchoResponse, NewFrame, r
  <2>2. /\ RoomLeft(resp) /\ resp.src = r.dest /\ resp.dest = r.src /\ resp.flag = r.flag
        /\ resp.len = r.len /\ resp.bytes = Data(r)
    BY <1>2, <1>3, <2>1, ResponseMeta
  <2> QED BY <1>1, <1>2, <2>2 DEF AnswerTo
<1>6. CASE AppOf(k) = RebootId
  <2>1. resp = WithRequestMeta(BusFrame(0, 0, NoFlag, Len(<<111, 107>>), <<111, 107>>), r)
    BY <1>4, <1>6 DEF DirectResponses, RebootResponse, NewFrame, r
  <2>2. <<111, 107>> \in Seq(Nat) /\ Len(<<111, 107>>) \in Nat
    OBVIOUS
  <2> DEFINE ok == <<111, 107>>
             n == Len(ok)
  <2> ok \in Seq(Nat) /\ n \in Nat /\ resp = WithRequestMeta(BusFrame(0, 0, NoFlag, n, ok), r)
    BY <2>1, <2>2
  <2> HIDE DEF ok, n
  <2>3. RoomLeft(resp) /\ resp.src = r.dest /\ resp.dest = r.src /\ resp.flag = r.flag
    BY <1>2, ResponseMeta
  <2> QED BY <1>1, <1>2, <1>4, <1>6, <2>3 DEF AnswerTo
<1>7. CASE AppOf(k) = ResetNetworkId
  <2> DEFINE reply == WithRequestMeta(NewFrame(0, 0, NoFlag, Data(r)), r)
  <2>1. RoomLeft(reply) /\ reply.src = r.dest /\ reply.dest = r.src /\ reply.flag = r.flag
    BY <1>2, <1>3, ResponseMeta DEF NewFrame
  <2>2. PICK n \in Nat, b \in Nat :
           n <= FrameMaxLength /\ resp = [SetLen(reply, n) EXCEPT !.bytes[1] = b]
    <3> DEFINE With(len, b) == [SetLen(reply, len) EXCEPT !.bytes[1] = b]
    <3>1. resp \in ResetResponses(r)
      BY <1>4, <1>7 DEF DirectResponses, r
    <3>2. \/ resp = With(1 + StatusSize, StatusByte(1, 1))
          \/ \E status \in {1, 2} : resp = With(1, StatusByte(2, status))
          \/ resp = With(1, StatusByte(0, 3))
      BY <3>1 DEF ResetResponses
    <3>3. /\ StatusByte(1, 1) \in Nat /\ StatusByte(2, 1) \in Nat
          /\ StatusByte(2, 2) \in Nat /\ StatusByte(0, 3) \in Nat
      BY DEF StatusByte
    <3>4. 1 + StatusSize \in Nat /\ 1 + StatusSize <= FrameMaxLength /\ 1 <= FrameMaxLength
      BY DEF StatusSize, FrameMaxLength
    <3> HIDE DEF reply
    <3> QED BY <3>2, <3>3, <3>4
  <2> HIDE DEF reply
  <2> DEFINE x == SetLen(reply, n)
  <2>3. RoomLeft(x) /\ x.src = r.dest /\ x.dest = r.src /\ x.flag = r.flag
    BY <2>1, <2>2, LengthSet
  <2>4. resp = [x EXCEPT !.bytes[1] = b]
    BY <2>2
  <2> HIDE DEF x
  <2>5. RoomLeft(resp) /\ resp.src = r.dest /\ resp.dest = r.src /\ resp.flag = r.flag
    BY <2>3, <2>4, FirstByteSet
  <2> QED BY <1>1, <1>2, <1>4, <1>7, <2>5 DEF AnswerTo
<1> QED BY <1>5, <1>6, <1>7 DEF DirectResponses

\* So does TeleMetry.
LEMMA TelemetryAnswers ==
    ASSUME NEW s \in Servers, NEW k, reqs[k] \in Requests[s], Serves(s, reqs[k]),
           AppOf(k) = TelemetryId, NEW resp, resp = TelemetryResponse(Req(k))
    PROVE  RoomLeft(resp) /\ AnswerTo(resp, reqs[k])
<1> DEFINE r == Req(k)
           q == reqs[k]
           x == WithRequestMeta(BusFrame(0, 0, NoFlag, 0, <<>>), r)
<1>1. r = Request(q.frame) /\ AppOf(k) = Application(q.frame)
  BY DEF Req, AppOf
<1>2. /\ r \in Frames /\ r.len <= FrameMaxLength
      /\ r.src = q.frame.src /\ r.dest = q.frame.dest /\ r.flag = q.frame.flag
  BY <1>1, RequestKnown
<1>3. <<>> \in Seq(Nat) /\ 0 \in Nat
  OBVIOUS
<1> HIDE DEF r
<1>4. RoomLeft(x) /\ x.src = r.dest /\ x.dest = r.src /\ x.flag = r.flag
  <2> DEFINE none == <<>>
             n == 0
             y == WithRequestMeta(BusFrame(0, 0, NoFlag, n, none), r)
  <2>1. x = y /\ none \in Seq(Nat) /\ n \in Nat
    BY <1>3
  <2>2. r \in Frames /\ r.len <= FrameMaxLength
    BY <1>2
  <2> HIDE DEF none, n, x
  <2>3. RoomLeft(y) /\ y.src = r.dest /\ y.dest = r.src /\ y.flag = r.flag
    BY <2>1, <2>2, ResponseMeta
  <2> QED BY <2>1, <2>3
<1>5. resp = SetLen(x, 100)
  BY DEF TelemetryResponse, r
<1>6. 100 \in Nat /\ 100 <= FrameMaxLength
  BY DEF FrameMaxLength
<1> HIDE DEF x
<1>7. RoomLeft(resp) /\ resp.src = r.dest /\ resp.dest = r.src /\ resp.flag = r.flag
  BY <1>4, <1>5, <1>6, LengthSet
<1>8. TelemetryId # EchoId
  BY DEF TelemetryId, EchoId
<1> QED BY <1>1, <1>2, <1>7, <1>8 DEF AnswerTo

\* A response with the header of its application: what is handed to send().
LEMMA ResponseLeaves ==
    ASSUME NEW s \in Servers, NEW q \in Requests[s], Serves(s, q),
           NEW resp, RoomLeft(resp), AnswerTo(resp, q),
           NEW f, f = InsertHeader(resp, Application(q.frame))
    PROVE  GoesBack(f, q)
<1> DEFINE p == q.frame
           r == Request(p)
           app == Application(p)
<1>1. /\ IsNewFrame(p) /\ Parses(p) /\ app \in Byte /\ r \in Frames
  BY RequestKnown DEF Serves
<1>2. /\ resp \in Frames /\ resp.off = 16 /\ resp.len <= 150 /\ resp.len \in Nat
      /\ Len(resp.bytes) \in Nat
  BY DEF RoomLeft, StartOffset, FrameMaxLength, Frames
<1>3. /\ f \in Frames /\ f.src = resp.src /\ f.dest = resp.dest /\ f.flag = resp.flag
      /\ f.off = 14 /\ f.len = resp.len + 2 /\ f.bytes[1] = VersionId /\ f.bytes[2] = app
      /\ Len(f.bytes) = Len(resp.bytes) + 2
      /\ \A i \in 1..Len(resp.bytes) : f.bytes[i + 2] = resp.bytes[i]
  <2>1. f = InsertHeader(resp, app) /\ resp \in Frames /\ resp.off >= 2 /\ app \in Byte
    BY <1>1, <1>2
  <2> HIDE DEF app
  <2>2. /\ f \in Frames /\ f.src = resp.src /\ f.dest = resp.dest /\ f.flag = resp.flag
        /\ f.off = resp.off - 2 /\ f.len = resp.len + 2
        /\ f.bytes[1] = VersionId /\ f.bytes[2] = app
        /\ Len(f.bytes) = Len(resp.bytes) + 2
        /\ \A i \in 1..Len(resp.bytes) : f.bytes[i + 2] = resp.bytes[i]
    BY <2>1, HeaderInserted
  <2> QED BY <1>2, <2>2
<1>4. f.src = p.dest /\ f.dest = p.src /\ f.flag = p.flag
  BY <1>3 DEF AnswerTo
<1>5. /\ p.flag \in Flags
      /\ p.flag = UartTelemetry => app = TelemetryId
      /\ p.flag = CanTimeBroadcast => app = TimeSyncId
      /\ p.flag = NoFlag =>
            /\ p.len >= 2 /\ r.len = p.len - 2
            /\ p.bytes[1] = VersionId /\ p.bytes[2] = app
            /\ Len(r.bytes) = r.len
            /\ \A i \in 1..r.len : r.bytes[i] = p.bytes[i + 2]
  <2>1. p.flag \in Flags
    BY <1>1, NewFrameOK DEF Frames
  <2>2. r = Request(p) /\ app = Application(p)
    OBVIOUS
  <2> HIDE DEF app, r, p
  <2> QED BY <1>1, <2>1, <2>2, RequestShape DEF HeaderSize
<1> HIDE DEF app, r, p
<1>6. Application(f) = app
  <2>1. f.off >= 2 /\ f.len >= 2 /\ Len(f.bytes) >= 2
    BY <1>2, <1>3
  <2> QED BY <1>3, <1>4, <1>5, <2>1, ApplicationNamed DEF Flags
<1>7. ASSUME app = EchoId PROVE Data(f) = Data(p)
  <2>1. p.flag = NoFlag
    BY <1>5, <1>7 DEF Flags, EchoId, TelemetryId, TimeSyncId
  <2>2. resp.len = r.len /\ resp.bytes = Data(r)
    BY <1>7 DEF AnswerTo, app, r, p
  <2>3. /\ p \in Frames /\ p.len = Len(p.bytes) /\ p.len \in Nat /\ r.len \in Nat
    BY <1>1, NewFrameOK DEF Frames
  <2>4. Len(Data(r)) = r.len /\ \A i \in 1..r.len : Data(r)[i] = r.bytes[i]
    BY <1>1, <1>5, <2>1, DataShape
  <2>5. f.len = p.len /\ Len(f.bytes) = f.len
    BY <1>3, <1>5, <2>1, <2>2, <2>3, <2>4
  <2>6. ASSUME NEW i \in 1..p.len PROVE f.bytes[i] = p.bytes[i]
    <3>1. CASE i = 1
      BY <1>3, <1>5, <2>1, <3>1
    <3>2. CASE i = 2
      BY <1>3, <1>5, <2>1, <3>2
    <3>3. CASE i > 2
      <4>1. PICK j \in 1..r.len : i = j + 2
        <5>1. i - 2 \in 1..r.len /\ i = (i - 2) + 2
          BY <1>5, <2>1, <2>3, <3>3
        <5> QED BY <5>1
      <4>2. f.bytes[j + 2] = resp.bytes[j]
        BY <1>3, <2>2, <2>4
      <4> QED BY <1>5, <2>1, <2>2, <2>4, <4>1, <4>2
    <3>4. i \in Nat /\ i >= 1
      BY <2>3
    <3>5. i = 1 \/ i = 2 \/ i > 2
      BY <3>4
    <3> QED BY <3>1, <3>2, <3>3, <3>5
  <2>7. \A i \in 1..p.len : Data(f)[i] = Data(p)[i]
    <3>1. /\ \A i \in 1..f.len : Data(f)[i] = IF i <= Len(f.bytes) THEN f.bytes[i] ELSE 0
          /\ \A i \in 1..p.len : Data(p)[i] = IF i <= Len(p.bytes) THEN p.bytes[i] ELSE 0
      <4>1. f \in Frames /\ p \in Frames
        BY <1>3, <2>3
      <4> QED BY <4>1, DataShape
    <3>2. /\ \A i \in 1..p.len : Data(f)[i] = f.bytes[i]
          /\ \A i \in 1..p.len : Data(p)[i] = p.bytes[i]
      BY <2>3, <2>5, <3>1
    <3> QED BY <2>6, <3>2
  <2>8. Data(f) = [i \in 1..p.len |-> Data(f)[i]] /\ Data(p) = [i \in 1..p.len |-> Data(p)[i]]
    BY <2>5 DEF Data
  <2> QED BY <2>7, <2>8
<1>8. InBounds(f) /\ f.off >= 0
  BY <1>2, <1>3 DEF InBounds, FrameDataLength
<1> QED BY <1>4, <1>6, <1>7, <1>8 DEF GoesBack, app, p

---------------------------------------------------------------------------
(* The invariant. *)

Active(t) == t.at # "idle"

\* Request k was sent to server s.
CameTo(rs, k, s) == k \in DOMAIN rs /\ rs[k] \in Requests[s]

Numbers ==
    /\ IsSeq(reqs) /\ IsSeq(out)
    /\ inbox \in [Servers -> Seq(Nat)]
    /\ \A s \in Servers : \A i \in DOMAIN inbox[s] : CameTo(reqs, inbox[s][i], s)
    /\ \A s \in Servers : Active(task[s]) => CameTo(reqs, task[s].k, s)
    /\ \A j \in DOMAIN out : out[j].s \in Servers /\ CameTo(reqs, out[j].k, out[j].s)

QueuedOnce(ib) ==
    \A s, u \in Servers : \A i \in DOMAIN ib[s], j \in DOMAIN ib[u] :
        ib[s][i] = ib[u][j] => s = u /\ i = j

NotQueued(ib, k) == \A s \in Servers : \A i \in DOMAIN ib[s] : ib[s][i] # k

\* A request is in one queue, once, or with one loop, or answered once.
OnePlace ==
    /\ QueuedOnce(inbox)
    /\ \A s \in Servers : Active(task[s]) => NotQueued(inbox, task[s].k)
    /\ \A s, u \in Servers :
          Active(task[s]) /\ Active(task[u]) /\ task[s].k = task[u].k => s = u
    /\ \A j \in DOMAIN out :
          /\ NotQueued(inbox, out[j].k)
          /\ \A s \in Servers : Active(task[s]) => task[s].k # out[j].k
    /\ \A i, j \in DOMAIN out : out[i].k = out[j].k => i = j

\* Loop s does t for request q.
Works(s, t, q) ==
    /\ RoomLeft(t.resp)
    /\ Active(t) => Serves(s, q)
    /\ t.at = "responding" => AnswerTo(t.resp, q)

AtWork == \A s \in Servers : Works(s, task[s], reqs[task[s].k])

Left == \A j \in DOMAIN out : GoesBack(out[j].frame, reqs[out[j].k])

QuestionFor(q) ==
    IF Application(q.frame) = TelemetryId THEN <<0, 0, 234, 96>>
    ELSE <<0, 0, 234, 97>> \o SubSeq(Data(Request(q.frame)), 1, 4) \o <<0, 0>>

\* What the service is asked, for a request that a server handles.
AskedFor(a, rs) ==
    /\ \E s \in Servers : CameTo(rs, a.k, s) /\ Serves(s, rs[a.k])
    /\ a.msg = QuestionFor(rs[a.k])

Asking == \A i \in DOMAIN asked : AskedFor(asked[i], reqs)

Counted ==
    /\ up \in BOOLEAN
    /\ late + (IF holder = NoServer THEN 0 ELSE 1) <= asks

RespInv == Numbers /\ OnePlace /\ AtWork /\ Left /\ Asking /\ Counted

LEMMA IdleWorks ==
    ASSUME NEW s, NEW q
    PROVE  Works(s, Idle, q)
<1> DEFINE none == <<>>
           resp == NewFrame(0, 0, NoFlag, none)
<1>1. none \in Seq(Nat) /\ Len(none) = 0
  OBVIOUS
<1>2. Idle.at = "idle" /\ Idle.resp = resp
  BY DEF Idle
<1> HIDE DEF none
<1>3. resp = [src |-> 0, dest |-> 0, flag |-> NoFlag, off |-> StartOffset,
              len |-> 0, bytes |-> none]
  BY <1>1 DEF NewFrame, BusFrame
<1>4. RoomLeft(resp)
  <2>1. /\ 0 \in 0..255 /\ NoFlag \in Flags /\ StartOffset \in Nat /\ 0 \in Nat
        /\ 0 <= FrameMaxLength
    BY DEF Flags, StartOffset, FrameMaxLength
  <2>2. resp \in Frames
    <3> DEFINE zero == 0
    <3>1. /\ zero \in 0..255 /\ zero \in Nat
          /\ resp = [src |-> zero, dest |-> zero, flag |-> NoFlag, off |-> StartOffset,
                     len |-> zero, bytes |-> none]
      BY <1>3
    <3> HIDE DEF zero, resp
    <3> QED BY <1>1, <2>1, <3>1 DEF Frames
  <2> QED BY <1>3, <2>1, <2>2 DEF RoomLeft
<1> HIDE DEF resp
<1> QED BY <1>2, <1>4 DEF Works, Active

LEMMA InitRespInv == Init => RespInv
<1> SUFFICES ASSUME Init PROVE RespInv
  OBVIOUS
<1>1. /\ \A s \in Servers : task[s] = Idle
      /\ \A s \in Servers : inbox[s] = <<>>
      /\ reqs = <<>> /\ out = <<>> /\ asked = <<>>
      /\ up = TRUE /\ late = 0 /\ asks = 0 /\ holder = NoServer
  BY DEF Init
<1>2. inbox \in [Servers -> Seq(Nat)]
  <2> DEFINE none == <<>>
  <2>1. none \in Seq(Nat) /\ inbox = [s \in Servers |-> none]
    BY DEF Init
  <2> HIDE DEF none
  <2> QED BY <2>1
<1>3. Idle.at = "idle"
  BY DEF Idle
<1>4. Numbers
  BY <1>1, <1>2, <1>3, EmptyIsSeq DEF Numbers, Active
<1>5. OnePlace
  BY <1>1, <1>3, EmptyIsSeq DEF OnePlace, Active, QueuedOnce
<1>6. AtWork
  BY <1>1, IdleWorks DEF AtWork
<1>7. Left /\ Asking
  BY <1>1, EmptyIsSeq DEF Left, Asking
<1>8. Counted
  BY <1>1 DEF Counted
<1> QED BY <1>4, <1>5, <1>6, <1>7, <1>8 DEF RespInv

---------------------------------------------------------------------------
(* Where requests are, step by step. *)

\* Nobody moves.
LEMMA PlacesKept ==
    ASSUME Numbers, OnePlace, UNCHANGED <<reqs, inbox, task, out>>
    PROVE  Numbers' /\ OnePlace'
<1>1. Numbers'
  BY DEF Numbers
<1>2. OnePlace'
  BY DEF OnePlace
<1> QED BY <1>1, <1>2

LEMMA TaskSet ==
    ASSUME Loops, NEW s \in Servers, NEW t, task' = [task EXCEPT ![s] = t]
    PROVE  task'[s] = t /\ \A u \in Servers : u # s => task'[u] = task[u]
BY DEF Loops

\* A new request has a number of its own.
LEMMA ClientSendsPlaces ==
    ASSUME Numbers, OnePlace, NEW s \in Servers, ClientSends(s)
    PROVE  Numbers' /\ OnePlace'
<1>1. PICK q \in Requests[s] :
         /\ reqs' = Append(reqs, q)
         /\ inbox' = [inbox EXCEPT ![s] = Append(@, Len(reqs) + 1)]
  BY DEF ClientSends
<1>2. task' = task /\ out' = out
  BY DEF ClientSends
<1> DEFINE n == Len(reqs) + 1
<1>3. Len(reqs) \in Nat /\ DOMAIN reqs = 1..Len(reqs)
  BY SeqLength DEF Numbers
<1>4. /\ IsSeq(reqs') /\ DOMAIN reqs' = 1..n
      /\ n \in Nat /\ n \notin DOMAIN reqs /\ reqs'[n] = q
      /\ \A k \in DOMAIN reqs : k \in DOMAIN reqs' /\ reqs'[k] = reqs[k]
  <2>1. /\ IsSeq(reqs') /\ Len(reqs') = Len(reqs) + 1
        /\ \A k \in 1..Len(reqs) : reqs'[k] = reqs[k]
        /\ reqs'[Len(reqs) + 1] = q
    BY <1>1, AppendParts DEF Numbers
  <2>2. DOMAIN reqs' = 1..Len(reqs')
    BY <2>1, SeqLength
  <2> QED BY <1>3, <2>1, <2>2
<1> HIDE DEF n
<1>5. \A u \in Servers : \A k : CameTo(reqs, k, u) => CameTo(reqs', k, u) /\ k # n
  BY <1>4 DEF CameTo
<1>6. CameTo(reqs', n, s)
  BY <1>3, <1>4 DEF CameTo, n
<1>7. /\ inbox' \in [Servers -> Seq(Nat)]
      /\ \A u \in Servers : \A i \in DOMAIN inbox'[u] :
            \/ i \in DOMAIN inbox[u] /\ inbox'[u][i] = inbox[u][i]
            \/ u = s /\ i = Len(inbox[s]) + 1 /\ inbox'[u][i] = n
  <2> DEFINE old == inbox[s]
             new == Append(old, n)
  <2>1. old \in Seq(Nat) /\ inbox' = [inbox EXCEPT ![s] = new] /\ n \in Nat
    BY <1>1, <1>4 DEF Numbers, n
  <2> HIDE DEF old
  <2>2. /\ new \in Seq(Nat)
        /\ \A i \in DOMAIN new : \/ i \in DOMAIN old /\ new[i] = old[i]
                                 \/ i = Len(old) + 1 /\ new[i] = n
    BY <2>1
  <2> HIDE DEF new
  <2>3. inbox' \in [Servers -> Seq(Nat)]
    BY <2>1, <2>2 DEF Numbers
  <2>4. inbox'[s] = new /\ \A u \in Servers : u # s => inbox'[u] = inbox[u]
    BY <2>1 DEF Numbers
  <2> QED BY <2>2, <2>3, <2>4 DEF old
<1>8. \A u \in Servers : \A i \in DOMAIN inbox[u] : CameTo(reqs, inbox[u][i], u)
  BY DEF Numbers
<1>9. Numbers'
  <2>1. ASSUME NEW u \in Servers, NEW i \in DOMAIN inbox'[u]
        PROVE  CameTo(reqs', inbox'[u][i], u)
    <3>1. CASE i \in DOMAIN inbox[u] /\ inbox'[u][i] = inbox[u][i]
      BY <1>5, <1>8, <3>1
    <3>2. CASE u = s /\ inbox'[u][i] = n
      BY <1>6, <3>2
    <3> QED BY <1>7, <2>1, <3>1, <3>2
  <2>2. ASSUME NEW u \in Servers, Active(task'[u]) PROVE CameTo(reqs', task'[u].k, u)
    BY <1>2, <1>5, <2>2 DEF Numbers
  <2>3. ASSUME NEW j \in DOMAIN out'
        PROVE  out'[j].s \in Servers /\ CameTo(reqs', out'[j].k, out'[j].s)
    BY <1>2, <1>5, <2>3 DEF Numbers
  <2>4. IsSeq(out')
    BY <1>2 DEF Numbers
  <2> QED BY <1>4, <1>7, <2>1, <2>2, <2>3, <2>4 DEF Numbers
<1>10. ASSUME NEW k, k # n, NotQueued(inbox, k) PROVE NotQueued(inbox', k)
  BY <1>7, <1>10 DEF NotQueued
<1>11. QueuedOnce(inbox')
  <2> SUFFICES ASSUME NEW u \in Servers, NEW v \in Servers,
                      NEW i \in DOMAIN inbox'[u], NEW j \in DOMAIN inbox'[v],
                      inbox'[u][i] = inbox'[v][j]
               PROVE  u = v /\ i = j
    BY DEF QueuedOnce
  <2>1. \/ i \in DOMAIN inbox[u] /\ inbox'[u][i] = inbox[u][i] /\ inbox'[u][i] # n
        \/ u = s /\ i = Len(inbox[s]) + 1 /\ inbox'[u][i] = n
    BY <1>5, <1>7, <1>8
  <2>2. \/ j \in DOMAIN inbox[v] /\ inbox'[v][j] = inbox[v][j] /\ inbox'[v][j] # n
        \/ v = s /\ j = Len(inbox[s]) + 1 /\ inbox'[v][j] = n
    BY <1>5, <1>7, <1>8
  <2> QED BY <2>1, <2>2 DEF OnePlace, QueuedOnce
<1>12. OnePlace'
  <2>1. ASSUME NEW u \in Servers, Active(task'[u]) PROVE NotQueued(inbox', task'[u].k)
    BY <1>2, <1>5, <1>10, <2>1 DEF Numbers, OnePlace
  <2>2. ASSUME NEW j \in DOMAIN out' PROVE NotQueued(inbox', out'[j].k)
    BY <1>2, <1>5, <1>10, <2>2 DEF Numbers, OnePlace
  <2> QED BY <1>2, <1>11, <2>1, <2>2 DEF OnePlace
<1> QED BY <1>9, <1>12

\* A loop takes the request at the head of its queue, and keeps it or not.
LEMMA TakesPlaces ==
    ASSUME Numbers, OnePlace, Loops, NEW s \in Servers, NEW t, NEW k,
           ~Active(task[s]), inbox[s] # <<>>, k = Head(inbox[s]),
           Active(t) => t.k = k,
           inbox' = [inbox EXCEPT ![s] = Tail(@)],
           task' = [task EXCEPT ![s] = t],
           UNCHANGED <<reqs, out>>
    PROVE  Numbers' /\ OnePlace' /\ CameTo(reqs, k, s)
<1>1. task'[s] = t /\ \A u \in Servers : u # s => task'[u] = task[u]
  BY TaskSet
<1>2. PICK d \in [Servers -> Int] :
         /\ d[s] = 1
         /\ inbox' \in [Servers -> Seq(Nat)]
         /\ 1 \in DOMAIN inbox[s] /\ k = inbox[s][1]
         /\ \A u \in Servers : \A i \in DOMAIN inbox'[u] :
               /\ i \in Int /\ i >= 1 /\ i + d[u] \in DOMAIN inbox[u]
               /\ inbox'[u][i] = inbox[u][i + d[u]]
  <2> DEFINE old == inbox[s]
             new == Tail(old)
             d == [u \in Servers |-> IF u = s THEN 1 ELSE 0]
  <2>1. /\ old \in Seq(Nat) /\ old # <<>> /\ inbox' = [inbox EXCEPT ![s] = new]
        /\ k = Head(old)
    BY DEF Numbers
  <2> HIDE DEF old
  <2>2. /\ new \in Seq(Nat) /\ 1 \in DOMAIN old /\ k = old[1]
        /\ \A i \in DOMAIN new : i \in Int /\ i >= 1 /\ i + 1 \in DOMAIN old /\ new[i] = old[i + 1]
    BY <2>1
  <2> HIDE DEF new
  <2>3. inbox' \in [Servers -> Seq(Nat)]
    BY <2>1, <2>2 DEF Numbers
  <2>4. inbox'[s] = new /\ \A u \in Servers : u # s => inbox'[u] = inbox[u]
    BY <2>1 DEF Numbers
  <2>5. \A u \in Servers : \A i \in DOMAIN inbox[u] : i \in Int /\ i >= 1 /\ i + 0 = i
    BY DEF Numbers
  <2>6. \A u \in Servers : u # s => d[u] = 0
    OBVIOUS
  <2>7. d[s] = 1 /\ d \in [Servers -> Int]
    OBVIOUS
  <2> HIDE DEF d
  <2>8. ASSUME NEW u \in Servers, NEW i \in DOMAIN inbox'[u]
        PROVE  /\ i \in Int /\ i >= 1 /\ i + d[u] \in DOMAIN inbox[u]
               /\ inbox'[u][i] = inbox[u][i + d[u]]
    <3>1. CASE u = s
      BY <2>2, <2>4, <2>7, <2>8, <3>1 DEF old
    <3>2. CASE u # s
      BY <2>4, <2>5, <2>6, <2>8, <3>2
    <3> QED BY <3>1, <3>2
  <2> QED BY <2>2, <2>3, <2>7, <2>8 DEF old
<1>3. CameTo(reqs, k, s)
  BY <1>2 DEF Numbers
<1>4. Numbers'
  <2>1. ASSUME NEW u \in Servers, NEW i \in DOMAIN inbox'[u]
        PROVE  CameTo(reqs, inbox'[u][i], u)
    BY <1>2, <2>1 DEF Numbers
  <2>2. ASSUME NEW u \in Servers, Active(task'[u]) PROVE CameTo(reqs, task'[u].k, u)
    BY <1>1, <1>3, <2>2 DEF Numbers
  <2> QED BY <1>2, <2>1, <2>2 DEF Numbers
<1>5. ASSUME NEW m, NotQueued(inbox, m) PROVE NotQueued(inbox', m)
  BY <1>2, <1>5 DEF NotQueued
<1>6. NotQueued(inbox', k)
  <2> SUFFICES ASSUME NEW u \in Servers, NEW i \in DOMAIN inbox'[u], inbox'[u][i] = k
               PROVE  FALSE
    BY DEF NotQueued
  <2>1. inbox[u][i + d[u]] = inbox[s][1] /\ i + d[u] \in DOMAIN inbox[u] /\ i >= 1 /\ i \in Int
    BY <1>2
  <2>2. u = s /\ i + d[u] = 1
    BY <1>2, <2>1 DEF OnePlace, QueuedOnce
  <2> QED BY <1>2, <2>1, <2>2
<1>7. QueuedOnce(inbox')
  <2> SUFFICES ASSUME NEW u \in Servers, NEW v \in Servers,
                      NEW i \in DOMAIN inbox'[u], NEW j \in DOMAIN inbox'[v],
                      inbox'[u][i] = inbox'[v][j]
               PROVE  u = v /\ i = j
    BY DEF QueuedOnce
  <2>1. /\ i + d[u] \in DOMAIN inbox[u] /\ j + d[v] \in DOMAIN inbox[v]
        /\ inbox[u][i + d[u]] = inbox[v][j + d[v]]
    BY <1>2
  <2>2. u = v /\ i + d[u] = j + d[v]
    BY <2>1 DEF OnePlace, QueuedOnce
  <2>3. i \in Int /\ j \in Int /\ d[u] \in Int
    BY <1>2
  <2> QED BY <2>2, <2>3
<1>8. OnePlace'
  <2>1. ASSUME NEW u \in Servers, Active(task'[u]) PROVE NotQueued(inbox', task'[u].k)
    <3>1. CASE u = s
      BY <1>1, <1>6, <2>1, <3>1
    <3>2. CASE u # s
      BY <1>1, <1>5, <2>1, <3>2 DEF OnePlace
    <3> QED BY <3>1, <3>2
  <2>2. ASSUME NEW u \in Servers, NEW v \in Servers, Active(task'[u]), Active(task'[v]),
               task'[u].k = task'[v].k
        PROVE  u = v
    <3>1. \A w \in Servers : Active(task[w]) => task[w].k # k
      BY <1>2 DEF OnePlace, NotQueued
    <3>2. CASE u = s \/ v = s
      BY <1>1, <2>2, <3>1, <3>2
    <3>3. CASE u # s /\ v # s
      BY <1>1, <2>2, <3>3 DEF OnePlace
    <3> QED BY <3>2, <3>3
  <2>3. ASSUME NEW j \in DOMAIN out
        PROVE  /\ NotQueued(inbox', out[j].k)
               /\ \A u \in Servers : Active(task'[u]) => task'[u].k # out[j].k
    <3>1. NotQueued(inbox, out[j].k) /\ k # out[j].k
      BY <1>2, <2>3 DEF OnePlace, NotQueued
    <3>2. ASSUME NEW u \in Servers, Active(task'[u]) PROVE task'[u].k # out[j].k
      <4>1. CASE u = s
        BY <1>1, <3>1, <3>2, <4>1
      <4>2. CASE u # s
        BY <1>1, <2>3, <3>2, <4>2 DEF OnePlace
      <4> QED BY <4>1, <4>2
    <3> QED BY <1>5, <3>1, <3>2
  <2> QED BY <1>7, <2>1, <2>2, <2>3 DEF OnePlace
<1> QED BY <1>3, <1>4, <1>8

\* A loop goes on with its request, or leaves it.
LEMMA MovesPlaces ==
    ASSUME Numbers, OnePlace, Loops, NEW s \in Servers, NEW t,
           Active(t) => Active(task[s]) /\ t.k = task[s].k,
           task' = [task EXCEPT ![s] = t],
           UNCHANGED <<reqs, inbox, out>>
    PROVE  Numbers' /\ OnePlace'
<1>1. task'[s] = t /\ \A u \in Servers : u # s => task'[u] = task[u]
  BY TaskSet
<1>2. \A u \in Servers : Active(task'[u]) => Active(task[u]) /\ task'[u].k = task[u].k
  BY <1>1
<1>3. Numbers'
  BY <1>2 DEF Numbers
<1>4. OnePlace'
  BY <1>2 DEF OnePlace
<1> QED BY <1>3, <1>4

\* The process ends: loops and queues are empty.
LEMMA AbortsPlaces ==
    ASSUME Numbers, OnePlace, inbox' = [s \in Servers |-> <<>>],
           task' = [s \in Servers |-> Idle], UNCHANGED <<reqs, out>>
    PROVE  Numbers' /\ OnePlace'
<1>1. inbox' \in [Servers -> Seq(Nat)]
  <2> DEFINE none == <<>>
  <2>1. none \in Seq(Nat) /\ inbox' = [s \in Servers |-> none]
    OBVIOUS
  <2> HIDE DEF none
  <2> QED BY <2>1
<1>2. \A s \in Servers : DOMAIN inbox'[s] = {} /\ ~Active(task'[s])
  BY EmptyIsSeq, IdleTask DEF Active
<1>3. Numbers'
  BY <1>1, <1>2 DEF Numbers
<1>4. OnePlace'
  BY <1>2 DEF OnePlace, QueuedOnce, NotQueued
<1> QED BY <1>3, <1>4

\* A loop is done with its request, and answers it.
LEMMA RespondsPlaces ==
    ASSUME Numbers, OnePlace, Loops, NEW s \in Servers, Active(task[s]), NEW m,
           m.s = s, m.k = task[s].k,
           out' = Append(out, m), task' = [task EXCEPT ![s] = Idle],
           UNCHANGED <<reqs, inbox>>
    PROVE  Numbers' /\ OnePlace'
<1>1. task'[s] = Idle /\ \A u \in Servers : u # s => task'[u] = task[u]
  BY TaskSet
<1>2. ~Active(Idle)
  BY IdleTask DEF Active
<1>3. /\ IsSeq(out')
      /\ \A j \in DOMAIN out' : \/ j \in DOMAIN out /\ out'[j] = out[j]
                                \/ j = Len(out) + 1 /\ out'[j] = m
  <2>1. IsSeq(out) /\ Len(out) \in Nat /\ DOMAIN out = 1..Len(out)
    BY SeqLength DEF Numbers
  <2>2. /\ IsSeq(out') /\ Len(out') = Len(out) + 1
        /\ \A j \in 1..Len(out) : out'[j] = out[j]
        /\ out'[Len(out) + 1] = m
    BY <2>1, AppendParts
  <2>3. DOMAIN out' = 1..Len(out')
    BY <2>2, SeqLength
  <2> QED BY <2>1, <2>2, <2>3
<1>4. Numbers'
  <2>1. ASSUME NEW j \in DOMAIN out'
        PROVE  out'[j].s \in Servers /\ CameTo(reqs, out'[j].k, out'[j].s)
    BY <1>3, <2>1 DEF Numbers
  <2>2. ASSUME NEW u \in Servers, Active(task'[u]) PROVE CameTo(reqs, task'[u].k, u)
    BY <1>1, <1>2, <2>2 DEF Numbers
  <2> QED BY <1>3, <2>1, <2>2 DEF Numbers
<1>5. OnePlace'
  <2>1. \A u \in Servers : Active(task'[u]) => u # s /\ task'[u] = task[u]
    BY <1>1, <1>2
  <2>2. ASSUME NEW j \in DOMAIN out'
        PROVE  /\ NotQueued(inbox, out'[j].k)
               /\ \A u \in Servers : Active(task'[u]) => task'[u].k # out'[j].k
    BY <1>3, <2>1, <2>2 DEF OnePlace
  <2>3. ASSUME NEW i \in DOMAIN out', NEW j \in DOMAIN out', out'[i].k = out'[j].k
        PROVE  i = j
    BY <1>3, <2>3 DEF OnePlace
  <2> QED BY <2>1, <2>2, <2>3 DEF OnePlace
<1> QED BY <1>4, <1>5

---------------------------------------------------------------------------
(* The actions. *)

LEMMA WorkKept ==
    ASSUME AtWork, Loops, NEW s \in Servers, NEW t, Works(s, t, reqs[t.k]),
           task' = [task EXCEPT ![s] = t], reqs' = reqs
    PROVE  AtWork'
<1>1. task'[s] = t /\ \A u \in Servers : u # s => task'[u] = task[u]
  BY TaskSet
<1>2. \A u \in Servers : Works(u, task'[u], reqs[task'[u].k])
  BY <1>1 DEF AtWork
<1> QED BY <1>2 DEF AtWork

\* Clients add requests, and change none.
LEMMA ClientSendsResp ==
    ASSUME RespInv, NEW s \in Servers, ClientSends(s)
    PROVE  RespInv'
<1>1. PICK q : reqs' = Append(reqs, q)
  BY DEF ClientSends
<1>2. UNCHANGED <<up, task, holder, asked, answers, asks, late, out>>
  BY DEF ClientSends
<1>3. Numbers' /\ OnePlace'
  BY ClientSendsPlaces DEF RespInv
<1>4. \A k \in DOMAIN reqs : k \in DOMAIN reqs' /\ reqs'[k] = reqs[k]
  <2>1. /\ IsSeq(reqs') /\ Len(reqs') = Len(reqs) + 1
        /\ \A k \in 1..Len(reqs) : reqs'[k] = reqs[k]
    BY <1>1, AppendParts DEF RespInv, Numbers
  <2>2. /\ DOMAIN reqs = 1..Len(reqs) /\ Len(reqs) \in Nat /\ DOMAIN reqs' = 1..Len(reqs')
    BY <2>1, SeqLength DEF RespInv, Numbers
  <2> QED BY <2>1, <2>2
<1>5. AtWork'
  <2>1. ASSUME NEW u \in Servers PROVE Works(u, task[u], reqs'[task[u].k])
    <3>1. CASE Active(task[u])
      <4>1. reqs'[task[u].k] = reqs[task[u].k]
        BY <1>4, <3>1 DEF RespInv, Numbers, CameTo
      <4> QED BY <4>1 DEF RespInv, AtWork
    <3>2. CASE ~Active(task[u])
      BY <3>2 DEF RespInv, AtWork, Works, Active
    <3> QED BY <3>1, <3>2
  <2> QED BY <1>2, <2>1 DEF AtWork
<1>6. Left'
  <2>1. \A j \in DOMAIN out : reqs'[out[j].k] = reqs[out[j].k]
    BY <1>4 DEF RespInv, Numbers, CameTo
  <2> QED BY <1>2, <2>1 DEF RespInv, Left
<1>7. Asking'
  <2>1. \A a : AskedFor(a, reqs) => AskedFor(a, reqs')
    BY <1>4 DEF AskedFor, CameTo
  <2> QED BY <1>2, <2>1 DEF RespInv, Asking
<1>8. Counted'
  BY <1>2 DEF RespInv, Counted
<1> QED BY <1>3, <1>5, <1>6, <1>7, <1>8 DEF RespInv

\* A loop goes on, with the socket or without.
LEMMA MovesResp ==
    ASSUME RespInv, Loops, NEW s \in Servers, NEW t,
           Active(t) => Active(task[s]) /\ t.k = task[s].k,
           Works(s, t, reqs[t.k]),
           task' = [task EXCEPT ![s] = t],
           UNCHANGED <<reqs, inbox, out>>,
           Asking', Counted'
    PROVE  RespInv'
<1>1. Numbers' /\ OnePlace'
  BY MovesPlaces DEF RespInv
<1>2. AtWork'
  BY WorkKept DEF RespInv
<1>3. Left'
  BY DEF RespInv, Left
<1> QED BY <1>1, <1>2, <1>3 DEF RespInv

\* A loop takes a request and does t, for a request that came to it.
LEMMA TakesResp ==
    ASSUME RespInv, Loops, NEW s \in Servers, NEW k, NEW t,
           Receives(s, k), Active(t) => t.k = k,
           CameTo(reqs, k, s) => Works(s, t, reqs[t.k]),
           task' = [task EXCEPT ![s] = t],
           UNCHANGED <<up, reqs, holder, asked, answers, asks, late, out>>
    PROVE  RespInv'
<1>1. /\ ~Active(task[s]) /\ inbox[s] # <<>> /\ k = Head(inbox[s])
      /\ inbox' = [inbox EXCEPT ![s] = Tail(@)]
  BY DEF Receives, Ready, Active
<1>2. Numbers' /\ OnePlace' /\ CameTo(reqs, k, s)
  BY <1>1, TakesPlaces DEF RespInv
<1>3. AtWork'
  BY <1>2, WorkKept DEF RespInv
<1>4. Left' /\ Asking' /\ Counted'
  BY DEF RespInv, Left, Asking, Counted
<1> QED BY <1>2, <1>3, <1>4 DEF RespInv

LEMMA RecvDroppedResp ==
    ASSUME RespInv, Loops, NEW s \in Servers, RecvDropped(s)
    PROVE  RespInv'
<1>1. PICK k : Receives(s, k)
  BY DEF RecvDropped
<1>2. UNCHANGED <<up, reqs, task, holder, asked, answers, asks, late, out>>
  BY DEF RecvDropped
<1> DEFINE t == task[s]
<1>3. ~Active(t) /\ Works(s, t, reqs[t.k]) /\ task' = [task EXCEPT ![s] = t]
  BY <1>1, <1>2 DEF Receives, Ready, Active, RespInv, AtWork, Loops
<1> HIDE DEF t
<1> QED BY <1>1, <1>2, <1>3, TakesResp

LEMMA HandleDirectlyResp ==
    ASSUME RespInv, Loops, NEW s \in Servers, HandleDirectly(s)
    PROVE  RespInv'
<1>1. PICK k, resp :
         /\ resp \in DirectResponses(k)
         /\ Receives(s, k) /\ Handled(s, k) /\ ~HandlePanics(k)
         /\ task' = [task EXCEPT ![s] = [Idle EXCEPT !.at = "responding", !.k = k,
                                                     !.resp = resp]]
  BY DEF HandleDirectly
<1>2. UNCHANGED <<up, reqs, holder, asked, answers, asks, late, out>>
  BY DEF HandleDirectly
<1> DEFINE t == [Idle EXCEPT !.at = "responding", !.k = k, !.resp = resp]
<1>3. t.at = "responding" /\ t.k = k /\ t.resp = resp
  BY DEF Idle
<1>4. task' = [task EXCEPT ![s] = t]
  BY <1>1
<1> HIDE DEF t
<1>5. ASSUME CameTo(reqs, k, s) PROVE Works(s, t, reqs[t.k])
  <2>1. Serves(s, reqs[k]) /\ reqs[k] \in Requests[s]
    BY <1>1, <1>5, ServesWhat DEF CameTo
  <2>2. RoomLeft(resp) /\ AnswerTo(resp, reqs[k])
    BY <1>1, <2>1, DirectAnswers
  <2> QED BY <1>3, <2>1, <2>2 DEF Works
<1> QED BY <1>1, <1>2, <1>3, <1>4, <1>5, TakesResp

LEMMA HandleWaitsResp ==
    ASSUME RespInv, Loops, NEW s \in Servers, HandleRunning(s) \/ HandleAsking(s)
    PROVE  RespInv'
<1>1. PICK k, t :
         /\ Receives(s, k) /\ Handled(s, k) /\ ~HandlePanics(k)
         /\ t.at \in {"running", "locking"} /\ t.k = k /\ t.resp = Idle.resp
         /\ task' = [task EXCEPT ![s] = t]
  <2>1. CASE HandleRunning(s)
    <3>1. PICK k :
             /\ Receives(s, k) /\ Handled(s, k) /\ ~HandlePanics(k)
             /\ task' = [task EXCEPT ![s] = [Idle EXCEPT !.at = "running", !.k = k,
                                                         !.left = Commands(k)]]
      BY <2>1 DEF HandleRunning
    <3> DEFINE n == Commands(k)
               t == [Idle EXCEPT !.at = "running", !.k = k, !.left = n]
    <3>2. task' = [task EXCEPT ![s] = t]
      BY <3>1
    <3> HIDE DEF n
    <3>3. t.at = "running" /\ t.k = k /\ t.resp = Idle.resp
      BY DEF Idle
    <3> HIDE DEF t
    <3> QED BY <3>1, <3>2, <3>3
  <2>2. CASE HandleAsking(s)
    <3>1. PICK k :
             /\ Receives(s, k) /\ Handled(s, k) /\ ~HandlePanics(k)
             /\ task' = [task EXCEPT ![s] = [Idle EXCEPT !.at = "locking", !.k = k]]
      BY <2>2 DEF HandleAsking
    <3> DEFINE t == [Idle EXCEPT !.at = "locking", !.k = k]
    <3>2. t.at = "locking" /\ t.k = k /\ t.resp = Idle.resp
      BY DEF Idle
    <3>3. task' = [task EXCEPT ![s] = t]
      BY <3>1
    <3> HIDE DEF t
    <3> QED BY <3>1, <3>2, <3>3
  <2> QED BY <2>1, <2>2
<1>2. UNCHANGED <<up, reqs, holder, asked, answers, asks, late, out>>
  BY DEF HandleRunning, HandleAsking
<1>3. RoomLeft(t.resp)
  BY <1>1, IdleWorks DEF Works
<1>4. ASSUME CameTo(reqs, k, s) PROVE Works(s, t, reqs[t.k])
  BY <1>1, <1>3, <1>4, ServesWhat DEF Works
<1> QED BY <1>1, <1>2, <1>4, TakesResp

\* What is known of the request a loop is at.
LEMMA AtRequest ==
    ASSUME RespInv, NEW s \in Servers, Active(task[s])
    PROVE  /\ CameTo(reqs, task[s].k, s) /\ reqs[task[s].k] \in Requests[s]
           /\ Works(s, task[s], reqs[task[s].k]) /\ Serves(s, reqs[task[s].k])
           /\ RoomLeft(task[s].resp)
BY DEF RespInv, Numbers, CameTo, AtWork, Works

LEMMA CommandEndsResp ==
    ASSUME RespInv, Loops, NEW s \in Servers, CommandEnds(s)
    PROVE  RespInv'
<1>1. /\ task[s].at = "running" /\ IsTask(task[s]) /\ Active(task[s])
      /\ UNCHANGED <<up, reqs, inbox, holder, asked, answers, asks, late, out>>
  BY DEF CommandEnds, Loops, Active
<1>2. PICK k : k = task[s].k
  OBVIOUS
<1>3. /\ reqs[k] \in Requests[s] /\ Serves(s, reqs[k]) /\ RoomLeft(task[s].resp)
  BY <1>1, <1>2, AtRequest
<1>4. PICK t : /\ t.k = k /\ Works(s, t, reqs[k])
               /\ task' = [task EXCEPT ![s] = t]
  <2>1. CASE task[s].left > 1
    <3> DEFINE t == [task[s] EXCEPT !.left = @ - 1]
    <3>1. t.at = "running" /\ t.k = k /\ t.resp = task[s].resp
      BY <1>1, <1>2 DEF IsTask
    <3>2. task' = [task EXCEPT ![s] = t]
      BY <2>1 DEF CommandEnds
    <3> HIDE DEF t
    <3>3. Works(s, t, reqs[k])
      BY <1>3, <3>1 DEF Works
    <3> QED BY <3>1, <3>2, <3>3
  <2>2. CASE ~(task[s].left > 1)
    <3>1. PICK resp \in DirectResponses(k) :
              task' = [task EXCEPT ![s] = [@ EXCEPT !.at = "responding", !.left = 0,
                                                    !.resp = resp]]
      BY <1>2, <2>2 DEF CommandEnds
    <3> DEFINE t == [task[s] EXCEPT !.at = "responding", !.left = 0, !.resp = resp]
    <3>2. t.at = "responding" /\ t.k = k /\ t.resp = resp
      BY <1>1, <1>2 DEF IsTask
    <3>3. task' = [task EXCEPT ![s] = t]
      BY <3>1
    <3> HIDE DEF t
    <3>4. RoomLeft(resp) /\ AnswerTo(resp, reqs[k])
      BY <1>3, DirectAnswers
    <3>5. Works(s, t, reqs[k])
      BY <1>3, <3>2, <3>4 DEF Works
    <3> QED BY <3>2, <3>3, <3>5
  <2> QED BY <2>1, <2>2
<1>5. Asking' /\ Counted'
  BY <1>1 DEF RespInv, Asking, Counted
<1> QED BY <1>1, <1>2, <1>4, <1>5, MovesResp

LEMMA AsksResp ==
    ASSUME RespInv, LagInv, NEW s \in Servers, Asks(s)
    PROVE  RespInv'
<1>1. /\ task[s].at = "locking" /\ holder = NoServer /\ Active(task[s])
      /\ IsTask(task[s]) /\ asks \in Nat /\ late \in Nat
      /\ UNCHANGED <<up, reqs, inbox, answers, late, out>>
  BY DEF Asks, LockFree, Active, LagInv, Loops, Socket
<1>2. PICK k : k = task[s].k
  OBVIOUS
<1>3. /\ CameTo(reqs, k, s) /\ Serves(s, reqs[k]) /\ RoomLeft(task[s].resp)
  BY <1>1, <1>2, AtRequest
<1>4. CASE /\ holder' = s /\ asks' = asks + 1
           /\ asked' = Append(asked, [n |-> asks + 1, k |-> task[s].k,
                                      msg |-> Question(task[s].k)])
           /\ task' = [task EXCEPT ![s].at = "waiting", ![s].n = asks + 1]
  <2> DEFINE m == Question(k)
             a == [n |-> asks + 1, k |-> k, msg |-> m]
             t == [task[s] EXCEPT !.at = "waiting", !.n = asks + 1]
  <2>1. asked' = Append(asked, a)
    BY <1>2, <1>4
  <2>2. m = QuestionFor(reqs[k])
    BY DEF Question, QuestionFor, AppOf, Req
  <2> HIDE DEF m
  <2>3. AskedFor(a, reqs)
    BY <1>3, <2>2 DEF AskedFor
  <2> HIDE DEF a
  <2>4. Asking'
    <3>1. IsSeq(asked) /\ Len(asked) \in Nat /\ DOMAIN asked = 1..Len(asked)
      BY SeqLength DEF LagInv, Socket
    <3>2. /\ IsSeq(asked') /\ Len(asked') = Len(asked) + 1
          /\ \A i \in 1..Len(asked) : asked'[i] = asked[i]
          /\ asked'[Len(asked) + 1] = a
      BY <2>1, <3>1, AppendParts
    <3>3. DOMAIN asked' = 1..Len(asked')
      BY <3>2, SeqLength
    <3>4. ASSUME NEW i \in DOMAIN asked' PROVE AskedFor(asked'[i], reqs)
      <4>1. CASE i = Len(asked) + 1
        BY <2>3, <3>2, <4>1
      <4>2. CASE i # Len(asked) + 1
        <5>1. i \in DOMAIN asked /\ asked'[i] = asked[i]
          BY <3>1, <3>2, <3>3, <3>4, <4>2
        <5> QED BY <5>1 DEF RespInv, Asking
      <4> QED BY <4>1, <4>2
    <3> QED BY <1>1, <3>4 DEF Asking
  <2>5. Counted'
    <3>1. late <= asks
      BY <1>1 DEF RespInv, Counted
    <3> QED BY <1>1, <1>4, <3>1 DEF RespInv, Counted
  <2>6. t.at = "waiting" /\ t.k = k /\ t.resp = task[s].resp
    BY <1>1, <1>2 DEF IsTask
  <2>7. task' = [task EXCEPT ![s] = t]
    BY <1>4
  <2> HIDE DEF t
  <2>8. Works(s, t, reqs[t.k])
    BY <1>3, <2>6 DEF Works
  <2> QED BY <1>1, <1>2, <2>4, <2>5, <2>6, <2>7, <2>8, MovesResp DEF LagInv
<1>5. CASE task' = [task EXCEPT ![s] = Idle] /\ UNCHANGED <<holder, asks, asked>>
  <2>1. Asking' /\ Counted'
    BY <1>1, <1>5 DEF RespInv, Asking, Counted
  <2>2. ~Active(Idle)
    BY IdleTask DEF Active
  <2> QED BY <1>1, <1>5, <2>1, <2>2, IdleWorks, MovesResp DEF LagInv
<1> QED BY <1>4, <1>5 DEF Asks

LEMMA ServiceAnswersResp ==
    ASSUME RespInv, LagInv, ServiceAnswers
    PROVE  RespInv'
<1>1. /\ asked # <<>> /\ asked' = Tail(asked)
      /\ UNCHANGED <<up, reqs, inbox, task, holder, asks, late, out>>
  BY DEF ServiceAnswers
<1>2. Numbers' /\ OnePlace'
  BY <1>1, PlacesKept DEF RespInv
<1>3. AtWork' /\ Left' /\ Counted'
  BY <1>1 DEF RespInv, AtWork, Left, Counted
<1>4. Asking'
  <2>1. IsSeq(asked) /\ Len(asked) \in Nat /\ DOMAIN asked = 1..Len(asked)
    BY SeqLength DEF LagInv, Socket
  <2>2. /\ IsSeq(asked') /\ Len(asked') = Len(asked) - 1
        /\ \A i \in 1..Len(asked') : asked'[i] = asked[i + 1]
    BY <1>1, <2>1, TailParts
  <2>3. DOMAIN asked' = 1..Len(asked')
    BY <2>2, SeqLength
  <2>4. \A i \in DOMAIN asked' : i + 1 \in DOMAIN asked /\ asked'[i] = asked[i + 1]
    BY <2>1, <2>2, <2>3
  <2> QED BY <1>1, <2>4 DEF RespInv, Asking
<1> QED BY <1>2, <1>3, <1>4 DEF RespInv

LEMMA GetsAnswerResp ==
    ASSUME RespInv, LagInv, NEW s \in Servers, GetsAnswer(s)
    PROVE  RespInv'
<1>1. /\ task[s].at = "waiting" /\ Active(task[s]) /\ IsTask(task[s])
      /\ holder' = NoServer /\ asks \in Nat /\ late \in Nat
      /\ UNCHANGED <<up, reqs, inbox, asked, asks, late, out>>
  BY DEF GetsAnswer, Active, LagInv, Loops, Socket
<1>2. PICK k : k = task[s].k
  OBVIOUS
<1>3. /\ CameTo(reqs, k, s) /\ Serves(s, reqs[k]) /\ reqs[k] \in Requests[s]
  BY <1>1, <1>2, AtRequest
<1>4. Asking'
  BY <1>1 DEF RespInv, Asking
<1>5. Counted'
  BY <1>1 DEF RespInv, Counted
<1>6. CASE AppOf(k) = TelemetryId
  <2> DEFINE resp == TelemetryResponse(Req(k))
             got == Head(answers)
             t == [task[s] EXCEPT !.at = "responding", !.got = got, !.resp = resp]
  <2>1. task' = [task EXCEPT ![s] = t]
    BY <1>2, <1>6 DEF GetsAnswer
  <2>2. RoomLeft(resp) /\ AnswerTo(resp, reqs[k])
    BY <1>3, <1>6, TelemetryAnswers
  <2> HIDE DEF resp, got
  <2>3. t.at = "responding" /\ t.k = k /\ t.resp = resp
    BY <1>1, <1>2 DEF IsTask
  <2> HIDE DEF t
  <2>4. Works(s, t, reqs[t.k])
    BY <1>3, <2>2, <2>3 DEF Works
  <2> QED BY <1>1, <1>2, <1>4, <1>5, <2>1, <2>3, <2>4, MovesResp DEF LagInv
<1>7. CASE AppOf(k) # TelemetryId
  <2>1. task' = [task EXCEPT ![s] = Idle]
    BY <1>2, <1>7 DEF GetsAnswer
  <2>2. ~Active(Idle)
    BY IdleTask DEF Active
  <2> QED BY <1>1, <1>4, <1>5, <2>1, <2>2, IdleWorks, MovesResp DEF LagInv
<1> QED BY <1>6, <1>7

LEMMA TimesOutResp ==
    ASSUME RespInv, LagInv, NEW s \in Servers, TimesOut(s)
    PROVE  RespInv'
<1>1. /\ task[s].at \in {"locking", "waiting"} /\ task' = [task EXCEPT ![s] = Idle]
      /\ asks \in Nat /\ late \in Nat
      /\ UNCHANGED <<up, reqs, inbox, asked, answers, asks, out>>
  BY DEF TimesOut, Timed, LagInv, Socket
<1>2. Asking'
  BY <1>1 DEF RespInv, Asking
<1>3. Counted'
  <2>1. CASE task[s].at = "waiting"
    <3>1. holder = s /\ holder # NoServer /\ holder' = NoServer /\ late' = late + 1
      BY <1>1, <2>1, NobodyServes DEF TimesOut, LagInv, Loops
    <3> QED BY <1>1, <3>1 DEF RespInv, Counted
  <2>2. CASE task[s].at = "locking"
    <3>1. holder # s /\ holder' = holder /\ late' = late
      BY <1>1, <2>2 DEF TimesOut, LagInv, Loops
    <3> QED BY <1>1, <3>1 DEF RespInv, Counted
  <2> QED BY <1>1, <2>1, <2>2
<1>4. ~Active(Idle)
  BY IdleTask DEF Active
<1> QED BY <1>1, <1>2, <1>3, <1>4, IdleWorks, MovesResp DEF LagInv

LEMMA AbortsResp ==
    ASSUME RespInv, LagInv, NEW s \in Servers, Aborts(s)
    PROVE  RespInv'
<1>1. /\ task' = [t \in Servers |-> Idle] /\ inbox' = [t \in Servers |-> <<>>]
      /\ up' = FALSE /\ holder' = NoServer /\ asked' = <<>>
      /\ asks \in Nat /\ late \in Nat /\ UNCHANGED <<reqs, asks, late, out>>
  BY DEF Aborts, LagInv, Socket
<1>2. Numbers' /\ OnePlace'
  BY <1>1, AbortsPlaces DEF RespInv
<1>3. AtWork'
  BY <1>1, IdleWorks DEF AtWork
<1>4. Left' /\ Asking'
  BY <1>1, EmptyIsSeq DEF RespInv, Left, Asking
<1>5. Counted'
  <2>1. late <= asks
    BY <1>1 DEF RespInv, Counted
  <2>2. late + (IF holder' = NoServer THEN 0 ELSE 1) <= asks
    BY <1>1, <2>1
  <2>3. up \in BOOLEAN
    BY DEF RespInv, Counted
  <2> QED BY <1>1, <2>2, <2>3, Zenon DEF Counted
<1> QED BY <1>2, <1>3, <1>4, <1>5 DEF RespInv

LEMMA RespondsResp ==
    ASSUME RespInv, LagInv, NEW s \in Servers, Responds(s)
    PROVE  RespInv'
<1>1. /\ task[s].at = "responding" /\ Active(task[s]) /\ Loops
      /\ task' = [task EXCEPT ![s] = Idle]
      /\ UNCHANGED <<up, reqs, inbox, holder, asked, answers, asks, late>>
  BY DEF Responds, Active, LagInv
<1>2. PICK k : k = task[s].k
  OBVIOUS
<1> DEFINE f == InsertHeader(task[s].resp, AppOf(k))
           m == [s |-> s, k |-> k, n |-> task[s].n, got |-> task[s].got, frame |-> f]
<1>3. out' = Append(out, m) \/ UNCHANGED out
  BY <1>2 DEF Responds
<1>4. Asking' /\ Counted'
  BY <1>1 DEF RespInv, Asking, Counted
<1>5. ~Active(Idle)
  BY IdleTask DEF Active
<1>6. CASE UNCHANGED out
  BY <1>1, <1>4, <1>5, <1>6, IdleWorks, MovesResp
<1>7. CASE out' = Append(out, m)
  <2>1. GoesBack(f, reqs[k])
    <3>1. /\ reqs[k] \in Requests[s] /\ Serves(s, reqs[k]) /\ RoomLeft(task[s].resp)
          /\ AnswerTo(task[s].resp, reqs[k])
      BY <1>1, <1>2, AtRequest DEF Works
    <3>2. f = InsertHeader(task[s].resp, Application(reqs[k].frame))
      BY DEF AppOf
    <3> HIDE DEF f
    <3> QED BY <3>1, <3>2, ResponseLeaves
  <2> HIDE DEF f
  <2>2. m.s = s /\ m.k = k /\ m.frame = f
    OBVIOUS
  <2> HIDE DEF m
  <2>3. Numbers' /\ OnePlace'
    BY <1>1, <1>2, <1>7, <2>2, RespondsPlaces DEF RespInv
  <2>4. AtWork'
    BY <1>1, IdleWorks, WorkKept DEF RespInv
  <2>5. Left'
    <3>1. IsSeq(out) /\ Len(out) \in Nat /\ DOMAIN out = 1..Len(out)
      BY SeqLength DEF RespInv, Numbers
    <3>2. /\ IsSeq(out') /\ Len(out') = Len(out) + 1
          /\ \A i \in 1..Len(out) : out'[i] = out[i]
          /\ out'[Len(out) + 1] = m
      BY <1>7, <3>1, AppendParts
    <3>3. DOMAIN out' = 1..Len(out')
      BY <3>2, SeqLength
    <3>4. ASSUME NEW j \in DOMAIN out' PROVE GoesBack(out'[j].frame, reqs[out'[j].k])
      <4>1. CASE j = Len(out) + 1
        BY <2>1, <2>2, <3>2, <4>1
      <4>2. CASE j # Len(out) + 1
        <5>1. j \in DOMAIN out /\ out'[j] = out[j]
          BY <3>1, <3>2, <3>3, <3>4, <4>2
        <5> QED BY <5>1 DEF RespInv, Left
      <4> QED BY <4>1, <4>2
    <3> QED BY <1>1, <3>4 DEF Left
  <2> QED BY <1>4, <2>3, <2>4, <2>5 DEF RespInv
<1> QED BY <1>3, <1>6, <1>7

LEMMA NothingMovesResp ==
    ASSUME RespInv, up' \in BOOLEAN,
           UNCHANGED <<reqs, inbox, task, holder, asked, asks, late, out>>
    PROVE  RespInv'
<1>1. Numbers' /\ OnePlace'
  BY PlacesKept DEF RespInv
<1>2. AtWork' /\ Left' /\ Asking' /\ Counted'
  BY DEF RespInv, AtWork, Left, Asking, Counted
<1> QED BY <1>1, <1>2 DEF RespInv

---------------------------------------------------------------------------
(* The theorems. *)

\* Every request is in one place: a queue, a loop, or answered.
THEOREM RespInvariant == Spec => []RespInv
<1>1. Init => RespInv
  BY InitRespInv
<1>2. LagInv /\ RespInv /\ [Next]_vars => RespInv'
  <2> SUFFICES ASSUME LagInv, RespInv, [Next]_vars PROVE RespInv'
    OBVIOUS
  <2>1. CASE UNCHANGED vars
    <3>1. up' \in BOOLEAN
      BY <2>1 DEF RespInv, Counted, vars
    <3> QED BY <2>1, <3>1, NothingMovesResp DEF vars
  <2>2. CASE ServiceAnswers
    BY <2>2, ServiceAnswersResp
  <2>3. CASE ServiceRestart
    BY <2>3, NothingMovesResp DEF ServiceRestart
  <2>4. ASSUME NEW s \in Servers, ClientSends(s) PROVE RespInv'
    BY <2>4, ClientSendsResp
  <2>5. ASSUME NEW s \in Servers, RecvDropped(s) PROVE RespInv'
    BY <2>5, RecvDroppedResp DEF LagInv
  <2>6. ASSUME NEW s \in Servers, HandleDirectly(s) PROVE RespInv'
    BY <2>6, HandleDirectlyResp DEF LagInv
  <2>7. ASSUME NEW s \in Servers, HandleAsking(s) \/ HandleRunning(s) PROVE RespInv'
    BY <2>7, HandleWaitsResp DEF LagInv
  <2>8. ASSUME NEW s \in Servers, Aborts(s) PROVE RespInv'
    BY <2>8, AbortsResp
  <2>9. ASSUME NEW s \in Servers, Asks(s) PROVE RespInv'
    BY <2>9, AsksResp
  <2>10. ASSUME NEW s \in Servers, GetsAnswer(s) PROVE RespInv'
    BY <2>10, GetsAnswerResp
  <2>11. ASSUME NEW s \in Servers, TimesOut(s) PROVE RespInv'
    BY <2>11, TimesOutResp
  <2>12. ASSUME NEW s \in Servers, CommandEnds(s) PROVE RespInv'
    BY <2>12, CommandEndsResp DEF LagInv
  <2>13. ASSUME NEW s \in Servers, Responds(s) PROVE RespInv'
    BY <2>13, RespondsResp
  <2> QED BY <2>1, <2>2, <2>3, <2>4, <2>5, <2>6, <2>7, <2>8, <2>9, <2>10, <2>11,
             <2>12, <2>13 DEF Next, Handle
<1> QED BY <1>1, <1>2, LagInvariant, PTL DEF Spec

\* No handler and no adaptor is given a frame whose length passes the bytes
\* it has, whatever requests come, and the socket's books balance: no more
\* questions and answers are under way than were asked.
THEOREM TypeCorrect == Spec => []TypeOK
<1>1. LagInv /\ RespInv => TypeOK
  <2> SUFFICES ASSUME LagInv, RespInv PROVE TypeOK
    OBVIOUS
  <2>1. /\ asks \in Nat /\ late \in Nat /\ holder \in Servers \cup {NoServer}
        /\ Len(asked) \in Nat /\ Len(answers) \in Nat
        /\ Len(asked) + Len(answers) <= late + (IF holder = NoServer THEN 0 ELSE 1)
    BY SeqLength DEF LagInv, Loops, Socket
  <2>2. up \in BOOLEAN /\ late + (IF holder = NoServer THEN 0 ELSE 1) <= asks
    BY DEF RespInv, Counted
  <2>3. late <= asks /\ Len(asked) + Len(answers) <= asks
    BY <2>1, <2>2
  <2>4. ASSUME NEW s \in Servers PROVE InBounds(task[s].resp)
    <3>1. RoomLeft(task[s].resp)
      BY DEF RespInv, AtWork, Works
    <3> QED BY <3>1 DEF RoomLeft, Frames, InBounds, StartOffset, FrameMaxLength, FrameDataLength
  <2>5. \A i \in DOMAIN out : InBounds(out[i].frame) /\ out[i].frame.off >= 0
    BY DEF RespInv, Left, GoesBack
  <2> QED BY <2>1, <2>2, <2>3, <2>4, <2>5 DEF TypeOK
<1> QED BY <1>1, LagInvariant, RespInvariant, PTL

\* Each request is answered once at most, on its own bus, by the application
\* it names, to the one who asked; an echo repeats it.  Nothing in the loops
\* pairs a response with its request but the order of their steps.
THEOREM GoBack == Spec => []ResponsesGoBack
<1>1. RespInv => ResponsesGoBack
  <2> SUFFICES ASSUME RespInv PROVE ResponsesGoBack
    OBVIOUS
  <2>1. \A i, j \in DOMAIN out : out[i].k = out[j].k => i = j
    BY DEF RespInv, OnePlace
  <2>2. ASSUME NEW i \in DOMAIN out
        PROVE  /\ reqs[out[i].k] \in Requests[out[i].s]
               /\ GoesBack(out[i].frame, reqs[out[i].k])
    BY <2>2 DEF RespInv, Numbers, CameTo, Left
  <2> QED BY <2>1, <2>2 DEF ResponsesGoBack, GoesBack, AppOf
<1> QED BY <1>1, RespInvariant, PTL

---------------------------------------------------------------------------
(* The time. *)

\* Times as the CAN adaptor hands up a broadcast (50 05, four bytes, 00 00),
\* and four bytes after the header of an ordinary request that is long
\* enough.  TimeSync::request builds another one, of eight.
TimesFit ==
    \A s \in Servers : \A q \in Requests[s] :
        /\ q.frame.flag = CanTimeBroadcast =>
              /\ q.meant \in Seq(Nat) /\ Len(q.meant) = 4
              /\ q.frame.bytes = <<80, 5>> \o q.meant \o <<0, 0>>
        /\ /\ q.frame.flag = NoFlag /\ Application(q.frame) = TimeSyncId
           /\ q.frame.len >= 6
           => /\ q.meant \in Seq(Nat) /\ Len(q.meant) = 4
              /\ q.frame.bytes = <<VersionId, TimeSyncId>> \o q.meant

LEMMA ConcatParts ==
    ASSUME NEW S, NEW s \in Seq(S), NEW t \in Seq(S)
    PROVE  /\ s \o t \in Seq(S) /\ Len(s \o t) = Len(s) + Len(t)
           /\ \A i \in 1..Len(s) : (s \o t)[i] = s[i]
           /\ \A i \in 1..Len(t) : (s \o t)[i + Len(s)] = t[i]
<1>1. s \o t \in Seq(S) /\ Len(s \o t) = Len(s) + Len(t)
  OBVIOUS
<1>2. \A i \in 1..Len(s) : (s \o t)[i] = s[i]
  OBVIOUS
<1>3. \A i \in 1..Len(t) : (s \o t)[i + Len(s)] = t[i]
  OBVIOUS
<1> QED BY <1>1, <1>2, <1>3

LEMMA FirstFour ==
    ASSUME NEW d \in Seq(Nat), Len(d) >= 4, NEW m \in Seq(Nat), Len(m) = 4,
           \A i \in 1..4 : d[i] = m[i]
    PROVE  SubSeq(d, 1, 4) = m
<1> DEFINE x == SubSeq(d, 1, 4)
<1>1. x \in Seq(Nat) /\ Len(x) = 4 /\ \A i \in 1..4 : x[i] = d[i]
  <2> DEFINE n == Len(d)
  <2>0. n \in Nat /\ n >= 4 /\ \A i \in 1..n : d[i] \in Nat
    BY LenProperties
  <2> HIDE DEF n
  <2>1. 1 \in Int /\ 4 \in Int /\ \A i \in 1..4 : d[i] \in Nat
    BY <2>0
  <2>2. /\ x \in Seq(Nat) /\ Len(x) = IF 1 <= 4 THEN 4 - 1 + 1 ELSE 0
        /\ \A i \in 1..(4 - 1 + 1) : x[i] = d[1 + i - 1]
    BY <2>1, SubSeqProperties
  <2> HIDE DEF x
  <2> QED BY <2>2
<1> HIDE DEF x
<1>2. x = [i \in 1..4 |-> x[i]] /\ m = [i \in 1..4 |-> m[i]]
  BY <1>1
<1>3. \A i \in 1..4 : x[i] = m[i]
  BY <1>1
<1>4. x = m
  BY <1>2, <1>3
<1> QED BY <1>4 DEF x

LEMMA TimeOf ==
    ASSUME TimesFit, NEW s \in Servers, NEW q \in Requests[s], Serves(s, q),
           Application(q.frame) = TimeSyncId
    PROVE  SubSeq(Data(Request(q.frame)), 1, 4) = q.meant
<1> DEFINE f == q.frame
           r == Request(f)
           m == q.meant
<1>1. /\ IsNewFrame(f) /\ Parses(f) /\ r \in Frames
      /\ ~(r.len < 4) /\ r.len \in Nat
  BY RequestKnown DEF Serves, Frames
<1> HIDE DEF f, r, m
<1>2. f \in Frames /\ f.len = Len(f.bytes) /\ f.len \in Nat /\ f.flag \in Flags
  <2>1. f \in Frames /\ f.len = Len(f.bytes)
    BY <1>1, NewFrameOK
  <2> QED BY <2>1 DEF Frames
<1>3. /\ m \in Seq(Nat) /\ Len(m) = 4 /\ Len(r.bytes) = r.len
      /\ \A i \in 1..4 : r.bytes[i] = m[i]
  <2>1. CASE f.flag = CanTimeBroadcast
    <3> DEFINE end == <<0, 0>>
               head == <<80, 5>>
               w == head \o m
    <3>1. m \in Seq(Nat) /\ Len(m) = 4 /\ f.bytes = w \o end
      BY <2>1 DEF TimesFit, f, m
    <3>2. head \in Seq(Nat) /\ Len(head) = 2 /\ end \in Seq(Nat) /\ Len(end) = 2
      OBVIOUS
    <3> HIDE DEF end, head
    <3>3. /\ w \in Seq(Nat) /\ Len(w) = Len(head) + Len(m)
          /\ \A i \in 1..Len(m) : w[i + Len(head)] = m[i]
      <4>1. m \in Seq(Nat) /\ head \in Seq(Nat)
        BY <3>1, <3>2
      <4> QED BY <4>1, ConcatParts
    <3> HIDE DEF w
    <3>4. Len(f.bytes) = 8 /\ \A i \in 1..4 : f.bytes[i + 2] = m[i]
      <4>1. Len(w) = 6 /\ \A i \in 1..4 : w[i + 2] = m[i]
        BY <3>1, <3>2, <3>3
      <4>2. Len(w \o end) = Len(w) + Len(end) /\ \A i \in 1..Len(w) : (w \o end)[i] = w[i]
        <5>1. w \in Seq(Nat) /\ end \in Seq(Nat)
          BY <3>2, <3>3
        <5> QED BY <5>1, ConcatParts
      <4> DEFINE b == w \o end
      <4>3. f.bytes = b
        BY <3>1
      <4> HIDE DEF b
      <4>4. Len(b) = 8 /\ \A i \in 1..6 : b[i] = w[i]
        <5>1. Len(end) = 2
          BY <3>2
        <5> QED BY <4>1, <4>2, <5>1 DEF b
      <4>5. \A i \in 1..4 : i + 2 \in 1..6
        OBVIOUS
      <4> QED BY <4>1, <4>3, <4>4, <4>5
    <3>5. f.len = 8 /\ \A i \in 1..4 : f.bytes[i + 2] = m[i]
      BY <1>2, <3>4
    <3>6. r.len = f.len - 2 /\ Len(r.bytes) = r.len /\ \A i \in 1..r.len : r.bytes[i] = f.bytes[i + 2]
      BY <1>1, <2>1, <3>5, RequestShape DEF r
    <3>7. r.len = 6
      BY <3>5, <3>6
    <3>8. \A i \in 1..4 : i \in 1..r.len
      BY <3>7
    <3> QED BY <3>1, <3>5, <3>6, <3>8
  <2>2. CASE f.flag = NoFlag
    <3>1. /\ f.len >= 2 /\ r.len = f.len - 2 /\ Len(r.bytes) = r.len
          /\ \A i \in 1..r.len : r.bytes[i] = f.bytes[i + 2]
      BY <1>1, <2>2, RequestShape DEF r, HeaderSize
    <3>2. f.len >= 6
      BY <1>1, <1>2, <3>1
    <3>3. m \in Seq(Nat) /\ Len(m) = 4 /\ f.bytes = <<VersionId, TimeSyncId>> \o m
      BY <2>2, <3>2 DEF TimesFit, f, m
    <3> DEFINE head == <<VersionId, TimeSyncId>>
               b == head \o m
    <3>4. head \in Seq(Nat) /\ Len(head) = 2 /\ f.bytes = b
      BY <3>3 DEF VersionId, TimeSyncId
    <3> HIDE DEF head
    <3>5. Len(f.bytes) = Len(m) + 2 /\ \A i \in 1..Len(m) : f.bytes[i + 2] = m[i]
      <4>1. Len(b) = Len(head) + Len(m) /\ \A i \in 1..Len(m) : b[i + Len(head)] = m[i]
        <5>1. m \in Seq(Nat) /\ head \in Seq(Nat)
          BY <3>3, <3>4
        <5> QED BY <5>1, ConcatParts
      <4> HIDE DEF b
      <4>2. Len(m) = 4
        BY <3>3
      <4>3. Len(head) = 2 /\ f.bytes = b
        BY <3>4
      <4> QED BY <4>1, <4>2, <4>3
    <3>6. r.len = 4
      BY <1>2, <3>1, <3>3, <3>5
    <3> QED BY <3>1, <3>3, <3>5, <3>6
  <2>3. CASE f.flag = UartTelemetry
    <3>1. Application(f) = TelemetryId
      BY <1>1, <2>3, RequestShape
    <3> QED BY <3>1 DEF TelemetryId, TimeSyncId, f
  <2> QED BY <1>2, <2>1, <2>2, <2>3 DEF Flags
<1>4. Data(r) \in Seq(Nat) /\ Len(Data(r)) = r.len /\ \A i \in 1..r.len : Data(r)[i] = r.bytes[i]
  <2> r \in Frames /\ Len(r.bytes) = r.len
    BY <1>1, <1>3
  <2> QED BY DataShape
<1>5. Len(Data(r)) >= 4 /\ \A i \in 1..4 : Data(r)[i] = m[i]
  <2>1. r.len \in Nat /\ r.len >= 4
    BY <1>1
  <2>2. \A i \in 1..4 : i \in 1..r.len
    BY <2>1
  <2> DEFINE d == Data(r)
  <2>3. Len(d) = r.len /\ \A i \in 1..r.len : d[i] = r.bytes[i]
    BY <1>4
  <2> HIDE DEF d
  <2>4. Len(d) >= 4 /\ \A i \in 1..4 : d[i] = m[i]
    BY <1>3, <2>1, <2>2, <2>3
  <2> QED BY <2>4 DEF d
<1>6. SubSeq(Data(r), 1, 4) = m
  BY <1>3, <1>4, <1>5, FirstFour
<1> QED BY <1>6 DEF r, m, f

\* TimeSync forwards the time that was meant, as long as requests carry it as
\* TimesFit says; the time TimeSync::request builds does not fit.
THEOREM TimeForwarded ==
    ASSUME TimesFit
    PROVE  Spec => []ForwardsTheTime
<1>1. RespInv => ForwardsTheTime
  <2> SUFFICES ASSUME RespInv, NEW i \in DOMAIN asked, AppOf(asked[i].k) = TimeSyncId
               PROVE  asked[i].msg = <<0, 0, 234, 97>> \o reqs[asked[i].k].meant \o <<0, 0>>
    BY DEF ForwardsTheTime
  <2> DEFINE q == reqs[asked[i].k]
  <2>1. PICK s \in Servers : q \in Requests[s] /\ Serves(s, q) /\ asked[i].msg = QuestionFor(q)
    BY DEF RespInv, Asking, AskedFor, CameTo
  <2>2. Application(q.frame) = TimeSyncId /\ TimeSyncId # TelemetryId
    BY DEF AppOf, TimeSyncId, TelemetryId
  <2>3. SubSeq(Data(Request(q.frame)), 1, 4) = q.meant
    BY <2>1, <2>2, TimeOf
  <2> QED BY <2>1, <2>2, <2>3 DEF QuestionFor
<1> QED BY <1>1, RespInvariant, PTL

=============================================================================
