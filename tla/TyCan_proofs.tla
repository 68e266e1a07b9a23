---------------------------- MODULE TyCan_proofs ----------------------------
(***************************************************************************)
(* Proofs about TyCan, for every bus, every set of requests, every kind    *)
(* and number of faults: unless a frame of no message announces a length   *)
(* that wraps, the slots never get into a state from which the receiver's  *)
(* arithmetic could fail, so that and the slot index are all that can      *)
(* panic, and without such frames a table as large as the pid never does.  *)
(***************************************************************************)
EXTENDS TyCan, FiniteSetTheorems, SequenceTheorems, TLAPS

---------------------------------------------------------------------------
(* Numbers: facts that are stated once and cited where sequences would get *)
(* in the way of the arithmetic.                                           *)

LEMMA Mod256 == \A x \in Nat : x % 256 \in 0..255
OBVIOUS

LEMMA DivMod256 ==
    \A x \in Nat : x <= 65535 => /\ x \div 256 \in 0..255
                                 /\ 256 * (x \div 256) + (x % 256) = x
OBVIOUS

LEMMA PieceCount ==
    \A l \in Nat, i \in Nat :
        i >= 1 /\ i <= (l + 8 - 1) \div 8 => 8 * (i - 1) + 1 <= l
OBVIOUS

LEMMA MarksOfByte == \A m \in 0..255 : (1..m) \subseteq (1..255)
OBVIOUS

LEMMA BoxMonotone ==
    ASSUME NEW I, NEW J, NEW i \in I, NEW K, K \subseteq J
    PROVE  {i} \X K \subseteq I \X J
OBVIOUS

---------------------------------------------------------------------------
(* The wire format. *)

\* A header of four stays in front of what is appended to it.
LEMMA PrefixOfConcat ==
    ASSUME NEW S, NEW h \in Seq(S), NEW d \in Seq(S), Len(h) = 4
    PROVE  /\ h \o d \in Seq(S)
           /\ Len(h \o d) = Len(d) + 4
           /\ (h \o d)[1] = h[1]
           /\ (h \o d)[2] = h[2]
<1>1. /\ h \o d \in Seq(S)
      /\ Len(h \o d) = Len(h) + Len(d)
      /\ \A i \in 1..(Len(h) + Len(d)) :
            (h \o d)[i] = IF i <= Len(h) THEN h[i] ELSE d[i - Len(h)]
  BY ConcatProperties
<1>2. Len(d) \in Nat
  BY LenProperties
<1>3. 1 \in 1..(Len(h) + Len(d)) /\ 2 \in 1..(Len(h) + Len(d))
  BY <1>2
<1>4. (h \o d)[1] = h[1] /\ (h \o d)[2] = h[2]
  BY <1>1, <1>3
<1> QED BY <1>1, <1>2, <1>4

LEMMA ByteOf ==
    ASSUME NEW s \in Seq(Byte), NEW i \in DOMAIN s
    PROVE  s[i] \in 0..255
<1>1. s \in [1..Len(s) -> Byte] /\ DOMAIN s = 1..Len(s)
  BY LenProperties
<1> QED BY <1>1 DEF Byte

\* get_checksum yields a byte.
LEMMA ChecksumType ==
    ASSUME NEW s \in Seq(Byte)
    PROVE  Checksum(s) \in Byte
<1> DEFINE Marks == UNION {{i} \X (1..s[i]) : i \in DOMAIN s}
           Box == (1..Len(s)) \X (1..255)
<1>1. Marks \subseteq Box
  <2>1. ASSUME NEW i \in DOMAIN s
        PROVE  {i} \X (1..s[i]) \subseteq Box
    <3>1. i \in 1..Len(s)
      BY LenProperties
    <3>2. s[i] \in 0..255
      BY ByteOf
    <3>3. (1..s[i]) \subseteq (1..255)
      BY <3>2, MarksOfByte
    <3> QED BY <3>1, <3>3, BoxMonotone
  <2> HIDE DEF Box
  <2> QED BY <2>1
<1>2. IsFiniteSet(Box)
  <2>1. Len(s) \in Int /\ 1 \in Int /\ 255 \in Int
    BY LenProperties
  <2>2. IsFiniteSet(1..Len(s)) /\ IsFiniteSet(1..255)
    BY <2>1, FS_Interval
  <2> QED BY <2>2, FS_Product
<1>3. Cardinality(Marks) \in Nat
  <2> HIDE DEF Marks, Box
  <2> QED BY <1>1, <1>2, FS_Subset, FS_CardinalityType
<1>4. Cardinality(Marks) % 256 \in 0..255
  <2> HIDE DEF Marks
  <2> QED BY <1>3, Mod256
<1> QED BY <1>4 DEF Checksum, Byte

\* A whole multi-frame message: bytes, five more than the payload, that
\* announce two more than the payload.
LEMMA MultiWireType ==
    ASSUME NEW obc \in BOOLEAN, NEW data \in Seq(Byte), Len(data) + 5 <= 65535
    PROVE  /\ MultiWire(obc, data) \in Seq(Byte)
           /\ Len(MultiWire(obc, data)) = Len(data) + 5
           /\ HdrTotal(MultiWire(obc, data)) = Len(data) + 2
<1> DEFINE total == Len(data) + 2
           hi == total \div 256
           lo == total % 256
           util == IF obc THEN MultiRequest ELSE MultiResponse
           hdr == <<hi, lo, CommandType, util>>
           b == MultiBody(obc, data)
           c == Checksum(b)
<1>1. hi \in Byte /\ lo \in Byte /\ 256 * hi + lo = total
  <2>1. total \in Nat /\ total <= 65535
    BY LenProperties
  <2> HIDE DEF total
  <2> QED BY <2>1, DivMod256, Mod256 DEF Byte
<1>2. CommandType \in Byte /\ util \in Byte
  BY DEF Byte, CommandType, MultiRequest, MultiResponse
<1>3. hdr \in Seq(Byte) /\ Len(hdr) = 4 /\ hdr[1] = hi /\ hdr[2] = lo
  <2> HIDE DEF hi, lo, util
  <2> QED BY <1>1, <1>2
<1>4. b = hdr \o data
  BY DEF MultiBody
<1>5. /\ b \in Seq(Byte)
      /\ Len(b) = Len(data) + 4
      /\ b[1] = hi /\ b[2] = lo
  <2> HIDE DEF hdr, b, hi, lo
  <2> QED BY <1>3, <1>4, PrefixOfConcat
<1>6. c \in Byte
  <2> HIDE DEF b
  <2> QED BY <1>5, ChecksumType
<1>7. MultiWire(obc, data) = Append(b, c)
  BY DEF MultiWire
<1>8. /\ Append(b, c) \in Seq(Byte)
      /\ Len(Append(b, c)) = Len(data) + 5
      /\ Append(b, c)[1] = hi /\ Append(b, c)[2] = lo
  <2> HIDE DEF b, c, hi, lo
  <2>1. Len(data) \in Nat
    BY LenProperties
  <2>2. /\ Append(b, c) \in Seq(Byte)
        /\ Len(Append(b, c)) = Len(b) + 1
        /\ \A i \in 1..Len(b) : Append(b, c)[i] = b[i]
    BY <1>5, <1>6, AppendProperties
  <2>3. 1 \in 1..Len(b) /\ 2 \in 1..Len(b)
    BY <1>5, <2>1
  <2> QED BY <1>5, <2>1, <2>2, <2>3
<1> HIDE DEF hi, lo, b, c
<1> QED BY <1>1, <1>7, <1>8 DEF HdrTotal

\* A piece of a message fits a CAN frame; the first of a long message holds
\* the whole header.
LEMMA PieceType ==
    ASSUME NEW w \in Seq(Byte), NEW i \in 1..NumPieces(w), Len(w) >= 8
    PROVE  /\ Piece(w, i) \in Seq(Byte)
           /\ Len(Piece(w, i)) <= CanFrameSize
           /\ i = 1 => HdrTotal(Piece(w, i)) = HdrTotal(w)
<1> DEFINE n == Len(w)
           lo == 8 * (i - 1) + 1
           hi == IF 8 * i < n THEN 8 * i ELSE n
<1>1. n \in Nat /\ n >= 8 /\ DOMAIN w = 1..n
  BY LenProperties
<1>2. i \in Nat /\ i >= 1 /\ i <= (n + 8 - 1) \div 8
  <2> HIDE DEF n
  <2>1. (n + 8 - 1) \div 8 \in Int
    BY <1>1
  <2>2. i \in 1..((n + 8 - 1) \div 8)
    BY DEF NumPieces, CanFrameSize, n
  <2> QED BY <2>1, <2>2
<1>3. lo <= n
  <2> HIDE DEF n
  <2> QED BY <1>1, <1>2, PieceCount
<1>4. /\ lo \in Int /\ hi \in Int
      /\ 1 <= lo /\ lo <= hi /\ hi <= n /\ hi - lo + 1 <= 8
      /\ i = 1 => lo = 1 /\ hi >= 2
  <2> HIDE DEF n
  <2> QED BY <1>1, <1>2, <1>3
<1>5. Piece(w, i) = SubSeq(w, lo, hi)
  BY DEF Piece, CanFrameSize
<1>6. /\ SubSeq(w, lo, hi) \in Seq(Byte)
      /\ Len(SubSeq(w, lo, hi)) = hi - lo + 1
      /\ \A k \in 1..(hi - lo + 1) : SubSeq(w, lo, hi)[k] = w[lo + k - 1]
  <2> HIDE DEF lo, hi, n
  <2>1. \A k \in lo..hi : w[k] \in Byte
    <3>1. \A k \in lo..hi : k \in DOMAIN w
      BY <1>1, <1>4
    <3> QED BY <3>1, ByteOf DEF Byte
  <2> QED BY <1>4, <2>1, SubSeqProperties
<1>7. ASSUME i = 1 PROVE HdrTotal(SubSeq(w, lo, hi)) = HdrTotal(w)
  <2> HIDE DEF lo, hi, n
  <2>1. 1 \in 1..(hi - lo + 1) /\ 2 \in 1..(hi - lo + 1) /\ lo = 1
    BY <1>4, <1>7
  <2>2. SubSeq(w, lo, hi)[1] = w[1] /\ SubSeq(w, lo, hi)[2] = w[2]
    BY <1>6, <2>1
  <2> QED BY <2>2 DEF HdrTotal
<1> HIDE DEF lo, hi
<1> QED BY <1>4, <1>5, <1>6, <1>7 DEF CanFrameSize

LEMMA ConcatType ==
    ASSUME NEW S, NEW a \in Seq(S), NEW b \in Seq(S)
    PROVE  a \o b \in Seq(S) /\ Len(a \o b) = Len(a) + Len(b)
BY ConcatProperties

LEMMA CanFrameType ==
    ASSUME NEW src \in Byte, NEW dest \in Byte, NEW type \in 0..15,
           NEW pid \in 0..(NPids - 1), NEW data \in Seq(Byte),
           Len(data) <= CanFrameSize
    PROVE  CanFrame(src, dest, type, pid, data) \in Frame
BY DEF CanFrame, Frame

LEMMA NodeIsByte == \A n \in Nodes : n \in Byte
BY TyCanAssumption

\* A frame alone, of a type other than First.
LEMMA OneFrame ==
    ASSUME NEW f \in Frame, f.type # MultiFirst
    PROVE  /\ <<f>> \in Seq(Frame)
           /\ \A i \in DOMAIN <<f>> : TotalSane(<<f>>[i])
<1>1. <<f>> \in Seq(Frame) /\ DOMAIN <<f>> = {1} /\ <<f>>[1] = f
  OBVIOUS
<1>2. TotalSane(f)
  BY DEF TotalSane, FirstAccepted
<1> QED BY <1>1, <1>2

LEMMA TimeFramesType ==
    ASSUME NEW req \in Request, Len(req.data) = 4
    PROVE  /\ TimeWire(req.data) \in Seq(Byte)
           /\ TimeFrames(req) \in Seq(Frame)
           /\ \A i \in DOMAIN TimeFrames(req) : TotalSane(TimeFrames(req)[i])
<1> DEFINE a == <<80, 5>>
           z == <<0, 0>>
           d == req.data
           f == CanFrame(ObcId, BroadcastId, TimeBroadcast, 0, TimeWire(d))
<1>1. d \in Seq(Byte)
  BY DEF Request
<1>2. a \in Seq(Byte) /\ Len(a) = 2 /\ z \in Seq(Byte) /\ Len(z) = 2
  BY DEF Byte
<1>3. (a \o d) \o z \in Seq(Byte) /\ Len((a \o d) \o z) = 8
  <2> HIDE DEF a, z, d
  <2>0. a \o d \in Seq(Byte) /\ Len(a \o d) = Len(a) + Len(d)
    BY <1>1, <1>2, ConcatType
  <2>1. a \o d \in Seq(Byte) /\ Len(a \o d) = 6
    BY <1>2, <2>0 DEF d
  <2> HIDE <1>1
  <2>2. (a \o d) \o z \in Seq(Byte) /\ Len((a \o d) \o z) = Len(a \o d) + Len(z)
    BY <1>2, <2>1, ConcatType
  <2> QED BY <1>2, <2>1, <2>2
<1>4. TimeWire(d) = (a \o d) \o z
  BY DEF TimeWire
<1> HIDE DEF a, z, d
<1>5. /\ ObcId \in Byte /\ BroadcastId \in Byte /\ TimeBroadcast \in 0..15
      /\ 0 \in 0..(NPids - 1)
  BY TyCanAssumption DEF ObcId, BroadcastId, TimeBroadcast, Byte
<1>6. f \in Frame
  <2>1. TimeWire(d) \in Seq(Byte) /\ Len(TimeWire(d)) <= CanFrameSize
    BY <1>3, <1>4 DEF CanFrameSize
  <2> QED BY <1>5, <2>1, CanFrameType
<1>7. f.type # MultiFirst
  BY DEF CanFrame, TimeBroadcast, MultiFirst
<1>8. TimeFrames(req) = <<f>>
  BY DEF TimeFrames, d
<1> HIDE DEF f
<1> QED BY <1>3, <1>4, <1>6, <1>7, <1>8, OneFrame DEF d

LEMMA SingleFramesType ==
    ASSUME NEW n \in Nodes, NEW pid \in 0..(NPids - 1), NEW req \in Request,
           NEW ty \in {Single, DefaultType}, Len(req.data) <= SingleMax
    PROVE  /\ SingleFrames(n, pid, req, ty) \in Seq(Frame)
           /\ \A i \in DOMAIN SingleFrames(n, pid, req, ty) :
                 TotalSane(SingleFrames(n, pid, req, ty)[i])
<1> DEFINE h == <<CommandType, IF req.obc THEN SingleRequest ELSE SingleResponse>>
           d == req.data
           f == CanFrame(n, req.dest, ty, pid, SingleWire(req.obc, d))
<1>1. d \in Seq(Byte) /\ req.dest \in Byte /\ Len(d) \in Nat
  BY LenProperties DEF Request
<1>2. h \in Seq(Byte) /\ Len(h) = 2
  BY DEF Byte, CommandType, SingleRequest, SingleResponse
<1>3. SingleWire(req.obc, d) = h \o d
  BY DEF SingleWire
<1>4. h \o d \in Seq(Byte) /\ Len(h \o d) <= CanFrameSize
  <2> HIDE DEF h
  <2>1. h \o d \in Seq(Byte) /\ Len(h \o d) = Len(h) + Len(d)
    BY <1>1, <1>2, ConcatType
  <2> QED BY <1>1, <1>2, <2>1 DEF SingleMax, CanFrameSize, SingleHdrSize
<1>5. ty \in 0..15 /\ ty # MultiFirst
  BY DEF Single, DefaultType, MultiFirst
<1> HIDE DEF h, d
<1>6. f \in Frame
  BY <1>1, <1>3, <1>4, <1>5, NodeIsByte, CanFrameType
<1>7. f.type # MultiFirst
  BY <1>5 DEF CanFrame
<1>8. SingleFrames(n, pid, req, ty) = <<f>>
  BY DEF SingleFrames, d
<1> HIDE DEF f
<1> QED BY <1>6, <1>7, <1>8, OneFrame

LEMMA MultiFramesType ==
    ASSUME NEW n \in Nodes, NEW pid \in 0..(NPids - 1), NEW req \in Request,
           Len(req.data) > SingleMax, Len(req.data) <= PayloadMax
    PROVE  /\ MultiFrames(n, pid, req) \in Seq(Frame)
           /\ \A i \in DOMAIN MultiFrames(n, pid, req) :
                 TotalSane(MultiFrames(n, pid, req)[i])
<1> DEFINE w == MultiWire(req.obc, req.data)
           ty(i) == IF i = 1 THEN MultiFirst ELSE MultiMiddle
           f(i) == CanFrame(n, req.dest, ty(i), pid, Piece(w, i))
           N == NumPieces(w)
<1>1. /\ req.obc \in BOOLEAN /\ req.data \in Seq(Byte) /\ req.dest \in Byte
      /\ Len(req.data) \in Nat /\ Len(req.data) + 5 <= 65535 /\ Len(req.data) >= 7
  BY LenProperties, TyCanAssumption
     DEF Request, MultiHdrSize, ChecksumSize, SingleMax, CanFrameSize, SingleHdrSize
<1>2. /\ w \in Seq(Byte)
      /\ Len(w) >= 8
      /\ HdrTotal(w) + 3 <= 65535
  <2>1. /\ w \in Seq(Byte) /\ Len(w) = Len(req.data) + 5
        /\ HdrTotal(w) = Len(req.data) + 2
    BY <1>1, MultiWireType
  <2> HIDE DEF w
  <2> QED BY <1>1, <2>1
<1> HIDE DEF w
<1>3. N \in Nat
  <2>1. Len(w) \in Nat
    BY <1>2, LenProperties
  <2> QED BY <2>1 DEF NumPieces, CanFrameSize
<1>4. ASSUME NEW i \in 1..N
      PROVE  f(i) \in Frame /\ TotalSane(f(i))
  <2>1. /\ Piece(w, i) \in Seq(Byte) /\ Len(Piece(w, i)) <= CanFrameSize
        /\ i = 1 => HdrTotal(Piece(w, i)) = HdrTotal(w)
    BY <1>2, PieceType
  <2>2. ty(i) \in 0..15
    BY DEF MultiFirst, MultiMiddle
  <2>3. f(i) \in Frame
    <3>1. n \in Byte
      BY NodeIsByte
    <3> DEFINE d == req.dest
               k == ty(i)
               q == Piece(w, i)
    <3>2. d \in Byte /\ k \in 0..15 /\ q \in Seq(Byte) /\ Len(q) <= CanFrameSize
      BY <1>1, <2>1, <2>2
    <3> HIDE DEF d, k, q
    <3>3. CanFrame(n, d, k, pid, q) \in Frame
      BY <3>1, <3>2, CanFrameType
    <3> QED BY <3>3 DEF d, k, q
  <2>4. f(i).type = ty(i) /\ f(i).data = Piece(w, i)
    BY DEF CanFrame
  <2>5. TotalSane(f(i))
    <3>1. CASE i = 1
      BY <1>2, <2>1, <2>4, <3>1 DEF TotalSane
    <3>2. CASE i # 1
      BY <2>4, <3>2 DEF TotalSane, FirstAccepted, MultiFirst, MultiMiddle
    <3> QED BY <3>1, <3>2
  <2> QED BY <2>3, <2>5
<1>5. MultiFrames(n, pid, req) = [i \in 1..N |-> f(i)]
  BY DEF MultiFrames, w
<1> HIDE DEF f, N
<1> QED BY <1>3, <1>4, <1>5

\* What send_using_ty_protocol writes are frames, and no length among them wraps.
LEMMA FramesOfType ==
    ASSUME NEW n \in Nodes, NEW pid \in 0..(NPids - 1), NEW req \in Request,
           NEW ty \in {Single, DefaultType}, Sendable(req)
    PROVE  /\ FramesOf(n, pid, req, ty) \in Seq(Frame)
           /\ \A i \in DOMAIN FramesOf(n, pid, req, ty) :
                 TotalSane(FramesOf(n, pid, req, ty)[i])
<1>1. CASE req.time
  BY <1>1, TimeFramesType DEF FramesOf, Sendable
<1>2. CASE ~req.time /\ Len(req.data) <= SingleMax
  BY <1>2, SingleFramesType DEF FramesOf
<1>3. CASE ~req.time /\ ~(Len(req.data) <= SingleMax)
  <2>1. Len(req.data) \in Nat
    BY LenProperties DEF Request
  <2>2. Len(req.data) > SingleMax /\ Len(req.data) <= PayloadMax
    BY <1>3, <2>1 DEF Sendable, SingleMax, CanFrameSize, SingleHdrSize
  <2> QED BY <1>3, <2>2, MultiFramesType DEF FramesOf
<1> QED BY <1>1, <1>2, <1>3

LEMMA MessageOfType ==
    ASSUME NEW n \in Nodes, NEW req \in Request, Sendable(req)
    PROVE  MessageOf(n, req) \in Msgs
<1>1. CASE req.time
  <2>1. TimeWire(req.data) \in Seq(Byte)
    BY <1>1, TimeFramesType DEF Sendable
  <2> QED BY <1>1, <2>1 DEF MessageOf, Message, Msgs, ObcId, BroadcastId, Byte
<1>2. CASE ~req.time
  BY <1>2, NodeIsByte DEF MessageOf, Message, Msgs, Request
<1> QED BY <1>1, <1>2

---------------------------------------------------------------------------
(* Slots. *)

LEMMA SlotOfType ==
    ASSUME NEW d \in Seq(Byte), NEW t \in Nat, NEW v \in BOOLEAN
    PROVE  SlotOf(d, t, v) \in SlotsOf(Byte)
BY DEF SlotOf, SlotsOf

LEMMA ResetIsEmpty == \A slot : ResetSlot(slot) = EmptySlot
BY DEF ResetSlot, EmptySlot

\* A slot between two frames.
AtRest(slot) == IsOpen(slot) \/ IsWrapped(slot)

LEMMA EmptyOK == EmptySlot \in SlotsOf(Byte) /\ IsOpen(EmptySlot) /\ AtRest(EmptySlot)
<1>1. <<>> \in Seq(Byte)
  BY EmptySeq
<1> QED BY <1>1, SlotOfType DEF EmptySlot, IsOpen, AtRest

LEMMA OpenNotWrapped ==
    ASSUME NEW slot, IsOpen(slot)
    PROVE  ~IsWrapped(slot)
<1>1. CASE slot = EmptySlot
  BY <1>1 DEF EmptySlot, SlotOf, IsWrapped
<1>2. CASE slot # EmptySlot
  <2> DEFINE total == slot.total
  <2>1. total \in 11..SlotSize
    BY <1>2 DEF IsOpen
  <2>2. IsWrapped(slot) => total \in 0..2
    BY DEF IsWrapped
  <2> HIDE DEF total
  <2>3. ~(total \in 0..2)
    BY <2>1, SlotSizeAssumption
  <2> QED BY <2>2, <2>3
<1> QED BY <1>1, <1>2

\* A First frame leaves the slot empty or open, whatever the slot held.
LEMMA OpenedOK ==
    ASSUME NEW slot, NEW data \in Seq(Byte),
           Len(data) <= CanFrameSize, NEW total \in Nat, total >= 11
    PROVE  /\ Opened(slot, data, total) \in SlotsOf(Byte)
           /\ IsOpen(Opened(slot, data, total))
<1>1. CASE ~TotalFits(total)
  BY <1>1, ResetIsEmpty, EmptyOK DEF Opened
<1>2. CASE TotalFits(total)
  <2> DEFINE open == SlotOf(<<>>, total, TRUE)
             full == SlotOf(data, total, TRUE)
  <2>1. SetTotalLen(ResetSlot(slot), total) = open
    BY DEF SetTotalLen, ResetSlot, SlotOf
  <2>2. Len(data) \in Nat /\ Len(data) <= 8
    BY LenProperties DEF CanFrameSize
  <2>3. open.data = <<>> /\ open.total = total /\ open.valid = TRUE
    BY DEF SlotOf
  <2>4. <<>> \o data = data
    BY ConcatEmptySeq, Zenon
  <2> HIDE DEF open
  <2>5. CopyFits(open, data)
    <3>1. Len(open.data) = 0
      BY <2>3
    <3> QED BY <2>2, <2>3, <3>1 DEF CopyFits
  <2>6. CopyFromSlice(open, data) = full
    BY <2>3, <2>4 DEF CopyFromSlice
  <2>7. Opened(slot, data, total) = full
    BY <1>2, <2>1, <2>5, <2>6 DEF Opened
  <2>8. full \in SlotsOf(Byte)
    BY SlotOfType
  <2>9. full.valid /\ full.total = total /\ full.data = data
    BY DEF SlotOf
  <2> HIDE DEF full
  <2>10. IsOpen(full)
    <3>1. total \in 11..SlotSize
      BY <1>2, SlotSizeAssumption DEF TotalFits
    <3>2. Len(full.data) < full.total
      BY <2>2, <2>9
    <3>3. full.total \in 11..SlotSize
      BY <2>9, <3>1
    <3> QED BY <2>9, <3>2, <3>3 DEF IsOpen
  <2> QED BY <2>7, <2>8, <2>10
<1> QED BY <1>1, <1>2

\* A First frame whose length wraps leaves the slot empty or wrapped: its own
\* header does not fit.
LEMMA OpenedWrapped ==
    ASSUME NEW slot, NEW data \in Seq(Byte), Len(data) >= 4, NEW total \in 0..2
    PROVE  /\ Opened(slot, data, total) \in SlotsOf(Byte)
           /\ AtRest(Opened(slot, data, total))
<1>1. CASE ~TotalFits(total)
  BY <1>1, ResetIsEmpty, EmptyOK DEF Opened
<1>2. CASE TotalFits(total)
  <2> DEFINE open == SlotOf(<<>>, total, TRUE)
  <2>1. SetTotalLen(ResetSlot(slot), total) = open
    BY DEF SetTotalLen, ResetSlot, SlotOf
  <2>2. open.data = <<>> /\ open.total = total /\ open.valid = TRUE
    BY DEF SlotOf
  <2>3. open \in SlotsOf(Byte)
    <3>1. <<>> \in Seq(Byte) /\ total \in Nat
      BY EmptySeq
    <3> QED BY <3>1, SlotOfType
  <2> HIDE DEF open
  <2>4. ~CopyFits(open, data)
    <3>1. Len(data) \in Nat /\ Len(open.data) = 0
      BY <2>2, LenProperties
    <3> QED BY <2>2, <3>1 DEF CopyFits
  <2>5. Opened(slot, data, total) = open
    BY <1>2, <2>1, <2>4 DEF Opened
  <2>6. IsWrapped(open)
    BY <2>2 DEF IsWrapped
  <2> QED BY <2>3, <2>5, <2>6 DEF AtRest
<1> QED BY <1>1, <1>2

\* A Middle frame that does not complete the slot leaves it open.
LEMMA PartialOK ==
    ASSUME NEW slot \in SlotsOf(Byte), NEW data \in Seq(Byte), IsOpen(slot),
           CopyFits(slot, data)
    PROVE  /\ CopyFromSlice(slot, data) \in SlotsOf(Byte)
           /\ ~IsComplete(CopyFromSlice(slot, data)) => IsOpen(CopyFromSlice(slot, data))
           /\ IsComplete(CopyFromSlice(slot, data)) => slot.total >= 11
<1> DEFINE next == CopyFromSlice(slot, data)
<1>1. /\ slot.data \in Seq(Byte) /\ slot.total \in Nat /\ slot.valid \in BOOLEAN
      /\ Len(slot.data) \in Nat /\ Len(data) \in Nat
  <2>1. slot.data \in Seq(Byte) /\ slot.total \in Nat /\ slot.valid \in BOOLEAN
    BY DEF SlotsOf
  <2> QED BY <2>1, LenProperties
<1>2. /\ slot.data \o data \in Seq(Byte)
      /\ Len(slot.data \o data) = Len(slot.data) + Len(data)
  <2> DEFINE a == slot.data
  <2>1. a \in Seq(Byte)
    BY <1>1
  <2> HIDE DEF a
  <2>2. a \o data \in Seq(Byte) /\ Len(a \o data) = Len(a) + Len(data)
    BY <2>1, ConcatType
  <2> QED BY <2>2 DEF a
<1>3. next = SlotOf(slot.data \o data, slot.total, slot.valid)
  BY DEF CopyFromSlice
<1>4. /\ next.data = slot.data \o data
      /\ next.total = slot.total
      /\ next.valid = slot.valid
  BY <1>3 DEF SlotOf
<1>5. /\ next \in SlotsOf(Byte)
      /\ Len(next.data) <= next.total
  <2>1. next \in SlotsOf(Byte)
    <3> DEFINE d == slot.data \o data
               t == slot.total
               v == slot.valid
    <3>1. d \in Seq(Byte) /\ t \in Nat /\ v \in BOOLEAN
      BY <1>1, <1>2
    <3> HIDE DEF d, t, v
    <3>2. SlotOf(d, t, v) \in SlotsOf(Byte)
      BY <3>1, SlotOfType
    <3> QED BY <1>3, <3>2 DEF d, t, v
  <2>2. Len(slot.data \o data) <= slot.total
    BY <1>2 DEF CopyFits
  <2> QED BY <1>4, <2>1, <2>2
<1> HIDE DEF next
<1>6. CASE slot = EmptySlot
  <2>1. slot.data = <<>> /\ slot.total = 0 /\ slot.valid = FALSE
    BY <1>6 DEF EmptySlot, SlotOf
  <2>2. Len(slot.data \o data) = 0
    BY <1>1, <1>2, <1>4, <1>5, <2>1
  <2>3. slot.data \o data = <<>>
    BY <1>2, <2>2, EmptySeq
  <2>4. next = EmptySlot
    BY <1>3, <2>1, <2>3 DEF EmptySlot
  <2>5. ~IsComplete(next)
    BY <1>4, <2>1 DEF IsComplete
  <2> QED BY <1>5, <2>4, <2>5, EmptyOK DEF next
<1>7. CASE slot # EmptySlot
  <2>1. slot.valid /\ slot.total \in 11..SlotSize
    BY <1>7 DEF IsOpen
  <2>2. next.valid /\ next.total \in 11..SlotSize /\ slot.total >= 11
    BY <1>4, <2>1, SlotSizeAssumption
  <2>3. Len(next.data) \in Nat /\ next.total \in Nat
    BY <1>1, <1>2, <1>4
  <2>4. ~IsComplete(next) => Len(next.data) < next.total
    BY <1>5, <2>2, <2>3 DEF IsComplete
  <2>5. ~IsComplete(next) => IsOpen(next)
    BY <2>2, <2>4 DEF IsOpen
  <2> QED BY <1>5, <2>2, <2>5 DEF next
<1> QED BY <1>6, <1>7

\* Or wrapped, if it was.
LEMMA WrappedPartialOK ==
    ASSUME NEW slot \in SlotsOf(Byte), NEW data \in Seq(Byte), IsWrapped(slot),
           CopyFits(slot, data)
    PROVE  /\ CopyFromSlice(slot, data) \in SlotsOf(Byte)
           /\ ~IsComplete(CopyFromSlice(slot, data)) => IsWrapped(CopyFromSlice(slot, data))
<1> DEFINE next == CopyFromSlice(slot, data)
           d == slot.data
           t == slot.total
           v == slot.valid
<1>1. d \in Seq(Byte) /\ t \in Nat /\ v \in BOOLEAN
  BY DEF SlotsOf
<1>2. v = TRUE /\ t \in 0..2 /\ Len(d) + Len(data) <= t
  BY <1>1 DEF IsWrapped, CopyFits
<1>3. next = SlotOf(d \o data, t, v)
  BY DEF CopyFromSlice
<1> HIDE DEF d, t, v, next
<1>4. d \o data \in Seq(Byte) /\ Len(d \o data) = Len(d) + Len(data)
  BY <1>1, ConcatType
<1>5. next \in SlotsOf(Byte)
  BY <1>1, <1>3, <1>4, SlotOfType
<1>6. next.data = d \o data /\ next.total = t /\ next.valid = TRUE
  BY <1>2, <1>3 DEF SlotOf
<1>7. ~IsComplete(next) => Len(next.data) < next.total
  <2>1. Len(next.data) \in Nat
    BY <1>4, <1>6, LenProperties
  <2> QED BY <1>2, <1>4, <1>6, <2>1 DEF IsComplete
<1>8. ~IsComplete(next) => IsWrapped(next)
  BY <1>2, <1>6, <1>7 DEF IsWrapped
<1> QED BY <1>5, <1>8 DEF next

---------------------------------------------------------------------------
(* The invariant in the parts the actions touch. *)

\* A frame on its way to a receiver: of a message, or noise.
MayCross(f) == TotalSane(f) \/ f \in Noise

RxOK == /\ rx \in [Receivers -> Seq(Frame)]
        /\ \A r \in Receivers : \A i \in DOMAIN rx[r] : MayCross(rx[r][i])

FramesOK(j) == \A i \in DOMAIN j.frames : TotalSane(j.frames[i])

JobsOK == /\ job \in [Nodes -> [Tasks -> Jobs]]
          /\ \A n \in Nodes, t \in Tasks : FramesOK(job[n][t])

SlotsOK == /\ slotMap \in [Receivers -> [0..(NSlots - 1) -> SlotsOf(Byte)]]
           /\ SlotsOpen

ControlOK == /\ up \in [Nodes -> BOOLEAN]
             /\ idCounter \in [Nodes -> 0..(NPids - 1)]
             /\ spent \in [sends : 0..MaxSends, faults : 0..MaxFaults]

SendHistoryOK == /\ sent \in [Nodes -> [Tasks -> Seq(Msgs)]]
                 /\ acked \in [Nodes -> [Tasks -> Seq(Msgs)]]

GotOK == got \in [Receivers -> Seq(Msgs)]

LEMMA Parts ==
    SlotInv <=> RxOK /\ JobsOK /\ SlotsOK /\ ControlOK /\ SendHistoryOK /\ GotOK
BY DEF SlotInv, TypeOK, TotalsSane, RxOK, MayCross, JobsOK, FramesOK, SlotsOK, ControlOK,
       SendHistoryOK, GotOK

LEMMA PartsNext ==
    ASSUME RxOK', JobsOK', SlotsOK', ControlOK', SendHistoryOK', GotOK'
    PROVE  SlotInv'
BY DEF SlotInv, TypeOK, TotalsSane, RxOK, MayCross, JobsOK, FramesOK, SlotsOK, ControlOK,
       SendHistoryOK, GotOK

LEMMA ReceiverIsNode == \A r \in Receivers : r \in Nodes
BY DEF Receivers

\* Every frame put on the bus keeps the queues well formed.
LEMMA BroadcastOK ==
    ASSUME RxOK, NEW f \in Frame, MayCross(f), NEW missed, rx' = Broadcast(f, missed)
    PROVE  RxOK'
<1>1. ASSUME NEW r \in Receivers
      PROVE  /\ rx'[r] \in Seq(Frame)
             /\ \A i \in DOMAIN rx'[r] : MayCross(rx'[r][i])
  <2> DEFINE q == rx[r]
  <2>1. q \in Seq(Frame) /\ \A i \in DOMAIN q : MayCross(q[i])
    BY DEF RxOK
  <2>2. rx'[r] = q \/ rx'[r] = Append(q, f)
    BY DEF Broadcast
  <2>3. DOMAIN q = 1..Len(q) /\ Len(q) \in Nat
    BY <2>1, LenProperties
  <2> HIDE DEF q
  <2>4. /\ Append(q, f) \in Seq(Frame)
        /\ Len(Append(q, f)) = Len(q) + 1
        /\ \A i \in 1..Len(q) : Append(q, f)[i] = q[i]
        /\ Append(q, f)[Len(q) + 1] = f
    BY <2>1, AppendProperties
  <2>5. DOMAIN Append(q, f) = 1..(Len(q) + 1)
    BY <2>4, LenProperties
  <2>6. \A i \in 1..(Len(q) + 1) : i \in 1..Len(q) \/ i = Len(q) + 1
    BY <2>3
  <2>7. \A i \in DOMAIN Append(q, f) : MayCross(Append(q, f)[i])
    BY <2>1, <2>3, <2>4, <2>5, <2>6
  <2> QED BY <2>1, <2>2, <2>4, <2>7
<1>2. rx' = [r \in Receivers |-> rx'[r]]
  BY DEF Broadcast
<1> QED BY <1>1, <1>2 DEF RxOK

LEMMA HeadOK ==
    ASSUME RxOK, NEW r \in Receivers, Reading(r)
    PROVE  Head(rx[r]) \in Frame /\ MayCross(Head(rx[r]))
<1> DEFINE q == rx[r]
<1>1. q \in Seq(Frame) /\ q # <<>> /\ \A i \in DOMAIN q : MayCross(q[i])
  BY DEF RxOK, Reading
<1> HIDE DEF q
<1>2. Head(q) \in Frame
  BY <1>1, HeadTailProperties
<1>3. Head(q) = q[1] /\ 1 \in DOMAIN q
  BY <1>1
<1> QED BY <1>1, <1>2, <1>3 DEF q

LEMMA TakeOK ==
    ASSUME RxOK, NEW r \in Receivers, Reading(r), Take(r)
    PROVE  RxOK'
<1> DEFINE q == rx[r]
<1>1. q \in Seq(Frame) /\ q # <<>> /\ \A i \in DOMAIN q : MayCross(q[i])
  BY DEF RxOK, Reading
<1>2. rx' = [rx EXCEPT ![r] = Tail(q)]
  BY DEF Take
<1>3. /\ Tail(q) \in Seq(Frame)
      /\ \A i \in DOMAIN Tail(q) : MayCross(Tail(q)[i])
  <2> HIDE DEF q
  <2>1. /\ Tail(q) \in Seq(Frame)
        /\ Len(Tail(q)) = Len(q) - 1
        /\ \A i \in 1..Len(Tail(q)) : Tail(q)[i] = q[i + 1]
    BY <1>1, HeadTailProperties
  <2>2. Len(q) \in Nat /\ DOMAIN q = 1..Len(q) /\ DOMAIN Tail(q) = 1..Len(Tail(q))
    BY <1>1, <2>1, LenProperties
  <2>3. \A i \in 1..(Len(q) - 1) : i + 1 \in 1..Len(q)
    BY <2>2
  <2> QED BY <1>1, <2>1, <2>2, <2>3
<1> HIDE DEF q
<1> QED BY <1>2, <1>3 DEF RxOK

LEMMA SetSlotOK ==
    ASSUME SlotsOK, NEW r \in Receivers, NEW p \in 0..(NSlots - 1),
           NEW slot \in SlotsOf(Byte), AtRest(slot), SetSlot(r, p, slot)
    PROVE  SlotsOK'
<1>1. slotMap' = [slotMap EXCEPT ![r][p] = slot]
  BY DEF SetSlot
<1>2. slotMap \in [Receivers -> [0..(NSlots - 1) -> SlotsOf(Byte)]]
  BY DEF SlotsOK
<1>3. slotMap' \in [Receivers -> [0..(NSlots - 1) -> SlotsOf(Byte)]]
  BY <1>1, <1>2
<1>4. \A s \in Receivers, q \in 0..(NSlots - 1) :
         slotMap'[s][q] = IF s = r /\ q = p THEN slot ELSE slotMap[s][q]
  BY <1>1, <1>2
<1>5. SlotsOpen'
  BY <1>4 DEF SlotsOK, SlotsOpen, AtRest
<1> QED BY <1>3, <1>5 DEF SlotsOK

LEMMA SetJobOK ==
    ASSUME JobsOK, NEW n \in Nodes, NEW t \in Tasks, NEW j \in Jobs, FramesOK(j),
           job' = [job EXCEPT ![n][t] = j]
    PROVE  JobsOK'
<1>1. job \in [Nodes -> [Tasks -> Jobs]]
  BY DEF JobsOK
<1>2. job' \in [Nodes -> [Tasks -> Jobs]]
  BY <1>1
<1>3. \A m \in Nodes, u \in Tasks :
         job'[m][u] = IF m = n /\ u = t THEN j ELSE job[m][u]
  BY <1>1
<1>4. \A m \in Nodes, u \in Tasks : FramesOK(job'[m][u])
  BY <1>3 DEF JobsOK
<1> QED BY <1>2, <1>4 DEF JobsOK

\* A send begins: task t is in it, the others are overtaken.
LEMMA BeginsOK ==
    ASSUME JobsOK, NEW n \in Nodes, NEW t \in Tasks, NEW j \in Jobs, FramesOK(j),
           Begins(n, t, j),
           \A u \in Tasks : Overtaken(job[n][u]).since <= MaxOvertakes
    PROVE  JobsOK'
<1> DEFINE After(u) == IF u = t THEN j ELSE Overtaken(job[n][u])
<1>1. job \in [Nodes -> [Tasks -> Jobs]]
  BY DEF JobsOK
<1>2. ASSUME NEW u \in Tasks PROVE Overtaken(job[n][u]) \in Jobs /\ FramesOK(Overtaken(job[n][u]))
  <2> DEFINE k == job[n][u]
  <2>1. k \in Jobs /\ FramesOK(k)
    BY <1>1 DEF JobsOK
  <2>2. CASE k.frames = <<>>
    BY <2>1, <2>2 DEF Overtaken
  <2>3. CASE k.frames # <<>>
    <3>1. Overtaken(k) = [k EXCEPT !.since = k.since + 1]
      BY <2>3 DEF Overtaken
    <3>2. k.since \in 0..MaxOvertakes /\ Overtaken(k).since <= MaxOvertakes
      BY <2>1 DEF Jobs
    <3>3. Overtaken(k).since = k.since + 1
      BY <2>1, <3>1 DEF Jobs
    <3>4. k.since + 1 \in 0..MaxOvertakes
      BY <3>2, <3>3, TyCanAssumption
    <3> QED BY <2>1, <3>1, <3>4 DEF Jobs, FramesOK
  <2> QED BY <2>2, <2>3
<1>3. \A u \in Tasks : After(u) \in Jobs /\ FramesOK(After(u))
  BY <1>2
<1>4. job' = [job EXCEPT ![n] = [u \in Tasks |-> After(u)]]
  BY DEF Begins
<1> HIDE DEF After
<1> DEFINE row == [u \in Tasks |-> After(u)]
<1>5. row \in [Tasks -> Jobs] /\ \A u \in Tasks : row[u] = After(u)
  BY <1>3
<1>6. job' = [job EXCEPT ![n] = row]
  BY <1>4
<1> HIDE DEF row
<1>7. job' \in [Nodes -> [Tasks -> Jobs]]
  BY <1>1, <1>5, <1>6
<1>8. \A m \in Nodes : job'[m] = IF m = n THEN row ELSE job[m]
  BY <1>1, <1>6
<1>9. \A m \in Nodes, u \in Tasks : FramesOK(job'[m][u])
  BY <1>3, <1>5, <1>8 DEF JobsOK
<1> QED BY <1>7, <1>9 DEF JobsOK

LEMMA JobBegin ==
    ASSUME NEW j \in Jobs, NEW fs \in Seq(Frame), NEW m \in Msgs
    PROVE  /\ [j EXCEPT !.frames = fs, !.msg = m] \in Jobs
           /\ [j EXCEPT !.frames = fs, !.msg = m].frames = fs
BY DEF Jobs

LEMMA JobAdvance ==
    ASSUME NEW j \in Jobs, NEW fs \in Seq(Frame)
    PROVE  [j EXCEPT !.frames = fs] \in Jobs /\ [j EXCEPT !.frames = fs].frames = fs
BY DEF Jobs

LEMMA JobRetry ==
    ASSUME NEW j \in Jobs
    PROVE  /\ [j EXCEPT !.retried = TRUE] \in Jobs
           /\ [j EXCEPT !.retried = TRUE].frames = j.frames
BY DEF Jobs

LEMMA IdleOK == Idle \in Jobs /\ FramesOK(Idle)
<1>1. <<>> \in Seq(Frame) /\ <<>> \in Seq(Byte) /\ DOMAIN <<>> = {}
  BY EmptySeq
<1>2. 0 \in 0..MaxOvertakes
  BY TyCanAssumption
<1> QED BY <1>1, <1>2 DEF Idle, Jobs, NoMessage, Message, Msgs, FramesOK, Byte

LEMMA HandUpOK ==
    ASSUME GotOK, NEW r \in Receivers, NEW f \in Frame, NEW data \in Seq(Byte),
           HandUp(r, f, data)
    PROVE  GotOK'
<1> DEFINE m == Message(f.src, f.dest, data, f.type = TimeBroadcast)
<1>1. m \in Msgs
  BY DEF Frame, Message, Msgs
<1>2. got' = [got EXCEPT ![r] = Append(got[r], m)]
  BY DEF HandUp
<1> HIDE DEF m
<1>3. got[r] \in Seq(Msgs)
  BY DEF GotOK
<1>4. Append(got[r], m) \in Seq(Msgs)
  BY <1>1, <1>3, AppendProperties
<1> QED BY <1>2, <1>4 DEF GotOK

\* A table of two indices that changed at one entry, or not at all.
LEMMA TableUpdate ==
    ASSUME NEW S, NEW h \in [Nodes -> [Tasks -> S]], NEW n \in Nodes, NEW t \in Tasks,
           NEW s \in S, NEW g, g = h \/ g = [h EXCEPT ![n][t] = s]
    PROVE  g \in [Nodes -> [Tasks -> S]]
<1>1. [h EXCEPT ![n][t] = s] \in [Nodes -> [Tasks -> S]]
  OBVIOUS
<1> QED BY <1>1

LEMMA ReceiverIndex ==
    ASSUME NEW f \in Frame, ~(f.pid >= NSlots)
    PROVE  f.pid \in 0..(NSlots - 1)
<1>1. f.pid \in 0..(NPids - 1) /\ NSlots \in Nat
  BY TyCanAssumption DEF Frame
<1> QED BY <1>1

---------------------------------------------------------------------------
(* The invariant holds initially and under every action. *)

LEMMA InitOK == Init => SlotInv
<1> SUFFICES ASSUME Init PROVE SlotInv
  OBVIOUS
<1>1. NPids \in Nat \ {0} /\ NSlots \in Nat /\ MaxSends \in Nat /\ MaxFaults \in Nat
  BY TyCanAssumption
<1>2. RxOK
  <2>1. <<>> \in Seq(Frame) /\ DOMAIN <<>> = {}
    BY EmptySeq
  <2>2. rx = [r \in Receivers |-> <<>>]
    BY DEF Init
  <2> QED BY <2>1, <2>2 DEF RxOK
<1>3. JobsOK
  <2>1. job = [n \in Nodes |-> [t \in Tasks |-> Idle]]
    BY DEF Init
  <2> QED BY <2>1, IdleOK DEF JobsOK
<1>4. SlotsOK
  <2>1. slotMap = [r \in Receivers |-> [p \in 0..(NSlots - 1) |-> EmptySlot]]
    BY DEF Init, EmptySlots
  <2> QED BY <2>1, EmptyOK DEF SlotsOK, SlotsOpen
<1>5. ControlOK
  BY <1>1 DEF Init, ControlOK
<1>6. SendHistoryOK /\ GotOK
  <2>1. <<>> \in Seq(Msgs)
    BY EmptySeq
  <2> QED BY <2>1 DEF Init, SendHistoryOK, GotOK
<1> QED BY <1>2, <1>3, <1>4, <1>5, <1>6, Parts

LEMMA FetchAddOK ==
    ASSUME NEW n \in Nodes, idCounter \in [Nodes -> 0..(NPids - 1)], FetchAddId(n)
    PROVE  idCounter' \in [Nodes -> 0..(NPids - 1)]
<1>1. \A x \in Nat : (x + 1) % NPids \in 0..(NPids - 1)
  BY TyCanAssumption
<1>2. idCounter[n] \in Nat
  BY TyCanAssumption
<1>3. (idCounter[n] + 1) % NPids \in 0..(NPids - 1)
  BY <1>1, <1>2
<1>4. idCounter' = [idCounter EXCEPT ![n] = (idCounter[n] + 1) % NPids]
  BY DEF FetchAddId
<1> QED BY <1>3, <1>4

LEMMA SendOK ==
    ASSUME SlotInv, NEW n \in Nodes, NEW t \in Tasks, Send(n, t)
    PROVE  SlotInv'
<1>1. RxOK /\ JobsOK /\ SlotsOK /\ ControlOK /\ SendHistoryOK /\ GotOK
  BY Parts
<1>2. RxOK' /\ SlotsOK' /\ GotOK'
  BY <1>1 DEF Send, RxOK, SlotsOK, SlotsOpen, GotOK
<1>3. ControlOK'
  <2>1. up' = up /\ FetchAddId(n) /\ spent' = [spent EXCEPT !.sends = spent.sends + 1]
        /\ spent.sends < MaxSends
    BY DEF Send
  <2>2. spent' \in [sends : 0..MaxSends, faults : 0..MaxFaults]
    BY <1>1, <2>1, TyCanAssumption DEF ControlOK
  <2>3. idCounter' \in [Nodes -> 0..(NPids - 1)]
    BY <1>1, <2>1, FetchAddOK DEF ControlOK
  <2> QED BY <1>1, <2>1, <2>2, <2>3 DEF ControlOK
<1>4. PICK req \in Requests[n][t] :
          IF Sendable(req)
          THEN /\ Begins(n, t, [Idle EXCEPT
                      !.frames = FramesOf(n, idCounter[n], req, SingleType(n)),
                      !.msg = MessageOf(n, req)])
               /\ sent' = IF Deliverable(req)
                          THEN [sent EXCEPT ![n][t] = Append(@, MessageOf(n, req))]
                          ELSE sent
          ELSE Begins(n, t, Idle) /\ UNCHANGED sent
  BY DEF Send
<1>5. req \in Request
  BY TyCanAssumption
<1>6. acked' = acked /\ \A u \in Tasks : Overtaken(job[n][u]).since <= MaxOvertakes
  BY DEF Send
<1>7. CASE ~Sendable(req)
  <2>1. Begins(n, t, Idle) /\ sent' = sent
    BY <1>4, <1>7
  <2>2. JobsOK'
    BY <1>1, <1>6, <2>1, IdleOK, BeginsOK
  <2> QED BY <1>1, <1>2, <1>3, <1>6, <2>1, <2>2, PartsNext DEF SendHistoryOK
<1>8. CASE Sendable(req)
  <2> DEFINE fs == FramesOf(n, idCounter[n], req, SingleType(n))
             m == MessageOf(n, req)
             j == [Idle EXCEPT !.frames = fs, !.msg = m]
  <2>1. idCounter[n] \in 0..(NPids - 1) /\ SingleType(n) \in {Single, DefaultType}
    BY <1>1 DEF ControlOK, SingleType
  <2>2. fs \in Seq(Frame) /\ \A i \in DOMAIN fs : TotalSane(fs[i])
    BY <1>5, <1>8, <2>1, FramesOfType
  <2>3. m \in Msgs
    BY <1>5, <1>8, MessageOfType
  <2>4. /\ Begins(n, t, j)
        /\ sent' = sent \/ sent' = [sent EXCEPT ![n][t] = Append(sent[n][t], m)]
    BY <1>4, <1>8
  <2> HIDE DEF fs, m
  <2>5. j \in Jobs /\ FramesOK(j)
    BY <2>2, <2>3, IdleOK, JobBegin DEF FramesOK
  <2> HIDE DEF j
  <2>6. JobsOK'
    BY <1>1, <1>6, <2>4, <2>5, BeginsOK
  <2>7. SendHistoryOK'
    <3>1. sent[n][t] \in Seq(Msgs)
      BY <1>1 DEF SendHistoryOK
    <3>2. Append(sent[n][t], m) \in Seq(Msgs)
      BY <2>3, <3>1, AppendProperties
    <3> DEFINE s == Append(sent[n][t], m)
    <3>3. s \in Seq(Msgs) /\ (sent' = sent \/ sent' = [sent EXCEPT ![n][t] = s])
      BY <2>4, <3>2
    <3> HIDE DEF s
    <3>4. sent \in [Nodes -> [Tasks -> Seq(Msgs)]]
      BY <1>1 DEF SendHistoryOK
    <3>5. sent' \in [Nodes -> [Tasks -> Seq(Msgs)]]
      BY <3>3, <3>4, TableUpdate
    <3> QED BY <1>1, <1>6, <3>5 DEF SendHistoryOK
  <2> QED BY <1>2, <1>3, <2>6, <2>7, PartsNext
<1> QED BY <1>7, <1>8

LEMMA FaultOK ==
    ASSUME ControlOK, NEW kind, Fault(kind)
    PROVE  spent' \in [sends : 0..MaxSends, faults : 0..MaxFaults]
BY TyCanAssumption DEF ControlOK, Fault

\* The frame a task writes next.
LEMMA WritingOK ==
    ASSUME JobsOK, NEW n \in Nodes, NEW t \in Tasks, Writing(n, t)
    PROVE  /\ Head(job[n][t].frames) \in Frame
           /\ TotalSane(Head(job[n][t].frames))
           /\ Tail(job[n][t].frames) \in Seq(Frame)
           /\ \A i \in DOMAIN Tail(job[n][t].frames) :
                 TotalSane(Tail(job[n][t].frames)[i])
<1> DEFINE q == job[n][t].frames
<1>1. q \in Seq(Frame) /\ q # <<>> /\ \A i \in DOMAIN q : TotalSane(q[i])
  BY DEF JobsOK, Jobs, FramesOK, Writing
<1> HIDE DEF q
<1>2. /\ Head(q) \in Frame
      /\ Tail(q) \in Seq(Frame)
      /\ Len(Tail(q)) = Len(q) - 1
      /\ \A i \in 1..Len(Tail(q)) : Tail(q)[i] = q[i + 1]
  BY <1>1, HeadTailProperties
<1>3. Len(q) \in Nat /\ DOMAIN q = 1..Len(q) /\ DOMAIN Tail(q) = 1..Len(Tail(q))
  BY <1>1, <1>2, LenProperties
<1>4. Head(q) = q[1] /\ 1 \in DOMAIN q
  BY <1>1
<1>5. \A i \in 1..(Len(q) - 1) : i + 1 \in 1..Len(q)
  BY <1>3
<1>6. \A i \in DOMAIN Tail(q) : TotalSane(Tail(q)[i])
  BY <1>1, <1>2, <1>3, <1>5
<1> QED BY <1>1, <1>2, <1>4, <1>6 DEF q

LEMMA WriteOkOK ==
    ASSUME SlotInv, NEW n \in Nodes, NEW t \in Tasks, WriteOk(n, t)
    PROVE  SlotInv'
<1> DEFINE j == job[n][t]
           f == Head(j.frames)
           next == [j EXCEPT !.frames = Tail(j.frames)]
<1>1. RxOK /\ JobsOK /\ SlotsOK /\ ControlOK /\ SendHistoryOK /\ GotOK
  BY Parts
<1>2. SlotsOK' /\ GotOK' /\ up' = up /\ idCounter' = idCounter /\ sent' = sent
  BY <1>1 DEF WriteOk, SlotsOK, SlotsOpen, GotOK
<1>3. Writing(n, t)
  BY DEF WriteOk
<1>4. /\ f \in Frame /\ MayCross(f) /\ Tail(j.frames) \in Seq(Frame)
      /\ \A i \in DOMAIN Tail(j.frames) : TotalSane(Tail(j.frames)[i])
  BY <1>1, <1>3, WritingOK DEF MayCross
<1>5. j \in Jobs
  BY <1>1 DEF JobsOK
<1>6. RxOK' /\ ControlOK'
  <2>1. CASE rx' = Broadcast(f, {}) /\ UNCHANGED spent
    <3> HIDE DEF f
    <3> QED BY <1>1, <1>2, <1>4, <2>1, BroadcastOK DEF ControlOK
  <2>2. CASE Fault("loss") /\ \E missed \in SUBSET Receivers \ {{}} :
                                 rx' = Broadcast(f, missed)
    <3> HIDE DEF f
    <3>1. RxOK'
      BY <1>1, <1>4, <2>2, BroadcastOK
    <3>2. ControlOK'
      BY <1>1, <1>2, <2>2, FaultOK DEF ControlOK
    <3> QED BY <3>1, <3>2
  <2> QED BY <2>1, <2>2 DEF WriteOk
<1>7. JobsOK'
  <2>2. \/ job' = [job EXCEPT ![n][t] = Idle]
        \/ job' = [job EXCEPT ![n][t] = next]
    <3>1. job' = [job EXCEPT ![n][t] =
                     IF Len(j.frames) = 1 THEN Idle
                     ELSE [j EXCEPT !.frames = Tail(j.frames)]]
      BY DEF WriteOk
    <3> QED BY <3>1
  <2>3. next \in Jobs /\ FramesOK(next)
    <3> DEFINE fs == Tail(j.frames)
    <3>1. fs \in Seq(Frame) /\ \A i \in DOMAIN fs : TotalSane(fs[i])
      BY <1>4
    <3> HIDE DEF fs, j
    <3>2. [j EXCEPT !.frames = fs] \in Jobs /\ [j EXCEPT !.frames = fs].frames = fs
      BY <1>5, <3>1, JobAdvance
    <3> QED BY <3>1, <3>2 DEF FramesOK, fs
  <2> HIDE DEF next
  <2> QED BY <1>1, <2>2, <2>3, IdleOK, SetJobOK
<1>8. SendHistoryOK'
  <2> DEFINE s == Append(acked[n][t], j.msg)
  <2>1. acked \in [Nodes -> [Tasks -> Seq(Msgs)]] /\ acked[n][t] \in Seq(Msgs)
    BY <1>1 DEF SendHistoryOK
  <2>2. j.msg \in Msgs
    BY <1>5 DEF Jobs
  <2>3. s \in Seq(Msgs)
    BY <2>1, <2>2, AppendProperties
  <2>4. acked' = acked \/ acked' = [acked EXCEPT ![n][t] = s]
    BY DEF WriteOk
  <2> HIDE DEF s
  <2>5. acked' \in [Nodes -> [Tasks -> Seq(Msgs)]]
    BY <2>1, <2>3, <2>4, TableUpdate
  <2> QED BY <1>1, <1>2, <2>5 DEF SendHistoryOK
<1> QED BY <1>2, <1>6, <1>7, <1>8, PartsNext

LEMMA WriteFailsOK ==
    ASSUME SlotInv, NEW n \in Nodes, NEW t \in Tasks,
           FirstFails(n, t) \/ SendFails(n, t)
    PROVE  SlotInv'
<1> DEFINE j == job[n][t]
           f == Head(j.frames)
           again == [j EXCEPT !.retried = TRUE]
<1>1. RxOK /\ JobsOK /\ SlotsOK /\ ControlOK /\ SendHistoryOK /\ GotOK
  BY Parts
<1>2. WriteFault(n, t)
  BY DEF FirstFails, SendFails
<1>3. /\ SlotsOK' /\ GotOK' /\ SendHistoryOK'
      /\ up' = up /\ idCounter' = idCounter
      /\ Writing(n, t) /\ Fault("error")
      /\ rx' = rx \/ rx' = Broadcast(f, {})
  BY <1>1, <1>2 DEF WriteFault, SlotsOK, SlotsOpen, GotOK, SendHistoryOK
<1>4. f \in Frame /\ MayCross(f)
  BY <1>1, <1>3, WritingOK DEF MayCross
<1>5. RxOK'
  <2>1. CASE rx' = rx
    BY <1>1, <2>1 DEF RxOK
  <2>2. CASE rx' = Broadcast(f, {})
    <3> HIDE DEF f
    <3> QED BY <1>1, <1>4, <2>2, BroadcastOK
  <2> QED BY <1>3, <2>1, <2>2
<1>6. ControlOK'
  BY <1>1, <1>3, FaultOK DEF ControlOK
<1>7. j \in Jobs /\ FramesOK(j) /\ job \in [Nodes -> [Tasks -> Jobs]]
  BY <1>1 DEF JobsOK
<1>8. JobsOK'
  <2>1. CASE job' = [job EXCEPT ![n][t] = [@ EXCEPT !.retried = TRUE]]
    <3>1. again \in Jobs /\ FramesOK(again)
      <4> HIDE DEF j
      <4> QED BY <1>7, JobRetry DEF FramesOK
    <3>2. job' = [job EXCEPT ![n][t] = again]
      BY <2>1
    <3> HIDE DEF again
    <3> QED BY <1>1, <3>1, <3>2, SetJobOK
  <2>2. CASE job' = [job EXCEPT ![n][t] = Idle]
    BY <1>1, <2>2, IdleOK, SetJobOK
  <2> QED BY <2>1, <2>2 DEF FirstFails, SendFails
<1> QED BY <1>3, <1>5, <1>6, <1>8, PartsNext

LEMMA NoiseOK ==
    ASSUME SlotInv, NoiseOnBus
    PROVE  SlotInv'
<1>1. RxOK /\ JobsOK /\ SlotsOK /\ ControlOK /\ SendHistoryOK /\ GotOK
  BY Parts
<1>2. /\ JobsOK' /\ SlotsOK' /\ SendHistoryOK' /\ GotOK'
      /\ up' = up /\ idCounter' = idCounter
      /\ Fault("noise")
  BY <1>1 DEF NoiseOnBus, JobsOK, SlotsOK, SlotsOpen, SendHistoryOK, GotOK
<1>3. PICK f \in Noise : rx' = Broadcast(f, {})
  BY DEF NoiseOnBus
<1>4. f \in Frame /\ MayCross(f)
  BY TyCanAssumption DEF MayCross
<1>5. RxOK'
  BY <1>1, <1>3, <1>4, BroadcastOK
<1>6. ControlOK'
  BY <1>1, <1>2, FaultOK DEF ControlOK
<1> QED BY <1>2, <1>5, <1>6, PartsNext

\* What every action that reads a frame keeps.
LEMMA ReadOK ==
    ASSUME SlotInv, NEW r \in Receivers, Reading(r), Take(r),
           UNCHANGED <<up, job, sent, acked, spent>>
    PROVE  /\ RxOK' /\ JobsOK' /\ SendHistoryOK'
           /\ up' \in [Nodes -> BOOLEAN]
           /\ spent' \in [sends : 0..MaxSends, faults : 0..MaxFaults]
           /\ Head(rx[r]) \in Frame /\ MayCross(Head(rx[r]))
           /\ SlotsOK /\ GotOK /\ ControlOK
<1>1. RxOK /\ JobsOK /\ SlotsOK /\ ControlOK /\ SendHistoryOK /\ GotOK
  BY Parts
<1>2. RxOK' /\ Head(rx[r]) \in Frame /\ MayCross(Head(rx[r]))
  BY <1>1, TakeOK, HeadOK
<1>3. JobsOK' /\ SendHistoryOK'
  BY <1>1 DEF JobsOK, SendHistoryOK
<1>4. up' \in [Nodes -> BOOLEAN]
      /\ spent' \in [sends : 0..MaxSends, faults : 0..MaxFaults]
  BY <1>1 DEF ControlOK
<1> QED BY <1>1, <1>2, <1>3, <1>4

LEMMA RecvResetOK ==
    ASSUME SlotInv, NEW r \in Receivers, RecvReset(r)
    PROVE  SlotInv'
<1>1. /\ Reading(r) /\ Take(r) /\ UNCHANGED <<up, job, sent, acked, spent>>
      /\ UNCHANGED <<slotMap, got>>
      /\ idCounter' = [idCounter EXCEPT ![r] = 0]
  BY DEF RecvReset
<1>2. /\ RxOK' /\ JobsOK' /\ SendHistoryOK' /\ SlotsOK /\ GotOK /\ ControlOK
      /\ up' \in [Nodes -> BOOLEAN]
      /\ spent' \in [sends : 0..MaxSends, faults : 0..MaxFaults]
  BY <1>1, ReadOK
<1>3. idCounter' \in [Nodes -> 0..(NPids - 1)]
  <2>1. 0 \in 0..(NPids - 1)
    BY TyCanAssumption
  <2> QED BY <1>1, <1>2, <2>1 DEF ControlOK
<1>4. SlotsOK' /\ GotOK' /\ ControlOK'
  BY <1>1, <1>2, <1>3 DEF SlotsOK, SlotsOpen, GotOK, ControlOK
<1> QED BY <1>2, <1>4, PartsNext

\* The frames that change nothing but the queue.
LEMMA RecvNothingOK ==
    ASSUME SlotInv, NEW r \in Receivers, RecvIgnored(r) \/ RecvMiddleOverflow(r)
    PROVE  SlotInv'
<1>1. /\ Reading(r) /\ Take(r) /\ UNCHANGED <<up, job, sent, acked, spent>>
      /\ UNCHANGED <<slotMap, got, idCounter>>
  BY DEF RecvIgnored, RecvMiddleOverflow, MiddleRead
<1>2. RxOK' /\ JobsOK' /\ SendHistoryOK' /\ SlotsOK /\ GotOK /\ ControlOK
  BY <1>1, ReadOK
<1>3. SlotsOK' /\ GotOK' /\ ControlOK'
  BY <1>1, <1>2 DEF SlotsOK, SlotsOpen, GotOK, ControlOK
<1> QED BY <1>2, <1>3, PartsNext

LEMMA FrameData ==
    ASSUME NEW f \in Frame
    PROVE  /\ f.data \in Seq(Byte) /\ Len(f.data) \in Nat
           /\ Len(f.data) <= CanFrameSize
           /\ DOMAIN f.data = 1..Len(f.data)
<1>1. f.data \in Seq(Byte) /\ Len(f.data) <= CanFrameSize
  BY DEF Frame
<1> QED BY <1>1, LenProperties

\* The tail of a sequence of bytes after k of them, and without the last m.
LEMMA MiddleOfBytes ==
    ASSUME NEW d \in Seq(Byte), NEW k \in Nat, NEW m \in Nat
    PROVE  SubSeq(d, k + 1, Len(d) - m) \in Seq(Byte)
<1>1. Len(d) \in Nat /\ DOMAIN d = 1..Len(d)
  BY LenProperties
<1>2. \A i \in (k + 1)..(Len(d) - m) : i \in 1..Len(d)
  BY <1>1
<1>3. \A i \in (k + 1)..(Len(d) - m) : d[i] \in Byte
  BY <1>1, <1>2, ByteOf DEF Byte
<1>4. k + 1 \in Int /\ Len(d) - m \in Int
  BY <1>1
<1> QED BY <1>3, <1>4, SubSeqProperties

LEMMA RecvWholeOK ==
    ASSUME SlotInv, NEW r \in Receivers, RecvSingle(r) \/ RecvTime(r)
    PROVE  SlotInv'
<1> DEFINE f == Head(rx[r])
<1>1. /\ Reading(r) /\ Take(r) /\ UNCHANGED <<up, job, sent, acked, spent>>
      /\ UNCHANGED <<slotMap, idCounter>>
      /\ HandUp(r, f, SinglePayload(f.data)) \/ HandUp(r, f, f.data)
  BY DEF RecvSingle, RecvTime
<1>2. RxOK' /\ JobsOK' /\ SendHistoryOK' /\ SlotsOK /\ GotOK /\ ControlOK /\ f \in Frame
  BY <1>1, ReadOK
<1> HIDE DEF f
<1>3. f.data \in Seq(Byte) /\ SinglePayload(f.data) \in Seq(Byte)
  <2> DEFINE d == f.data
  <2>1. d \in Seq(Byte) /\ Len(d) \in Nat
    BY <1>2, FrameData
  <2> HIDE DEF d
  <2>2. SubSeq(d, 2 + 1, Len(d) - 0) \in Seq(Byte)
    BY <2>1, MiddleOfBytes
  <2>3. Len(d) - 0 = Len(d)
    BY <2>1
  <2>4. SinglePayload(d) = SubSeq(d, 2 + 1, Len(d))
    BY DEF SinglePayload, SingleHdrSize
  <2> QED BY <2>1, <2>2, <2>3, <2>4 DEF d
<1>4. GotOK'
  BY <1>1, <1>2, <1>3, HandUpOK
<1>5. SlotsOK' /\ ControlOK'
  BY <1>1, <1>2 DEF SlotsOK, SlotsOpen, ControlOK
<1> QED BY <1>2, <1>4, <1>5, PartsNext

\* The slot a usable frame of a message goes to.
LEMMA SlotOfFrame ==
    ASSUME SlotsOK, NEW r \in Receivers, NEW f \in Frame, TouchesSlot(f), ~OutOfSlots(f)
    PROVE  /\ f.pid \in 0..(NSlots - 1)
           /\ slotMap[r][f.pid] \in SlotsOf(Byte)
           /\ AtRest(slotMap[r][f.pid])
<1>1. f.pid \in 0..(NSlots - 1)
  BY ReceiverIndex DEF OutOfSlots
<1> QED BY <1>1 DEF SlotsOK, SlotsOpen, AtRest

\* The length a First frame announces fits sixteen bits.
LEMMA HdrTotalType ==
    ASSUME NEW f \in Frame, FirstAccepted(f)
    PROVE  HdrTotal(f.data) \in Nat /\ HdrTotal(f.data) <= 65535
<1> DEFINE d == f.data
<1>0. d \in Seq(Byte) /\ Len(d) \in Nat /\ DOMAIN d = 1..Len(d)
  BY FrameData
<1>1. Len(d) >= 4
  BY DEF FirstAccepted, MultiHdrSize
<1> HIDE DEF d
<1>2. 1 \in DOMAIN d /\ 2 \in DOMAIN d
  BY <1>0, <1>1
<1>3. d[1] \in 0..255 /\ d[2] \in 0..255
  BY <1>0, <1>2, ByteOf
<1> DEFINE a == d[1]
           b == d[2]
<1>4. HdrTotal(d) = 256 * a + b
  BY DEF HdrTotal
<1>5. a \in 0..255 /\ b \in 0..255
  BY <1>3
<1> HIDE DEF a, b
<1>6. a \in Nat /\ b \in Nat /\ a <= 255 /\ b <= 255
  BY <1>5
<1>7. 256 * a + b \in Nat /\ 256 * a + b <= 65535
  BY <1>6
<1>8. HdrTotal(d) \in Nat /\ HdrTotal(d) <= 65535
  BY <1>4, <1>7
<1> QED BY <1>8 DEF d

\* A First frame leaves the slot open, or wrapped where its length wraps:
\* then it is noise.
LEMMA FirstSlotOK ==
    ASSUME NEW f \in Frame, FirstOpens(f), MayCross(f), NEW slot
    PROVE  LET new == Opened(slot, f.data, SlotTotal(f))
           IN  /\ new \in SlotsOf(Byte)
               /\ AtRest(new)
               /\ IsWrapped(new) => f \in Noise /\ HdrTotal(f.data) >= 65533 /\ ~TotalSane(f)
<1> DEFINE h == HdrTotal(f.data)
           d == f.data
           t == SlotTotal(f)
<1>1. d \in Seq(Byte) /\ Len(d) <= CanFrameSize /\ Len(d) >= 4
  BY FrameData DEF FirstOpens, FirstAccepted, MultiHdrSize
<1>2. h \in Nat /\ h <= 65535 /\ h >= 8
  <2>1. FirstAccepted(f) /\ h >= 8
    BY DEF FirstOpens, CanFrameSize
  <2>2. h \in Nat /\ h <= 65535
    BY <2>1, HdrTotalType
  <2> HIDE DEF h
  <2> QED BY <2>1, <2>2
<1>3. t = (h + 3) % 65536
  BY DEF SlotTotal
<1>4. TotalSane(f) <=> h + 3 <= 65535
  BY DEF TotalSane, FirstOpens
<1>5. MayCross(f)
  OBVIOUS
<1> HIDE DEF h, d, t
<1>6. CASE TotalSane(f)
  <2>1. h + 3 <= 65535
    BY <1>4, <1>6
  <2>2. (h + 3) % 65536 = h + 3
    BY <1>2, <2>1
  <2>3. t \in Nat /\ t >= 11
    BY <1>2, <1>3, <2>2
  <2>4. Opened(slot, d, t) \in SlotsOf(Byte) /\ IsOpen(Opened(slot, d, t))
    BY <1>1, <2>3, OpenedOK
  <2> QED BY <2>4, OpenNotWrapped DEF AtRest, d, t
<1>7. CASE ~TotalSane(f)
  <2>1. h \in 65533..65535
    BY <1>2, <1>4, <1>7
  <2>2. (h + 3) % 65536 \in 0..2
    BY <2>1
  <2>3. t \in 0..2
    BY <1>3, <2>2
  <2>4. Opened(slot, d, t) \in SlotsOf(Byte) /\ AtRest(Opened(slot, d, t))
    BY <1>1, <2>3, OpenedWrapped
  <2>5. f \in Noise /\ h >= 65533
    BY <1>5, <1>7, <2>1 DEF MayCross
  <2> QED BY <1>7, <2>4, <2>5 DEF d, t, h
<1> QED BY <1>6, <1>7

LEMMA RecvFirstOK ==
    ASSUME SlotInv, NEW r \in Receivers, RecvFirst(r)
    PROVE  SlotInv'
<1> DEFINE f == Head(rx[r])
           slot == Opened(slotMap[r][f.pid], f.data, SlotTotal(f))
<1>1. /\ Reading(r) /\ Take(r) /\ UNCHANGED <<up, job, sent, acked, spent>>
      /\ UNCHANGED <<idCounter, got>>
      /\ FirstOpens(f) /\ ~OutOfSlots(f)
      /\ SetSlot(r, f.pid, slot)
  BY DEF RecvFirst
<1>2. /\ RxOK' /\ JobsOK' /\ SendHistoryOK' /\ SlotsOK /\ GotOK /\ ControlOK
      /\ f \in Frame /\ MayCross(f)
  BY <1>1, ReadOK
<1> HIDE DEF f
<1>3. f.pid \in 0..(NSlots - 1)
  BY <1>1, <1>2, SlotOfFrame DEF TouchesSlot
<1>5. slot \in SlotsOf(Byte) /\ AtRest(slot)
  BY <1>1, <1>2, FirstSlotOK
<1> HIDE DEF slot
<1>6. SlotsOK'
  BY <1>1, <1>2, <1>3, <1>5, SetSlotOK
<1>7. GotOK' /\ ControlOK'
  BY <1>1, <1>2 DEF GotOK, ControlOK
<1> QED BY <1>2, <1>6, <1>7, PartsNext

\* A Middle frame that is read fits the slot it goes to.
LEMMA MiddleSlotOK ==
    ASSUME SlotsOK, NEW r \in Receivers, NEW f \in Frame, MiddleRead(r, f),
           CopyFits(slotMap[r][f.pid], f.data)
    PROVE  LET s == CopyFromSlice(slotMap[r][f.pid], f.data)
           IN  /\ f.pid \in 0..(NSlots - 1)
               /\ s \in SlotsOf(Byte)
               /\ ~IsComplete(s) => AtRest(s)
               /\ ~IsComplete(s) /\ IsWrapped(s) => IsWrapped(slotMap[r][f.pid])
               /\ IsComplete(s) => slotMap[r][f.pid].total >= 11
                                   \/ IsWrapped(slotMap[r][f.pid])
<1> DEFINE o == slotMap[r][f.pid]
           d == f.data
           s == CopyFromSlice(o, d)
<1>1. TouchesSlot(f) /\ ~OutOfSlots(f)
  BY DEF MiddleRead, TouchesSlot
<1>2. f.pid \in 0..(NSlots - 1) /\ o \in SlotsOf(Byte) /\ AtRest(o)
  BY <1>1, SlotOfFrame
<1>3. d \in Seq(Byte) /\ CopyFits(o, d)
  BY FrameData
<1> HIDE DEF o, d
<1>4. CASE IsOpen(o)
  <2>1. /\ s \in SlotsOf(Byte)
        /\ ~IsComplete(s) => IsOpen(s)
        /\ IsComplete(s) => o.total >= 11
    BY <1>2, <1>3, <1>4, PartialOK
  <2> HIDE DEF s
  <2>2. ~IsComplete(s) => AtRest(s) /\ ~IsWrapped(s)
    BY <2>1, OpenNotWrapped DEF AtRest
  <2> QED BY <1>2, <2>1, <2>2 DEF o, d, s
<1>5. CASE IsWrapped(o)
  <2>1. s \in SlotsOf(Byte) /\ (~IsComplete(s) => IsWrapped(s))
    BY <1>2, <1>3, <1>5, WrappedPartialOK
  <2> HIDE DEF s
  <2>2. ~IsComplete(s) => AtRest(s)
    BY <2>1 DEF AtRest
  <2> QED BY <1>2, <1>5, <2>1, <2>2 DEF o, d, s
<1> QED BY <1>2, <1>4, <1>5 DEF AtRest

LEMMA RecvMiddlePartialOK ==
    ASSUME SlotInv, NEW r \in Receivers, RecvMiddlePartial(r)
    PROVE  SlotInv'
<1> DEFINE f == Head(rx[r])
           s == CopyFromSlice(slotMap[r][f.pid], f.data)
<1>1. /\ Reading(r) /\ Take(r) /\ UNCHANGED <<up, job, sent, acked, spent>>
      /\ UNCHANGED <<idCounter, got>>
      /\ MiddleRead(r, f) /\ CopyFits(slotMap[r][f.pid], f.data)
      /\ ~IsComplete(s)
      /\ SetSlot(r, f.pid, s)
  BY DEF RecvMiddlePartial, MiddleRead
<1>2. RxOK' /\ JobsOK' /\ SendHistoryOK' /\ SlotsOK /\ GotOK /\ ControlOK /\ f \in Frame
  BY <1>1, ReadOK
<1> HIDE DEF f
<1>3. f.pid \in 0..(NSlots - 1) /\ s \in SlotsOf(Byte) /\ AtRest(s)
  BY <1>1, <1>2, MiddleSlotOK
<1> HIDE DEF s
<1>4. SlotsOK'
  BY <1>1, <1>2, <1>3, SetSlotOK
<1>5. GotOK' /\ ControlOK'
  BY <1>1, <1>2 DEF GotOK, ControlOK
<1> QED BY <1>2, <1>4, <1>5, PartsNext

LEMMA RecvMiddleCompleteOK ==
    ASSUME SlotInv, NEW r \in Receivers, RecvMiddleComplete(r)
    PROVE  SlotInv'
<1> DEFINE f == Head(rx[r])
           s == CopyFromSlice(slotMap[r][f.pid], f.data)
<1>1. /\ Reading(r) /\ Take(r) /\ UNCHANGED <<up, job, sent, acked, spent>>
      /\ UNCHANGED idCounter
      /\ MiddleRead(r, f) /\ CopyFits(slotMap[r][f.pid], f.data)
      /\ SetSlot(r, f.pid, ResetSlot(s))
      /\ HandUp(r, f, MultiPayload(s.data)) \/ UNCHANGED got
  BY DEF RecvMiddleComplete, Completes, MiddleRead
<1>2. RxOK' /\ JobsOK' /\ SendHistoryOK' /\ SlotsOK /\ GotOK /\ ControlOK /\ f \in Frame
  BY <1>1, ReadOK
<1> HIDE DEF f
<1>3. f.pid \in 0..(NSlots - 1) /\ s \in SlotsOf(Byte)
  BY <1>1, <1>2, MiddleSlotOK
<1> HIDE DEF s
<1>4. SlotsOK'
  BY <1>1, <1>2, <1>3, EmptyOK, ResetIsEmpty, SetSlotOK
<1>5. MultiPayload(s.data) \in Seq(Byte)
  <2> DEFINE d == s.data
  <2>1. d \in Seq(Byte)
    BY <1>3 DEF SlotsOf
  <2> HIDE DEF d
  <2>2. SubSeq(d, 4 + 1, Len(d) - 1) \in Seq(Byte)
    BY <2>1, MiddleOfBytes
  <2>3. MultiPayload(d) = SubSeq(d, 4 + 1, Len(d) - 1)
    BY DEF MultiPayload, MultiHdrSize, ChecksumSize
  <2> QED BY <2>2, <2>3 DEF d
<1>6. GotOK'
  <2>1. CASE UNCHANGED got
    BY <1>2, <2>1 DEF GotOK
  <2>2. CASE HandUp(r, f, MultiPayload(s.data))
    BY <1>2, <1>5, <2>2, HandUpOK
  <2> QED BY <1>1, <2>1, <2>2
<1>7. ControlOK'
  BY <1>1, <1>2 DEF ControlOK
<1> QED BY <1>2, <1>4, <1>6, <1>7, PartsNext

LEMMA RecvPanicsOK ==
    ASSUME SlotInv, NEW r \in Receivers, RecvPanics(r)
    PROVE  SlotInv'
<1>1. RxOK /\ JobsOK /\ SlotsOK /\ ControlOK /\ SendHistoryOK /\ GotOK
  BY Parts
<1>2. /\ up' = [up EXCEPT ![r] = FALSE]
      /\ job' = [job EXCEPT ![r] = [t \in Tasks |-> Idle]]
      /\ rx' = [rx EXCEPT ![r] = <<>>]
      /\ UNCHANGED <<idCounter, slotMap, sent, acked, got, spent>>
  BY DEF RecvPanics
<1>3. RxOK'
  <2>1. <<>> \in Seq(Frame) /\ DOMAIN <<>> = {}
    BY EmptySeq
  <2> QED BY <1>1, <1>2, <2>1 DEF RxOK
<1>4. JobsOK'
  <2>1. job \in [Nodes -> [Tasks -> Jobs]]
    BY <1>1 DEF JobsOK
  <2>2. [t \in Tasks |-> Idle] \in [Tasks -> Jobs]
    BY IdleOK
  <2>3. job' \in [Nodes -> [Tasks -> Jobs]]
    BY <1>2, <2>1, <2>2
  <2>4. \A n \in Nodes, t \in Tasks : job'[n][t] = job[n][t] \/ job'[n][t] = Idle
    BY <1>2, <2>1
  <2>5. \A n \in Nodes, t \in Tasks : FramesOK(job'[n][t])
    BY <1>1, <2>4, IdleOK DEF JobsOK
  <2> QED BY <2>3, <2>5 DEF JobsOK
<1>5. ControlOK' /\ SlotsOK' /\ SendHistoryOK' /\ GotOK'
  BY <1>1, <1>2 DEF ControlOK, SlotsOK, SlotsOpen, SendHistoryOK, GotOK
<1> QED BY <1>3, <1>4, <1>5, PartsNext

LEMMA ServiceRestartOK ==
    ASSUME SlotInv, NEW r \in Receivers, ServiceRestart(r)
    PROVE  SlotInv'
<1>1. RxOK /\ JobsOK /\ SlotsOK /\ ControlOK /\ SendHistoryOK /\ GotOK
  BY Parts
<1>2. /\ up' = [up EXCEPT ![r] = TRUE]
      /\ idCounter' = [idCounter EXCEPT ![r] = 0]
      /\ slotMap' = [slotMap EXCEPT ![r] = EmptySlots]
      /\ UNCHANGED <<job, rx, sent, acked, got, spent>>
  BY DEF ServiceRestart
<1>3. ControlOK'
  <2>1. 0 \in 0..(NPids - 1)
    BY TyCanAssumption
  <2> QED BY <1>1, <1>2, <2>1 DEF ControlOK
<1>4. SlotsOK'
  <2>1. EmptySlots = [p \in 0..(NSlots - 1) |-> EmptySlot]
    BY DEF EmptySlots
  <2>2. slotMap \in [Receivers -> [0..(NSlots - 1) -> SlotsOf(Byte)]]
    BY <1>1 DEF SlotsOK
  <2>3. slotMap' \in [Receivers -> [0..(NSlots - 1) -> SlotsOf(Byte)]]
    BY <1>2, <2>1, <2>2, EmptyOK
  <2>4. \A s \in Receivers, p \in 0..(NSlots - 1) :
           slotMap'[s][p] = EmptySlot \/ slotMap'[s][p] = slotMap[s][p]
    BY <1>2, <2>1, <2>2
  <2> QED BY <1>1, <2>3, <2>4, EmptyOK DEF SlotsOK, SlotsOpen
<1>5. RxOK' /\ JobsOK' /\ SendHistoryOK' /\ GotOK'
  BY <1>1, <1>2 DEF RxOK, JobsOK, SendHistoryOK, GotOK
<1> QED BY <1>3, <1>4, <1>5, PartsNext

LEMMA NextOK == SlotInv /\ [Next]_vars => SlotInv'
<1> SUFFICES ASSUME SlotInv, [Next]_vars PROVE SlotInv'
  OBVIOUS
<1>1. ASSUME NEW n \in Nodes, NEW t \in Tasks, Send(n, t) PROVE SlotInv'
  BY <1>1, SendOK
<1>2. ASSUME NEW n \in Nodes, NEW t \in Tasks, Write(n, t) PROVE SlotInv'
  BY <1>2, WriteOkOK, WriteFailsOK DEF Write
<1>3. ASSUME NEW r \in Receivers, Recv(r) PROVE SlotInv'
  BY <1>3, RecvResetOK, RecvNothingOK, RecvWholeOK, RecvFirstOK,
     RecvMiddlePartialOK, RecvMiddleCompleteOK, RecvPanicsOK DEF Recv
<1>4. ASSUME NEW r \in Receivers, ServiceRestart(r) PROVE SlotInv'
  BY <1>4, ServiceRestartOK
<1>5. CASE NoiseOnBus
  BY <1>5, NoiseOK
<1>6. CASE UNCHANGED vars
  BY <1>6 DEF vars, SlotInv, TypeOK, TotalsSane, SlotsOpen
<1> QED BY <1>1, <1>2, <1>3, <1>4, <1>5, <1>6 DEF Next

---------------------------------------------------------------------------
(* The theorems. *)

\* SlotInv holds of every reachable state, whatever the nodes, tasks,
\* requests, faults and sizes, and whatever frames the noise is made of: types,
\* senders whose announced lengths do not wrap, and slots that are empty, open
\* or wrapped.
THEOREM SlotInvariant == Spec => []SlotInv
BY InitOK, NextOK, PTL DEF Spec

\* Every variable keeps its type; in particular id_counter stays within its
\* eight bits and each frame within eight bytes of payload.
THEOREM TypeCorrect == Spec => []TypeOK
<1>1. SlotInv => TypeOK
  BY DEF SlotInv
<1> QED BY <1>1, SlotInvariant, PTL

\* No slot is left full, over-full or announced without room for header and
\* checksum between two frames, except by a length that wrapped.
THEOREM SlotsStayOpen == Spec => []SlotsOpen
<1>1. SlotInv => SlotsOpen
  BY DEF SlotInv
<1> QED BY <1>1, SlotInvariant, PTL

\* A message that a Middle frame completes has header and checksum, unless its
\* slot is wrapped.
LEMMA TooShortIsWrapped ==
    ASSUME SlotsOK, NEW r \in Receivers, NEW f \in Frame, Completes(r, f),
           TooShort(CopyFromSlice(slotMap[r][f.pid], f.data))
    PROVE  IsWrapped(slotMap[r][f.pid])
<1> DEFINE o == slotMap[r][f.pid]
           s == CopyFromSlice(o, f.data)
           total == o.total
<1>1. total >= 11 \/ IsWrapped(o)
  BY MiddleSlotOK DEF Completes
<1>2. total \in Nat
  <2>1. TouchesSlot(f) /\ ~OutOfSlots(f)
    BY DEF Completes, MiddleRead, TouchesSlot
  <2>2. o \in SlotsOf(Byte)
    BY <2>1, SlotOfFrame
  <2> QED BY <2>2 DEF SlotsOf
<1>3. s.total = total
  BY DEF CopyFromSlice, SlotOf
<1>4. TooShort(s) => s.total \in 0..4
  <2> HIDE DEF s
  <2> QED BY DEF TooShort, MultiHdrSize, ChecksumSize
<1>5. TooShort(s)
  OBVIOUS
<1> HIDE DEF o, s, total
<1>6. ~(total >= 11)
  BY <1>2, <1>3, <1>4, <1>5
<1> QED BY <1>1, <1>6 DEF o

\* recv() panics on a pid past the last slot, or on a wrapped slot.
LEMMA PanicCauses ==
    ASSUME SlotInv, NEW r \in Receivers, RecvPanics(r)
    PROVE  OutOfSlots(Head(rx[r])) \/ IsWrapped(slotMap[r][Head(rx[r]).pid])
<1>1. Reading(r) /\ Panics(r, Head(rx[r]))
  BY DEF RecvPanics
<1>2. Head(rx[r]) \in Frame /\ SlotsOK
  BY <1>1, Parts, HeadOK DEF Reading
<1> DEFINE f == Head(rx[r])
<1>3. \/ OutOfSlots(f)
      \/ /\ Completes(r, f)
         /\ TooShort(CopyFromSlice(slotMap[r][f.pid], f.data))
  BY <1>1 DEF Panics
<1>4. f \in Frame
  BY <1>2
<1> HIDE DEF f
<1>5. OutOfSlots(f) \/ IsWrapped(slotMap[r][f.pid])
  BY <1>2, <1>3, <1>4, TooShortIsWrapped
<1> QED BY <1>5 DEF f

\* Only a panic or a restart touches up; four actions touch a slot.
LEMMA UpChanges ==
    ASSUME [Next]_vars
    PROVE  \/ UNCHANGED up
           \/ \E r \in Receivers : RecvPanics(r)
           \/ \E r \in Receivers : ServiceRestart(r)
<1>1. ASSUME NEW n \in Nodes, NEW t \in Tasks, Send(n, t) PROVE UNCHANGED up
  BY <1>1 DEF Send
<1>2. ASSUME NEW n \in Nodes, NEW t \in Tasks, Write(n, t) PROVE UNCHANGED up
  BY <1>2 DEF Write, WriteOk, FirstFails, SendFails, WriteFault
<1>3. ASSUME NEW r \in Receivers, Recv(r) PROVE UNCHANGED up \/ RecvPanics(r)
  BY <1>3 DEF Recv, RecvReset, RecvIgnored, RecvSingle, RecvTime, RecvFirst,
              RecvMiddleOverflow, RecvMiddlePartial, RecvMiddleComplete
<1>4. NoiseOnBus => UNCHANGED up
  BY DEF NoiseOnBus
<1>5. (UNCHANGED vars) => UNCHANGED up
  BY DEF vars
<1> QED BY <1>1, <1>2, <1>3, <1>4, <1>5 DEF Next

LEMMA SlotChanges ==
    ASSUME [Next]_vars
    PROVE  \/ UNCHANGED slotMap
           \/ \E r \in Receivers : RecvFirst(r)
           \/ \E r \in Receivers : RecvMiddlePartial(r) \/ RecvMiddleComplete(r)
           \/ \E r \in Receivers : ServiceRestart(r)
<1>1. ASSUME NEW n \in Nodes, NEW t \in Tasks, Send(n, t) PROVE UNCHANGED slotMap
  BY <1>1 DEF Send
<1>2. ASSUME NEW n \in Nodes, NEW t \in Tasks, Write(n, t) PROVE UNCHANGED slotMap
  BY <1>2 DEF Write, WriteOk, FirstFails, SendFails, WriteFault
<1>3. ASSUME NEW r \in Receivers, Recv(r)
      PROVE  UNCHANGED slotMap \/ RecvFirst(r) \/ RecvMiddlePartial(r) \/ RecvMiddleComplete(r)
  BY <1>3 DEF Recv, RecvReset, RecvIgnored, RecvSingle, RecvTime,
              RecvMiddleOverflow, RecvPanics
<1>4. NoiseOnBus => UNCHANGED slotMap
  BY DEF NoiseOnBus
<1>5. (UNCHANGED vars) => UNCHANGED slotMap
  BY DEF vars
<1> QED BY <1>1, <1>2, <1>3, <1>4, <1>5 DEF Next

\* The panic that PanicsKnown speaks of ...
LEMMA PanicStep ==
    ASSUME SlotInv, [Next]_vars, NEW r \in Receivers, up[r], ~up'[r]
    PROVE  OutOfSlots(Head(rx[r])) \/ IsWrapped(slotMap[r][Head(rx[r]).pid])
<1>1. up \in [Nodes -> BOOLEAN] /\ r \in Nodes
  BY ReceiverIsNode DEF SlotInv, TypeOK
<1>2. CASE UNCHANGED up
  BY <1>2
<1>3. ASSUME NEW q \in Receivers, RecvPanics(q)
      PROVE  OutOfSlots(Head(rx[r])) \/ IsWrapped(slotMap[r][Head(rx[r]).pid])
  <2>1. up' = [up EXCEPT ![q] = FALSE]
    BY <1>3 DEF RecvPanics
  <2>2. q = r
    BY <1>1, <2>1
  <2> QED BY <1>3, <2>2, PanicCauses
<1>4. ASSUME NEW q \in Receivers, ServiceRestart(q) PROVE FALSE
  <2>1. up' = [up EXCEPT ![q] = TRUE]
    BY <1>4 DEF ServiceRestart
  <2> QED BY <1>1, <2>1
<1> QED BY <1>2, <1>3, <1>4, UpChanges

\* ... and the one way a slot becomes wrapped.
LEMMA WrapStep ==
    ASSUME SlotInv, [Next]_vars, NEW r \in Receivers, NEW p \in 0..(NSlots - 1),
           IsWrapped(slotMap'[r][p]), ~IsWrapped(slotMap[r][p])
    PROVE  LET f == Head(rx[r])
           IN  /\ p = f.pid /\ f \in Noise /\ HdrTotal(f.data) >= 65533
               /\ ~TotalSane(f) /\ Reading(r)
<1>1. RxOK /\ SlotsOK
  BY Parts
<1>2. slotMap \in [Receivers -> [0..(NSlots - 1) -> SlotsOf(Byte)]]
  BY <1>1 DEF SlotsOK
<1>3. CASE UNCHANGED slotMap
  BY <1>3
<1>4. ASSUME NEW q \in Receivers, RecvFirst(q)
      PROVE  LET f == Head(rx[r])
             IN  /\ p = f.pid /\ f \in Noise /\ HdrTotal(f.data) >= 65533
                 /\ ~TotalSane(f) /\ Reading(r)
  <2> DEFINE f == Head(rx[q])
             new == Opened(slotMap[q][f.pid], f.data, SlotTotal(f))
  <2>1. Reading(q) /\ FirstOpens(f) /\ slotMap' = [slotMap EXCEPT ![q][f.pid] = new]
    BY <1>4 DEF RecvFirst, SetSlot
  <2>2. f \in Frame /\ MayCross(f)
    BY <1>1, <2>1, HeadOK
  <2> HIDE DEF f
  <2>3. IsWrapped(new) => f \in Noise /\ HdrTotal(f.data) >= 65533 /\ ~TotalSane(f)
    BY <2>1, <2>2, FirstSlotOK
  <2> HIDE DEF new
  <2>4. slotMap'[r][p] = IF r = q /\ p = f.pid THEN new ELSE slotMap[r][p]
    BY <1>2, <2>1
  <2>5. r = q /\ p = f.pid /\ IsWrapped(new)
    BY <2>4
  <2> QED BY <2>1, <2>3, <2>5 DEF f
<1>5. ASSUME NEW q \in Receivers, RecvMiddlePartial(q) \/ RecvMiddleComplete(q)
      PROVE  FALSE
  <2> DEFINE f == Head(rx[q])
             s == CopyFromSlice(slotMap[q][f.pid], f.data)
  <2>1. /\ Reading(q) /\ MiddleRead(q, f) /\ CopyFits(slotMap[q][f.pid], f.data)
        /\ \/ ~IsComplete(s) /\ slotMap' = [slotMap EXCEPT ![q][f.pid] = s]
           \/ slotMap' = [slotMap EXCEPT ![q][f.pid] = ResetSlot(s)]
    BY <1>5 DEF RecvMiddlePartial, RecvMiddleComplete, Completes, MiddleRead, SetSlot
  <2>2. f \in Frame
    BY <1>1, <2>1, HeadOK
  <2> HIDE DEF f
  <2>3. ~IsComplete(s) /\ IsWrapped(s) => IsWrapped(slotMap[q][f.pid])
    BY <1>1, <2>1, <2>2, MiddleSlotOK
  <2> HIDE DEF s
  <2>4. ~IsWrapped(ResetSlot(s))
    BY ResetIsEmpty, EmptyOK, OpenNotWrapped
  <2>5. CASE ~IsComplete(s) /\ slotMap' = [slotMap EXCEPT ![q][f.pid] = s]
    <3>1. slotMap'[r][p] = IF r = q /\ p = f.pid THEN s ELSE slotMap[r][p]
      BY <1>2, <2>5
    <3> QED BY <2>3, <2>5, <3>1
  <2>6. CASE slotMap' = [slotMap EXCEPT ![q][f.pid] = ResetSlot(s)]
    <3>1. slotMap'[r][p] = IF r = q /\ p = f.pid THEN ResetSlot(s) ELSE slotMap[r][p]
      BY <1>2, <2>6
    <3> QED BY <2>4, <3>1
  <2> QED BY <2>1, <2>5, <2>6
<1>6. ASSUME NEW q \in Receivers, ServiceRestart(q) PROVE FALSE
  <2>1. slotMap' = [slotMap EXCEPT ![q] = EmptySlots]
    BY <1>6 DEF ServiceRestart
  <2>2. slotMap'[r][p] = EmptySlot \/ slotMap'[r][p] = slotMap[r][p]
    BY <1>2, <2>1 DEF EmptySlots
  <2> QED BY <2>2, EmptyOK, OpenNotWrapped
<1> QED BY <1>3, <1>4, <1>5, <1>6, SlotChanges

\* However frames are lost, repeated or mixed, and whatever noise there is,
\* recv() panics only where it indexes the table of slots past its end or
\* slices a slot whose announced total wrapped, and only noise makes such a
\* slot.
THEOREM PanicsAreKnown == Spec => PanicsKnown
<1>1. SlotInv /\ [Next]_vars
      => [\A r \in Receivers :
            LET f == Head(rx[r])
            IN /\ up[r] /\ ~up'[r] => OutOfSlots(f) \/ IsWrapped(slotMap[r][f.pid])
               /\ \A p \in 0..(NSlots - 1) :
                     IsWrapped(slotMap'[r][p]) /\ ~IsWrapped(slotMap[r][p])
                     => p = f.pid /\ f \in Noise /\ HdrTotal(f.data) >= 65533]_vars
  BY PanicStep, WrapStep
<1> QED BY <1>1, SlotInvariant, PTL DEF Spec, PanicsKnown

\* Nothing that is meant to be read wraps a slot.
Unwrapped == \A r \in Receivers : \A p \in 0..(NSlots - 1) : ~IsWrapped(slotMap[r][p])

\* With a slot for every value of the pid, which is what the comment on
\* RECV_BUF_SLOT_NUM says, and no noise that announces 65533 bytes or more, no
\* node's recv() ever panics.
THEOREM WideTable ==
    NPids <= NSlots /\ (\A f \in Noise : TotalSane(f)) => (Spec => []NoPanic)
<1> SUFFICES ASSUME NPids <= NSlots, \A f \in Noise : TotalSane(f)
             PROVE  Spec => []NoPanic
  OBVIOUS
<1>1. \A f \in Frame : ~OutOfSlots(f)
  <2> SUFFICES ASSUME NEW f \in Frame, OutOfSlots(f) PROVE FALSE
    OBVIOUS
  <2>1. f.pid \in 0..(NPids - 1)
    BY DEF Frame
  <2>2. f.pid >= NSlots
    BY DEF OutOfSlots
  <2> DEFINE p == f.pid
  <2> HIDE DEF p
  <2>3. NSlots \in Nat /\ NPids \in Nat
    BY TyCanAssumption
  <2>4. p \in 0..(NPids - 1) /\ p >= NSlots
    BY <2>1, <2>2 DEF p
  <2> QED BY <2>3, <2>4
<1>2. Init => NoPanic /\ Unwrapped
  <2> SUFFICES ASSUME Init PROVE NoPanic /\ Unwrapped
    OBVIOUS
  <2>1. \A r \in Receivers, p \in 0..(NSlots - 1) : slotMap[r][p] = EmptySlot
    BY DEF Init, EmptySlots
  <2> QED BY <2>1, EmptyOK, OpenNotWrapped DEF Init, NoPanic, Unwrapped
<1>3. SlotInv /\ NoPanic /\ Unwrapped /\ [Next]_vars => NoPanic' /\ Unwrapped'
  <2> SUFFICES ASSUME SlotInv, NoPanic, Unwrapped, [Next]_vars
               PROVE  NoPanic' /\ Unwrapped'
    OBVIOUS
  <2>1. (UNCHANGED up) => NoPanic'
    BY DEF NoPanic
  <2>2. ASSUME NEW r \in Receivers, RecvPanics(r) PROVE FALSE
    <3> DEFINE f == Head(rx[r])
    <3>1. f \in Frame /\ Reading(r) /\ Panics(r, f)
      BY <2>2, Parts, HeadOK DEF RecvPanics, Reading
    <3>2. OutOfSlots(f) \/ IsWrapped(slotMap[r][f.pid])
      BY <2>2, PanicCauses
    <3>3. OutOfSlots(f) \/ Completes(r, f)
      BY <3>1 DEF Panics
    <3> HIDE DEF f
    <3>4. ~OutOfSlots(f) /\ MiddleRead(r, f)
      BY <1>1, <3>1, <3>3 DEF Completes
    <3>5. f.pid \in 0..(NSlots - 1)
      BY <3>1, <3>4, SlotOfFrame, Parts DEF MiddleRead, TouchesSlot
    <3> QED BY <3>2, <3>4, <3>5 DEF Unwrapped
  <2>3. ASSUME NEW r \in Receivers, ServiceRestart(r) PROVE FALSE
    BY <2>3, ReceiverIsNode DEF ServiceRestart, NoPanic
  <2>4. NoPanic'
    BY <2>1, <2>2, <2>3, UpChanges
  <2>5. Unwrapped'
    <3> SUFFICES ASSUME NEW r \in Receivers, NEW p \in 0..(NSlots - 1),
                        IsWrapped(slotMap'[r][p])
                 PROVE  FALSE
      BY DEF Unwrapped
    <3>1. ~IsWrapped(slotMap[r][p])
      BY DEF Unwrapped
    <3>2. Head(rx[r]) \in Noise /\ ~TotalSane(Head(rx[r]))
      BY <3>1, WrapStep
    <3> QED BY <3>2
  <2> QED BY <2>4, <2>5
<1> QED BY <1>2, <1>3, SlotInvariant, PTL DEF Spec
=============================================================================
