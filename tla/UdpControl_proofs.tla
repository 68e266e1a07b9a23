------------------------- MODULE UdpControl_proofs -------------------------
(***************************************************************************)
(* Proofs about the buffers of the UDP command application: their type,    *)
(* that commands of two slices are forwarded whole, and when handle() can  *)
(* panic.                                                                  *)
(***************************************************************************)
EXTENDS UdpControl, TLAPS, SequenceTheorems

Pairs == Nat \X Nat

Slices == {s \in [seq : 0..127, last : BOOLEAN, data : Seq(Pairs)] :
              Len(s.data) \in 1..SliceMax}

\* What may be on its way to handle().
Frames == Slices \union {Blank}

Commands == [len : Lengths, by : Cuts]

Buffers == [data : [1..BufSize -> Pairs], len : 0..SliceMax, available : BOOLEAN]

BufIds == 0..(NBufs - 1)

---------------------------------------------------------------------------
(* The client's slices. *)

\* The last slice has something left to carry, and no more than fits.
LEMMA SliceCount ==
    ASSUME NEW len \in Lengths
    PROVE  /\ NumSlices(len) \in Nat
           /\ SliceMax * (NumSlices(len) - 1) < len
           /\ len <= SliceMax * NumSlices(len)
<1>1. SliceMax \in Nat \ {0} /\ len \in Nat \ {0}
  BY UdpAssumption
<1> QED BY <1>1 DEF NumSlices

LEMMA ChunkOK ==
    ASSUME NEW len \in Lengths, NEW c \in Nat, NEW i \in 0..(NumSlices(len) - 1)
    PROVE  /\ Chunk(c, len, i) \in Seq(Pairs)
           /\ Len(Chunk(c, len, i)) \in 1..SliceMax
           /\ \A k \in 1..Len(Chunk(c, len, i)) :
                 Chunk(c, len, i)[k] = <<c, SliceMax * i + k>>
           /\ i < NumSlices(len) - 1 => Len(Chunk(c, len, i)) = SliceMax
<1> DEFINE N == NumSlices(len)
           size == IF SliceMax * (i + 1) <= len THEN SliceMax ELSE len - SliceMax * i
           m == SliceMax * i
<1>1. SliceMax \in Nat \ {0} /\ len \in Nat \ {0} /\ N \in Nat /\ i \in Nat
  BY SliceCount, UdpAssumption
<1>2. SliceMax * (N - 1) < len /\ len <= SliceMax * N
  BY SliceCount
<1> HIDE DEF N
<1>3. m \in Nat /\ SliceMax * (i + 1) = m + SliceMax
  BY <1>1
<1>4. m < len
  <2>1. i <= N - 1
    BY <1>1 DEF N
  <2>2. SliceMax * i <= SliceMax * (N - 1)
    BY <1>1, <2>1
  <2> QED BY <1>1, <1>2, <1>3, <2>2
<1>5. i < N - 1 => m + SliceMax <= len
  <2> SUFFICES ASSUME i < N - 1 PROVE m + SliceMax <= len
    OBVIOUS
  <2>1. i + 1 <= N - 1
    BY <1>1
  <2>2. SliceMax * (i + 1) <= SliceMax * (N - 1)
    BY <1>1, <2>1
  <2>3. SliceMax * (N - 1) \in Int
    BY <1>1
  <2> QED BY <1>1, <1>2, <1>3, <2>2, <2>3
<1>6. Chunk(c, len, i) = [k \in 1..size |-> <<c, m + k>>]
  BY DEF Chunk
<1>7. size = IF m + SliceMax <= len THEN SliceMax ELSE len - m
  BY <1>3
<1> HIDE DEF m, size
<1>8. size \in 1..SliceMax /\ (i < N - 1 => size = SliceMax)
  BY <1>1, <1>3, <1>4, <1>5, <1>7
<1> DEFINE s == [k \in 1..size |-> <<c, m + k>>]
<1>9. s \in Seq(Pairs) /\ Len(s) = size /\ \A k \in 1..size : s[k] = <<c, m + k>>
  <2>1. \A k \in 1..size : <<c, m + k>> \in Pairs
    BY <1>1, <1>3, <1>8 DEF Pairs
  <2> QED BY <1>1, <1>8, <2>1
<1> HIDE DEF s
<1> QED BY <1>6, <1>8, <1>9 DEF s, m, N

LEMMA IndexOK == \A seq \in Nat : Index(seq) \in BufIds
BY UdpAssumption DEF Index, BufIds

\* Slices as either client cuts them; those of the protocol are full but for
\* the last.
LEMMA SlicesOK ==
    ASSUME NEW len \in Lengths, NEW c \in Nat, NEW t \in Transactions
    PROVE  /\ GeneratedSlices(c, len) \in Seq(Slices)
           /\ ProtocolSlices(c, len, t) \in Seq(Slices)
<1> DEFINE N == NumSlices(len)
<1>1. N \in Nat /\ t \in 0..127
  BY SliceCount, UdpAssumption
<1>2. ASSUME NEW k \in 1..N
      PROVE  /\ Chunk(c, len, k - 1) \in Seq(Pairs)
             /\ Len(Chunk(c, len, k - 1)) \in 1..SliceMax
  <2>1. k - 1 \in 0..(N - 1)
    BY <1>1
  <2> QED BY <2>1, ChunkOK
<1>3. ProtocolSlices(c, len, t) =
         [k \in 1..N |-> [seq |-> t, last |-> k = N, data |-> Chunk(c, len, k - 1)]]
  BY DEF ProtocolSlices
<1>4. GeneratedSlices(c, len) =
         [k \in 1..N |-> [seq |-> (k - 1) % 128,
                          last |-> k - 1 = N \/ ((k - 1) \div 128) % 2 = 1,
                          data |-> Chunk(c, len, k - 1)]]
  BY DEF GeneratedSlices
<1> HIDE DEF N
<1>5. \A k \in 1..N : (k - 1) % 128 \in 0..127
  BY <1>1
<1>6. \A k \in 1..N :
         [seq |-> t, last |-> k = N, data |-> Chunk(c, len, k - 1)] \in Slices
  BY <1>1, <1>2 DEF Slices
<1>7. \A k \in 1..N :
         [seq |-> (k - 1) % 128, last |-> k - 1 = N \/ ((k - 1) \div 128) % 2 = 1,
          data |-> Chunk(c, len, k - 1)] \in Slices
  BY <1>1, <1>2, <1>5 DEF Slices
<1> QED BY <1>1, <1>3, <1>4, <1>6, <1>7

---------------------------------------------------------------------------
(* Types. *)

Typed ==
    /\ up \in BOOLEAN
    /\ bufs \in [BufIds -> Buffers]
    /\ cmds \in Seq(Commands)
    /\ pending \in [Transactions -> Seq(Slices)]
    /\ net \in Seq(Frames)
    /\ forwarded \in Seq(Seq(Pairs))
    /\ faults \in 0..MaxFaults
    /\ opened \in [BufIds -> Frames]

LEMMA FreshOK == FreshBuf \in Buffers
BY UdpAssumption DEF FreshBuf, NoByte, Buffers, Pairs

LEMMA OverwriteOK ==
    ASSUME NEW data \in [1..BufSize -> Pairs], NEW src \in Seq(Pairs)
    PROVE  Overwrite(data, src) \in [1..BufSize -> Pairs]
<1>1. \A i \in 1..BufSize : i <= Len(src) => src[i] \in Pairs
  BY UdpAssumption
<1> QED BY <1>1 DEF Overwrite

LEMMA HeldOK ==
    ASSUME NEW buf \in Buffers
    PROVE  Held(buf) \in Seq(Pairs) /\ Len(Held(buf)) = buf.len
           /\ \A i \in 1..buf.len : Held(buf)[i] = buf.data[i]
<1>1. buf.data \in [1..BufSize -> Pairs] /\ buf.len \in 0..SliceMax
  BY DEF Buffers
<1>2. buf.data \in Seq(Pairs) /\ Len(buf.data) = BufSize /\ buf.len <= BufSize
      /\ buf.len \in Nat /\ BufSize \in Nat
  BY <1>1, UdpAssumption
<1> DEFINE d == buf.data
           n == buf.len
<1>3. d \in Seq(Pairs) /\ Len(d) = BufSize /\ n <= BufSize /\ n \in Nat
  BY <1>2
<1> HIDE DEF d, n
<1>4. /\ SubSeq(d, 1, n) \in Seq(Pairs) /\ Len(SubSeq(d, 1, n)) = n
      /\ \A i \in 1..n : SubSeq(d, 1, n)[i] = d[i]
  BY <1>2, <1>3
<1> QED BY <1>4 DEF Held, d, n

\* Slices whose data is a sequence of pairs, as long as a slice may be.
LEMMA SliceFields ==
    ASSUME NEW s \in Slices
    PROVE  /\ s.seq \in 0..127 /\ s.last \in BOOLEAN /\ s.data \in Seq(Pairs)
           /\ Len(s.data) \in 1..SliceMax
BY DEF Slices

\* A slice that is handled.
LEMMA HandlingOK ==
    ASSUME Typed, NEW s, Handling(s)
    PROVE  /\ s \in Slices /\ s = net[1] /\ Len(net) \in Nat \ {0}
           /\ net' \in Seq(Frames) /\ Len(net') = Len(net) - 1
           /\ \A i \in 1..Len(net') : net'[i] = net[i + 1]
           /\ Index(s.seq) \in BufIds
<1>1. net \in Seq(Frames) /\ net # <<>> /\ s = Head(net) /\ net' = Tail(net) /\ s # Blank
  BY DEF Typed, Handling
<1>2. s \in Slices /\ s = net[1] /\ Len(net) \in Nat \ {0}
  BY <1>1 DEF Frames
<1>3. Index(s.seq) \in BufIds
  <2>1. s.seq \in 0..127
    BY <1>2, SliceFields
  <2>2. s.seq \in Nat
    BY <2>1
  <2> QED BY <2>2, IndexOK
<1> QED BY <1>1, <1>2, <1>3

LEMMA BuffersSet ==
    ASSUME Typed, NEW b \in BufIds, NEW buf \in Buffers, bufs' = [bufs EXCEPT ![b] = buf]
    PROVE  bufs' \in [BufIds -> Buffers]
BY DEF Typed

LEMMA FilledOK ==
    ASSUME NEW buf \in Buffers, NEW src \in Seq(Pairs), Len(src) \in 1..SliceMax
    PROVE  /\ Filled(buf, src) \in Buffers
           /\ Filled(buf, src).data[1] = src[1]
           /\ Held(Filled(buf, src)) = src
<1> DEFINE d == Overwrite(buf.data, src)
           n == Len(src)
<1>1. d \in [1..BufSize -> Pairs]
  BY OverwriteOK DEF Buffers
<1>2. \A i \in 1..n : d[i] = src[i]
  <2>1. buf.data \in [1..BufSize -> Pairs]
    BY DEF Buffers
  <2>2. n <= BufSize /\ n \in Nat /\ BufSize \in Nat
    BY UdpAssumption
  <2> QED BY <2>1, <2>2 DEF Overwrite
<1>3. Filled(buf, src) = [data |-> d, len |-> n, available |-> TRUE]
  BY DEF Filled
<1> HIDE DEF d
<1>4. n \in 0..SliceMax /\ 1 \in 1..n
  BY UdpAssumption
<1> HIDE DEF n
<1>5. Filled(buf, src) \in Buffers /\ Filled(buf, src).data = d /\ Filled(buf, src).len = n
  BY <1>1, <1>3, <1>4 DEF Buffers
<1>6. Held(Filled(buf, src)) = src
  <2> DEFINE h == Held(Filled(buf, src))
  <2>1. h \in Seq(Pairs) /\ Len(h) = n /\ \A i \in 1..n : h[i] = d[i]
    BY <1>5, HeldOK
  <2> HIDE DEF h
  <2>2. Len(h) = Len(src) /\ \A i \in 1..Len(h) : h[i] = src[i]
    BY <1>2, <2>1 DEF n
  <2> QED BY <2>1, <2>2, SeqEqual DEF h
<1> QED BY <1>2, <1>4, <1>5, <1>6

\* The rest of a slice that is kept, and what is forwarded of it.
LEMMA KeptOK ==
    ASSUME NEW buf \in Buffers, NEW src \in Seq(Pairs), Len(src) \in 1..SliceMax,
           Room(buf) <= Len(src)
    PROVE  LET rest == SubSeq(src, Room(buf) + 1, Len(src))
           IN /\ Kept(buf, rest) \in Buffers
              /\ Kept(buf, rest).len = buf.len
              /\ \/ Kept(buf, rest).data[1] = buf.data[1]
                 \/ /\ Room(buf) < Len(src)
                    /\ Kept(buf, rest).data[1] = src[Room(buf) + 1]
              /\ Held(buf) \o SubSeq(src, 1, Room(buf)) \in Seq(Pairs)
<1> DEFINE r == Room(buf)
           n == Len(src)
           rest == SubSeq(src, r + 1, n)
           front == SubSeq(src, 1, r)
<1>1. r \in 0..BufSize /\ r <= n /\ n \in Nat
  <2>1. buf.len \in 0..SliceMax
    BY DEF Buffers
  <2> QED BY <2>1, UdpAssumption DEF Room
<1>2. rest \in Seq(Pairs) /\ Len(rest) = n - r /\ (r < n => rest[1] = src[r + 1])
  <2> HIDE DEF r
  <2> QED BY <1>1
<1>3. front \in Seq(Pairs)
  <2> HIDE DEF r
  <2> QED BY <1>1
<1> HIDE DEF rest, front, r
<1>4. buf.data \in [1..BufSize -> Pairs] /\ 1 \in 1..BufSize
  BY UdpAssumption DEF Buffers
<1>5. Overwrite(buf.data, rest) \in [1..BufSize -> Pairs]
  BY <1>2, <1>4, OverwriteOK
<1>6. \/ Overwrite(buf.data, rest)[1] = buf.data[1]
      \/ r < n /\ Overwrite(buf.data, rest)[1] = src[r + 1]
  <2>1. Overwrite(buf.data, rest)[1] = IF 1 <= Len(rest) THEN rest[1] ELSE buf.data[1]
    BY <1>4 DEF Overwrite
  <2> QED BY <1>1, <1>2, <2>1
<1>7. Kept(buf, rest) = [buf EXCEPT !.data = Overwrite(buf.data, rest)]
  BY DEF Kept
<1>8. /\ Kept(buf, rest) \in Buffers
      /\ Kept(buf, rest).len = buf.len
      /\ Kept(buf, rest).data = Overwrite(buf.data, rest)
  BY <1>5, <1>7 DEF Buffers
<1>9. Held(buf) \o front \in Seq(Pairs)
  BY <1>3, HeldOK
<1> QED BY <1>6, <1>8, <1>9 DEF rest, front, r

LEMMA FreedOK ==
    ASSUME NEW buf \in Buffers
    PROVE  Freed(buf) \in Buffers /\ Freed(buf).data = buf.data /\ Freed(buf).len = buf.len
BY DEF Freed, Buffers

LEMMA InitTyped == Init => Typed
<1> SUFFICES ASSUME Init PROVE Typed
  OBVIOUS
<1>1. bufs \in [BufIds -> Buffers]
  BY FreshOK DEF Init, BufIds
<1>2. /\ <<>> \in Seq(Commands) /\ <<>> \in Seq(Slices) /\ <<>> \in Seq(Frames)
      /\ <<>> \in Seq(Seq(Pairs))
  OBVIOUS
<1>3. 0 \in 0..MaxFaults /\ opened \in [BufIds -> Frames]
  BY UdpAssumption DEF Init, Frames, BufIds
<1> QED BY <1>1, <1>2, <1>3 DEF Init, Typed

\* What Begin(t) does for a command of length len, cut by.
Begins(t, len, by) ==
    LET c == Len(cmds) + 1
    IN /\ cmds' = Append(cmds, [len |-> len, by |-> by])
       /\ pending' = [pending EXCEPT ![t] = IF by = "generated" THEN GeneratedSlices(c, len)
                                           ELSE ProtocolSlices(c, len, t)]

LEMMA BeginTyped ==
    ASSUME Typed, NEW t \in Transactions, Begin(t)
    PROVE  Typed'
<1>1. PICK len \in Lengths, by \in Cuts : Begins(t, len, by)
  BY DEF Begin, Begins
<1> DEFINE c == Len(cmds) + 1
           slices == IF by = "generated" THEN GeneratedSlices(c, len)
                     ELSE ProtocolSlices(c, len, t)
           cmd == [len |-> len, by |-> by]
<1>2. c \in Nat
  BY DEF Typed
<1>3. slices \in Seq(Slices)
  <2> HIDE DEF c
  <2> QED BY <1>2, SlicesOK
<1>4. pending' = [pending EXCEPT ![t] = slices] /\ cmds' = Append(cmds, cmd)
  BY <1>1 DEF Begins
<1>5. cmd \in Commands
  BY DEF Commands
<1> HIDE DEF slices, cmd
<1>6. pending' \in [Transactions -> Seq(Slices)] /\ cmds' \in Seq(Commands)
  BY <1>3, <1>4, <1>5 DEF Typed
<1>7. UNCHANGED <<up, bufs, net, forwarded, faults, opened>>
  BY DEF Begin
<1> QED BY <1>6, <1>7 DEF Typed

LEMMA TransmitTyped ==
    ASSUME Typed, NEW t \in Transactions, Transmit(t)
    PROVE  Typed'
<1>1. pending[t] \in Seq(Slices) /\ pending[t] # <<>> /\ net \in Seq(Frames)
  BY DEF Transmit, Typed
<1>2. Head(pending[t]) \in Slices /\ Head(pending[t]) \in Frames /\ Tail(pending[t]) \in Seq(Slices)
  BY <1>1 DEF Frames
<1>3. pending' \in [Transactions -> Seq(Slices)]
  <2>1. pending' = [pending EXCEPT ![t] = Tail(pending[t])]
    BY DEF Transmit
  <2> QED BY <1>2, <2>1 DEF Typed
<1>4. net' \in Seq(Frames) /\ faults' \in 0..MaxFaults
  <2>1. CASE net' = Append(net, Head(pending[t])) /\ UNCHANGED faults
    BY <1>1, <1>2, <2>1 DEF Typed
  <2>2. CASE faults < MaxFaults /\ faults' = faults + 1 /\ UNCHANGED net
    BY <1>1, <2>2, UdpAssumption DEF Typed
  <2> QED BY <2>1, <2>2 DEF Transmit
<1>5. UNCHANGED <<up, bufs, cmds, forwarded, opened>>
  BY DEF Transmit
<1> QED BY <1>3, <1>4, <1>5 DEF Typed

LEMMA BlankTyped ==
    ASSUME Typed, BlankOnBus
    PROVE  Typed'
<1>1. net' \in Seq(Frames)
  <2>1. Blank \in Frames
    BY DEF Frames
  <2> QED BY <2>1 DEF BlankOnBus, Typed
<1>2. faults' \in 0..MaxFaults
  BY UdpAssumption DEF BlankOnBus, Typed
<1> QED BY <1>1, <1>2 DEF BlankOnBus, Typed

LEMMA HandleTyped ==
    ASSUME Typed, Handle
    PROVE  Typed'
<1>1. CASE HandleFirst
  <2>1. PICK s : /\ Handling(s)
                 /\ bufs' = [bufs EXCEPT ![Index(s.seq)] = Filled(bufs[Index(s.seq)], s.data)]
                 /\ opened' = [opened EXCEPT ![Index(s.seq)] = s]
                 /\ UNCHANGED <<up, cmds, pending, forwarded, faults>>
    BY <1>1 DEF HandleFirst
  <2> DEFINE b == Index(s.seq)
             buf == Filled(bufs[b], s.data)
  <2>2. s \in Slices /\ net' \in Seq(Frames) /\ b \in BufIds
    BY <2>1, HandlingOK
  <2>3. buf \in Buffers
    <3>1. bufs[b] \in Buffers
      BY <2>2 DEF Typed
    <3> QED BY <2>2, <3>1, SliceFields, FilledOK
  <2>4. bufs' = [bufs EXCEPT ![b] = buf]
    BY <2>1
  <2> HIDE DEF b, buf
  <2>5. bufs' \in [BufIds -> Buffers]
    BY <2>2, <2>3, <2>4, BuffersSet
  <2>6. opened' \in [BufIds -> Frames]
    BY <2>1, <2>2 DEF Typed, Frames
  <2> QED BY <2>1, <2>2, <2>5, <2>6 DEF Typed
<1>2. CASE HandleLast
  <2>1. PICK s : /\ Handling(s)
                 /\ bufs' = [bufs EXCEPT ![Index(s.seq)] = Freed(bufs[Index(s.seq)])]
                 /\ forwarded' = Append(forwarded, Held(bufs[Index(s.seq)]) \o s.data)
                 /\ UNCHANGED <<up, cmds, pending, faults, opened>>
    BY <1>2 DEF HandleLast
  <2> DEFINE b == Index(s.seq)
             buf == Freed(bufs[b])
             h == Held(bufs[b])
  <2>2. s \in Slices /\ net' \in Seq(Frames) /\ b \in BufIds
    BY <2>1, HandlingOK
  <2>3. buf \in Buffers /\ h \in Seq(Pairs) /\ s.data \in Seq(Pairs)
    <3>1. bufs[b] \in Buffers
      BY <2>2 DEF Typed
    <3> QED BY <2>2, <3>1, SliceFields, FreedOK, HeldOK
  <2>4. bufs' = [bufs EXCEPT ![b] = buf] /\ forwarded' = Append(forwarded, h \o s.data)
    BY <2>1
  <2> HIDE DEF b, buf, h
  <2>5. bufs' \in [BufIds -> Buffers]
    BY <2>2, <2>3, <2>4, BuffersSet
  <2>6. forwarded' \in Seq(Seq(Pairs))
    <3>1. h \o s.data \in Seq(Pairs)
      BY <2>3
    <3> QED BY <2>4, <3>1 DEF Typed
  <2> QED BY <2>1, <2>2, <2>5, <2>6 DEF Typed
<1>3. CASE HandleMiddle
  <2>1. PICK s :
            LET b == Index(s.seq)
                room == Room(bufs[b])
            IN /\ Handling(s)
               /\ room <= Len(s.data)
               /\ bufs' = [bufs EXCEPT ![b] =
                             Kept(bufs[b], SubSeq(s.data, room + 1, Len(s.data)))]
               /\ forwarded' = Append(forwarded, Held(bufs[b]) \o SubSeq(s.data, 1, room))
               /\ UNCHANGED <<up, cmds, pending, faults, opened>>
    BY <1>3 DEF HandleMiddle
  <2> DEFINE b == Index(s.seq)
             buf == Kept(bufs[b], SubSeq(s.data, Room(bufs[b]) + 1, Len(s.data)))
             f == Held(bufs[b]) \o SubSeq(s.data, 1, Room(bufs[b]))
  <2>2. s \in Slices /\ net' \in Seq(Frames) /\ b \in BufIds
    BY <2>1, HandlingOK
  <2>3. buf \in Buffers /\ f \in Seq(Pairs)
    <3>1. bufs[b] \in Buffers
      BY <2>2 DEF Typed
    <3>2. s.data \in Seq(Pairs) /\ Len(s.data) \in 1..SliceMax /\ Room(bufs[b]) <= Len(s.data)
      BY <2>1, <2>2, SliceFields
    <3> HIDE DEF b
    <3> QED BY <3>1, <3>2, KeptOK
  <2>4. bufs' = [bufs EXCEPT ![b] = buf] /\ forwarded' = Append(forwarded, f)
    BY <2>1
  <2> HIDE DEF b, buf, f
  <2>5. bufs' \in [BufIds -> Buffers]
    BY <2>2, <2>3, <2>4, BuffersSet
  <2>6. forwarded' \in Seq(Seq(Pairs))
    BY <2>3, <2>4 DEF Typed
  <2> QED BY <2>1, <2>2, <2>5, <2>6 DEF Typed
<1>4. CASE HandlePanics
  <2>1. <<>> \in Seq(Frames)
    OBVIOUS
  <2> QED BY <1>4, <2>1 DEF HandlePanics, Typed
<1> QED BY <1>1, <1>2, <1>3, <1>4 DEF Handle

LEMMA RestartTyped ==
    ASSUME Typed, ServiceRestart
    PROVE  Typed'
BY FreshOK DEF ServiceRestart, Typed, BufIds

LEMMA TypedInvariant == Spec => []Typed
<1>1. Typed /\ [Next]_vars => Typed'
  <2>1. Typed /\ UNCHANGED vars => Typed'
    BY DEF Typed, vars
  <2> QED BY <2>1, BeginTyped, TransmitTyped, BlankTyped, HandleTyped, RestartTyped DEF Next
<1> QED BY <1>1, InitTyped, PTL DEF Spec

\* No slice, whatever was lost before it, makes a buffer hold more than a
\* slice or change its size.
THEOREM TypeCorrect == Spec => []TypeOK
<1>1. Typed => TypeOK
  <2> SUFFICES ASSUME Typed PROVE TypeOK
    OBVIOUS
  <2>1. ASSUME NEW b \in 0..(NBufs - 1)
        PROVE  /\ Len(bufs[b].data) = BufSize
               /\ bufs[b].len \in 0..SliceMax
               /\ bufs[b].available \in BOOLEAN
    <3>1. bufs[b] \in Buffers /\ BufSize \in Nat
      BY UdpAssumption DEF Typed, BufIds
    <3>2. bufs[b].data \in [1..BufSize -> Pairs] /\ bufs[b].len \in 0..SliceMax
          /\ bufs[b].available \in BOOLEAN
      BY <3>1 DEF Buffers
    <3> QED BY <3>1, <3>2
  <2> QED BY <2>1 DEF Typed, TypeOK
<1> QED BY <1>1, TypedInvariant, PTL

---------------------------------------------------------------------------
(* Sequences.                                                              *)

LEMMA TailElements ==
    ASSUME NEW S, NEW q \in Seq(S), q # <<>>
    PROVE  /\ 1 \in DOMAIN q /\ Head(q) = q[1]
           /\ Tail(q) \in Seq(S) /\ Len(Tail(q)) = Len(q) - 1
           /\ Len(q) \in Nat \ {0} /\ DOMAIN q = 1..Len(q)
           /\ \A i \in DOMAIN Tail(q) : i + 1 \in DOMAIN q /\ Tail(q)[i] = q[i + 1]
OBVIOUS

LEMMA AppendElements ==
    ASSUME NEW S, NEW q \in Seq(S), NEW e \in S
    PROVE  /\ Append(q, e) \in Seq(S) /\ Len(Append(q, e)) = Len(q) + 1
           /\ Len(q) \in Nat
           /\ \A i \in DOMAIN Append(q, e) :
                 \/ i \in DOMAIN q /\ Append(q, e)[i] = q[i]
                 \/ i = Len(q) + 1 /\ Append(q, e)[i] = e
OBVIOUS

---------------------------------------------------------------------------
(* Commands of two slices.  A slice names its command in its first byte; the *)
(* operators below take the slices under way, n, and the buffer of a        *)
(* number, so that the lemmas about them speak of one state or of two.     *)

FirstPart(c) == [k \in 1..SliceMax |-> <<c, k>>]
SecondPart(c, len) == [k \in 1..(len - SliceMax) |-> <<c, SliceMax + k>>]

Owner(s) == s.data[1][1]
At(s) == Index(s.seq)

\* s is a slice of a command that was begun.
OfCommand(s, begun) ==
    /\ s \in Slices
    /\ Owner(s) \in DOMAIN begun
    /\ s.data = IF s.last THEN SecondPart(Owner(s), begun[Owner(s)].len)
                ELSE FirstPart(Owner(s))

NoneOf(n, b, i, j) == \A k \in i..j : At(n[k]) # b

\* Once the first i slices under way are handled, buffer b holds the first
\* part of command c ...
Awaits(n, buf, b, i, c) ==
    \/ \E j \in 1..i : /\ At(n[j]) = b /\ ~n[j].last /\ Owner(n[j]) = c
                       /\ NoneOf(n, b, j + 1, i)
    \/ NoneOf(n, b, 1, i) /\ buf.available /\ Held(buf) = FirstPart(c)

\* ... or is free.
Frees(n, buf, b, i) ==
    \/ \E j \in 1..i : At(n[j]) = b /\ n[j].last /\ NoneOf(n, b, j + 1, i)
    \/ NoneOf(n, b, 1, i) /\ ~buf.available

LEMMA SamePrefix ==
    ASSUME NEW n, NEW m, NEW buf, NEW b, NEW i \in Nat, \A k \in 1..i : m[k] = n[k]
    PROVE  /\ \A c : Awaits(n, buf, b, i, c) => Awaits(m, buf, b, i, c)
           /\ Frees(n, buf, b, i) => Frees(m, buf, b, i)
<1>1. \A j \in Nat \ {0} : NoneOf(n, b, j, i) => NoneOf(m, b, j, i)
  BY DEF NoneOf
<1> QED BY <1>1 DEF Awaits, Frees

LEMMA OtherSlice ==
    ASSUME NEW n, NEW buf, NEW b, NEW i \in Nat, At(n[i + 1]) # b
    PROVE  /\ \A c : Awaits(n, buf, b, i, c) => Awaits(n, buf, b, i + 1, c)
           /\ Frees(n, buf, b, i) => Frees(n, buf, b, i + 1)
<1>1. \A j \in Nat : NoneOf(n, b, j, i) => NoneOf(n, b, j, i + 1)
  BY DEF NoneOf
<1> QED BY <1>1 DEF Awaits, Frees

LEMMA OwnSlice ==
    ASSUME NEW n, NEW buf, NEW b, NEW i \in Nat, At(n[i + 1]) = b
    PROVE  /\ ~n[i + 1].last => Awaits(n, buf, b, i + 1, Owner(n[i + 1]))
           /\ n[i + 1].last => Frees(n, buf, b, i + 1)
<1>1. NoneOf(n, b, i + 1 + 1, i + 1) /\ i + 1 \in 1..(i + 1)
  BY DEF NoneOf
<1> QED BY <1>1 DEF Awaits, Frees

\* m is n without its first slice, which was handled in the way it asks for.
LEMMA Handled ==
    ASSUME NEW n, NEW m, NEW buf, NEW b, NEW i \in Nat \ {0}, NEW after,
           \A k \in 1..(i - 1) : m[k] = n[k + 1],
           At(n[1]) # b => after = buf,
           At(n[1]) = b /\ ~n[1].last
               => after.available /\ Held(after) = FirstPart(Owner(n[1])),
           At(n[1]) = b /\ n[1].last => ~after.available
    PROVE  /\ \A c : Awaits(n, buf, b, i, c) => Awaits(m, after, b, i - 1, c)
           /\ Frees(n, buf, b, i) => Frees(m, after, b, i - 1)
<1>1. \A j \in 1..i : NoneOf(n, b, j + 1, i) => NoneOf(m, b, j, i - 1)
  <2> SUFFICES ASSUME NEW j \in 1..i, NoneOf(n, b, j + 1, i), NEW k \in j..(i - 1)
               PROVE  At(m[k]) # b
    BY DEF NoneOf
  <2>1. k + 1 \in (j + 1)..i /\ k \in 1..(i - 1)
    OBVIOUS
  <2> QED BY <2>1 DEF NoneOf
<1>2. NoneOf(n, b, 1, i) => NoneOf(m, b, 1, i - 1) /\ At(n[1]) # b
  <2>1. 1 \in 1..i /\ \A k \in 1..(i - 1) : k + 1 \in 1..i
    OBVIOUS
  <2> QED BY <2>1 DEF NoneOf
<1>3. ASSUME NEW c, Awaits(n, buf, b, i, c) PROVE Awaits(m, after, b, i - 1, c)
  <2>1. CASE \E j \in 1..i : /\ At(n[j]) = b /\ ~n[j].last /\ Owner(n[j]) = c
                             /\ NoneOf(n, b, j + 1, i)
    <3>1. PICK j \in 1..i : /\ At(n[j]) = b /\ ~n[j].last /\ Owner(n[j]) = c
                            /\ NoneOf(n, b, j + 1, i)
      BY <2>1
    <3>2. CASE j = 1
      BY <1>1, <3>1, <3>2 DEF Awaits
    <3>3. CASE j # 1
      <4>1. j - 1 \in 1..(i - 1) /\ m[j - 1] = n[j] /\ NoneOf(m, b, (j - 1) + 1, i - 1)
        BY <1>1, <3>1, <3>3
      <4> QED BY <3>1, <4>1 DEF Awaits
    <3> QED BY <3>2, <3>3
  <2>2. CASE NoneOf(n, b, 1, i) /\ buf.available /\ Held(buf) = FirstPart(c)
    BY <1>2, <2>2 DEF Awaits
  <2> QED BY <1>3, <2>1, <2>2 DEF Awaits
<1>4. ASSUME Frees(n, buf, b, i) PROVE Frees(m, after, b, i - 1)
  <2>1. CASE \E j \in 1..i : At(n[j]) = b /\ n[j].last /\ NoneOf(n, b, j + 1, i)
    <3>1. PICK j \in 1..i : At(n[j]) = b /\ n[j].last /\ NoneOf(n, b, j + 1, i)
      BY <2>1
    <3>2. CASE j = 1
      BY <1>1, <3>1, <3>2 DEF Frees
    <3>3. CASE j # 1
      <4>1. j - 1 \in 1..(i - 1) /\ m[j - 1] = n[j] /\ NoneOf(m, b, (j - 1) + 1, i - 1)
        BY <1>1, <3>1, <3>3
      <4> QED BY <3>1, <4>1 DEF Frees
    <3> QED BY <3>2, <3>3
  <2>2. CASE NoneOf(n, b, 1, i) /\ ~buf.available
    BY <1>2, <2>2 DEF Frees
  <2> QED BY <1>4, <2>1, <2>2 DEF Frees
<1> QED BY <1>3, <1>4

LEMMA TwoProtocolSlices ==
    ASSUME NEW len \in Lengths, NumSlices(len) = 2, NEW c \in Nat, NEW t
    PROVE  LET p == ProtocolSlices(c, len, t)
           IN /\ Len(p) = 2 /\ DOMAIN p = 1..2
              /\ p[1].seq = t /\ ~p[1].last /\ p[1].data = FirstPart(c)
              /\ p[2].seq = t /\ p[2].last /\ p[2].data = SecondPart(c, len)
<1>1. /\ SliceMax \in Nat \ {0} /\ len \in Nat
      /\ SliceMax < len /\ len <= 2 * SliceMax
  <2>1. SliceMax \in Nat \ {0} /\ len \in Nat
    BY UdpAssumption
  <2>2. SliceMax * (2 - 1) < len /\ len <= SliceMax * 2
    BY SliceCount
  <2> QED BY <2>1, <2>2
<1>2. NumSlices(len) = 2
  OBVIOUS
<1>3. Chunk(c, len, 0) = FirstPart(c)
  BY <1>1 DEF Chunk, FirstPart
<1>4. Chunk(c, len, 1) = SecondPart(c, len)
  <2>1. CASE len = 2 * SliceMax
    BY <1>1, <2>1 DEF Chunk, SecondPart
  <2>2. CASE len # 2 * SliceMax
    BY <1>1, <2>2 DEF Chunk, SecondPart
  <2> QED BY <2>1, <2>2
<1>5. ProtocolSlices(c, len, t) =
         [k \in 1..2 |-> [seq |-> t, last |-> k = 2, data |-> Chunk(c, len, k - 1)]]
  BY <1>2 DEF ProtocolSlices
<1> DEFINE p == ProtocolSlices(c, len, t)
           p1 == p[1]
           p2 == p[2]
<1>6. Len(p) = 2 /\ DOMAIN p = 1..2
  BY <1>5
<1>7. p1 = [seq |-> t, last |-> 1 = 2, data |-> FirstPart(c)]
  BY <1>3, <1>5
<1>8. p2 = [seq |-> t, last |-> 2 = 2, data |-> SecondPart(c, len)]
  BY <1>4, <1>5
<1> HIDE DEF p1, p2
<1>9. p1.seq = t /\ ~p1.last /\ p1.data = FirstPart(c)
  <2>1. p1.seq = t /\ p1.last = (1 = 2) /\ p1.data = FirstPart(c)
    BY <1>7
  <2>2. ~(1 = 2)
    OBVIOUS
  <2> QED BY <2>1, <2>2, Zenon
<1>10. p2.seq = t /\ p2.last /\ p2.data = SecondPart(c, len)
  BY <1>8
<1> QED BY <1>6, <1>9, <1>10 DEF p1, p2

\* The two parts of a command, one behind the other.
LEMMA Joined ==
    ASSUME NEW c \in Nat, NEW len \in Nat, SliceMax < len
    PROVE  FirstPart(c) \o SecondPart(c, len) = [i \in 1..len |-> <<c, i>>]
<1>1. SliceMax \in Nat
  BY UdpAssumption
<1> DEFINE f == FirstPart(c)
           g == SecondPart(c, len)
           w == [i \in 1..len |-> <<c, i>>]
<1>2. f \in Seq(Pairs) /\ Len(f) = SliceMax /\ \A k \in 1..SliceMax : f[k] = <<c, k>>
  BY <1>1 DEF FirstPart, Pairs
<1>3. /\ g \in Seq(Pairs) /\ Len(g) = len - SliceMax
      /\ \A k \in 1..(len - SliceMax) : g[k] = <<c, SliceMax + k>>
  BY <1>1 DEF SecondPart, Pairs
<1>4. w \in Seq(Pairs) /\ Len(w) = len /\ \A k \in 1..len : w[k] = <<c, k>>
  BY DEF Pairs
<1> HIDE DEF f, g, w
<1>5. /\ f \o g \in Seq(Pairs) /\ Len(f \o g) = len
      /\ \A k \in 1..len : (f \o g)[k] = IF k <= SliceMax THEN f[k] ELSE g[k - SliceMax]
  BY <1>1, <1>2, <1>3
<1>6. \A k \in 1..len : (f \o g)[k] = w[k]
  <2> SUFFICES ASSUME NEW k \in 1..len PROVE (f \o g)[k] = w[k]
    OBVIOUS
  <2>1. CASE k <= SliceMax
    <3>1. k \in 1..SliceMax
      BY <1>1, <2>1
    <3> QED BY <1>2, <1>4, <1>5, <2>1, <3>1
  <2>2. CASE ~(k <= SliceMax)
    <3>1. k - SliceMax \in 1..(len - SliceMax) /\ SliceMax + (k - SliceMax) = k
      BY <1>1, <2>2
    <3> QED BY <1>3, <1>4, <1>5, <2>2, <3>1
  <2> QED BY <2>1, <2>2
<1>7. f \o g = w
  BY <1>4, <1>5, <1>6, SeqEqual
<1> QED BY <1>7 DEF f, g, w

\* Every slice under way finds its buffer as it asks for it.
NetFits ==
    \A i \in DOMAIN net :
        /\ OfCommand(net[i], cmds)
        /\ IF net[i].last
           THEN Awaits(net, bufs[At(net[i])], At(net[i]), i - 1, Owner(net[i]))
           ELSE Frees(net, bufs[At(net[i])], At(net[i]), i - 1)

\* A transaction has both its slices to send, or the last one.
PendingFits ==
    \A t \in Transactions : pending[t] # <<>> =>
        LET p == pending[t]
            b == Index(t)
        IN /\ \A i \in DOMAIN p : OfCommand(p[i], cmds) /\ At(p[i]) = b
           /\ \/ /\ Len(p) = 2 /\ ~p[1].last /\ p[2].last /\ Owner(p[2]) = Owner(p[1])
                 /\ Frees(net, bufs[b], b, Len(net))
              \/ /\ Len(p) = 1 /\ p[1].last
                 /\ Awaits(net, bufs[b], b, Len(net), Owner(p[1]))

\* No two transactions share a buffer at a time, and the buffer of none is
\* free once everything under way is handled.
BuffersApart ==
    /\ \A t, u \in Transactions :
          t # u /\ pending[t] # <<>> /\ pending[u] # <<>> => Index(t) # Index(u)
    /\ \A b \in BufIds :
          (\A t \in Transactions : Index(t) = b => pending[t] = <<>>)
          => Frees(net, bufs[b], b, Len(net))

Pipe == up /\ NetFits /\ PendingFits /\ BuffersApart

\* The command of a message that was forwarded.
Sender(d) == d[1][1]

\* A command is forwarded, or its last slice is under way, or it is pending,
\* and no two of these.
Once ==
    /\ \A k \in DOMAIN forwarded :
          /\ Sender(forwarded[k]) \in DOMAIN cmds
          /\ forwarded[k] = CommandBytes(Sender(forwarded[k]))
    /\ \A j, k \in DOMAIN forwarded : j # k => Sender(forwarded[j]) # Sender(forwarded[k])
    /\ \A i \in DOMAIN net : net[i].last =>
          \A k \in DOMAIN forwarded : Sender(forwarded[k]) # Owner(net[i])
    /\ \A i, j \in DOMAIN net : i # j /\ net[i].last /\ net[j].last =>
          Owner(net[i]) # Owner(net[j])
    /\ \A t \in Transactions : pending[t] # <<>> =>
          /\ \A k \in DOMAIN forwarded : Sender(forwarded[k]) # Owner(pending[t][1])
          /\ \A i \in DOMAIN net : net[i].last => Owner(net[i]) # Owner(pending[t][1])
          /\ \A u \in Transactions : u # t /\ pending[u] # <<>> =>
                Owner(pending[u][1]) # Owner(pending[t][1])

WholeInv == Clean => Pipe /\ Once

LEMMA InitWhole == Init => Pipe /\ Once
<1> SUFFICES ASSUME Init PROVE Pipe /\ Once
  OBVIOUS
<1>1. DOMAIN <<>> = {} /\ Len(<<>>) = 0
  OBVIOUS
<1>2. \A t \in Transactions : pending[t] = <<>>
  BY DEF Init
<1>3. \A b \in BufIds : Frees(net, bufs[b], b, Len(net))
  BY <1>1 DEF Init, FreshBuf, BufIds, Frees, NoneOf
<1>4. Pipe
  BY <1>1, <1>2, <1>3 DEF Init, Pipe, NetFits, PendingFits, BuffersApart
<1>5. Once
  BY <1>1, <1>2 DEF Init, Once
<1> QED BY <1>4, <1>5

\* A slice of a command stays one when more commands are begun.
LEMMA StillOfCommand ==
    ASSUME Typed, NEW cmd, NEW s, OfCommand(s, cmds)
    PROVE  OfCommand(s, Append(cmds, cmd))
<1>1. /\ cmds \in Seq(Commands)
      /\ DOMAIN cmds \subseteq DOMAIN Append(cmds, cmd)
      /\ \A c \in DOMAIN cmds : Append(cmds, cmd)[c] = cmds[c]
  BY DEF Typed
<1> QED BY <1>1 DEF OfCommand

\* Both slices of the command are to be sent, and its buffer is free.
LEMMA BeginWhole ==
    ASSUME Clean', Typed, Pipe, Once, NEW t \in Transactions, Begin(t)
    PROVE  Pipe' /\ Once'
<1> DEFINE c == Len(cmds) + 1
           b == Index(t)
<1> DEFINE cmd(len, by) == [len |-> len, by |-> by]
<1>1. PICK len \in Lengths, by \in Cuts :
          /\ cmds' = Append(cmds, cmd(len, by))
          /\ pending' = [pending EXCEPT ![t] = IF by = "generated" THEN GeneratedSlices(c, len)
                                              ELSE ProtocolSlices(c, len, t)]
  BY DEF Begin
<1> DEFINE p == ProtocolSlices(c, len, t)
           new == cmd(len, by)
<1>2. /\ cmds \in Seq(Commands) /\ Len(cmds) \in Nat /\ c \in Nat /\ c \notin DOMAIN cmds
      /\ c \in DOMAIN cmds' /\ cmds'[c] = new
      /\ DOMAIN cmds \subseteq DOMAIN cmds'
      /\ \A d \in DOMAIN cmds : cmds'[d] = cmds[d]
  <2>1. new \in Commands /\ cmds' = Append(cmds, new)
    BY <1>1 DEF Commands
  <2> HIDE DEF new
  <2> QED BY <2>1 DEF Typed
<1>0. by # "generated" /\ NumSlices(len) = 2
  <2>1. cmds'[c].by = "protocol" /\ NumSlices(cmds'[c].len) = 2
    BY <1>2 DEF Clean
  <2> QED BY <1>2, <2>1
<1>3. UNCHANGED <<up, bufs, net, forwarded, faults>>
  BY DEF Begin
<1>4. pending'[t] = p /\ \A u \in Transactions : u # t => pending'[u] = pending[u]
  <2> HIDE DEF p
  <2> QED BY <1>0, <1>1 DEF Typed, p
<1>5. \A u \in Transactions : Index(u) = b => pending[u] = <<>>
  BY DEF Begin, Clean
<1>6. b \in BufIds
  BY UdpAssumption, IndexOK
<1>7. Frees(net, bufs[b], b, Len(net))
  BY <1>5, <1>6 DEF Pipe, BuffersApart
<1>8. /\ Len(p) = 2 /\ DOMAIN p = 1..2 /\ p # <<>>
      /\ p[1].seq = t /\ ~p[1].last /\ p[1].data = FirstPart(c)
      /\ p[2].seq = t /\ p[2].last /\ p[2].data = SecondPart(c, len)
  <2> HIDE DEF c
  <2>1. /\ Len(p) = 2 /\ DOMAIN p = 1..2
        /\ p[1].seq = t /\ ~p[1].last /\ p[1].data = FirstPart(c)
        /\ p[2].seq = t /\ p[2].last /\ p[2].data = SecondPart(c, len)
    BY <1>0, <1>2, TwoProtocolSlices
  <2>2. DOMAIN <<>> = {}
    OBVIOUS
  <2>3. p # <<>>
    <3> HIDE DEF p
    <3>1. 1 \in DOMAIN p
      BY <2>1
    <3> QED BY <2>2, <3>1, Zenon
  <2> QED BY <2>1, <2>3
<1>9. FirstPart(c)[1][1] = c /\ SecondPart(c, len)[1][1] = c
  <2>1. SliceMax \in Nat \ {0} /\ len \in Nat /\ len - SliceMax >= 1
    <3>1. SliceMax \in Nat \ {0} /\ len \in Nat
      BY UdpAssumption
    <3>2. SliceMax * (2 - 1) < len
      BY <1>0, SliceCount
    <3> QED BY <3>1, <3>2
  <2> QED BY <2>1 DEF FirstPart, SecondPart
<1>20. p[1] \in Slices /\ p[2] \in Slices
  <2> HIDE DEF c
  <2>1. p \in Seq(Slices)
    BY <1>2, SlicesOK
  <2>2. Len(p) = 2
    BY <1>8
  <2> HIDE DEF p
  <2> QED BY <2>1, <2>2
<1>21. cmds'[c].len = len
  BY <1>2
<1> HIDE DEF p, c
<1>10. /\ Owner(p[1]) = c /\ Owner(p[2]) = c
       /\ OfCommand(p[1], cmds') /\ OfCommand(p[2], cmds')
       /\ At(p[1]) = b /\ At(p[2]) = b
  BY <1>2, <1>8, <1>9, <1>20, <1>21 DEF Owner, OfCommand, At
<1> HIDE DEF b, new
<1>11. \A i \in DOMAIN net : OfCommand(net[i], cmds')
  BY <1>1, StillOfCommand DEF Pipe, NetFits
<1>12. NetFits'
  BY <1>3, <1>11 DEF Pipe, NetFits
<1>13. PendingFits'
  <2> SUFFICES ASSUME NEW u \in Transactions, pending'[u] # <<>>
               PROVE  LET q == pending'[u]
                          a == Index(u)
                      IN /\ \A i \in DOMAIN q : OfCommand(q[i], cmds') /\ At(q[i]) = a
                         /\ \/ /\ Len(q) = 2 /\ ~q[1].last /\ q[2].last
                               /\ Owner(q[2]) = Owner(q[1])
                               /\ Frees(net, bufs[a], a, Len(net))
                            \/ /\ Len(q) = 1 /\ q[1].last
                               /\ Awaits(net, bufs[a], a, Len(net), Owner(q[1]))
    BY <1>3 DEF PendingFits
  <2>1. CASE u = t
    <3>1. \A i \in DOMAIN p : i = 1 \/ i = 2
      BY <1>8
    <3> QED BY <1>4, <1>7, <1>8, <1>10, <2>1, <3>1 DEF b
  <2>2. CASE u # t
    <3>1. pending'[u] = pending[u]
      BY <1>4, <2>2
    <3>2. \A i \in DOMAIN pending[u] : OfCommand(pending[u][i], cmds')
      BY <1>1, <3>1, StillOfCommand DEF Pipe, PendingFits
    <3> QED BY <3>1, <3>2 DEF Pipe, PendingFits
  <2> QED BY <2>1, <2>2
<1>14. BuffersApart'
  <2>1. \A u, v \in Transactions :
           u # v /\ pending'[u] # <<>> /\ pending'[v] # <<>> => Index(u) # Index(v)
    BY <1>4, <1>5 DEF Pipe, BuffersApart, b
  <2>2. \A a \in BufIds :
           (\A u \in Transactions : Index(u) = a => pending'[u] = <<>>)
           => Frees(net, bufs[a], a, Len(net))
    BY <1>4, <1>5, <1>7 DEF Pipe, BuffersApart, b
  <2> QED BY <1>3, <2>1, <2>2 DEF BuffersApart
<1>15. Pipe'
  BY <1>3, <1>12, <1>13, <1>14 DEF Pipe
<1>16. \A k \in DOMAIN forwarded : Sender(forwarded[k]) # c
  BY <1>2 DEF Once
<1>17. \A i \in DOMAIN net : Owner(net[i]) # c
  BY <1>2 DEF Pipe, NetFits, OfCommand
<1>18. \A u \in Transactions : pending[u] # <<>> => Owner(pending[u][1]) # c
  <2> SUFFICES ASSUME NEW u \in Transactions, pending[u] # <<>>
               PROVE  Owner(pending[u][1]) # c
    OBVIOUS
  <2>1. 1 \in DOMAIN pending[u]
    <3> DEFINE q == pending[u]
    <3>1. q \in Seq(Slices) /\ q # <<>>
      BY DEF Typed
    <3> HIDE DEF q
    <3>2. 1 \in DOMAIN q
      BY <3>1
    <3> QED BY <3>2 DEF q
  <2> QED BY <1>2, <2>1 DEF Pipe, PendingFits, OfCommand
<1>19. Once'
  <2>1. \A k \in DOMAIN forwarded :
           /\ Sender(forwarded[k]) \in DOMAIN cmds'
           /\ forwarded[k] = CommandBytes(Sender(forwarded[k]))'
    <3> SUFFICES ASSUME NEW k \in DOMAIN forwarded
                 PROVE  /\ Sender(forwarded[k]) \in DOMAIN cmds'
                        /\ forwarded[k] = CommandBytes(Sender(forwarded[k]))'
      OBVIOUS
    <3> DEFINE d == Sender(forwarded[k])
    <3>1. d \in DOMAIN cmds /\ forwarded[k] = CommandBytes(d)
      BY DEF Once
    <3>2. forwarded'[k] = forwarded[k] /\ cmds'[d] = cmds[d] /\ d \in DOMAIN cmds'
      BY <1>2, <1>3, <3>1
    <3>3. CommandBytes(d)' = CommandBytes(d)
      BY <1>3, <3>2 DEF CommandBytes, Sender
    <3> QED BY <1>3, <3>1, <3>2, <3>3
  <2>2. \A u \in Transactions : pending'[u] # <<>> =>
           /\ \A k \in DOMAIN forwarded : Sender(forwarded[k]) # Owner(pending'[u][1])
           /\ \A i \in DOMAIN net : net[i].last => Owner(net[i]) # Owner(pending'[u][1])
           /\ \A v \in Transactions : v # u /\ pending'[v] # <<>> =>
                 Owner(pending'[v][1]) # Owner(pending'[u][1])
    BY <1>4, <1>10, <1>16, <1>17, <1>18 DEF Once
  <2> QED BY <1>3, <2>1, <2>2 DEF Once, CommandBytes
<1> QED BY <1>15, <1>19

\* A slice e goes to the end of those under way, n.
LEMMA Extended ==
    ASSUME NEW n \in Seq(Frames), NEW e \in Frames, NEW buf, NEW b
    PROVE  LET m == Append(n, e)
               L == Len(n)
           IN /\ \A i \in 0..L : \A c : Awaits(n, buf, b, i, c) => Awaits(m, buf, b, i, c)
              /\ \A i \in 0..L : Frees(n, buf, b, i) => Frees(m, buf, b, i)
              /\ At(e) # b =>
                    /\ \A c : Awaits(n, buf, b, L, c) => Awaits(m, buf, b, L + 1, c)
                    /\ Frees(n, buf, b, L) => Frees(m, buf, b, L + 1)
              /\ At(e) = b =>
                    /\ ~e.last => Awaits(m, buf, b, L + 1, Owner(e))
                    /\ e.last => Frees(m, buf, b, L + 1)
<1> DEFINE m == Append(n, e)
           L == Len(n)
<1>1. L \in Nat /\ (\A k \in 1..L : m[k] = n[k]) /\ m[L + 1] = e
  OBVIOUS
<1> HIDE DEF m, L
<1>2. ASSUME NEW i \in 0..L
      PROVE  /\ \A c : Awaits(n, buf, b, i, c) => Awaits(m, buf, b, i, c)
             /\ Frees(n, buf, b, i) => Frees(m, buf, b, i)
  <2>1. i \in Nat /\ \A k \in 1..i : m[k] = n[k]
    BY <1>1
  <2> QED BY <2>1, SamePrefix
<1>3. L \in 0..L
  BY <1>1
<1>4. At(e) # b =>
         /\ \A c : Awaits(m, buf, b, L, c) => Awaits(m, buf, b, L + 1, c)
         /\ Frees(m, buf, b, L) => Frees(m, buf, b, L + 1)
  BY <1>1, OtherSlice
<1>5. At(e) = b =>
         /\ ~e.last => Awaits(m, buf, b, L + 1, Owner(e))
         /\ e.last => Frees(m, buf, b, L + 1)
  BY <1>1, OwnSlice
<1> QED BY <1>2, <1>3, <1>4, <1>5 DEF m, L

\* What a transaction has left to send after its first slice.
LEMMA RestOfPending ==
    ASSUME NEW p \in Seq(Slices), p # <<>>
    PROVE  /\ Head(p) = p[1] /\ 1 \in DOMAIN p /\ p[1] \in Slices
           /\ Len(p) = 2 => /\ Tail(p) # <<>> /\ Len(Tail(p)) = 1 /\ Tail(p)[1] = p[2]
                            /\ DOMAIN Tail(p) = {1} /\ 2 \in DOMAIN p
           /\ Len(p) = 1 => Tail(p) = <<>>
<1> DEFINE q == Tail(p)
<1>1. /\ 1 \in DOMAIN p /\ Head(p) = p[1] /\ p[1] \in Slices
      /\ q \in Seq(Slices) /\ Len(q) = Len(p) - 1 /\ DOMAIN p = 1..Len(p)
      /\ \A i \in DOMAIN q : q[i] = p[i + 1]
  BY TailElements
<1> HIDE DEF q
<1>2. DOMAIN q = 1..Len(q)
  BY <1>1
<1>3. ASSUME Len(p) = 2
      PROVE  q # <<>> /\ Len(q) = 1 /\ q[1] = p[2] /\ DOMAIN q = {1} /\ 2 \in DOMAIN p
  <2>1. Len(q) = 1 /\ DOMAIN q = {1} /\ 2 \in DOMAIN p
    BY <1>1, <1>2, <1>3
  <2>2. q[1] = p[2]
    <3>1. 1 \in DOMAIN q /\ 1 + 1 = 2
      BY <2>1
    <3> QED BY <1>1, <3>1
  <2>3. q # <<>>
    <3>1. DOMAIN <<>> = {} /\ 1 \in DOMAIN q
      BY <2>1
    <3> QED BY <3>1, Zenon
  <2> QED BY <2>1, <2>2, <2>3
<1>4. Len(p) = 1 => q = <<>>
  BY <1>1, EmptySeq
<1> QED BY <1>1, <1>3, <1>4 DEF q

\* The slice sent finds its buffer as the transaction left it.
LEMMA TransmitWhole ==
    ASSUME Typed, Pipe, Once, NEW t \in Transactions, Transmit(t), faults' = faults
    PROVE  Pipe' /\ Once'
<1> DEFINE p == pending[t]
           e == p[1]
           b == Index(t)
           L == Len(net)
<1>1. /\ p \in Seq(Slices) /\ p # <<>> /\ net \in Seq(Frames) /\ L \in Nat
      /\ faults \in Nat
  BY UdpAssumption DEF Transmit, Typed
<1>2. /\ Head(p) = e /\ 1 \in DOMAIN p /\ e \in Frames
      /\ Len(p) = 2 => /\ Tail(p) # <<>> /\ Len(Tail(p)) = 1 /\ Tail(p)[1] = p[2]
                       /\ DOMAIN Tail(p) = {1} /\ 2 \in DOMAIN p
      /\ Len(p) = 1 => Tail(p) = <<>>
  <2> HIDE DEF p
  <2> QED BY <1>1, RestOfPending DEF Frames
<1>3. /\ up' = up /\ net' = Append(net, e)
      /\ UNCHANGED <<bufs, cmds, forwarded>>
      /\ pending'[t] = Tail(p)
      /\ \A u \in Transactions : u # t => pending'[u] = pending[u]
  <2>1. ~(faults' = faults + 1)
    BY <1>1
  <2> QED BY <1>2, <2>1 DEF Transmit, Typed
<1>4. /\ \A i \in DOMAIN p : OfCommand(p[i], cmds) /\ At(p[i]) = b
      /\ \/ /\ Len(p) = 2 /\ ~e.last /\ p[2].last /\ Owner(p[2]) = Owner(e)
            /\ Frees(net, bufs[b], b, L)
         \/ /\ Len(p) = 1 /\ e.last
            /\ Awaits(net, bufs[b], b, L, Owner(e))
  BY <1>1 DEF Pipe, PendingFits
<1>5. \A i \in DOMAIN net' :
         \/ i \in DOMAIN net /\ i - 1 \in 0..L /\ net'[i] = net[i]
         \/ i = L + 1 /\ net'[i] = e
  BY <1>1, <1>2, <1>3
<1>6. Len(net') = L + 1 /\ L \in 0..L
  BY <1>1, <1>2, <1>3
<1>7. OfCommand(e, cmds) /\ At(e) = b
  BY <1>2, <1>4
<1>8. ASSUME NEW a
      PROVE  /\ \A i \in 0..L : \A c : Awaits(net, bufs[a], a, i, c) => Awaits(net', bufs[a], a, i, c)
             /\ \A i \in 0..L : Frees(net, bufs[a], a, i) => Frees(net', bufs[a], a, i)
             /\ a # b => /\ \A c : Awaits(net, bufs[a], a, L, c)
                                   => Awaits(net', bufs[a], a, L + 1, c)
                         /\ Frees(net, bufs[a], a, L) => Frees(net', bufs[a], a, L + 1)
             /\ a = b => /\ ~e.last => Awaits(net', bufs[a], a, L + 1, Owner(e))
                         /\ e.last => Frees(net', bufs[a], a, L + 1)
  <2> HIDE DEF e, b
  <2> QED BY <1>1, <1>2, <1>3, <1>7, Extended
<1> HIDE DEF p, e, b, L
<1>9. NetFits'
  <2> SUFFICES ASSUME NEW i \in DOMAIN net'
               PROVE  /\ OfCommand(net'[i], cmds)
                      /\ IF net'[i].last
                         THEN Awaits(net', bufs[At(net'[i])], At(net'[i]), i - 1, Owner(net'[i]))
                         ELSE Frees(net', bufs[At(net'[i])], At(net'[i]), i - 1)
    BY <1>3 DEF NetFits
  <2>1. CASE i \in DOMAIN net /\ i - 1 \in 0..L /\ net'[i] = net[i]
    <3>1. /\ OfCommand(net[i], cmds)
          /\ IF net[i].last
             THEN Awaits(net, bufs[At(net[i])], At(net[i]), i - 1, Owner(net[i]))
             ELSE Frees(net, bufs[At(net[i])], At(net[i]), i - 1)
      BY <2>1 DEF Pipe, NetFits
    <3> QED BY <1>8, <2>1, <3>1
  <2>2. CASE i = L + 1 /\ net'[i] = e
    <3>1. i - 1 = L
      BY <1>1, <2>2
    <3> QED BY <1>4, <1>6, <1>7, <1>8, <2>2, <3>1
  <2> QED BY <1>5, <2>1, <2>2
<1>10. PendingFits'
  <2> SUFFICES ASSUME NEW u \in Transactions, pending'[u] # <<>>
               PROVE  LET q == pending'[u]
                          a == Index(u)
                      IN /\ \A i \in DOMAIN q : OfCommand(q[i], cmds) /\ At(q[i]) = a
                         /\ \/ /\ Len(q) = 2 /\ ~q[1].last /\ q[2].last
                               /\ Owner(q[2]) = Owner(q[1])
                               /\ Frees(net', bufs[a], a, Len(net'))
                            \/ /\ Len(q) = 1 /\ q[1].last
                               /\ Awaits(net', bufs[a], a, Len(net'), Owner(q[1]))
    BY <1>3 DEF PendingFits
  <2>1. CASE u = t
    <3>1. /\ Len(p) = 2 /\ ~e.last /\ p[2].last /\ Owner(p[2]) = Owner(e)
      BY <1>2, <1>3, <1>4, <2>1
    <3> DEFINE q == pending'[u]
    <3>2. /\ Len(q) = 1 /\ q[1] = p[2] /\ DOMAIN q = {1}
          /\ OfCommand(p[2], cmds) /\ At(p[2]) = b /\ Index(u) = b
      BY <1>2, <1>3, <1>4, <2>1, <3>1 DEF b
    <3>3. Awaits(net', bufs[b], b, L + 1, Owner(e))
      BY <1>8, <3>1
    <3> QED BY <1>6, <3>1, <3>2, <3>3
  <2>2. CASE u # t
    <3>1. pending'[u] = pending[u] /\ Index(u) # b
      BY <1>1, <1>3, <2>2 DEF Pipe, BuffersApart, b, p
    <3> DEFINE q == pending[u]
               a == Index(u)
    <3>2. /\ \A i \in DOMAIN q : OfCommand(q[i], cmds) /\ At(q[i]) = a
          /\ \/ /\ Len(q) = 2 /\ ~q[1].last /\ q[2].last /\ Owner(q[2]) = Owner(q[1])
                /\ Frees(net, bufs[a], a, L)
             \/ /\ Len(q) = 1 /\ q[1].last
                /\ Awaits(net, bufs[a], a, L, Owner(q[1]))
      BY <2>2, <3>1 DEF Pipe, PendingFits, L
    <3> HIDE DEF q, a
    <3>3. /\ \A c : Awaits(net, bufs[a], a, L, c) => Awaits(net', bufs[a], a, L + 1, c)
          /\ Frees(net, bufs[a], a, L) => Frees(net', bufs[a], a, L + 1)
      BY <1>8, <3>1 DEF a
    <3>4. /\ \A i \in DOMAIN q : OfCommand(q[i], cmds) /\ At(q[i]) = a
          /\ \/ /\ Len(q) = 2 /\ ~q[1].last /\ q[2].last /\ Owner(q[2]) = Owner(q[1])
                /\ Frees(net', bufs[a], a, L + 1)
             \/ /\ Len(q) = 1 /\ q[1].last
                /\ Awaits(net', bufs[a], a, L + 1, Owner(q[1]))
      BY <3>2, <3>3
    <3> QED BY <1>6, <3>1, <3>4 DEF q, a
  <2> QED BY <2>1, <2>2
<1>11. BuffersApart'
  <2>1. \A u, v \in Transactions :
           u # v /\ pending'[u] # <<>> /\ pending'[v] # <<>> => Index(u) # Index(v)
    <3>1. \A u \in Transactions : pending'[u] # <<>> => pending[u] # <<>>
      BY <1>1, <1>3 DEF p
    <3> QED BY <3>1 DEF Pipe, BuffersApart
  <2>2. ASSUME NEW a \in BufIds,
               \A u \in Transactions : Index(u) = a => pending'[u] = <<>>
        PROVE  Frees(net', bufs[a], a, L + 1)
    <3>1. CASE a = b
      <4>1. pending'[t] = <<>>
        BY <2>2, <3>1 DEF b
      <4>2. e.last
        BY <1>2, <1>3, <1>4, <4>1
      <4> QED BY <1>8, <3>1, <4>2
    <3>2. CASE a # b
      <4>1. \A u \in Transactions : Index(u) = a => pending[u] = <<>>
        BY <1>3, <2>2, <3>2 DEF b
      <4>2. Frees(net, bufs[a], a, L)
        BY <4>1 DEF Pipe, BuffersApart, L
      <4> QED BY <1>8, <3>2, <4>2
    <3> QED BY <3>1, <3>2
  <2> QED BY <1>3, <1>6, <2>1, <2>2 DEF BuffersApart
<1>12. Pipe'
  BY <1>3, <1>9, <1>10, <1>11 DEF Pipe
<1>13. Once'
  <2>1. /\ \A k \in DOMAIN forwarded : Sender(forwarded[k]) # Owner(e)
        /\ \A i \in DOMAIN net : net[i].last => Owner(net[i]) # Owner(e)
        /\ \A u \in Transactions : u # t /\ pending[u] # <<>> =>
              Owner(pending[u][1]) # Owner(e)
    BY <1>1 DEF Once, p, e
  <2>2. \A u \in Transactions : pending'[u] # <<>> =>
           /\ pending[u] # <<>> /\ Owner(pending'[u][1]) = Owner(pending[u][1])
           /\ u = t => ~e.last
    BY <1>1, <1>2, <1>3, <1>4 DEF p, e
  <2>3. \A i \in DOMAIN net' : net'[i].last =>
           \A k \in DOMAIN forwarded : Sender(forwarded[k]) # Owner(net'[i])
    BY <1>5, <2>1 DEF Once
  <2>4. \A i, j \in DOMAIN net' : i # j /\ net'[i].last /\ net'[j].last =>
           Owner(net'[i]) # Owner(net'[j])
    BY <1>5, <2>1 DEF Once
  <2>5. ASSUME NEW u \in Transactions, pending'[u] # <<>>
        PROVE  /\ \A k \in DOMAIN forwarded : Sender(forwarded[k]) # Owner(pending'[u][1])
               /\ \A i \in DOMAIN net' : net'[i].last =>
                     Owner(net'[i]) # Owner(pending'[u][1])
               /\ \A v \in Transactions : v # u /\ pending'[v] # <<>> =>
                     Owner(pending'[v][1]) # Owner(pending'[u][1])
    <3>1. /\ \A k \in DOMAIN forwarded : Sender(forwarded[k]) # Owner(pending'[u][1])
          /\ \A v \in Transactions : v # u /\ pending'[v] # <<>> =>
                Owner(pending'[v][1]) # Owner(pending'[u][1])
      BY <2>2, <2>5 DEF Once
    <3>2. \A i \in DOMAIN net' : net'[i].last => Owner(net'[i]) # Owner(pending'[u][1])
      <4>1. \A i \in DOMAIN net : net[i].last => Owner(net[i]) # Owner(pending[u][1])
        BY <2>2, <2>5 DEF Once
      <4>2. e.last => Owner(e) # Owner(pending[u][1])
        BY <2>1, <2>2, <2>5
      <4> QED BY <1>5, <2>2, <2>5, <4>1, <4>2
    <3> QED BY <3>1, <3>2
  <2>6. /\ \A k \in DOMAIN forwarded :
              /\ Sender(forwarded[k]) \in DOMAIN cmds
              /\ forwarded[k] = CommandBytes(Sender(forwarded[k]))
        /\ \A j, k \in DOMAIN forwarded : j # k => Sender(forwarded[j]) # Sender(forwarded[k])
    BY DEF Once
  <2> QED BY <1>3, <2>3, <2>4, <2>5, <2>6 DEF Once, CommandBytes
<1> QED BY <1>12, <1>13

\* The slice handled does to its buffer what those behind it wait for.
LEMMA TakePipe ==
    ASSUME Typed, Pipe, NEW s, Handling(s), NEW buf,
           UNCHANGED <<up, cmds, pending>>, bufs' = [bufs EXCEPT ![At(s)] = buf],
           ~s.last => buf.available /\ Held(buf) = FirstPart(Owner(s)),
           s.last => ~buf.available
    PROVE  Pipe'
<1> DEFINE L == Len(net)
<1>1. /\ s = net[1] /\ L \in Nat \ {0} /\ At(s) \in BufIds
      /\ net' \in Seq(Frames) /\ Len(net') = L - 1
      /\ \A i \in 1..(L - 1) : net'[i] = net[i + 1]
  BY HandlingOK DEF At
<1>2. DOMAIN net = 1..L /\ DOMAIN net' = 1..(L - 1)
  BY <1>1 DEF Typed
<1>3. /\ bufs'[At(s)] = buf
      /\ \A a \in BufIds : a # At(s) => bufs'[a] = bufs[a]
  BY <1>1 DEF Typed
<1> HIDE DEF L
<1>4. ASSUME NEW a \in BufIds, NEW i \in 1..L
      PROVE  /\ \A c : Awaits(net, bufs[a], a, i, c) => Awaits(net', bufs'[a], a, i - 1, c)
             /\ Frees(net, bufs[a], a, i) => Frees(net', bufs'[a], a, i - 1)
  <2> DEFINE after == bufs'[a]
             before == bufs[a]
             m == net'
  <2>1. i \in Nat \ {0} /\ \A k \in 1..(i - 1) : m[k] = net[k + 1]
    BY <1>1
  <2>2. /\ At(net[1]) # a => after = before
        /\ At(net[1]) = a => after = buf
    BY <1>1, <1>3
  <2> HIDE DEF after, before, m
  <2>3. /\ At(net[1]) = a /\ ~net[1].last
               => after.available /\ Held(after) = FirstPart(Owner(net[1]))
        /\ At(net[1]) = a /\ net[1].last => ~after.available
    BY <1>1, <2>2
  <2>4. /\ \A c : Awaits(net, before, a, i, c) => Awaits(m, after, a, i - 1, c)
        /\ Frees(net, before, a, i) => Frees(m, after, a, i - 1)
    BY <2>1, <2>2, <2>3, Handled
  <2> QED BY <2>4 DEF after, before, m
<1>5. \A i \in DOMAIN net' :
         i \in 1..L /\ i + 1 \in DOMAIN net /\ (i + 1) - 1 = i /\ net'[i] = net[i + 1]
  BY <1>1, <1>2
<1>6. NetFits'
  <2> SUFFICES ASSUME NEW i \in DOMAIN net'
               PROVE  /\ OfCommand(net'[i], cmds)
                      /\ IF net'[i].last
                         THEN Awaits(net', bufs'[At(net'[i])], At(net'[i]), i - 1,
                                     Owner(net'[i]))
                         ELSE Frees(net', bufs'[At(net'[i])], At(net'[i]), i - 1)
    BY DEF NetFits
  <2> DEFINE e == net'[i]
  <2>1. e = net[i + 1] /\ i + 1 \in DOMAIN net /\ (i + 1) - 1 = i /\ i \in 1..L
    BY <1>5
  <2>2. /\ OfCommand(e, cmds)
        /\ IF e.last THEN Awaits(net, bufs[At(e)], At(e), i, Owner(e))
           ELSE Frees(net, bufs[At(e)], At(e), i)
    BY <2>1 DEF Pipe, NetFits
  <2>3. At(e) \in BufIds
    <3>1. e \in Slices
      BY <2>2 DEF OfCommand
    <3>2. e.seq \in 0..127
      BY <3>1, SliceFields
    <3>3. e.seq \in Nat
      BY <3>2
    <3> QED BY <3>3, IndexOK DEF At
  <2> HIDE DEF e
  <2>4. /\ OfCommand(e, cmds)
        /\ IF e.last THEN Awaits(net', bufs'[At(e)], At(e), i - 1, Owner(e))
           ELSE Frees(net', bufs'[At(e)], At(e), i - 1)
    BY <1>4, <2>1, <2>2, <2>3
  <2> QED BY <2>4 DEF e
<1>7. L \in 1..L
  BY <1>1
<1>8. PendingFits'
  <2> SUFFICES ASSUME NEW u \in Transactions, pending[u] # <<>>
               PROVE  LET q == pending[u]
                          a == Index(u)
                      IN /\ \A i \in DOMAIN q : OfCommand(q[i], cmds) /\ At(q[i]) = a
                         /\ \/ /\ Len(q) = 2 /\ ~q[1].last /\ q[2].last
                               /\ Owner(q[2]) = Owner(q[1])
                               /\ Frees(net', bufs'[a], a, Len(net'))
                            \/ /\ Len(q) = 1 /\ q[1].last
                               /\ Awaits(net', bufs'[a], a, Len(net'), Owner(q[1]))
    BY DEF PendingFits
  <2> DEFINE q == pending[u]
             a == Index(u)
  <2>1. /\ \A i \in DOMAIN q : OfCommand(q[i], cmds) /\ At(q[i]) = a
        /\ \/ /\ Len(q) = 2 /\ ~q[1].last /\ q[2].last /\ Owner(q[2]) = Owner(q[1])
              /\ Frees(net, bufs[a], a, L)
           \/ /\ Len(q) = 1 /\ q[1].last
              /\ Awaits(net, bufs[a], a, L, Owner(q[1]))
    BY DEF Pipe, PendingFits, L
  <2>2. a \in BufIds
    <3>1. u \in Nat
      BY UdpAssumption
    <3> QED BY <3>1, IndexOK
  <2> HIDE DEF q, a
  <2>3. /\ \A i \in DOMAIN q : OfCommand(q[i], cmds) /\ At(q[i]) = a
        /\ \/ /\ Len(q) = 2 /\ ~q[1].last /\ q[2].last /\ Owner(q[2]) = Owner(q[1])
              /\ Frees(net', bufs'[a], a, L - 1)
           \/ /\ Len(q) = 1 /\ q[1].last
              /\ Awaits(net', bufs'[a], a, L - 1, Owner(q[1]))
    BY <1>4, <1>7, <2>1, <2>2
  <2> QED BY <1>1, <2>3 DEF q, a
<1>9. BuffersApart'
  <2>1. ASSUME NEW a \in BufIds,
               \A u \in Transactions : Index(u) = a => pending[u] = <<>>
        PROVE  Frees(net', bufs'[a], a, L - 1)
    <3>1. Frees(net, bufs[a], a, L)
      BY <2>1 DEF Pipe, BuffersApart, L
    <3> QED BY <1>4, <1>7, <3>1
  <2> QED BY <1>1, <2>1 DEF Pipe, BuffersApart
<1> QED BY <1>6, <1>8, <1>9 DEF Pipe

\* What the slice handled finds, and what its buffer can hold.
LEMMA Found ==
    ASSUME Typed, Pipe, NEW s, Handling(s)
    PROVE  /\ At(s) \in BufIds /\ bufs[At(s)] \in Buffers /\ s \in Slices
           /\ OfCommand(s, cmds)
           /\ bufs[At(s)].available <=> s.last
           /\ s.last => Held(bufs[At(s)]) = FirstPart(Owner(s))
<1>1. s = net[1] /\ Len(net) \in Nat \ {0} /\ At(s) \in BufIds /\ s \in Slices
  BY HandlingOK DEF At
<1>2. 1 \in DOMAIN net
  BY <1>1 DEF Typed
<1> DEFINE buf == bufs[At(s)]
<1>3. /\ OfCommand(s, cmds)
      /\ IF s.last THEN Awaits(net, buf, At(s), 0, Owner(s))
         ELSE Frees(net, buf, At(s), 0)
  BY <1>1, <1>2 DEF Pipe, NetFits
<1>4. buf \in Buffers
  BY <1>1 DEF Typed
<1> HIDE DEF buf
<1>5. 1..0 = {}
  OBVIOUS
<1>6. s.last => buf.available /\ Held(buf) = FirstPart(Owner(s))
  BY <1>3, <1>5 DEF Awaits
<1>7. ~s.last => ~buf.available
  BY <1>3, <1>5 DEF Frees
<1> QED BY <1>1, <1>3, <1>4, <1>6, <1>7 DEF buf

LEMMA FirstOnce ==
    ASSUME Typed, Once, NEW s, Handling(s), UNCHANGED <<cmds, pending, forwarded>>
    PROVE  Once'
<1>1. \A i \in DOMAIN net' : i + 1 \in DOMAIN net /\ net'[i] = net[i + 1] /\ i \in Nat
  <2>1. /\ Len(net) \in Nat \ {0} /\ net' \in Seq(Frames) /\ Len(net') = Len(net) - 1
        /\ \A i \in 1..Len(net') : net'[i] = net[i + 1]
    BY HandlingOK
  <2>2. DOMAIN net' = 1..Len(net') /\ DOMAIN net = 1..Len(net)
    BY <2>1 DEF Typed
  <2> QED BY <2>1, <2>2
<1>2. \A i \in DOMAIN net' : net'[i].last =>
         \A k \in DOMAIN forwarded : Sender(forwarded[k]) # Owner(net'[i])
  BY <1>1 DEF Once
<1>3. \A i, j \in DOMAIN net' : i # j /\ net'[i].last /\ net'[j].last =>
         Owner(net'[i]) # Owner(net'[j])
  <2> SUFFICES ASSUME NEW i \in DOMAIN net', NEW j \in DOMAIN net', i # j,
                      net'[i].last, net'[j].last
               PROVE  Owner(net'[i]) # Owner(net'[j])
    OBVIOUS
  <2>1. i + 1 # j + 1
    BY <1>1
  <2> QED BY <1>1, <2>1 DEF Once
<1>4. \A t \in Transactions : pending[t] # <<>> =>
         \A i \in DOMAIN net' : net'[i].last => Owner(net'[i]) # Owner(pending[t][1])
  BY <1>1 DEF Once
<1> QED BY <1>2, <1>3, <1>4 DEF Once, CommandBytes

\* The command goes from the slices under way to the messages forwarded.
LEMMA LastOnce ==
    ASSUME Typed, Once, NEW s, Handling(s), UNCHANGED <<cmds, pending>>, s.last,
           NEW d, forwarded' = Append(forwarded, d), Sender(d) = Owner(s),
           Owner(s) \in DOMAIN cmds, d = CommandBytes(Owner(s))
    PROVE  Once'
<1>1. \A i \in DOMAIN net' :
         i + 1 \in DOMAIN net /\ net'[i] = net[i + 1] /\ i \in Nat \ {0}
  <2>1. /\ Len(net) \in Nat \ {0} /\ net' \in Seq(Frames) /\ Len(net') = Len(net) - 1
        /\ \A i \in 1..Len(net') : net'[i] = net[i + 1]
    BY HandlingOK
  <2>2. DOMAIN net' = 1..Len(net') /\ DOMAIN net = 1..Len(net)
    BY <2>1 DEF Typed
  <2> QED BY <2>1, <2>2
<1>2. 1 \in DOMAIN net /\ net[1] = s
  <2>1. s = net[1] /\ Len(net) \in Nat \ {0}
    BY HandlingOK
  <2> QED BY <2>1 DEF Typed
<1>3. \A k \in DOMAIN forwarded' :
         \/ k \in DOMAIN forwarded /\ forwarded'[k] = forwarded[k]
         \/ k = Len(forwarded) + 1 /\ forwarded'[k] = d
  BY DEF Typed
<1>4. \A k \in DOMAIN forwarded : Sender(forwarded[k]) # Owner(s)
  BY <1>2 DEF Once
<1>5. \A i \in DOMAIN net' : net'[i].last => Owner(net'[i]) # Owner(s)
  <2> SUFFICES ASSUME NEW i \in DOMAIN net', net'[i].last
               PROVE  Owner(net'[i]) # Owner(s)
    OBVIOUS
  <2>1. i + 1 # 1
    BY <1>1
  <2> QED BY <1>1, <1>2, <2>1 DEF Once
<1>6. \A t \in Transactions : pending[t] # <<>> => Owner(pending[t][1]) # Owner(s)
  BY <1>2 DEF Once
<1>7. \A k \in DOMAIN forwarded' :
         /\ Sender(forwarded'[k]) \in DOMAIN cmds
         /\ forwarded'[k] = CommandBytes(Sender(forwarded'[k]))
  BY <1>3 DEF Once
<1>8. \A j, k \in DOMAIN forwarded' : j # k =>
         Sender(forwarded'[j]) # Sender(forwarded'[k])
  BY <1>3, <1>4 DEF Once
<1>9. \A i \in DOMAIN net' : net'[i].last =>
         \A k \in DOMAIN forwarded' : Sender(forwarded'[k]) # Owner(net'[i])
  BY <1>1, <1>3, <1>5 DEF Once
<1>10. \A i, j \in DOMAIN net' : i # j /\ net'[i].last /\ net'[j].last =>
          Owner(net'[i]) # Owner(net'[j])
  <2> SUFFICES ASSUME NEW i \in DOMAIN net', NEW j \in DOMAIN net', i # j,
                      net'[i].last, net'[j].last
               PROVE  Owner(net'[i]) # Owner(net'[j])
    OBVIOUS
  <2>1. i + 1 # j + 1
    BY <1>1
  <2> QED BY <1>1, <2>1 DEF Once
<1>11. \A t \in Transactions : pending[t] # <<>> =>
          /\ \A k \in DOMAIN forwarded' : Sender(forwarded'[k]) # Owner(pending[t][1])
          /\ \A i \in DOMAIN net' : net'[i].last => Owner(net'[i]) # Owner(pending[t][1])
          /\ \A u \in Transactions : u # t /\ pending[u] # <<>> =>
                Owner(pending[u][1]) # Owner(pending[t][1])
  BY <1>1, <1>3, <1>6 DEF Once
<1>12. \A k \in DOMAIN forwarded' :
          /\ Sender(forwarded'[k]) \in DOMAIN cmds'
          /\ forwarded'[k] = CommandBytes(Sender(forwarded[k]))'
  BY <1>7 DEF CommandBytes, Sender
<1> QED BY <1>8, <1>9, <1>10, <1>11, <1>12 DEF Once, Sender

LEMMA HandleWhole ==
    ASSUME Clean, Typed, Pipe, Once, Handle
    PROVE  Pipe' /\ Once'
<1>1. CASE HandleFirst
  <2>1. PICK s : /\ Handling(s) /\ ~bufs[At(s)].available
                 /\ bufs' = [bufs EXCEPT ![At(s)] = Filled(bufs[At(s)], s.data)]
                 /\ UNCHANGED <<up, cmds, pending, forwarded, faults>>
    BY <1>1 DEF HandleFirst, At
  <2> DEFINE old == bufs[At(s)]
             buf == Filled(old, s.data)
  <2>2. /\ old \in Buffers /\ s \in Slices /\ ~s.last /\ OfCommand(s, cmds)
    BY <2>1, Found
  <2>3. s.data \in Seq(Pairs) /\ Len(s.data) \in 1..SliceMax /\ s.data = FirstPart(Owner(s))
    BY <2>2, SliceFields DEF OfCommand
  <2>4. bufs' = [bufs EXCEPT ![At(s)] = buf]
    BY <2>1
  <2> HIDE DEF old
  <2>5. Held(buf) = s.data
    BY <2>2, <2>3, FilledOK
  <2>6. buf.available
    BY DEF Filled
  <2> HIDE DEF buf
  <2>7. Pipe'
    BY <2>1, <2>2, <2>3, <2>4, <2>5, <2>6, TakePipe
  <2> QED BY <2>1, <2>7, FirstOnce
<1>2. CASE HandleLast
  <2>1. PICK s : /\ Handling(s) /\ bufs[At(s)].available /\ s.last
                 /\ bufs' = [bufs EXCEPT ![At(s)] = Freed(bufs[At(s)])]
                 /\ forwarded' = Append(forwarded, Held(bufs[At(s)]) \o s.data)
                 /\ UNCHANGED <<up, cmds, pending, faults>>
    BY <1>2 DEF HandleLast, At
  <2> DEFINE old == bufs[At(s)]
             buf == Freed(old)
             c == Owner(s)
             d == Held(old) \o s.data
  <2>2. /\ old \in Buffers /\ OfCommand(s, cmds) /\ Held(old) = FirstPart(c)
    BY <2>1, Found
  <2>3. c \in DOMAIN cmds /\ s.data = SecondPart(c, cmds[c].len)
    BY <2>1, <2>2 DEF OfCommand
  <2>4. c \in Nat /\ cmds[c].len \in Nat /\ SliceMax < cmds[c].len
    <3> HIDE DEF c
    <3>1. cmds \in Seq(Commands) /\ c \in 1..Len(cmds)
      BY <2>3 DEF Typed
    <3>2. c \in Nat /\ cmds[c] \in Commands
      BY <3>1
    <3>3. cmds[c].len \in Lengths /\ NumSlices(cmds[c].len) = 2
      BY <2>3, <3>2 DEF Commands, Clean
    <3> DEFINE len == cmds[c].len
    <3> HIDE DEF len
    <3>4. SliceMax * (2 - 1) < len
      BY <3>3, SliceCount DEF len
    <3>5. len \in Nat /\ SliceMax \in Nat
      BY <3>3, UdpAssumption DEF len
    <3>6. SliceMax < len
      BY <3>4, <3>5
    <3> QED BY <3>2, <3>5, <3>6 DEF len
  <2>5. bufs' = [bufs EXCEPT ![At(s)] = buf] /\ forwarded' = Append(forwarded, d)
    BY <2>1
  <2>6. d = CommandBytes(c)
    <3>1. d = FirstPart(c) \o SecondPart(c, cmds[c].len)
      BY <2>2, <2>3
    <3> HIDE DEF d, c
    <3> QED BY <2>4, <3>1, Joined DEF CommandBytes
  <2>7. Sender(d) = c
    <3> HIDE DEF d, c
    <3>1. 1 \in 1..cmds[c].len
      BY <2>4, UdpAssumption
    <3> QED BY <2>6, <3>1 DEF CommandBytes, Sender
  <2> HIDE DEF old
  <2>8. ~buf.available
    BY <2>2 DEF Freed, Buffers
  <2> HIDE DEF buf, d
  <2>9. Pipe'
    BY <2>1, <2>5, <2>8, TakePipe
  <2> QED BY <2>1, <2>3, <2>5, <2>6, <2>7, <2>9, LastOnce
<1>3. ASSUME HandleMiddle PROVE FALSE
  <2>1. PICK s : Handling(s) /\ bufs[At(s)].available /\ ~s.last
    BY <1>3 DEF HandleMiddle, At
  <2> QED BY <2>1, Found
<1>4. ASSUME HandlePanics PROVE FALSE
  <2> DEFINE s == Head(net)
  <2>0. net # <<>> /\ net \in Seq(Frames)
    BY <1>4 DEF HandlePanics, Typed
  <2>2. 1 \in DOMAIN net /\ s = net[1] /\ s \in Slices
    <3>1. 1 \in DOMAIN net /\ s = net[1]
      BY <2>0, TailElements
    <3> QED BY <3>1 DEF Pipe, NetFits, OfCommand
  <2>1. up /\ net # <<>> /\ bufs[At(s)].available /\ ~s.last
    <3>1. s # Blank
      <4> HIDE DEF s
      <4> QED BY <2>2, SliceFields DEF Blank
    <3> QED BY <1>4, <3>1 DEF HandlePanics, Panics, At
  <2> HIDE DEF s
  <2>3. At(s) \in BufIds /\ bufs[At(s)] \in Buffers
    <3>1. s.seq \in 0..127
      BY <2>2, SliceFields
    <3>2. s.seq \in Nat
      BY <3>1
    <3> QED BY <3>2, IndexOK DEF At, Typed
  <2>4. Frees(net, bufs[At(s)], At(s), 0)
    <3>1. Frees(net, bufs[At(net[1])], At(net[1]), 1 - 1)
      BY <2>1, <2>2 DEF Pipe, NetFits
    <3> QED BY <2>2, <3>1
  <2>5. 1..0 = {}
    OBVIOUS
  <2> QED BY <2>1, <2>4, <2>5 DEF Frees
<1> QED BY <1>1, <1>2, <1>3, <1>4 DEF Handle

\* Commands stay clean only if they were.
LEMMA WasClean ==
    ASSUME Typed, [Next]_vars, Clean'
    PROVE  /\ Clean /\ faults' = faults
           /\ ~BlankOnBus
<1>1. faults' = 0 /\ ~mixed' /\ faults \in Nat
  BY UdpAssumption DEF Clean, Typed
<1>2. /\ faults' = faults \/ faults' = faults + 1
      /\ mixed => mixed'
      /\ BlankOnBus => faults' = faults + 1
  <2>1. CASE \E t \in Transactions : Begin(t)
    <3>1. PICK t \in Transactions : Begin(t)
      BY <2>1
    <3>2. faults' = faults /\ (mixed => mixed')
      BY <3>1 DEF Begin
    <3>3. ~BlankOnBus \/ faults' = faults + 1
      BY DEF BlankOnBus
    <3> QED BY <3>2, <3>3
  <2>2. CASE \E t \in Transactions : Transmit(t)
    BY <2>2 DEF Transmit, BlankOnBus
  <2>3. CASE BlankOnBus
    BY <2>3 DEF BlankOnBus
  <2>4. CASE Handle \/ ServiceRestart \/ UNCHANGED vars
    <3>1. faults' = faults /\ mixed' = mixed
      BY <2>4 DEF Handle, HandleFirst, HandleLast, HandleMiddle, HandlePanics,
             ServiceRestart, vars
    <3>2. BlankOnBus => faults' = faults + 1
      BY DEF BlankOnBus
    <3> QED BY <3>1, <3>2
  <2> QED BY <2>1, <2>2, <2>3, <2>4 DEF Next
<1>3. \A c \in DOMAIN cmds : c \in DOMAIN cmds' /\ cmds'[c] = cmds[c]
  <2>1. CASE \E t \in Transactions : Begin(t)
    <3>1. PICK len \in Lengths, by \in Cuts : cmds' = Append(cmds, [len |-> len, by |-> by])
      BY <2>1 DEF Begin
    <3> DEFINE new == [len |-> len, by |-> by]
    <3>2. cmds' = Append(cmds, new) /\ new \in Commands
      BY <3>1 DEF Commands
    <3> HIDE DEF new
    <3> QED BY <3>2 DEF Typed
  <2>2. CASE ~\E t \in Transactions : Begin(t)
    BY <2>2 DEF Next, Transmit, BlankOnBus, Handle, HandleFirst, HandleLast,
           HandleMiddle, HandlePanics, ServiceRestart, vars
  <2> QED BY <2>1, <2>2
<1> QED BY <1>1, <1>2, <1>3 DEF Clean

LEMMA WholeInvariant == Spec => []WholeInv
<1>1. Init => WholeInv
  BY InitWhole DEF WholeInv
<1>2. Typed /\ WholeInv /\ [Next]_vars => WholeInv'
  <2> SUFFICES ASSUME Typed, WholeInv, [Next]_vars, Clean'
               PROVE  Pipe' /\ Once'
    BY DEF WholeInv
  <2>0. Clean /\ Pipe /\ Once /\ faults' = faults /\ ~BlankOnBus
    BY WasClean DEF WholeInv
  <2>1. CASE UNCHANGED vars
    BY <2>0, <2>1 DEF vars, Pipe, NetFits, PendingFits, BuffersApart, Once, CommandBytes
  <2>2. CASE \E t \in Transactions : Begin(t)
    BY <2>0, <2>2, BeginWhole
  <2>3. CASE \E t \in Transactions : Transmit(t)
    BY <2>0, <2>3, TransmitWhole
  <2>4. CASE Handle
    BY <2>0, <2>4, HandleWhole
  <2>5. CASE ServiceRestart
    BY <2>0, <2>5 DEF ServiceRestart, Pipe
  <2> QED BY <2>0, <2>1, <2>2, <2>3, <2>4, <2>5 DEF Next
<1> QED BY <1>1, <1>2, TypedInvariant, PTL DEF Spec

\* While no slice is lost, no two commands are sent to one buffer at once and
\* each has two slices of the protocol, the fallback gets them whole and each
\* at most once, however many transactions, buffers and commands there are
\* and however their slices alternate.
THEOREM Whole == Spec => []ForwardedWhole
<1>1. WholeInv => ForwardedWhole
  BY DEF WholeInv, Once, ForwardedWhole
<1> QED BY <1>1, WholeInvariant, PTL

---------------------------------------------------------------------------
(* Panics.                                                                 *)

\* A slice of a command that was begun is full or carries its last byte.
FullOrLast(s, begun) ==
    LET n == Len(s.data)
        byte == s.data[n]
    IN /\ byte[1] \in DOMAIN begun
       /\ n = SliceMax \/ byte[2] = begun[byte[1]].len

\* What is under way, and what a taken buffer holds.
OpenedInv ==
    /\ \A t \in Transactions : \A i \in DOMAIN pending[t] : FullOrLast(pending[t][i], cmds)
    /\ \A i \in DOMAIN net : net[i] # Blank => FullOrLast(net[i], cmds)
    /\ \A b \in BufIds : bufs[b].available =>
          /\ opened[b] # Blank /\ FullOrLast(opened[b], cmds)
          /\ bufs[b].len = Len(opened[b].data)

LEMMA ChunkFullOrLast ==
    ASSUME NEW len \in Lengths, NEW c \in Nat, NEW i \in 0..(NumSlices(len) - 1)
    PROVE  LET d == Chunk(c, len, i)
               n == Len(d)
           IN n \in 1..SliceMax /\ d[n][1] = c /\ (n = SliceMax \/ d[n][2] = len)
<1> DEFINE d == Chunk(c, len, i)
           m == SliceMax * i
           size == IF SliceMax * (i + 1) <= len THEN SliceMax ELSE len - m
<1>1. SliceMax \in Nat \ {0} /\ len \in Nat \ {0} /\ i \in Nat
  BY SliceCount, UdpAssumption
<1>2. m \in Nat
  BY <1>1
<1>3. d = [k \in 1..size |-> <<c, m + k>>]
  BY DEF Chunk
<1>4. Len(d) \in 1..SliceMax /\ \A k \in 1..Len(d) : d[k] = <<c, m + k>>
  BY ChunkOK
<1>5. size = SliceMax \/ size = len - m
  OBVIOUS
<1>6. size \in Int
  BY <1>1, <1>2
<1> HIDE DEF size, m
<1>7. Len(d) = size
  <2>1. DOMAIN d = 1..size
    BY <1>3
  <2>2. DOMAIN d = 1..Len(d)
    <3>1. d \in Seq(Pairs)
      BY ChunkOK
    <3> HIDE DEF d
    <3> QED BY <3>1
  <2> HIDE DEF d
  <2>3. 1 \in 1..Len(d)
    BY <1>1, <1>4
  <2> QED BY <1>1, <1>4, <1>6, <2>1, <2>2, <2>3
<1> HIDE DEF d
<1>8. d[Len(d)] = <<c, m + Len(d)>>
  BY <1>1, <1>4
<1>9. d[Len(d)][1] = c /\ d[Len(d)][2] = m + Len(d)
  BY <1>8
<1> QED BY <1>1, <1>2, <1>4, <1>5, <1>7, <1>9 DEF d

LEMMA SlicesFullOrLast ==
    ASSUME NEW len \in Lengths, NEW c \in Nat, NEW t, NEW begun,
           c \in DOMAIN begun, begun[c].len = len
    PROVE  /\ \A k \in DOMAIN GeneratedSlices(c, len) :
                 FullOrLast(GeneratedSlices(c, len)[k], begun)
           /\ \A k \in DOMAIN ProtocolSlices(c, len, t) :
                 FullOrLast(ProtocolSlices(c, len, t)[k], begun)
<1> DEFINE N == NumSlices(len)
<1>1. N \in Nat
  BY SliceCount
<1>2. ASSUME NEW s, NEW k \in 1..N, s.data = Chunk(c, len, k - 1)
      PROVE  FullOrLast(s, begun)
  <2>1. k - 1 \in 0..(N - 1)
    BY <1>1
  <2> DEFINE d == Chunk(c, len, k - 1)
             n == Len(d)
  <2>2. d[n][1] = c /\ (n = SliceMax \/ d[n][2] = len)
    BY <2>1, ChunkFullOrLast
  <2>3. s.data = d
    BY <1>2
  <2> HIDE DEF d
  <2> QED BY <2>2, <2>3 DEF FullOrLast
<1>3. \A k \in DOMAIN ProtocolSlices(c, len, t) :
         k \in 1..N /\ ProtocolSlices(c, len, t)[k].data = Chunk(c, len, k - 1)
  BY DEF ProtocolSlices
<1>4. \A k \in DOMAIN GeneratedSlices(c, len) :
         k \in 1..N /\ GeneratedSlices(c, len)[k].data = Chunk(c, len, k - 1)
  BY DEF GeneratedSlices
<1> HIDE DEF N
<1> QED BY <1>2, <1>3, <1>4

\* More commands change nothing for those that were begun.
LEMMA StillFullOrLast ==
    ASSUME Typed, NEW cmd \in Commands, NEW s, FullOrLast(s, cmds)
    PROVE  FullOrLast(s, Append(cmds, cmd))
<1>1. \A c \in DOMAIN cmds :
         c \in DOMAIN Append(cmds, cmd) /\ Append(cmds, cmd)[c] = cmds[c]
  BY DEF Typed
<1> QED BY <1>1 DEF FullOrLast

LEMMA BeginOpened ==
    ASSUME Typed, OpenedInv, NEW t \in Transactions, Begin(t)
    PROVE  OpenedInv'
<1>1. PICK len \in Lengths, by \in Cuts : Begins(t, len, by)
  BY DEF Begin, Begins
<1> DEFINE c == Len(cmds) + 1
           slices == IF by = "generated" THEN GeneratedSlices(c, len)
                     ELSE ProtocolSlices(c, len, t)
           cmd == [len |-> len, by |-> by]
<1>2. pending' = [pending EXCEPT ![t] = slices] /\ cmds' = Append(cmds, cmd)
  BY <1>1 DEF Begins
<1>3. cmd \in Commands /\ cmd.len = len
  BY DEF Commands
<1>4. c \in Nat /\ c \in DOMAIN cmds' /\ cmds'[c].len = len
  <2> HIDE DEF cmd
  <2> QED BY <1>2, <1>3 DEF Typed
<1>5. \A i \in DOMAIN slices : FullOrLast(slices[i], cmds')
  <2> HIDE DEF c
  <2> QED BY <1>4, SlicesFullOrLast
<1> HIDE DEF slices, cmd, c
<1>6. \A s : FullOrLast(s, cmds) => FullOrLast(s, cmds')
  BY <1>2, <1>3, StillFullOrLast
<1>7. /\ pending'[t] = slices
      /\ \A u \in Transactions : u # t => pending'[u] = pending[u]
  BY <1>2 DEF Typed
<1>8. UNCHANGED <<net, bufs, opened>>
  BY DEF Begin
<1> QED BY <1>5, <1>6, <1>7, <1>8 DEF OpenedInv

LEMMA TransmitOpened ==
    ASSUME Typed, OpenedInv, NEW t \in Transactions, Transmit(t)
    PROVE  OpenedInv'
<1> DEFINE q == pending[t]
<1>1. q \in Seq(Slices) /\ q # <<>> /\ net \in Seq(Frames)
  BY DEF Transmit, Typed
<1>2. /\ pending'[t] = Tail(q)
      /\ \A u \in Transactions : u # t => pending'[u] = pending[u]
      /\ UNCHANGED <<bufs, cmds, opened>>
      /\ net' = net \/ net' = Append(net, Head(q))
  BY DEF Transmit, Typed
<1>3. \A i \in DOMAIN q : FullOrLast(q[i], cmds)
  BY DEF OpenedInv
<1> HIDE DEF q
<1>4. FullOrLast(Head(q), cmds) /\ Head(q) \in Frames
  BY <1>1, <1>3, TailElements DEF Frames
<1>5. \A i \in DOMAIN Tail(q) : FullOrLast(Tail(q)[i], cmds)
  BY <1>1, <1>3, TailElements
<1>6. \A i \in DOMAIN net' : net'[i] # Blank => FullOrLast(net'[i], cmds)
  BY <1>1, <1>2, <1>4, AppendElements DEF OpenedInv
<1>7. \A u \in Transactions : \A i \in DOMAIN pending'[u] : FullOrLast(pending'[u][i], cmds)
  BY <1>2, <1>5 DEF OpenedInv
<1> QED BY <1>2, <1>6, <1>7 DEF OpenedInv

LEMMA BlankOpened ==
    ASSUME Typed, OpenedInv, BlankOnBus
    PROVE  OpenedInv'
<1>1. net \in Seq(Frames) /\ net' = Append(net, Blank) /\ Blank \in Frames
      /\ UNCHANGED <<bufs, cmds, opened, pending>>
  BY DEF BlankOnBus, Typed, Frames
<1>2. \A i \in DOMAIN net' : net'[i] # Blank => FullOrLast(net'[i], cmds)
  BY <1>1, AppendElements DEF OpenedInv
<1> QED BY <1>1, <1>2 DEF OpenedInv

\* A slice is taken from net, and one buffer holds it, or stays taken, or is
\* freed.
LEMMA TakeOpened ==
    ASSUME Typed, OpenedInv, NEW s, Handling(s), NEW buf, UNCHANGED <<cmds, pending>>,
           bufs' = [bufs EXCEPT ![Index(s.seq)] = buf],
           \/ ~buf.available /\ opened' = opened
           \/ /\ buf.len = bufs[Index(s.seq)].len /\ bufs[Index(s.seq)].available
              /\ opened' = opened
           \/ buf.len = Len(s.data) /\ opened' = [opened EXCEPT ![Index(s.seq)] = s]
    PROVE  OpenedInv'
<1> DEFINE b == Index(s.seq)
<1>1. /\ Len(net) \in Nat \ {0} /\ net' \in Seq(Frames) /\ Len(net') = Len(net) - 1
      /\ s = net[1] /\ b \in BufIds
      /\ \A i \in 1..Len(net') : net'[i] = net[i + 1]
  BY HandlingOK
<1>2. DOMAIN net' = 1..Len(net') /\ DOMAIN net = 1..Len(net)
  BY <1>1 DEF Typed
<1>3. \A i \in DOMAIN net' : net'[i] # Blank => FullOrLast(net'[i], cmds)
  <2>1. \A i \in 1..Len(net') : i + 1 \in 1..Len(net)
    BY <1>1
  <2> QED BY <1>1, <1>2, <2>1 DEF OpenedInv
<1>4. s # Blank /\ FullOrLast(s, cmds)
  <2>1. 1 \in DOMAIN net /\ s # Blank
    BY <1>1, <1>2 DEF Handling
  <2> QED BY <1>1, <2>1 DEF OpenedInv
<1>5. \A a \in BufIds : bufs'[a] = IF a = b THEN buf ELSE bufs[a]
  BY DEF Typed
<1> HIDE DEF b
<1>6. ASSUME NEW a \in BufIds, bufs'[a].available
      PROVE  /\ opened'[a] # Blank /\ FullOrLast(opened'[a], cmds)
             /\ bufs'[a].len = Len(opened'[a].data)
  <2>1. CASE a # b
    <3>1. opened'[a] = opened[a] /\ bufs'[a] = bufs[a]
      BY <1>5, <2>1 DEF Typed, b
    <3> QED BY <1>6, <3>1 DEF OpenedInv
  <2>2. CASE a = b /\ opened' = opened
    <3>1. bufs'[a] = buf
      BY <1>5, <2>2
    <3>2. buf.available
      BY <1>6, <3>1
    <3>3. opened[b] # Blank /\ FullOrLast(opened[b], cmds) /\ bufs[b].available =>
             bufs[b].len = Len(opened[b].data)
      BY <1>1 DEF OpenedInv
    <3>4. CASE buf.len = bufs[b].len /\ bufs[b].available
      BY <1>1, <2>2, <3>1, <3>4 DEF OpenedInv
    <3>5. CASE buf.len = Len(s.data) /\ opened' = [opened EXCEPT ![b] = s]
      <4>1. opened'[a] = s
        BY <1>1, <2>2, <3>5 DEF Typed
      <4> QED BY <1>4, <3>1, <3>5, <4>1
    <3> QED BY <3>2, <3>4, <3>5 DEF b
  <2>3. CASE a = b /\ buf.len = Len(s.data) /\ opened' = [opened EXCEPT ![b] = s]
    <3>1. opened'[a] = s /\ bufs'[a] = buf
      BY <1>1, <1>5, <2>3 DEF Typed
    <3> QED BY <1>4, <2>3, <3>1
  <2> QED BY <2>1, <2>2, <2>3 DEF b
<1> QED BY <1>3, <1>6 DEF OpenedInv

LEMMA HandleOpened ==
    ASSUME Typed, OpenedInv, Handle
    PROVE  OpenedInv'
<1>1. CASE HandleFirst
  <2>1. PICK s : /\ Handling(s) /\ UNCHANGED <<cmds, pending>>
                 /\ bufs' = [bufs EXCEPT ![Index(s.seq)] = Filled(bufs[Index(s.seq)], s.data)]
                 /\ opened' = [opened EXCEPT ![Index(s.seq)] = s]
    BY <1>1 DEF HandleFirst
  <2> DEFINE buf == Filled(bufs[Index(s.seq)], s.data)
  <2>2. buf.len = Len(s.data)
    BY DEF Filled
  <2>3. bufs' = [bufs EXCEPT ![Index(s.seq)] = buf]
    BY <2>1
  <2> HIDE DEF buf
  <2> QED BY <2>1, <2>2, <2>3, TakeOpened
<1>2. CASE HandleLast
  <2>1. PICK s : /\ Handling(s) /\ UNCHANGED <<cmds, pending, opened>>
                 /\ bufs' = [bufs EXCEPT ![Index(s.seq)] = Freed(bufs[Index(s.seq)])]
    BY <1>2 DEF HandleLast
  <2> DEFINE buf == Freed(bufs[Index(s.seq)])
  <2>2. ~buf.available
    <3>1. bufs[Index(s.seq)] \in Buffers
      BY <2>1, HandlingOK DEF Typed
    <3> QED BY <3>1 DEF Freed, Buffers
  <2>3. bufs' = [bufs EXCEPT ![Index(s.seq)] = buf]
    BY <2>1
  <2> HIDE DEF buf
  <2> QED BY <2>1, <2>2, <2>3, TakeOpened
<1>3. CASE HandleMiddle
  <2>1. PICK s :
            LET b == Index(s.seq)
                room == Room(bufs[b])
            IN /\ Handling(s) /\ UNCHANGED <<cmds, pending, opened>>
               /\ bufs[b].available
               /\ bufs' = [bufs EXCEPT ![b] =
                             Kept(bufs[b], SubSeq(s.data, room + 1, Len(s.data)))]
    BY <1>3 DEF HandleMiddle
  <2> DEFINE rest == SubSeq(s.data, Room(bufs[Index(s.seq)]) + 1, Len(s.data))
             buf == Kept(bufs[Index(s.seq)], rest)
  <2>2. bufs[Index(s.seq)].available /\ bufs' = [bufs EXCEPT ![Index(s.seq)] = buf]
    BY <2>1
  <2> HIDE DEF rest
  <2>3. buf.len = bufs[Index(s.seq)].len
    <3>1. bufs[Index(s.seq)] \in Buffers
      BY <2>1, HandlingOK DEF Typed
    <3> QED BY <3>1 DEF Kept, Buffers
  <2> HIDE DEF buf
  <2> QED BY <2>1, <2>2, <2>3, TakeOpened
<1>4. CASE HandlePanics
  <2>1. net' = <<>> /\ DOMAIN <<>> = {} /\ UNCHANGED <<bufs, pending, cmds, opened>>
    BY <1>4 DEF HandlePanics
  <2> QED BY <2>1 DEF OpenedInv
<1> QED BY <1>1, <1>2, <1>3, <1>4 DEF Handle

LEMMA OpenedInvariant == Spec => []OpenedInv
<1>1. Init => OpenedInv
  <2>1. DOMAIN <<>> = {}
    OBVIOUS
  <2>2. Init => \A b \in BufIds : ~bufs[b].available
    BY DEF Init, FreshBuf, BufIds
  <2> QED BY <2>1, <2>2 DEF Init, OpenedInv
<1>2. Typed /\ OpenedInv /\ [Next]_vars => OpenedInv'
  <2>1. OpenedInv /\ UNCHANGED vars => OpenedInv'
    BY DEF OpenedInv, vars
  <2>2. OpenedInv /\ ServiceRestart => OpenedInv'
    BY DEF OpenedInv, ServiceRestart, FreshBuf, BufIds
  <2> QED BY <2>1, <2>2, BeginOpened, TransmitOpened, BlankOpened, HandleOpened DEF Next
<1> QED BY <1>1, <1>2, TypedInvariant, PTL DEF Spec

\* However commands are cut, mixed, lost or added to: where two full slices
\* fill a buffer, handle() ends the process only on a frame without data, on
\* a buffer opened by the end of a command, or on the unmarked end of one;
\* and never on the commands it is made for.
THEOREM PanicsAreExplained == BufSize <= 2 * SliceMax => (Spec => PanicsExplained)
<1> SUFFICES ASSUME BufSize <= 2 * SliceMax PROVE Spec => PanicsExplained
  OBVIOUS
<1> DEFINE Explained ==
        LET s == Head(net)
        IN /\ ~Clean
           /\ \/ s = Blank
              \/ EndsCommand(opened[Index(s.seq)])
              \/ EndsCommand(s) /\ ~s.last
<1>1. ASSUME Typed, WholeInv, OpenedInv, [Next]_vars, up, ~up' PROVE Explained
  <2>1. HandlePanics
    BY <1>1 DEF Next, Begin, Transmit, BlankOnBus, Handle, HandleFirst, HandleLast,
           HandleMiddle, ServiceRestart, vars
  <2>2. ~Clean
    <3> SUFFICES ASSUME Clean PROVE FALSE
      OBVIOUS
    <3>1. Pipe'
      BY <1>1, <2>1, HandleWhole DEF WholeInv, Handle
    <3> QED BY <1>1, <3>1 DEF Pipe
  <2> DEFINE s == Head(net)
             b == Index(s.seq)
  <2>3. ASSUME s # Blank, ~EndsCommand(opened[b]) PROVE EndsCommand(s) /\ ~s.last
    <3>1. net # <<>> /\ bufs[b].available /\ ~s.last /\ Room(bufs[b]) > Len(s.data)
      BY <2>1, <2>3 DEF HandlePanics, Panics
    <3>2. 1 \in DOMAIN net /\ s = net[1] /\ s \in Frames
      <4>1. net \in Seq(Frames) /\ net # <<>>
        BY <1>1, <3>1 DEF Typed
      <4> QED BY <4>1, TailElements
    <3>3. s \in Slices
      BY <2>3, <3>2 DEF Frames
    <3>4. b \in BufIds
      <4>1. s.seq \in 0..127
        BY <3>3, SliceFields
      <4>2. s.seq \in Nat
        <5> HIDE DEF s
        <5> QED BY <4>1
      <4> QED BY <4>2, IndexOK
    <3>5. FullOrLast(s, cmds)
      BY <1>1, <2>3, <3>2 DEF OpenedInv
    <3>6. bufs[b].len = SliceMax
      <4>1. /\ opened[b] # Blank /\ FullOrLast(opened[b], cmds)
            /\ bufs[b].len = Len(opened[b].data)
        BY <1>1, <3>1, <3>4 DEF OpenedInv
      <4> HIDE DEF b
      <4> QED BY <2>3, <4>1 DEF FullOrLast, EndsCommand
    <3>7. Len(s.data) # SliceMax
      <4>1. Len(s.data) \in Nat
        <5> HIDE DEF s
        <5>1. Len(s.data) \in 1..SliceMax
          BY <3>3, SliceFields
        <5> QED BY <5>1
      <4> QED BY <3>1, <3>6, <4>1, UdpAssumption DEF Room
    <3> HIDE DEF s, b
    <3> QED BY <2>3, <3>1, <3>5, <3>7 DEF FullOrLast, EndsCommand
  <2> QED BY <2>2, <2>3
<1>2. Typed /\ WholeInv /\ OpenedInv /\ [Next]_vars => [up /\ ~up' => Explained]_vars
  BY <1>1
<1> QED BY <1>2, TypedInvariant, WholeInvariant, OpenedInvariant, PTL
        DEF Spec, PanicsExplained

=============================================================================
