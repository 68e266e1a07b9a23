-------------------------------- MODULE Uart --------------------------------
(***************************************************************************)
(* The serial adaptor, src/adaptor/uart.rs: two ports joined by a line,    *)
(* each with tasks that call send() and one that calls recv() in a loop.   *)
(* All of them take turns at the mutex around the port.                    *)
(*                                                                         *)
(* A serial line has no frames: recv() takes what one read() returns for   *)
(* one frame, and a read may return a part of a frame, or parts of several *)
(* ones.  Writes may be cut short, bytes may change or get lost, and the   *)
(* other end may send what is not of this protocol (Noise).  What recv()   *)
(* makes of the bytes that are left is recorded, whatever it is.           *)
(***************************************************************************)
EXTENDS Integers, Sequences, FiniteSets

CONSTANTS
    Ports,          \* the two ends of the line
    Tasks,          \* tasks of a port that call send() concurrently
    Requests,       \* Requests[p][t]: the frames task t of p may send
    Noise,          \* Noise[p]: byte strings of no frame that may reach p
    ReadMax,        \* the buffer of recv(): 150 bytes in the source
    Faults,         \* which of "cut", "change", "lose" and "noise" may happen
    MaxSends, MaxFaults     \* bounds: calls of send(), faults

Byte == 0..255

Peer(p) == CHOOSE q \in Ports : q # p

\* A frame given to send(): what its window shows and where that starts.
Request == [off : 0..168, data : Seq(Byte), id : Byte, type : Byte, cmd : Byte]

---------------------------------------------------------------------------
(* The frame on the line. *)

HeadSize == 8                \* marker, platform, length, type, command, id
TailSize == 1                \* the check byte
Platform == 1
DataTypes == {53, 5}                    \* CommandType
Commands == {16, 17, 18, 32, 34, 35}    \* TeleCommand, TeleMetry

\* CUSTOM_ALG.  With the polynomial 0x80 eight shifts move every bit of the
\* register out but the highest, which ends as the parity of them all, so
\* this CRC is the parity of the bytes in its highest bit.
Ones(s) == {x \in (DOMAIN s) \X (0..7) : (s[x[1]] \div 2 ^ x[2]) % 2 = 1}
Crc(s) == 128 * (Cardinality(Ones(s)) % 2)

\* Mutant of LengthField: the platform byte is counted too.
LengthFieldOne(n) == n + HeadSize + TailSize - 5

\* meta_len - 6, for n bytes of data.
LengthField(n) == n + HeadSize + TailSize - 6

Word(n) == <<(n \div 256) % 256, n % 256>>

\* What send() makes of a message; the check byte is over all from the length on.
Checked(m) == Word(LengthField(Len(m.data))) \o <<m.type, m.cmd, m.id>> \o m.data
Wire(m) == <<235, 144, Platform>> \o Checked(m) \o <<Crc(Checked(m))>>

WireLen(m) == HeadSize + Len(m.data) + TailSize

\* What the line carries of a frame: neither its source nor its destination,
\* in whose place the other end finds the platform.
MessageOf(req) == [dest |-> Platform, id |-> req.id, type |-> req.type,
                   cmd |-> req.cmd, data |-> req.data]

\* expand_head(8)?, expand_tail(1)?
Sendable(req) == req.off >= HeadSize /\ req.off + Len(req.data) + TailSize <= 168

---------------------------------------------------------------------------
(* The parser, for the bytes c that one read returned. *)

Marker(s, i) == i + 1 \in DOMAIN s /\ s[i] = 235 /\ s[i + 1] = 144

\* Mutant of PayloadLen: the subtraction stops at zero.
PayloadLenSaturating(hi, lo) == IF 256 * hi + lo < 3 THEN 0 ELSE 256 * hi + lo - 3

\* data_len - 3 in 16 bits; the release build wraps.
PayloadLen(hi, lo) == (256 * hi + lo - 3) % 65536

\* from_slice_to_self: the header, the data, one more byte and no other.
\* The check byte is computed but not compared.
Accepted(c) ==
    /\ Len(c) >= HeadSize
    /\ Marker(c, 1)
    /\ c[6] \in DataTypes
    /\ c[7] \in Commands
    /\ Len(c) = HeadSize + PayloadLen(c[4], c[5]) + TailSize

Received(c) == [dest |-> c[3], id |-> c[8], type |-> c[6], cmd |-> c[7],
                data |-> SubSeq(c, HeadSize + 1, Len(c) - TailSize)]

---------------------------------------------------------------------------

AnnouncesNothing(s, i) == i + 4 <= Len(s) /\ s[i + 3] = 0 /\ s[i + 4] < 3

\* Noise is never the beginning of something longer: what looks like a frame
\* in it announces less than the three bytes that every length counts.
Harmless(s) ==
    /\ s # <<>> /\ s[1] # 144
    /\ \A i \in DOMAIN s : Marker(s, i) => AnnouncesNothing(s, i)

\* A frame whose contents do not look like the beginning of another one.
Plain(w) == \A i \in DOMAIN w : Marker(w, i) => i = 1

ASSUME UartAssumption ==
    /\ \E p, q \in Ports : p # q /\ Ports = {p, q}
    /\ "recv" \notin Tasks
    /\ \A p \in Ports, t \in Tasks : Requests[p][t] \subseteq Request
    /\ \A p \in Ports : Noise[p] \subseteq Seq(Byte) /\ \A s \in Noise[p] : Harmless(s)
    /\ ReadMax \in Nat /\ ReadMax <= 240
    /\ Faults \subseteq {"cut", "change", "lose", "noise"}
    /\ MaxSends \in Nat /\ MaxFaults \in Nat

VARIABLES
    line,           \* line[p]: bytes that arrived at p and are not yet read
    file,           \* file[p]: who has the mutex of p, and who waits for it
    job,            \* job[p][t]: the bytes task t has to write, inside send()
    harm,           \* history: harm[p], what happened to the bytes on their
                    \* way to p since line[p] was last empty
    sent,           \* history: the messages each task offered
    got,            \* history: the messages recv() returned
    garbled,        \* history: garbled[p], which of got[p] were read from
                    \* bytes that may not have been whole frames
    spent           \* how much of each bound is used

vars == <<line, file, job, harm, sent, got, garbled, spent>>

Init ==
    /\ line = [p \in Ports |-> <<>>]
    /\ file = [p \in Ports |-> <<>>]
    /\ job = [p \in Ports |-> [t \in Tasks |-> <<>>]]
    /\ harm = [p \in Ports |-> {}]
    /\ sent = [p \in Ports |-> [t \in Tasks |-> <<>>]]
    /\ got = [p \in Ports |-> <<>>]
    /\ garbled = [p \in Ports |-> {}]
    /\ spent = [sends |-> 0, faults |-> 0]

---------------------------------------------------------------------------
(* The mutex: tokio's serves in the order of the calls of lock(). *)

Waits(p, x) == \E i \in DOMAIN file[p] : file[p][i] = x
Locks(p, x) == file' = [file EXCEPT ![p] = Append(@, x)]
Holds(p, x) == file[p] # <<>> /\ Head(file[p]) = x

\* Mutant of Released: the guard lives on.
NotReleased(q) == q

\* The guard is a temporary of the statement that reads or writes.
Released(q) == Tail(q)
Releases(p) == file' = [file EXCEPT ![p] = Released(@)]

---------------------------------------------------------------------------
(* Sending. *)

Send(p, t) ==
    /\ job[p][t] = <<>>
    /\ spent.sends < MaxSends
    /\ spent' = [spent EXCEPT !.sends = @ + 1]
    /\ \E req \in Requests[p][t] :
          IF Sendable(req)
          THEN /\ job' = [job EXCEPT ![p][t] = Wire(MessageOf(req))]
               /\ sent' = [sent EXCEPT ![p][t] = Append(@, MessageOf(req))]
               /\ Locks(p, t)
          ELSE UNCHANGED <<job, sent, file>>
    /\ UNCHANGED <<line, harm, got, garbled>>

Fault(kind) ==
    /\ kind \in Faults
    /\ spent.faults < MaxFaults
    /\ spent' = [spent EXCEPT !.faults = @ + 1]

\* These kinds of things happened to the bytes on their way to p; it is all
\* forgotten when none is left.
Harms(p, kinds) ==
    harm' = [harm EXCEPT ![p] = IF line'[p] = <<>> THEN {} ELSE @ \cup kinds]

\* The bytes that wait at p are whole frames and pieces of noise.
Sound(p) == harm[p] \subseteq {"noise"}

Writing(p, t) ==
    /\ Holds(p, t)
    /\ Releases(p)
    /\ job' = [job EXCEPT ![p][t] = <<>>]
    /\ UNCHANGED <<sent, got, garbled>>

Marks(w) == IF Plain(w) THEN {} ELSE {"marker"}

\* write_all() wrote it all.
WriteAll(p, t) ==
    /\ Writing(p, t)
    /\ line' = [line EXCEPT ![Peer(p)] = @ \o job[p][t]]
    /\ Harms(Peer(p), Marks(job[p][t]))
    /\ UNCHANGED spent

\* write_all() failed after n bytes; send() returns the error.
WriteCut(p, t) ==
    /\ Writing(p, t)
    /\ Fault("cut")
    /\ \E n \in 0..(Len(job[p][t]) - 1) :
          line' = [line EXCEPT ![Peer(p)] = @ \o SubSeq(job[p][t], 1, n)]
    /\ Harms(Peer(p), Marks(job[p][t]) \cup {"cut"})

---------------------------------------------------------------------------
(* The line. *)

ByteChanges(p) ==
    /\ Fault("change")
    /\ \E i \in DOMAIN line[p] : line' = [line EXCEPT ![p][i] = (@ + 1) % 256]
    /\ Harms(p, {"change"})
    /\ UNCHANGED <<file, job, sent, got, garbled>>

ByteLost(p) ==
    /\ Fault("lose")
    /\ \E i \in DOMAIN line[p] :
          line' = [line EXCEPT ![p] = SubSeq(@, 1, i - 1) \o SubSeq(@, i + 1, Len(@))]
    /\ Harms(p, {"lose"})
    /\ UNCHANGED <<file, job, sent, got, garbled>>

NoiseArrives(p) ==
    /\ Fault("noise")
    /\ \E s \in Noise[p] : line' = [line EXCEPT ![p] = @ \o s]
    /\ Harms(p, {"noise"})
    /\ UNCHANGED <<file, job, sent, got, garbled>>

---------------------------------------------------------------------------
(* Receiving. *)

\* The listening task calls recv() again.
Listens(p) ==
    /\ ~Waits(p, "recv")
    /\ Locks(p, "recv")
    /\ UNCHANGED <<line, job, harm, sent, got, garbled, spent>>

\* One read of n bytes.  What they are, if anything, is handed up.
Reads(p, n) ==
    LET c == SubSeq(line[p], 1, n)
        rest == SubSeq(line[p], n + 1, Len(line[p]))
    IN  /\ Holds(p, "recv")
        /\ Releases(p)
        /\ n <= ReadMax
        /\ line' = [line EXCEPT ![p] = rest]
        /\ Harms(p, {})
        /\ IF Accepted(c)
           THEN /\ got' = [got EXCEPT ![p] = Append(@, Received(c))]
                /\ garbled' = IF Sound(p) THEN garbled
                              ELSE [garbled EXCEPT ![p] = @ \cup {Len(got[p]) + 1}]
           ELSE UNCHANGED <<got, garbled>>
        /\ UNCHANGED <<job, sent, spent>>

Read(p) == \E n \in DOMAIN line[p] : Reads(p, n)

\* Nothing came for five seconds: the error is mapped to Empty.
ReadTimesOut(p) ==
    /\ Holds(p, "recv")
    /\ line[p] = <<>>
    /\ Releases(p)
    /\ UNCHANGED <<line, job, harm, sent, got, garbled, spent>>

Next ==
    \E p \in Ports :
        \/ \E t \in Tasks : Send(p, t) \/ WriteAll(p, t) \/ WriteCut(p, t)
        \/ ByteChanges(p) \/ ByteLost(p) \/ NoiseArrives(p)
        \/ Listens(p) \/ Read(p) \/ ReadTimesOut(p)

Spec == Init /\ [][Next]_vars

\* A write ends, a read returns or times out, the server loop goes on.
Fairness ==
    \A p \in Ports :
        /\ \A t \in Tasks : WF_vars(WriteAll(p, t))
        /\ WF_vars(Listens(p))
        /\ WF_vars(Read(p) \/ ReadTimesOut(p))

FairSpec == Spec /\ Fairness
---------------------------------------------------------------------------
(* Properties. *)

Msgs == [dest : Byte, id : Byte, type : Byte, cmd : Byte, data : Seq(Byte)]

\* Types, and who waits for a mutex: each task once, while it is in send().
TypeOK ==
    /\ line \in [Ports -> Seq(Byte)]
    /\ file \in [Ports -> Seq(Tasks \cup {"recv"})]
    /\ job \in [Ports -> [Tasks -> Seq(Byte)]]
    /\ harm \in [Ports -> SUBSET {"cut", "change", "lose", "noise", "marker"}]
    /\ sent \in [Ports -> [Tasks -> Seq(Msgs)]]
    /\ got \in [Ports -> Seq(Msgs)]
    /\ garbled \in [Ports -> SUBSET Nat]
    /\ spent \in [sends : 0..MaxSends, faults : 0..MaxFaults]
    /\ \A p \in Ports :
          /\ \A t \in Tasks : job[p][t] # <<>> <=> Waits(p, t)
          /\ \A i, j \in DOMAIN file[p] : file[p][i] = file[p][j] => i = j

Offers ==
    [p \in Ports |-> UNION {{MessageOf(req) : req \in {r \in Requests[p][t] : Sendable(r)}} :
                               t \in Tasks}]

\* s has the first k bytes of the frame of m at i.
PartAt(s, i, m, k) ==
    LET w == Wire(m)
    IN  i + k - 1 <= Len(s) /\ \A x \in 1..k : s[i + x - 1] = w[x]

FrameAt(s, i, m) == PartAt(s, i, m, WireLen(m))

Offered(p, m) ==
    \E t \in Tasks : \E k \in DOMAIN sent[p][t] : sent[p][t][k] = m

OfferedSet(p) == {m \in Offers[p] : Offered(p, m)}

\* Every marker in a sound buffer begins a whole frame that was offered, or
\* a piece of noise ...
Begins(p, s, i) ==
    \/ \E m \in OfferedSet(Peer(p)) : FrameAt(s, i, m)
    \/ AnnouncesNothing(s, i)

MarkersBegin ==
    \A p \in Ports : Sound(p) =>
        \A i \in DOMAIN line[p] : Marker(line[p], i) => Begins(p, line[p], i)

\* ... and where writes were cut short and nothing else happened, every one
\* begins a frame or a part of one, up to the end or the start of the next.
PieceAt(s, j) ==
    \/ j = Len(s) + 1
    \/ s[j] = 235 /\ (j = Len(s) \/ s[j + 1] \in {144, 235})

BeginsPart(p, s, i) ==
    \E m \in OfferedSet(Peer(p)) : \E k \in 1..WireLen(m) :
        PartAt(s, i, m, k) /\ (k = WireLen(m) \/ PieceAt(s, i + k))

PartsBegin ==
    \A p \in Ports : harm[p] \subseteq {"cut"} =>
        \A i \in DOMAIN line[p] : Marker(line[p], i) => BeginsPart(p, line[p], i)

\* What a task has to write is a frame it offered.
JobsOffered ==
    \A p \in Ports, t \in Tasks : job[p][t] # <<>> =>
        \E m \in OfferedSet(p) : job[p][t] = Wire(m)

\* However reads split and join frames, the bytes that wait in a sound buffer
\* are whole frames from wherever one begins, and those that writes cut short
\* have left are parts of frames; and each task waits for the mutex once and
\* only while it has a frame to write: why a read that starts with a marker
\* is a frame or a part of one.
LineInv == TypeOK /\ MarkersBegin /\ PartsBegin /\ JobsOffered

\* What recv() hands up from a sound buffer is a message that the other end
\* offered.  Since the check byte is not compared, this is not so after a
\* write that was cut short: a part of one frame and the beginning of the next
\* may be handed up as one, and then the type, the command and the number of
\* bytes are those of a message that was offered, and no more is certain.
HandedWereOffered ==
    [][\A p \in Ports : got'[p] # got[p] =>
          /\ Sound(p) =>
                \E m \in OfferedSet(Peer(p)) : got'[p] = Append(got[p], m)
          /\ harm[p] \subseteq {"cut"} =>
                \E m \in OfferedSet(Peer(p)) :
                    LET g == got'[p][Len(got[p]) + 1]
                    IN /\ g.type = m.type /\ g.cmd = m.cmd
                       /\ Len(g.data) = Len(m.data)]_vars

\* The adaptor implements the link of BusDelivery, which breaks where a write
\* is cut short, a byte changes or gets lost, or a frame holds the marker of
\* another, and is whole again when the buffer has been read empty.  While it
\* is whole, reads that split and join frames lose messages but never alter,
\* double, invent or reorder one, whatever noise the other end wrote.
Messages == UNION {Offers[p] : p \in Ports}

Addressed(m, p) == m \in Offers[Peer(p)]

Link == INSTANCE BusDelivery
            WITH Nodes <- Ports, Receivers <- Ports,
                 broken <- [p \in Ports |-> ~Sound(p)]

DeliversFaithfully == [][Link!Next]_<<sent, got, garbled>>

\* What recv() can tell from anything else, and can hold in its buffer.
Readable(m) ==
    /\ m.type \in DataTypes /\ m.cmd \in Commands
    /\ WireLen(m) <= ReadMax

\* A read that returns exactly one frame hands up what the line carries of
\* the message that send() was given, of whatever length and whatever happened
\* to the bytes before and after it: the two ends agree on what the length on
\* the line counts (uart.rs:62, 311), down to no data at all and up to the
\* longest frame that fits the buffer.
WholeReadsArrive ==
    [][\A p \in Ports :
          Holds(p, "recv") /\ line'[p] # line[p] =>
              \A m \in Offers[Peer(p)] :
                  /\ Readable(m)
                  /\ Len(line[p]) = WireLen(m) + Len(line'[p])
                  /\ line[p] = Wire(m) \o line'[p]
                  => got'[p] = Append(got[p], m)]_vars

\* A reader that blocks in read() keeps the mutex for at most one timeout:
\* every send() ends, however many tasks share the port, and every byte that
\* arrives is read.
EverythingMoves ==
    []<>(\A p \in Ports : line[p] = <<>> /\ \A t \in Tasks : job[p][t] = <<>>)

\* What recv() hands up has the check byte of its contents: "check data with
\* crc32" (uart.rs:192).
ChecksMatch ==
    [][\A p \in Ports : \A n \in DOMAIN line[p] :
          LET c == SubSeq(line[p], 1, n)
          IN Reads(p, n) /\ Accepted(c) => c[n] = Crc(SubSeq(c, 4, n - 1))]_vars
=============================================================================
