----------------------------- MODULE UdpControl -----------------------------
(***************************************************************************)
(* The UDP command application, src/application/udp_control.rs: commands   *)
(* that do not fit one bus message arrive in slices and are put together   *)
(* in one of NBufs buffers before they go to the fallback socket.          *)
(*                                                                         *)
(* The clients' slices reach the server over a link that keeps their order *)
(* but may lose some (BusDelivery), and other nodes may send the           *)
(* application a frame without data: the faults, at most MaxFaults.  Byte i *)
(* of command c is the pair <<c, i>>.  Whether the fallback answers, fails *)
(* or times out is left out: handle() has changed the buffer before it     *)
(* asks, and nothing it does later depends on the answer.                  *)
(***************************************************************************)
EXTENDS Naturals, Sequences

CONSTANTS
    BufSize,        \* bytes of a buffer: 150 in the source
    NBufs,          \* MAX_UDP_TRANSACATION_ON_FLIGHT: 4 in the source
    SliceMax,       \* payload of a slice, mtu - 1
    Lengths,        \* lengths of the commands a client may send
    Transactions,   \* the transaction numbers the clients use
    Cuts,           \* how they cut a command: "generated" by generate_request,
                    \* "protocol" as the packets of the test
    MaxCommands, MaxFaults      \* bounds

ASSUME UdpAssumption ==
    /\ NBufs \in Nat \ {0} /\ SliceMax \in Nat \ {0} /\ BufSize \in Nat
    /\ SliceMax <= BufSize
    /\ Lengths \subseteq Nat \ {0}
    /\ Transactions \subseteq 0..127
    /\ Cuts \subseteq {"generated", "protocol"}
    /\ MaxCommands \in Nat /\ MaxFaults \in Nat

VARIABLES
    up,             \* the server's process runs
    bufs,           \* bufs[b]: buffer
    cmds,           \* history: the commands begun, their length and cut
    pending,        \* pending[t]: slices of transaction t not yet sent
    net,            \* slices on their way to handle()
    forwarded,      \* history: messages given to the fallback, without the code
    faults,         \* slices lost and frames without data so far
    mixed,          \* history: two commands for one buffer were sent at once
    opened          \* history: the slice that filled buffer b when it was free

vars == <<up, bufs, cmds, pending, net, forwarded, faults, mixed, opened>>

\* A byte no command has: what the buffer holds before it is written.
NoByte == <<0, 0>>

\* A frame without data, not even the byte that every slice begins with.
Blank == [seq |-> 0, last |-> FALSE, data |-> <<>>]

FreshBuf == [data |-> [i \in 1..BufSize |-> NoByte], len |-> 0, available |-> FALSE]

Init ==
    /\ up = TRUE
    /\ bufs = [b \in 0..(NBufs - 1) |-> FreshBuf]
    /\ cmds = <<>>
    /\ pending = [t \in Transactions |-> <<>>]
    /\ net = <<>>
    /\ forwarded = <<>>
    /\ faults = 0
    /\ mixed = FALSE
    /\ opened = [b \in 0..(NBufs - 1) |-> Blank]

---------------------------------------------------------------------------
(* The client. *)

NumSlices(len) == (len + SliceMax - 1) \div SliceMax

\* Slice i of command c, counted from 0.
Chunk(c, len, i) ==
    LET size == IF SliceMax * (i + 1) <= len THEN SliceMax ELSE len - SliceMax * i
    IN [k \in 1..size |-> <<c, SliceMax * i + k>>]

\* generate_request: the number of the slice takes the place of the
\* transaction's, and is compared with the number of slices.
GeneratedSlices(c, len) ==
    [k \in 1..NumSlices(len) |->
        LET i == k - 1
        IN [seq |-> i % 128,
            last |-> i = NumSlices(len) \/ (i \div 128) % 2 = 1,
            data |-> Chunk(c, len, i)]]

\* The packets that test_separate_udp_control lists: one number for the
\* transaction, the last bit on the last of them.
ProtocolSlices(c, len, t) ==
    [k \in 1..NumSlices(len) |->
        [seq |-> t, last |-> k = NumSlices(len), data |-> Chunk(c, len, k - 1)]]

Index(seq) == seq % NBufs

\* A transaction's slices are sent one after the other, but nothing keeps
\* those of two from alternating, in one buffer or in two.
Begin(t) ==
    /\ Len(cmds) < MaxCommands
    /\ pending[t] = <<>>
    /\ \E len \in Lengths, by \in Cuts :
          LET c == Len(cmds) + 1
          IN /\ cmds' = Append(cmds, [len |-> len, by |-> by])
             /\ pending' = [pending EXCEPT ![t] =
                              IF by = "generated" THEN GeneratedSlices(c, len)
                              ELSE ProtocolSlices(c, len, t)]
    /\ mixed' = (mixed \/ \E u \in Transactions :
                              pending[u] # <<>> /\ Index(u) = Index(t))
    /\ UNCHANGED <<up, bufs, net, forwarded, faults, opened>>

Transmit(t) ==
    /\ pending[t] # <<>>
    /\ \/ up /\ net' = Append(net, Head(pending[t])) /\ UNCHANGED faults
       \/ faults < MaxFaults /\ faults' = faults + 1 /\ UNCHANGED net
    /\ pending' = [pending EXCEPT ![t] = Tail(@)]
    /\ UNCHANGED <<up, bufs, cmds, forwarded, mixed, opened>>

BlankOnBus ==
    /\ up /\ faults < MaxFaults
    /\ faults' = faults + 1
    /\ net' = Append(net, Blank)
    /\ UNCHANGED <<up, bufs, cmds, pending, forwarded, mixed, opened>>

---------------------------------------------------------------------------
(* handle(): each action handles the slice at the head of net. *)

\* data[..src.len()].copy_from_slice(src): what was behind it stays.
Overwrite(data, src) ==
    [i \in DOMAIN data |-> IF i <= Len(src) THEN src[i] ELSE data[i]]

Held(buf) == SubSeq(buf.data, 1, buf.len)

\* Mutants: the buffer is not marked as taken; not marked as free again; the
\* rest of a slice is counted in; the room left is that of an empty buffer.
NeverTaken(buf, src) == [buf EXCEPT !.data = Overwrite(@, src), !.len = Len(src)]
StaysTaken(buf) == buf
KeptAndCounted(buf, rest) ==
    [buf EXCEPT !.data = Overwrite(@, rest), !.len = @ + Len(rest)]
WholeRoom(buf) == BufSize

Filled(buf, src) ==
    [data |-> Overwrite(buf.data, src), len |-> Len(src), available |-> TRUE]

Freed(buf) == [buf EXCEPT !.available = FALSE]

\* The rest of a middle slice; current_length stays as it was.
Kept(buf, rest) == [buf EXCEPT !.data = Overwrite(@, rest)]

\* first_part
Room(buf) == BufSize - buf.len

Handling(s) ==
    up /\ net # <<>> /\ s = Head(net) /\ s # Blank /\ net' = Tail(net)

HandleFirst ==
    \E s \in {net[i] : i \in DOMAIN net} :
        LET b == Index(s.seq)
        IN /\ Handling(s)
           /\ ~bufs[b].available
           /\ bufs' = [bufs EXCEPT ![b] = Filled(@, s.data)]
           /\ opened' = [opened EXCEPT ![b] = s]
           /\ UNCHANGED <<up, cmds, pending, forwarded, faults, mixed>>

HandleLast ==
    \E s \in {net[i] : i \in DOMAIN net} :
        LET b == Index(s.seq)
        IN /\ Handling(s)
           /\ bufs[b].available /\ s.last
           /\ bufs' = [bufs EXCEPT ![b] = Freed(@)]
           /\ forwarded' = Append(forwarded, Held(bufs[b]) \o s.data)
           /\ UNCHANGED <<up, cmds, pending, faults, mixed, opened>>

\* A slice between first and last: it fills the buffer, which is forwarded,
\* and its rest is kept.
HandleMiddle ==
    \E s \in {net[i] : i \in DOMAIN net} :
        LET b == Index(s.seq)
            room == Room(bufs[b])
        IN /\ Handling(s)
           /\ bufs[b].available /\ ~s.last
           /\ room <= Len(s.data)
           /\ bufs' = [bufs EXCEPT ![b] =
                         Kept(@, SubSeq(s.data, room + 1, Len(s.data)))]
           /\ forwarded' = Append(forwarded, Held(bufs[b]) \o SubSeq(s.data, 1, room))
           /\ UNCHANGED <<up, cmds, pending, faults, mixed, opened>>

\* data()[0] of a frame without data; or payload_len - first_part underflows,
\* and the release build aborts at payload[..first_part].
Panics(s) ==
    \/ s = Blank
    \/ /\ bufs[Index(s.seq)].available /\ ~s.last
       /\ Room(bufs[Index(s.seq)]) > Len(s.data)

HandlePanics ==
    /\ up /\ net # <<>> /\ Panics(Head(net))
    /\ up' = FALSE
    /\ net' = <<>>
    /\ UNCHANGED <<bufs, cmds, pending, forwarded, faults, mixed, opened>>

ServiceRestart ==
    /\ ~up
    /\ up' = TRUE
    /\ bufs' = [b \in 0..(NBufs - 1) |-> FreshBuf]
    /\ UNCHANGED <<cmds, pending, net, forwarded, faults, mixed, opened>>

Handle == HandleFirst \/ HandleLast \/ HandleMiddle \/ HandlePanics

Next ==
    \/ \E t \in Transactions : Begin(t) \/ Transmit(t)
    \/ BlankOnBus
    \/ Handle
    \/ ServiceRestart

Spec == Init /\ [][Next]_vars

\* The clients send what they began and the server's loop goes on.
Fairness == WF_vars(Handle) /\ \A t \in Transactions : WF_vars(Transmit(t))

FairSpec == Spec /\ Fairness

---------------------------------------------------------------------------
(* Properties. *)

CommandBytes(c) == [i \in 1..cmds[c].len |-> <<c, i>>]

TypeOK ==
    /\ up \in BOOLEAN
    /\ \A b \in 0..(NBufs - 1) :
          /\ Len(bufs[b].data) = BufSize
          /\ bufs[b].len \in 0..SliceMax
          /\ bufs[b].available \in BOOLEAN
    /\ faults \in 0..MaxFaults

\* What handle() is made for: commands of two slices as the protocol cuts
\* them, no two at once in a buffer, and nothing lost or added on the way.
Clean ==
    /\ faults = 0 /\ ~mixed
    /\ \A c \in DOMAIN cmds : cmds[c].by = "protocol" /\ NumSlices(cmds[c].len) = 2

\* Then what reaches the fallback are commands of the clients, whole and
\* each at most once, in whatever order the slices of transactions in
\* different buffers arrive.
ForwardedWhole ==
    Clean =>
        /\ \A k \in DOMAIN forwarded : \E c \in DOMAIN cmds : forwarded[k] = CommandBytes(c)
        /\ \A j, k \in DOMAIN forwarded : j # k => forwarded[j] # forwarded[k]

\* ... and every command gets there.
AllForwarded ==
    []<>(\/ ~Clean
         \/ \A c \in DOMAIN cmds : \E k \in DOMAIN forwarded : forwarded[k] = CommandBytes(c))

\* s carries the last byte of its command.
EndsCommand(s) ==
    /\ s # Blank
    /\ s.data[Len(s.data)][2] = cmds[s.data[Len(s.data)][1]].len

\* Whatever is lost, mixed or cut in whatever way, handle() panics only on a
\* frame without data; on a buffer that was opened by the last slice of its
\* command (the others were lost, or it is the only one); or on the last
\* slice of a command of generate_request, which does not mark it as last.
\* Of clean commands none makes it panic.
PanicsExplained ==
    [][up /\ ~up' =>
          LET s == Head(net)
          IN /\ ~Clean
             /\ \/ s = Blank
                \/ EndsCommand(opened[Index(s.seq)])
                \/ EndsCommand(s) /\ ~s.last]_vars

\* When everything sent was handled, each command in two parts has been
\* given to the fallback as one message (udp_control.rs:165-177).
OneMessagePerCommand ==
    net = <<>> /\ (\A t \in Transactions : pending[t] = <<>>)
        => Len(forwarded) = Len(cmds)

\* A command in three parts is forwarded in parts of it
\* (udp_control.rs:179-197): every message is a run of its bytes.
ForwardsPartsOfCommands ==
    \A k \in DOMAIN forwarded : \A i \in 1..(Len(forwarded[k]) - 1) :
        /\ forwarded[k][i + 1][1] = forwarded[k][i][1]
        /\ forwarded[k][i + 1][2] = forwarded[k][i][2] + 1
=============================================================================
