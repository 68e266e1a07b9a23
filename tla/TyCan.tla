------------------------------- MODULE TyCan -------------------------------
(***************************************************************************)
(* The Tianyi CAN adaptor, src/adaptor/can/ty.rs: nodes on one CAN bus,    *)
(* each with sending tasks that call send() concurrently and, where it     *)
(* runs this code, one task that calls recv() in a loop.                   *)
(*                                                                         *)
(* A write puts one frame into the receive queue of every node whose       *)
(* filter lets it through.  A write may fail, a node may miss a frame      *)
(* (its socket queue overflows, its interface is down), frames of no       *)
(* message may cross the bus (Noise), and a node whose process panics is   *)
(* started again by systemd.  How often each of these happens is bounded.  *)
(***************************************************************************)
EXTENDS TyFrames, Slot

CONSTANTS
    Nodes,          \* node ids
    Foreign,        \* nodes with other firmware: their receive side is not ours
    Tasks,          \* tasks of a node that call send() concurrently
    Requests,       \* Requests[n][t]: what task t of node n may send
    Noise,          \* frames of no message that may cross the bus
    NSlots,         \* RECV_BUF_SLOT_NUM: 128 in the source
    NPids,          \* values of the pid bits and of id_counter: 256
    PayloadMax,     \* TY_CAN_PROTOCOL_PAYLOAD_MAX_SIZE: 145
    Faults,         \* which of "error", "loss" and "noise" may happen
    MaxSends, MaxFaults,    \* bounds: calls of send(), faults
    MaxOvertakes            \* bound: calls of send() that begin at a node while
                            \* another one there is in progress

Receivers == Nodes \ Foreign

Request == [dest : Byte, data : Seq(Byte), time : BOOLEAN, obc : BOOLEAN]

Frame == {f \in [src : Byte, dest : Byte, csp : BOOLEAN, type : 0..15,
                 pid : 0..(NPids - 1), data : Seq(Byte)] :
             Len(f.data) <= CanFrameSize}

\* A First frame whose header recv accepts ...
FirstAccepted(f) ==
    /\ f.type = MultiFirst
    /\ Len(f.data) >= MultiHdrSize
    /\ MultiHdrValid(f.data)

\* ... and whose announced total does not wrap when 3 is added.
TotalSane(f) == FirstAccepted(f) => HdrTotal(f.data) + 3 <= 65535

ASSUME TyCanAssumption ==
    /\ Nodes \subseteq Byte \ {BroadcastId}
    /\ Foreign \subseteq Nodes
    /\ \A n \in Nodes, t \in Tasks : Requests[n][t] \subseteq Request
    /\ Noise \subseteq Frame
    /\ NSlots \in Nat \ {0} /\ NPids \in Nat \ {0}
    /\ SlotSize \in Nat /\ PayloadMax \in Nat
    /\ PayloadMax + MultiHdrSize + ChecksumSize <= SlotSize
    /\ SlotSize <= 65535
    /\ Faults \subseteq {"error", "loss", "noise"}
    /\ MaxSends \in Nat /\ MaxFaults \in Nat /\ MaxOvertakes \in Nat

VARIABLES
    up,             \* up[n]: the process runs
    idCounter,      \* idCounter[n]: id_counter
    job,            \* job[n][t]: the send() task t is in the middle of
    rx,             \* rx[r]: frames accepted by r's filter, not yet read
    slotMap,        \* slotMap[r][pid]: slot_map
    sent,           \* history: messages offered by each task, in order
    acked,          \* history: messages whose send() returned Ok
    got,            \* history: messages recv() returned to each node
    spent           \* how much of each bound is used

vars == <<up, idCounter, job, rx, slotMap, sent, acked, got, spent>>

\* A task inside send(): the frames left to write, whether the one retry of
\* the first frame is used up, the message they carry, and how many other
\* sends of the node began since.
NoMessage == Message(0, 0, <<>>, FALSE)

Idle == [frames |-> <<>>, retried |-> FALSE, msg |-> NoMessage, since |-> 0]

EmptySlots == [p \in 0..(NSlots - 1) |-> EmptySlot]

Init ==
    /\ up = [n \in Nodes |-> TRUE]
    /\ idCounter = [n \in Nodes |-> 0]
    /\ job = [n \in Nodes |-> [t \in Tasks |-> Idle]]
    /\ rx = [r \in Receivers |-> <<>>]
    /\ slotMap = [r \in Receivers |-> EmptySlots]
    /\ sent = [n \in Nodes |-> [t \in Tasks |-> <<>>]]
    /\ acked = [n \in Nodes |-> [t \in Tasks |-> <<>>]]
    /\ got = [r \in Receivers |-> <<>>]
    /\ spent = [sends |-> 0, faults |-> 0]

---------------------------------------------------------------------------
(* Sending. *)

SingleType(n) == IF n \in Foreign THEN Single ELSE DefaultType

\* The errors send_using_ty_protocol returns before it writes anything.
Sendable(req) ==
    /\ Len(req.data) <= PayloadMax
    /\ req.time => Len(req.data) = 4

\* recv accepts requests only, so a response is offered to nobody.
Deliverable(req) == req.time \/ req.obc

\* Mutants of FetchAddId: no wrap at the width of the counter; a plain read.
FetchAddWide(n) == idCounter' = [idCounter EXCEPT ![n] = @ + 1]
FetchOnly(n) == idCounter' = idCounter

\* id_counter.fetch_add(1): it happens whether or not the send succeeds.
FetchAddId(n) == idCounter' = [idCounter EXCEPT ![n] = (@ + 1) % NPids]

\* A send in progress as the next one of its node begins.
Overtaken(j) == IF j.frames = <<>> THEN j ELSE [j EXCEPT !.since = @ + 1]

\* Task t goes on with j; the others of node n are overtaken once more.
Begins(n, t, j) ==
    job' = [job EXCEPT ![n] =
              [u \in Tasks |-> IF u = t THEN j ELSE Overtaken(job[n][u])]]

Send(n, t) ==
    /\ up[n]
    /\ job[n][t].frames = <<>>
    /\ spent.sends < MaxSends
    /\ \A u \in Tasks : Overtaken(job[n][u]).since <= MaxOvertakes
    /\ spent' = [spent EXCEPT !.sends = @ + 1]
    /\ FetchAddId(n)
    /\ \E req \in Requests[n][t] :
          IF Sendable(req)
          THEN /\ Begins(n, t, [Idle EXCEPT
                      !.frames = FramesOf(n, idCounter[n], req, SingleType(n)),
                      !.msg = MessageOf(n, req)])
               /\ sent' = IF Deliverable(req)
                          THEN [sent EXCEPT ![n][t] = Append(@, MessageOf(n, req))]
                          ELSE sent
          ELSE Begins(n, t, Idle) /\ UNCHANGED sent
    /\ UNCHANGED <<up, rx, slotMap, acked, got>>

\* The filters set by new(): own id and broadcast.
Accepts(r, f) == f.dest \in {r, BroadcastId}

\* rx once frame f has crossed the bus; the nodes of "missed" did not see it.
Broadcast(f, missed) ==
    [r \in Receivers |-> IF up[r] /\ Accepts(r, f) /\ r \notin missed
                         THEN Append(rx[r], f)
                         ELSE rx[r]]

Fault(kind) ==
    /\ kind \in Faults
    /\ spent.faults < MaxFaults
    /\ spent' = [spent EXCEPT !.faults = @ + 1]

Writing(n, t) == up[n] /\ job[n][t].frames # <<>>

WriteOk(n, t) ==
    LET j == job[n][t]
        f == Head(j.frames)
        last == Len(j.frames) = 1
    IN  /\ Writing(n, t)
        /\ \/ rx' = Broadcast(f, {}) /\ UNCHANGED spent
           \/ /\ Fault("loss")
              /\ \E missed \in SUBSET Receivers \ {{}} : rx' = Broadcast(f, missed)
        /\ job' = [job EXCEPT ![n][t] =
                      IF last THEN Idle ELSE [j EXCEPT !.frames = Tail(@)]]
        /\ acked' = IF last THEN [acked EXCEPT ![n][t] = Append(@, j.msg)]
                    ELSE acked
        /\ UNCHANGED <<up, idCounter, slotMap, sent, got>>

\* write_frame returns an error; the frame may have left all the same.
WriteFault(n, t) ==
    /\ Writing(n, t)
    /\ Fault("error")
    /\ \/ rx' = rx
       \/ rx' = Broadcast(Head(job[n][t].frames), {})
    /\ UNCHANGED <<up, idCounter, slotMap, sent, acked, got>>

MayRetry(j) == Head(j.frames).type = MultiFirst /\ ~j.retried

\* The first frame of a multi-frame message is written once more.
FirstFails(n, t) ==
    /\ WriteFault(n, t)
    /\ MayRetry(job[n][t])
    /\ job' = [job EXCEPT ![n][t] = [@ EXCEPT !.retried = TRUE]]

\* Any other failed write ends the send with an error.
SendFails(n, t) ==
    /\ WriteFault(n, t)
    /\ ~MayRetry(job[n][t])
    /\ job' = [job EXCEPT ![n][t] = Idle]

NoiseOnBus ==
    /\ Fault("noise")
    /\ \E f \in Noise : rx' = Broadcast(f, {})
    /\ UNCHANGED <<up, idCounter, job, slotMap, sent, acked, got>>

---------------------------------------------------------------------------
(* Receiving: each action reads the frame at the head of rx[r]. *)

Reading(r) == up[r] /\ rx[r] # <<>>

Take(r) == rx' = [rx EXCEPT ![r] = Tail(@)]

\* recv() gets past the tests on the source and the csp bit.
Usable(r, f) == f.type # Reset /\ f.src # r /\ ~f.csp

SingleAccepted(f) ==
    /\ f.type = Single
    /\ Len(f.data) >= SingleHdrSize
    /\ SingleHdrValid(f.data)

\* A First frame that opens a slot, or tries to.
FirstOpens(f) == FirstAccepted(f) /\ HdrTotal(f.data) >= CanFrameSize

TimeAccepted(f) == f.type = TimeBroadcast /\ TimeValid(f.data)

\* get_mut_unchecked indexes buf[idx] with the pid.
TouchesSlot(f) == FirstOpens(f) \/ f.type = MultiMiddle

OutOfSlots(f) == TouchesSlot(f) /\ f.pid >= NSlots

\* total_len() of the announced message, in 16 bits.
SlotTotal(f) == (HdrTotal(f.data) + 3) % 65536

HandUp(r, f, data) ==
    got' = [got EXCEPT ![r] =
              Append(@, Message(f.src, f.dest, data, f.type = TimeBroadcast))]

SetSlot(r, p, slot) == slotMap' = [slotMap EXCEPT ![r][p] = slot]

\* A Reset frame: restart(), whatever the source.  The interfaces come back
\* here at once; module CanReset takes reset_interfaces apart.
RecvReset(r) ==
    /\ Reading(r)
    /\ Head(rx[r]).type = Reset
    /\ Take(r)
    /\ idCounter' = [idCounter EXCEPT ![r] = 0]
    /\ UNCHANGED <<up, job, slotMap, sent, acked, got, spent>>

\* Ok(None), or an error that is only logged.
RecvIgnored(r) ==
    LET f == Head(rx[r])
    IN  /\ Reading(r)
        /\ f.type # Reset
        /\ ~Usable(r, f) \/ ~(SingleAccepted(f) \/ TouchesSlot(f) \/ TimeAccepted(f))
        /\ Take(r)
        /\ UNCHANGED <<up, idCounter, job, slotMap, sent, acked, got, spent>>

RecvSingle(r) ==
    LET f == Head(rx[r])
    IN  /\ Reading(r)
        /\ Usable(r, f) /\ SingleAccepted(f)
        /\ Take(r)
        /\ HandUp(r, f, SinglePayload(f.data))
        /\ UNCHANGED <<up, idCounter, job, slotMap, sent, acked, spent>>

RecvTime(r) ==
    LET f == Head(rx[r])
    IN  /\ Reading(r)
        /\ Usable(r, f) /\ TimeAccepted(f)
        /\ Take(r)
        /\ HandUp(r, f, f.data)
        /\ UNCHANGED <<up, idCounter, job, slotMap, sent, acked, spent>>

\* slot.reset(), set_total_len()?, copy_from_slice()?: the slot after a
\* First frame, each ? leaving it as the calls before made it.
Opened(slot, data, total) ==
    IF ~TotalFits(total) THEN ResetSlot(slot)
    ELSE LET open == SetTotalLen(ResetSlot(slot), total)
         IN IF CopyFits(open, data) THEN CopyFromSlice(open, data) ELSE open

RecvFirst(r) ==
    LET f == Head(rx[r])
    IN  /\ Reading(r)
        /\ Usable(r, f) /\ FirstOpens(f) /\ ~OutOfSlots(f)
        /\ Take(r)
        /\ SetSlot(r, f.pid, Opened(slotMap[r][f.pid], f.data, SlotTotal(f)))
        /\ UNCHANGED <<up, idCounter, job, sent, acked, got, spent>>

MiddleRead(r, f) ==
    /\ Reading(r)
    /\ Usable(r, f) /\ f.type = MultiMiddle /\ ~OutOfSlots(f)

\* copy_from_slice fails, the slot stays as it is.
RecvMiddleOverflow(r) ==
    LET f == Head(rx[r])
    IN  /\ MiddleRead(r, f)
        /\ ~CopyFits(slotMap[r][f.pid], f.data)
        /\ Take(r)
        /\ UNCHANGED <<up, idCounter, job, slotMap, sent, acked, got, spent>>

RecvMiddlePartial(r) ==
    LET f == Head(rx[r])
        s == slotMap[r][f.pid]
    IN  /\ MiddleRead(r, f)
        /\ CopyFits(s, f.data)
        /\ ~IsComplete(CopyFromSlice(s, f.data))
        /\ Take(r)
        /\ SetSlot(r, f.pid, CopyFromSlice(s, f.data))
        /\ UNCHANGED <<up, idCounter, job, sent, acked, got, spent>>

\* A complete message is too short for data[..total_len - 1], or, where the
\* checksum matches, for data[4..total_len - 1].
TooShort(slot) ==
    \/ slot.total = 0
    \/ /\ slot.total \in 1..(MultiHdrSize + ChecksumSize - 1)
       /\ ChecksumMatches(slot.data)

Completes(r, f) ==
    /\ MiddleRead(r, f)
    /\ CopyFits(slotMap[r][f.pid], f.data)
    /\ IsComplete(CopyFromSlice(slotMap[r][f.pid], f.data))

\* The source is that of this last frame; the slot has none of its own.
RecvMiddleComplete(r) ==
    LET f == Head(rx[r])
        s == CopyFromSlice(slotMap[r][f.pid], f.data)
    IN  /\ Completes(r, f)
        /\ ~TooShort(s)
        /\ Take(r)
        /\ SetSlot(r, f.pid, ResetSlot(s))
        /\ IF ChecksumMatches(s.data) /\ Len(MultiPayload(s.data)) <= FrameMax
           THEN HandUp(r, f, MultiPayload(s.data))
           ELSE UNCHANGED got
        /\ UNCHANGED <<up, idCounter, job, sent, acked, spent>>

\* What makes recv() panic on frame f.
Panics(r, f) ==
    /\ Usable(r, f)
    /\ \/ OutOfSlots(f)
       \/ Completes(r, f) /\ TooShort(CopyFromSlice(slotMap[r][f.pid], f.data))

\* The release build aborts the process, with every task in it.
RecvPanics(r) ==
    /\ Reading(r)
    /\ Panics(r, Head(rx[r]))
    /\ up' = [up EXCEPT ![r] = FALSE]
    /\ job' = [job EXCEPT ![r] = [t \in Tasks |-> Idle]]
    /\ rx' = [rx EXCEPT ![r] = <<>>]
    /\ UNCHANGED <<idCounter, slotMap, sent, acked, got, spent>>

\* systemd: Restart=on-failure (it gives up after 20 starts in 300 s, so no
\* fairness is assumed of this action).
ServiceRestart(r) ==
    /\ ~up[r]
    /\ up' = [up EXCEPT ![r] = TRUE]
    /\ idCounter' = [idCounter EXCEPT ![r] = 0]
    /\ slotMap' = [slotMap EXCEPT ![r] = EmptySlots]
    /\ UNCHANGED <<job, rx, sent, acked, got, spent>>

Recv(r) ==
    \/ RecvReset(r)
    \/ RecvIgnored(r)
    \/ RecvSingle(r)
    \/ RecvTime(r)
    \/ RecvFirst(r)
    \/ RecvMiddleOverflow(r)
    \/ RecvMiddlePartial(r)
    \/ RecvMiddleComplete(r)
    \/ RecvPanics(r)

Write(n, t) == WriteOk(n, t) \/ FirstFails(n, t) \/ SendFails(n, t)

Next ==
    \/ \E n \in Nodes, t \in Tasks : Send(n, t) \/ Write(n, t)
    \/ \E r \in Receivers : Recv(r) \/ ServiceRestart(r)
    \/ NoiseOnBus

Spec == Init /\ [][Next]_vars

\* The executor runs every ready task, so a task inside send() goes on
\* writing and the server loop goes on reading.
Fairness ==
    /\ \A n \in Nodes, t \in Tasks : WF_vars(Write(n, t))
    /\ \A r \in Receivers : WF_vars(Recv(r))

FairSpec == Spec /\ Fairness

---------------------------------------------------------------------------
(* Properties. *)

Msgs == [src : Byte, dest : Byte, data : Seq(Byte), time : BOOLEAN]

Jobs == [frames : Seq(Frame), retried : BOOLEAN, msg : Msgs, since : 0..MaxOvertakes]

TypeOK ==
    /\ up \in [Nodes -> BOOLEAN]
    /\ idCounter \in [Nodes -> 0..(NPids - 1)]
    /\ job \in [Nodes -> [Tasks -> Jobs]]
    /\ rx \in [Receivers -> Seq(Frame)]
    /\ slotMap \in [Receivers -> [0..(NSlots - 1) -> SlotsOf(Byte)]]
    /\ sent \in [Nodes -> [Tasks -> Seq(Msgs)]]
    /\ acked \in [Nodes -> [Tasks -> Seq(Msgs)]]
    /\ got \in [Receivers -> Seq(Msgs)]
    /\ spent \in [sends : 0..MaxSends, faults : 0..MaxFaults]

\* No sender announces a length that wraps: a frame that does is noise.
TotalsSane ==
    /\ \A n \in Nodes, t \in Tasks : \A i \in DOMAIN job[n][t].frames :
          TotalSane(job[n][t].frames[i])
    /\ \A r \in Receivers : \A i \in DOMAIN rx[r] :
          TotalSane(rx[r][i]) \/ rx[r][i] \in Noise

\* Between two frames every slot is empty, waits for the rest of an announced
\* message, or has a total that wrapped: whatever was lost, repeated, mixed
\* or abandoned, no slot is left full, over-full or announced without room
\* for header and checksum (the arithmetic of ty.rs:649-666 relies on it).
SlotsOpen ==
    \A r \in Receivers : \A p \in 0..(NSlots - 1) :
        IsOpen(slotMap[r][p]) \/ IsWrapped(slotMap[r][p])

\* The inductive invariant behind SlotsOpen and PanicsKnown.
SlotInv == TypeOK /\ TotalsSane /\ SlotsOpen

\* recv() meets two panics only: the slot index, and the slices of
\* ty.rs:649-666 on a slot whose total wrapped; and only a frame of no
\* message, one that announces 65533 bytes or more, makes a slot such a one.
PanicsKnown ==
    [][\A r \in Receivers :
          LET f == Head(rx[r])
          IN /\ up[r] /\ ~up'[r] => OutOfSlots(f) \/ IsWrapped(slotMap[r][f.pid])
             /\ \A p \in 0..(NSlots - 1) :
                   IsWrapped(slotMap'[r][p]) /\ ~IsWrapped(slotMap[r][p])
                   => p = f.pid /\ f \in Noise /\ HdrTotal(f.data) >= 65533]_vars

\* recv() never panics.  RECV_BUF_SLOT_NUM is annotated "8bits for id"
\* (ty.rs:26): the slots are meant for every value of the 8-bit id.
NoPanic == \A n \in Nodes : up[n]

\* The only Reset frames a node meets are those that were meant to be: data
\* has a type of its own in the enum (ty.rs:203-204) and in test_typeid
\* (ty.rs:736).
DataNeverResets ==
    \A r \in Receivers : \A i \in DOMAIN rx[r] :
        rx[r][i].type = Reset => rx[r][i] \in Noise

\* Sends in progress at one node carry different pids, so their frames fall
\* into different slots however the tasks interleave and the counter wraps;
\* as long as none is overtaken by NPids others and no Reset frame arrives.
PidsDistinct ==
    \A n \in Nodes : \A t, u \in Tasks :
        /\ t # u
        /\ \A v \in {t, u} : /\ job[n][v].frames # <<>>
                             /\ Head(job[n][v].frames).type \in {MultiFirst, MultiMiddle}
        => Head(job[n][t].frames).pid # Head(job[n][u].frames).pid

\* The adaptor implements the lossy but faithful link of BusDelivery:
\* nothing altered, duplicated, invented or reordered reaches a node.
Offers == UNION {{MessageOf(n, req) : req \in Requests[n][t]} :
                    n \in Nodes, t \in Tasks}

Addressed(m, r) == m.src # r /\ m.dest \in {r, BroadcastId}

Link == INSTANCE BusDelivery
            WITH Messages <- Offers,
                 garbled <- [r \in Receivers |-> {}],
                 broken <- [r \in Receivers |-> FALSE]

DeliversFaithfully == [][Link!Next]_<<sent, got>>

\* A request r should be handed once the send returned Ok (single messages
\* of this code are left out: they cross the bus as Reset frames).
Arrives(n, req, r) ==
    /\ Sendable(req) /\ Deliverable(req)
    /\ req.time \/ Len(req.data) > SingleMax \/ n \in Foreign
    /\ Addressed(MessageOf(n, req), r)

Count(m, s) == Cardinality({i \in DOMAIN s : s[i] = m})

CaughtUp ==
    \A n \in Nodes, t \in Tasks, r \in Receivers :
        \A req \in {q \in Requests[n][t] : Arrives(n, q, r)} :
            Count(MessageOf(n, req), acked[n][t]) <= Count(MessageOf(n, req), got[r])

\* Where no frame is lost on the way, every message whose send() returned Ok
\* is handed to every addressee, as often as it was sent, whatever sends were
\* cut off before it and whatever slots they left half full.  (Sends are
\* bounded, so the receivers catch up for good.)
AckedArrives == []<>CaughtUp
=============================================================================
