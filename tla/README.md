# A specification of tcsp

tcsp is a server that runs on the computers of a satellite. It receives
requests over a CAN bus or a serial line, lets one of a few applications handle
them, and sends responses back. This directory holds TLA+ modules that model
it, TLC configurations that check them, and proofs for TLAPS.

Paths are relative to the root of the repository; most modules model files
under `src/`. `ty.rs` is `src/adaptor/can/ty.rs`.

## The system

    clients / OBC ... CAN bus ... TyCanProtocol --+
                      serial  ... Uart -----------+-- TcspServer::listen()
                      (tests) ... Channel --------+        |
                                                     BusFrame -> Frame
                                                           |
              TeleMetry  TimeSync  Echo  Reboot  UdpControl  ResetNetwork
                   |        |                         |          |
                   +--------+---- ZeromqSocket -------+      netplan, ifconfig
                                       |
                              service on 127.0.0.1:5555

| Component | State | Operations | What is hard |
| --- | --- | --- | --- |
| CAN adaptor (`ty.rs`) | `id_counter`, the table of slots, two sockets | `send`, `recv`, `restart` | many tasks may send at once, frames of different messages interleave on the bus; frames are lost or written twice; pids wrap; a panic ends the process |
| Slot (`can/slot.rs`) | bytes so far, announced length | `reset`, `set_total_len`, `copy_from_slice`, `is_complete` | stale contents after a cut-off message |
| Interface reset (`ty.rs:404-493`) | up or down of two interfaces | `restart`, `reset_interfaces`, the netlink thread | two threads reset without a lock; each of four calls may fail |
| Frame, header (`adaptor/frame.rs`, `protocol/v1/frame.rs`) | a window of `len` bytes at `offset` into 168 | expand, shrink, `set_len`, header | the window is moved by every layer; `set_len` does not look at `offset` |
| Server loop (`server.rs`) | the table of applications | `listen`, `handle` | an error must not stop the loop; a panic in an application aborts all of it |
| Echo, Reboot, ResetNetwork | none | `handle` | lengths of the responses; commands of the system that may hang |
| TeleMetry, TimeSync | none | `handle` | timeout of 100 ms at any point of an exchange |
| Fallback socket (`fallback.rs`) | one REQ socket behind a mutex | `fallback` | late answers; who holds the lock when a future is dropped |
| UdpControl | four buffers | `handle`, `generate_request` | slices of several commands; lost slices; lengths |
| UART adaptor (`uart.rs`) | serial port behind a mutex | `send`, `recv` | one read is taken for one frame; writes are cut short; a blocking read holds the mutex; the length on the line is adjusted twice |
| Upload, Download | a state, never constructed / unimplemented | - | - |
| Service scripts | - | systemd restarts the process | 20 starts in 300 s at most |

What makes each correct:

- CAN: a message whose `send` returned Ok is handed to every addressee when no
  frame is lost; nothing altered, invented, repeated or reordered is handed up,
  whatever happens to single frames; `recv` does not panic.
- Slots: between two frames each is empty or waits for the rest of a message
  that fits it.
- Reset: whoever takes an interface down brings it up, and two resets at once
  do not leave one down.
- Server: each loop returns to `recv` whatever the service does; responses go
  to the requester, by the same bus, once; an answer of the service belongs to
  the question asked.
- UdpControl: a command is forwarded as one message, whole and once.
- UART: however reads split and join what is written, nothing but whole frames
  is handed up while the bytes on the line are whole, and each with what the line
  carries of it; after a cut write or damage this is so again once what was left
  has been read; every `send` ends.

## Modules

| Module | Models | Notes |
| --- | --- | --- |
| `Slot` | `can/slot.rs` | operators on a record `[data, total, valid]` |
| `TyFrames` | formats in `ty.rs` | headers, checksum, cutting a message into frames |
| `TyCan` | `ty.rs` | nodes on one bus; extends the two above |
| `BusDelivery` | - | the abstract link: offer a message, deliver it at most once and in the order of its task; a way that is broken may yield anything until it is whole again; `TyCan` (never broken) and `Uart` implement it |
| `MCTyCan` | - | payloads and noise for TLC |
| `TyCan_proofs` | - | theorems about `TyCan`: types, slots, panics |
| `TyCanPids_proofs` | - | theorem about the pids of `TyCan`; extends the proofs above |
| `CanReset` | `ty.rs:404-493` | `reset_interfaces` call by call, in two threads |
| `CanReset_proofs` | - | its theorem |
| `BusFrame` | `adaptor/frame.rs`, `protocol/v1/frame.rs` | operators on frames |
| `Server` | `server.rs`, `application/*`, `fallback.rs` | loops, applications, socket; extends `BusFrame` |
| `MCServer` | - | requests for TLC |
| `Server_proofs` | - | theorem about the answers `Server` gets |
| `ServerResponses_proofs` | - | theorems about the frames of `Server` and what leaves it; extends the proofs above |
| `UdpControl` | `application/udp_control.rs` | clients that cut in two ways, link, buffers |
| `UdpControl_proofs` | - | theorems about `UdpControl` |
| `Uart` | `adaptor/uart.rs` | two ports on one line, byte by byte |
| `MCUart` | - | frames and noise for TLC |
| `Uart_proofs` | - | theorems about `Uart` |
| `UartDelivery_proofs` | - | `Uart` implements `BusDelivery`; extends the proofs above |

### TyCan

Per node: `up`, `idCounter` (`id_counter`), `job[t]` (what task t still has to
write inside `send`), `rx` (the receive queue of the socket behind its filter)
and `slotMap`. `Send` is the call of `send()` up to its first write:
`fetch_add`, the length checks and the framing touch nothing that another task
sees except the counter. Each write is a step (`WriteOk`, `FirstFails`,
`SendFails`), since the socket's mutex is taken for each frame alone and other
tasks write in between. Each read of a frame is one step (`Recv...`): `recv()`
has one await, before it. `RecvPanics` is the abort of the release build
(`panic = "abort"`), `ServiceRestart` the restart by systemd.

What the environment may do is bounded by `MaxFaults`: a write fails with or
without the frame having left; a frame is missed by some receivers; a frame of
`Noise` crosses the bus. Noise may be any frames, those that announce a length
which wraps when 3 is added (`ty.rs:632`) included: the slot then takes a total
of 0, 1 or 2 (`IsWrapped`), and a Middle frame of as many bytes completes it
and panics `recv()` at the slices of `ty.rs:652` and `665` (`TooShort`).
`Foreign` nodes have other firmware: their receive side is not this code and
their single frames carry the type `Single`, as `test_typeid` builds them (this
code sends them as `Reset`, see Findings).

`send()` is called here whenever a task likes. The server loop alone calls it
only after a request, one call at a time; `send` takes `&self` and is part of
the public interface, so more callers are possible and the model allows them.

`MaxOvertakes` bounds how many sends begin at a node while another one of that
node is in progress: `PidsDistinct` is false once `NPids` of them overtake a
send that stalls, and the source has nothing that prevents it but the width of
the counter (256).

History variables `sent`, `acked`, `got` state the properties.
`DeliversFaithfully` says that every step of `TyCan` is a step of
`BusDelivery` or changes neither `sent` nor `got`; over CAN the link is never
broken, so all of `got` counts. What a node got is explained
(`Explained`) when each message can be given a place in what was offered, no
place twice and those of a task in its order; two tasks may offer equal messages.

### CanReset

`link[i]`, and `todo[p]`, the calls that thread `p` has left of
`reset_interfaces`. `setup_can_interface` hands the names to
`listen_to_netlink` in the other order (`ty.rs:418`, `452`), which the model
keeps. In `TyCan` a reset is one step. `broken` remembers that a call failed and
no reset began since: what a failed call leaves down stays down until the next
reset, and `DownIsPending` says that the next one repairs it, whatever it was.

### Server

`task[s].at` is where the loop of server `s` stands: idle, locking the socket,
waiting for an answer, running a command of the system (`ifconfig` twice, or
`netplan` once), responding. `asked` and `answers` are the two directions
of the socket. `TimesOut` drops the future at either await and the mutex guard
with it; the question stays with the service. zeromq's REQ socket is modelled
by how the code uses it: a send after an abandoned exchange is accepted or
refused, and a receive takes the next answer that comes. Whether the socket of
zeromq 0.4 pairs answers with questions beyond that is not assumed.

The example servers run one loop per process. `ZeromqSocket` is `Clone` around
an `Arc<Mutex<..>>` so that it can be shared, and the run `server` lets a CAN
loop and a serial loop share one, which contains every behaviour of one loop.

### UdpControl

The clients, the link and `handle()`. A byte is the pair `<<command, index>>`, so
that a message shows where its bytes came from. A transaction's slices are sent
one after the other, and nothing keeps those of two from alternating, in one
buffer or in two; the link keeps the order and loses slices, and another node may
send a frame without data (`Blank`). `GeneratedSlices` is `generate_request` with
its wrong numbers, `ProtocolSlices` the packets of the test; `Cuts` says which of
the two the clients use. `handle()` panics in two ways (`Panics`): `data()[0]` of
a frame without data, and `payload_len - first_part` of a middle slice that does
not fill its buffer.

Three history variables state the properties: `faults` (slices lost and frames
without data), `mixed` (two commands for one buffer were under way at once) and
`opened[b]` (the slice that took buffer b). What `handle()` is made for is
`Clean`: commands of two slices as the protocol cuts them, no two at once in a
buffer, no fault. `ForwardedWhole` and `AllForwarded` say that these work.
`PanicsExplained` says what is behind every panic: a frame without data; a buffer
that was opened by the last slice of its command, since the others were lost or
since it is the only one; or the last slice of `generate_request`, not marked as
such. Two commands of one slice in one buffer end the process with nothing lost.

### Uart

`line[p]` holds the bytes that arrived at port `p`; `file[p]` is the queue of the
tokio mutex around the port, served in the order of the calls of `lock()`;
`job[p][t]` is what task t has to write. `Send` builds the frame and joins the
queue (nothing in between awaits); `WriteAll` and `WriteCut` are `write_all`
with the guard in hand; `Reads(p, n)` is one `read()` that returns n bytes, the
parser, and what is handed up; `ReadTimesOut` is the port's timeout of five
seconds. The guard is a temporary of the statement that reads or writes, so the
mutex is free before the bytes are parsed.

A serial line has no frames: `recv()` takes what one read returns for one
frame, and n may be any length that is there. The CRC is computed as
`CUSTOM_ALG` defines it: with the polynomial 0x80 it is the parity of all bytes
in the highest bit. What the line carries of a message (`MessageOf`) is its type,
command, id and data: `send()` writes the platform where the destination could
be, and no source.

`got[p]` is all that `recv()` returned, whatever it was read from. `harm[p]` is a
history variable: which things happened to the bytes on their way to p since its
buffer was last empty: a write was cut short, a byte changed or was lost, noise
came, or a frame with the marker of another in it. The buffer is sound (`Sound`)
when nothing but noise did. `garbled[p]` has the places in `got[p]` that were read
from a buffer that was not sound. `HandedWereOffered` says what comes from a
sound buffer, and how much less from one with cut writes: since the check byte is
not compared, eight bytes of a frame and the beginning of the next one make a
message with the data of neither, but its type, command and length are those of
a frame. `DeliversFaithfully` says that `Uart` implements a link that breaks while
a buffer is not sound, and mends without a trace in what comes after.
`Noise` is what the other end sends that is no frame of this code, such as a
header that announces two bytes, where `data_len - 3` wraps (`uart.rs:311`).

## Runs

| Run | Properties | Shows | Bounds |
| --- | --- | --- | --- |
| `can_sends` | `TypeOK`, `PidsDistinct`, `AckedArrives` | sends at once, on two pids that wrap, with a failed write: no two in progress share a pid; what was acknowledged arrives | 2 tasks, 3 sends, 2 pids, 1 overtake, 1 failed write |
| `can_lossy` | `SlotsOpen`, `DeliversFaithfully`, `PanicsKnown` | slots, faithfulness and panics under loss, errors, noise (announced lengths that wrap to 0 and 1 too), and a Reset frame that sets the counter back while a send is in progress | 3 nodes, 2 tasks, 1 slot for 2 pids, 2 sends, 2 faults |
| `can_panic` | `NoPanic` (violated) | the 129th message ends the receiver | sizes of the source |
| `can_single` | `DataNeverResets` (violated) | short messages are read as Reset | sizes of the source |
| `can_reset` | `DownIsPending`, `BothComeBack` | two resets at once leave no interface down, and the next one repairs a failed one | 4 events, 2 failing calls |
| `server` | `TypeOK`, `AnswersLagByTimeouts`, `ForwardsTheTime`, `ResponsesGoBack`, `AllServed` | loops, socket and frames | 2 loops, 3 requests of 12 kinds |
| `server_time` | `ForwardsTheTime` (violated) | a request built here carries the wrong bytes | 1 request |
| `udp_slices` | `TypeOK`, `ForwardedWhole`, `AllForwarded`, `PanicsExplained` | commands of one and two slices, cut in two ways, mixed, lost, with frames without data: clean ones are forwarded whole and once; each panic has one of three causes | 3 commands, 3 numbers, 2 buffers, 1 fault |
| `udp_generate` | `OneMessagePerCommand` (violated) | slices of `generate_request` | 1 command, sizes of the source |
| `udp_three` | `ForwardsPartsOfCommands` (violated) | commands of three slices | 1 command, sizes of the source |
| `uart` | `LineInv`, `HandedWereOffered`, `DeliversFaithfully`, `WholeReadsArrive`, `EverythingMoves` | frames, reads, faults, the mutex | 2 tasks at one port, 4 frames, a reader at each port, 2 sends, 1 fault of any of 4 kinds, reads of up to 10 bytes |
| `uart_crc` | `ChecksMatch` (violated) | a cut frame and the beginning of the next are handed up as one | 2 frames, 1 cut write, sizes of the source |

Why the bounds are enough: a slot is touched by frames of at most two messages
before it is reset, so two or three sends reach every mixture of an old, a
half-written and a new message; with one slot and two pids the index leaves the
table on the second send. Payloads of 7, 11 and 12 bytes meet the boundaries of
the framing (6 | 7 and 11 | 12), those of `can_single` the single frame. In
`can_sends` the third send meets the pid of the first while the second is in
progress; a failed write leaves its slot half full. In `can_lossy` a broadcast
Reset reaches a node in the middle of a send, and its other task then draws the
same pid; the noise announces lengths below and above what a slot takes, and
two that wrap to totals of 0 and 1, which a Middle frame of no bytes and one of
one byte complete (the last frame of a broadcast of twelve bytes, whose
checksum is 0: that gets as far as `ty.rs:665`). In `uart` the frames have no
data, one byte (the longest that a read of ten bytes takes), two, and eight
that look like a frame (both never read whole); two of them in one buffer, with
one fault, give every split and splice of two frames. `uart_crc` has the length
of a read of the source. A timeout, a late answer and the exchange that reads
it need two requests; three let two loops take part. Two buffers and three
numbers make one pair of transactions share a buffer and one pair not. Commands
of one byte and of five, with slices of four in a buffer of six, have one slice
and two; one loss opens a buffer with the wrong slice, a second command fills
it up or panics, and a third meets what that left. The sizes that are not those
of the source (`NSlots`, `NPids`, `BufSize`, `SliceMax`) keep its order
relations; where the numbers matter the run takes those of the source.

`CHECK_DEADLOCK FALSE`: sends, requests and events are bounded, so every run
ends in a state where nothing is left to do.

### Assumptions

- Payloads are chosen so that no mixture of two messages of a run has the
  checksum of a message: an additive checksum cannot tell some mixtures apart,
  and without this choice `DeliversFaithfully` would fail on the format and not
  on the code.
- The slices of one transaction are sent in their order and stay in it. Commands
  of other transactions may share a buffer with it; `ForwardedWhole` and
  `AllForwarded` promise nothing once two did (`mixed`), since the source has
  four buffers, no way to refuse a command and no way to tell two apart.
- One task calls `recv()` on an adaptor, as the comment on `RecvBuf` requires.
- `Harmless`: noise on the serial line does not begin with the second half of a
  marker and holds no marker but in front of a header that announces less than
  three bytes. Other noise could be a forged frame, which no reader can tell
  from a real one (nor does this one look at the check byte). Frames of this code
  may have any contents: one whose data hold a marker makes a buffer unsound.

### Fairness

Weak fairness of the steps that tokio takes by itself: a task inside `send` or
`handle` that is ready is polled, a loop that has a frame reads it, a timer
that has expired fires. On the serial line: a `write_all` whose task holds the
mutex ends, a `read` with the mutex returns or times out (the port is opened
with a timeout of five seconds, `uart.rs:33`), and the server loop calls
`recv()` again. That the mutex is fair needs no fairness condition: its queue
is part of the state. Nothing is assumed of the bus, of the service behind the
socket (it may never answer), of the commands that ResetNetwork runs (they may
hang, and then their server takes no other request: `AllServed` says that the
others do), of clients, or of systemd, which gives up after 20 starts.

### Mutants

Next to several operators stands a mutated form (a dropped guard, a missing
reset, an off-by-one) named in a comment. They are not part of any
specification; `PROJECT.json` says which property each one breaks.

## What is proved

`TyCan_proofs`, for any sets of nodes and tasks, any number of slots and pids,
any requests, any frames as noise, and any bounds:

- `SlotInvariant`: `Spec => []SlotInv`, with `SlotInv == TypeOK /\ TotalsSane
  /\ SlotsOpen`. `SlotsOpen` says that a slot is empty, open for an announced
  message that fits it, or has a total that wrapped. It is not inductive alone: a
  First frame opens a slot of the length it announces, so one must know that
  frames hold at most eight bytes (`TypeOK`); a slot of at least 11 bytes is not
  filled by its First frame. `TotalsSane` says whose frames wrap: none that a
  sender writes, so any that does is noise.
- `TypeCorrect`, `SlotsStayOpen`: its parts.
- `PanicsAreKnown`: `Spec => PanicsKnown`. A panic of `recv` is the slot index or
  a slice of a completed message; an open slot completes at its announced length
  of 11 or more, where the slices are in bounds, so a slot that panics has
  wrapped; and only a frame of the noise that announces 65533 bytes or more makes
  it so.
- `WideTable`: with `NPids <= NSlots`, and `TotalSane(f)` for the frames of the
  noise, `Spec => []NoPanic`. Together with `can_panic` it says that the width of
  the table is all that is wrong for the frames that senders of this code write;
  the second premise is needed for others.

They rest on `TyCanAssumption`, in which `PayloadMax + 5 <= SlotSize` is the
relation of 145 and 157 that the framing needs. Lemmas state what the framing
operators return (`FramesOf` yields frames, at most eight bytes each, a First
frame that announces a length that does not wrap), then one lemma per action.

`TyCanPids_proofs`, for any number of tasks and pids: `PidsStayDistinct`, with
`MaxOvertakes < NPids`, `Spec /\ []~ResetMeetsSend => []PidsDistinct`. Two
conditions, one for each way in which a pid comes back too early: the counter
goes round while a send is in progress, or a Reset frame sets it back
(`can_lossy` has such Resets, and there `PidsDistinct` is not claimed). The
invariant `PidInv` gives each send in progress the pid that `since` draws lie
behind the counter (`Behind`), `since` being the number of sends begun after it,
and says that no two have the same `since`.

`CanReset_proofs`: `ResetsComeBack`, `Spec => []DownIsPending`, for any
interface names, equal (as in `examples/can_server.rs`) or not. The invariant
`ResetInv` adds that what is left of a reset is a tail of its four calls. The
argument: a `Down` at the head has its `Up` behind it; taking a call from the
head loses the `Up` of an interface only when that `Up` is what is executed.

`Uart_proofs`, for any two ports, any tasks, any frames, any noise that is
`Harmless`, any read length up to 240 bytes (the source has 150) and any bounds on
sends and faults:

- `LineInvariant`: `Spec => []LineInv`, with `LineInv == TypeOK /\ MarkersBegin
  /\ PartsBegin /\ JobsOffered`. `MarkersBegin` says that in a sound buffer every
  marker begins a whole frame that was offered, or a header that announces
  nothing; `PartsBegin` that where writes were cut and nothing else happened,
  every marker begins a frame or a part of one that goes on to the next piece or
  to the end (`PieceAt`). They need `JobsOffered` (what a task writes is a frame
  it offered) and the part of `TypeOK` on the queue (who holds the mutex has
  something to write). For each of the two, one lemma says that a read leaves the
  rest as it should be (`SoundSuffix`, `PartsSuffix`) and one that what is written
  may come behind (`SoundConcat`, `PartsConcat`); `BufferWrites` and its like
  apply them to the actions.
- `HandedOK`: `Spec => HandedWereOffered`. What is accepted starts with a
  marker. In a sound buffer a frame begins there, whose length bytes make the
  accepted string that frame and no more (`AcceptedIsFrame`). After cut writes a
  part of one begins there; if the next piece began within the first seven bytes,
  its first byte would stand for a type or a command that is none, or announce a
  length that no read has (`HugePayload`, which is what the bound of 240 is for),
  so length, type and command are those of an offered message
  (`AcceptedHasHead`). What comes after them need not be, which `uart_crc` shows.
- `NothingGarbled`: where `Faults` has at most noise and frames hold no marker but
  their own, `Spec => []` nothing is garbled: what `Sound` asks for is what the
  line and the frames must be, and nothing else upsets a reader.
- `WholeReads`: `Spec => WholeReadsArrive`. Only a read takes nine bytes or
  more from a buffer, and the parser undoes what `send()` did (`ReceivedOfWire`,
  `PayloadOfLength`).

`UartDelivery_proofs`, from the same assumption, for any tasks and messages:

- `DeliveryInvariant`: `Spec => []DeliveryInv`. It gives each message that a
  port got from sound bytes, and each frame that begins in its buffer while that
  is sound, a place: the task of the other end that offered it and which of its
  offers it was. Places grow along `got`, leaving out what is garbled, and then
  along the buffer, task by task (`Row`, `Trace`), and stay below the message that
  a task has yet to write (`Written`), which is its last one (`WritesLast`).
  `LineInv` is needed beside it: a read that is accepted takes the frame
  at the front and nothing else, so the first place of the buffer moves to the
  end of `got`. Lemmas say what each kind of step does to the places: a message
  offered or written, a frame taken or passed over, a buffer that is no longer
  sound, and something garbled handed up, which adds no place.
- `Delivers`: `Spec => DeliversFaithfully`. `Send` is `Offer`; a read that hands
  something up is `Deliver` with the places as witness, or `Garble` when the
  buffer is not sound; all other steps stutter.
- `ImplementsLink`: `Spec => Link!Spec`, the same with the initial state.

`Server_proofs`, for any servers, applications, requests and bounds:
`AnswersLag`, `Spec => []AnswersLagByTimeouts`. The invariant `LagInv` says why
an order is all that `fallback()` needs, and how far it goes wrong: answers and
questions under way are numbered without a gap up to the last question asked;
at most one loop waits, and it asked that one; all others under way were given
up, so there are no more than `late` of them. The first answer is then at most
`late` behind. Restarts of the process and losses at the service drop both
queues and keep the numbers.

`ServerResponses_proofs`, for any servers, applications and bounds, and any
requests in frames as `Frame::new` makes them (`IsNewFrame` in
`ServerAssumption`: at most 150 bytes, all of them shown, from byte 16 on):

- `RespInvariant`: `Spec => []RespInv`. Its parts: a request is in one queue
  once, or with one loop, or answered once (`OnePlace`), by a server it came to
  (`Numbers`); what a loop at work holds begins at byte 16 and has room for
  every header, and when it responds turns the request's ends round and, as an
  echo, has its bytes (`AtWork`); what left is such a frame with its headers
  (`Left`); what is under way to the service is the question of one request
  (`Asking`); and no more questions were given up than asked (`Counted`).
- `TypeCorrect`: `Spec => []TypeOK`. The frames of every handler stay in bounds
  because each begins with room (`AtWork`) and each layer takes what the checks
  of `expand_head` leave it. It rests on `LagInv` for the queues of the socket.
- `GoBack`: `Spec => []ResponsesGoBack`. Nothing in the loops pairs a response
  with its request but the order of their steps, so the request's header must be
  followed through `try_from`, each handler, `set_meta_from_request` and
  `insert_header`; lemmas on the operators of `BusFrame` say what each does to
  the window and to what it shows.
- `TimeForwarded`: `TimesFit => (Spec => []ForwardsTheTime)`. `TimesFit` says
  where requests carry the time: four bytes after 50 05 in a CAN broadcast (as
  `recv()` builds it), four bytes after the header in any other. The requests
  of `server` fit; the one `TimeSync::request` builds has eight bytes and does
  not, which is what `server_time` shows.

`UdpControl_proofs`, for any numbers of buffers, transactions and commands:

- `TypeCorrect`: `Spec => []TypeOK`, for slices of either client and any losses.
- `PanicsAreExplained`: `BufSize <= 2 * SliceMax => (Spec => PanicsExplained)`, for
  commands of any length, cut in either way (150 bytes and slices of 123 in the
  source). By `OpenedInv` each slice is full or ends its command, and a taken
  buffer counts the bytes of the slice that took it. Then what room is left is no
  more than a full slice fills, unless that slice was not full; and the slice that
  comes is full, unless it ends its command without the mark. That clean commands
  never panic is `WholeInv`, below.
- `Whole`: `Spec => []ForwardedWhole`. The invariant `WholeInv` says of clean
  states (two slices, as `udp_three` shows why not three) that the server is up
  and looks ahead: for every slice under way it says what its buffer will be once
  those before it are handled (`Awaits`, `Frees`), and the same for the slices
  still pending. The lemmas `Extended` and `Handled` carry this over a slice added
  at the end and one taken from the front. `Once` has each command pending, or
  with its last slice under way, or forwarded, and never in two of these.
  A state that is not clean never becomes clean again (`WasClean`).

Only model-checked: every liveness property (fairness is out of the prover's
reach), and `DeliversFaithfully` of `TyCan`. That one does not hold for every
value of the constants: when two sends of a node share a pid, or a Reset frame
brings one back, frames of two messages meet in one slot, and only the checksum
tells the mixture from a message; where the sums agree it passes. A theorem
would have to assume that no two payloads mix to an equal sum.

## Findings

- The table of slots has 128 entries for a pid of eight bits (`ty.rs:26`; run
  `can_panic`).
- Messages of up to six bytes carry the type bits of `Reset` (`ty.rs:316`; run
  `can_single`). `AckedArrives` therefore leaves single messages of this code
  out.
- `generate_request` never marks a last slice and numbers slices where
  `handle()` reads transactions (`udp_control.rs:103`; run `udp_generate`).
- A command of three slices is forwarded with stale bytes (`udp_control.rs:81`;
  run `udp_three`).
- `TimeSync::request` and `TimeSync::handle` disagree on the width of the time
  (`time_sync.rs:61`; run `server_time`). The CAN broadcast is not affected.
- The check byte of a serial frame is computed and not compared
  (`uart.rs:198`; run `uart_crc`). With no byte changed on the line, a write that
  fails after eight bytes or more and the frame that follows are handed up as one
  message, whose data nobody sent. The polynomial makes it a parity bit, so a
  comparison would miss some of these and every even number of changed bits, and
  the `check: 0xae` of `CUSTOM_ALG` (`uart.rs:21`) is no value it can have.

Seen on the way, without a run that fails: a First frame that announces 65533
bytes or more, which no sender of this code writes, makes its slot one that
panics `recv()` (`ty.rs:632`, `652`; `PanicsKnown` has it as one of the two
panics); two commands of one slice in one buffer panic `handle()`, and so does
a frame without data (`udp_control.rs:76`, `49`; `PanicsExplained`); the "ok"
of `Reboot` does not reach the client, since `set_meta_from_request` copies the
length of the request, which is 0, over that of the response (`reboot.rs:11`);
a serial frame with more than 141 bytes of data is never received, since the
buffer of `recv()` has 150 bytes (`uart.rs:75`) while `send()` and `mtu()`
allow more.

## Not modelled

The upload state machine (its fields are private and nothing constructs it, so
no server can register it), `DownloadCommand` (unimplemented), what `ifconfig`
prints and its parsing, logging, `Frame::extended` (no caller),
`from_self_to_slice` (only its test calls it), the feature
`unstable_add_frameheader`, error conversions. The 64 bytes of a List response
are read from a local that is gone (`reset_network.rs:190-195`); the model
keeps their number only. A CAN checksum collision and a forged serial frame are
excluded by the assumptions above. In `CanReset` the netlink socket is there:
how `listen_to_netlink` opens it (and panics where it cannot) is left out.

## Plan

Done, in this order: `Slot`, `TyFrames`, `TyCan` with `BusDelivery`, its
proofs, `UdpControl`, `BusFrame` and `Server`, `CanReset` with its proof, `Uart`
with its proofs, the proofs about pids, `Server` and `UdpControl`, then those
about the frames and responses of `Server`, and the refinement of `BusDelivery`
by `Uart`.

1. `TyCan`: the theorem that a message whose frames met no others in its slot
   (as `PidsDistinct` has it, without losses) is handed up as it was offered.
2. Composition: `Server` over `TyCan` for one loop (request frames in, response
   frames out), with `UdpControl` as one of the applications, so that a slice
   that times out and a slice that is lost on the bus meet.
3. `Upload` as a small state machine, once something constructs it.
