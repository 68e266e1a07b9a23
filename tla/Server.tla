------------------------------- MODULE Server -------------------------------
(***************************************************************************)
(* The server loops of src/server.rs, the applications of                  *)
(* src/application/ that answer in one step, and the ZeroMQ socket of      *)
(* fallback.rs they share.                                                 *)
(*                                                                         *)
(* Each server runs one loop over its adaptor: receive a frame, parse it,  *)
(* let the application handle it, send the response.  TeleMetry and        *)
(* TimeSync ask the service behind the socket and give up after 100 ms,    *)
(* wherever the future is then.  An abandoned exchange unlocks the socket; *)
(* its answer, when it comes, is read by the exchange that follows.        *)
(* ResetNetwork runs commands of the system and waits for each to end.     *)
(* UdpControl has a module of its own.                                     *)
(***************************************************************************)
EXTENDS BusFrame

CONSTANTS
    Servers,        \* the buses served, of {"can", "uart", "channel"}
    Apps,           \* Apps[s]: the application ids registered with s
    Requests,       \* Requests[s]: [frame, meant], what clients may send to s
    MaxRequests     \* bound

ASSUME ServerAssumption ==
    /\ Servers \subseteq {"can", "uart", "channel"}
    /\ \A s \in Servers : /\ Apps[s] \subseteq 0..255
                          /\ \A q \in Requests[s] : IsNewFrame(q.frame)
    /\ MaxRequests \in Nat

VARIABLES
    up,             \* the process runs
    reqs,           \* history: the requests clients sent, in order
    inbox,          \* inbox[s]: numbers of requests its adaptor has for s
    task,           \* task[s]: where the loop of s is
    holder,         \* the server whose handler holds the socket's lock
    asked,          \* questions on their way to the service
    answers,        \* answers on their way back, by number of the question
    asks,           \* history: how many questions were asked
    late,           \* history: how many of them were given up
    out             \* history: responses sent

vars == <<up, reqs, inbox, task, holder, asked, answers, asks, late, out>>

NoServer == "nobody"

\* at: idle, locking, waiting, running or responding; k: the request; n: its
\* question; got: the question whose answer it has; left: commands to run;
\* resp: the response so far.
Idle == [at |-> "idle", k |-> 0, n |-> 0, got |-> 0, left |-> 0,
         resp |-> NewFrame(0, 0, NoFlag, <<>>)]

Init ==
    /\ up = TRUE
    /\ reqs = <<>>
    /\ inbox = [s \in Servers |-> <<>>]
    /\ task = [s \in Servers |-> Idle]
    /\ holder = NoServer
    /\ asked = <<>> /\ answers = <<>>
    /\ asks = 0 /\ late = 0
    /\ out = <<>>

---------------------------------------------------------------------------
(* The applications: what handle() does with a parsed request. *)

AppOf(k) == Application(reqs[k].frame)
Req(k) == Request(reqs[k].frame)

\* Slices and indices of handle() that are out of bounds, in the applications
\* of this module; those of UdpControl are in UdpControl's HandlePanics.
HandlePanics(k) ==
    \/ AppOf(k) = TimeSyncId /\ Req(k).len < 4
    \/ AppOf(k) = ResetNetworkId /\ Req(k).len = 0

\* EchoCommand: the request's data, its meta with the two ends exchanged.
EchoResponse(r) == WithRequestMeta(NewFrame(0, 0, NoFlag, Data(r)), r)

\* Reboot: "ok" is stored, then the meta of the request is copied over.
RebootResponse(r) == WithRequestMeta(NewFrame(0, 0, NoFlag, <<111, 107>>), r)

\* ResetNetwork: a byte of command and status; List adds 64 of addresses.
StatusSize == 64
StatusByte(cmd, status) == cmd + 64 * status

ResetResponses(r) ==
    LET cmd == Data(r)[1]
        reply == WithRequestMeta(NewFrame(0, 0, NoFlag, Data(r)), r)
        With(len, b) == [SetLen(reply, len) EXCEPT !.bytes[1] = b]
    IN CASE cmd = 1 -> {With(1 + StatusSize, StatusByte(1, 1))}
         [] cmd = 2 -> {With(1, StatusByte(2, status)) : status \in {1, 2}}
         [] OTHER -> {With(1, StatusByte(0, 3))}

\* The commands a request runs, one after the other: ifconfig for each of
\* the two interfaces, or netplan.
Commands(k) ==
    IF AppOf(k) # ResetNetworkId THEN 0
    ELSE CASE Data(Req(k))[1] = 1 -> 2
           [] Data(Req(k))[1] = 2 -> 1
           [] OTHER -> 0

DirectResponses(k) ==
    CASE AppOf(k) = EchoId -> {EchoResponse(Req(k))}
      [] AppOf(k) = RebootId -> {RebootResponse(Req(k))}
      [] AppOf(k) = ResetNetworkId -> ResetResponses(Req(k))
      [] OTHER -> {}

\* What TeleMetry and TimeSync ask the service.
Question(k) ==
    IF AppOf(k) = TelemetryId THEN <<0, 0, 234, 96>>
    ELSE <<0, 0, 234, 97>> \o SubSeq(Data(Req(k)), 1, 4) \o <<0, 0>>

\* Mutant of TelemetryResponse: the length set_len() just accepts.
TelemetryFull(r) ==
    SetLen(WithRequestMeta(BusFrame(0, 0, NoFlag, 0, <<>>), r), FrameDataLength)

\* TeleMetry: 100 bytes for the reply to be copied into.
TelemetryResponse(r) == SetLen(WithRequestMeta(BusFrame(0, 0, NoFlag, 0, <<>>), r), 100)

---------------------------------------------------------------------------
(* The loop. *)

ClientSends(s) ==
    /\ up
    /\ Len(reqs) < MaxRequests
    /\ \E q \in Requests[s] :
          /\ reqs' = Append(reqs, q)
          /\ inbox' = [inbox EXCEPT ![s] = Append(@, Len(reqs) + 1)]
    /\ UNCHANGED <<up, task, holder, asked, answers, asks, late, out>>

\* recv() has request k for the loop of s.
Ready(s, k) == up /\ task[s].at = "idle" /\ inbox[s] # <<>> /\ k = Head(inbox[s])

Receives(s, k) == Ready(s, k) /\ inbox' = [inbox EXCEPT ![s] = Tail(@)]

Handled(s, k) == Parses(reqs[k].frame) /\ AppOf(k) \in Apps[s]

\* No header of ours, or no application: logged.
RecvDropped(s) ==
    \E k \in DOMAIN reqs :
        /\ Receives(s, k)
        /\ ~Handled(s, k)
        /\ UNCHANGED <<up, reqs, task, holder, asked, answers, asks, late, out>>

HandleDirectly(s) ==
    \E k \in DOMAIN reqs :
        /\ Receives(s, k)
        /\ Handled(s, k) /\ ~HandlePanics(k) /\ Commands(k) = 0
        /\ \E resp \in DirectResponses(k) :
              task' = [task EXCEPT ![s] =
                         [Idle EXCEPT !.at = "responding", !.k = k, !.resp = resp]]
        /\ UNCHANGED <<up, reqs, holder, asked, answers, asks, late, out>>

\* Nothing limits how long a command may take.
HandleRunning(s) ==
    \E k \in DOMAIN reqs :
        /\ Receives(s, k)
        /\ Handled(s, k) /\ ~HandlePanics(k) /\ Commands(k) > 0
        /\ task' = [task EXCEPT ![s] =
                      [Idle EXCEPT !.at = "running", !.k = k, !.left = Commands(k)]]
        /\ UNCHANGED <<up, reqs, holder, asked, answers, asks, late, out>>

\* It succeeds, or it fails and the response says so.
CommandEnds(s) ==
    /\ task[s].at = "running"
    /\ IF task[s].left > 1
       THEN task' = [task EXCEPT ![s].left = @ - 1]
       ELSE \E resp \in DirectResponses(task[s].k) :
               task' = [task EXCEPT ![s] = [@ EXCEPT !.at = "responding", !.left = 0,
                                                     !.resp = resp]]
    /\ UNCHANGED <<up, reqs, inbox, holder, asked, answers, asks, late, out>>

\* fallback() is called and waits for the lock.
HandleAsking(s) ==
    \E k \in DOMAIN reqs :
        /\ Receives(s, k)
        /\ Handled(s, k) /\ ~HandlePanics(k)
        /\ AppOf(k) \in {TelemetryId, TimeSyncId}
        /\ task' = [task EXCEPT ![s] = [Idle EXCEPT !.at = "locking", !.k = k]]
        /\ UNCHANGED <<up, reqs, holder, asked, answers, asks, late, out>>

\* A panic aborts the process: its tasks, its queues and its connection.
Aborts(s) ==
    \E k \in DOMAIN reqs :
        /\ Ready(s, k)
        /\ Handled(s, k) /\ HandlePanics(k)
        /\ up' = FALSE
        /\ inbox' = [t \in Servers |-> <<>>]
        /\ task' = [t \in Servers |-> Idle]
        /\ holder' = NoServer
        /\ asked' = <<>> /\ answers' = <<>>
        /\ UNCHANGED <<reqs, asks, late, out>>

\* systemd: Restart=on-failure.
ServiceRestart ==
    /\ ~up
    /\ up' = TRUE
    /\ UNCHANGED <<reqs, inbox, task, holder, asked, answers, asks, late, out>>

---------------------------------------------------------------------------
(* The socket. *)

\* Mutant of LockFree: nothing keeps two exchanges apart.
NeverLocked == TRUE

LockFree == holder = NoServer

\* lock().await, send().await: the socket takes the question, or refuses it
\* (it is not connected) and fallback() returns the error.
Asks(s) ==
    /\ task[s].at = "locking"
    /\ LockFree
    /\ \/ /\ holder' = s
          /\ asks' = asks + 1
          /\ asked' = Append(asked, [n |-> asks + 1, k |-> task[s].k,
                                     msg |-> Question(task[s].k)])
          /\ task' = [task EXCEPT ![s].at = "waiting", ![s].n = asks + 1]
       \/ /\ task' = [task EXCEPT ![s] = Idle]
          /\ UNCHANGED <<holder, asks, asked>>
    /\ UNCHANGED <<up, reqs, inbox, answers, late, out>>

\* The service answers questions in the order it gets them, or never.
ServiceAnswers ==
    /\ asked # <<>>
    /\ asked' = Tail(asked)
    /\ answers' = Append(answers, Head(asked).n)
    /\ UNCHANGED <<up, reqs, inbox, task, holder, asks, late, out>>

\* recv().await, and what handle() does with the reply.
GetsAnswer(s) ==
    LET r == Req(task[s].k)
    IN /\ task[s].at = "waiting"
       /\ answers # <<>>
       /\ answers' = Tail(answers)
       /\ holder' = NoServer
       /\ task' = [task EXCEPT ![s] =
                     IF AppOf(task[s].k) = TelemetryId
                     THEN [@ EXCEPT !.at = "responding", !.got = Head(answers),
                                    !.resp = TelemetryResponse(r)]
                     ELSE Idle]
       /\ UNCHANGED <<up, reqs, inbox, asked, asks, late, out>>

\* Mutant of Timed: only the lock is waited for with a limit.
TimedLockOnly(s) == task[s].at = "locking"

\* Where timeout() may find the future.
Timed(s) == task[s].at \in {"locking", "waiting"}

\* The future is dropped, and the guard with it; handle() returns an error.
TimesOut(s) ==
    /\ Timed(s)
    /\ task' = [task EXCEPT ![s] = Idle]
    /\ holder' = IF holder = s THEN NoServer ELSE holder
    /\ late' = IF task[s].at = "waiting" THEN late + 1 ELSE late
    /\ UNCHANGED <<up, reqs, inbox, asked, answers, asks, out>>

---------------------------------------------------------------------------
(* The response. *)

\* The adaptor's send() accepts the frame.
AdaptorAccepts(s, f) ==
    CASE s = "can" -> /\ f.len <= 145
                      /\ ExpandHeadOk(f, IF f.len <= 6 THEN 2 ELSE 4)
                      /\ f.len > 6 => f.off + f.len + 1 <= FrameDataLength
      [] s = "uart" -> ExpandHeadOk(f, 8) /\ ExpandTailOk(f, 1)
      [] OTHER -> TRUE

\* BusFrame::try_from(response), adaptor.send(): an error is logged.
Responds(s) ==
    LET f == InsertHeader(task[s].resp, AppOf(task[s].k))
    IN /\ task[s].at = "responding"
       /\ task' = [task EXCEPT ![s] = Idle]
       /\ \/ /\ AdaptorAccepts(s, f)
             /\ out' = Append(out, [s |-> s, k |-> task[s].k, n |-> task[s].n,
                                    got |-> task[s].got, frame |-> f])
          \/ UNCHANGED out
       /\ UNCHANGED <<up, reqs, inbox, holder, asked, answers, asks, late>>

Handle(s) ==
    \/ RecvDropped(s) \/ HandleDirectly(s) \/ HandleAsking(s) \/ HandleRunning(s)
    \/ Aborts(s)

Next ==
    \/ \E s \in Servers :
          \/ ClientSends(s) \/ Handle(s)
          \/ Asks(s) \/ GetsAnswer(s) \/ TimesOut(s) \/ CommandEnds(s) \/ Responds(s)
    \/ ServiceAnswers
    \/ ServiceRestart

Spec == Init /\ [][Next]_vars

\* The loop goes on, and timers fire.  Nothing is asked of the service, nor of
\* the commands.
Fairness == \A s \in Servers : WF_vars(Handle(s)) /\ WF_vars(TimesOut(s)) /\ WF_vars(Responds(s))

FairSpec == Spec /\ Fairness
---------------------------------------------------------------------------
(* Properties. *)

\* Every frame a handler builds, and every frame given to an adaptor, shows
\* bytes it has: set_len() and set_meta_from_request() set a length without
\* a look at the offset, and data() panics when the two do not agree.
TypeOK ==
    /\ up \in BOOLEAN
    /\ holder \in Servers \cup {NoServer}
    /\ late <= asks /\ Len(asked) + Len(answers) <= asks
    /\ \A s \in Servers : InBounds(task[s].resp)
    /\ \A i \in DOMAIN out : InBounds(out[i].frame) /\ out[i].frame.off >= 0

\* The answer a telemetry response carries is never that of a later
\* question, and lags behind its own by no more questions than were given
\* up: with no timeout every response carries its own answer, whichever
\* servers share the socket.
AnswersLagByTimeouts ==
    \A i \in DOMAIN out :
        AppOf(out[i].k) = TelemetryId =>
            out[i].got <= out[i].n /\ out[i].n <= out[i].got + late

\* What TimeSync forwards is the time that the client meant, whether it came
\* as a CAN broadcast or as an ordinary request.  TimeSync::request promises
\* it of requests built here: "Provide a datetime to be used as the
\* timestamp" (time_sync.rs:59).
ForwardsTheTime ==
    \A i \in DOMAIN asked :
        AppOf(asked[i].k) = TimeSyncId =>
            asked[i].msg = <<0, 0, 234, 97>> \o reqs[asked[i].k].meant \o <<0, 0>>

\* A request gets at most one response; it leaves by the bus the request
\* came from, from the application asked, to the one who asked
\* (protocol/v1/frame.rs:131: "source and destination of the response frame are
\* exchanged"), and an echo repeats the request.
ResponsesGoBack ==
    /\ \A i, j \in DOMAIN out : out[i].k = out[j].k => i = j
    /\ \A i \in DOMAIN out :
          LET q == reqs[out[i].k].frame
              f == out[i].frame
          IN /\ reqs[out[i].k] \in Requests[out[i].s]
             /\ f.src = q.dest /\ f.dest = q.src
             /\ Application(f) = AppOf(out[i].k)
             /\ AppOf(out[i].k) = EchoId => Data(f) = Data(q)

\* Whatever the service does, each loop comes back for every request, as long
\* as no command of its own hangs; one that hangs stops no other loop.
AllServed ==
    \A s \in Servers : []<>(\/ inbox[s] = <<>> /\ task[s].at = "idle"
                            \/ task[s].at = "running")
=============================================================================
