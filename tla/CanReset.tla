------------------------------ MODULE CanReset ------------------------------
(***************************************************************************)
(* How the interfaces of the CAN adaptor go down and come back,            *)
(* src/adaptor/can/ty.rs: reset_interfaces() runs in the task that calls   *)
(* recv(), for a Reset frame, and in the thread that listens to netlink,   *)
(* when the kernel reports a bus error.  Nothing keeps the two apart.      *)
(* TyCan takes a reset as one step and models what it does to id_counter;  *)
(* here each bring_down and bring_up is a step, and each may fail.         *)
(***************************************************************************)
EXTENDS Naturals, Sequences

CONSTANTS
    RxIface, TxIface,           \* socket_rx_name, socket_tx_name
    Netlink,                    \* feature netlink_can_error_detection
    MaxEvents, MaxFailures      \* bounds: reasons to reset, calls that fail

ASSUME CanResetAssumption ==
    Netlink \in BOOLEAN /\ MaxEvents \in Nat /\ MaxFailures \in Nat

VARIABLES
    link,               \* link[i]: interface i is up
    waiting,            \* waiting[p]: Reset frames or notifications not yet read
    todo,               \* todo[p]: the calls that p's reset_interfaces has left
    broken,             \* history: a call failed, and no reset began since
    events, failures    \* how much of the bounds is used

vars == <<link, waiting, todo, broken, events, failures>>

Ifaces == {RxIface, TxIface}

Resetters == {"recv"} \cup (IF Netlink THEN {"netlink"} ELSE {})

Down(i) == [iface |-> i, up |-> FALSE]
Up(i) == [iface |-> i, up |-> TRUE]

\* Mutant of Calls: the second interface is not brought up again.
CallsForgetTx(rx, tx) == <<Down(rx), Down(tx), Up(rx)>>

\* The four calls of reset_interfaces(rx, tx).
Calls(rx, tx) == <<Down(rx), Down(tx), Up(rx), Up(tx)>>

\* setup_can_interface gives listen_to_netlink the names in the other order.
Plan(p) == IF p = "recv" THEN Calls(RxIface, TxIface) ELSE Calls(TxIface, RxIface)

\* new() returned: setup_can_interface left both interfaces up.
Init ==
    /\ link = [i \in Ifaces |-> TRUE]
    /\ waiting = [p \in Resetters |-> 0]
    /\ todo = [p \in Resetters |-> <<>>]
    /\ broken = FALSE
    /\ events = 0 /\ failures = 0

\* A Reset frame is heard only while rx is up; it may be read later.  The
\* kernel notifies any time.
Event(p) ==
    /\ events < MaxEvents
    /\ p = "recv" => link[RxIface]
    /\ waiting' = [waiting EXCEPT ![p] = @ + 1]
    /\ events' = events + 1
    /\ UNCHANGED <<link, todo, broken, failures>>

Start(p) ==
    /\ waiting[p] > 0
    /\ todo[p] = <<>>
    /\ waiting' = [waiting EXCEPT ![p] = @ - 1]
    /\ todo' = [todo EXCEPT ![p] = Plan(p)]
    /\ broken' = FALSE
    /\ UNCHANGED <<link, events, failures>>

CallSucceeds(p) ==
    /\ todo[p] # <<>>
    /\ link' = [link EXCEPT ![Head(todo[p]).iface] = Head(todo[p]).up]
    /\ todo' = [todo EXCEPT ![p] = Tail(@)]
    /\ UNCHANGED <<waiting, broken, events, failures>>

\* map_err(...)?: the calls that are left are not made.
CallFails(p) ==
    /\ todo[p] # <<>>
    /\ failures < MaxFailures
    /\ failures' = failures + 1
    /\ todo' = [todo EXCEPT ![p] = <<>>]
    /\ broken' = TRUE
    /\ UNCHANGED <<link, waiting, events>>

Reset(p) == Start(p) \/ CallSucceeds(p) \/ CallFails(p)

Next == \E p \in Resetters : Event(p) \/ Reset(p)

Spec == Init /\ [][Next]_vars

\* The recv() task and the netlink thread read what waits for them and go
\* on inside reset_interfaces.
Fairness == \A p \in Resetters : WF_vars(Reset(p))

FairSpec == Spec /\ Fairness

---------------------------------------------------------------------------
(* Properties. *)

Pending(i) == \E p \in Resetters : \E j \in DOMAIN todo[p] : todo[p][j] = Up(i)

\* However the recv() task and the netlink thread interleave, whoever finds
\* an interface down knows that it is about to be brought up, unless a call
\* has failed; and whatever the failed one left down, the next reset brings
\* up: no state of the interfaces is beyond repair by one more reset.
DownIsPending == broken \/ \A i \in Ifaces : link[i] \/ Pending(i)

\* What is left of Plan(p) as its calls are made.
Rest(rx, tx) == {Calls(rx, tx), <<Down(tx), Up(rx), Up(tx)>>, <<Up(rx), Up(tx)>>, <<Up(tx)>>, <<>>}

RestOf(p) == IF p = "recv" THEN Rest(RxIface, TxIface) ELSE Rest(TxIface, RxIface)

\* The inductive invariant behind DownIsPending: what is left to do is a
\* tail of the plan, in which every Down has its Up.
ResetInv ==
    /\ link \in [Ifaces -> BOOLEAN]
    /\ DOMAIN todo = Resetters
    /\ \A p \in Resetters : todo[p] \in RestOf(p)
    /\ DownIsPending

\* ... so both interfaces come back after every reset, also after one that
\* follows a failed one.  (Events are bounded: they come back for good.)
BothComeBack == []<>(broken \/ \A i \in Ifaces : link[i])
=============================================================================
