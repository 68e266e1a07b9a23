-------------------------- MODULE CanReset_proofs --------------------------
(***************************************************************************)
(* Proof that the resets of the recv() task and of the netlink thread      *)
(* never leave an interface down between them.                             *)
(***************************************************************************)
EXTENDS CanReset, TLAPS

LEMMA CallFields ==
    \A i : /\ Down(i).iface = i /\ Down(i).up = FALSE
          /\ Up(i).iface = i /\ Up(i).up = TRUE
BY DEF Down, Up

\* What is left of a plan: its tail is again such a rest, a Down at its
\* head has its Up behind it, and the tail is the rest moved up by one.
IsRest(s, ifaces, rests) ==
    /\ Tail(s) \in rests
    /\ Head(s).iface \in ifaces /\ Head(s).up \in BOOLEAN
    /\ ~Head(s).up => \E j \in DOMAIN Tail(s) : Tail(s)[j] = Up(Head(s).iface)
    /\ \A j \in DOMAIN s : j # 1 => j - 1 \in DOMAIN Tail(s) /\ Tail(s)[j - 1] = s[j]
    /\ Head(s) = s[1]

LEMMA RestShape ==
    ASSUME NEW rx, NEW tx, NEW s \in Rest(rx, tx), s # <<>>
    PROVE  IsRest(s, {rx, tx}, Rest(rx, tx))
<1>1. CASE s = Calls(rx, tx)
  <2>1. Tail(s) = <<Down(tx), Up(rx), Up(tx)>> /\ Head(s) = Down(rx) /\ s[1] = Down(rx)
    BY <1>1 DEF Calls
  <2>2. Tail(s) \in Rest(rx, tx)
    BY <2>1 DEF Rest
  <2>3. Head(s).iface \in {rx, tx} /\ Head(s).up \in BOOLEAN
    BY <2>1, CallFields
  <2>4. 2 \in DOMAIN <<Down(tx), Up(rx), Up(tx)>> /\ <<Down(tx), Up(rx), Up(tx)>>[2] = Up(rx)
    OBVIOUS
  <2>5. \E j \in DOMAIN Tail(s) : Tail(s)[j] = Up(rx)
    BY <2>1, <2>4, Zenon
  <2>6. Head(s).iface = rx
    BY <2>1, CallFields
  <2>7. \A j \in DOMAIN s : j # 1 => j - 1 \in DOMAIN Tail(s) /\ Tail(s)[j - 1] = s[j]
    BY <1>1, <2>1 DEF Calls
  <2> QED BY <2>1, <2>2, <2>3, <2>5, <2>6, <2>7, Zenon DEF IsRest
<1>2. CASE s = <<Down(tx), Up(rx), Up(tx)>>
  <2>1. Tail(s) = <<Up(rx), Up(tx)>> /\ Head(s) = Down(tx) /\ s[1] = Down(tx)
    BY <1>2
  <2>2. Tail(s) \in Rest(rx, tx)
    BY <2>1 DEF Rest
  <2>3. Head(s).iface \in {rx, tx} /\ Head(s).up \in BOOLEAN
    BY <2>1, CallFields
  <2>4. 2 \in DOMAIN <<Up(rx), Up(tx)>> /\ <<Up(rx), Up(tx)>>[2] = Up(tx)
    OBVIOUS
  <2>5. \E j \in DOMAIN Tail(s) : Tail(s)[j] = Up(tx)
    BY <2>1, <2>4, Zenon
  <2>6. Head(s).iface = tx
    BY <2>1, CallFields
  <2>7. \A j \in DOMAIN s : j # 1 => j - 1 \in DOMAIN Tail(s) /\ Tail(s)[j - 1] = s[j]
    BY <1>2, <2>1
  <2> QED BY <2>1, <2>2, <2>3, <2>5, <2>6, <2>7, Zenon DEF IsRest
<1>3. CASE s = <<Up(rx), Up(tx)>>
  <2>1. Tail(s) = <<Up(tx)>> /\ Head(s) = Up(rx) /\ s[1] = Up(rx)
    BY <1>3
  <2>2. Tail(s) \in Rest(rx, tx)
    BY <2>1 DEF Rest
  <2>3. Head(s).iface \in {rx, tx} /\ Head(s).up \in BOOLEAN
    BY <2>1, CallFields
  <2>4. Head(s).up
    BY <2>1, CallFields
  <2>7. \A j \in DOMAIN s : j # 1 => j - 1 \in DOMAIN Tail(s) /\ Tail(s)[j - 1] = s[j]
    BY <1>3, <2>1
  <2> QED BY <2>1, <2>2, <2>3, <2>4, <2>7, Zenon DEF IsRest
<1>4. CASE s = <<Up(tx)>>
  <2>1. Tail(s) = <<>> /\ Head(s) = Up(tx) /\ s[1] = Up(tx)
    BY <1>4
  <2>2. Tail(s) \in Rest(rx, tx)
    BY <2>1 DEF Rest
  <2>3. Head(s).iface \in {rx, tx} /\ Head(s).up \in BOOLEAN
    BY <2>1, CallFields
  <2>4. Head(s).up
    BY <2>1, CallFields
  <2>7. \A j \in DOMAIN s : j # 1 => j - 1 \in DOMAIN Tail(s) /\ Tail(s)[j - 1] = s[j]
    BY <1>4, <2>1
  <2> QED BY <2>1, <2>2, <2>3, <2>4, <2>7, Zenon DEF IsRest
<1> QED BY <1>1, <1>2, <1>3, <1>4 DEF Rest

\* The same of a process that is inside reset_interfaces.
LEMMA TodoShape ==
    ASSUME NEW p \in Resetters, todo[p] \in RestOf(p), todo[p] # <<>>
    PROVE  IsRest(todo[p], Ifaces, RestOf(p))
<1>1. {TxIface, RxIface} = Ifaces
  BY DEF Ifaces
<1>2. CASE p = "recv"
  <2>1. RestOf(p) = Rest(RxIface, TxIface)
    BY <1>2 DEF RestOf
  <2> QED BY <2>1, RestShape DEF Ifaces
<1>3. CASE p # "recv"
  <2>1. RestOf(p) = Rest(TxIface, RxIface)
    BY <1>3 DEF RestOf
  <2> QED BY <1>1, <2>1, RestShape
<1> QED BY <1>2, <1>3

\* Every reset brings both interfaces up.
LEMMA PlanHasUps ==
    ASSUME NEW p \in Resetters, NEW i \in Ifaces
    PROVE  \E j \in DOMAIN Plan(p) : Plan(p)[j] = Up(i)
<1>1. ASSUME NEW rx, NEW tx, i \in {rx, tx}
      PROVE  \E j \in DOMAIN Calls(rx, tx) : Calls(rx, tx)[j] = Up(i)
  <2>1. /\ 3 \in DOMAIN Calls(rx, tx) /\ Calls(rx, tx)[3] = Up(rx)
        /\ 4 \in DOMAIN Calls(rx, tx) /\ Calls(rx, tx)[4] = Up(tx)
    BY DEF Calls
  <2>2. CASE i = rx
    BY <2>1, <2>2, Zenon
  <2>3. CASE i = tx
    BY <2>1, <2>3, Zenon
  <2> QED BY <1>1, <2>2, <2>3
<1>2. CASE p = "recv"
  BY <1>1, <1>2 DEF Plan, Ifaces
<1>3. CASE p # "recv"
  BY <1>1, <1>3 DEF Plan, Ifaces
<1> QED BY <1>2, <1>3

LEMMA ResetInit == Init => ResetInv
<1> SUFFICES ASSUME Init PROVE ResetInv
  OBVIOUS
<1>1. link \in [Ifaces -> BOOLEAN] /\ \A i \in Ifaces : link[i]
  BY DEF Init
<1>2. \A p \in Resetters : todo[p] \in RestOf(p)
  BY DEF Init, RestOf, Rest
<1> QED BY <1>1, <1>2 DEF Init, ResetInv, DownIsPending

LEMMA StartOK ==
    ASSUME ResetInv, NEW p \in Resetters, Start(p)
    PROVE  ResetInv'
<1>1. /\ todo[p] = <<>>
      /\ todo' = [todo EXCEPT ![p] = Plan(p)]
      /\ UNCHANGED link
  BY DEF Start
<1>2. DOMAIN todo = Resetters /\ \A q \in Resetters : todo[q] \in RestOf(q)
  BY DEF ResetInv
<1>3. Plan(p) \in RestOf(p)
  BY DEF Plan, RestOf, Rest
<1>4. DOMAIN todo' = Resetters /\ \A q \in Resetters : todo'[q] \in RestOf(q)
  BY <1>1, <1>2, <1>3
<1>5. ASSUME NEW i \in Ifaces PROVE Pending(i)'
  <2>1. todo'[p] = Plan(p)
    BY <1>1, <1>2
  <2>2. \E j \in DOMAIN Plan(p) : Plan(p)[j] = Up(i)
    BY PlanHasUps
  <2> QED BY <2>1, <2>2 DEF Pending
<1> QED BY <1>1, <1>2, <1>4, <1>5 DEF ResetInv, DownIsPending

LEMMA CallSucceedsOK ==
    ASSUME ResetInv, NEW p \in Resetters, CallSucceeds(p)
    PROVE  ResetInv'
<1> DEFINE c == Head(todo[p])
           rest == Tail(todo[p])
<1>1. /\ todo[p] # <<>>
      /\ link' = [link EXCEPT ![c.iface] = c.up]
      /\ todo' = [todo EXCEPT ![p] = rest]
      /\ UNCHANGED broken
  BY DEF CallSucceeds
<1>2. /\ link \in [Ifaces -> BOOLEAN] /\ DOMAIN todo = Resetters
      /\ \A q \in Resetters : todo[q] \in RestOf(q)
  BY DEF ResetInv
<1>3. /\ rest \in RestOf(p) /\ c.iface \in Ifaces /\ c.up \in BOOLEAN
      /\ ~c.up => \E j \in DOMAIN rest : rest[j] = Up(c.iface)
      /\ \A j \in DOMAIN todo[p] : j # 1 => j - 1 \in DOMAIN rest /\ rest[j - 1] = todo[p][j]
      /\ c = todo[p][1]
  BY <1>1, <1>2, TodoShape DEF IsRest
<1> HIDE DEF c, rest
<1>4. /\ link' \in [Ifaces -> BOOLEAN] /\ DOMAIN todo' = Resetters
      /\ \A q \in Resetters : todo'[q] \in RestOf(q)
  BY <1>1, <1>2, <1>3
<1>5. todo'[p] = rest /\ \A q \in Resetters : q # p => todo'[q] = todo[q]
  BY <1>1, <1>2
<1>6. ASSUME NEW i \in Ifaces, link[i] \/ Pending(i) PROVE link'[i] \/ Pending(i)'
  <2>1. CASE c.iface = i /\ c.up
    BY <1>1, <1>2, <2>1
  <2>2. CASE c.iface = i /\ ~c.up
    BY <1>3, <1>5, <2>2 DEF Pending
  <2>3. CASE c.iface # i /\ link[i]
    BY <1>1, <1>2, <2>3
  <2>4. CASE c.iface # i /\ Pending(i)
    <3>1. PICK q \in Resetters : \E j \in DOMAIN todo[q] : todo[q][j] = Up(i)
      BY <2>4 DEF Pending
    <3>2. CASE q # p
      BY <1>5, <3>1, <3>2 DEF Pending
    <3>3. CASE q = p
      <4>1. PICK j \in DOMAIN todo[p] : todo[p][j] = Up(i)
        BY <3>1, <3>3
      <4>2. j # 1
        BY <1>3, <2>4, <4>1 DEF Up
      <4>3. j - 1 \in DOMAIN rest /\ rest[j - 1] = Up(i)
        BY <1>3, <4>1, <4>2
      <4> QED BY <1>5, <4>3 DEF Pending
    <3> QED BY <3>2, <3>3
  <2> QED BY <1>2, <1>3, <1>6, <2>1, <2>2, <2>3, <2>4
<1> QED BY <1>1, <1>4, <1>6 DEF ResetInv, DownIsPending

LEMMA CallFailsOK ==
    ASSUME ResetInv, NEW p \in Resetters, CallFails(p)
    PROVE  ResetInv'
<1>1. /\ broken' = TRUE
      /\ todo' = [todo EXCEPT ![p] = <<>>]
      /\ UNCHANGED link
  BY DEF CallFails
<1>2. <<>> \in RestOf(p)
  BY DEF RestOf, Rest
<1>3. DOMAIN todo' = Resetters /\ \A q \in Resetters : todo'[q] \in RestOf(q)
  BY <1>1, <1>2 DEF ResetInv
<1> QED BY <1>1, <1>3 DEF ResetInv, DownIsPending

\* Whoever finds an interface down, in whatever interleaving of the recv()
\* task and the netlink thread, knows that it is about to be brought up,
\* unless a call failed and no reset began since; for any names of the
\* interfaces, equal or not, any number of resets and of failures, with and
\* without the netlink thread.
THEOREM ResetsComeBack == Spec => []DownIsPending
<1>1. ResetInv /\ [Next]_vars => ResetInv'
  <2> SUFFICES ASSUME ResetInv, [Next]_vars PROVE ResetInv'
    OBVIOUS
  <2>1. ASSUME NEW p \in Resetters, Event(p) PROVE ResetInv'
    BY <2>1 DEF Event, ResetInv, DownIsPending, Pending
  <2>2. ASSUME NEW p \in Resetters, Reset(p) PROVE ResetInv'
    BY <2>2, StartOK, CallSucceedsOK, CallFailsOK DEF Reset
  <2>3. CASE UNCHANGED vars
    BY <2>3 DEF vars, ResetInv, DownIsPending, Pending
  <2> QED BY <2>1, <2>2, <2>3 DEF Next
<1>2. ResetInv => DownIsPending
  BY DEF ResetInv
<1> QED BY <1>1, <1>2, ResetInit, PTL DEF Spec
=============================================================================
