--------------------------- MODULE Server_proofs ---------------------------
(***************************************************************************)
(* Proof that the answer a server passes on lags behind its question by no *)
(* more questions than were given up, for any servers, applications and    *)
(* requests.                                                               *)
(***************************************************************************)
EXTENDS Server, TLAPS

---------------------------------------------------------------------------
(* Sequences whose elements are of no interest. *)

IsSeq(s) == \E S : s \in Seq(S)

LEMMA EmptyIsSeq == IsSeq(<<>>) /\ Len(<<>>) = 0 /\ DOMAIN <<>> = {}
<1>1. <<>> \in Seq({}) /\ Len(<<>>) = 0 /\ DOMAIN <<>> = {}
  OBVIOUS
<1> QED BY <1>1 DEF IsSeq

LEMMA SeqLength ==
    ASSUME NEW s, IsSeq(s)
    PROVE  Len(s) \in Nat /\ DOMAIN s = 1..Len(s)
<1>1. PICK S : s \in Seq(S)
  BY DEF IsSeq
<1> QED BY <1>1

LEMMA AppendParts ==
    ASSUME NEW s, NEW e, IsSeq(s)
    PROVE  /\ IsSeq(Append(s, e))
           /\ Len(Append(s, e)) = Len(s) + 1
           /\ \A i \in 1..Len(s) : Append(s, e)[i] = s[i]
           /\ Append(s, e)[Len(s) + 1] = e
<1>1. PICK S : s \in Seq(S)
  BY DEF IsSeq
<1>2. s \in Seq(S \cup {e})
  BY <1>1
<1>3. Append(s, e) \in Seq(S \cup {e})
  BY <1>2
<1>4. IsSeq(Append(s, e))
  BY <1>3, Zenon DEF IsSeq
<1> QED BY <1>1, <1>2, <1>4

LEMMA TailParts ==
    ASSUME NEW s, IsSeq(s), s # <<>>
    PROVE  /\ IsSeq(Tail(s))
           /\ Len(s) > 0 /\ Len(Tail(s)) = Len(s) - 1
           /\ \A i \in 1..Len(Tail(s)) : Tail(s)[i] = s[i + 1]
           /\ Head(s) = s[1]
<1>1. PICK S : s \in Seq(S)
  BY DEF IsSeq
<1>2. Tail(s) \in Seq(S)
  BY <1>1
<1>3. IsSeq(Tail(s))
  BY <1>2, Zenon DEF IsSeq
<1> QED BY <1>1, <1>3

---------------------------------------------------------------------------
(* The inductive invariant.  An answer on its way says nothing of who gets *)
(* it: what bounds the lag is that questions and answers under way are     *)
(* numbered without a gap up to the last question, that the one who waits  *)
(* asked that one, and that every other of them was given up.              *)

\* g may be the answer to question n, or an earlier one that was still on
\* its way when n was asked, with most questions given up.
Lag(g, n, most) == g <= n /\ n <= g + most

IsTask(t) ==
    /\ DOMAIN t = {"at", "k", "n", "got", "left", "resp"}
    /\ t.n \in Int /\ t.got \in Int

\* Who holds the socket waits for the last question asked.
Loops ==
    /\ holder \in Servers \cup {NoServer}
    /\ task = [s \in Servers |-> task[s]]
    /\ \A s \in Servers :
          /\ IsTask(task[s])
          /\ task[s].at = "waiting" <=> s = holder
          /\ task[s].at = "waiting" => task[s].n = asks
          /\ task[s].at \in {"running", "responding"} => Lag(task[s].got, task[s].n, late)

\* Numbers on their way: answers first, then the questions asked after them.
Socket ==
    /\ asks \in Nat /\ late \in Nat
    /\ IsSeq(asked) /\ IsSeq(answers)
    /\ \A i \in 1..Len(asked) : asked[i].n = asks - Len(asked) + i
    /\ \A i \in 1..Len(answers) : answers[i] = asks - Len(asked) - Len(answers) + i
    /\ Len(asked) + Len(answers) <= late + (IF holder = NoServer THEN 0 ELSE 1)

Sent ==
    /\ IsSeq(out)
    /\ \A i \in 1..Len(out) :
          out[i].n \in Int /\ out[i].got \in Int /\ Lag(out[i].got, out[i].n, late)

LagInv == Loops /\ Socket /\ Sent

LEMMA NobodyServes == NoServer \notin Servers
BY ServerAssumption DEF NoServer

LEMMA IdleTask == IsTask(Idle) /\ Idle.at = "idle" /\ Idle.n = 0 /\ Idle.got = 0
BY DEF Idle, IsTask

LEMMA InitLagInv == Init => LagInv
<1> SUFFICES ASSUME Init PROVE LagInv
  OBVIOUS
<1>1. \A s \in Servers : task[s] = Idle
  BY DEF Init
<1>2. Loops
  BY <1>1, IdleTask, NobodyServes DEF Init, Loops
<1>3. Socket
  BY EmptyIsSeq DEF Init, Socket
<1>4. Sent
  BY EmptyIsSeq DEF Init, Sent
<1> QED BY <1>2, <1>3, <1>4 DEF LagInv

---------------------------------------------------------------------------
(* Parts of steps that many actions have in common. *)

LEMMA SocketKept ==
    ASSUME Socket, UNCHANGED <<holder, asked, answers, asks, late>>
    PROVE  Socket'
BY DEF Socket

LEMMA SentKept ==
    ASSUME Sent, Socket, out' = out, late' \in {late, late + 1}
    PROVE  Sent'
<1>1. late \in Nat /\ IsSeq(out)'
  BY DEF Socket, Sent
<1>2. ASSUME NEW i \in 1..Len(out')
      PROVE  out'[i].n \in Int /\ out'[i].got \in Int /\ Lag(out'[i].got, out'[i].n, late')
  <2>1. i \in 1..Len(out) /\ out'[i] = out[i]
    BY <1>2
  <2>2. out[i].n \in Int /\ out[i].got \in Int /\ Lag(out[i].got, out[i].n, late)
    BY <2>1 DEF Sent
  <2> QED BY <1>1, <2>1, <2>2 DEF Lag
<1> QED BY <1>1, <1>2 DEF Sent

\* One loop moves on without the socket.
LEMMA LoopMoves ==
    ASSUME Loops, NEW s \in Servers, NEW t,
           IsTask(t), t.at # "waiting", task[s].at # "waiting",
           t.at \in {"running", "responding"} => Lag(t.got, t.n, late),
           task' = [task EXCEPT ![s] = t],
           UNCHANGED <<holder, asks, late>>
    PROVE  Loops'
<1>1. task' = [r \in Servers |-> task'[r]] /\ task'[s] = t
  BY DEF Loops
<1>2. \A r \in Servers : r # s => task'[r] = task[r]
  BY DEF Loops
<1>3. s # holder
  BY DEF Loops
<1>4. ASSUME NEW r \in Servers
      PROVE  /\ IsTask(task'[r])
             /\ task'[r].at = "waiting" <=> r = holder'
             /\ task'[r].at = "waiting" => task'[r].n = asks'
             /\ task'[r].at \in {"running", "responding"} => Lag(task'[r].got, task'[r].n, late')
  <2>1. CASE r = s
    BY <1>1, <1>3, <2>1 DEF Lag
  <2>2. CASE r # s
    BY <1>2, <2>2 DEF Loops, Lag
  <2> QED BY <2>1, <2>2
<1>5. holder' \in Servers \cup {NoServer}
  BY DEF Loops
<1> QED BY <1>1, <1>4, <1>5 DEF Loops

\* A loop that moves on alone keeps the invariant.
LEMMA MovesAlone ==
    ASSUME LagInv, NEW s \in Servers, NEW t,
           IsTask(t), t.at # "waiting", task[s].at # "waiting",
           t.at \in {"running", "responding"} => Lag(t.got, t.n, late),
           task' = [task EXCEPT ![s] = t],
           UNCHANGED <<holder, asked, answers, asks, late, out>>
    PROVE  LagInv'
<1>1. Loops'
  BY LoopMoves DEF LagInv
<1>2. Socket' /\ Sent'
  BY SocketKept, SentKept DEF LagInv
<1> QED BY <1>1, <1>2 DEF LagInv

\* A step that leaves loops, socket and responses alone.
LEMMA NothingMoves ==
    ASSUME LagInv, UNCHANGED <<task, holder, asked, answers, asks, late, out>>
    PROVE  LagInv'
BY DEF LagInv, Loops, Socket, Sent, Lag


\* The loop that holds the socket lets go of it.
LEMMA LoopReleases ==
    ASSUME Loops, Socket, NEW s \in Servers, NEW t,
           IsTask(t), t.at # "waiting", task[s].at = "waiting",
           late' \in {late, late + 1},
           t.at \in {"running", "responding"} => Lag(t.got, t.n, late'),
           task' = [task EXCEPT ![s] = t],
           holder' = NoServer, asks' = asks
    PROVE  Loops'
<1>1. task' = [r \in Servers |-> task'[r]] /\ task'[s] = t
  BY DEF Loops
<1>2. \A r \in Servers : r # s => task'[r] = task[r]
  BY DEF Loops
<1>3. s = holder /\ late \in Nat
  BY DEF Loops, Socket
<1>4. ASSUME NEW r \in Servers
      PROVE  /\ IsTask(task'[r])
             /\ task'[r].at # "waiting" /\ r # holder'
             /\ task'[r].at \in {"running", "responding"} => Lag(task'[r].got, task'[r].n, late')
  <2>1. r # holder'
    BY NobodyServes
  <2>2. CASE r = s
    BY <1>1, <2>1, <2>2
  <2>3. CASE r # s
    <3>1. task'[r] = task[r] /\ task[r].at # "waiting" /\ IsTask(task[r])
      BY <1>2, <1>3, <2>3 DEF Loops
    <3>2. task[r].at \in {"running", "responding"} => Lag(task[r].got, task[r].n, late)
      BY DEF Loops
    <3>3. task[r].got \in Int /\ task[r].n \in Int
      BY <3>1 DEF IsTask
    <3> QED BY <1>3, <2>1, <3>1, <3>2, <3>3 DEF Lag
  <2> QED BY <2>2, <2>3
<1>5. holder' \in Servers \cup {NoServer}
  OBVIOUS
<1> QED BY <1>1, <1>4, <1>5 DEF Loops

---------------------------------------------------------------------------
(* The actions. *)

\* What handle() begins with, and how commands go on, leave the socket alone.
LEMMA HandlersMoveAlone ==
    ASSUME LagInv, NEW s \in Servers,
           HandleDirectly(s) \/ HandleRunning(s) \/ HandleAsking(s)
    PROVE  LagInv'
<1>1. PICK t : /\ IsTask(t) /\ t.at # "waiting" /\ t.n = 0 /\ t.got = 0
               /\ task[s].at = "idle" /\ task' = [task EXCEPT ![s] = t]
               /\ UNCHANGED <<holder, asked, answers, asks, late, out>>
  <2>1. CASE HandleDirectly(s)
    <3>1. PICK k, resp :
              /\ task[s].at = "idle"
              /\ task' = [task EXCEPT ![s] = [Idle EXCEPT !.at = "responding", !.k = k,
                                                          !.resp = resp]]
      BY <2>1 DEF HandleDirectly, Receives, Ready
    <3> DEFINE t == [Idle EXCEPT !.at = "responding", !.k = k, !.resp = resp]
    <3>2. IsTask(t) /\ t.at = "responding" /\ t.n = 0 /\ t.got = 0
      BY IdleTask DEF IsTask
    <3>3. UNCHANGED <<holder, asked, answers, asks, late, out>>
      BY <2>1 DEF HandleDirectly
    <3> QED BY <3>1, <3>2, <3>3
  <2>2. CASE HandleRunning(s)
    <3>1. PICK k :
              /\ task[s].at = "idle"
              /\ task' = [task EXCEPT ![s] = [Idle EXCEPT !.at = "running", !.k = k,
                                                          !.left = Commands(k)]]
      BY <2>2 DEF HandleRunning, Receives, Ready
    <3> DEFINE t == [Idle EXCEPT !.at = "running", !.k = k, !.left = Commands(k)]
    <3>2. IsTask(t) /\ t.at = "running" /\ t.n = 0 /\ t.got = 0
      BY IdleTask DEF IsTask
    <3>3. UNCHANGED <<holder, asked, answers, asks, late, out>>
      BY <2>2 DEF HandleRunning
    <3> QED BY <3>1, <3>2, <3>3
  <2>3. CASE HandleAsking(s)
    <3>1. PICK k :
              /\ task[s].at = "idle"
              /\ task' = [task EXCEPT ![s] = [Idle EXCEPT !.at = "locking", !.k = k]]
      BY <2>3 DEF HandleAsking, Receives, Ready
    <3> DEFINE t == [Idle EXCEPT !.at = "locking", !.k = k]
    <3>2. IsTask(t) /\ t.at = "locking" /\ t.n = 0 /\ t.got = 0
      BY IdleTask DEF IsTask
    <3>3. UNCHANGED <<holder, asked, answers, asks, late, out>>
      BY <2>3 DEF HandleAsking
    <3> QED BY <3>1, <3>2, <3>3
  <2> QED BY <2>1, <2>2, <2>3
<1>2. Lag(t.got, t.n, late)
  BY <1>1 DEF Lag, LagInv, Socket
<1> QED BY <1>1, <1>2, MovesAlone

LEMMA CommandEndsStep ==
    ASSUME LagInv, NEW s \in Servers, CommandEnds(s)
    PROVE  LagInv'
<1>1. /\ task[s].at = "running" /\ IsTask(task[s])
      /\ Lag(task[s].got, task[s].n, late)
  BY DEF CommandEnds, LagInv, Loops
<1>2. PICK t : /\ IsTask(t) /\ t.at \in {"running", "responding"}
               /\ t.n = task[s].n /\ t.got = task[s].got
               /\ task' = [task EXCEPT ![s] = t]
  <2>1. CASE task[s].left > 1
    <3> DEFINE t == [task[s] EXCEPT !.left = @ - 1]
    <3>1. IsTask(t) /\ t.at = "running" /\ t.n = task[s].n /\ t.got = task[s].got
      BY <1>1 DEF IsTask
    <3>2. task' = [task EXCEPT ![s] = t]
      BY <2>1 DEF CommandEnds
    <3> QED BY <3>1, <3>2
  <2>2. CASE ~(task[s].left > 1)
    <3>1. PICK resp :
              task' = [task EXCEPT ![s] = [@ EXCEPT !.at = "responding", !.left = 0,
                                                    !.resp = resp]]
      BY <2>2 DEF CommandEnds
    <3> DEFINE t == [task[s] EXCEPT !.at = "responding", !.left = 0, !.resp = resp]
    <3>2. IsTask(t) /\ t.at = "responding" /\ t.n = task[s].n /\ t.got = task[s].got
      BY <1>1 DEF IsTask
    <3> QED BY <3>1, <3>2
  <2> QED BY <2>1, <2>2
<1>3. UNCHANGED <<holder, asked, answers, asks, late, out>>
  BY DEF CommandEnds
<1> QED BY <1>1, <1>2, <1>3, MovesAlone

\* The question gets the next number and goes to the end of the queue.
LEMMA AsksStep ==
    ASSUME LagInv, NEW s \in Servers, Asks(s)
    PROVE  LagInv'
<1>1. /\ task[s].at = "locking" /\ holder = NoServer
      /\ UNCHANGED <<answers, late, out>>
  BY DEF Asks, LockFree
<1>2. IsTask(task[s]) /\ asks \in Nat /\ late \in Nat
  BY DEF LagInv, Loops, Socket
<1>3. CASE /\ holder' = s /\ asks' = asks + 1
           /\ asked' = Append(asked, [n |-> asks + 1, k |-> task[s].k,
                                      msg |-> Question(task[s].k)])
           /\ task' = [task EXCEPT ![s].at = "waiting", ![s].n = asks + 1]
  <2> DEFINE t == [task[s] EXCEPT !.at = "waiting", !.n = asks + 1]
             q == [n |-> asks + 1, k |-> task[s].k, msg |-> Question(task[s].k)]
  <2>1. IsTask(t) /\ t.at = "waiting" /\ t.n = asks + 1
    BY <1>2 DEF IsTask
  <2>2. task' = [r \in Servers |-> task'[r]] /\ task'[s] = t
    BY <1>3 DEF LagInv, Loops
  <2>3. \A r \in Servers : r # s => task'[r] = task[r]
    BY <1>3 DEF LagInv, Loops
  <2>4. ASSUME NEW r \in Servers
        PROVE  /\ IsTask(task'[r])
               /\ task'[r].at = "waiting" <=> r = s
               /\ task'[r].at = "waiting" => task'[r].n = asks + 1
               /\ task'[r].at \in {"running", "responding"}
                  => Lag(task'[r].got, task'[r].n, late)
    <3> HIDE DEF t
    <3>1. CASE r = s
      BY <2>1, <2>2, <3>1
    <3>2. CASE r # s
      <4>1. task'[r] = task[r] /\ task[r].at # "waiting" /\ IsTask(task[r])
        BY <1>1, <2>3, <3>2, NobodyServes DEF LagInv, Loops
      <4>2. task[r].at \in {"running", "responding"} => Lag(task[r].got, task[r].n, late)
        BY DEF LagInv, Loops
      <4> QED BY <3>2, <4>1, <4>2
    <3> QED BY <3>1, <3>2
  <2>5. Loops'
    BY <1>1, <1>3, <2>2, <2>4 DEF Loops
  <2>6. IsSeq(asked) /\ Len(asked) \in Nat /\ IsSeq(answers) /\ Len(answers) \in Nat
    BY SeqLength DEF LagInv, Socket
  <2>7. /\ IsSeq(asked') /\ Len(asked') = Len(asked) + 1
        /\ \A i \in 1..Len(asked) : asked'[i] = asked[i]
        /\ asked'[Len(asked) + 1] = q /\ q.n = asks + 1
    <3>1. asked' = Append(asked, q) /\ q.n = asks + 1
      BY <1>3
    <3> HIDE DEF q
    <3> QED BY <2>6, <3>1, AppendParts
  <2>8. ASSUME NEW i \in 1..Len(asked')
        PROVE  asked'[i].n = asks' - Len(asked') + i
    <3> HIDE DEF q
    <3>1. CASE i = Len(asked) + 1
      BY <1>2, <1>3, <2>6, <2>7, <3>1
    <3>2. CASE i # Len(asked) + 1
      <4>1. i \in 1..Len(asked) /\ asked'[i] = asked[i]
        BY <2>6, <2>7, <3>2
      <4>2. asked[i].n = asks - Len(asked) + i
        BY <4>1 DEF LagInv, Socket
      <4> QED BY <1>2, <1>3, <2>6, <2>7, <4>1, <4>2
    <3> QED BY <3>1, <3>2
  <2>9. \A i \in 1..Len(answers) :
           answers[i] = asks' - Len(asked') - Len(answers) + i
    BY <1>2, <1>3, <2>6, <2>7 DEF LagInv, Socket
  <2>10. Len(asked') + Len(answers) <= late + (IF holder' = NoServer THEN 0 ELSE 1)
    <3>1. Len(asked) + Len(answers) <= late
      BY <1>1, <1>2, <2>6 DEF LagInv, Socket
    <3>2. holder' # NoServer
      BY <1>3, NobodyServes
    <3> QED BY <1>2, <2>6, <2>7, <3>1, <3>2
  <2>11. Socket'
    BY <1>1, <1>2, <1>3, <2>6, <2>7, <2>8, <2>9, <2>10 DEF Socket
  <2>12. Sent'
    BY <1>1, SentKept DEF LagInv
  <2> QED BY <2>5, <2>11, <2>12 DEF LagInv
<1>4. CASE task' = [task EXCEPT ![s] = Idle] /\ UNCHANGED <<holder, asks, asked>>
  BY <1>1, <1>4, IdleTask, MovesAlone
<1> QED BY <1>3, <1>4 DEF Asks

\* The first question becomes the last answer.
LEMMA ServiceAnswersStep ==
    ASSUME LagInv, ServiceAnswers
    PROVE  LagInv'
<1>1. /\ asked # <<>> /\ asked' = Tail(asked) /\ answers' = Append(answers, Head(asked).n)
      /\ UNCHANGED <<task, holder, asks, late, out>>
  BY DEF ServiceAnswers
<1>2. /\ asks \in Nat /\ late \in Nat
      /\ IsSeq(asked) /\ Len(asked) \in Nat /\ IsSeq(answers) /\ Len(answers) \in Nat
  BY SeqLength DEF LagInv, Socket
<1>3. /\ IsSeq(asked') /\ Len(asked) > 0 /\ Len(asked') = Len(asked) - 1
      /\ \A i \in 1..Len(asked') : asked'[i] = asked[i + 1]
      /\ Head(asked) = asked[1]
  BY <1>1, <1>2, TailParts
<1>4. /\ IsSeq(answers') /\ Len(answers') = Len(answers) + 1
      /\ \A i \in 1..Len(answers) : answers'[i] = answers[i]
      /\ answers'[Len(answers) + 1] = asked[1].n
  BY <1>1, <1>2, <1>3, AppendParts
<1>5. asked[1].n = asks - Len(asked) + 1
  BY <1>2, <1>3 DEF LagInv, Socket
<1>6. ASSUME NEW i \in 1..Len(asked')
      PROVE  asked'[i].n = asks - Len(asked') + i
  <2>1. i + 1 \in 1..Len(asked) /\ asked'[i] = asked[i + 1]
    BY <1>2, <1>3
  <2>2. asked[i + 1].n = asks - Len(asked) + (i + 1)
    BY <2>1 DEF LagInv, Socket
  <2> QED BY <1>2, <1>3, <2>1, <2>2
<1>7. ASSUME NEW i \in 1..Len(answers')
      PROVE  answers'[i] = asks - Len(asked') - Len(answers') + i
  <2>1. CASE i = Len(answers) + 1
    BY <1>2, <1>3, <1>4, <1>5, <2>1
  <2>2. CASE i # Len(answers) + 1
    <3>1. i \in 1..Len(answers) /\ answers'[i] = answers[i]
      BY <1>2, <1>4, <2>2
    <3>2. answers[i] = asks - Len(asked) - Len(answers) + i
      BY <3>1 DEF LagInv, Socket
    <3> QED BY <1>2, <1>3, <1>4, <3>1, <3>2
  <2> QED BY <2>1, <2>2
<1>8. Len(asked') + Len(answers') <= late + (IF holder = NoServer THEN 0 ELSE 1)
  <2>1. Len(asked) + Len(answers) <= late + (IF holder = NoServer THEN 0 ELSE 1)
    BY DEF LagInv, Socket
  <2>2. Len(asked') + Len(answers') = Len(asked) + Len(answers)
    BY <1>2, <1>3, <1>4
  <2> QED BY <2>1, <2>2
<1>9. Socket'
  BY <1>1, <1>2, <1>3, <1>4, <1>6, <1>7, <1>8 DEF Socket
<1>10. Loops'
  BY <1>1 DEF LagInv, Loops
<1>11. Sent'
  BY <1>1, SentKept DEF LagInv
<1> QED BY <1>9, <1>10, <1>11 DEF LagInv

\* The first answer under way is at most late behind the question of the one
\* who waits: that was the last one asked, and no more than late others are
\* still under way.
LEMMA GetsAnswerStep ==
    ASSUME LagInv, NEW s \in Servers, GetsAnswer(s)
    PROVE  LagInv'
<1>1. /\ task[s].at = "waiting" /\ answers # <<>> /\ answers' = Tail(answers)
      /\ holder' = NoServer /\ UNCHANGED <<asked, asks, late, out>>
  BY DEF GetsAnswer
<1>2. /\ IsTask(task[s]) /\ holder = s /\ holder # NoServer /\ task[s].n = asks
  BY <1>1, NobodyServes DEF LagInv, Loops
<1>3. /\ asks \in Nat /\ late \in Nat
      /\ IsSeq(asked) /\ Len(asked) \in Nat /\ IsSeq(answers) /\ Len(answers) \in Nat
  BY SeqLength DEF LagInv, Socket
<1>4. /\ IsSeq(answers') /\ Len(answers) > 0 /\ Len(answers') = Len(answers) - 1
      /\ \A i \in 1..Len(answers') : answers'[i] = answers[i + 1]
      /\ Head(answers) = answers[1]
  BY <1>1, <1>3, TailParts
<1>5. Len(asked) + Len(answers) <= late + 1
  BY <1>2 DEF LagInv, Socket
<1>6. Head(answers) = asks - Len(asked) - Len(answers) + 1
  BY <1>3, <1>4 DEF LagInv, Socket
<1>7. Head(answers) \in Int /\ Lag(Head(answers), task[s].n, late)
  BY <1>2, <1>3, <1>4, <1>5, <1>6 DEF Lag
<1>8. PICK t : /\ IsTask(t) /\ t.at # "waiting"
               /\ t.at \in {"running", "responding"} => Lag(t.got, t.n, late)
               /\ task' = [task EXCEPT ![s] = t]
  <2>1. CASE AppOf(task[s].k) = TelemetryId
    <3> DEFINE resp == TelemetryResponse(Req(task[s].k))
               t == [task[s] EXCEPT !.at = "responding", !.got = Head(answers),
                                    !.resp = resp]
    <3>1. task' = [task EXCEPT ![s] = t]
      BY <2>1 DEF GetsAnswer
    <3> HIDE DEF resp
    <3>2. IsTask(t) /\ t.at = "responding" /\ t.n = task[s].n /\ t.got = Head(answers)
      BY <1>2, <1>7 DEF IsTask
    <3> QED BY <1>7, <3>1, <3>2
  <2>2. CASE AppOf(task[s].k) # TelemetryId
    <3>1. task' = [task EXCEPT ![s] = Idle]
      BY <2>2 DEF GetsAnswer
    <3> QED BY <3>1, IdleTask
  <2> QED BY <2>1, <2>2
<1>9. Loops'
  BY <1>1, <1>8, LoopReleases DEF LagInv
<1>10. ASSUME NEW i \in 1..Len(answers')
       PROVE  answers'[i] = asks - Len(asked) - Len(answers') + i
  <2>1. i + 1 \in 1..Len(answers) /\ answers'[i] = answers[i + 1]
    BY <1>3, <1>4
  <2>2. answers[i + 1] = asks - Len(asked) - Len(answers) + (i + 1)
    BY <2>1 DEF LagInv, Socket
  <2> QED BY <1>3, <1>4, <2>1, <2>2
<1>11. Len(asked) + Len(answers') <= late
  BY <1>3, <1>4, <1>5
<1>12. \A i \in 1..Len(asked) : asked[i].n = asks - Len(asked) + i
  BY DEF LagInv, Socket
<1>13. Socket'
  BY <1>1, <1>3, <1>4, <1>10, <1>11, <1>12 DEF Socket
<1>14. Sent'
  BY <1>1, SentKept DEF LagInv
<1> QED BY <1>9, <1>13, <1>14 DEF LagInv

\* A question given up stays under way, and is counted.
LEMMA TimesOutStep ==
    ASSUME LagInv, NEW s \in Servers, TimesOut(s)
    PROVE  LagInv'
<1>1. /\ task[s].at \in {"locking", "waiting"}
      /\ task' = [task EXCEPT ![s] = Idle]
      /\ UNCHANGED <<asked, answers, asks, out>>
  BY DEF TimesOut, Timed
<1>2. CASE task[s].at = "waiting"
  <2>1. holder = s /\ holder # NoServer
    BY <1>2, NobodyServes DEF LagInv, Loops
  <2>2. holder' = NoServer /\ late' = late + 1
    BY <1>2, <2>1 DEF TimesOut
  <2>3. Loops'
    BY <1>1, <1>2, <2>2, IdleTask, LoopReleases DEF LagInv
  <2>4. /\ asks \in Nat /\ late \in Nat
        /\ Len(asked) + Len(answers) <= late + 1
    BY <2>1 DEF LagInv, Socket
  <2>5. /\ IsSeq(asked) /\ IsSeq(answers)
        /\ \A i \in 1..Len(asked) : asked[i].n = asks - Len(asked) + i
        /\ \A i \in 1..Len(answers) : answers[i] = asks - Len(asked) - Len(answers) + i
    BY DEF LagInv, Socket
  <2>6. Len(asked) \in Nat /\ Len(answers) \in Nat
    BY <2>5, SeqLength
  <2>7. Socket'
    BY <1>1, <2>2, <2>4, <2>5, <2>6 DEF Socket
  <2>8. Sent'
    BY <1>1, <2>2, SentKept DEF LagInv
  <2> QED BY <2>3, <2>7, <2>8 DEF LagInv
<1>3. CASE task[s].at = "locking"
  <2>1. holder # s
    BY <1>3 DEF LagInv, Loops
  <2>2. UNCHANGED <<holder, late>>
    BY <1>3, <2>1 DEF TimesOut
  <2> QED BY <1>1, <1>3, <2>2, IdleTask, MovesAlone
<1> QED BY <1>1, <1>2, <1>3

\* A process that ends loses questions and answers alike.
LEMMA AbortsStep ==
    ASSUME LagInv, NEW s \in Servers, Aborts(s)
    PROVE  LagInv'
<1>1. /\ task' = [t \in Servers |-> Idle] /\ holder' = NoServer
      /\ asked' = <<>> /\ answers' = <<>> /\ UNCHANGED <<asks, late, out>>
  BY DEF Aborts
<1>2. \A r \in Servers : task'[r] = Idle
  BY <1>1
<1>3. task' = [r \in Servers |-> task'[r]]
  BY <1>1
<1>4. Loops'
  BY <1>1, <1>2, <1>3, IdleTask, NobodyServes DEF Loops
<1>5. asks \in Nat /\ late \in Nat
  BY DEF LagInv, Socket
<1>6. Socket'
  BY <1>1, <1>5, EmptyIsSeq DEF Socket
<1>7. Sent'
  BY <1>1, SentKept DEF LagInv
<1> QED BY <1>4, <1>6, <1>7 DEF LagInv

\* A response carries the answer its loop has.
LEMMA RespondsStep ==
    ASSUME LagInv, NEW s \in Servers, Responds(s)
    PROVE  LagInv'
<1> DEFINE f == InsertHeader(task[s].resp, AppOf(task[s].k))
           m == [s |-> s, k |-> task[s].k, n |-> task[s].n, got |-> task[s].got,
                 frame |-> f]
<1>1. /\ task[s].at = "responding" /\ task' = [task EXCEPT ![s] = Idle]
      /\ UNCHANGED <<holder, asked, answers, asks, late>>
      /\ out' = Append(out, m) \/ UNCHANGED out
  BY DEF Responds
<1>2. CASE UNCHANGED out
  BY <1>1, <1>2, IdleTask, MovesAlone
<1>3. CASE out' = Append(out, m)
  <2>1. Loops'
    BY <1>1, IdleTask, LoopMoves DEF LagInv
  <2>2. Socket'
    BY <1>1, SocketKept DEF LagInv
  <2>3. /\ task[s].n \in Int /\ task[s].got \in Int
        /\ Lag(task[s].got, task[s].n, late)
    BY <1>1 DEF LagInv, Loops, IsTask
  <2>4. m.n \in Int /\ m.got \in Int /\ Lag(m.got, m.n, late)
    <3> HIDE DEF f
    <3> QED BY <2>3
  <2>5. IsSeq(out) /\ Len(out) \in Nat
    BY SeqLength DEF LagInv, Sent
  <2> HIDE DEF m
  <2>6. /\ IsSeq(out') /\ Len(out') = Len(out) + 1
        /\ \A i \in 1..Len(out) : out'[i] = out[i]
        /\ out'[Len(out) + 1] = m
    BY <1>3, <2>5, AppendParts
  <2>7. ASSUME NEW i \in 1..Len(out')
        PROVE  /\ out'[i].n \in Int /\ out'[i].got \in Int
               /\ Lag(out'[i].got, out'[i].n, late)
    <3>1. CASE i = Len(out) + 1
      BY <2>4, <2>6, <3>1
    <3>2. CASE i # Len(out) + 1
      <4>1. i \in 1..Len(out) /\ out'[i] = out[i]
        BY <2>5, <2>6, <3>2
      <4> QED BY <4>1 DEF LagInv, Sent
    <3> QED BY <3>1, <3>2
  <2>8. Sent'
    BY <1>1, <2>6, <2>7 DEF Sent
  <2> QED BY <2>1, <2>2, <2>8 DEF LagInv
<1> QED BY <1>1, <1>2, <1>3

---------------------------------------------------------------------------
(* The theorems. *)

\* Questions and answers under way are numbered without a gap, one loop at
\* most waits, for the last of them, and all the others were given up.
THEOREM LagInvariant == Spec => []LagInv
<1>1. Init => LagInv
  BY InitLagInv
<1>2. LagInv /\ [Next]_vars => LagInv'
  <2> SUFFICES ASSUME LagInv, [Next]_vars PROVE LagInv'
    OBVIOUS
  <2>1. CASE UNCHANGED vars
    BY <2>1, NothingMoves DEF vars
  <2>2. CASE ServiceAnswers
    BY <2>2, ServiceAnswersStep
  <2>3. CASE ServiceRestart
    BY <2>3, NothingMoves DEF ServiceRestart
  <2>4. ASSUME NEW s \in Servers, ClientSends(s) \/ RecvDropped(s) PROVE LagInv'
    BY <2>4, NothingMoves DEF ClientSends, RecvDropped
  <2>5. ASSUME NEW s \in Servers, HandleDirectly(s) \/ HandleAsking(s) \/ HandleRunning(s)
        PROVE  LagInv'
    BY <2>5, HandlersMoveAlone
  <2>6. ASSUME NEW s \in Servers, Aborts(s) PROVE LagInv'
    BY <2>6, AbortsStep
  <2>7. ASSUME NEW s \in Servers, Asks(s) PROVE LagInv'
    BY <2>7, AsksStep
  <2>8. ASSUME NEW s \in Servers, GetsAnswer(s) PROVE LagInv'
    BY <2>8, GetsAnswerStep
  <2>9. ASSUME NEW s \in Servers, TimesOut(s) PROVE LagInv'
    BY <2>9, TimesOutStep
  <2>10. ASSUME NEW s \in Servers, CommandEnds(s) PROVE LagInv'
    BY <2>10, CommandEndsStep
  <2>11. ASSUME NEW s \in Servers, Responds(s) PROVE LagInv'
    BY <2>11, RespondsStep
  <2> QED BY <2>1, <2>2, <2>3, <2>4, <2>5, <2>6, <2>7, <2>8, <2>9, <2>10, <2>11
          DEF Next, Handle
<1> QED BY <1>1, <1>2, PTL DEF Spec

\* A telemetry response never carries the answer to a later question, and
\* that to an earlier one only as far back as questions were given up:
\* fallback() pairs them by the order of the socket alone.
THEOREM AnswersLag == Spec => []AnswersLagByTimeouts
<1>1. LagInv => AnswersLagByTimeouts
  BY SeqLength DEF LagInv, Sent, Lag, AnswersLagByTimeouts
<1> QED BY <1>1, LagInvariant, PTL

=============================================================================
