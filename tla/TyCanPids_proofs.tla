-------------------------- MODULE TyCanPids_proofs --------------------------
(***************************************************************************)
(* Proof that sends in progress at one node carry different pids, for any  *)
(* number of tasks and any width of the pid, as long as fewer sends than   *)
(* there are pids begin during one, and no Reset frame is read during one. *)
(***************************************************************************)
EXTENDS TyCan_proofs

Multi == {MultiFirst, MultiMiddle}

Busy(n, t) == job[n][t].frames # <<>>

\* The value a counter c had before it was last drawn from "since" times
\* and once more.
Behind(c, since) == IF since < c THEN c - 1 - since ELSE c + NPids - 1 - since

\* The inductive invariant behind PidsDistinct: what tells two sends apart is
\* how many others began since, and each carries the pid that many draws
\* back; a node that is down has none.
PidInv ==
    \A n \in Nodes :
        /\ \A t \in Tasks : Busy(n, t) =>
              /\ up[n]
              /\ \A i \in DOMAIN job[n][t].frames :
                    job[n][t].frames[i].type \in Multi =>
                        job[n][t].frames[i].pid = Behind(idCounter[n], job[n][t].since)
        /\ \A t, u \in Tasks : t # u /\ Busy(n, t) /\ Busy(n, u) =>
              job[n][t].since # job[n][u].since

\* A node reads a Reset frame while one of its tasks is inside send().
ResetMeetsSend ==
    \E r \in Receivers : /\ Reading(r) /\ Head(rx[r]).type = Reset
                         /\ \E t \in Tasks : Busy(r, t)

---------------------------------------------------------------------------
(* Counters. *)

LEMMA NextId ==
    ASSUME NEW c \in 0..(NPids - 1)
    PROVE  (c + 1) % NPids = IF c + 1 = NPids THEN 0 ELSE c + 1
<1>1. NPids \in Nat \ {0} /\ c \in Nat /\ c + 1 <= NPids
  BY TyCanAssumption
<1> QED BY <1>1

\* The pid just drawn is behind by nothing; the others fall back by one.
LEMMA BehindNext ==
    ASSUME NEW c \in 0..(NPids - 1)
    PROVE  /\ Behind((c + 1) % NPids, 0) = c
           /\ \A s \in Nat : s + 1 < NPids =>
                 Behind((c + 1) % NPids, s + 1) = Behind(c, s)
<1>1. NPids \in Nat \ {0} /\ c \in Nat
  BY TyCanAssumption
<1> DEFINE d == (c + 1) % NPids
<1>2. d = IF c + 1 = NPids THEN 0 ELSE c + 1
  BY NextId
<1> HIDE DEF d
<1> QED BY <1>1, <1>2 DEF Behind, d

\* Sends overtaken by different numbers of others, all below NPids, carry
\* different pids.
LEMMA BehindDiffers ==
    ASSUME NEW c \in 0..(NPids - 1),
           NEW s \in 0..(NPids - 1), NEW z \in 0..(NPids - 1), s # z
    PROVE  Behind(c, s) # Behind(c, z)
BY TyCanAssumption DEF Behind

\* Every frame of a message that is of many carries the pid it was given.
LEMMA FramesCarryPid ==
    ASSUME NEW n, NEW pid, NEW req, NEW ty \in {Single, DefaultType},
           NEW i \in DOMAIN FramesOf(n, pid, req, ty),
           FramesOf(n, pid, req, ty)[i].type \in Multi
    PROVE  FramesOf(n, pid, req, ty)[i].pid = pid
<1>1. CASE req.time
  <2> DEFINE f == CanFrame(ObcId, BroadcastId, TimeBroadcast, 0, TimeWire(req.data))
  <2>1. FramesOf(n, pid, req, ty) = <<f>>
    BY <1>1 DEF FramesOf, TimeFrames
  <2>2. f.type \notin Multi
    BY DEF CanFrame, Multi, TimeBroadcast, MultiFirst, MultiMiddle
  <2> HIDE DEF f
  <2>3. DOMAIN <<f>> = {1} /\ <<f>>[1] = f
    OBVIOUS
  <2> QED BY <2>1, <2>2, <2>3
<1>2. CASE ~req.time /\ Len(req.data) <= SingleMax
  <2> DEFINE f == CanFrame(n, req.dest, ty, pid, SingleWire(req.obc, req.data))
  <2>1. FramesOf(n, pid, req, ty) = <<f>>
    BY <1>2 DEF FramesOf, SingleFrames
  <2>2. f.pid = pid
    BY DEF CanFrame
  <2> HIDE DEF f
  <2>3. DOMAIN <<f>> = {1} /\ <<f>>[1] = f
    OBVIOUS
  <2> QED BY <2>1, <2>2, <2>3
<1>3. CASE ~req.time /\ ~(Len(req.data) <= SingleMax)
  <2> DEFINE w == MultiWire(req.obc, req.data)
             f(k) == CanFrame(n, req.dest, IF k = 1 THEN MultiFirst ELSE MultiMiddle,
                              pid, Piece(w, k))
  <2>1. FramesOf(n, pid, req, ty) = [k \in 1..NumPieces(w) |-> f(k)]
    BY <1>3 DEF FramesOf, MultiFrames
  <2>2. \A k : f(k).pid = pid
    BY DEF CanFrame
  <2> HIDE DEF f, w
  <2> QED BY <2>1, <2>2
<1> QED BY <1>1, <1>2, <1>3

---------------------------------------------------------------------------
(* The invariant. *)

LEMMA InitPid == Init => PidInv
<1> SUFFICES ASSUME Init PROVE PidInv
  OBVIOUS
<1>1. \A n \in Nodes, t \in Tasks : job[n][t].frames = <<>>
  BY DEF Init, Idle
<1> QED BY <1>1 DEF PidInv, Busy

\* Steps in which sends go on or end, and none begins.
LEMMA SendsGoOn ==
    ASSUME PidInv,
           \A n \in Nodes, t \in Tasks : Busy(n, t)' =>
               /\ Busy(n, t) /\ up'[n] /\ idCounter'[n] = idCounter[n]
               /\ job'[n][t].since = job[n][t].since
               /\ \A i \in DOMAIN job'[n][t].frames : \E k \in DOMAIN job[n][t].frames :
                     job'[n][t].frames[i] = job[n][t].frames[k]
    PROVE  PidInv'
<1>1. ASSUME NEW n \in Nodes, NEW t \in Tasks, Busy(n, t)',
             NEW i \in DOMAIN job'[n][t].frames, job'[n][t].frames[i].type \in Multi
      PROVE  job'[n][t].frames[i].pid = Behind(idCounter'[n], job'[n][t].since)
  <2>1. PICK k \in DOMAIN job[n][t].frames :
            job'[n][t].frames[i] = job[n][t].frames[k]
    BY <1>1
  <2>2. job[n][t].frames[k].pid = Behind(idCounter[n], job[n][t].since)
    BY <1>1, <2>1 DEF PidInv
  <2> QED BY <1>1, <2>1, <2>2
<1>2. ASSUME NEW n \in Nodes, NEW t \in Tasks, NEW u \in Tasks, t # u,
             Busy(n, t)', Busy(n, u)'
      PROVE  job'[n][t].since # job'[n][u].since
  BY <1>2 DEF PidInv
<1>3. \A n \in Nodes, t \in Tasks : Busy(n, t)' => up'[n]
  OBVIOUS
<1> QED BY <1>1, <1>2, <1>3 DEF PidInv, Behind, Multi, Busy

\* A send begins: it draws the next pid, and the others fall back by one.
LEMMA SendPid ==
    ASSUME SlotInv, PidInv, MaxOvertakes < NPids,
           NEW n \in Nodes, NEW t \in Tasks, Send(n, t)
    PROVE  PidInv'
<1> DEFINE c == idCounter[n]
           d == (c + 1) % NPids
<1>1. /\ up[n] /\ job[n][t].frames = <<>> /\ up' = up
      /\ \A u \in Tasks : Overtaken(job[n][u]).since <= MaxOvertakes
      /\ idCounter' = [idCounter EXCEPT ![n] = (idCounter[n] + 1) % NPids]
  BY DEF Send, FetchAddId
<1>2. /\ job \in [Nodes -> [Tasks -> Jobs]] /\ c \in 0..(NPids - 1)
      /\ idCounter \in [Nodes -> 0..(NPids - 1)]
      /\ MaxOvertakes \in Nat /\ NPids \in Nat
  BY TyCanAssumption DEF SlotInv, TypeOK
<1>3. idCounter'[n] = d /\ \A m \in Nodes : m # n => idCounter'[m] = idCounter[m]
  BY <1>1, <1>2
<1>4. PICK j : /\ Begins(n, t, j)
               /\ j.since = 0
               /\ \A i \in DOMAIN j.frames :
                     j.frames[i].type \in Multi => j.frames[i].pid = c
  <2>1. PICK req \in Requests[n][t] :
            IF Sendable(req)
            THEN Begins(n, t, [Idle EXCEPT
                      !.frames = FramesOf(n, idCounter[n], req, SingleType(n)),
                      !.msg = MessageOf(n, req)])
            ELSE Begins(n, t, Idle)
    BY DEF Send
  <2>2. CASE Sendable(req)
    <3> DEFINE fs == FramesOf(n, c, req, SingleType(n))
               m == MessageOf(n, req)
               j == [Idle EXCEPT !.frames = fs, !.msg = m]
    <3>1. Begins(n, t, j)
      BY <2>1, <2>2
    <3>2. \A i \in DOMAIN fs : fs[i].type \in Multi => fs[i].pid = c
      <4>1. SingleType(n) \in {Single, DefaultType}
        BY DEF SingleType
      <4> QED BY <4>1, FramesCarryPid
    <3> HIDE DEF fs, m
    <3>3. j.since = 0 /\ j.frames = fs
      BY DEF Idle
    <3> HIDE DEF j
    <3> QED BY <3>1, <3>2, <3>3
  <2>3. CASE ~Sendable(req)
    <3>1. Begins(n, t, Idle)
      BY <2>1, <2>3
    <3>2. Idle.since = 0 /\ Idle.frames = <<>> /\ DOMAIN <<>> = {}
      BY DEF Idle
    <3> QED BY <3>1, <3>2
  <2> QED BY <2>2, <2>3
<1>5. /\ job'[n] = [u \in Tasks |-> IF u = t THEN j ELSE Overtaken(job[n][u])]
      /\ \A m \in Nodes : m # n => job'[m] = job[m]
  BY <1>2, <1>4 DEF Begins
<1>6. job'[n][t] = j
  BY <1>5
<1>7. Behind(d, 0) = c /\ \A s \in Nat : s + 1 < NPids => Behind(d, s + 1) = Behind(c, s)
  BY <1>2, BehindNext
<1>8. ASSUME NEW u \in Tasks, u # t, Busy(n, u)'
      PROVE  /\ Busy(n, u) /\ job'[n][u].frames = job[n][u].frames
             /\ job[n][u].since \in Nat
             /\ job'[n][u].since = job[n][u].since + 1
             /\ job[n][u].since + 1 < NPids
  <2> DEFINE k == job[n][u]
  <2>1. job'[n][u] = Overtaken(k)
    BY <1>5, <1>8
  <2>2. k \in Jobs
    BY <1>2
  <2>3. k.frames # <<>>
    BY <1>8, <2>1 DEF Busy, Overtaken
  <2>4. Overtaken(k) = [k EXCEPT !.since = k.since + 1]
    BY <2>3 DEF Overtaken
  <2>5. Overtaken(k).frames = k.frames /\ Overtaken(k).since = k.since + 1
    BY <2>2, <2>4 DEF Jobs
  <2>6. k.since \in Nat /\ k.since + 1 <= MaxOvertakes
    <3>1. k.since \in 0..MaxOvertakes
      BY <2>2 DEF Jobs
    <3>2. Overtaken(k).since <= MaxOvertakes
      BY <1>1
    <3> QED BY <1>2, <2>5, <3>1, <3>2
  <2> HIDE DEF k
  <2>7. k.since + 1 < NPids
    BY <1>2, <2>6
  <2> QED BY <2>1, <2>3, <2>5, <2>6, <2>7 DEF Busy, k
<1> HIDE DEF c, d
<1>9. ASSUME NEW u \in Tasks, Busy(n, u)', NEW i \in DOMAIN job'[n][u].frames,
             job'[n][u].frames[i].type \in Multi
      PROVE  job'[n][u].frames[i].pid = Behind(d, job'[n][u].since)
  <2>1. CASE u = t
    BY <1>4, <1>6, <1>7, <1>9, <2>1
  <2>2. CASE u # t
    <3>1. job[n][u].frames[i].pid = Behind(c, job[n][u].since)
      BY <1>8, <1>9, <2>2 DEF PidInv, c
    <3> QED BY <1>7, <1>8, <1>9, <2>2, <3>1
  <2> QED BY <2>1, <2>2
<1>10. ASSUME NEW u \in Tasks, NEW v \in Tasks, u # v, Busy(n, u)', Busy(n, v)'
       PROVE  job'[n][u].since # job'[n][v].since
  <2>1. CASE u = t
    BY <1>4, <1>6, <1>8, <1>10, <2>1
  <2>2. CASE v = t
    BY <1>4, <1>6, <1>8, <1>10, <2>2
  <2>3. CASE u # t /\ v # t
    <3>1. job[n][u].since # job[n][v].since
      BY <1>8, <1>10, <2>3 DEF PidInv
    <3> QED BY <1>8, <1>10, <2>3, <3>1
  <2> QED BY <2>1, <2>2, <2>3
<1>11. ASSUME NEW m \in Nodes
       PROVE  /\ \A u \in Tasks : Busy(m, u)' =>
                    /\ up'[m]
                    /\ \A i \in DOMAIN job'[m][u].frames :
                          job'[m][u].frames[i].type \in Multi =>
                              job'[m][u].frames[i].pid
                                = Behind(idCounter'[m], job'[m][u].since)
              /\ \A u, v \in Tasks : u # v /\ Busy(m, u)' /\ Busy(m, v)' =>
                    job'[m][u].since # job'[m][v].since
  <2>1. CASE m = n
    BY <1>1, <1>3, <1>9, <1>10, <2>1
  <2>2. CASE m # n
    <3>1. job'[m] = job[m] /\ idCounter'[m] = idCounter[m] /\ up'[m] = up[m]
      BY <1>1, <1>3, <1>5, <2>2
    <3> QED BY <3>1 DEF PidInv, Busy
  <2> QED BY <2>1, <2>2
<1> QED BY <1>11 DEF PidInv, Behind, Multi, Busy

\* A write takes the first frame away, or ends the send, or keeps it all.
LEMMA WritePid ==
    ASSUME SlotInv, PidInv, NEW n \in Nodes, NEW t \in Tasks, Write(n, t)
    PROVE  PidInv'
<1> DEFINE j == job[n][t]
<1>1. /\ up[n] /\ j.frames # <<>> /\ UNCHANGED <<up, idCounter>>
  BY DEF Write, WriteOk, FirstFails, SendFails, WriteFault, Writing
<1>2. job \in [Nodes -> [Tasks -> Jobs]]
  BY DEF SlotInv, TypeOK
<1>3. PICK k : /\ job' = [job EXCEPT ![n][t] = k]
               /\ k.frames # <<>> =>
                     /\ k.since = j.since
                     /\ \A i \in DOMAIN k.frames : \E h \in DOMAIN j.frames :
                           k.frames[i] = j.frames[h]
  <2>1. j \in Jobs /\ Idle.frames = <<>>
    BY <1>2 DEF Idle
  <2> DEFINE next == [j EXCEPT !.frames = Tail(@)]
             again == [j EXCEPT !.retried = TRUE]
  <2>2. CASE job' = [job EXCEPT ![n][t] = Idle]
    BY <2>1, <2>2
  <2>3. CASE job' = [job EXCEPT ![n][t] = next]
    <3>1. next.since = j.since /\ next.frames = Tail(j.frames)
      BY <2>1 DEF Jobs
    <3>2. j.frames \in Seq(Frame)
      BY <2>1 DEF Jobs
    <3>3. \A i \in DOMAIN Tail(j.frames) :
             i + 1 \in DOMAIN j.frames /\ Tail(j.frames)[i] = j.frames[i + 1]
      <4> DEFINE q == j.frames
      <4>1. q \in Seq(Frame) /\ q # <<>>
        BY <1>1, <3>2
      <4> HIDE DEF q
      <4>2. \A i \in DOMAIN Tail(q) : i + 1 \in DOMAIN q /\ Tail(q)[i] = q[i + 1]
        BY <4>1
      <4> QED BY <4>2 DEF q
    <3>4. \A i \in DOMAIN Tail(j.frames) : \E h \in DOMAIN j.frames :
             Tail(j.frames)[i] = j.frames[h]
      BY <3>3
    <3>5. \A i \in DOMAIN next.frames : \E h \in DOMAIN j.frames :
             next.frames[i] = j.frames[h]
      <4> HIDE DEF next, j
      <4> QED BY <3>1, <3>4
    <3> HIDE DEF next
    <3> QED BY <2>3, <3>1, <3>5
  <2>4. CASE job' = [job EXCEPT ![n][t] = again]
    <3>1. again.since = j.since /\ again.frames = j.frames
      BY <2>1 DEF Jobs
    <3> HIDE DEF again
    <3> QED BY <2>4, <3>1
  <2>5. \/ job' = [job EXCEPT ![n][t] = Idle]
        \/ job' = [job EXCEPT ![n][t] = next]
        \/ job' = [job EXCEPT ![n][t] = again]
    <3>1. CASE WriteOk(n, t)
      <4>1. job' = [job EXCEPT ![n][t] =
                       IF Len(j.frames) = 1 THEN Idle
                       ELSE [j EXCEPT !.frames = Tail(@)]]
        BY <3>1 DEF WriteOk
      <4> QED BY <4>1
    <3>2. CASE FirstFails(n, t)
      BY <3>2 DEF FirstFails
    <3>3. CASE SendFails(n, t)
      BY <3>3 DEF SendFails
    <3> QED BY <3>1, <3>2, <3>3 DEF Write
  <2> QED BY <2>2, <2>3, <2>4, <2>5
<1>4. \A m \in Nodes, u \in Tasks :
         job'[m][u] = IF m = n /\ u = t THEN k ELSE job[m][u]
  BY <1>2, <1>3
<1>5. ASSUME NEW m \in Nodes, NEW u \in Tasks, Busy(m, u)'
      PROVE  /\ Busy(m, u) /\ up'[m] /\ idCounter'[m] = idCounter[m]
             /\ job'[m][u].since = job[m][u].since
             /\ \A i \in DOMAIN job'[m][u].frames : \E h \in DOMAIN job[m][u].frames :
                   job'[m][u].frames[i] = job[m][u].frames[h]
  <2>1. CASE m = n /\ u = t
    BY <1>1, <1>3, <1>4, <1>5, <2>1 DEF Busy
  <2>2. CASE ~(m = n /\ u = t)
    BY <1>1, <1>4, <1>5, <2>2 DEF Busy, PidInv
  <2> QED BY <2>1, <2>2
<1> QED BY <1>5, SendsGoOn

\* Nothing of the senders changes.
LEMMA SendersKept ==
    ASSUME PidInv, UNCHANGED <<up, job, idCounter>>
    PROVE  PidInv'
BY DEF PidInv, Behind, Multi, Busy

\* The counter starts again, the process ends, or starts again: node r has no
\* send in progress then.
LEMMA NodeQuiet ==
    ASSUME PidInv, NEW r \in Nodes,
           \A t \in Tasks : job'[r][t].frames = <<>>,
           \A n \in Nodes : n # r =>
               job'[n] = job[n] /\ up'[n] = up[n] /\ idCounter'[n] = idCounter[n]
    PROVE  PidInv'
<1>1. ASSUME NEW n \in Nodes, NEW t \in Tasks, Busy(n, t)'
      PROVE  n # r /\ Busy(n, t) /\ up[n]
  BY <1>1 DEF Busy, PidInv
<1> QED BY <1>1, SendsGoOn

LEMMA ReadPid ==
    ASSUME SlotInv, PidInv, ~ResetMeetsSend, NEW r \in Receivers, Recv(r)
    PROVE  PidInv'
<1>1. /\ up \in [Nodes -> BOOLEAN] /\ job \in [Nodes -> [Tasks -> Jobs]]
      /\ idCounter \in [Nodes -> 0..(NPids - 1)] /\ r \in Nodes
  BY ReceiverIsNode DEF SlotInv, TypeOK
<1>2. CASE RecvReset(r)
  <2>1. \A t \in Tasks : job[r][t].frames = <<>>
    BY <1>2 DEF RecvReset, ResetMeetsSend, Busy
  <2>2. UNCHANGED <<up, job>> /\ idCounter' = [idCounter EXCEPT ![r] = 0]
    BY <1>2 DEF RecvReset
  <2> QED BY <1>1, <2>1, <2>2, NodeQuiet
<1>3. CASE RecvPanics(r)
  <2>1. /\ up' = [up EXCEPT ![r] = FALSE] /\ idCounter' = idCounter
        /\ job' = [job EXCEPT ![r] = [t \in Tasks |-> Idle]]
    BY <1>3 DEF RecvPanics
  <2>2. \A t \in Tasks : job'[r][t].frames = <<>>
    BY <1>1, <2>1 DEF Idle
  <2> QED BY <1>1, <2>1, <2>2, NodeQuiet
<1>4. CASE ~RecvReset(r) /\ ~RecvPanics(r)
  BY <1>4, SendersKept
     DEF Recv, RecvIgnored, RecvSingle, RecvTime, RecvFirst, RecvMiddleOverflow,
         RecvMiddlePartial, RecvMiddleComplete
<1> QED BY <1>2, <1>3, <1>4

LEMMA RestartPid ==
    ASSUME SlotInv, PidInv, NEW r \in Receivers, ServiceRestart(r)
    PROVE  PidInv'
<1>1. /\ up \in [Nodes -> BOOLEAN] /\ idCounter \in [Nodes -> 0..(NPids - 1)]
      /\ r \in Nodes
  BY ReceiverIsNode DEF SlotInv, TypeOK
<1>2. /\ ~up[r] /\ up' = [up EXCEPT ![r] = TRUE] /\ job' = job
      /\ idCounter' = [idCounter EXCEPT ![r] = 0]
  BY DEF ServiceRestart
<1>3. \A t \in Tasks : job'[r][t].frames = <<>>
  BY <1>1, <1>2 DEF PidInv, Busy
<1> QED BY <1>1, <1>2, <1>3, NodeQuiet

LEMMA PidStep ==
    ASSUME SlotInv, PidInv, ~ResetMeetsSend, MaxOvertakes < NPids, [Next]_vars
    PROVE  PidInv'
<1>1. ASSUME NEW n \in Nodes, NEW t \in Tasks, Send(n, t) PROVE PidInv'
  BY <1>1, SendPid
<1>2. ASSUME NEW n \in Nodes, NEW t \in Tasks, Write(n, t) PROVE PidInv'
  BY <1>2, WritePid
<1>3. ASSUME NEW r \in Receivers, Recv(r) PROVE PidInv'
  BY <1>3, ReadPid
<1>4. ASSUME NEW r \in Receivers, ServiceRestart(r) PROVE PidInv'
  BY <1>4, RestartPid
<1>5. CASE NoiseOnBus
  BY <1>5, SendersKept DEF NoiseOnBus
<1>6. CASE UNCHANGED vars
  BY <1>6, SendersKept DEF vars
<1> QED BY <1>1, <1>2, <1>3, <1>4, <1>5, <1>6 DEF Next

---------------------------------------------------------------------------
(* The theorem. *)

LEMMA PidInvDistinct ==
    ASSUME SlotInv, PidInv, MaxOvertakes < NPids
    PROVE  PidsDistinct
<1> SUFFICES ASSUME NEW n \in Nodes, NEW t \in Tasks, NEW u \in Tasks, t # u,
                    \A v \in {t, u} : /\ job[n][v].frames # <<>>
                                      /\ Head(job[n][v].frames).type \in Multi
             PROVE  Head(job[n][t].frames).pid # Head(job[n][u].frames).pid
  BY DEF PidsDistinct, Multi
<1>1. ASSUME NEW v \in {t, u}
      PROVE  /\ Busy(n, v) /\ job[n][v].since \in 0..(NPids - 1)
             /\ Head(job[n][v].frames).pid = Behind(idCounter[n], job[n][v].since)
  <2> DEFINE q == job[n][v].frames
  <2>1. v \in Tasks /\ job[n][v] \in Jobs
    BY DEF SlotInv, TypeOK
  <2>2. job[n][v].since \in 0..MaxOvertakes /\ q \in Seq(Frame) /\ q # <<>>
    BY <2>1 DEF Jobs
  <2>3. 1 \in DOMAIN q /\ Head(q) = q[1]
    <3> HIDE DEF q
    <3> QED BY <2>2
  <2>4. q[1].pid = Behind(idCounter[n], job[n][v].since)
    BY <2>1, <2>2, <2>3 DEF PidInv, Busy
  <2> QED BY <2>2, <2>3, <2>4, TyCanAssumption DEF Busy
<1>2. job[n][t].since # job[n][u].since
  BY <1>1 DEF PidInv
<1>3. idCounter[n] \in 0..(NPids - 1)
  BY DEF SlotInv, TypeOK
<1> QED BY <1>1, <1>2, <1>3, BehindDiffers

\* The frames of two multi-frame messages that a node sends at once never
\* share a slot at their receivers, however many tasks there are and however
\* the counter wraps: as long as fewer sends than there are pids begin while
\* one is in progress, and no Reset frame sets the counter back under it.
THEOREM PidsStayDistinct ==
    MaxOvertakes < NPids => (Spec /\ []~ResetMeetsSend => []PidsDistinct)
<1> SUFFICES ASSUME MaxOvertakes < NPids
             PROVE  Spec /\ []~ResetMeetsSend => []PidsDistinct
  OBVIOUS
<1>1. Init => PidInv
  BY InitPid
<1>2. SlotInv /\ PidInv /\ ~ResetMeetsSend /\ [Next]_vars => PidInv'
  BY PidStep
<1>3. SlotInv /\ PidInv => PidsDistinct
  BY PidInvDistinct
<1> QED BY <1>1, <1>2, <1>3, SlotInvariant, PTL DEF Spec

=============================================================================
