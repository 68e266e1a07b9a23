---------------------------- MODULE BusDelivery ----------------------------
(***************************************************************************)
(* What the adaptors promise the layers above them: a link from every      *)
(* sending task to every receiving node that may lose messages but never   *)
(* alters, duplicates, invents or reorders one, and never hands a node a   *)
(* message that was not for it.  Where the bytes on the way to a node may  *)
(* no longer be whole (broken), the node may be handed anything; the link  *)
(* promises only that this leaves no trace in what comes after.  TyCan and *)
(* Uart implement it: over CAN the link never breaks, and only requests    *)
(* cross it, since its protocol has no receiver for responses.             *)
(***************************************************************************)
EXTENDS Naturals, Sequences

CONSTANTS Nodes, Receivers, Tasks,
          Messages,                  \* the messages tasks may offer
          Addressed(_, _)            \* Addressed(m, r): r should see m

VARIABLES sent,                      \* sent[n][t]: what task t of n offered
          got,                       \* got[r]: what r was handed
          garbled,                   \* garbled[r]: which of got[r] came
                                     \* while the way to r was broken
          broken                     \* input: broken[r], the way to r is

\* <<n, t, k>> stands for the k-th message that task t of n offered.
Places == UNION {{n} \X {t} \X DOMAIN sent[n][t] : n \in Nodes, t \in Tasks}

At(x) == sent[x[1]][x[2]][x[3]]

SameTask(x, y) == x[1] = y[1] /\ x[2] = y[2]

\* What r got, at the places D of g, can be explained by what the tasks sent:
\* each message is one that a task offered, no two are the same one, and
\* those of a task come in the order in which it offered them.
Explained(r, g, D) ==
    /\ \A i \in D : Addressed(g[i], r)
    /\ \E f \in [D -> Places] :
          /\ \A i \in D : g[i] = At(f[i])
          /\ \A i, j \in D :
                i < j /\ SameTask(f[i], f[j]) => f[i][3] < f[j][3]

Init == /\ sent = [n \in Nodes |-> [t \in Tasks |-> <<>>]]
        /\ got = [r \in Receivers |-> <<>>]
        /\ garbled = [r \in Receivers |-> {}]

Offer(n, t) ==
    /\ \E m \in Messages : sent' = [sent EXCEPT ![n][t] = Append(@, m)]
    /\ UNCHANGED <<got, garbled>>

Deliver(r) ==
    /\ \E m \in Messages : got' = [got EXCEPT ![r] = Append(@, m)]
    /\ Explained(r, got'[r], DOMAIN got'[r] \ garbled[r])
    /\ UNCHANGED <<sent, garbled>>

\* Over a broken way something comes, offered or not.
Garble(r) ==
    /\ broken[r]
    /\ \E i \in DOMAIN got'[r] : got' = [got EXCEPT ![r] = Append(@, got'[r][i])]
    /\ garbled' = [garbled EXCEPT ![r] = @ \cup {Len(got[r]) + 1}]
    /\ UNCHANGED sent

Next == \/ \E n \in Nodes, t \in Tasks : Offer(n, t)
        \/ \E r \in Receivers : Deliver(r) \/ Garble(r)

link == <<sent, got, garbled>>

Spec == Init /\ [][Next]_link
=============================================================================
