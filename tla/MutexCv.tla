------------------------------ MODULE MutexCv -------------------------------
(***************************************************************************)
(* What the server promises its clients, without tables, slots or          *)
(* messages: mutexes with an owner and a first-come first-served queue,    *)
(* and condition variables whose sleepers a broadcast moves, in the order  *)
(* they fell asleep, to the queues of the mutexes they gave up.            *)
(* A broadcast is not atomic: it wakes its sleepers one after the other.   *)
(***************************************************************************)
EXTENDS Naturals, Sequences

CONSTANTS Proc, Mutex, CondVar, Nobody

VARIABLES owner,    \* [Mutex -> Proc or Nobody]
          queue,    \* [Mutex -> Seq(Proc)]
          asleep,   \* [CondVar -> Seq of <<process, mutex>>]
          waking    \* the sleepers the current broadcast has yet to wake

absVars == <<owner, queue, asleep, waking>>

Init ==
    /\ owner  = [m \in Mutex |-> Nobody]
    /\ queue  = [m \in Mutex |-> <<>>]
    /\ asleep = [c \in CondVar |-> <<>>]
    /\ waking = <<>>

InQueue(p)  == \E m \in Mutex : \E k \in 1 .. Len(queue[m]) : queue[m][k] = p
IsAsleep(p) == \/ \E c \in CondVar : \E k \in 1 .. Len(asleep[c]) : asleep[c][k][1] = p
               \/ \E k \in 1 .. Len(waking) : waking[k][1] = p
Waiting(p)  == InQueue(p) \/ IsAsleep(p)

\* p gets a free mutex, or the last place in the queue of one that is not its own.
Acquire(p, m) ==
    \/ /\ owner[m] = Nobody
       /\ owner' = [owner EXCEPT ![m] = p]
       /\ UNCHANGED queue
    \/ /\ owner[m] \notin {Nobody, p}
       /\ queue' = [queue EXCEPT ![m] = Append(@, p)]
       /\ UNCHANGED owner

\* The mutexes in S pass to the first process in their queue, or to nobody.
NextOwner(m) == IF queue[m] = <<>> THEN Nobody ELSE Head(queue[m])
NextQueue(m) == IF queue[m] = <<>> THEN <<>> ELSE Tail(queue[m])

PassOn(S) ==
    /\ owner' = [m \in Mutex |-> IF m \in S THEN NextOwner(m) ELSE owner[m]]
    /\ queue' = [m \in Mutex |-> IF m \in S THEN NextQueue(m) ELSE queue[m]]

Lock(p, m) ==
    /\ ~Waiting(p)
    /\ Acquire(p, m)
    /\ UNCHANGED <<asleep, waking>>

Unlock(p, m) ==
    /\ ~Waiting(p)
    /\ owner[m] = p
    /\ PassOn({m})
    /\ UNCHANGED <<asleep, waking>>

Sleep(p, c, m) ==
    /\ ~Waiting(p)
    /\ owner[m] = p
    /\ PassOn({m})
    /\ asleep' = [asleep EXCEPT ![c] = Append(@, <<p, m>>)]
    /\ UNCHANGED waking

Broadcast(c) ==
    /\ waking = <<>>
    /\ waking' = asleep[c]
    /\ asleep' = [asleep EXCEPT ![c] = <<>>]
    /\ UNCHANGED <<owner, queue>>

Wake ==
    /\ waking # <<>>
    /\ Acquire(waking[1][1], waking[1][2])
    /\ waking' = Tail(waking)
    /\ UNCHANGED asleep

\* A signal ends p's wait, an exit ends p: either way the others keep their
\* order.  K is the set of places that p has in s; it never has two.
Leave(s, K) ==
    IF K = {} THEN s
    ELSE LET k == CHOOSE k \in K : TRUE
         IN  [j \in 1 .. Len(s) - 1 |-> s[IF j < k THEN j ELSE j + 1]]

Others(s, p)   == Leave(s, {k \in 1 .. Len(s) : s[k] = p})
Sleepers(s, p) == Leave(s, {k \in 1 .. Len(s) : s[k][1] = p})

Interrupt(p) ==
    /\ waking = <<>>
    /\ queue' = [m \in Mutex |-> Others(queue[m], p)]
    /\ asleep' = [c \in CondVar |-> Sleepers(asleep[c], p)]
    /\ UNCHANGED <<owner, waking>>

Exit(p) ==
    LET S == {m \in Mutex : owner[m] = p} IN
    /\ waking = <<>>
    /\ owner' = [m \in Mutex |-> IF m \in S THEN NextOwner(m) ELSE owner[m]]
    /\ queue' = [m \in Mutex |-> Others(IF m \in S THEN NextQueue(m) ELSE queue[m], p)]
    /\ asleep' = [c \in CondVar |-> Sleepers(asleep[c], p)]
    /\ UNCHANGED waking

Next ==
    \/ \E p \in Proc : \E m \in Mutex : Lock(p, m) \/ Unlock(p, m)
    \/ \E p \in Proc : \E c \in CondVar : \E m \in Mutex : Sleep(p, c, m)
    \/ \E c \in CondVar : Broadcast(c)
    \/ Wake
    \/ \E p \in Proc : Interrupt(p) \/ Exit(p)

Spec == Init /\ [][Next]_absVars

=============================================================================
