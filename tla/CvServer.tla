------------------------------ MODULE CvServer ------------------------------
(***************************************************************************)
(* The MINIX 3 server of mutexes and condition variables                   *)
(* (projekt/servers/cv), as the processes that talk to it see it.          *)
(*                                                                         *)
(* The server is one sequential process.  Its tables M and CV are held     *)
(* here field by field, under the names of the C struct members.  Around   *)
(* it the module has what the server's own code depends on:                *)
(*   - user processes, each in at most one sendrec to the server;          *)
(*   - PM, which posts CS_EINTR and CS_EXIT with asynsend and later        *)
(*     removes a dead process from the kernel (sys_clear);                 *)
(*   - the kernel's rendezvous: a sender waits in the server's caller      *)
(*     queue until it is received, asynchronous messages are received      *)
(*     before queued senders, and `send' blocks the sender unless its      *)
(*     target is receiving.                                                *)
(* Any request of cv.c, types 1 to 4, or one of an unknown type may come   *)
(* from any process that is not blocked, so what holds here holds for      *)
(* every program that does not itself send CS_EINTR or CS_EXIT: the server *)
(* does not look at the sender of these two, which are PM's (libc has no   *)
(* function that sends them).                                              *)
(***************************************************************************)
EXTENDS Integers, Sequences, FiniteSets

CONSTANTS
    Proc,        \* endpoints of user processes
    Mutex,       \* mutex numbers programs use
    CondVar,     \* condition variable numbers programs use
    Zero,        \* the int 0 of the BSS and of cleared fields
    MAX_MUTEX,   \* includes.h: length of M
    MAX_CV,      \* includes.h: length of CV
    MAX_PROCESY, \* length of procesy[] and muteksy[] in struct conditionVariable
    ASYN_NR      \* bound: entries PM's asynsend table holds for the server

ASSUME SizesAssumption ==
    /\ MAX_MUTEX \in Nat \ {0}
    /\ MAX_CV \in Nat \ {0}
    /\ MAX_PROCESY \in Nat \ {0}
    /\ ASYN_NR \in Nat \ {0}

\* Endpoint 0 is PM, never a user process.
ASSUME ZeroAssumption == Zero \notin Proc

VARIABLES
    uzywany, numer, wlasciciel, kolejka,  \* struct mutex M[MAX_MUTEX]
    cvUzywany, cvNumer, cvProcesy,        \* struct conditionVariable CV[MAX_CV]
    server,   \* where the server's control is
    client,   \* the kernel's view of each process: its call to the server
    life,     \* PM's view of each process
    holds,    \* the mutexes each process believes it holds
    async     \* messages of PM the server has not received, in order

mutexVars == <<uzywany, numer, wlasciciel, kolejka>>
cvVars    == <<cvUzywany, cvNumer, cvProcesy>>
tables    == <<uzywany, numer, wlasciciel, kolejka, cvUzywany, cvNumer, cvProcesy>>
vars      == <<uzywany, numer, wlasciciel, kolejka, cvUzywany, cvNumer, cvProcesy,
               server, client, life, holds, async>>

-----------------------------------------------------------------------------
(***************************************************************************)
(* Constants of the protocol.  _SYSTEM makes the error codes negative, so  *)
(* the expression -EINVAL of cs_wait is the positive number 22.            *)
(***************************************************************************)
OK         == 0
EPERM      == -1
EINTR      == -4
EINVAL     == -22
EDONTREPLY == -201

Slot   == 0 .. MAX_MUTEX - 1
CvSlot == 0 .. MAX_CV - 1

\* Mutant: the two numbers of the message swapped.
LockRequestSwapped(m) == [typ |-> "CS_LOCK", mutex |-> Zero, cv |-> m]
\* send_message: a call that has no mutex or no condition variable sends 0.
LockRequest(m)      == [typ |-> "CS_LOCK",      mutex |-> m,    cv |-> Zero]
UnlockRequest(m)    == [typ |-> "CS_UNLOCK",    mutex |-> m,    cv |-> Zero]
WaitRequest(c, m)   == [typ |-> "CS_WAIT",      mutex |-> m,    cv |-> c]
BroadcastRequest(c) == [typ |-> "CS_BROADCAST", mutex |-> Zero, cv |-> c]
BadRequest          == [typ |-> "BAD",          mutex |-> Zero, cv |-> Zero]
NoRequest           == [typ |-> "NONE",         mutex |-> Zero, cv |-> Zero]

Request == {LockRequest(m) : m \in Mutex} \cup {UnlockRequest(m) : m \in Mutex}
           \cup {WaitRequest(c, m) : c \in CondVar, m \in Mutex}
           \cup {BroadcastRequest(c) : c \in CondVar} \cup {BadRequest}

Waiter == [proces : Proc, muteks : Mutex]
Async  == [typ : {"CS_EINTR", "CS_EXIT"}, proces : Proc]

ServerPlace == {"receive",      \* in sef_receive
                "broadcast",    \* inside the loop of cs_broadcast
                "stuck",        \* blocked in send to a process that is not receiving
                "pastM", "pastCV", "pastProcesy"}  \* wrote past the end of a table

Idle == [at |-> "receive", original |-> Zero, i |-> -1]

Init ==
    /\ uzywany    = [i \in Slot |-> 0]
    /\ numer      = [i \in Slot |-> Zero]
    /\ wlasciciel = [i \in Slot |-> Zero]
    /\ kolejka    = [i \in Slot |-> <<>>]
    /\ cvUzywany  = [i \in CvSlot |-> 0]
    /\ cvNumer    = [i \in CvSlot |-> Zero]
    /\ cvProcesy  = [i \in CvSlot |-> <<>>]
    /\ server     = Idle
    /\ client     = [p \in Proc |-> [at |-> "running", req |-> NoRequest, reply |-> OK]]
    /\ life       = [p \in Proc |-> "alive"]
    /\ holds      = [p \in Proc |-> {}]
    /\ async      = <<>>

-----------------------------------------------------------------------------
(***************************************************************************)
(* Searching the tables.  Every search of the server is a loop from the    *)
(* lowest index up; -1 is "not found".                                     *)
(***************************************************************************)
First(S) == IF S = {} THEN -1 ELSE CHOOSE i \in S : \A j \in S : i <= j

\* Mutant: the search stops one row early.
indeksOneShort(m) == First({i \in 0 .. MAX_MUTEX - 2 : uzywany[i] = 1 /\ numer[i] = m})
indeksUzywanegoMutexa(m) == First({i \in Slot : uzywany[i] = 1 /\ numer[i] = m})
indeksUzywanegoCv(c)     == First({i \in CvSlot : cvUzywany[i] = 1 /\ cvNumer[i] = c})

\* The free slot cs_lock and cs_wait take; -1 where their loop runs off the table.
freeMutex == First({i \in Slot : uzywany[i] = 0})
freeCv    == First({i \in CvSlot : cvUzywany[i] = 0})

\* Mutant: the owner is not compared.
OwnsAny(p, m) == indeksUzywanegoMutexa(m) # -1
Owns(p, m) == LET i == indeksUzywanegoMutexa(m) IN i # -1 /\ wlasciciel[i] = p

\* Position of process p in a mutex queue, and in the list of a condition variable.
PositionInQueue(s, p) == First({k \in 1 .. Len(s) : s[k] = p})
PositionInCv(s, p)    == First({k \in 1 .. Len(s) : s[k].proces = p})

\* Mutant: the last element is moved into the hole.
RemovePositionSwapping(s, k) == [j \in 1 .. Len(s) - 1 |-> IF j = k THEN s[Len(s)] ELSE s[j]]
\* Sequence s without its k-th element: the later ones move one place down.
RemovePosition(s, k) == [j \in 1 .. Len(s) - 1 |-> IF j < k THEN s[j] ELSE s[j + 1]]

\* Mutant: the entry is left in the queue.
usunElementNothing(s, p) == s
\* FOR_EACH ... usunElement ... break: the first entry of p, if it has one, goes.
usunElement(s, p) ==
    LET k == PositionInQueue(s, p) IN IF k = -1 THEN s ELSE RemovePosition(s, k)

QueuesWith(p) == {i \in Slot : PositionInQueue(kolejka[i], p) # -1}
CvsWith(p)    == {i \in CvSlot : cvUzywany[i] = 1 /\ PositionInCv(cvProcesy[i], p) # -1}

-----------------------------------------------------------------------------
(***************************************************************************)
(* wyslijWiadomosc.  msgs is the set of messages one handler sends, each   *)
(* [do, typ, z] with z the place in the tables it is sent for; k is client *)
(* as it is when they are sent.  A message to a process the kernel has     *)
(* cleared fails and the server goes on; one to a process that is not      *)
(* receiving (or was already answered by another of these messages) blocks *)
(* the server; the others complete the receiver's sendrec.                 *)
(***************************************************************************)
Msg(q, typ, z) == [do |-> q, typ |-> typ, z |-> z]

Blocks(k, msgs) ==
    \E n \in msgs : /\ life[n.do] # "dead"
                    /\ \/ k[n.do].at # "receiving"
                       \/ \E n2 \in msgs \ {n} : n2.do = n.do

Delivered(k, msgs, q) ==
    {n \in msgs : n.do = q /\ life[q] # "dead" /\ k[q].at = "receiving"}

\* An OK answer to a lock or a wait is what tells a process it has the mutex.
Acquires(k, msgs, q) ==
    {k[q].req.mutex : n \in {x \in Delivered(k, msgs, q) :
        x.typ = OK /\ life[q] = "alive" /\ k[q].req.typ \in {"CS_LOCK", "CS_WAIT"}}}

wyslijWiadomosc(k, msgs, next) ==
    /\ client' = [q \in Proc |->
         IF Delivered(k, msgs, q) = {} THEN k[q]
         ELSE [at |-> "running", req |-> NoRequest,
               reply |-> (CHOOSE n \in Delivered(k, msgs, q) : TRUE).typ]]
    /\ holds' = [q \in Proc |-> holds[q] \cup Acquires(k, msgs, q)]
    /\ server' = IF Blocks(k, msgs) THEN [server EXCEPT !.at = "stuck"] ELSE next

-----------------------------------------------------------------------------
(***************************************************************************)
(* cs_lock for aktualnyProces = p: its result and its effect on M.         *)
(***************************************************************************)
LockOverflows(m) == indeksUzywanegoMutexa(m) = -1 /\ freeMutex = -1

LockResult(p, m) ==
    LET i == indeksUzywanegoMutexa(m) IN
    IF i = -1 THEN OK ELSE IF wlasciciel[i] = p THEN EPERM ELSE EDONTREPLY

\* Mutant: a newcomer goes to the head of the queue.
cs_lockFront(p, m) ==
    LET i == indeksUzywanegoMutexa(m)
        f == freeMutex
    IN  IF i = -1
        THEN /\ numer'      = [numer EXCEPT ![f] = m]
             /\ wlasciciel' = [wlasciciel EXCEPT ![f] = p]
             /\ uzywany'    = [uzywany EXCEPT ![f] = 1]
             /\ UNCHANGED kolejka
        ELSE /\ kolejka' = IF wlasciciel[i] = p THEN kolejka
                           ELSE [kolejka EXCEPT ![i] = <<p>> \o @]
             /\ UNCHANGED <<uzywany, numer, wlasciciel>>
cs_lock(p, m) ==
    LET i == indeksUzywanegoMutexa(m)
        f == freeMutex
    IN  IF i = -1
        THEN /\ numer'      = [numer EXCEPT ![f] = m]
             /\ wlasciciel' = [wlasciciel EXCEPT ![f] = p]
             /\ uzywany'    = [uzywany EXCEPT ![f] = 1]
             /\ UNCHANGED kolejka
        ELSE /\ kolejka' = IF wlasciciel[i] = p THEN kolejka
                           ELSE [kolejka EXCEPT ![i] = Append(@, p)]
             /\ UNCHANGED <<uzywany, numer, wlasciciel>>

(***************************************************************************)
(* cs_unlock by the owner of the slots in J: a slot nobody queues for is   *)
(* freed, any other goes to the head of its queue, who gets 0.  numer,     *)
(* wlasciciel and the queue of a freed slot keep what they held.           *)
(***************************************************************************)
HandedOver(J) == {i \in J : kolejka[i] # <<>>}

QueuesAfterUnlock(J) ==
    [i \in Slot |-> IF i \in HandedOver(J) THEN Tail(kolejka[i]) ELSE kolejka[i]]

\* Mutant: the row is handed over without recording the new owner.
UnlockSlotsKeepingOwner(J) ==
    /\ uzywany' = [i \in Slot |-> IF i \in J \ HandedOver(J) THEN 0 ELSE uzywany[i]]
    /\ UNCHANGED <<numer, wlasciciel>>

UnlockSlots(J) ==
    /\ uzywany'    = [i \in Slot |-> IF i \in J \ HandedOver(J) THEN 0 ELSE uzywany[i]]
    /\ wlasciciel' = [i \in Slot |-> IF i \in HandedOver(J) THEN Head(kolejka[i])
                                     ELSE wlasciciel[i]]
    /\ UNCHANGED numer

Grants(J) == {Msg(Head(kolejka[i]), OK, i) : i \in HandedOver(J)}

-----------------------------------------------------------------------------
(***************************************************************************)
(* Requests.  The server receives p's message (asynchronous messages come  *)
(* first), so p is receiving from then on; -2 marks the answer to p, and   *)
(* the handlers that do not answer (EDONTREPLY) leave p receiving.         *)
(***************************************************************************)
Receives(p, typ) ==
    /\ server.at = "receive"
    /\ async = <<>>
    /\ client[p].at = "sending"
    /\ client[p].req.typ = typ

Received(p) == [client EXCEPT ![p].at = "receiving"]

Answer(p, result) == IF result = EDONTREPLY THEN {} ELSE {Msg(p, result, -2)}

HandleLock(p) ==
    LET m == client[p].req.mutex IN
    /\ Receives(p, "CS_LOCK")
    /\ ~LockOverflows(m)
    /\ cs_lock(p, m)
    /\ wyslijWiadomosc(Received(p), Answer(p, LockResult(p, m)), Idle)
    /\ UNCHANGED <<cvVars, life, async>>

\* The search for a free slot ends at MAX_MUTEX and M[MAX_MUTEX] is written.
HandleLockPastTable(p) ==
    /\ Receives(p, "CS_LOCK")
    /\ LockOverflows(client[p].req.mutex)
    /\ server' = [server EXCEPT !.at = "pastM"]
    /\ client' = Received(p)
    /\ UNCHANGED <<tables, life, holds, async>>

cs_unlock(p) ==
    LET m == client[p].req.mutex
        J == {indeksUzywanegoMutexa(m)}
    IN
    /\ Receives(p, "CS_UNLOCK")
    /\ Owns(p, m)
    /\ UnlockSlots(J)
    /\ kolejka' = QueuesAfterUnlock(J)
    /\ wyslijWiadomosc(Received(p), Grants(J) \cup Answer(p, OK), Idle)
    /\ UNCHANGED <<cvVars, life, async>>

UnlockRefused(p) ==
    /\ Receives(p, "CS_UNLOCK")
    /\ ~Owns(p, client[p].req.mutex)
    /\ wyslijWiadomosc(Received(p), Answer(p, EPERM), Idle)
    /\ UNCHANGED <<tables, life, async>>

\* The slot of condition variable c, and the list in it that p is appended to.
CvTarget(c) == IF indeksUzywanegoCv(c) = -1 THEN freeCv ELSE indeksUzywanegoCv(c)
\* Mutant: size is reset for a condition variable already in use, too.
CvWaitingReset(c) == <<>>
CvWaiting(c) == IF indeksUzywanegoCv(c) = -1 THEN <<>> ELSE cvProcesy[indeksUzywanegoCv(c)]

cs_wait(p) ==
    LET m == client[p].req.mutex
        c == client[p].req.cv
        J == {indeksUzywanegoMutexa(m)}
        i == CvTarget(c)
    IN
    /\ Receives(p, "CS_WAIT")
    /\ Owns(p, m)
    /\ i # -1
    /\ Len(CvWaiting(c)) < MAX_PROCESY
    /\ UnlockSlots(J)
    /\ kolejka' = QueuesAfterUnlock(J)
    /\ cvUzywany' = [cvUzywany EXCEPT ![i] = 1]
    /\ cvNumer' = [cvNumer EXCEPT ![i] = c]
    /\ cvProcesy' = [cvProcesy EXCEPT ![i] =
                        Append(CvWaiting(c), [proces |-> p, muteks |-> m])]
    /\ wyslijWiadomosc(Received(p), Grants(J), Idle)
    /\ UNCHANGED <<life, async>>

\* No free CV slot, or no place left in procesy[]: the mutex is unlocked, then
\* the write goes past the array.
WaitPastTable(p) ==
    LET m == client[p].req.mutex
        c == client[p].req.cv
        J == {indeksUzywanegoMutexa(m)}
    IN
    /\ Receives(p, "CS_WAIT")
    /\ Owns(p, m)
    /\ CvTarget(c) = -1 \/ Len(CvWaiting(c)) >= MAX_PROCESY
    /\ UnlockSlots(J)
    /\ kolejka' = QueuesAfterUnlock(J)
    /\ wyslijWiadomosc(Received(p), Grants(J),
            [server EXCEPT !.at = IF CvTarget(c) = -1 THEN "pastCV" ELSE "pastProcesy"])
    /\ UNCHANGED <<cvVars, life, async>>

WaitRefused(p) ==
    /\ Receives(p, "CS_WAIT")
    /\ ~Owns(p, client[p].req.mutex)
    /\ wyslijWiadomosc(Received(p), Answer(p, -EINVAL), Idle)
    /\ UNCHANGED <<tables, life, async>>

\* A message type outside 1..6 is answered EINVAL.
BadType(p) ==
    /\ Receives(p, "BAD")
    /\ wyslijWiadomosc(Received(p), Answer(p, EINVAL), Idle)
    /\ UNCHANGED <<tables, life, async>>

(***************************************************************************)
(* cs_broadcast.  One step of the loop serves one waiter, because the      *)
(* processes it has already woken run on while the server is still in it.  *)
(* cvProcesy holds the waiters the loop has yet to reach: the entries      *)
(* before j have been zeroed and nothing reads them.                       *)
(***************************************************************************)
BroadcastNobody(p) ==
    /\ Receives(p, "CS_BROADCAST")
    /\ indeksUzywanegoCv(client[p].req.cv) = -1
    /\ wyslijWiadomosc(Received(p), Answer(p, OK), Idle)
    /\ UNCHANGED <<tables, life, async>>

cs_broadcast(p) ==
    LET i == indeksUzywanegoCv(client[p].req.cv) IN
    /\ Receives(p, "CS_BROADCAST")
    /\ i # -1
    /\ server' = [at |-> "broadcast", original |-> p, i |-> i]
    /\ client' = Received(p)
    /\ UNCHANGED <<tables, life, holds, async>>

BroadcastNext ==
    LET i == server.i
        w == Head(cvProcesy[i])
    IN
    /\ server.at = "broadcast"
    /\ cvProcesy[i] # <<>>
    /\ ~LockOverflows(w.muteks)
    /\ cs_lock(w.proces, w.muteks)
    /\ wyslijWiadomosc(client,
            IF LockResult(w.proces, w.muteks) = EDONTREPLY THEN {}
            ELSE {Msg(w.proces, OK, MAX_MUTEX + i)},
            server)
    /\ cvProcesy' = [cvProcesy EXCEPT ![i] = Tail(@)]
    /\ UNCHANGED <<cvUzywany, cvNumer, life, async>>

BroadcastPastTable ==
    /\ server.at = "broadcast"
    /\ cvProcesy[server.i] # <<>>
    /\ LockOverflows(Head(cvProcesy[server.i]).muteks)
    /\ server' = [server EXCEPT !.at = "pastM"]
    /\ UNCHANGED <<tables, client, life, holds, async>>

\* Mutant: the condition variable is not marked free after the broadcast.
BroadcastEndKeepingRow ==
    /\ server.at = "broadcast"
    /\ cvProcesy[server.i] = <<>>
    /\ wyslijWiadomosc(client, Answer(server.original, OK), Idle)
    /\ UNCHANGED <<tables, life, async>>

BroadcastEnd ==
    LET i == server.i IN
    /\ server.at = "broadcast"
    /\ cvProcesy[i] = <<>>
    /\ cvUzywany' = [cvUzywany EXCEPT ![i] = 0]
    /\ cvNumer' = [cvNumer EXCEPT ![i] = Zero]
    /\ wyslijWiadomosc(client, Answer(server.original, OK), Idle)
    /\ UNCHANGED <<mutexVars, cvProcesy, life, async>>

-----------------------------------------------------------------------------
(***************************************************************************)
(* Messages of PM.                                                         *)
(***************************************************************************)
ReceivesAsync(typ) ==
    /\ server.at = "receive"
    /\ async # <<>>
    /\ Head(async).typ = typ
    /\ async' = Tail(async)

\* Mutant: the row of the only waiter is not marked free.
usunKeepingOnlyWaiter(p) ==
    /\ cvProcesy' = [i \in CvSlot |->
         IF i \in CvsWith(p) /\ Len(cvProcesy[i]) # 1
         THEN RemovePosition(cvProcesy[i], PositionInCv(cvProcesy[i], p))
         ELSE cvProcesy[i]]
    /\ UNCHANGED <<cvUzywany, cvNumer>>

\* usunZakonczonyProcesCV: the only waiter leaves size and procesy[] as they
\* were and frees the slot, any other is shifted out.
usunZakonczonyProcesCV(p) ==
    /\ cvUzywany' = [i \in CvSlot |->
         IF i \in CvsWith(p) /\ Len(cvProcesy[i]) = 1 THEN 0 ELSE cvUzywany[i]]
    /\ cvProcesy' = [i \in CvSlot |->
         IF i \in CvsWith(p) /\ Len(cvProcesy[i]) # 1
         THEN RemovePosition(cvProcesy[i], PositionInCv(cvProcesy[i], p))
         ELSE cvProcesy[i]]
    /\ UNCHANGED cvNumer

wyslijEINTR ==
    LET p == Head(async).proces IN
    /\ ReceivesAsync("CS_EINTR")
    /\ kolejka' = [i \in Slot |-> usunElement(kolejka[i], p)]
    /\ usunZakonczonyProcesCV(p)
    /\ wyslijWiadomosc(client, {Msg(p, EINTR, i) : i \in QueuesWith(p)}
                          \cup {Msg(p, EINTR, MAX_MUTEX + i) : i \in CvsWith(p)}, Idle)
    /\ UNCHANGED <<uzywany, numer, wlasciciel, life>>

\* Mutant: the mutexes of the process are not unlocked.
usunKeepingMutexes ==
    LET p == Head(async).proces IN
    /\ ReceivesAsync("CS_EXIT")
    /\ kolejka' = [i \in Slot |-> usunElement(kolejka[i], p)]
    /\ usunZakonczonyProcesCV(p)
    /\ wyslijWiadomosc(client, {}, Idle)
    /\ UNCHANGED <<uzywany, numer, wlasciciel, life>>

usunZakonczonyProces ==
    LET p == Head(async).proces
        J == {i \in Slot : uzywany[i] = 1 /\ wlasciciel[i] = p}
    IN
    /\ ReceivesAsync("CS_EXIT")
    /\ UnlockSlots(J)
    /\ kolejka' = [i \in Slot |-> usunElement(QueuesAfterUnlock(J)[i], p)]
    /\ usunZakonczonyProcesCV(p)
    /\ wyslijWiadomosc(client, Grants(J), Idle)
    /\ UNCHANGED life

-----------------------------------------------------------------------------
(***************************************************************************)
(* The environment: user processes, PM and the kernel.                     *)
(***************************************************************************)

\* A live process that is not in a call makes one (sendrec in send_message).
\* It counts a mutex as given up once it has asked to unlock it or to wait.
send_message(p, r) ==
    /\ life[p] = "alive"
    /\ client[p].at = "running"
    /\ client' = [client EXCEPT ![p] = [at |-> "sending", req |-> r, reply |-> OK]]
    /\ holds' = [holds EXCEPT ![p] =
                    IF r.typ \in {"CS_UNLOCK", "CS_WAIT"} THEN @ \ {r.mutex} ELSE @]
    /\ UNCHANGED <<tables, server, life, async>>

\* asynsend3 to the server: the message joins those it has not received.
tell_cv(p, signal) ==
    /\ Len(async) < ASYN_NR
    /\ async' = Append(async, [typ |-> signal, proces |-> p])

\* unpause: PM has stopped p for a signal.  sys_delay_stop refuses a process
\* that is still sending, so that one is told about only after its message
\* has been received.
PmSignal(p) ==
    /\ life[p] = "alive"
    /\ client[p].at # "sending"
    /\ tell_cv(p, "CS_EINTR")
    /\ UNCHANGED <<tables, server, client, life, holds>>

\* exit_proc: p is stopped for good, whatever it was doing.
PmExit(p) ==
    /\ life[p] = "alive"
    /\ tell_cv(p, "CS_EXIT")
    /\ life' = [life EXCEPT ![p] = "exiting"]
    /\ holds' = [holds EXCEPT ![p] = {}]
    /\ UNCHANGED <<tables, server, client>>

\* exit_restart: VFS is done with p; sys_clear takes it out of every queue of
\* the kernel, the caller queue of the server included.
PmClear(p) ==
    /\ life[p] = "exiting"
    /\ life' = [life EXCEPT ![p] = "dead"]
    /\ client' = [client EXCEPT ![p].at = IF @ = "sending" THEN "running" ELSE @]
    /\ UNCHANGED <<tables, server, holds, async>>

-----------------------------------------------------------------------------
obslugaWiadomosci(p) ==
    \/ HandleLock(p) \/ HandleLockPastTable(p)
    \/ cs_unlock(p) \/ UnlockRefused(p)
    \/ cs_wait(p) \/ WaitPastTable(p) \/ WaitRefused(p)
    \/ BroadcastNobody(p) \/ cs_broadcast(p)
    \/ BadType(p)

ServerLoop == BroadcastNext \/ BroadcastPastTable \/ BroadcastEnd
              \/ wyslijEINTR \/ usunZakonczonyProces

Next ==
    \/ \E p \in Proc : obslugaWiadomosci(p)
    \/ ServerLoop
    \/ \E p \in Proc : \E r \in Request : send_message(p, r)
    \/ \E p \in Proc : PmSignal(p) \/ PmExit(p) \/ PmClear(p)

Spec == Init /\ [][Next]_vars

-----------------------------------------------------------------------------
(***************************************************************************)
(* What the tables say about a process.                                    *)
(***************************************************************************)
UsedSlot   == {i \in Slot : uzywany[i] = 1}
UsedCvSlot == {i \in CvSlot : cvUzywany[i] = 1}

\* p is somewhere in the list of condition variable row i, or in the queue of
\* mutex row i.
Sleeps(p, i) == \E k \in 1 .. Len(cvProcesy[i]) : cvProcesy[i][k].proces = p
Queues(p, i) == \E k \in 1 .. Len(kolejka[i]) : kolejka[i][k] = p

\* Row i of M names p.
Names(i, p) == Queues(p, i) \/ (i \in UsedSlot /\ wlasciciel[i] = p)

\* PM's CS_EXIT for p has been received.
ExitHandled(p) ==
    /\ life[p] # "alive"
    /\ \A k \in 1 .. Len(async) : async[k] # [typ |-> "CS_EXIT", proces |-> p]

-----------------------------------------------------------------------------
(***************************************************************************)
(* Properties.                                                             *)
(***************************************************************************)

\* Every variable has its type; the server's tables never hold anything but
\* endpoints and numbers that came in a message.
TypeOK ==
    /\ uzywany \in [Slot -> {0, 1}]
    /\ numer \in [Slot -> Mutex \cup {Zero}]
    /\ wlasciciel \in [Slot -> Proc \cup {Zero}]
    /\ kolejka \in [Slot -> Seq(Proc)]
    /\ cvUzywany \in [CvSlot -> {0, 1}]
    /\ cvNumer \in [CvSlot -> CondVar \cup {Zero}]
    /\ cvProcesy \in [CvSlot -> Seq(Waiter)]
    /\ server \in [at : ServerPlace, original : Proc \cup {Zero}, i : CvSlot \cup {-1}]
    /\ client \in [Proc -> [at : {"running", "sending", "receiving"},
                            req : Request \cup {NoRequest}, reply : Int]]
    /\ life \in [Proc -> {"alive", "exiting", "dead"}]
    /\ holds \in [Proc -> SUBSET Mutex]
    /\ async \in Seq(Async)

\* No two processes are ever both told that they hold the same mutex: between
\* the OK answer to cs_lock or cs_wait and its next unlock, wait or exit, a
\* process is the only holder, whatever signals and exits come in between.
MutualExclusion ==
    \A p, q \in Proc : p # q => holds[p] \cap holds[q] = {}

\* What a process believes the server knows: M records it as the owner, so
\* that its unlock is accepted and its exit releases the mutex.
HoldersAreOwners ==
    \A p \in Proc : \A m \in holds[p] :
        \E i \in UsedSlot : numer[i] = m /\ wlasciciel[i] = p

\* The server never counts a live process as the owner of a mutex the process
\* does not know it has: every row in use belongs to a process that was told
\* so, is just giving the mutex back, or is dead.  So no row of M is lost to a
\* hand-over, a broadcast, a signal or an exit, and the table overflows only
\* while MAX_MUTEX mutexes are really held or were left by the dead.
OwnersAreHolders ==
    \A i \in UsedSlot :
        LET p == wlasciciel[i] IN
        \/ numer[i] \in holds[p]
        \/ /\ client[p].at = "sending"
           /\ client[p].req.typ \in {"CS_UNLOCK", "CS_WAIT"}
           /\ client[p].req.mutex = numer[i]
        \/ life[p] # "alive"

\* "proces jest maks raz w kolejce" (the comment in usunZakonczonyProces): a
\* process is in at most one place of all the queues and lists together.  The
\* loops that stop at the first entry, and the answers, depend on it.
WaitsOnce ==
    /\ \A i, j \in Slot : \A k \in 1 .. Len(kolejka[i]) : \A l \in 1 .. Len(kolejka[j]) :
         kolejka[i][k] = kolejka[j][l] => i = j /\ k = l
    /\ \A i, j \in UsedCvSlot :
         \A k \in 1 .. Len(cvProcesy[i]) : \A l \in 1 .. Len(cvProcesy[j]) :
            cvProcesy[i][k].proces = cvProcesy[j][l].proces => i = j /\ k = l
    /\ \A i \in Slot : \A k \in 1 .. Len(kolejka[i]) : \A j \in UsedCvSlot :
         ~Sleeps(kolejka[i][k], j)

\* The blocking send of wyslijWiadomosc never finds its target not receiving,
\* so no call, signal or exit can hang the server.
NeverStuck == server.at # "stuck"

\* A live process blocked in a call is known to the server: it waits in the
\* queue of the very mutex, or in the list of the very condition variable and
\* with the very mutex, it called for, or its broadcast is being done.  No
\* waiter is forgotten by a hand-over, a broadcast or somebody else's exit.
Accounted(p) ==
    \/ \E i \in UsedSlot : Queues(p, i) /\ numer[i] = client[p].req.mutex
    \/ \E i \in UsedCvSlot :
         /\ cvNumer[i] = client[p].req.cv
         /\ \E k \in 1 .. Len(cvProcesy[i]) :
               cvProcesy[i][k] = [proces |-> p, muteks |-> client[p].req.mutex]
    \/ server.at = "broadcast" /\ server.original = p
NoLostProcess ==
    server.at \in {"receive", "broadcast"} =>
        \A p \in Proc : life[p] = "alive" /\ client[p].at = "receiving" => Accounted(p)

\* The tables have no two rows for one number, no queue behind a free row and
\* no used condition variable without a waiter: the searches by number, which
\* take the first hit, find all there is.
TablesCoherent ==
    /\ \A i, j \in UsedSlot : numer[i] = numer[j] => i = j
    /\ \A i, j \in UsedCvSlot : cvNumer[i] = cvNumer[j] => i = j
    /\ \A i \in Slot \ UsedSlot : kolejka[i] = <<>>
    /\ \A i \in UsedCvSlot :
         cvProcesy[i] = <<>> => server.at # "receive" /\ server.i = i

\* After its CS_EXIT has been handled, nothing of a process stays in the lists
\* of condition variables, and at most one mutex still names it, as owner or
\* in its queue (for a cs_lock that was already on its way to the server).
AtMostOneLeftover ==
    \A p \in Proc : ExitHandled(p) =>
        /\ \A i \in UsedCvSlot : ~Sleeps(p, i)
        /\ \A i, j \in Slot : Names(i, p) /\ Names(j, p) => i = j

\* The CV table overflows only while MAX_CV processes, and procesy[] only
\* while MAX_PROCESY processes, that have not exited sleep on condition
\* variables (NR_PROCS is 256, both limits are 512): signals, exits and
\* broadcasts give back every row and every place.
CvTableSuffices ==
    LET sleepers == {p \in Proc : ~ExitHandled(p) /\ \E i \in UsedCvSlot : Sleeps(p, i)} IN
    /\ server.at = "pastCV" => Cardinality(sleepers) >= MAX_CV
    /\ server.at = "pastProcesy" => Cardinality(sleepers) >= MAX_PROCESY

\* The comment at the head of usunZakonczonyProces says the tables are cleaned
\* of a process because it is gone: once its CS_EXIT has been handled no row
\* names it.  It does not hold (see the run exited).
ExitedLeaveNothing ==
    \A p \in Proc : ExitHandled(p) =>
        (\A i \in Slot : ~Names(i, p)) /\ (\A i \in UsedCvSlot : ~Sleeps(p, i))

-----------------------------------------------------------------------------
(***************************************************************************)
(* The inductive invariant behind the theorems of CvServerProofs.          *)
(***************************************************************************)
DistinctNumbers ==
    /\ \A i, j \in UsedSlot : numer[i] = numer[j] => i = j
    /\ \A i, j \in UsedCvSlot : cvNumer[i] = cvNumer[j] => i = j

FreeRowsEmpty == \A i \in Slot : uzywany[i] = 0 => kolejka[i] = <<>>

\* Who is in a queue or a list is blocked in the call that put it there.
EntriesBlocked ==
    /\ \A i \in Slot : \A k \in 1 .. Len(kolejka[i]) :
         LET c == client[kolejka[i][k]] IN
         /\ c.at = "receiving" /\ c.req.typ \in {"CS_LOCK", "CS_WAIT"}
         /\ c.req.mutex = numer[i]
    /\ \A i \in UsedCvSlot : \A k \in 1 .. Len(cvProcesy[i]) :
         LET c == client[cvProcesy[i][k].proces] IN
         /\ c.at = "receiving" /\ c.req.typ = "CS_WAIT"
         /\ c.req.mutex = cvProcesy[i][k].muteks /\ c.req.cv = cvNumer[i]

ExitsAreDead ==
    /\ \A k \in 1 .. Len(async) : async[k].typ = "CS_EXIT" => life[async[k].proces] # "alive"
    /\ \A p \in Proc : life[p] # "alive" => holds[p] = {}

\* A process whose unlock or wait is on its way no longer counts on the mutex.
GaveUp ==
    \A p \in Proc :
        client[p].at = "sending" /\ client[p].req.typ \in {"CS_UNLOCK", "CS_WAIT"} =>
            client[p].req.mutex \notin holds[p]

BroadcastState ==
    /\ server.at = "receive" => server.i = -1
    /\ server.at = "broadcast" =>
         /\ server.original \in Proc /\ server.i \in UsedCvSlot
         /\ client[server.original].at = "receiving"
         /\ client[server.original].req.typ = "CS_BROADCAST"

IInv ==
    /\ TypeOK /\ DistinctNumbers /\ FreeRowsEmpty /\ WaitsOnce /\ EntriesBlocked
    /\ HoldersAreOwners /\ ExitsAreDead /\ GaveUp /\ BroadcastState /\ NeverStuck
    /\ NoLostProcess

-----------------------------------------------------------------------------
(***************************************************************************)
(* What CvTablesProofs adds to it: who owns the rows of M, what the dead   *)
(* leave in them, and how full the tables are when they overflow.          *)
(***************************************************************************)
OwnersAreProcesses == \A i \in UsedSlot : wlasciciel[i] \in Proc

\* cs_lock queues nobody behind itself, and cs_wait gives the mutex up.
OwnersDoNotWait ==
    /\ \A i \in UsedSlot : \A k \in 1 .. Len(kolejka[i]) : kolejka[i][k] # wlasciciel[i]
    /\ \A i \in UsedCvSlot : \A k \in 1 .. Len(cvProcesy[i]) : \A j \in UsedSlot :
         numer[j] = cvProcesy[i][k].muteks => wlasciciel[j] # cvProcesy[i][k].proces

\* Only the row a broadcast is at may be in use without a waiter.
ListsInUse ==
    \A i \in UsedCvSlot : cvProcesy[i] = <<>> => server.at # "receive" /\ server.i = i

\* Until the last request of an exited process is received no row names it.
LastRequest ==
    \A p \in Proc : ExitHandled(p) /\ client[p].at = "sending" =>
        \A i \in Slot : ~Names(i, p)

TablesFull ==
    /\ server.at \in {"pastCV", "pastProcesy"} => server.i = -1
    /\ server.at = "pastCV" => \A i \in CvSlot : cvUzywany[i] = 1
    /\ server.at = "pastProcesy" =>
         \E i \in UsedCvSlot : Len(cvProcesy[i]) >= MAX_PROCESY

JInv ==
    /\ OwnersAreProcesses /\ OwnersAreHolders /\ OwnersDoNotWait /\ ListsInUse
    /\ LastRequest /\ AtMostOneLeftover /\ TablesFull

=============================================================================
