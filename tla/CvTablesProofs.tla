--------------------------- MODULE CvTablesProofs ---------------------------
(***************************************************************************)
(* More about the rows of the server's tables, for any constants: who owns *)
(* them, what an exited process leaves in them, and how full they are when *)
(* the server runs past their end.  IInv is an invariant already           *)
(* (CvServerProofs); JInv is shown to be inductive together with it.       *)
(***************************************************************************)
EXTENDS CvServerProofs, FiniteSetTheorems

-----------------------------------------------------------------------------
(***************************************************************************)
(* Shapes of steps.                                                        *)
(***************************************************************************)

\* Whoever is answered, holdings only grow while messages are sent; an OK
\* answer to a live process that called for a mutex gives it the mutex.
LEMMA Answered ==
    ASSUME TypeOK, NeverStuck', NEW k, NEW msgs, NEW next, wyslijWiadomosc(k, msgs, next)
    PROVE  /\ server' = next
           /\ \A q \in Proc : holds[q] \subseteq holds'[q]
           /\ \A q \in Proc : client'[q] = k[q] \/ client'[q].at = "running"
           /\ \A q \in Proc : k[q].at # "receiving" => client'[q] = k[q]
           /\ \A n \in msgs : /\ n.do \in Proc /\ n.typ = OK /\ life[n.do] = "alive"
                              /\ k[n.do].at = "receiving"
                              /\ k[n.do].req.typ \in {"CS_LOCK", "CS_WAIT"}
                              => k[n.do].req.mutex \in holds'[n.do]
<1>1. server' = next
  BY DEF wyslijWiadomosc, NeverStuck, TypeOK
<1>2. \A q \in Proc : holds'[q] = holds[q] \cup Acquires(k, msgs, q)
  BY DEF wyslijWiadomosc
<1>3. \A q \in Proc : IF Delivered(k, msgs, q) = {} THEN client'[q] = k[q]
                      ELSE client'[q].at = "running"
  BY DEF wyslijWiadomosc
<1>4. \A q \in Proc : k[q].at # "receiving" => Delivered(k, msgs, q) = {}
  BY DEF Delivered
<1>5. ASSUME NEW n \in msgs, n.do \in Proc, n.typ = OK, life[n.do] = "alive",
             k[n.do].at = "receiving", k[n.do].req.typ \in {"CS_LOCK", "CS_WAIT"}
      PROVE  k[n.do].req.mutex \in Acquires(k, msgs, n.do)
  BY <1>5 DEF Acquires, Delivered
<1> QED BY <1>1, <1>2, <1>3, <1>4, <1>5

\* The rows of M are only released, or, those in H, handed to the first in
\* their queue, and the queues only lose processes.
Shrinks(H) ==
    /\ \A i \in Slot : uzywany'[i] = 1 =>
         /\ uzywany[i] = 1 /\ numer'[i] = numer[i]
         /\ i \notin H => wlasciciel'[i] = wlasciciel[i]
         /\ i \in H => 1 \in 1 .. Len(kolejka[i]) /\ wlasciciel'[i] = kolejka[i][1]
    /\ \A i \in Slot : \A x \in 1 .. Len(kolejka'[i]) :
         \E y \in 1 .. Len(kolejka[i]) : kolejka'[i][x] = kolejka[i][y] /\ (i \in H => y # 1)

\* Such a step makes no row name a process it did not name, makes nobody the
\* owner of a row it still queues for, and gives rows to nobody but the first
\* of their queues.
LEMMA ShrinkingRows ==
    ASSUME IInv, JInv, NEW H, Shrinks(H)
    PROVE  /\ OwnersAreProcesses'
           /\ \A i \in Slot : \A q : Names(i, q)' => Names(i, q)
           /\ \A i \in UsedSlot' : \A x \in 1 .. Len(kolejka'[i]) : kolejka'[i][x] # wlasciciel'[i]
           /\ \A j \in UsedSlot' :
                /\ j \in UsedSlot /\ numer'[j] = numer[j]
                /\ \/ wlasciciel'[j] = wlasciciel[j]
                   \/ Queues(wlasciciel'[j], j)
<1>1. TypeOK /\ WaitsOnce /\ OwnersAreProcesses /\ OwnersDoNotWait
  BY DEF IInv, JInv
<1>2. \A i \in UsedSlot' : i \in Slot /\ i \in UsedSlot /\ numer'[i] = numer[i]
  BY DEF Shrinks, UsedSlot
<1>3. \A i \in UsedSlot' : i \in H => 1 \in 1 .. Len(kolejka[i]) /\ wlasciciel'[i] = kolejka[i][1]
  BY DEF Shrinks, UsedSlot
<1>4. \A i \in UsedSlot' : i \notin H => wlasciciel'[i] = wlasciciel[i]
  BY DEF Shrinks, UsedSlot
<1>5. \A i \in Slot : \A x \in 1 .. Len(kolejka'[i]) :
         \E y \in 1 .. Len(kolejka[i]) : kolejka'[i][x] = kolejka[i][y] /\ (i \in H => y # 1)
  BY DEF Shrinks
<1>6. \A j \in UsedSlot' : wlasciciel'[j] = wlasciciel[j] \/ Queues(wlasciciel'[j], j)
  BY <1>3, <1>4 DEF Queues
<1>7. OwnersAreProcesses'
  BY <1>1, <1>2, <1>3, <1>4, EntryTypes DEF OwnersAreProcesses
<1>8. \A i \in Slot : \A q : Names(i, q)' => Names(i, q)
  <2> SUFFICES ASSUME NEW i \in Slot, NEW q, Names(i, q)' PROVE Names(i, q)
    OBVIOUS
  <2>1. CASE Queues(q, i)'
    BY <1>5, <2>1 DEF Names, Queues
  <2>2. CASE i \in UsedSlot' /\ wlasciciel'[i] = q
    BY <1>2, <1>6, <2>2 DEF Names
  <2> QED BY <2>1, <2>2 DEF Names
<1>9. \A i \in UsedSlot' : \A x \in 1 .. Len(kolejka'[i]) : kolejka'[i][x] # wlasciciel'[i]
  <2> SUFFICES ASSUME NEW i \in UsedSlot', NEW x \in 1 .. Len(kolejka'[i])
               PROVE  kolejka'[i][x] # wlasciciel'[i]
    OBVIOUS
  <2>1. PICK y \in 1 .. Len(kolejka[i]) : kolejka'[i][x] = kolejka[i][y] /\ (i \in H => y # 1)
    BY <1>2, <1>5
  <2>2. CASE i \in H
    <3>1. 1 \in 1 .. Len(kolejka[i]) /\ wlasciciel'[i] = kolejka[i][1] /\ y # 1 /\ i \in Slot
      BY <1>2, <1>3, <2>1, <2>2
    <3> QED BY <1>1, <2>1, <3>1 DEF WaitsOnce
  <2>3. CASE i \notin H
    BY <1>1, <1>2, <1>4, <2>1, <2>3 DEF OwnersDoNotWait
  <2> QED BY <2>2, <2>3
<1> QED BY <1>2, <1>6, <1>7, <1>8, <1>9

\* An entry of a list after a step: an old one, or one of a process that lives
\* on and does not own the mutex it gave up.
OldEntry(e) == \E j \in UsedCvSlot : \E x \in 1 .. Len(cvProcesy[j]) : e = cvProcesy[j][x]
NewEntry(q, m) ==
    /\ ~ExitHandled(q)'
    /\ \A j \in UsedSlot' : numer'[j] = m => wlasciciel'[j] # q

\* Whose exit has been handled after the step: it had been before, and a
\* request still on its way was on its way before; or nothing of it is left.
ExitedBefore(q) == ExitHandled(q) /\ (client'[q].at = "sending" => client[q].at = "sending")
NothingLeft(q) == (\A i \in Slot : ~Names(i, q)') /\ (\A i \in UsedCvSlot' : ~Sleeps(q, i)')

\* A step of this shape that keeps the other parts keeps JInv.
LEMMA ShrinkingStep ==
    ASSUME IInv, JInv, IInv', NEW H, Shrinks(H),
           \A i \in UsedCvSlot' : \A y \in 1 .. Len(cvProcesy'[i]) :
              \/ OldEntry(cvProcesy'[i][y])
              \/ \E q, m : cvProcesy'[i][y] = [proces |-> q, muteks |-> m] /\ NewEntry(q, m),
           \A q \in Proc : ExitHandled(q)' => ExitedBefore(q) \/ NothingLeft(q),
           OwnersAreHolders', ListsInUse', TablesFull'
    PROVE  JInv'
<1>1. /\ OwnersAreProcesses'
      /\ \A i \in Slot : \A q : Names(i, q)' => Names(i, q)
      /\ \A i \in UsedSlot' : \A x \in 1 .. Len(kolejka'[i]) : kolejka'[i][x] # wlasciciel'[i]
      /\ \A j \in UsedSlot' :
           /\ j \in UsedSlot /\ numer'[j] = numer[j]
           /\ \/ wlasciciel'[j] = wlasciciel[j]
              \/ Queues(wlasciciel'[j], j)
  BY ShrinkingRows
<1>2. OwnersDoNotWait /\ LastRequest /\ AtMostOneLeftover /\ WaitsOnce
  BY DEF IInv, JInv
<1>3. \A i \in UsedCvSlot' : \A y \in 1 .. Len(cvProcesy'[i]) : \A j \in UsedSlot' :
         numer'[j] = cvProcesy'[i][y].muteks => wlasciciel'[j] # cvProcesy'[i][y].proces
  <2> SUFFICES ASSUME NEW i \in UsedCvSlot', NEW y \in 1 .. Len(cvProcesy'[i]),
                      NEW j \in UsedSlot', numer'[j] = cvProcesy'[i][y].muteks
               PROVE  wlasciciel'[j] # cvProcesy'[i][y].proces
    OBVIOUS
  <2>a. CASE \E q, m : cvProcesy'[i][y] = [proces |-> q, muteks |-> m] /\ NewEntry(q, m)
    <3>1. PICK q, m : cvProcesy'[i][y] = [proces |-> q, muteks |-> m] /\ NewEntry(q, m)
      BY <2>a
    <3>2. cvProcesy'[i][y].proces = q /\ cvProcesy'[i][y].muteks = m
      BY <3>1
    <3> QED BY <3>1, <3>2 DEF NewEntry
  <2> SUFFICES ASSUME OldEntry(cvProcesy'[i][y])
               PROVE  wlasciciel'[j] # cvProcesy'[i][y].proces
    BY <2>a
  <2>0. PICK a \in UsedCvSlot : \E x \in 1 .. Len(cvProcesy[a]) : cvProcesy'[i][y] = cvProcesy[a][x]
    BY DEF OldEntry
  <2>1. PICK x \in 1 .. Len(cvProcesy[a]) : cvProcesy'[i][y] = cvProcesy[a][x]
    BY <2>0
  <2>2. wlasciciel[j] # cvProcesy[a][x].proces
    BY <1>1, <1>2, <2>1 DEF OwnersDoNotWait
  <2>3. ~Queues(cvProcesy[a][x].proces, j)
    <3>1. j \in Slot
      BY <1>1 DEF UsedSlot
    <3> QED BY <1>2, <3>1 DEF WaitsOnce, Queues, Sleeps
  <2> QED BY <1>1, <2>1, <2>2, <2>3
<1>4. OwnersDoNotWait'
  BY <1>1, <1>3 DEF OwnersDoNotWait
<1>5. LastRequest'
  BY <1>1, <1>2 DEF LastRequest, ExitedBefore, NothingLeft
<1>6. ASSUME NEW p \in Proc, ExitHandled(p)'
      PROVE  /\ \A i \in UsedCvSlot' : ~Sleeps(p, i)'
             /\ \A i, j \in Slot : Names(i, p)' /\ Names(j, p)' => i = j
  <2>1. CASE NothingLeft(p)
    BY <2>1 DEF NothingLeft
  <2>2. CASE ExitedBefore(p)
    <3>1. /\ \A i \in UsedCvSlot : ~Sleeps(p, i)
          /\ \A i, j \in Slot : Names(i, p) /\ Names(j, p) => i = j
      BY <1>2, <2>2 DEF ExitedBefore, AtMostOneLeftover
    <3>2. ASSUME NEW i \in UsedCvSlot', NEW y \in 1 .. Len(cvProcesy'[i]),
                 cvProcesy'[i][y].proces = p
          PROVE  FALSE
      <4>1. OldEntry(cvProcesy'[i][y])
        <5> SUFFICES ASSUME NEW q, NEW m, cvProcesy'[i][y] = [proces |-> q, muteks |-> m],
                            NewEntry(q, m)
                     PROVE  FALSE
          OBVIOUS
        <5>1. q = p
          BY <3>2
        <5>2. ~ExitHandled(p)'
          BY <5>1 DEF NewEntry
        <5> QED BY <1>6, <5>2
      <4> QED BY <3>1, <3>2, <4>1 DEF OldEntry, Sleeps
    <3> QED BY <1>1, <3>1, <3>2 DEF Sleeps
  <2> QED BY <1>6, <2>1, <2>2
<1>7. AtMostOneLeftover'
  BY <1>6 DEF AtMostOneLeftover
<1> QED BY <1>1, <1>4, <1>5, <1>7 DEF JInv

-----------------------------------------------------------------------------
(***************************************************************************)
(* Steps that leave M and the lists as they are.                           *)
(***************************************************************************)

\* Nothing in M or in a list changes, and no row of CV comes into use.
Quiet ==
    /\ UNCHANGED <<uzywany, numer, wlasciciel, kolejka, cvProcesy>>
    /\ \A i \in CvSlot : cvUzywany'[i] = 1 => cvUzywany[i] = 1

\* Such a step that keeps the other parts keeps JInv.
LEMMA QuietStep ==
    ASSUME IInv, JInv, IInv', Quiet,
           \A q \in Proc : ExitHandled(q)' => ExitedBefore(q),
           OwnersAreHolders', ListsInUse', TablesFull'
    PROVE  JInv'
<1>1. PICK H : H = {}
  OBVIOUS
<1>2. Shrinks(H)
  BY <1>1 DEF Shrinks, Quiet
<1>3. \A i \in UsedCvSlot' : \A y \in 1 .. Len(cvProcesy'[i]) : OldEntry(cvProcesy'[i][y])
  BY DEF OldEntry, Quiet, UsedCvSlot
<1> QED BY <1>2, <1>3, ShrinkingStep

\* The owner of a used row is found by Owns.
LEMMA OwnerFound ==
    ASSUME IInv, NEW i \in UsedSlot
    PROVE  indeksUzywanegoMutexa(numer[i]) = i /\ Owns(wlasciciel[i], numer[i])
<1>1. i \in Slot /\ uzywany[i] = 1
  BY DEF UsedSlot
<1> DEFINE j == indeksUzywanegoMutexa(numer[i])
<1>2. /\ j # -1 => j \in Slot /\ uzywany[j] = 1 /\ numer[j] = numer[i]
      /\ j = -1 => \A l \in Slot : uzywany[l] = 1 => numer[l] # numer[i]
  BY IndexOfMutex DEF IInv
<1>3. j # -1
  BY <1>1, <1>2
<1>4. j = i
  BY <1>1, <1>2, <1>3 DEF IInv, DistinctNumbers, UsedSlot
<1> QED BY <1>3, <1>4 DEF Owns

\* ExitHandled looks at life and async only.
LEMMA ExitHandledKept ==
    ASSUME life' = life, async' = async
    PROVE  \A q : ExitHandled(q)' <=> ExitHandled(q)
BY DEF ExitHandled

\* With the server back in sef_receive every list in use has a waiter, and no
\* table is overrun.
LEMMA BackToReceive ==
    ASSUME IInv, JInv, server.at = "receive", server' = Idle, Quiet
    PROVE  ListsInUse' /\ TablesFull'
<1>1. \A i \in UsedCvSlot' : i \in UsedCvSlot
  BY DEF Quiet, UsedCvSlot
<1>2. \A i \in UsedCvSlot : cvProcesy[i] # <<>>
  BY DEF JInv, ListsInUse
<1>3. ListsInUse'
  BY <1>1, <1>2 DEF ListsInUse, Quiet
<1> QED BY <1>3 DEF TablesFull, Idle

\* The refusals, the answer to an unknown message and the broadcast nobody
\* waits for keep JInv.
LEMMA AnsweredKeeps ==
    ASSUME IInv, JInv, IInv', NEW p \in Proc,
           UnlockRefused(p) \/ WaitRefused(p) \/ BadType(p) \/ BroadcastNobody(p)
    PROVE  JInv'
<1>1. PICK typ, msgs :
        /\ Receives(p, typ)
        /\ typ \in {"CS_UNLOCK", "CS_WAIT"} => ~Owns(p, client[p].req.mutex)
        /\ wyslijWiadomosc(Received(p), msgs, Idle)
        /\ UNCHANGED <<tables, life, async>>
  <2>1. CASE UnlockRefused(p)
    BY <2>1 DEF UnlockRefused
  <2>2. CASE WaitRefused(p)
    BY <2>2 DEF WaitRefused
  <2>3. CASE BadType(p)
    BY <2>3 DEF BadType
  <2>4. CASE BroadcastNobody(p)
    BY <2>4 DEF BroadcastNobody
  <2> QED BY <2>1, <2>2, <2>3, <2>4
<1>2. /\ Received(p)[p].at = "receiving"
      /\ \A q \in Proc : q # p => Received(p)[q] = client[q]
      /\ client[p].at = "sending" /\ client[p].req.typ = typ
      /\ server.at = "receive"
  BY <1>1, ReceivedProperties
<1>3. TypeOK /\ NeverStuck'
  BY DEF IInv
<1>4. /\ server' = Idle
      /\ \A q \in Proc : holds[q] \subseteq holds'[q]
      /\ \A q \in Proc : client'[q] = Received(p)[q] \/ client'[q].at = "running"
      /\ \A q \in Proc : Received(p)[q].at # "receiving" => client'[q] = Received(p)[q]
  BY <1>1, <1>3, Answered
<1>5. Quiet
  BY <1>1 DEF Quiet, tables
<1>6. \A q \in Proc : ExitHandled(q)' => ExitedBefore(q)
  BY <1>1, <1>2, <1>4, ExitHandledKept DEF ExitedBefore
<1>7. OwnersAreHolders'
  <2> SUFFICES ASSUME NEW i \in UsedSlot, life[wlasciciel[i]] = "alive"
               PROVE  LET q == wlasciciel[i] IN
                      \/ numer[i] \in holds'[q]
                      \/ /\ client'[q].at = "sending"
                         /\ client'[q].req.typ \in {"CS_UNLOCK", "CS_WAIT"}
                         /\ client'[q].req.mutex = numer[i]
    BY <1>1, <1>5 DEF OwnersAreHolders, Quiet, UsedSlot
  <2> DEFINE q == wlasciciel[i]
  <2>1. q \in Proc
    BY DEF JInv, OwnersAreProcesses
  <2>2. CASE numer[i] \in holds[q]
    BY <1>4, <2>1, <2>2
  <2>3. CASE /\ client[q].at = "sending"
             /\ client[q].req.typ \in {"CS_UNLOCK", "CS_WAIT"}
             /\ client[q].req.mutex = numer[i]
    <3>1. q # p
      BY <1>1, <1>2, <2>3, OwnerFound
    <3>2. client'[q] = client[q]
      BY <1>2, <1>4, <2>1, <2>3, <3>1
    <3> QED BY <2>3, <3>2
  <2> QED BY <2>2, <2>3 DEF JInv, OwnersAreHolders
<1>8. ListsInUse' /\ TablesFull'
  BY <1>2, <1>4, <1>5, BackToReceive
<1> QED BY <1>5, <1>6, <1>7, <1>8, QuietStep

\* A step outside the server: the tables and the server stay.  Nobody comes
\* back to life; an owner keeps what it was told, or asks to give it back.
Outside ==
    /\ UNCHANGED <<uzywany, numer, wlasciciel, kolejka, cvUzywany, cvNumer, cvProcesy, server>>
    /\ \A q \in Proc : ExitHandled(q)' => ExitedBefore(q)
    /\ \A q \in Proc : life'[q] = "alive" =>
         /\ life[q] = "alive"
         /\ \A m \in holds[q] : \/ m \in holds'[q]
                                \/ /\ client'[q].at = "sending"
                                   /\ client'[q].req.typ \in {"CS_UNLOCK", "CS_WAIT"}
                                   /\ client'[q].req.mutex = m
         /\ client[q].at = "sending" => client'[q] = client[q]

\* Such a step keeps JInv.
LEMMA OutsideStep ==
    ASSUME IInv, JInv, IInv', Outside
    PROVE  JInv'
<1>1. Quiet
  BY DEF Outside, Quiet
<1>2. OwnersAreHolders'
  <2> SUFFICES ASSUME NEW i \in UsedSlot, life'[wlasciciel[i]] = "alive"
               PROVE  LET q == wlasciciel[i] IN
                      \/ numer[i] \in holds'[q]
                      \/ /\ client'[q].at = "sending"
                         /\ client'[q].req.typ \in {"CS_UNLOCK", "CS_WAIT"}
                         /\ client'[q].req.mutex = numer[i]
    BY <1>1 DEF OwnersAreHolders, Quiet, UsedSlot
  <2>1. wlasciciel[i] \in Proc
    BY DEF JInv, OwnersAreProcesses
  <2> QED BY <2>1 DEF JInv, OwnersAreHolders, Outside
<1>3. ListsInUse' /\ TablesFull'
  BY DEF JInv, ListsInUse, TablesFull, Outside, UsedCvSlot
<1> QED BY <1>1, <1>2, <1>3, QuietStep DEF Outside

\* A message of PM behind those already posted.
LEMMA Posted ==
    ASSUME TypeOK, NEW p \in Proc, NEW t, tell_cv(p, t)
    PROVE  /\ \A k \in 1 .. Len(async) : k \in 1 .. Len(async') /\ async'[k] = async[k]
           /\ \E k \in 1 .. Len(async') : async'[k] = [typ |-> t, proces |-> p]
<1>1. async \in Seq(Async)
  BY DEF TypeOK
<1>2. PICK a : a = [typ |-> t, proces |-> p]
  OBVIOUS
<1>3. async' = Append(async, a)
  BY <1>2 DEF tell_cv
<1>4. /\ Len(async) \in Nat /\ Len(async') = Len(async) + 1
      /\ \A k \in 1 .. Len(async) : async'[k] = async[k]
      /\ async'[Len(async) + 1] = a
  BY <1>1, <1>3
<1>5. Len(async) + 1 \in 1 .. Len(async')
  BY <1>4
<1> QED BY <1>2, <1>4, <1>5

\* Calls, signals, exits and sys_clear keep JInv.
LEMMA OutsideKeeps ==
    ASSUME IInv, JInv, IInv', NEW p \in Proc,
           \/ \E r \in Request : send_message(p, r)
           \/ PmSignal(p) \/ PmExit(p) \/ PmClear(p)
    PROVE  JInv'
<1>1. TypeOK
  BY DEF IInv
<1>c. \A q \in Proc : client[q] \in ClientType
  BY <1>1 DEF TypeOK, ClientType
<1>2. CASE \E r \in Request : send_message(p, r)
  <2>1. PICK r \in Request : send_message(p, r)
    BY <1>2
  <2>2. /\ life[p] = "alive" /\ client[p].at = "running"
        /\ client' = [client EXCEPT ![p] = [at |-> "sending", req |-> r, reply |-> OK]]
        /\ holds' = [holds EXCEPT ![p] =
                       IF r.typ \in {"CS_UNLOCK", "CS_WAIT"} THEN holds[p] \ {r.mutex} ELSE holds[p]]
        /\ UNCHANGED <<uzywany, numer, wlasciciel, kolejka, cvUzywany, cvNumer, cvProcesy,
                       server, life, async>>
    BY <2>1 DEF send_message, tables
  <2>3. \A q \in Proc : q # p => client'[q] = client[q] /\ holds'[q] = holds[q]
    BY <1>1, <2>2 DEF TypeOK
  <2>4. /\ client'[p] = [at |-> "sending", req |-> r, reply |-> OK]
        /\ holds'[p] = IF r.typ \in {"CS_UNLOCK", "CS_WAIT"} THEN holds[p] \ {r.mutex} ELSE holds[p]
    BY <1>1, <2>2 DEF TypeOK
  <2>5. \A q \in Proc : ExitHandled(q)' => ExitedBefore(q)
    BY <2>2, <2>3, ExitHandledKept DEF ExitedBefore, ExitHandled
  <2>6. Outside
    BY <2>2, <2>3, <2>4, <2>5 DEF Outside
  <2> QED BY <2>6, OutsideStep
<1>3. CASE PmSignal(p)
  <2>1. /\ UNCHANGED <<uzywany, numer, wlasciciel, kolejka, cvUzywany, cvNumer, cvProcesy,
                       server, client, life, holds>>
        /\ tell_cv(p, "CS_EINTR")
    BY <1>3 DEF PmSignal, tables
  <2>2. \A q \in Proc : ExitHandled(q)' => ExitHandled(q)
    BY <1>1, <2>1, Posted DEF ExitHandled
  <2>3. Outside
    BY <2>1, <2>2 DEF Outside, ExitedBefore
  <2> QED BY <2>3, OutsideStep
<1>4. CASE PmExit(p)
  <2>1. /\ UNCHANGED <<uzywany, numer, wlasciciel, kolejka, cvUzywany, cvNumer, cvProcesy,
                       server, client>>
        /\ tell_cv(p, "CS_EXIT")
        /\ life' = [life EXCEPT ![p] = "exiting"] /\ holds' = [holds EXCEPT ![p] = {}]
    BY <1>4 DEF PmExit, tables
  <2>2. \A q \in Proc : q # p => life'[q] = life[q] /\ holds'[q] = holds[q]
    BY <1>1, <2>1 DEF TypeOK
  <2>3. life'[p] = "exiting"
    BY <1>1, <2>1 DEF TypeOK
  <2>4. ~ExitHandled(p)'
    BY <1>1, <2>1, Posted DEF ExitHandled
  <2>5. \A q \in Proc : ExitHandled(q)' => ExitHandled(q)
    BY <1>1, <2>1, <2>2, <2>4, Posted DEF ExitHandled
  <2>6. Outside
    BY <2>1, <2>2, <2>3, <2>5 DEF Outside, ExitedBefore
  <2> QED BY <2>6, OutsideStep
<1>5. CASE PmClear(p)
  <2>1. /\ UNCHANGED <<uzywany, numer, wlasciciel, kolejka, cvUzywany, cvNumer, cvProcesy,
                       server, holds, async>>
        /\ life[p] = "exiting" /\ life' = [life EXCEPT ![p] = "dead"]
        /\ client' = [client EXCEPT ![p].at = IF client[p].at = "sending" THEN "running"
                                              ELSE client[p].at]
    BY <1>5 DEF PmClear, tables
  <2>2. \A q \in Proc : q # p => life'[q] = life[q] /\ client'[q] = client[q]
    BY <1>1, <2>1 DEF TypeOK
  <2>3. life'[p] = "dead" /\ client'[p].at # "sending"
    BY <1>1, <1>c, <2>1 DEF TypeOK, ClientType
  <2>4. \A q \in Proc : ExitHandled(q)' => ExitHandled(q)
    BY <2>1, <2>2 DEF ExitHandled
  <2>5. Outside
    BY <2>1, <2>2, <2>3, <2>4 DEF Outside, ExitedBefore
  <2> QED BY <2>5, OutsideStep
<1> QED BY <1>2, <1>3, <1>4, <1>5

\* A cs_lock or a broadcast that runs past the end of M, and the start of a
\* broadcast, keep JInv.
LEMMA ServerMovesKeeps ==
    ASSUME IInv, JInv, IInv',
           \/ \E p \in Proc : HandleLockPastTable(p) \/ cs_broadcast(p)
           \/ BroadcastPastTable
    PROVE  JInv'
<1>1. TypeOK
  BY DEF IInv
<1>2. /\ UNCHANGED <<uzywany, numer, wlasciciel, kolejka, cvUzywany, cvNumer, cvProcesy,
                     life, holds, async>>
      /\ \A q \in Proc : \/ client'[q] = client[q]
                         \/ /\ client[q].req.typ \in {"CS_LOCK", "CS_BROADCAST"}
                            /\ client'[q].at # "sending"
  <2>1. CASE BroadcastPastTable
    BY <2>1 DEF BroadcastPastTable, tables
  <2>2. ASSUME NEW p \in Proc, HandleLockPastTable(p) \/ cs_broadcast(p)
        PROVE  /\ UNCHANGED <<uzywany, numer, wlasciciel, kolejka, cvUzywany, cvNumer, cvProcesy,
                              life, holds, async>>
               /\ client' = Received(p)
               /\ \E typ \in {"CS_LOCK", "CS_BROADCAST"} : Receives(p, typ)
    BY <2>2 DEF HandleLockPastTable, cs_broadcast, tables
  <2>3. ASSUME NEW p \in Proc, HandleLockPastTable(p) \/ cs_broadcast(p)
        PROVE  \A q \in Proc : \/ client'[q] = client[q]
                               \/ /\ client[q].req.typ \in {"CS_LOCK", "CS_BROADCAST"}
                                  /\ client'[q].at # "sending"
    <3>1. PICK typ \in {"CS_LOCK", "CS_BROADCAST"} : Receives(p, typ)
      BY <2>2, <2>3
    <3>2. /\ Received(p)[p].at = "receiving"
          /\ \A q \in Proc : q # p => Received(p)[q] = client[q]
          /\ client[p].req.typ = typ
      BY <3>1, ReceivedProperties
    <3>3. client' = Received(p)
      BY <2>2, <2>3
    <3> QED BY <3>2, <3>3
  <2> QED BY <2>1, <2>2, <2>3
<1>3. Quiet
  BY <1>2 DEF Quiet
<1>4. \A q \in Proc : ExitHandled(q)' => ExitedBefore(q)
  BY <1>2, ExitHandledKept DEF ExitedBefore
<1>5. OwnersAreHolders'
  <2> SUFFICES ASSUME NEW i \in UsedSlot, life[wlasciciel[i]] = "alive"
               PROVE  LET q == wlasciciel[i] IN
                      \/ numer[i] \in holds[q]
                      \/ /\ client'[q].at = "sending"
                         /\ client'[q].req.typ \in {"CS_UNLOCK", "CS_WAIT"}
                         /\ client'[q].req.mutex = numer[i]
    BY <1>2 DEF OwnersAreHolders, UsedSlot
  <2>1. wlasciciel[i] \in Proc
    BY DEF JInv, OwnersAreProcesses
  <2> QED BY <1>2, <2>1 DEF JInv, OwnersAreHolders
<1>6. ListsInUse' /\ TablesFull'
  <2>1. UsedCvSlot' = UsedCvSlot /\ cvProcesy' = cvProcesy
    BY <1>2 DEF UsedCvSlot
  <2>2. ASSUME NEW p \in Proc, HandleLockPastTable(p) \/ cs_broadcast(p)
        PROVE  ListsInUse' /\ TablesFull'
    <3>1. server.at = "receive"
      BY <2>2 DEF HandleLockPastTable, cs_broadcast, Receives
    <3>2. \A i \in UsedCvSlot : cvProcesy[i] # <<>>
      BY <3>1 DEF JInv, ListsInUse
    <3>3. server'.at \in {"pastM", "broadcast"}
      BY <1>1, <2>2 DEF HandleLockPastTable, cs_broadcast, TypeOK
    <3> QED BY <2>1, <3>2, <3>3 DEF ListsInUse, TablesFull
  <2>3. CASE BroadcastPastTable
    <3>1. server'.at = "pastM" /\ server'.i = server.i
      BY <1>1, <2>3 DEF BroadcastPastTable, TypeOK
    <3> QED BY <2>1, <3>1 DEF JInv, ListsInUse, TablesFull
  <2> QED BY <2>2, <2>3
<1> QED BY <1>3, <1>4, <1>5, <1>6, QuietStep

\* The end of a broadcast keeps JInv: the row without waiters is marked free.
LEMMA BroadcastEndKeeps ==
    ASSUME IInv, JInv, IInv', BroadcastEnd
    PROVE  JInv'
<1>1. TypeOK /\ NeverStuck' /\ BroadcastState
  BY DEF IInv
<1>2. /\ server.at = "broadcast"
      /\ cvUzywany' = [cvUzywany EXCEPT ![server.i] = 0]
      /\ UNCHANGED <<uzywany, numer, wlasciciel, kolejka, cvProcesy, life, async>>
      /\ wyslijWiadomosc(client, Answer(server.original, OK), Idle)
  BY DEF BroadcastEnd, mutexVars
<1>3. /\ server' = Idle
      /\ \A q \in Proc : holds[q] \subseteq holds'[q]
      /\ \A q \in Proc : client'[q] = client[q] \/ client'[q].at = "running"
      /\ \A q \in Proc : client[q].at # "receiving" => client'[q] = client[q]
  BY <1>1, <1>2, Answered
<1>4. server.i \in CvSlot
  BY <1>1, <1>2 DEF BroadcastState, UsedCvSlot
<1>5. \A i \in UsedCvSlot' : i \in UsedCvSlot /\ i # server.i
  BY <1>1, <1>2, <1>4 DEF UsedCvSlot, TypeOK
<1>6. Quiet
  BY <1>2, <1>5 DEF Quiet, UsedCvSlot
<1>7. \A q \in Proc : ExitHandled(q)' => ExitedBefore(q)
  BY <1>2, <1>3, ExitHandledKept DEF ExitedBefore
<1>8. OwnersAreHolders'
  <2> SUFFICES ASSUME NEW i \in UsedSlot, life[wlasciciel[i]] = "alive"
               PROVE  LET q == wlasciciel[i] IN
                      \/ numer[i] \in holds'[q]
                      \/ /\ client'[q].at = "sending"
                         /\ client'[q].req.typ \in {"CS_UNLOCK", "CS_WAIT"}
                         /\ client'[q].req.mutex = numer[i]
    BY <1>2 DEF OwnersAreHolders, UsedSlot
  <2>1. wlasciciel[i] \in Proc
    BY DEF JInv, OwnersAreProcesses
  <2> QED BY <1>3, <2>1 DEF JInv, OwnersAreHolders
<1>9. ListsInUse' /\ TablesFull'
  BY <1>2, <1>3, <1>5 DEF JInv, ListsInUse, TablesFull, Idle
<1> QED BY <1>6, <1>7, <1>8, <1>9, QuietStep

-----------------------------------------------------------------------------
(***************************************************************************)
(* cs_lock and the turn of a broadcast.                                    *)
(***************************************************************************)

\* cs_lock takes a free row for p, or puts p at the end of the queue of a row
\* that is not its own; everything else stays.
LEMMA LockedRows ==
    ASSUME IInv, NEW p \in Proc, NEW m \in Mutex, ~LockOverflows(m), cs_lock(p, m)
    PROVE  /\ \A i \in UsedSlot' :
                \/ i \in UsedSlot /\ numer'[i] = numer[i] /\ wlasciciel'[i] = wlasciciel[i]
                \/ /\ i \in Slot /\ numer'[i] = m /\ wlasciciel'[i] = p /\ kolejka'[i] = <<>>
                   /\ LockResult(p, m) = OK
           /\ \A i \in Slot : \A x \in 1 .. Len(kolejka'[i]) :
                \/ x \in 1 .. Len(kolejka[i]) /\ kolejka'[i][x] = kolejka[i][x]
                \/ /\ kolejka'[i][x] = p /\ i \in UsedSlot /\ numer[i] = m /\ wlasciciel[i] # p
                   /\ wlasciciel'[i] = wlasciciel[i] /\ numer'[i] = numer[i]
<1> DEFINE i0 == indeksUzywanegoMutexa(m)
           f == freeMutex
<1>1. i0 # -1 => i0 \in Slot /\ uzywany[i0] = 1 /\ numer[i0] = m
  BY IndexOfMutex DEF IInv
<1>2. TypeOK /\ FreeRowsEmpty
  BY DEF IInv
<1>3. \A i \in Slot : kolejka[i] \in Seq(Proc) /\ Len(kolejka[i]) \in Nat
  BY <1>2 DEF TypeOK
<1>4. CASE i0 = -1
  <2>1. f \in Slot /\ uzywany[f] = 0
    BY <1>2, <1>4, FreeRows DEF LockOverflows
  <2>2. kolejka[f] = <<>>
    BY <1>2, <2>1 DEF FreeRowsEmpty
  <2>3. LockResult(p, m) = OK
    BY <1>4 DEF LockResult
  <2> HIDE DEF f
  <2>4. /\ numer' = [numer EXCEPT ![f] = m]
        /\ wlasciciel' = [wlasciciel EXCEPT ![f] = p]
        /\ uzywany' = [uzywany EXCEPT ![f] = 1]
        /\ kolejka' = kolejka
    BY <1>4 DEF cs_lock, f
  <2>5. \A i \in UsedSlot' :
           \/ i \in UsedSlot /\ numer'[i] = numer[i] /\ wlasciciel'[i] = wlasciciel[i]
           \/ i = f /\ numer'[i] = m /\ wlasciciel'[i] = p
    BY <1>2, <2>1, <2>4 DEF UsedSlot, TypeOK
  <2> QED BY <2>1, <2>2, <2>3, <2>4, <2>5
<1>5. CASE i0 # -1
  <2>1. /\ UNCHANGED <<uzywany, numer, wlasciciel>>
        /\ kolejka' = IF wlasciciel[i0] = p THEN kolejka
                      ELSE [kolejka EXCEPT ![i0] = Append(kolejka[i0], p)]
    BY <1>5 DEF cs_lock
  <2>2. i0 \in Slot /\ i0 \in UsedSlot /\ numer[i0] = m
    BY <1>1, <1>5 DEF UsedSlot
  <2> HIDE DEF i0
  <2>3. \A i \in Slot : \A x \in 1 .. Len(kolejka'[i]) :
           \/ x \in 1 .. Len(kolejka[i]) /\ kolejka'[i][x] = kolejka[i][x]
           \/ kolejka'[i][x] = p /\ i = i0 /\ wlasciciel[i0] # p
    <3>1. CASE wlasciciel[i0] = p
      BY <2>1, <3>1
    <3>2. CASE wlasciciel[i0] # p
      <4>1. /\ Len(kolejka'[i0]) = Len(kolejka[i0]) + 1
            /\ \A x \in 1 .. Len(kolejka[i0]) : kolejka'[i0][x] = kolejka[i0][x]
            /\ kolejka'[i0][Len(kolejka[i0]) + 1] = p
        BY <1>2, <1>3, <2>1, <2>2, <3>2 DEF TypeOK
      <4>2. \A i \in Slot : i # i0 => kolejka'[i] = kolejka[i]
        BY <1>2, <2>1, <3>2 DEF TypeOK
      <4> QED BY <1>3, <3>2, <4>1, <4>2
    <3> QED BY <3>1, <3>2
  <2> QED BY <2>1, <2>2, <2>3 DEF UsedSlot
<1> QED BY <1>4, <1>5

\* cs_lock for p as a step of the server: p is in no queue, is not sending
\* afterwards and was not giving anything back; an OK result tells it, if it
\* lives; whoever it was done for has no row when its exit has been handled.
Locks(p, m) ==
    /\ ~LockOverflows(m) /\ cs_lock(p, m) /\ life' = life /\ async' = async
    /\ client'[p].at # "sending"
    /\ client[p].at = "sending" => client[p].req.typ = "CS_LOCK"
    /\ \A q \in Proc : q # p => client'[q] = client[q]
    /\ \A q \in Proc : holds[q] \subseteq holds'[q]
    /\ LockResult(p, m) = OK /\ life[p] = "alive" => m \in holds'[p]
    /\ ExitHandled(p) => \A i \in Slot : ~Names(i, p)
    /\ \A i \in UsedCvSlot' : \A y \in 1 .. Len(cvProcesy'[i]) :
         cvProcesy'[i][y].proces # p /\ OldEntry(cvProcesy'[i][y])

\* Such a step that keeps the other parts keeps JInv.
LEMMA LockingStep ==
    ASSUME IInv, JInv, IInv', NEW p \in Proc, NEW m \in Mutex, Locks(p, m),
           ListsInUse', TablesFull'
    PROVE  JInv'
<1>1. TypeOK /\ WaitsOnce /\ OwnersAreProcesses /\ OwnersAreHolders /\ OwnersDoNotWait
      /\ LastRequest /\ AtMostOneLeftover /\ DistinctNumbers'
  BY DEF IInv, JInv
<1>2. /\ \A i \in UsedSlot' :
           \/ i \in UsedSlot /\ numer'[i] = numer[i] /\ wlasciciel'[i] = wlasciciel[i]
           \/ /\ i \in Slot /\ numer'[i] = m /\ wlasciciel'[i] = p /\ kolejka'[i] = <<>>
              /\ LockResult(p, m) = OK
      /\ \A i \in Slot : \A x \in 1 .. Len(kolejka'[i]) :
           \/ x \in 1 .. Len(kolejka[i]) /\ kolejka'[i][x] = kolejka[i][x]
           \/ /\ kolejka'[i][x] = p /\ i \in UsedSlot /\ numer[i] = m /\ wlasciciel[i] # p
              /\ wlasciciel'[i] = wlasciciel[i] /\ numer'[i] = numer[i]
  BY LockedRows DEF Locks
<1>3. OwnersAreProcesses'
  BY <1>1, <1>2 DEF OwnersAreProcesses
<1>4. OwnersAreHolders'
  <2> SUFFICES ASSUME NEW i \in UsedSlot', life[wlasciciel'[i]] = "alive"
               PROVE  LET q == wlasciciel'[i] IN
                      \/ numer'[i] \in holds'[q]
                      \/ /\ client'[q].at = "sending"
                         /\ client'[q].req.typ \in {"CS_UNLOCK", "CS_WAIT"}
                         /\ client'[q].req.mutex = numer'[i]
    BY DEF OwnersAreHolders, Locks
  <2>1. CASE i \in UsedSlot /\ numer'[i] = numer[i] /\ wlasciciel'[i] = wlasciciel[i]
    <3>1. wlasciciel[i] \in Proc
      BY <1>1, <2>1 DEF OwnersAreProcesses
    <3> QED BY <1>1, <2>1, <3>1 DEF OwnersAreHolders, Locks
  <2>2. CASE numer'[i] = m /\ wlasciciel'[i] = p /\ LockResult(p, m) = OK
    BY <2>2 DEF Locks
  <2> QED BY <1>2, <2>1, <2>2
<1>5. OwnersDoNotWait'
  <2>1. ASSUME NEW i \in UsedSlot', NEW x \in 1 .. Len(kolejka'[i])
        PROVE  kolejka'[i][x] # wlasciciel'[i]
    <3>1. i \in Slot /\ kolejka'[i] # <<>>
      BY <2>1 DEF UsedSlot
    <3>2. i \in UsedSlot /\ wlasciciel'[i] = wlasciciel[i]
      BY <1>2, <3>1
    <3> QED BY <1>1, <1>2, <3>1, <3>2 DEF OwnersDoNotWait
  <2>2. ASSUME NEW i \in UsedCvSlot', NEW y \in 1 .. Len(cvProcesy'[i]), NEW j \in UsedSlot',
               numer'[j] = cvProcesy'[i][y].muteks
        PROVE  wlasciciel'[j] # cvProcesy'[i][y].proces
    <3>0. cvProcesy'[i][y].proces # p /\ OldEntry(cvProcesy'[i][y])
      BY DEF Locks
    <3>1. PICK a \in UsedCvSlot : \E x \in 1 .. Len(cvProcesy[a]) : cvProcesy'[i][y] = cvProcesy[a][x]
      BY <3>0 DEF OldEntry
    <3>2. PICK x \in 1 .. Len(cvProcesy[a]) : cvProcesy'[i][y] = cvProcesy[a][x]
      BY <3>1
    <3> QED BY <1>1, <1>2, <2>2, <3>0, <3>2 DEF OwnersDoNotWait
  <2> QED BY <2>1, <2>2 DEF OwnersDoNotWait
<1>6. \A q : ExitHandled(q)' <=> ExitHandled(q)
  BY ExitHandledKept DEF Locks
<1>7. ASSUME NEW i \in Slot, NEW q, Names(i, q)'
      PROVE  Names(i, q) \/ (q = p /\ i \in UsedSlot' /\ numer'[i] = m)
  <2>1. CASE i \in UsedSlot' /\ wlasciciel'[i] = q
    BY <1>2, <2>1 DEF Names
  <2>2. CASE Queues(q, i)'
    <3>1. PICK x \in 1 .. Len(kolejka'[i]) : kolejka'[i][x] = q
      BY <2>2 DEF Queues
    <3>2. CASE x \in 1 .. Len(kolejka[i]) /\ kolejka'[i][x] = kolejka[i][x]
      BY <3>1, <3>2 DEF Names, Queues
    <3>3. CASE kolejka'[i][x] = p /\ i \in UsedSlot /\ numer[i] = m /\ numer'[i] = numer[i]
      <4>1. FreeRowsEmpty' /\ TypeOK'
        BY DEF IInv
      <4>2. i \in UsedSlot'
        BY <3>1, <4>1 DEF FreeRowsEmpty, TypeOK, UsedSlot
      <4> QED BY <3>1, <3>3, <4>2
    <3> QED BY <1>2, <3>2, <3>3
  <2> QED BY <1>7, <2>1, <2>2 DEF Names
<1>8. LastRequest'
  <2> SUFFICES ASSUME NEW q \in Proc, ExitHandled(q), client'[q].at = "sending",
                      NEW i \in Slot, Names(i, q)'
               PROVE  FALSE
    BY <1>6 DEF LastRequest
  <2>1. q # p /\ client'[q] = client[q]
    BY DEF Locks
  <2> QED BY <1>1, <1>7, <2>1 DEF LastRequest
<1>9. AtMostOneLeftover'
  <2> SUFFICES ASSUME NEW q \in Proc, ExitHandled(q)
               PROVE  /\ \A i \in UsedCvSlot' : ~Sleeps(q, i)'
                      /\ \A i, j \in Slot : Names(i, q)' /\ Names(j, q)' => i = j
    BY <1>6 DEF AtMostOneLeftover
  <2>1. ASSUME NEW i \in UsedCvSlot', Sleeps(q, i)'
        PROVE  FALSE
    <3>1. PICK y \in 1 .. Len(cvProcesy'[i]) : cvProcesy'[i][y].proces = q
      BY <2>1 DEF Sleeps
    <3>2. OldEntry(cvProcesy'[i][y])
      BY DEF Locks
    <3> QED BY <1>1, <3>1, <3>2 DEF AtMostOneLeftover, OldEntry, Sleeps
  <2>2. ASSUME NEW i \in Slot, NEW j \in Slot, Names(i, q)', Names(j, q)'
        PROVE  i = j
    <3>1. CASE q = p
      <4>1. i \in UsedSlot' /\ numer'[i] = m /\ j \in UsedSlot' /\ numer'[j] = m
        BY <1>7, <2>2, <3>1 DEF Locks
      <4> QED BY <1>1, <4>1 DEF DistinctNumbers
    <3>2. CASE q # p
      BY <1>1, <1>7, <2>2, <3>2 DEF AtMostOneLeftover
    <3> QED BY <3>1, <3>2
  <2> QED BY <2>1, <2>2
<1> QED BY <1>3, <1>4, <1>5, <1>8, <1>9 DEF JInv

\* A handled cs_lock keeps JInv.
LEMMA HandleLockKeeps ==
    ASSUME IInv, JInv, IInv', NEW p \in Proc, HandleLock(p)
    PROVE  JInv'
<1> DEFINE m == client[p].req.mutex
           k == Received(p)
           msgs == Answer(p, LockResult(p, m))
<1>1. /\ Receives(p, "CS_LOCK") /\ ~LockOverflows(m) /\ cs_lock(p, m)
      /\ wyslijWiadomosc(k, msgs, Idle)
      /\ UNCHANGED <<cvUzywany, cvNumer, cvProcesy, life, async>>
  BY DEF HandleLock, cvVars
<1>2. /\ k[p].at = "receiving" /\ k[p].req = client[p].req
      /\ \A q \in Proc : q # p => k[q] = client[q]
      /\ client[p].at = "sending" /\ client[p].req.typ = "CS_LOCK"
      /\ \A i \in Slot : \A j \in 1 .. Len(kolejka[i]) : kolejka[i][j] # p
      /\ \A i \in UsedCvSlot : \A j \in 1 .. Len(cvProcesy[i]) : cvProcesy[i][j].proces # p
      /\ server.at = "receive"
  BY <1>1, ReceivedProperties
<1>3. TypeOK /\ NeverStuck'
  BY DEF IInv
<1>4. m \in Mutex
  <2>1. client[p].req \in Request \cup {NoRequest}
    BY <1>3 DEF TypeOK
  <2> QED BY <1>2, <2>1, RequestFields
<1>5. \A n \in msgs : n.do = p
  BY DEF Answer, Msg
<1>6. LockResult(p, m) = OK => \E n \in msgs : n.do = p /\ n.typ = OK
  BY DEF Answer, Msg, OK, EDONTREPLY
<1> HIDE DEF k, msgs
<1>7. /\ server' = Idle
      /\ \A q \in Proc : holds[q] \subseteq holds'[q]
      /\ \A q \in Proc : client'[q] = k[q] \/ client'[q].at = "running"
      /\ \A n \in msgs : /\ n.do \in Proc /\ n.typ = OK /\ life[n.do] = "alive"
                         /\ k[n.do].at = "receiving"
                         /\ k[n.do].req.typ \in {"CS_LOCK", "CS_WAIT"}
                         => k[n.do].req.mutex \in holds'[n.do]
  BY <1>1, <1>3, Answered
<1>8. LockResult(p, m) = OK /\ life[p] = "alive" => m \in holds'[p]
  BY <1>2, <1>6, <1>7
<1>9. \A q \in Proc : q # p => client'[q] = client[q]
  <2>1. \A q \in Proc : q # p => Delivered(k, msgs, q) = {}
    BY <1>5 DEF Delivered
  <2> QED BY <1>1, <1>2, <2>1 DEF wyslijWiadomosc
<1>10. ExitHandled(p) => \A i \in Slot : ~Names(i, p)
  BY <1>2 DEF JInv, LastRequest
<1>11. \A i \in UsedCvSlot' : \A y \in 1 .. Len(cvProcesy'[i]) :
          cvProcesy'[i][y].proces # p /\ OldEntry(cvProcesy'[i][y])
  BY <1>1, <1>2 DEF OldEntry, UsedCvSlot
<1>12. client'[p].at # "sending"
  BY <1>2, <1>7
<1> HIDE DEF m
<1>13. Locks(p, m)
  BY <1>1, <1>2, <1>7, <1>8, <1>9, <1>10, <1>11, <1>12 DEF Locks
<1>14. ListsInUse' /\ TablesFull'
  BY <1>1, <1>2, <1>7 DEF JInv, ListsInUse, TablesFull, Idle, UsedCvSlot
<1> QED BY <1>4, <1>13, <1>14, LockingStep

\* Waking the next waiter of a broadcast keeps JInv.
LEMMA BroadcastNextKeeps ==
    ASSUME IInv, JInv, IInv', BroadcastNext
    PROVE  JInv'
<1> DEFINE b == server.i
           w == Head(cvProcesy[b])
           p == w.proces
           m == w.muteks
           res == LockResult(p, m)
           msgs == IF res = EDONTREPLY THEN {} ELSE {Msg(p, OK, MAX_MUTEX + b)}
<1>1. /\ server.at = "broadcast" /\ cvProcesy[b] # <<>> /\ ~LockOverflows(m) /\ cs_lock(p, m)
      /\ wyslijWiadomosc(client, msgs, server)
      /\ cvProcesy' = [cvProcesy EXCEPT ![b] = Tail(cvProcesy[b])]
      /\ cvUzywany' = cvUzywany /\ cvNumer' = cvNumer /\ life' = life /\ async' = async
  BY DEF BroadcastNext
<1>2. TypeOK /\ b \in UsedCvSlot /\ b \in CvSlot /\ NeverStuck'
  BY <1>1 DEF IInv, BroadcastState, UsedCvSlot
<1> HIDE DEF b
<1>3. /\ 1 \in 1 .. Len(cvProcesy[b]) /\ w = cvProcesy[b][1]
      /\ \A j \in CvSlot : \A y \in 1 .. Len(cvProcesy'[j]) :
           \E x \in 1 .. Len(cvProcesy[j]) :
              cvProcesy'[j][y] = cvProcesy[j][x] /\ x = IF j = b THEN y + 1 ELSE y
  BY <1>1, <1>2, TailTables
<1> HIDE DEF w
<1>4. /\ p \in Proc /\ m \in Mutex
      /\ client[p].at = "receiving" /\ client[p].req.typ = "CS_WAIT"
      /\ client[p].req.mutex = m
  BY <1>2, <1>3, EntryTypes DEF IInv, EntriesBlocked
<1>5. /\ Sleeps(p, b)
      /\ \A j \in UsedCvSlot : \A x \in 1 .. Len(cvProcesy[j]) :
           cvProcesy[j][x].proces = p => j = b /\ x = 1
  BY <1>2, <1>3 DEF IInv, WaitsOnce, Sleeps
<1> HIDE DEF p, m
<1>6. \A n \in msgs : n.do = p
  BY DEF Msg
<1>7. res = OK => \E n \in msgs : n.do = p /\ n.typ = OK
  BY DEF Msg, OK, EDONTREPLY
<1> HIDE DEF msgs, res
<1>8. /\ server' = server
      /\ \A q \in Proc : holds[q] \subseteq holds'[q]
      /\ \A q \in Proc : client'[q] = client[q] \/ client'[q].at = "running"
      /\ \A n \in msgs : /\ n.do \in Proc /\ n.typ = OK /\ life[n.do] = "alive"
                         /\ client[n.do].at = "receiving"
                         /\ client[n.do].req.typ \in {"CS_LOCK", "CS_WAIT"}
                         => client[n.do].req.mutex \in holds'[n.do]
  BY <1>1, <1>2, Answered
<1>9. res = OK /\ life[p] = "alive" => m \in holds'[p]
  BY <1>4, <1>7, <1>8
<1>10. \A q \in Proc : q # p => client'[q] = client[q]
  <2>1. \A q \in Proc : q # p => Delivered(client, msgs, q) = {}
    BY <1>6 DEF Delivered
  <2> QED BY <1>1, <2>1 DEF wyslijWiadomosc
<1>11. ~ExitHandled(p)
  BY <1>2, <1>4, <1>5 DEF JInv, AtMostOneLeftover
<1>12. \A i \in UsedCvSlot' : \A y \in 1 .. Len(cvProcesy'[i]) :
          cvProcesy'[i][y].proces # p /\ OldEntry(cvProcesy'[i][y])
  <2> SUFFICES ASSUME NEW i \in UsedCvSlot', NEW y \in 1 .. Len(cvProcesy'[i])
               PROVE  cvProcesy'[i][y].proces # p /\ OldEntry(cvProcesy'[i][y])
    OBVIOUS
  <2>1. i \in UsedCvSlot /\ i \in CvSlot
    BY <1>1 DEF UsedCvSlot
  <2>2. PICK x \in 1 .. Len(cvProcesy[i]) :
           cvProcesy'[i][y] = cvProcesy[i][x] /\ x = IF i = b THEN y + 1 ELSE y
    BY <1>3, <2>1
  <2>3. ~(i = b /\ x = 1)
    BY <2>2
  <2> QED BY <1>5, <2>1, <2>2, <2>3 DEF OldEntry
<1>13. client'[p].at # "sending"
  BY <1>4, <1>8
<1>14. Locks(p, m)
  BY <1>1, <1>4, <1>8, <1>9, <1>10, <1>11, <1>12, <1>13 DEF Locks, res
<1>15. ListsInUse' /\ TablesFull'
  <2>1. \A i \in UsedCvSlot' : i \in UsedCvSlot /\ (i # b => cvProcesy'[i] = cvProcesy[i])
    BY <1>1, <1>2 DEF UsedCvSlot, TypeOK
  <2> QED BY <1>1, <1>8, <2>1 DEF JInv, ListsInUse, TablesFull, b
<1> QED BY <1>4, <1>14, <1>15, LockingStep

-----------------------------------------------------------------------------
(***************************************************************************)
(* cs_unlock and cs_wait.                                                  *)
(***************************************************************************)

\* Releasing the rows of J, perhaps with more processes taken out of the
\* queues, is a step of the shape Shrinks.
LEMMA UnlockShrinks ==
    ASSUME IInv, NEW J \in SUBSET UsedSlot, UnlockSlots(J),
           \A i \in Slot : \A x \in 1 .. Len(kolejka'[i]) :
              \E y \in 1 .. Len(QueuesAfterUnlock(J)[i]) : kolejka'[i][x] = QueuesAfterUnlock(J)[i][y]
    PROVE  /\ Shrinks(HandedOver(J))
           /\ \A i \in UsedSlot' : i \in J => i \in HandedOver(J)
           /\ HandedOver(J) \subseteq J
<1> DEFINE Q == QueuesAfterUnlock(J)
           H == HandedOver(J)
<1>1. /\ numer' = numer
      /\ \A i \in Slot : uzywany'[i] = 1 => uzywany[i] = 1
      /\ \A i \in H : 1 \in 1 .. Len(kolejka[i]) /\ wlasciciel'[i] = kolejka[i][1]
      /\ \A i \in Slot : \A j \in 1 .. Len(Q[i]) :
           \E l \in 1 .. Len(kolejka[i]) :
              /\ Q[i][j] = kolejka[i][l]
              /\ l = IF i \in H THEN j + 1 ELSE j
  BY UnlockTables
<1>2. /\ uzywany' = [i \in Slot |-> IF i \in J \ H THEN 0 ELSE uzywany[i]]
      /\ wlasciciel' = [i \in Slot |-> IF i \in H THEN Head(kolejka[i]) ELSE wlasciciel[i]]
  BY DEF UnlockSlots
<1>3. H \subseteq J
  BY DEF HandedOver
<1> HIDE DEF Q, H
<1>4. \A i \in Slot : i \notin H => wlasciciel'[i] = wlasciciel[i]
  BY <1>2
<1>5. \A i \in UsedSlot' : i \in J => i \in H
  BY <1>2 DEF UsedSlot
<1>6. \A i \in Slot : \A j \in 1 .. Len(Q[i]) :
         \E l \in 1 .. Len(kolejka[i]) : Q[i][j] = kolejka[i][l] /\ (i \in H => l # 1)
  <2> SUFFICES ASSUME NEW i \in Slot, NEW j \in 1 .. Len(Q[i])
               PROVE  \E l \in 1 .. Len(kolejka[i]) : Q[i][j] = kolejka[i][l] /\ (i \in H => l # 1)
    OBVIOUS
  <2>1. PICK l \in 1 .. Len(kolejka[i]) : Q[i][j] = kolejka[i][l] /\ l = IF i \in H THEN j + 1 ELSE j
    BY <1>1
  <2>2. j \in Nat /\ j >= 1
    OBVIOUS
  <2> QED BY <2>1, <2>2
<1>7. \A i \in Slot : \A x \in 1 .. Len(kolejka'[i]) :
         \E y \in 1 .. Len(kolejka[i]) : kolejka'[i][x] = kolejka[i][y] /\ (i \in H => y # 1)
  <2> SUFFICES ASSUME NEW i \in Slot, NEW x \in 1 .. Len(kolejka'[i])
               PROVE  \E y \in 1 .. Len(kolejka[i]) :
                         kolejka'[i][x] = kolejka[i][y] /\ (i \in H => y # 1)
    OBVIOUS
  <2>1. PICK j \in 1 .. Len(Q[i]) : kolejka'[i][x] = Q[i][j]
    BY DEF Q
  <2> QED BY <1>6, <2>1
<1>8. Shrinks(H)
  BY <1>1, <1>4, <1>7 DEF Shrinks
<1> QED BY <1>3, <1>5, <1>8 DEF H

\* The rows p gives back, as the messages msgs find its call in k: p is as
\* before, or is in no queue and its unlock or wait is for a row in J.
GivesBack(p, J, k, msgs) ==
    /\ UnlockSlots(J) /\ Grants(J) \subseteq msgs /\ life' = life
    /\ \A q \in Proc : q # p => k[q] = client[q]
    /\ \/ k[p] = client[p]
       \/ /\ k[p].at = "receiving"
          /\ \A i \in Slot : \A l \in 1 .. Len(kolejka[i]) : kolejka[i][l] # p
          /\ \A i \in UsedSlot : wlasciciel[i] = p /\ numer[i] = client[p].req.mutex => i \in J

\* After the grants every owner knows: the new ones are told, the others are
\* not affected.
LEMMA NewOwnersTold ==
    ASSUME IInv, JInv, IInv', NEW p \in Proc, NEW J \in SUBSET UsedSlot, NEW k, NEW msgs, NEW next,
           GivesBack(p, J, k, msgs), wyslijWiadomosc(k, msgs, next), Shrinks(HandedOver(J)),
           \A i \in UsedSlot' : i \in J => i \in HandedOver(J)
    PROVE  /\ OwnersAreHolders'
           /\ server' = next
           /\ \A q \in Proc : client'[q].at = "sending" => client[q].at = "sending"
<1> DEFINE H == HandedOver(J)
<1>1. TypeOK /\ NeverStuck' /\ OwnersAreProcesses /\ OwnersAreHolders
  BY DEF IInv, JInv
<1>2. /\ server' = next
      /\ \A q \in Proc : holds[q] \subseteq holds'[q]
      /\ \A q \in Proc : client'[q] = k[q] \/ client'[q].at = "running"
      /\ \A q \in Proc : k[q].at # "receiving" => client'[q] = k[q]
      /\ \A n \in msgs : /\ n.do \in Proc /\ n.typ = OK /\ life[n.do] = "alive"
                         /\ k[n.do].at = "receiving"
                         /\ k[n.do].req.typ \in {"CS_LOCK", "CS_WAIT"}
                         => k[n.do].req.mutex \in holds'[n.do]
  BY <1>1, Answered
<1>3. UnlockSlots(J) /\ Grants(J) \subseteq msgs /\ life' = life
  BY DEF GivesBack
<1>4. \A i \in H : i \in Slot /\ 1 \in 1 .. Len(kolejka[i]) /\ wlasciciel'[i] = kolejka[i][1]
                   /\ Head(kolejka[i]) = kolejka[i][1]
  BY <1>1, <1>3, UnlockTables DEF TypeOK
<1>5. \A i \in H : LET q == kolejka[i][1] IN
         /\ q \in Proc /\ k[q] = client[q]
         /\ client[q].at = "receiving" /\ client[q].req.mutex = numer[i]
         /\ client[q].req.typ \in {"CS_LOCK", "CS_WAIT"}
  BY <1>1, <1>4, EntryTypes DEF IInv, EntriesBlocked, GivesBack
<1>6. \A i \in H : life[kolejka[i][1]] = "alive" => numer[i] \in holds'[kolejka[i][1]]
  <2> SUFFICES ASSUME NEW i \in H, life[kolejka[i][1]] = "alive"
               PROVE  numer[i] \in holds'[kolejka[i][1]]
    OBVIOUS
  <2>1. PICK n : n = Msg(kolejka[i][1], OK, i)
    OBVIOUS
  <2>2. n \in msgs
    BY <1>3, <1>4, <2>1 DEF Grants
  <2>3. n.do = kolejka[i][1] /\ n.typ = OK
    BY <2>1 DEF Msg
  <2> QED BY <1>2, <1>5, <2>2, <2>3
<1>7. /\ \A i \in UsedSlot' : i \in UsedSlot /\ numer'[i] = numer[i]
      /\ \A i \in UsedSlot' : i \notin H => wlasciciel'[i] = wlasciciel[i] /\ i \notin J
  BY DEF Shrinks, UsedSlot
<1> HIDE DEF H
<1>8. OwnersAreHolders'
  <2> SUFFICES ASSUME NEW i \in UsedSlot', life[wlasciciel'[i]] = "alive"
               PROVE  LET q == wlasciciel'[i] IN
                      \/ numer'[i] \in holds'[q]
                      \/ /\ client'[q].at = "sending"
                         /\ client'[q].req.typ \in {"CS_UNLOCK", "CS_WAIT"}
                         /\ client'[q].req.mutex = numer'[i]
    BY <1>3 DEF OwnersAreHolders
  <2>1. CASE i \in H
    BY <1>4, <1>6, <1>7, <2>1
  <2>2. CASE i \notin H
    <3>1. PICK q \in Proc : q = wlasciciel[i] /\ q = wlasciciel'[i]
      BY <1>1, <1>7, <2>2 DEF OwnersAreProcesses
    <3>2. CASE numer[i] \in holds[q]
      BY <1>2, <1>7, <3>1, <3>2
    <3>3. CASE /\ client[q].at = "sending"
               /\ client[q].req.typ \in {"CS_UNLOCK", "CS_WAIT"}
               /\ client[q].req.mutex = numer[i]
      <4>1. k[q] = client[q]
        BY <1>7, <2>2, <3>1, <3>3 DEF GivesBack
      <4> QED BY <1>2, <1>7, <3>1, <3>3, <4>1
    <3> QED BY <1>1, <1>7, <3>1, <3>2, <3>3 DEF OwnersAreHolders
  <2> QED BY <2>1, <2>2
<1>9. \A q \in Proc : client'[q].at = "sending" => client[q].at = "sending"
  BY <1>2 DEF GivesBack
<1> QED BY <1>2, <1>8, <1>9

\* The owner's unlock or wait is for the one row in J.
LEMMA OwnRow ==
    ASSUME IInv, NEW p \in Proc, NEW m, Owns(p, m)
    PROVE  LET J == {indeksUzywanegoMutexa(m)} IN
           /\ J \in SUBSET UsedSlot
           /\ \A i \in J : wlasciciel[i] = p /\ numer[i] = m
           /\ \A i \in UsedSlot : numer[i] = m => i \in J
           /\ \E i \in Slot : Names(i, p)
<1>1. TypeOK
  BY DEF IInv
<1> DEFINE j == indeksUzywanegoMutexa(m)
<1>2. j \in Slot /\ uzywany[j] = 1 /\ numer[j] = m /\ wlasciciel[j] = p
  BY <1>1, IndexOfMutex DEF Owns
<1>3. j \in UsedSlot
  BY <1>2 DEF UsedSlot
<1>4. \A i \in UsedSlot : numer[i] = m => i = j
  BY OwnerFound
<1> QED BY <1>2, <1>3, <1>4 DEF Names

\* cs_unlock keeps JInv.
LEMMA UnlockKeeps ==
    ASSUME IInv, JInv, IInv', NEW p \in Proc, cs_unlock(p)
    PROVE  JInv'
<1> DEFINE m == client[p].req.mutex
           J == {indeksUzywanegoMutexa(m)}
           k == Received(p)
           msgs == Grants(J) \cup Answer(p, OK)
<1>1. /\ Receives(p, "CS_UNLOCK") /\ Owns(p, m) /\ UnlockSlots(J) /\ kolejka' = QueuesAfterUnlock(J)
      /\ wyslijWiadomosc(k, msgs, Idle)
      /\ UNCHANGED <<cvUzywany, cvNumer, cvProcesy, life, async>>
  BY DEF cs_unlock, cvVars
<1>2. /\ k[p].at = "receiving"
      /\ \A q \in Proc : q # p => k[q] = client[q]
      /\ client[p].at = "sending" /\ server.at = "receive"
      /\ \A i \in Slot : \A j \in 1 .. Len(kolejka[i]) : kolejka[i][j] # p
  BY <1>1, ReceivedProperties
<1>3. J \in SUBSET UsedSlot /\ \A i \in UsedSlot : numer[i] = m => i \in J
  BY <1>1, OwnRow
<1>g. Grants(J) \subseteq msgs
  OBVIOUS
<1>4. GivesBack(p, J, k, msgs)
  BY <1>1, <1>2, <1>3, <1>g DEF GivesBack
<1> HIDE DEF J, k, msgs
<1>5. /\ Shrinks(HandedOver(J))
      /\ \A i \in UsedSlot' : i \in J => i \in HandedOver(J)
  BY <1>1, <1>3, UnlockShrinks
<1>6. /\ OwnersAreHolders' /\ server' = Idle
      /\ \A q \in Proc : client'[q].at = "sending" => client[q].at = "sending"
  BY <1>1, <1>3, <1>4, <1>5, NewOwnersTold
<1>7. \A i \in UsedCvSlot' : \A y \in 1 .. Len(cvProcesy'[i]) : OldEntry(cvProcesy'[i][y])
  BY <1>1 DEF OldEntry, UsedCvSlot
<1>8. \A q \in Proc : ExitHandled(q)' => ExitedBefore(q)
  BY <1>1, <1>6, ExitHandledKept DEF ExitedBefore
<1>9. ListsInUse' /\ TablesFull'
  BY <1>1, <1>2, <1>6 DEF JInv, ListsInUse, TablesFull, Idle, UsedCvSlot
<1> QED BY <1>5, <1>6, <1>7, <1>8, <1>9, ShrinkingStep

\* cs_wait keeps JInv, whether the waiter finds a place or runs past the table.
LEMMA WaitKeeps ==
    ASSUME IInv, JInv, IInv', NEW p \in Proc, cs_wait(p) \/ WaitPastTable(p)
    PROVE  JInv'
<1> DEFINE m == client[p].req.mutex
           c == client[p].req.cv
           J == {indeksUzywanegoMutexa(m)}
           k == Received(p)
           msgs == Grants(J)
           e == [proces |-> p, muteks |-> m]
<1>1. PICK next :
        /\ Receives(p, "CS_WAIT") /\ Owns(p, m) /\ UnlockSlots(J) /\ kolejka' = QueuesAfterUnlock(J)
        /\ wyslijWiadomosc(k, msgs, next) /\ life' = life /\ async' = async
        /\ \/ CvAppended(c, e) /\ next = Idle
           \/ /\ UNCHANGED <<cvUzywany, cvNumer, cvProcesy>>
              /\ \/ CvTarget(c) = -1
                 \/ CvTarget(c) # -1 /\ Len(CvWaiting(c)) >= MAX_PROCESY
              /\ next = [server EXCEPT !.at = IF CvTarget(c) = -1 THEN "pastCV" ELSE "pastProcesy"]
  <2>1. CASE cs_wait(p)
    BY <2>1 DEF cs_wait, CvAppended
  <2>2. CASE WaitPastTable(p)
    BY <2>2 DEF WaitPastTable, cvVars
  <2> QED BY <2>1, <2>2
<1>2. /\ k[p].at = "receiving"
      /\ \A q \in Proc : q # p => k[q] = client[q]
      /\ client[p].at = "sending" /\ client[p].req.typ = "CS_WAIT" /\ server.at = "receive"
      /\ \A i \in Slot : \A j \in 1 .. Len(kolejka[i]) : kolejka[i][j] # p
  BY <1>1, ReceivedProperties
<1>3. /\ J \in SUBSET UsedSlot /\ \A i \in UsedSlot : numer[i] = m => i \in J
      /\ \E i \in Slot : Names(i, p)
  BY <1>1, OwnRow
<1>4. GivesBack(p, J, k, msgs)
  BY <1>1, <1>2, <1>3 DEF GivesBack
<1>t. TypeOK /\ BroadcastState
  BY DEF IInv
<1>r. m \in Mutex /\ c \in CondVar
  <2>1. client[p].req \in Request \cup {NoRequest}
    BY <1>t DEF TypeOK
  <2> QED BY <1>2, <2>1, RequestFields
<1>e. e \in Waiter /\ e.proces = p /\ e.muteks = m
  BY <1>r DEF Waiter
<1> HIDE DEF J, k, msgs
<1>5. /\ Shrinks(HandedOver(J))
      /\ \A i \in UsedSlot' : i \in J => i \in HandedOver(J)
  BY <1>1, <1>3, UnlockShrinks
<1>6. /\ OwnersAreHolders' /\ server' = next
      /\ \A q \in Proc : client'[q].at = "sending" => client[q].at = "sending"
  BY <1>1, <1>3, <1>4, <1>5, NewOwnersTold
<1>7. \A q \in Proc : ExitHandled(q)' => ExitedBefore(q)
  BY <1>1, <1>6, ExitHandledKept DEF ExitedBefore
<1>8. \A i \in UsedCvSlot : cvProcesy[i] # <<>>
  BY <1>2 DEF JInv, ListsInUse
<1> HIDE DEF e, m, c
<1>9. CASE CvAppended(c, e) /\ next = Idle
  <2>1. ~ExitHandled(p)'
    BY <1>1, <1>2, <1>3, ExitHandledKept DEF JInv, LastRequest
  <2>2. ASSUME NEW j \in UsedSlot', numer'[j] = m
        PROVE  wlasciciel'[j] # p
    <3>1. j \in Slot /\ j \in UsedSlot /\ numer[j] = m
      BY <1>5, <2>2 DEF Shrinks, UsedSlot
    <3>2. j \in HandedOver(J)
      BY <1>3, <1>5, <3>1
    <3>3. 1 \in 1 .. Len(kolejka[j]) /\ wlasciciel'[j] = kolejka[j][1]
      BY <1>5, <3>1, <3>2 DEF Shrinks, UsedSlot
    <3> QED BY <1>2, <3>1, <3>3
  <2>3. NewEntry(p, m)
    BY <2>1, <2>2 DEF NewEntry
  <2>4. /\ \A j \in UsedCvSlot : \A y \in 1 .. Len(cvProcesy[j]) : y \in 1 .. Len(cvProcesy'[j])
        /\ \A j \in CvSlot : cvUzywany'[j] = 1 => \A y \in 1 .. Len(cvProcesy'[j]) :
             \/ j \in UsedCvSlot /\ y \in 1 .. Len(cvProcesy[j]) /\ cvProcesy'[j][y] = cvProcesy[j][y]
             \/ cvProcesy'[j][y] = e
        /\ cvProcesy' \in [CvSlot -> Seq(Waiter)]
    BY <1>9, <1>e, <1>r, WaitTables
  <2>5. \A i \in UsedCvSlot' : \A y \in 1 .. Len(cvProcesy'[i]) :
           \/ OldEntry(cvProcesy'[i][y])
           \/ \E q, x : cvProcesy'[i][y] = [proces |-> q, muteks |-> x] /\ NewEntry(q, x)
    BY <2>3, <2>4 DEF OldEntry, UsedCvSlot, e
  <2>6. \A i \in UsedCvSlot' : cvProcesy'[i] # <<>>
    <3> SUFFICES ASSUME NEW i \in UsedCvSlot' PROVE cvProcesy'[i] # <<>>
      OBVIOUS
    <3>1. i \in CvSlot
      BY DEF UsedCvSlot
    <3>2. CASE i \in UsedCvSlot
      <4>1. cvProcesy[i] \in Seq(Waiter) /\ cvProcesy[i] # <<>>
        BY <1>8, <1>t, <3>1, <3>2 DEF TypeOK
      <4>2. 1 \in 1 .. Len(cvProcesy[i])
        BY <4>1
      <4> QED BY <2>4, <3>2, <4>2
    <3>3. CASE i \notin UsedCvSlot
      <4>1. i = CvTarget(c)
        BY <1>9, <1>t, <3>1, <3>3 DEF CvAppended, UsedCvSlot, TypeOK
      <4>2. cvProcesy'[i] = Append(CvWaiting(c), e)
        BY <1>9, <1>t, <3>1, <4>1 DEF CvAppended, TypeOK
      <4>3. CvWaiting(c) \in Seq(Waiter)
        BY <1>t, IndexOfCv DEF CvWaiting, TypeOK
      <4> QED BY <1>e, <4>2, <4>3
    <3> QED BY <3>2, <3>3
  <2>7. ListsInUse' /\ TablesFull'
    BY <1>6, <1>9, <2>6 DEF ListsInUse, TablesFull, Idle
  <2> QED BY <1>5, <1>6, <1>7, <2>5, <2>7, ShrinkingStep
<1>10. CASE /\ UNCHANGED <<cvUzywany, cvNumer, cvProcesy>>
            /\ \/ CvTarget(c) = -1
               \/ CvTarget(c) # -1 /\ Len(CvWaiting(c)) >= MAX_PROCESY
            /\ next = [server EXCEPT !.at = IF CvTarget(c) = -1 THEN "pastCV" ELSE "pastProcesy"]
  <2>1. \A i \in UsedCvSlot' : \A y \in 1 .. Len(cvProcesy'[i]) : OldEntry(cvProcesy'[i][y])
    BY <1>10 DEF OldEntry, UsedCvSlot
  <2>2. ListsInUse'
    BY <1>8, <1>10 DEF ListsInUse, UsedCvSlot
  <2>3. server'.i = -1 /\ server'.at = IF CvTarget(c) = -1 THEN "pastCV" ELSE "pastProcesy"
    BY <1>2, <1>6, <1>10, <1>t DEF BroadcastState, TypeOK
  <2>4. CASE CvTarget(c) = -1
    <3>1. freeCv = -1
      BY <2>4, IndexOfCv, <1>t DEF CvTarget
    <3>2. {i \in CvSlot : cvUzywany[i] = 0} = {}
      <4>1. {i \in CvSlot : cvUzywany[i] = 0} \in SUBSET Nat
        BY SizesAssumption DEF CvSlot
      <4> QED BY <3>1, <4>1, FirstProperties DEF freeCv
    <3>3. \A i \in CvSlot : cvUzywany'[i] = 1
      BY <1>10, <1>t, <3>2 DEF TypeOK
    <3> QED BY <1>5, <1>6, <1>7, <2>1, <2>2, <2>3, <2>4, <3>3, ShrinkingStep DEF TablesFull
  <2>5. CASE CvTarget(c) # -1
    <3>1. Len(CvWaiting(c)) >= MAX_PROCESY
      BY <1>10, <2>5
    <3>2. indeksUzywanegoCv(c) # -1
      BY <3>1, SizesAssumption DEF CvWaiting
    <3>3. indeksUzywanegoCv(c) \in UsedCvSlot
      BY <1>t, <3>2, IndexOfCv DEF UsedCvSlot
    <3>4. Len(cvProcesy[indeksUzywanegoCv(c)]) >= MAX_PROCESY
      BY <3>1, <3>2 DEF CvWaiting
    <3>5. \E i \in UsedCvSlot' : Len(cvProcesy'[i]) >= MAX_PROCESY
      BY <1>10, <3>3, <3>4 DEF UsedCvSlot
    <3> QED BY <1>5, <1>6, <1>7, <2>1, <2>2, <2>3, <2>5, <3>5, ShrinkingStep DEF TablesFull
  <2> QED BY <2>4, <2>5
<1> QED BY <1>1, <1>9, <1>10

-----------------------------------------------------------------------------
(***************************************************************************)
(* CS_EINTR and CS_EXIT.                                                   *)
(***************************************************************************)

\* usunZakonczonyProcesCV leaves no list empty that stays in use: a list p was
\* alone in is given back, and any other keeps somebody.
LEMMA ListsKeepSomebody ==
    ASSUME IInv, NEW p, usunZakonczonyProcesCV(p), \A i \in UsedCvSlot : cvProcesy[i] # <<>>
    PROVE  \A i \in UsedCvSlot' : cvProcesy'[i] # <<>>
<1> SUFFICES ASSUME NEW i \in UsedCvSlot', cvProcesy'[i] = <<>> PROVE FALSE
  OBVIOUS
<1>1. /\ i \in UsedCvSlot
      /\ \A x \in 1 .. Len(cvProcesy[i]) : cvProcesy[i][x].proces # p =>
           \E y \in 1 .. Len(cvProcesy'[i]) : cvProcesy'[i][y] = cvProcesy[i][x]
  BY CvWithout
<1>2. i \in CvSlot /\ cvUzywany'[i] = 1
  BY DEF UsedCvSlot
<1>3. cvProcesy[i] \in Seq(Waiter) /\ cvProcesy[i] # <<>>
  BY <1>1, <1>2 DEF IInv, TypeOK
<1>4. \A x \in 1 .. Len(cvProcesy[i]) : cvProcesy[i][x].proces = p
  BY <1>1
<1>5. 1 \in 1 .. Len(cvProcesy[i])
  BY <1>3
<1>6. i \in CvsWith(p)
  BY <1>1, <1>4, <1>5, WhereWaiting DEF Sleeps
<1>7. Len(cvProcesy[i]) # 1
  BY <1>2, <1>6 DEF usunZakonczonyProcesCV
<1>8. 2 \in 1 .. Len(cvProcesy[i])
  <2>1. PICK n \in Nat : n = Len(cvProcesy[i])
    BY <1>3
  <2>2. 1 <= n
    BY <1>5, <2>1
  <2>3. n # 1
    BY <1>7, <2>1
  <2>4. 2 \in 1 .. n
    BY <2>2, <2>3
  <2> QED BY <2>1, <2>4
<1>9. cvProcesy[i][1].proces = cvProcesy[i][2].proces
  BY <1>4, <1>5, <1>8
<1> QED BY <1>1, <1>5, <1>8, <1>9 DEF IInv, WaitsOnce

\* Receiving the first message of PM counts as an exit handled only for the
\* process it is about, and only when it is a CS_EXIT.
LEMMA OneExitHandled ==
    ASSUME IInv, async # <<>>, async' = Tail(async), life' = life,
           NEW q \in Proc, ExitHandled(q)', ~ExitHandled(q)
    PROVE  Head(async) = [typ |-> "CS_EXIT", proces |-> q]
<1>1. async \in Seq(Async)
  BY DEF IInv, TypeOK
<1>2. PICK l \in 1 .. Len(async) : async[l] = [typ |-> "CS_EXIT", proces |-> q]
  BY DEF ExitHandled
<1>3. CASE l = 1
  BY <1>1, <1>2, <1>3
<1>4. CASE l # 1
  <2>1. l - 1 \in 1 .. Len(async') /\ async'[l - 1] = async[l]
    BY <1>1, <1>2, <1>4
  <2> QED BY <1>2, <2>1 DEF ExitHandled
<1> QED BY <1>3, <1>4

\* CS_EINTR keeps JInv.
LEMMA EintrKeeps ==
    ASSUME IInv, JInv, IInv', wyslijEINTR
    PROVE  JInv'
<1> DEFINE p == Head(async).proces
<1>1. /\ server.at = "receive" /\ async # <<>> /\ async' = Tail(async)
      /\ Head(async).typ = "CS_EINTR"
      /\ usunZakonczonyProcesCV(p)
      /\ uzywany' = uzywany /\ numer' = numer /\ wlasciciel' = wlasciciel /\ life' = life
      /\ kolejka' = [i \in Slot |-> usunElement(kolejka[i], p)]
  BY DEF wyslijEINTR, ReceivesAsync
<1>2. PICK msgs : wyslijWiadomosc(client, msgs, Idle)
  BY DEF wyslijEINTR
<1> HIDE DEF p
<1>3. PICK k : k = client
  OBVIOUS
<1>4. TypeOK /\ NeverStuck' /\ wyslijWiadomosc(k, msgs, Idle)
  BY <1>2, <1>3 DEF IInv
<1>5. /\ server' = Idle
      /\ \A q \in Proc : holds[q] \subseteq holds'[q]
      /\ \A q \in Proc : client'[q] = k[q] \/ client'[q].at = "running"
      /\ \A q \in Proc : k[q].at # "receiving" => client'[q] = k[q]
  BY <1>4, Answered
<1>6. QueuesLose(kolejka, p, kolejka')
  BY <1>1, <1>4 DEF QueuesLose, TypeOK, IInv, WaitsOnce
<1>7. \A i \in Slot : \A x \in 1 .. Len(kolejka'[i]) :
         \E y \in 1 .. Len(kolejka[i]) : kolejka'[i][x] = kolejka[i][y]
  BY <1>6, QueuesWithout
<1>8. PICK H : H = {}
  OBVIOUS
<1>9. Shrinks(H)
  BY <1>1, <1>7, <1>8 DEF Shrinks
<1>10. \A i \in UsedCvSlot' : \A y \in 1 .. Len(cvProcesy'[i]) : OldEntry(cvProcesy'[i][y])
  <2>1. \A i \in UsedCvSlot' : i \in UsedCvSlot /\ \A y \in 1 .. Len(cvProcesy'[i]) :
           \E x \in 1 .. Len(cvProcesy[i]) : cvProcesy'[i][y] = cvProcesy[i][x]
    BY <1>1, CvWithout
  <2> QED BY <2>1 DEF OldEntry
<1>11. \A q \in Proc : ExitHandled(q)' => ExitedBefore(q)
  <2> SUFFICES ASSUME NEW q \in Proc, ExitHandled(q)' PROVE ExitedBefore(q)
    OBVIOUS
  <2>1. ExitHandled(q)
    <3> SUFFICES ASSUME ~ExitHandled(q) PROVE FALSE
      OBVIOUS
    <3>1. Head(async) = [typ |-> "CS_EXIT", proces |-> q]
      BY <1>1, OneExitHandled
    <3> QED BY <1>1, <3>1
  <2> QED BY <1>3, <1>5, <2>1 DEF ExitedBefore
<1>12. OwnersAreHolders'
  <2> SUFFICES ASSUME NEW i \in UsedSlot, life[wlasciciel[i]] = "alive"
               PROVE  LET q == wlasciciel[i] IN
                      \/ numer[i] \in holds'[q]
                      \/ /\ client'[q].at = "sending"
                         /\ client'[q].req.typ \in {"CS_UNLOCK", "CS_WAIT"}
                         /\ client'[q].req.mutex = numer[i]
    BY <1>1 DEF OwnersAreHolders, UsedSlot
  <2>1. wlasciciel[i] \in Proc
    BY DEF JInv, OwnersAreProcesses
  <2> QED BY <1>3, <1>5, <2>1 DEF JInv, OwnersAreHolders
<1>13. \A i \in UsedCvSlot' : cvProcesy'[i] # <<>>
  BY <1>1, ListsKeepSomebody DEF JInv, ListsInUse
<1>14. ListsInUse' /\ TablesFull'
  BY <1>5, <1>13 DEF ListsInUse, TablesFull, Idle
<1> QED BY <1>9, <1>10, <1>11, <1>12, <1>14, ShrinkingStep

\* CS_EXIT keeps JInv: nothing of the process is left when it is done.
LEMMA ExitedKeeps ==
    ASSUME IInv, JInv, IInv', usunZakonczonyProces
    PROVE  JInv'
<1> DEFINE p == Head(async).proces
           J == {i \in Slot : uzywany[i] = 1 /\ wlasciciel[i] = p}
           Q == QueuesAfterUnlock(J)
<1>1. /\ server.at = "receive" /\ async # <<>> /\ async' = Tail(async)
      /\ UnlockSlots(J) /\ usunZakonczonyProcesCV(p) /\ life' = life
      /\ kolejka' = [i \in Slot |-> usunElement(Q[i], p)]
      /\ wyslijWiadomosc(client, Grants(J), Idle)
  BY DEF usunZakonczonyProces, ReceivesAsync
<1>2. TypeOK /\ OwnersDoNotWait
  BY DEF IInv, JInv
<1>3. p \in Proc
  BY <1>1, <1>2, AsyncTail
<1>4. J \in SUBSET UsedSlot /\ \A i \in UsedSlot : wlasciciel[i] = p <=> i \in J
  BY DEF UsedSlot
<1>k. PICK k : k = client
  OBVIOUS
<1>m. PICK msgs : msgs = Grants(J)
  OBVIOUS
<1>5. GivesBack(p, J, k, msgs) /\ wyslijWiadomosc(k, msgs, Idle)
  BY <1>1, <1>k, <1>m DEF GivesBack
<1> HIDE DEF p, J, Q
<1>6. \A i, j \in Slot : \A x \in 1 .. Len(Q[i]) : \A y \in 1 .. Len(Q[j]) :
         Q[i][x] = Q[j][y] => i = j /\ x = y
  BY <1>1, <1>4, QueuesOnce DEF Q
<1>7. Q \in [Slot -> Seq(Proc)]
  BY <1>1, <1>4, UnlockTables DEF Q
<1>8. QueuesLose(Q, p, kolejka')
  BY <1>1, <1>6, <1>7 DEF QueuesLose
<1>9. \A i \in Slot : \A x \in 1 .. Len(kolejka'[i]) :
         kolejka'[i][x] # p /\ \E y \in 1 .. Len(Q[i]) : kolejka'[i][x] = Q[i][y]
  BY <1>8, QueuesWithout
<1>10. /\ Shrinks(HandedOver(J))
       /\ \A i \in UsedSlot' : i \in J => i \in HandedOver(J)
  BY <1>1, <1>4, <1>9, UnlockShrinks DEF Q
<1>11. /\ OwnersAreHolders' /\ server' = Idle
       /\ \A q \in Proc : client'[q].at = "sending" => client[q].at = "sending"
  BY <1>3, <1>4, <1>5, <1>10, NewOwnersTold
<1>12. \A i \in UsedCvSlot' : /\ i \in UsedCvSlot
                              /\ \A y \in 1 .. Len(cvProcesy'[i]) :
                                   /\ cvProcesy'[i][y].proces # p
                                   /\ \E x \in 1 .. Len(cvProcesy[i]) : cvProcesy'[i][y] = cvProcesy[i][x]
  BY <1>1, CvWithout
<1>13. \A i \in UsedCvSlot' : \A y \in 1 .. Len(cvProcesy'[i]) : OldEntry(cvProcesy'[i][y])
  BY <1>12 DEF OldEntry
<1>14. \A i \in UsedSlot' : wlasciciel'[i] # p
  <2> SUFFICES ASSUME NEW i \in UsedSlot', wlasciciel'[i] = p PROVE FALSE
    OBVIOUS
  <2>1. /\ i \in UsedSlot
        /\ i \notin HandedOver(J) => wlasciciel'[i] = wlasciciel[i]
        /\ i \in HandedOver(J) => 1 \in 1 .. Len(kolejka[i]) /\ wlasciciel'[i] = kolejka[i][1]
    BY <1>10 DEF Shrinks, UsedSlot
  <2>2. CASE i \in HandedOver(J)
    <3>1. i \in J
      BY <2>2 DEF HandedOver
    <3> QED BY <1>2, <1>4, <2>1, <2>2, <3>1 DEF OwnersDoNotWait
  <2>3. CASE i \notin HandedOver(J)
    BY <1>4, <1>10, <2>1, <2>3
  <2> QED BY <2>2, <2>3
<1>r. PICK r \in Proc : r = p
  BY <1>3
<1>15. NothingLeft(r)
  <2>1. \A i \in Slot : ~Queues(r, i)'
    BY <1>9, <1>r DEF Queues
  <2>2. \A i \in UsedCvSlot' : ~Sleeps(r, i)'
    BY <1>12, <1>r DEF Sleeps
  <2> QED BY <1>14, <1>r, <2>1, <2>2 DEF NothingLeft, Names
<1>16. \A q \in Proc : ExitHandled(q)' => ExitedBefore(q) \/ NothingLeft(q)
  <2> SUFFICES ASSUME NEW q \in Proc, ExitHandled(q)', ~NothingLeft(q) PROVE ExitedBefore(q)
    OBVIOUS
  <2>1. ExitHandled(q)
    <3> SUFFICES ASSUME ~ExitHandled(q) PROVE FALSE
      OBVIOUS
    <3>1. Head(async) = [typ |-> "CS_EXIT", proces |-> q]
      BY <1>1, OneExitHandled
    <3>2. q = r
      BY <1>r, <3>1 DEF p
    <3> QED BY <1>15, <3>2
  <2> QED BY <1>11, <2>1 DEF ExitedBefore
<1>17. \A i \in UsedCvSlot' : cvProcesy'[i] # <<>>
  BY <1>1, ListsKeepSomebody DEF JInv, ListsInUse
<1>18. ListsInUse' /\ TablesFull'
  BY <1>11, <1>17 DEF ListsInUse, TablesFull, Idle
<1> QED BY <1>10, <1>11, <1>13, <1>16, <1>18, ShrinkingStep

-----------------------------------------------------------------------------
(***************************************************************************)
(* The theorems.                                                           *)
(***************************************************************************)

\* The tables of a freshly started server satisfy JInv.
LEMMA JInit ==
    ASSUME Init
    PROVE  JInv
<1> USE DEF Init
<1>1. UsedSlot = {} /\ UsedCvSlot = {}
  BY DEF UsedSlot, UsedCvSlot
<1>2. \A p \in Proc : ~ExitHandled(p)
  BY DEF ExitHandled
<1>3. OwnersAreProcesses /\ OwnersAreHolders /\ OwnersDoNotWait /\ ListsInUse
  BY <1>1 DEF OwnersAreProcesses, OwnersAreHolders, OwnersDoNotWait, ListsInUse
<1>4. LastRequest /\ AtMostOneLeftover
  BY <1>2 DEF LastRequest, AtMostOneLeftover
<1>5. TablesFull
  BY DEF TablesFull, Idle
<1> QED BY <1>3, <1>4, <1>5 DEF JInv

\* Every step between states of IInv keeps JInv.
LEMMA JNext ==
    ASSUME IInv, JInv, IInv', [Next]_vars
    PROVE  JInv'
<1>1. CASE \E p \in Proc : obslugaWiadomosci(p)
  <2> SUFFICES ASSUME NEW p \in Proc, obslugaWiadomosci(p) PROVE JInv'
    BY <1>1
  <2>1. CASE HandleLock(p)
    BY <2>1, HandleLockKeeps
  <2>2. CASE cs_unlock(p)
    BY <2>2, UnlockKeeps
  <2>3. CASE cs_wait(p) \/ WaitPastTable(p)
    BY <2>3, WaitKeeps
  <2>4. CASE HandleLockPastTable(p) \/ cs_broadcast(p)
    BY <2>4, ServerMovesKeeps
  <2>5. CASE UnlockRefused(p) \/ WaitRefused(p) \/ BadType(p) \/ BroadcastNobody(p)
    BY <2>5, AnsweredKeeps
  <2> QED BY <2>1, <2>2, <2>3, <2>4, <2>5 DEF obslugaWiadomosci
<1>2. CASE ServerLoop
  <2>1. CASE BroadcastNext
    BY <2>1, BroadcastNextKeeps
  <2>2. CASE BroadcastPastTable
    BY <2>2, ServerMovesKeeps
  <2>3. CASE BroadcastEnd
    BY <2>3, BroadcastEndKeeps
  <2>4. CASE wyslijEINTR
    BY <2>4, EintrKeeps
  <2>5. CASE usunZakonczonyProces
    BY <2>5, ExitedKeeps
  <2> QED BY <1>2, <2>1, <2>2, <2>3, <2>4, <2>5 DEF ServerLoop
<1>3. CASE \E p \in Proc : \E r \in Request : send_message(p, r)
  BY <1>3, OutsideKeeps
<1>4. CASE \E p \in Proc : PmSignal(p) \/ PmExit(p) \/ PmClear(p)
  BY <1>4, OutsideKeeps
<1>5. CASE UNCHANGED vars
  <2>1. /\ UNCHANGED <<uzywany, numer, wlasciciel, kolejka, cvUzywany, cvNumer, cvProcesy, server>>
        /\ client' = client /\ life' = life /\ holds' = holds /\ async' = async
    BY <1>5 DEF vars
  <2>2. Outside
    BY <2>1, ExitHandledKept DEF Outside, ExitedBefore
  <2> QED BY <2>2, OutsideStep
<1> QED BY <1>1, <1>2, <1>3, <1>4, <1>5 DEF Next

\* IInv and JInv together hold in every state that can be reached.
THEOREM TablesInvariantHolds == Spec => [](IInv /\ JInv)
<1>1. Init => IInv /\ JInv
  BY InitInvariant, JInit
<1>2. IInv /\ JInv /\ [Next]_vars => (IInv /\ JInv)'
  BY NextInvariant, JNext
<1> QED BY <1>1, <1>2, PTL DEF Spec

\* Every row of M in use belongs to a process that was told so, is giving the
\* mutex back, or has exited: no hand-over, broadcast, signal or exit makes a
\* live process the owner of a mutex it does not know it has.
THEOREM OwnersHold == Spec => []OwnersAreHolders
<1>1. JInv => OwnersAreHolders
  BY DEF JInv
<1> QED BY <1>1, TablesInvariantHolds, PTL

\* The tables have one row for a number, no queue behind a free row, and no
\* condition variable in use without a waiter.
THEOREM TablesAreCoherent == Spec => []TablesCoherent
<1>1. IInv /\ JInv => TablesCoherent
  <2> SUFFICES ASSUME IInv, JInv PROVE TablesCoherent
    OBVIOUS
  <2>1. DistinctNumbers /\ FreeRowsEmpty /\ ListsInUse /\ uzywany \in [Slot -> {0, 1}]
    BY DEF IInv, JInv, TypeOK
  <2>2. \A i \in Slot \ UsedSlot : kolejka[i] = <<>>
    BY <2>1 DEF FreeRowsEmpty, UsedSlot
  <2> QED BY <2>1, <2>2 DEF TablesCoherent, DistinctNumbers, ListsInUse
<1> QED BY <1>1, TablesInvariantHolds, PTL

\* Once the CS_EXIT of a process has been handled no list has it, and at most
\* one mutex names it: that of the cs_lock that was on its way.
THEOREM OneLeftover == Spec => []AtMostOneLeftover
<1>1. JInv => AtMostOneLeftover
  BY DEF JInv
<1> QED BY <1>1, TablesInvariantHolds, PTL

\* Those who sleep in some list, as CvTableSuffices counts them.
Sleepers == {p \in Proc : ~ExitHandled(p) /\ \E i \in UsedCvSlot : Sleeps(p, i)}

\* There are finitely many: they are in the lists of finitely many rows.
LEMMA FinitelyManySleepers ==
    ASSUME TypeOK
    PROVE  IsFiniteSet(Sleepers)
<1> DEFINE Listed(i) == {cvProcesy[i][k].proces : k \in 1 .. Len(cvProcesy[i])}
           rows == [i \in CvSlot |-> Listed(i)]
           All == {Listed(i) : i \in CvSlot}
<1>1. \A i \in CvSlot : IsFiniteSet(Listed(i))
  <2> SUFFICES ASSUME NEW i \in CvSlot PROVE IsFiniteSet(Listed(i))
    OBVIOUS
  <2>1. PICK n \in Nat : n = Len(cvProcesy[i])
    BY EntryTypes
  <2> DEFINE f == [k \in 1 .. n |-> cvProcesy[i][k].proces]
  <2>2. f \in Surjection(1 .. n, Listed(i))
    BY <2>1 DEF Surjection
  <2>3. IsFiniteSet(1 .. n)
    BY <2>1, FS_Interval
  <2> HIDE DEF f, Listed
  <2> QED BY <2>2, <2>3, FS_Surjection
<1>2. IsFiniteSet(CvSlot)
  BY SizesAssumption, FS_Interval DEF CvSlot
<1>3. rows \in Surjection(CvSlot, All)
  BY DEF Surjection
<1>4. Sleepers \subseteq UNION All
  <2> SUFFICES ASSUME NEW p \in Sleepers PROVE p \in UNION All
    OBVIOUS
  <2>1. PICK i \in UsedCvSlot : Sleeps(p, i)
    BY DEF Sleepers
  <2>2. p \in Listed(i) /\ i \in CvSlot
    BY <2>1 DEF Sleeps, UsedCvSlot
  <2> QED BY <2>2
<1>5. \A S \in All : IsFiniteSet(S)
  BY <1>1
<1> HIDE DEF rows, All
<1>6. IsFiniteSet(All)
  BY <1>2, <1>3, FS_Surjection
<1>7. IsFiniteSet(UNION All)
  BY <1>5, <1>6, FS_UNION
<1> QED BY <1>4, <1>7, FS_Subset

\* As many of them as a family of different entries in lists in use.
LEMMA SleepersCounted ==
    ASSUME IInv, JInv, NEW a \in Int, NEW b \in Int, a <= b, NEW f,
           f \in [a .. b -> Proc],
           \A x \in a .. b : \E i \in UsedCvSlot : Sleeps(f[x], i),
           \A x, y \in a .. b : f[x] = f[y] => x = y
    PROVE  Cardinality(Sleepers) >= b - a + 1
<1>1. \A x \in a .. b : f[x] \in Sleepers
  <2> SUFFICES ASSUME NEW x \in a .. b PROVE f[x] \in Sleepers
    OBVIOUS
  <2>1. ~ExitHandled(f[x])
    BY DEF JInv, AtMostOneLeftover
  <2> QED BY <2>1 DEF Sleepers
<1>2. f \in Injection(a .. b, Sleepers)
  BY <1>1 DEF Injection, IsInjective
<1>3. IsFiniteSet(Sleepers)
  BY FinitelyManySleepers DEF IInv
<1>4. Cardinality(a .. b) <= Cardinality(Sleepers)
  BY <1>2, <1>3, FS_Injection
<1>5. Cardinality(a .. b) = b - a + 1
  BY FS_Interval
<1>6. Cardinality(Sleepers) \in Nat
  BY <1>3, FS_CardinalityType
<1> QED BY <1>4, <1>5, <1>6

\* The server runs past the end of CV only while MAX_CV processes that have
\* not exited sleep on condition variables, and past the end of procesy[] only
\* while MAX_PROCESY do: no row and no place is lost to a signal, an exit or a
\* broadcast.
THEOREM TableSuffices == Spec => []CvTableSuffices
<1>1. IInv /\ JInv => CvTableSuffices
  <2> SUFFICES ASSUME IInv, JInv PROVE CvTableSuffices
    OBVIOUS
  <2>0. /\ TypeOK /\ WaitsOnce /\ TablesFull /\ ListsInUse
        /\ MAX_CV \in Int /\ MAX_PROCESY \in Int /\ MAX_CV >= 1 /\ MAX_PROCESY >= 1
    BY SizesAssumption DEF IInv, JInv
  <2>1. ASSUME server.at = "pastCV" PROVE Cardinality(Sleepers) >= MAX_CV
    <3> DEFINE f == [i \in 0 .. MAX_CV - 1 |-> cvProcesy[i][1].proces]
    <3>1. \A i \in CvSlot : i \in UsedCvSlot /\ 1 \in 1 .. Len(cvProcesy[i])
      <4> SUFFICES ASSUME NEW i \in CvSlot
                   PROVE  i \in UsedCvSlot /\ 1 \in 1 .. Len(cvProcesy[i])
        OBVIOUS
      <4>1. i \in UsedCvSlot
        BY <2>0, <2>1 DEF TablesFull, UsedCvSlot
      <4>2. server.i # i
        BY <2>0, <2>1 DEF TablesFull, CvSlot
      <4>3. cvProcesy[i] # <<>>
        BY <2>0, <4>1, <4>2 DEF ListsInUse
      <4>4. cvProcesy[i] \in Seq(Waiter)
        BY <2>0 DEF TypeOK
      <4> QED BY <4>1, <4>3, <4>4
    <3>2. f \in [0 .. MAX_CV - 1 -> Proc]
      BY <2>0, <3>1, EntryTypes DEF CvSlot
    <3>3. \A x \in 0 .. MAX_CV - 1 : \E i \in UsedCvSlot : Sleeps(f[x], i)
      BY <3>1 DEF Sleeps, CvSlot
    <3>4. \A x, y \in 0 .. MAX_CV - 1 : f[x] = f[y] => x = y
      BY <2>0, <3>1 DEF WaitsOnce, CvSlot
    <3> HIDE DEF f
    <3>5. Cardinality(Sleepers) >= (MAX_CV - 1) - 0 + 1
      BY <2>0, <3>2, <3>3, <3>4, SleepersCounted
    <3> QED BY <2>0, <3>5
  <2>2. ASSUME server.at = "pastProcesy" PROVE Cardinality(Sleepers) >= MAX_PROCESY
    <3>1. PICK i \in UsedCvSlot : Len(cvProcesy[i]) >= MAX_PROCESY
      BY <2>0, <2>2 DEF TablesFull
    <3>2. \A k \in 1 .. MAX_PROCESY : k \in 1 .. Len(cvProcesy[i])
      <4>1. Len(cvProcesy[i]) \in Nat
        BY <2>0, EntryTypes DEF UsedCvSlot
      <4> QED BY <2>0, <3>1, <4>1
    <3> DEFINE f == [k \in 1 .. MAX_PROCESY |-> cvProcesy[i][k].proces]
    <3>3. f \in [1 .. MAX_PROCESY -> Proc]
      BY <2>0, <3>2, EntryTypes DEF UsedCvSlot
    <3>4. \A x \in 1 .. MAX_PROCESY : \E j \in UsedCvSlot : Sleeps(f[x], j)
      BY <3>2 DEF Sleeps
    <3>5. \A x, y \in 1 .. MAX_PROCESY : f[x] = f[y] => x = y
      BY <2>0, <3>2 DEF WaitsOnce
    <3> HIDE DEF f
    <3>6. Cardinality(Sleepers) >= MAX_PROCESY - 1 + 1
      BY <2>0, <3>3, <3>4, <3>5, SleepersCounted
    <3> QED BY <2>0, <3>6
  <2> QED BY <2>1, <2>2 DEF CvTableSuffices, Sleepers
<1> QED BY <1>1, TablesInvariantHolds, PTL

=============================================================================
