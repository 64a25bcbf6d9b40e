-------------------------- MODULE CvRefinesProofs ---------------------------
(***************************************************************************)
(* The server implements MutexCv, for any constants: every step of         *)
(* CvServer is a step of the abstract mutexes and condition variables of   *)
(* CvServerRefines, or leaves them as they are.                            *)
(***************************************************************************)
EXTENDS CvServerRefines, CvTablesProofs

-----------------------------------------------------------------------------
(***************************************************************************)
(* What the refinement mapping reads off the tables.                       *)
(***************************************************************************)

\* A mutex is the row in use with its number; without one it is free.
MutexRows ==
    /\ \A i \in UsedSlot : numer[i] \in Mutex =>
         absOwner[numer[i]] = wlasciciel[i] /\ absQueue[numer[i]] = kolejka[i]
    /\ \A m \in Mutex : (\A i \in UsedSlot : numer[i] # m) =>
         absOwner[m] = Zero /\ absQueue[m] = <<>>

\* A condition variable is the row in use with its number, unless a broadcast
\* has taken its sleepers.
CvRows ==
    /\ \A i \in UsedCvSlot : cvNumer[i] \in CondVar =>
         absAsleep[cvNumer[i]] = IF i = server.i THEN <<>> ELSE absSleepers(i)
    /\ \A c \in CondVar : (\A i \in UsedCvSlot : cvNumer[i] # c) => absAsleep[c] = <<>>

\* The searches by number find what there is.
LEMMA AbsRows == IInv => MutexRows /\ CvRows
<1> SUFFICES ASSUME IInv PROVE MutexRows /\ CvRows
  OBVIOUS
<1>1. TypeOK /\ DistinctNumbers
  BY DEF IInv
<1>2. \A m \in Mutex : LET i == indeksUzywanegoMutexa(m) IN
         /\ absOwner[m] = IF i = -1 THEN Zero ELSE wlasciciel[i]
         /\ absQueue[m] = IF i = -1 THEN <<>> ELSE kolejka[i]
  BY DEF absOwner, absQueue
<1>3. \A c \in CondVar : LET i == indeksUzywanegoCv(c) IN
         absAsleep[c] = IF i = -1 \/ i = server.i THEN <<>> ELSE absSleepers(i)
  BY DEF absAsleep
<1>4. \A i \in UsedSlot : indeksUzywanegoMutexa(numer[i]) = i
  BY OwnerFound
<1>5. \A m : (\A i \in UsedSlot : numer[i] # m) => indeksUzywanegoMutexa(m) = -1
  BY <1>1, IndexOfMutex DEF UsedSlot
<1>6. \A i \in UsedCvSlot : indeksUzywanegoCv(cvNumer[i]) = i
  <2> SUFFICES ASSUME NEW i \in UsedCvSlot PROVE indeksUzywanegoCv(cvNumer[i]) = i
    OBVIOUS
  <2> DEFINE j == indeksUzywanegoCv(cvNumer[i])
  <2>1. /\ j # -1 => j \in CvSlot /\ cvUzywany[j] = 1 /\ cvNumer[j] = cvNumer[i]
        /\ j = -1 => \A l \in CvSlot : cvUzywany[l] = 1 => cvNumer[l] # cvNumer[i]
    BY <1>1, IndexOfCv
  <2> QED BY <1>1, <2>1 DEF DistinctNumbers, UsedCvSlot
<1>7. \A c : (\A i \in UsedCvSlot : cvNumer[i] # c) => indeksUzywanegoCv(c) = -1
  BY <1>1, IndexOfCv DEF UsedCvSlot
<1>8. -1 \notin Slot /\ -1 \notin CvSlot
  BY SizesAssumption DEF Slot, CvSlot
<1>9. MutexRows
  BY <1>2, <1>4, <1>5, <1>8 DEF MutexRows, UsedSlot
<1>10. CvRows
  BY <1>3, <1>6, <1>7, <1>8 DEF CvRows, UsedCvSlot
<1> QED BY <1>9, <1>10

\* The same after a step.
LEMMA AbsRowsNext == IInv' => MutexRows' /\ CvRows'
BY AbsRows, PTL

\* The parts of the abstract state are functions.
LEMMA AbsFunctions ==
    /\ absOwner = [m \in Mutex |-> absOwner[m]]
    /\ absQueue = [m \in Mutex |-> absQueue[m]]
    /\ absAsleep = [c \in CondVar |-> absAsleep[c]]
BY DEF absOwner, absQueue, absAsleep

\* The same after a step.
LEMMA AbsFunctionsNext ==
    /\ absOwner' = [m \in Mutex |-> absOwner'[m]]
    /\ absQueue' = [m \in Mutex |-> absQueue'[m]]
    /\ absAsleep' = [c \in CondVar |-> absAsleep'[c]]
BY DEF absOwner, absQueue, absAsleep

\* The sleepers of a row, as pairs, in the order of its list.
LEMMA AbsSleepers ==
    ASSUME TypeOK, NEW i \in CvSlot
    PROVE  /\ absSleepers(i) \in Seq(Proc \X Mutex)
           /\ Len(absSleepers(i)) = Len(cvProcesy[i])
           /\ \A k \in 1 .. Len(cvProcesy[i]) :
                absSleepers(i)[k] = <<cvProcesy[i][k].proces, cvProcesy[i][k].muteks>>
           /\ cvProcesy[i] = <<>> => absSleepers(i) = <<>>
<1>1. \A k \in 1 .. Len(cvProcesy[i]) : cvProcesy[i][k].proces \in Proc /\ cvProcesy[i][k].muteks \in Mutex
  BY EntryTypes
<1>2. PICK n \in Nat : n = Len(cvProcesy[i])
  BY EntryTypes
<1>3. absSleepers(i) \in [1 .. n -> Proc \X Mutex]
  BY <1>1, <1>2 DEF absSleepers
<1>4. absSleepers(i) \in Seq(Proc \X Mutex) /\ Len(absSleepers(i)) = n
  BY <1>2, <1>3
<1>5. \A k \in 1 .. Len(cvProcesy[i]) :
         absSleepers(i)[k] = <<cvProcesy[i][k].proces, cvProcesy[i][k].muteks>>
  BY DEF absSleepers
<1>6. cvProcesy[i] = <<>> => absSleepers(i) = <<>>
  BY <1>2, <1>4
<1> QED BY <1>2, <1>4, <1>5, <1>6

\* The same after a step.
SleepersPaired ==
    \A i \in CvSlot : /\ absSleepers(i) \in Seq(Proc \X Mutex)
                      /\ Len(absSleepers(i)) = Len(cvProcesy[i])
LEMMA AbsSleepersNext == TypeOK' => SleepersPaired'
<1>1. TypeOK => SleepersPaired
  BY AbsSleepers DEF SleepersPaired
<1> QED BY <1>1, PTL

\* Without a change in M the abstract mutexes stay, without one in CV the
\* abstract condition variables.
LEMMA TablesSeen ==
    /\ UNCHANGED <<uzywany, numer, wlasciciel, kolejka>> =>
         absOwner' = absOwner /\ absQueue' = absQueue
    /\ UNCHANGED <<cvUzywany, cvNumer, cvProcesy>> /\ server'.i = server.i =>
         absAsleep' = absAsleep /\ absWaking' = absWaking
<1>1. ASSUME UNCHANGED <<uzywany, numer, wlasciciel, kolejka>>
      PROVE  absOwner' = absOwner /\ absQueue' = absQueue
  <2>1. \A m : indeksUzywanegoMutexa(m)' = indeksUzywanegoMutexa(m)
    BY <1>1 DEF indeksUzywanegoMutexa
  <2> QED BY <1>1, <2>1 DEF absOwner, absQueue
<1>2. ASSUME UNCHANGED <<cvUzywany, cvNumer, cvProcesy>>, server'.i = server.i
      PROVE  absAsleep' = absAsleep /\ absWaking' = absWaking
  <2>1. \A c : indeksUzywanegoCv(c)' = indeksUzywanegoCv(c)
    BY <1>2 DEF indeksUzywanegoCv
  <2>2. absAsleep' = absAsleep
    BY <1>2, <2>1 DEF absAsleep, absSleepers
  <2> QED BY <1>2, <2>2 DEF absWaking, absSleepers
<1> QED BY <1>1, <1>2

\* A step that changes neither the tables nor the row a broadcast is at
\* changes nothing abstract.
LEMMA Unseen ==
    ASSUME UNCHANGED <<uzywany, numer, wlasciciel, kolejka, cvUzywany, cvNumer, cvProcesy>>,
           server'.i = server.i
    PROVE  UNCHANGED Abstract!absVars
BY TablesSeen DEF Abstract!absVars

\* A mutex whose row is not touched stays as it is.
LEMMA MutexKept ==
    ASSUME IInv, IInv', NEW m \in Mutex,
           \A i \in Slot : i \in UsedSlot /\ numer[i] = m <=> i \in UsedSlot' /\ numer'[i] = m,
           \A i \in UsedSlot : numer[i] = m =>
              wlasciciel'[i] = wlasciciel[i] /\ kolejka'[i] = kolejka[i]
    PROVE  absOwner'[m] = absOwner[m] /\ absQueue'[m] = absQueue[m]
<1>1. MutexRows /\ MutexRows'
  BY AbsRows, AbsRowsNext
<1>2. CASE \E i \in UsedSlot : numer[i] = m
  <2>1. PICK i \in UsedSlot : numer[i] = m
    BY <1>2
  <2>2. i \in UsedSlot' /\ numer'[i] = m
    BY <2>1 DEF UsedSlot
  <2> QED BY <1>1, <2>1, <2>2 DEF MutexRows
<1>3. CASE \A i \in UsedSlot : numer[i] # m
  <2>1. \A i \in UsedSlot' : numer'[i] # m
    BY <1>3 DEF UsedSlot
  <2> QED BY <1>1, <1>3, <2>1 DEF MutexRows
<1> QED BY <1>2, <1>3

\* Whoever sends a request waits for nothing.
LEMMA NotWaiting ==
    ASSUME IInv, NEW p \in Proc, NEW typ, Receives(p, typ)
    PROVE  ~Abstract!Waiting(p)
<1>1. /\ \A i \in Slot : \A k \in 1 .. Len(kolejka[i]) : kolejka[i][k] # p
      /\ \A i \in UsedCvSlot : \A k \in 1 .. Len(cvProcesy[i]) : cvProcesy[i][k].proces # p
      /\ server.at = "receive"
  BY ReceivedProperties
<1>2. MutexRows /\ CvRows /\ TypeOK /\ server.i = -1
  BY <1>1, AbsRows DEF IInv, BroadcastState
<1>3. \A m \in Mutex : \A k \in 1 .. Len(absQueue[m]) : absQueue[m][k] # p
  <2> SUFFICES ASSUME NEW m \in Mutex, NEW k \in 1 .. Len(absQueue[m]) PROVE absQueue[m][k] # p
    OBVIOUS
  <2>1. CASE \E i \in UsedSlot : numer[i] = m
    BY <1>1, <1>2, <2>1 DEF MutexRows, UsedSlot
  <2>2. CASE \A i \in UsedSlot : numer[i] # m
    BY <1>2, <2>2 DEF MutexRows
  <2> QED BY <2>1, <2>2
<1>4. \A c \in CondVar : \A k \in 1 .. Len(absAsleep[c]) : absAsleep[c][k][1] # p
  <2> SUFFICES ASSUME NEW c \in CondVar, NEW k \in 1 .. Len(absAsleep[c])
               PROVE  absAsleep[c][k][1] # p
    OBVIOUS
  <2>1. CASE \E i \in UsedCvSlot : cvNumer[i] = c
    <3>1. PICK i \in UsedCvSlot : cvNumer[i] = c
      BY <2>1
    <3>2. i \in CvSlot /\ i # server.i
      BY <1>2 DEF UsedCvSlot, CvSlot
    <3>3. absAsleep[c] = absSleepers(i)
      BY <1>2, <3>1, <3>2 DEF CvRows
    <3>4. k \in 1 .. Len(cvProcesy[i])
          /\ absAsleep[c][k] = <<cvProcesy[i][k].proces, cvProcesy[i][k].muteks>>
      BY <1>2, <3>2, <3>3, AbsSleepers
    <3> QED BY <1>1, <3>1, <3>4
  <2>2. CASE \A i \in UsedCvSlot : cvNumer[i] # c
    BY <1>2, <2>2 DEF CvRows
  <2> QED BY <2>1, <2>2
<1>5. absWaking = <<>>
  BY <1>2 DEF absWaking
<1> QED BY <1>3, <1>4, <1>5 DEF Abstract!Waiting, Abstract!InQueue, Abstract!IsAsleep

-----------------------------------------------------------------------------
(***************************************************************************)
(* cs_lock, by itself and for those a broadcast wakes.                     *)
(***************************************************************************)

\* cs_lock for a process that does not own the mutex acquires it or queues.
LEMMA LockAcquires ==
    ASSUME IInv, JInv, IInv', NEW p \in Proc, NEW m \in Mutex, ~LockOverflows(m), cs_lock(p, m),
           ~Owns(p, m)
    PROVE  Abstract!Acquire(p, m)
<1> DEFINE i == indeksUzywanegoMutexa(m)
           f == freeMutex
<1>1. TypeOK /\ FreeRowsEmpty /\ OwnersAreProcesses
  BY DEF IInv, JInv
<1>2. MutexRows /\ MutexRows'
  BY AbsRows, AbsRowsNext
<1>3. /\ i # -1 => i \in Slot /\ uzywany[i] = 1 /\ numer[i] = m
      /\ i = -1 => \A j \in Slot : uzywany[j] = 1 => numer[j] # m
  BY <1>1, IndexOfMutex
<1>4. /\ uzywany \in [Slot -> {0, 1}] /\ numer \in [Slot -> Mutex \cup {Zero}]
      /\ wlasciciel \in [Slot -> Proc \cup {Zero}] /\ kolejka \in [Slot -> Seq(Proc)]
  BY <1>1 DEF TypeOK
<1>5. CASE i = -1
  <2>1. f \in Slot /\ uzywany[f] = 0
    BY <1>1, <1>5, FreeRows DEF LockOverflows
  <2>2. /\ numer' = [numer EXCEPT ![f] = m] /\ wlasciciel' = [wlasciciel EXCEPT ![f] = p]
        /\ uzywany' = [uzywany EXCEPT ![f] = 1] /\ kolejka' = kolejka
    BY <1>5 DEF cs_lock
  <2> HIDE DEF f
  <2>3. numer'[f] = m /\ wlasciciel'[f] = p /\ f \in UsedSlot' /\ kolejka'[f] = <<>>
    BY <1>1, <1>4, <2>1, <2>2 DEF UsedSlot, FreeRowsEmpty
  <2>4. absOwner[m] = Zero /\ absQueue[m] = <<>>
    BY <1>2, <1>3, <1>5 DEF MutexRows, UsedSlot
  <2>5. absOwner'[m] = p /\ absQueue'[m] = <<>>
    BY <1>2, <2>3 DEF MutexRows
  <2>6. ASSUME NEW x \in Mutex, x # m
        PROVE  absOwner'[x] = absOwner[x] /\ absQueue'[x] = absQueue[x]
    <3>1. \A j \in Slot : j # f => uzywany'[j] = uzywany[j] /\ numer'[j] = numer[j]
                                   /\ wlasciciel'[j] = wlasciciel[j]
      BY <1>4, <2>2
    <3>2. \A j \in Slot : j \in UsedSlot /\ numer[j] = x <=> j \in UsedSlot' /\ numer'[j] = x
      BY <2>1, <2>3, <2>6, <3>1 DEF UsedSlot
    <3>3. \A j \in UsedSlot : j # f /\ j \in Slot
      BY <2>1 DEF UsedSlot
    <3> QED BY <2>2, <3>1, <3>2, <3>3, MutexKept
  <2>7. absOwner' = [absOwner EXCEPT ![m] = p]
    BY <2>5, <2>6, AbsFunctions, AbsFunctionsNext
  <2>8. absQueue' = absQueue
    BY <2>4, <2>5, <2>6, AbsFunctions, AbsFunctionsNext
  <2> QED BY <2>4, <2>7, <2>8 DEF Abstract!Acquire
<1>6. CASE i # -1
  <2>1. wlasciciel[i] # p /\ i \in Slot /\ i \in UsedSlot /\ numer[i] = m
    BY <1>3, <1>6 DEF Owns, UsedSlot
  <2>2. /\ kolejka' = [kolejka EXCEPT ![i] = Append(kolejka[i], p)]
        /\ uzywany' = uzywany /\ numer' = numer /\ wlasciciel' = wlasciciel
    BY <1>6, <2>1 DEF cs_lock
  <2> HIDE DEF i
  <2>3. absOwner[m] = wlasciciel[i] /\ absQueue[m] = kolejka[i]
    BY <1>2, <2>1 DEF MutexRows
  <2>4. absOwner'[m] = wlasciciel[i] /\ absQueue'[m] = Append(kolejka[i], p)
    BY <1>2, <1>4, <2>1, <2>2 DEF MutexRows, UsedSlot
  <2>5. ASSUME NEW x \in Mutex, x # m
        PROVE  absOwner'[x] = absOwner[x] /\ absQueue'[x] = absQueue[x]
    <3>1. \A j \in Slot : j \in UsedSlot /\ numer[j] = x <=> j \in UsedSlot' /\ numer'[j] = x
      BY <2>2 DEF UsedSlot
    <3>2. \A j \in UsedSlot : numer[j] = x => j # i /\ j \in Slot
      BY <2>1, <2>5 DEF UsedSlot
    <3>3. \A j \in UsedSlot : numer[j] = x =>
             wlasciciel'[j] = wlasciciel[j] /\ kolejka'[j] = kolejka[j]
      BY <1>4, <2>2, <3>2
    <3> QED BY <3>1, <3>3, MutexKept
  <2>6. absOwner' = absOwner
    BY <2>3, <2>4, <2>5, AbsFunctions, AbsFunctionsNext
  <2>7. absQueue' = [absQueue EXCEPT ![m] = Append(absQueue[m], p)]
    BY <2>3, <2>4, <2>5, AbsFunctions, AbsFunctionsNext
  <2>8. absOwner[m] \notin {Zero, p}
    BY <1>1, <2>1, <2>3, ZeroAssumption DEF OwnersAreProcesses
  <2> QED BY <2>6, <2>7, <2>8 DEF Abstract!Acquire
<1> QED BY <1>5, <1>6

\* cs_lock is Lock; a lock of a mutex one owns changes nothing.
LEMMA HandleLockRefines ==
    ASSUME IInv, JInv, IInv', NEW p \in Proc, HandleLock(p)
    PROVE  (\E m \in Mutex : Abstract!Lock(p, m)) \/ UNCHANGED Abstract!absVars
<1> DEFINE m == client[p].req.mutex
<1>1. /\ Receives(p, "CS_LOCK") /\ ~LockOverflows(m) /\ cs_lock(p, m)
      /\ wyslijWiadomosc(Received(p), Answer(p, LockResult(p, m)), Idle)
      /\ UNCHANGED <<cvUzywany, cvNumer, cvProcesy, life, async>>
  BY DEF HandleLock, cvVars
<1>2. TypeOK /\ NeverStuck' /\ BroadcastState
  BY DEF IInv
<1>3. server.at = "receive" /\ client[p].req.typ = "CS_LOCK"
  BY <1>1 DEF Receives
<1>4. m \in Mutex
  <2>1. client[p].req \in Request \cup {NoRequest}
    BY <1>2 DEF TypeOK
  <2> QED BY <1>3, <2>1, RequestFields
<1>5. server' = Idle
  BY <1>1, <1>2 DEF wyslijWiadomosc, NeverStuck, TypeOK
<1>6. server'.i = server.i
  BY <1>2, <1>3, <1>5 DEF BroadcastState, Idle
<1> HIDE DEF m
<1>7. CASE Owns(p, m)
  <2>1. UNCHANGED <<uzywany, numer, wlasciciel, kolejka>>
    BY <1>1, <1>7 DEF cs_lock, Owns
  <2> QED BY <1>1, <1>6, <2>1, Unseen
<1>8. CASE ~Owns(p, m)
  <2>1. Abstract!Acquire(p, m)
    BY <1>1, <1>4, <1>8, LockAcquires
  <2>2. ~Abstract!Waiting(p)
    BY <1>1, NotWaiting
  <2>3. absAsleep' = absAsleep /\ absWaking' = absWaking
    BY <1>1, <1>6, TablesSeen
  <2> QED BY <1>4, <2>1, <2>2, <2>3 DEF Abstract!Lock
<1> QED BY <1>7, <1>8

\* Tail takes the first element off.
LEMMA TailProperties ==
    ASSUME NEW T, NEW s \in Seq(T), s # <<>>
    PROVE  /\ Tail(s) \in Seq(T) /\ Len(s) \in Nat /\ Len(Tail(s)) = Len(s) - 1
           /\ 1 \in 1 .. Len(s)
           /\ \A k \in 1 .. Len(s) - 1 : k + 1 \in 1 .. Len(s) /\ Tail(s)[k] = s[k + 1]
OBVIOUS

\* Two sequences of one length with the same elements are the same.
LEMMA SameElements ==
    ASSUME NEW T, NEW s \in Seq(T), NEW t \in Seq(T), Len(s) = Len(t),
           \A k \in 1 .. Len(s) : s[k] = t[k]
    PROVE  s = t
OBVIOUS

\* A broadcast takes the sleepers of its condition variable.
LEMMA BroadcastRefines ==
    ASSUME IInv, IInv', NEW p \in Proc, cs_broadcast(p)
    PROVE  \E c \in CondVar : Abstract!Broadcast(c)
<1> DEFINE c == client[p].req.cv
           i == indeksUzywanegoCv(c)
<1>1. /\ Receives(p, "CS_BROADCAST") /\ i # -1
      /\ server' = [at |-> "broadcast", original |-> p, i |-> i]
      /\ UNCHANGED <<uzywany, numer, wlasciciel, kolejka, cvUzywany, cvNumer, cvProcesy>>
  BY DEF cs_broadcast, tables
<1>2. TypeOK /\ server.i = -1 /\ CvRows /\ CvRows' /\ DistinctNumbers
  BY <1>1, AbsRows, AbsRowsNext DEF IInv, BroadcastState, Receives
<1>3. c \in CondVar
  <2>1. client[p].req \in Request \cup {NoRequest} /\ client[p].req.typ = "CS_BROADCAST"
    BY <1>1, <1>2 DEF TypeOK, Receives
  <2> QED BY <2>1, RequestFields
<1>4. i \in CvSlot /\ i \in UsedCvSlot /\ cvNumer[i] = c
  BY <1>1, <1>2, IndexOfCv DEF UsedCvSlot
<1>i. PICK r : r = i
  OBVIOUS
<1>c. PICK d : d = c
  OBVIOUS
<1>5. server'.i = r /\ r # -1 /\ r \in CvSlot /\ r \in UsedCvSlot /\ cvNumer[r] = d /\ d \in CondVar
  BY <1>1, <1>3, <1>4, <1>i, <1>c
<1> HIDE DEF c, i
<1>6. UsedCvSlot' = UsedCvSlot /\ \A j : absSleepers(j)' = absSleepers(j)
  BY <1>1 DEF UsedCvSlot, absSleepers
<1>7. absWaking = <<>> /\ absWaking' = absSleepers(r) /\ absAsleep[d] = absSleepers(r)
  BY <1>1, <1>2, <1>5, <1>6 DEF absWaking, CvRows, absSleepers
<1>8. absAsleep'[d] = <<>>
  BY <1>1, <1>2, <1>5, <1>6 DEF CvRows
<1>9. ASSUME NEW x \in CondVar, x # d PROVE absAsleep'[x] = absAsleep[x]
  <2>1. CASE \E j \in UsedCvSlot : cvNumer[j] = x
    <3>1. PICK j \in UsedCvSlot : cvNumer[j] = x
      BY <2>1
    <3>2. j # r /\ j # -1
      BY <1>5, <1>9, <3>1 DEF UsedCvSlot, CvSlot
    <3>3. absAsleep[x] = absSleepers(j)
      BY <1>2, <3>1, <3>2 DEF CvRows
    <3>4. absAsleep'[x] = absSleepers(j)'
      BY <1>1, <1>2, <1>5, <1>6, <3>1, <3>2 DEF CvRows
    <3> QED BY <1>6, <3>3, <3>4
  <2>2. CASE \A j \in UsedCvSlot : cvNumer[j] # x
    BY <1>1, <1>2, <1>6, <2>2 DEF CvRows
  <2> QED BY <2>1, <2>2
<1>10. absAsleep' = [absAsleep EXCEPT ![d] = <<>>]
  BY <1>8, <1>9, AbsFunctions, AbsFunctionsNext
<1>11. absOwner' = absOwner /\ absQueue' = absQueue
  BY <1>1, TablesSeen
<1>12. Abstract!Broadcast(d)
  BY <1>7, <1>10, <1>11 DEF Abstract!Broadcast
<1> QED BY <1>5, <1>12

\* One turn of the loop of cs_broadcast wakes the first of them.
LEMMA BroadcastNextRefines ==
    ASSUME IInv, JInv, IInv', BroadcastNext
    PROVE  Abstract!Wake
<1> DEFINE w == Head(cvProcesy[server.i])
<1>1. PICK r : r = server.i
  OBVIOUS
<1>2. /\ server.at = "broadcast" /\ cvProcesy[r] # <<>> /\ ~LockOverflows(w.muteks)
      /\ cs_lock(w.proces, w.muteks)
      /\ cvProcesy' = [cvProcesy EXCEPT ![r] = Tail(cvProcesy[r])]
      /\ UNCHANGED <<cvUzywany, cvNumer, life, async>>
  BY <1>1 DEF BroadcastNext
<1>3. TypeOK /\ TypeOK' /\ NeverStuck' /\ OwnersDoNotWait /\ CvRows /\ CvRows' /\ r \in UsedCvSlot
  BY <1>1, <1>2, AbsRows, AbsRowsNext DEF IInv, JInv, BroadcastState
<1>4. server' = server
  BY <1>3 DEF BroadcastNext, wyslijWiadomosc, NeverStuck, TypeOK
<1>5. r \in CvSlot /\ r # -1 /\ server'.i = r
  BY <1>1, <1>3, <1>4 DEF UsedCvSlot, CvSlot
<1>6. cvProcesy[r] \in Seq(Waiter) /\ cvProcesy'[r] = Tail(cvProcesy[r])
      /\ \A j \in CvSlot : j # r => cvProcesy'[j] = cvProcesy[j]
  BY <1>2, <1>3, <1>5 DEF TypeOK
<1>7. w = cvProcesy[r][1] /\ 1 \in 1 .. Len(cvProcesy[r])
  BY <1>1, <1>2, <1>6
<1>8. w.proces \in Proc /\ w.muteks \in Mutex
  BY <1>3, <1>5, <1>7, EntryTypes
<1>p. PICK q \in Proc : q = w.proces
  BY <1>8
<1>m. PICK m \in Mutex : m = w.muteks
  BY <1>8
<1> HIDE DEF w
<1>9. ~Owns(q, m)
  <2> SUFFICES ASSUME Owns(q, m) PROVE FALSE
    OBVIOUS
  <2> DEFINE j == indeksUzywanegoMutexa(m)
  <2>1. j \in UsedSlot /\ numer[j] = m /\ wlasciciel[j] = q
    BY <1>3, IndexOfMutex DEF Owns, UsedSlot
  <2> QED BY <1>3, <1>7, <1>p, <1>m, <2>1 DEF OwnersDoNotWait
<1>10. Abstract!Acquire(q, m)
  BY <1>2, <1>p, <1>m, <1>9, LockAcquires
<1> DEFINE a == absSleepers(r)
           b == absSleepers(r)'
<1>11. absWaking = a /\ absWaking' = b
  BY <1>1, <1>4, <1>5 DEF absWaking, absSleepers
<1>12. /\ a \in Seq(Proc \X Mutex) /\ Len(a) = Len(cvProcesy[r])
       /\ \A k \in 1 .. Len(cvProcesy[r]) : a[k] = <<cvProcesy[r][k].proces, cvProcesy[r][k].muteks>>
  BY <1>3, <1>5, AbsSleepers
<1>13. \A k \in 1 .. Len(cvProcesy'[r]) : b[k] = <<cvProcesy'[r][k].proces, cvProcesy'[r][k].muteks>>
  BY DEF absSleepers
<1>14. b \in Seq(Proc \X Mutex) /\ Len(b) = Len(cvProcesy'[r])
  BY <1>3, <1>5, AbsSleepersNext DEF SleepersPaired
<1> DEFINE s == cvProcesy[r]
           n == Len(s)
<1>15. /\ n \in Nat /\ 1 \in 1 .. n /\ Len(cvProcesy'[r]) = n - 1
       /\ \A k \in 1 .. n - 1 : k + 1 \in 1 .. n /\ cvProcesy'[r][k] = s[k + 1]
  BY <1>2, <1>6, TailProperties
<1> HIDE DEF a, b, s
<1>a. a # <<>>
  BY <1>12, <1>15 DEF s
<1>t. /\ Tail(a) \in Seq(Proc \X Mutex) /\ Len(Tail(a)) = n - 1
      /\ \A k \in 1 .. n - 1 : Tail(a)[k] = a[k + 1]
  BY <1>12, <1>a, TailProperties DEF s
<1>16. b = Tail(a)
  <2>1. \A k \in 1 .. n - 1 : b[k] = a[k + 1]
    BY <1>12, <1>13, <1>15 DEF s
  <2>2. Len(b) = Len(Tail(a)) /\ Len(b) = n - 1
    BY <1>14, <1>15, <1>t
  <2>3. \A k \in 1 .. Len(b) : b[k] = Tail(a)[k]
    BY <1>t, <2>1, <2>2
  <2>4. b \in Seq(Proc \X Mutex) /\ Tail(a) \in Seq(Proc \X Mutex)
    BY <1>14, <1>t
  <2> QED BY <2>2, <2>3, <2>4, SameElements
<1>17. a[1][1] = q /\ a[1][2] = m
  BY <1>7, <1>12, <1>p, <1>m
<1>18. absAsleep' = absAsleep
  <2>1. ASSUME NEW x \in CondVar PROVE absAsleep'[x] = absAsleep[x]
    <3>0. UsedCvSlot' = UsedCvSlot
      BY <1>2 DEF UsedCvSlot
    <3>1. CASE \E j \in UsedCvSlot : cvNumer[j] = x
      <4>1. PICK j \in UsedCvSlot : cvNumer[j] = x
        BY <3>1
      <4>2. absAsleep[x] = IF j = r THEN <<>> ELSE absSleepers(j)
        BY <1>1, <1>3, <4>1 DEF CvRows
      <4>3. absAsleep'[x] = IF j = r THEN <<>> ELSE absSleepers(j)'
        BY <1>2, <1>3, <1>5, <3>0, <4>1 DEF CvRows
      <4>4. j # r => absSleepers(j)' = absSleepers(j)
        BY <1>6 DEF absSleepers, UsedCvSlot
      <4> QED BY <4>2, <4>3, <4>4
    <3>2. CASE \A j \in UsedCvSlot : cvNumer[j] # x
      BY <1>2, <1>3, <3>0, <3>2 DEF CvRows
    <3> QED BY <3>1, <3>2
  <2> QED BY <2>1, AbsFunctions, AbsFunctionsNext
<1> QED BY <1>10, <1>11, <1>a, <1>16, <1>17, <1>18 DEF Abstract!Wake

\* The end of the broadcast and of those who have left it changes nothing.
LEMMA BroadcastEndRefines ==
    ASSUME IInv, IInv', BroadcastEnd
    PROVE  UNCHANGED Abstract!absVars
<1>1. PICK r : r = server.i
  OBVIOUS
<1>2. /\ server.at = "broadcast" /\ cvProcesy[r] = <<>>
      /\ cvUzywany' = [cvUzywany EXCEPT ![r] = 0] /\ cvNumer' = [cvNumer EXCEPT ![r] = Zero]
      /\ UNCHANGED <<uzywany, numer, wlasciciel, kolejka, cvProcesy, life, async>>
  BY <1>1 DEF BroadcastEnd, mutexVars
<1>3. TypeOK /\ NeverStuck' /\ CvRows /\ CvRows' /\ r \in UsedCvSlot /\ DistinctNumbers
  BY <1>1, <1>2, AbsRows, AbsRowsNext DEF IInv, BroadcastState
<1>4. server' = Idle
  BY <1>3 DEF BroadcastEnd, wyslijWiadomosc, NeverStuck, TypeOK
<1>5. r \in CvSlot /\ r # -1 /\ server'.i = -1
  BY <1>3, <1>4 DEF UsedCvSlot, CvSlot, Idle
<1>6. absWaking' = absWaking
  BY <1>1, <1>2, <1>3, <1>5, AbsSleepers DEF absWaking
<1>7. /\ \A j \in CvSlot : j \in UsedCvSlot' <=> j \in UsedCvSlot /\ j # r
      /\ \A j \in UsedCvSlot' : cvNumer'[j] = cvNumer[j] /\ j \in UsedCvSlot /\ j # r /\ j # -1
  BY <1>2, <1>3, <1>5 DEF UsedCvSlot, TypeOK, CvSlot
<1>8. \A j : absSleepers(j)' = absSleepers(j)
  BY <1>2 DEF absSleepers
<1>9. ASSUME NEW x \in CondVar PROVE absAsleep'[x] = absAsleep[x]
  <2>1. CASE \E j \in UsedCvSlot' : cvNumer'[j] = x
    <3>1. PICK j \in UsedCvSlot' : cvNumer'[j] = x
      BY <2>1
    <3>2. absAsleep[x] = absSleepers(j)
      BY <1>1, <1>3, <1>7, <3>1 DEF CvRows
    <3>3. absAsleep'[x] = absSleepers(j)'
      BY <1>3, <1>5, <1>7, <3>1 DEF CvRows
    <3> QED BY <1>8, <3>2, <3>3
  <2>2. CASE \A j \in UsedCvSlot' : cvNumer'[j] # x
    <3>1. absAsleep'[x] = <<>>
      BY <1>3, <2>2 DEF CvRows
    <3>2. absAsleep[x] = <<>>
      <4>1. CASE cvNumer[r] = x
        BY <1>1, <1>3, <4>1 DEF CvRows
      <4>2. CASE cvNumer[r] # x
        <5>1. \A j \in UsedCvSlot : cvNumer[j] # x
          BY <1>7, <2>2, <4>2 DEF UsedCvSlot
        <5> QED BY <1>3, <5>1 DEF CvRows
      <4> QED BY <4>1, <4>2
    <3> QED BY <3>1, <3>2
  <2> QED BY <2>1, <2>2
<1>10. absAsleep' = absAsleep
  BY <1>9, AbsFunctions, AbsFunctionsNext
<1>11. absOwner' = absOwner /\ absQueue' = absQueue
  BY <1>2, TablesSeen
<1> QED BY <1>6, <1>10, <1>11 DEF Abstract!absVars

-----------------------------------------------------------------------------
(***************************************************************************)
(* Giving mutexes back.                                                    *)
(***************************************************************************)

\* The rows in J pass on their mutexes, with the queues Q; the others keep
\* their owners; without a row in use the queue is empty.
PassedOn(J, Q) ==
    /\ \A i \in UsedSlot : numer[i] \in Mutex =>
         /\ absOwner'[numer[i]] = IF i \in J THEN Abstract!NextOwner(numer[i]) ELSE absOwner[numer[i]]
         /\ Q[i] = IF i \in J THEN Abstract!NextQueue(numer[i]) ELSE absQueue[numer[i]]
         /\ uzywany'[i] = 1 => absQueue'[numer[i]] = kolejka'[i]
         /\ uzywany'[i] # 1 => absQueue'[numer[i]] = <<>> /\ Q[i] = <<>>
    /\ \A x \in Mutex : (\A i \in UsedSlot : numer[i] # x) =>
         /\ absOwner[x] = Zero /\ absOwner'[x] = Zero
         /\ absQueue[x] = <<>> /\ absQueue'[x] = <<>>

\* UnlockSlots does that.
LEMMA RowsPassOn ==
    ASSUME IInv, IInv', NEW J \in SUBSET UsedSlot, UnlockSlots(J), NEW Q, Q = QueuesAfterUnlock(J)
    PROVE  PassedOn(J, Q)
<1> DEFINE H == HandedOver(J)
<1>1. TypeOK /\ MutexRows /\ MutexRows' /\ DistinctNumbers
  BY AbsRows, AbsRowsNext DEF IInv
<1>2. /\ uzywany' \in [Slot -> {0, 1}] /\ numer' = numer
      /\ \A i \in Slot : uzywany'[i] = 1 => uzywany[i] = 1
      /\ \A i \in Slot : uzywany'[i] = 0 => Q[i] = <<>>
      /\ \A i \in UsedSlot \ J : uzywany'[i] = 1 /\ wlasciciel'[i] = wlasciciel[i]
      /\ \A i \in H : uzywany'[i] = 1
  BY UnlockTables
<1>3. \A i \in Slot : /\ i \in H => wlasciciel'[i] = Head(kolejka[i]) /\ Q[i] = Tail(kolejka[i])
                      /\ i \notin H => Q[i] = kolejka[i]
                      /\ i \in J /\ i \notin H => uzywany'[i] = 0
  BY DEF UnlockSlots, QueuesAfterUnlock
<1>4. \A i \in J : i \in H <=> kolejka[i] # <<>>
  BY DEF HandedOver
<1>5. H \subseteq J
  BY DEF HandedOver
<1>6. \A i \in UsedSlot' : i \in UsedSlot /\ i \in Slot /\ numer'[i] = numer[i]
  BY <1>2 DEF UsedSlot
<1>7. \A x \in Mutex : (\A i \in UsedSlot : numer[i] # x) =>
         /\ absOwner[x] = Zero /\ absOwner'[x] = Zero
         /\ absQueue[x] = <<>> /\ absQueue'[x] = <<>>
  BY <1>1, <1>6 DEF MutexRows
<1> HIDE DEF H
<1>8. ASSUME NEW i \in UsedSlot, numer[i] \in Mutex
      PROVE  /\ absOwner'[numer[i]] = IF i \in J THEN Abstract!NextOwner(numer[i]) ELSE absOwner[numer[i]]
             /\ Q[i] = IF i \in J THEN Abstract!NextQueue(numer[i]) ELSE absQueue[numer[i]]
             /\ uzywany'[i] = 1 => absQueue'[numer[i]] = kolejka'[i]
             /\ uzywany'[i] # 1 => absQueue'[numer[i]] = <<>> /\ Q[i] = <<>>
  <2>m. PICK m \in Mutex : m = numer[i]
    BY <1>8
  <2>1. absOwner[m] = wlasciciel[i] /\ absQueue[m] = kolejka[i] /\ i \in Slot
    BY <1>1, <2>m DEF MutexRows, UsedSlot
  <2>2. uzywany'[i] = 1 => absOwner'[m] = wlasciciel'[i] /\ absQueue'[m] = kolejka'[i]
    BY <1>1, <1>2, <2>m, <2>1 DEF MutexRows, UsedSlot
  <2>3. uzywany'[i] # 1 => absOwner'[m] = Zero /\ absQueue'[m] = <<>> /\ Q[i] = <<>>
    <3> SUFFICES ASSUME uzywany'[i] # 1
                 PROVE  absOwner'[m] = Zero /\ absQueue'[m] = <<>> /\ Q[i] = <<>>
      OBVIOUS
    <3>1. \A j \in UsedSlot' : numer'[j] # m
      BY <1>1, <1>6, <2>m DEF DistinctNumbers, UsedSlot
    <3>2. uzywany'[i] = 0
      BY <1>2, <2>1
    <3> QED BY <1>1, <1>2, <2>1, <3>1, <3>2 DEF MutexRows
  <2>4. CASE i \notin J
    <3>1. uzywany'[i] = 1 /\ wlasciciel'[i] = wlasciciel[i]
      BY <1>2, <2>4
    <3>2. Q[i] = kolejka[i]
      BY <1>3, <1>5, <2>1, <2>4
    <3> QED BY <2>m, <2>1, <2>2, <2>3, <2>4, <3>1, <3>2
  <2>5. CASE i \in J /\ i \in H
    <3>1. kolejka[i] # <<>> /\ uzywany'[i] = 1
      BY <1>2, <1>4, <2>5
    <3>2. Abstract!NextOwner(m) = Head(kolejka[i]) /\ Abstract!NextQueue(m) = Tail(kolejka[i])
      BY <2>1, <3>1 DEF Abstract!NextOwner, Abstract!NextQueue
    <3> QED BY <1>3, <2>m, <2>1, <2>2, <2>5, <3>1, <3>2
  <2>6. CASE i \in J /\ i \notin H
    <3>1. kolejka[i] = <<>> /\ uzywany'[i] = 0
      BY <1>3, <1>4, <2>1, <2>6
    <3>2. Abstract!NextOwner(m) = Zero /\ Abstract!NextQueue(m) = <<>>
      BY <2>1, <3>1 DEF Abstract!NextOwner, Abstract!NextQueue
    <3> QED BY <2>m, <2>3, <2>6, <3>1, <3>2
  <2> QED BY <2>4, <2>5, <2>6
<1> QED BY <1>7, <1>8 DEF PassedOn

\* cs_unlock and the first half of cs_wait pass the mutex on.
LEMMA UnlockPassesOn ==
    ASSUME IInv, IInv', NEW p \in Proc, NEW m \in Mutex, Owns(p, m),
           UnlockSlots({indeksUzywanegoMutexa(m)}),
           kolejka' = QueuesAfterUnlock({indeksUzywanegoMutexa(m)})
    PROVE  absOwner[m] = p /\ Abstract!PassOn({m})
<1>j. PICK J : J = {indeksUzywanegoMutexa(m)}
  OBVIOUS
<1>1. /\ J \in SUBSET UsedSlot /\ \A i \in J : wlasciciel[i] = p /\ numer[i] = m
      /\ \A i \in UsedSlot : numer[i] = m => i \in J
  BY <1>j, OwnRow
<1>2. PICK r \in UsedSlot : r \in J /\ wlasciciel[r] = p /\ numer[r] = m
  BY <1>1, <1>j
<1>3. UnlockSlots(J) /\ kolejka' = QueuesAfterUnlock(J)
  BY <1>j
<1>q. PICK Q : Q = QueuesAfterUnlock(J) /\ Q = kolejka'
  BY <1>3
<1>4. PassedOn(J, Q)
  BY <1>1, <1>3, <1>q, RowsPassOn
<1>5. absOwner[m] = p
  BY <1>2, AbsRows DEF MutexRows
<1>6. ASSUME NEW x \in Mutex
      PROVE  /\ absOwner'[x] = IF x \in {m} THEN Abstract!NextOwner(x) ELSE absOwner[x]
             /\ absQueue'[x] = IF x \in {m} THEN Abstract!NextQueue(x) ELSE absQueue[x]
  <2>1. CASE \E i \in UsedSlot : numer[i] = x
    <3>1. PICK i \in UsedSlot : numer[i] = x
      BY <2>1
    <3>2. i \in J <=> x = m
      BY <1>1, <3>1
    <3>3. absQueue'[x] = Q[i]
      BY <1>4, <1>q, <3>1 DEF PassedOn
    <3> QED BY <1>4, <3>1, <3>2, <3>3 DEF PassedOn
  <2>2. CASE \A i \in UsedSlot : numer[i] # x
    <3>1. x # m
      BY <1>2, <2>2
    <3> QED BY <1>4, <2>2, <3>1 DEF PassedOn
  <2> QED BY <2>1, <2>2
<1>7. /\ absOwner' = [x \in Mutex |-> IF x \in {m} THEN Abstract!NextOwner(x) ELSE absOwner[x]]
      /\ absQueue' = [x \in Mutex |-> IF x \in {m} THEN Abstract!NextQueue(x) ELSE absQueue[x]]
  BY <1>6, AbsFunctionsNext
<1> QED BY <1>5, <1>7 DEF Abstract!PassOn

\* cs_unlock is Unlock.  So is a cs_wait that finds no room in the tables: it
\* has given the mutex back when it runs past their end.
LEMMA UnlockRefines ==
    ASSUME IInv, JInv, IInv', NEW p \in Proc, cs_unlock(p) \/ WaitPastTable(p)
    PROVE  \E m \in Mutex : Abstract!Unlock(p, m)
<1>m. PICK m : m = client[p].req.mutex
  OBVIOUS
<1>1. PICK typ, next, k, msgs :
        /\ Receives(p, typ) /\ typ \in {"CS_UNLOCK", "CS_WAIT"} /\ Owns(p, m)
        /\ UnlockSlots({indeksUzywanegoMutexa(m)})
        /\ kolejka' = QueuesAfterUnlock({indeksUzywanegoMutexa(m)})
        /\ wyslijWiadomosc(k, msgs, next)
        /\ next = Idle \/ (\E a : next = [server EXCEPT !.at = a])
        /\ UNCHANGED <<cvUzywany, cvNumer, cvProcesy>>
  <2>1. CASE cs_unlock(p)
    BY <1>m, <2>1 DEF cs_unlock, cvVars
  <2>2. CASE WaitPastTable(p)
    BY <1>m, <2>2 DEF WaitPastTable, cvVars
  <2> QED BY <2>1, <2>2
<1>2. TypeOK /\ NeverStuck' /\ BroadcastState
  BY DEF IInv
<1>3. server.at = "receive" /\ client[p].req.typ = typ
  BY <1>1 DEF Receives
<1>4. m \in Mutex
  <2>1. client[p].req \in Request \cup {NoRequest}
    BY <1>2 DEF TypeOK
  <2> QED BY <1>m, <1>1, <1>3, <2>1, RequestFields
<1>5. server' = next
  BY <1>1, <1>2 DEF wyslijWiadomosc, NeverStuck, TypeOK
<1>6. server'.i = server.i
  <2>1. server.i = -1
    BY <1>2, <1>3 DEF BroadcastState
  <2>2. CASE next = Idle
    BY <1>5, <2>1, <2>2 DEF Idle
  <2>3. CASE \E a : next = [server EXCEPT !.at = a]
    BY <1>2, <1>5, <2>3 DEF TypeOK
  <2> QED BY <1>1, <2>2, <2>3
<1>7. absOwner[m] = p /\ Abstract!PassOn({m})
  BY <1>1, <1>4, UnlockPassesOn
<1>8. ~Abstract!Waiting(p)
  BY <1>1, NotWaiting
<1>9. absAsleep' = absAsleep /\ absWaking' = absWaking
  BY <1>1, <1>6, TablesSeen
<1> QED BY <1>4, <1>7, <1>8, <1>9 DEF Abstract!Unlock

\* cs_wait is Sleep.
LEMMA WaitRefines ==
    ASSUME IInv, JInv, IInv', NEW p \in Proc, cs_wait(p)
    PROVE  \E c \in CondVar : \E m \in Mutex : Abstract!Sleep(p, c, m)
<1>m. PICK m : m = client[p].req.mutex
  OBVIOUS
<1>c. PICK c : c = client[p].req.cv
  OBVIOUS
<1>e. PICK e : e = [proces |-> p, muteks |-> m]
  OBVIOUS
<1>1. /\ Receives(p, "CS_WAIT") /\ Owns(p, m)
      /\ UnlockSlots({indeksUzywanegoMutexa(m)})
      /\ kolejka' = QueuesAfterUnlock({indeksUzywanegoMutexa(m)})
      /\ CvAppended(c, e)
  BY <1>m, <1>c, <1>e DEF cs_wait, CvAppended
<1>2. TypeOK /\ TypeOK' /\ NeverStuck' /\ CvRows /\ CvRows' /\ DistinctNumbers
  BY AbsRows, AbsRowsNext DEF IInv
<1>3. server.i = -1 /\ client[p].req.typ = "CS_WAIT"
  BY <1>1 DEF Receives, IInv, BroadcastState
<1>4. m \in Mutex /\ c \in CondVar
  <2>1. client[p].req \in Request \cup {NoRequest}
    BY <1>2 DEF TypeOK
  <2> QED BY <1>m, <1>c, <1>3, <2>1, RequestFields
<1>5. server'.i = -1
  BY <1>2 DEF cs_wait, wyslijWiadomosc, NeverStuck, TypeOK, Idle
<1>6. absOwner[m] = p /\ Abstract!PassOn({m})
  BY <1>1, <1>4, UnlockPassesOn
<1>7. ~Abstract!Waiting(p)
  BY <1>1, NotWaiting
<1>8. absWaking' = absWaking
  BY <1>3, <1>5 DEF absWaking
<1>t. PICK t : t = CvTarget(c)
  OBVIOUS
<1>L. PICK L : L = CvWaiting(c)
  OBVIOUS
<1>9. \/ /\ t \in CvSlot /\ t \in UsedCvSlot /\ cvNumer[t] = c /\ L = cvProcesy[t]
      \/ /\ t \in CvSlot /\ t \notin UsedCvSlot /\ L = <<>> /\ \A j \in UsedCvSlot : cvNumer[j] # c
  <2>1. CASE indeksUzywanegoCv(c) = -1
    BY <1>1, <1>2, <1>t, <1>L, <2>1, IndexOfCv, FreeRows DEF CvTarget, CvWaiting, UsedCvSlot, CvAppended
  <2>2. CASE indeksUzywanegoCv(c) # -1
    BY <1>2, <1>t, <1>L, <2>2, IndexOfCv DEF CvTarget, CvWaiting, UsedCvSlot
  <2> QED BY <2>1, <2>2
<1>10. /\ cvUzywany' = [cvUzywany EXCEPT ![t] = 1] /\ cvNumer' = [cvNumer EXCEPT ![t] = c]
       /\ cvProcesy' = [cvProcesy EXCEPT ![t] = Append(L, e)]
  BY <1>1, <1>t, <1>L DEF CvAppended
<1>11. /\ t \in UsedCvSlot' /\ cvNumer'[t] = c /\ cvProcesy'[t] = Append(L, e) /\ t # -1
       /\ \A j \in CvSlot : j # t => /\ j \in UsedCvSlot' <=> j \in UsedCvSlot
                                     /\ cvNumer'[j] = cvNumer[j] /\ cvProcesy'[j] = cvProcesy[j]
  BY <1>2, <1>9, <1>10 DEF TypeOK, UsedCvSlot, CvSlot
<1>12. absAsleep'[c] = absSleepers(t)'
  BY <1>2, <1>4, <1>5, <1>11 DEF CvRows
<1>13. absAsleep[c] = [k \in 1 .. Len(L) |-> <<L[k].proces, L[k].muteks>>]
       /\ L \in Seq(Waiter) /\ absAsleep[c] \in Seq(Proc \X Mutex) /\ Len(absAsleep[c]) = Len(L)
  <2>1. CASE t \in CvSlot /\ t \in UsedCvSlot /\ cvNumer[t] = c /\ L = cvProcesy[t]
    <3>1. absAsleep[c] = absSleepers(t) /\ L \in Seq(Waiter)
      BY <1>2, <1>3, <1>4, <1>11, <2>1 DEF CvRows, TypeOK
    <3>2. absSleepers(t) \in Seq(Proc \X Mutex) /\ Len(absSleepers(t)) = Len(L)
      BY <1>2, <2>1, AbsSleepers
    <3> QED BY <2>1, <3>1, <3>2 DEF absSleepers
  <2>2. CASE L = <<>> /\ \A j \in UsedCvSlot : cvNumer[j] # c
    <3>1. absAsleep[c] = <<>>
      BY <1>2, <1>4, <2>2 DEF CvRows
    <3>2. PICK z : z = [k \in 1 .. Len(L) |-> <<L[k].proces, L[k].muteks>>]
      OBVIOUS
    <3>3. z \in [1 .. 0 -> {}] /\ 0 \in Nat
      BY <2>2, <3>2
    <3>4. z \in Seq({}) /\ Len(z) = 0
      BY <3>3
    <3>5. z = <<>>
      BY <3>4
    <3> QED BY <2>2, <3>1, <3>2, <3>5
  <2> QED BY <1>9, <2>1, <2>2
<1>14. absSleepers(t)' = Append(absAsleep[c], <<p, m>>)
  <2> DEFINE a == absAsleep[c]
             b == absSleepers(t)'
             x == <<p, m>>
             n == Len(L)
  <2>1. b \in Seq(Proc \X Mutex) /\ Len(b) = Len(cvProcesy'[t])
    BY <1>2, <1>9, AbsSleepersNext DEF SleepersPaired
  <2>2. e \in Waiter /\ e.proces = p /\ e.muteks = m /\ x \in Proc \X Mutex
    BY <1>e, <1>4 DEF Waiter
  <2>3. /\ n \in Nat /\ Len(cvProcesy'[t]) = n + 1 /\ cvProcesy'[t][n + 1] = e
        /\ \A k \in 1 .. n : cvProcesy'[t][k] = L[k]
    BY <1>11, <1>13, <2>2
  <2>4. \A k \in 1 .. n + 1 : b[k] = <<cvProcesy'[t][k].proces, cvProcesy'[t][k].muteks>>
    BY <2>3 DEF absSleepers
  <2>5. \A k \in 1 .. n : a[k] = <<L[k].proces, L[k].muteks>>
    BY <1>13
  <2>6. a \in Seq(Proc \X Mutex) /\ Len(a) = n
    BY <1>13
  <2> HIDE DEF a, b, x, n
  <2>7. /\ Append(a, x) \in Seq(Proc \X Mutex) /\ Len(Append(a, x)) = n + 1
        /\ Append(a, x)[n + 1] = x /\ \A k \in 1 .. n : Append(a, x)[k] = a[k]
    BY <2>2, <2>3, <2>6
  <2>i. /\ \A k \in 1 .. n : k \in 1 .. n + 1
        /\ n + 1 \in 1 .. n + 1 /\ \A k \in 1 .. n + 1 : k \in 1 .. n \/ k = n + 1
    BY <2>3
  <2>8. \A k \in 1 .. n : b[k] = Append(a, x)[k]
    <3> SUFFICES ASSUME NEW k \in 1 .. n PROVE b[k] = Append(a, x)[k]
      OBVIOUS
    <3>1. b[k] = <<cvProcesy'[t][k].proces, cvProcesy'[t][k].muteks>>
      BY <2>4, <2>i
    <3>2. cvProcesy'[t][k] = L[k]
      BY <2>3
    <3>3. a[k] = <<L[k].proces, L[k].muteks>>
      BY <2>5
    <3>4. Append(a, x)[k] = a[k]
      BY <2>7
    <3> QED BY <3>1, <3>2, <3>3, <3>4
  <2>9. b[n + 1] = Append(a, x)[n + 1]
    BY <2>2, <2>3, <2>4, <2>7, <2>i DEF x
  <2>10. \A k \in 1 .. n + 1 : b[k] = Append(a, x)[k]
    BY <2>8, <2>9, <2>i
  <2>11. Len(b) = n + 1
    BY <2>1, <2>3
  <2>12. b = Append(a, x)
    BY <2>1, <2>7, <2>10, <2>11, SameElements
  <2> QED BY <2>12 DEF a, b, x
<1>15. ASSUME NEW y \in CondVar, y # c PROVE absAsleep'[y] = absAsleep[y]
  <2>1. CASE \E j \in UsedCvSlot : cvNumer[j] = y
    <3>1. PICK j \in UsedCvSlot : cvNumer[j] = y
      BY <2>1
    <3>2. j \in CvSlot /\ j # t /\ j # -1
      BY <1>9, <1>15, <3>1 DEF UsedCvSlot, CvSlot
    <3>3. j \in UsedCvSlot' /\ cvNumer'[j] = y /\ cvProcesy'[j] = cvProcesy[j]
      BY <1>11, <3>1, <3>2
    <3>4. absAsleep[y] = absSleepers(j)
      BY <1>2, <1>3, <3>1, <3>2 DEF CvRows
    <3>5. absAsleep'[y] = absSleepers(j)'
      BY <1>2, <1>5, <3>2, <3>3 DEF CvRows
    <3> QED BY <3>3, <3>4, <3>5 DEF absSleepers
  <2>2. CASE \A j \in UsedCvSlot : cvNumer[j] # y
    <3>1. \A j \in UsedCvSlot' : cvNumer'[j] # y
      BY <1>11, <1>15, <2>2 DEF UsedCvSlot
    <3> QED BY <1>2, <2>2, <3>1 DEF CvRows
  <2> QED BY <2>1, <2>2
<1>16. absAsleep' = [absAsleep EXCEPT ![c] = Append(absAsleep[c], <<p, m>>)]
  BY <1>12, <1>14, <1>15, AbsFunctions, AbsFunctionsNext
<1> QED BY <1>4, <1>6, <1>7, <1>8, <1>16 DEF Abstract!Sleep

-----------------------------------------------------------------------------
(***************************************************************************)
(* CS_EINTR and CS_EXIT.                                                   *)
(***************************************************************************)

\* Leaving the one place one has is removing that position.
LEMMA LeaveOne ==
    ASSUME NEW s, NEW n \in Nat, Len(s) = n, NEW K \in SUBSET Nat, NEW k0 \in K,
           \A k \in K : k = k0
    PROVE  Abstract!Leave(s, K) = [j \in 1 .. n - 1 |-> IF j < k0 THEN s[j] ELSE s[j + 1]]
<1>1. (CHOOSE k \in K : TRUE) = k0
  OBVIOUS
<1>2. Abstract!Leave(s, K) = [j \in 1 .. n - 1 |-> s[IF j < k0 THEN j ELSE j + 1]]
  BY <1>1 DEF Abstract!Leave
<1> QED BY <1>2

\* usunElement on a queue without duplicates.
LEMMA LeaveQueue ==
    ASSUME NEW s \in Seq(Proc), NEW p, \A k, l \in 1 .. Len(s) : s[k] = s[l] => k = l
    PROVE  usunElement(s, p) = Abstract!Others(s, p)
<1> DEFINE K == {k \in 1 .. Len(s) : s[k] = p}
           k0 == PositionInQueue(s, p)
<1>1. K \in SUBSET Nat /\ k0 = First(K)
  BY DEF PositionInQueue
<1>2. /\ k0 = -1 <=> K = {}
      /\ K # {} => k0 \in K
  BY <1>1, FirstProperties
<1>3. CASE K = {}
  BY <1>2, <1>3 DEF usunElement, Abstract!Others, Abstract!Leave
<1>4. CASE K # {}
  <2>1. k0 \in K /\ k0 # -1 /\ \A k \in K : k = k0
    BY <1>2, <1>4
  <2>2. Len(s) \in Nat
    OBVIOUS
  <2>3. Abstract!Others(s, p) = Abstract!Leave(s, K)
    BY DEF Abstract!Others
  <2>4. usunElement(s, p) = [j \in 1 .. Len(s) - 1 |-> IF j < k0 THEN s[j] ELSE s[j + 1]]
    BY <2>1 DEF usunElement, RemovePosition
  <2> HIDE DEF K, k0
  <2> QED BY <1>1, <2>1, <2>2, <2>3, <2>4, LeaveOne
<1> QED BY <1>3, <1>4

\* A list of waiters as pairs.
Pairs(l) == [k \in 1 .. Len(l) |-> <<l[k].proces, l[k].muteks>>]

\* What leaving does to the pairs of a list without duplicates.
LEMMA LeaveList ==
    ASSUME NEW l \in Seq(Waiter), NEW p, \A k, j \in 1 .. Len(l) : l[k].proces = l[j].proces => k = j
    PROVE  LET k0 == PositionInCv(l, p) IN
           /\ k0 = -1 => Abstract!Sleepers(Pairs(l), p) = Pairs(l)
           /\ k0 # -1 /\ Len(l) = 1 => Abstract!Sleepers(Pairs(l), p) = <<>>
           /\ k0 # -1 => Abstract!Sleepers(Pairs(l), p) = Pairs(RemovePosition(l, k0))
<1> DEFINE K == {k \in 1 .. Len(l) : l[k].proces = p}
           k0 == PositionInCv(l, p)
           s == Pairs(l)
<1>n. PICK n \in Nat : n = Len(l)
  OBVIOUS
<1>w. \A k \in 1 .. n : l[k].proces \in Proc /\ l[k].muteks \in Mutex
  <2>1. \A k \in 1 .. n : l[k] \in Waiter
    BY <1>n
  <2>2. \A w \in Waiter : w.proces \in Proc /\ w.muteks \in Mutex
    BY DEF Waiter
  <2> QED BY <2>1, <2>2
<1>1. K \in SUBSET Nat /\ k0 = First(K)
  BY DEF PositionInCv
<1>2. /\ k0 = -1 <=> K = {}
      /\ K # {} => k0 \in K
  BY <1>1, FirstProperties
<1>3. s \in [1 .. n -> Proc \X Mutex]
  BY <1>n, <1>w DEF Pairs
<1>4. Len(s) = n /\ \A k \in 1 .. n : s[k] = <<l[k].proces, l[k].muteks>> /\ s[k][1] = l[k].proces
  <2>1. Len(s) = n
    BY <1>3
  <2> QED BY <1>n, <2>1 DEF Pairs
<1>5. Abstract!Sleepers(s, p) = Abstract!Leave(s, K)
  <2>1. {k \in 1 .. Len(s) : s[k][1] = p} = K
    BY <1>n, <1>4
  <2>2. Abstract!Sleepers(s, p) = Abstract!Leave(s, {k \in 1 .. Len(s) : s[k][1] = p})
    BY DEF Abstract!Sleepers
  <2> QED BY <2>1, <2>2
<1>6. CASE K = {}
  BY <1>2, <1>5, <1>6 DEF Abstract!Leave
<1>7. CASE K # {}
  <2>1. k0 \in K /\ k0 # -1 /\ \A k \in K : k = k0
    BY <1>2, <1>7
  <2>2. k0 \in 1 .. n
    BY <1>n, <2>1
  <2> HIDE DEF K, k0, s
  <2>3. Abstract!Leave(s, K) = [j \in 1 .. n - 1 |-> IF j < k0 THEN s[j] ELSE s[j + 1]]
    BY <1>1, <1>4, <2>1, LeaveOne
  <2> DEFINE r == RemovePosition(l, k0)
  <2>4. /\ r \in Seq(Waiter) /\ Len(r) = n - 1
        /\ \A j \in 1 .. n - 1 : r[j] = IF j < k0 THEN l[j] ELSE l[j + 1]
    BY <1>n, <2>2, RemovePositionProperties
  <2> HIDE DEF r
  <2>5. Pairs(r) = [j \in 1 .. n - 1 |-> <<r[j].proces, r[j].muteks>>]
    BY <2>4 DEF Pairs
  <2>6. \A j \in 1 .. n - 1 : <<r[j].proces, r[j].muteks>> = IF j < k0 THEN s[j] ELSE s[j + 1]
    <3> SUFFICES ASSUME NEW j \in 1 .. n - 1
                 PROVE  <<r[j].proces, r[j].muteks>> = IF j < k0 THEN s[j] ELSE s[j + 1]
      OBVIOUS
    <3>1. j \in 1 .. n /\ j + 1 \in 1 .. n
      OBVIOUS
    <3>2. CASE j < k0
      <4>1. r[j] = l[j] /\ s[j] = <<l[j].proces, l[j].muteks>>
        BY <1>4, <2>4, <3>1, <3>2
      <4> QED BY <3>2, <4>1
    <3>3. CASE ~(j < k0)
      <4>1. r[j] = l[j + 1] /\ s[j + 1] = <<l[j + 1].proces, l[j + 1].muteks>>
        BY <1>4, <2>4, <3>1, <3>3
      <4> QED BY <3>3, <4>1
    <3> QED BY <3>2, <3>3
  <2>7. Pairs(r) = Abstract!Leave(s, K)
    BY <2>3, <2>5, <2>6
  <2>8. n = 1 => Pairs(r) = <<>>
    <3> SUFFICES ASSUME n = 1 PROVE Pairs(r) = <<>>
      OBVIOUS
    <3>1. Pairs(r) \in [1 .. 0 -> {}] /\ 0 \in Nat
      BY <2>5
    <3>2. Pairs(r) \in Seq({}) /\ Len(Pairs(r)) = 0
      BY <3>1
    <3> QED BY <3>2
  <2> QED BY <1>n, <1>5, <2>1, <2>7, <2>8 DEF r, k0, s
<1> QED BY <1>6, <1>7

\* usunZakonczonyProcesCV takes p out of the abstract lists.
LEMMA CvsLose ==
    ASSUME IInv, IInv', NEW p, usunZakonczonyProcesCV(p), server.i = -1, server'.i = -1
    PROVE  /\ absAsleep' = [c \in CondVar |-> Abstract!Sleepers(absAsleep[c], p)]
           /\ absWaking = <<>> /\ absWaking' = <<>>
<1>1. TypeOK /\ CvRows /\ CvRows' /\ DistinctNumbers /\ WaitsOnce
  BY AbsRows, AbsRowsNext DEF IInv
<1>2. /\ cvUzywany' \in [CvSlot -> {0, 1}] /\ cvNumer' = cvNumer
      /\ \A j \in UsedCvSlot' : j \in UsedCvSlot
  BY CvWithout
<1>3. Abstract!Sleepers(<<>>, p) = <<>>
  BY DEF Abstract!Sleepers, Abstract!Leave
<1>4. \A i : absSleepers(i) = Pairs(cvProcesy[i]) /\ absSleepers(i)' = Pairs(cvProcesy'[i])
  BY DEF absSleepers, Pairs
<1>5. ASSUME NEW c \in CondVar
      PROVE  absAsleep'[c] = Abstract!Sleepers(absAsleep[c], p)
  <2>1. CASE \A i \in UsedCvSlot : cvNumer[i] # c
    <3>1. absAsleep[c] = <<>> /\ absAsleep'[c] = <<>>
      BY <1>1, <1>2, <2>1 DEF CvRows
    <3> QED BY <1>3, <3>1
  <2>2. CASE \E i \in UsedCvSlot : cvNumer[i] = c
    <3>1. PICK i \in UsedCvSlot : cvNumer[i] = c
      BY <2>2
    <3> DEFINE l == cvProcesy[i]
               k0 == PositionInCv(l, p)
    <3>2. i \in CvSlot /\ i # -1 /\ cvUzywany[i] = 1
      BY DEF UsedCvSlot, CvSlot
    <3>3. absAsleep[c] = Pairs(l)
      BY <1>1, <1>4, <3>1, <3>2 DEF CvRows
    <3>4. i \in UsedCvSlot' => absAsleep'[c] = Pairs(cvProcesy'[i])
      BY <1>1, <1>2, <1>4, <3>1, <3>2 DEF CvRows
    <3>5. i \notin UsedCvSlot' => absAsleep'[c] = <<>>
      <4> SUFFICES ASSUME i \notin UsedCvSlot' PROVE absAsleep'[c] = <<>>
        OBVIOUS
      <4>1. \A j \in UsedCvSlot' : cvNumer'[j] # c
        BY <1>1, <1>2, <3>1 DEF DistinctNumbers
      <4> QED BY <1>1, <4>1 DEF CvRows
    <3>6. l \in Seq(Waiter) /\ \A k, j \in 1 .. Len(l) : l[k].proces = l[j].proces => k = j
      BY <1>1, <3>2 DEF TypeOK, WaitsOnce
    <3>7. /\ k0 = -1 => Abstract!Sleepers(Pairs(l), p) = Pairs(l)
          /\ k0 # -1 /\ Len(l) = 1 => Abstract!Sleepers(Pairs(l), p) = <<>>
          /\ k0 # -1 => Abstract!Sleepers(Pairs(l), p) = Pairs(RemovePosition(l, k0))
      BY <3>6, LeaveList
    <3>8. i \in CvsWith(p) <=> k0 # -1
      BY <3>2 DEF CvsWith
    <3>9. /\ i \in UsedCvSlot' <=> ~(i \in CvsWith(p) /\ Len(l) = 1)
          /\ cvProcesy'[i] = IF i \in CvsWith(p) /\ Len(l) # 1 THEN RemovePosition(l, k0) ELSE l
      BY <3>2 DEF usunZakonczonyProcesCV, UsedCvSlot
    <3> HIDE DEF l, k0
    <3> QED BY <3>3, <3>4, <3>5, <3>7, <3>8, <3>9
  <2> QED BY <2>1, <2>2
<1> QED BY <1>5, AbsFunctionsNext DEF absWaking

\* CS_EINTR is Interrupt.
LEMMA EintrRefines ==
    ASSUME IInv, IInv', wyslijEINTR
    PROVE  \E p \in Proc : Abstract!Interrupt(p)
<1>1. TypeOK /\ NeverStuck' /\ WaitsOnce /\ MutexRows /\ MutexRows'
  BY AbsRows, AbsRowsNext DEF IInv
<1>2. server.at = "receive" /\ async # <<>> /\ async' = Tail(async)
  BY DEF wyslijEINTR, ReceivesAsync
<1>3. PICK p \in Proc : p = Head(async).proces
  BY <1>1, <1>2, AsyncTail
<1>4. /\ kolejka' = [i \in Slot |-> usunElement(kolejka[i], p)]
      /\ usunZakonczonyProcesCV(p)
      /\ uzywany' = uzywany /\ numer' = numer /\ wlasciciel' = wlasciciel
  BY <1>3 DEF wyslijEINTR
<1>5. server.i = -1 /\ server'.i = -1
  BY <1>1, <1>2 DEF wyslijEINTR, wyslijWiadomosc, NeverStuck, TypeOK, Idle, IInv, BroadcastState
<1>6. /\ absAsleep' = [c \in CondVar |-> Abstract!Sleepers(absAsleep[c], p)]
      /\ absWaking = <<>> /\ absWaking' = <<>>
  BY <1>4, <1>5, CvsLose
<1>7. Abstract!Others(<<>>, p) = <<>>
  BY DEF Abstract!Others, Abstract!Leave
<1>8. UsedSlot' = UsedSlot
  BY <1>4 DEF UsedSlot
<1>9. ASSUME NEW m \in Mutex
      PROVE  absOwner'[m] = absOwner[m] /\ absQueue'[m] = Abstract!Others(absQueue[m], p)
  <2>1. CASE \A i \in UsedSlot : numer[i] # m
    <3>1. absOwner[m] = Zero /\ absQueue[m] = <<>> /\ absOwner'[m] = Zero /\ absQueue'[m] = <<>>
      BY <1>1, <1>4, <1>8, <2>1 DEF MutexRows
    <3> QED BY <1>7, <3>1
  <2>2. CASE \E i \in UsedSlot : numer[i] = m
    <3>1. PICK i \in UsedSlot : numer[i] = m
      BY <2>2
    <3>2. i \in Slot /\ i \in UsedSlot'
      BY <1>8 DEF UsedSlot
    <3>3. absOwner[m] = wlasciciel[i] /\ absQueue[m] = kolejka[i]
      BY <1>1, <3>1 DEF MutexRows
    <3>4. absOwner'[m] = wlasciciel[i] /\ absQueue'[m] = kolejka'[i]
      BY <1>1, <1>4, <3>1, <3>2 DEF MutexRows
    <3>5. kolejka'[i] = usunElement(kolejka[i], p)
      BY <1>4, <3>2
    <3>6. usunElement(kolejka[i], p) = Abstract!Others(kolejka[i], p)
      <4>1. kolejka[i] \in Seq(Proc)
        BY <1>1, <3>2 DEF TypeOK
      <4>2. \A k, l \in 1 .. Len(kolejka[i]) : kolejka[i][k] = kolejka[i][l] => k = l
        BY <1>1, <3>2 DEF WaitsOnce
      <4> QED BY <4>1, <4>2, LeaveQueue
    <3> QED BY <3>3, <3>4, <3>5, <3>6
  <2> QED BY <2>1, <2>2
<1>10. absOwner' = absOwner
  BY <1>9, AbsFunctions, AbsFunctionsNext
<1>11. absQueue' = [m \in Mutex |-> Abstract!Others(absQueue[m], p)]
  BY <1>9, AbsFunctionsNext
<1>12. Abstract!Interrupt(p)
  BY <1>6, <1>10, <1>11 DEF Abstract!Interrupt
<1> QED BY <1>12

\* CS_EXIT is Exit.
LEMMA ExitedRefines ==
    ASSUME IInv, JInv, IInv', usunZakonczonyProces
    PROVE  \E p \in Proc : Abstract!Exit(p)
<1>1. TypeOK /\ NeverStuck' /\ MutexRows /\ MutexRows'
  BY AbsRows, AbsRowsNext DEF IInv
<1>2. server.at = "receive" /\ async # <<>> /\ async' = Tail(async)
  BY DEF usunZakonczonyProces, ReceivesAsync
<1>3. PICK p \in Proc : p = Head(async).proces
  BY <1>1, <1>2, AsyncTail
<1>J. PICK J : J = {i \in Slot : uzywany[i] = 1 /\ wlasciciel[i] = p}
  OBVIOUS
<1>Q. PICK Q : Q = QueuesAfterUnlock(J)
  OBVIOUS
<1>4. /\ UnlockSlots(J) /\ kolejka' = [i \in Slot |-> usunElement(Q[i], p)]
      /\ usunZakonczonyProcesCV(p)
  BY <1>3, <1>J, <1>Q DEF usunZakonczonyProces
<1>5. server.i = -1 /\ server'.i = -1
  BY <1>1, <1>2 DEF usunZakonczonyProces, wyslijWiadomosc, NeverStuck, TypeOK, Idle, IInv,
                    BroadcastState
<1>6. /\ absAsleep' = [c \in CondVar |-> Abstract!Sleepers(absAsleep[c], p)]
      /\ absWaking = <<>> /\ absWaking' = <<>>
  BY <1>4, <1>5, CvsLose
<1>7. J \in SUBSET UsedSlot /\ \A i \in UsedSlot : i \in J <=> wlasciciel[i] = p
  BY <1>J DEF UsedSlot
<1>8. PassedOn(J, Q)
  BY <1>4, <1>7, <1>Q, RowsPassOn
<1>9. /\ Q \in [Slot -> Seq(Proc)]
      /\ \A i \in Slot : \A x, y \in 1 .. Len(Q[i]) : Q[i][x] = Q[i][y] => x = y
  <2>1. Q \in [Slot -> Seq(Proc)]
    BY <1>4, <1>7, <1>Q, UnlockTables
  <2>2. \A i, j \in Slot : \A x \in 1 .. Len(Q[i]) : \A y \in 1 .. Len(Q[j]) :
           Q[i][x] = Q[j][y] => i = j /\ x = y
    BY <1>4, <1>7, <1>Q, QueuesOnce
  <2> QED BY <2>1, <2>2
<1>10. \A i \in Slot : kolejka'[i] = Abstract!Others(Q[i], p)
  <2> SUFFICES ASSUME NEW i \in Slot PROVE kolejka'[i] = Abstract!Others(Q[i], p)
    OBVIOUS
  <2>1. kolejka'[i] = usunElement(Q[i], p)
    BY <1>4
  <2>2. Q[i] \in Seq(Proc) /\ \A k, l \in 1 .. Len(Q[i]) : Q[i][k] = Q[i][l] => k = l
    BY <1>9
  <2> QED BY <2>1, <2>2, LeaveQueue
<1>11. Abstract!Others(<<>>, p) = <<>>
  BY DEF Abstract!Others, Abstract!Leave
<1>S. PICK S : S = {m \in Mutex : absOwner[m] = p}
  OBVIOUS
<1>12. ASSUME NEW m \in Mutex
       PROVE  /\ absOwner'[m] = IF m \in S THEN Abstract!NextOwner(m) ELSE absOwner[m]
              /\ absQueue'[m] = Abstract!Others(IF m \in S THEN Abstract!NextQueue(m) ELSE absQueue[m], p)
  <2>1. CASE \A i \in UsedSlot : numer[i] # m
    <3>1. /\ absOwner[m] = Zero /\ absOwner'[m] = Zero
          /\ absQueue[m] = <<>> /\ absQueue'[m] = <<>>
      BY <1>8, <2>1 DEF PassedOn
    <3>2. m \notin S
      BY <1>S, <3>1, ZeroAssumption
    <3> QED BY <1>11, <3>1, <3>2
  <2>2. CASE \E i \in UsedSlot : numer[i] = m
    <3>1. PICK i \in UsedSlot : numer[i] = m
      BY <2>2
    <3>2. /\ absOwner'[m] = IF i \in J THEN Abstract!NextOwner(m) ELSE absOwner[m]
          /\ Q[i] = IF i \in J THEN Abstract!NextQueue(m) ELSE absQueue[m]
          /\ uzywany'[i] = 1 => absQueue'[m] = kolejka'[i]
          /\ uzywany'[i] # 1 => absQueue'[m] = <<>> /\ Q[i] = <<>>
      BY <1>8, <3>1 DEF PassedOn
    <3>3. i \in J <=> m \in S
      BY <1>1, <1>7, <1>S, <3>1 DEF MutexRows
    <3>4. absQueue'[m] = Abstract!Others(Q[i], p)
      <4>1. CASE uzywany'[i] = 1
        BY <1>10, <3>2, <4>1 DEF UsedSlot
      <4>2. CASE uzywany'[i] # 1
        BY <1>11, <3>2, <4>2
      <4> QED BY <4>1, <4>2
    <3>5. Q[i] = IF m \in S THEN Abstract!NextQueue(m) ELSE absQueue[m]
      BY <3>2, <3>3
    <3> QED BY <3>2, <3>3, <3>4, <3>5
  <2> QED BY <2>1, <2>2
<1>13. /\ absOwner' = [m \in Mutex |-> IF m \in S THEN Abstract!NextOwner(m) ELSE absOwner[m]]
       /\ absQueue' = [m \in Mutex |->
                         Abstract!Others(IF m \in S THEN Abstract!NextQueue(m) ELSE absQueue[m], p)]
  BY <1>12, AbsFunctionsNext
<1>14. Abstract!Exit(p)
  BY <1>6, <1>13, <1>S DEF Abstract!Exit
<1> QED BY <1>14

-----------------------------------------------------------------------------
(***************************************************************************)
(* The theorem.                                                            *)
(***************************************************************************)

\* The refusals, the answers without effect, the steps past the end of M, the
\* calls and the steps of PM are not seen.
LEMMA OthersUnseen ==
    ASSUME IInv, IInv', NEW p \in Proc,
           \/ UnlockRefused(p) \/ WaitRefused(p) \/ BadType(p) \/ BroadcastNobody(p)
           \/ HandleLockPastTable(p) \/ BroadcastPastTable
           \/ \E r \in Request : send_message(p, r)
           \/ PmSignal(p) \/ PmExit(p) \/ PmClear(p)
    PROVE  UNCHANGED Abstract!absVars
<1>1. TypeOK /\ NeverStuck' /\ BroadcastState
  BY DEF IInv
<1>2. CASE UnlockRefused(p) \/ WaitRefused(p) \/ BadType(p) \/ BroadcastNobody(p)
  <2>1. PICK typ, k, msgs : Receives(p, typ) /\ wyslijWiadomosc(k, msgs, Idle) /\ UNCHANGED tables
    BY <1>2 DEF UnlockRefused, WaitRefused, BadType, BroadcastNobody
  <2>2. server' = Idle
    BY <1>1, <2>1 DEF wyslijWiadomosc, NeverStuck, TypeOK
  <2>3. server'.i = server.i
    BY <1>1, <2>1, <2>2 DEF Receives, BroadcastState, Idle
  <2> QED BY <2>1, <2>3, Unseen DEF tables
<1>3. CASE HandleLockPastTable(p) \/ BroadcastPastTable
  <2>1. server' = [server EXCEPT !.at = "pastM"] /\ UNCHANGED tables
    BY <1>3 DEF HandleLockPastTable, BroadcastPastTable
  <2>2. server'.i = server.i
    BY <1>1, <2>1 DEF TypeOK
  <2> QED BY <2>1, <2>2, Unseen DEF tables
<1>4. CASE (\E r \in Request : send_message(p, r)) \/ PmSignal(p) \/ PmExit(p) \/ PmClear(p)
  <2>1. UNCHANGED tables /\ server' = server
    BY <1>4 DEF send_message, PmSignal, PmExit, PmClear
  <2> QED BY <2>1, Unseen DEF tables
<1> QED BY <1>2, <1>3, <1>4

\* Every step is a step of the abstract specification or is not seen.
LEMMA NextRefines ==
    ASSUME IInv, JInv, IInv', [Next]_vars
    PROVE  [Abstract!Next]_(Abstract!absVars)
<1>1. CASE \E p \in Proc : obslugaWiadomosci(p)
  <2> SUFFICES ASSUME NEW p \in Proc, obslugaWiadomosci(p) PROVE [Abstract!Next]_(Abstract!absVars)
    BY <1>1
  <2>1. CASE HandleLock(p)
    BY <2>1, HandleLockRefines DEF Abstract!Next
  <2>2. CASE cs_unlock(p) \/ WaitPastTable(p)
    BY <2>2, UnlockRefines DEF Abstract!Next
  <2>3. CASE cs_wait(p)
    BY <2>3, WaitRefines DEF Abstract!Next
  <2>4. CASE cs_broadcast(p)
    BY <2>4, BroadcastRefines DEF Abstract!Next
  <2>5. CASE UnlockRefused(p) \/ WaitRefused(p) \/ BadType(p) \/ BroadcastNobody(p)
             \/ HandleLockPastTable(p)
    BY <2>5, OthersUnseen
  <2> QED BY <2>1, <2>2, <2>3, <2>4, <2>5 DEF obslugaWiadomosci
<1>2. CASE ServerLoop
  <2>1. CASE BroadcastNext
    BY <2>1, BroadcastNextRefines DEF Abstract!Next
  <2>2. CASE BroadcastPastTable
    <3>1. PICK p \in Proc : p = server.original
      BY <2>2 DEF BroadcastPastTable, IInv, BroadcastState
    <3> QED BY <2>2, OthersUnseen
  <2>3. CASE BroadcastEnd
    BY <2>3, BroadcastEndRefines
  <2>4. CASE wyslijEINTR
    BY <2>4, EintrRefines DEF Abstract!Next
  <2>5. CASE usunZakonczonyProces
    BY <2>5, ExitedRefines DEF Abstract!Next
  <2> QED BY <1>2, <2>1, <2>2, <2>3, <2>4, <2>5 DEF ServerLoop
<1>3. CASE \E p \in Proc : \E r \in Request : send_message(p, r)
  BY <1>3, OthersUnseen
<1>4. CASE \E p \in Proc : PmSignal(p) \/ PmExit(p) \/ PmClear(p)
  BY <1>4, OthersUnseen
<1>5. CASE UNCHANGED vars
  <2>1. UNCHANGED <<uzywany, numer, wlasciciel, kolejka, cvUzywany, cvNumer, cvProcesy>>
        /\ server' = server
    BY <1>5 DEF vars
  <2> QED BY <2>1, Unseen
<1> QED BY <1>1, <1>2, <1>3, <1>4, <1>5 DEF Next

\* A fresh server has no owner, no queue and no sleeper.
LEMMA InitRefines ==
    ASSUME Init
    PROVE  Abstract!Init
<1>1. MutexRows /\ CvRows /\ server.i = -1
  BY InitInvariant, AbsRows DEF Init, Idle
<1>2. UsedSlot = {} /\ UsedCvSlot = {}
  BY DEF Init, UsedSlot, UsedCvSlot
<1>3. /\ \A m \in Mutex : absOwner[m] = Zero /\ absQueue[m] = <<>>
      /\ \A c \in CondVar : absAsleep[c] = <<>>
  BY <1>1, <1>2 DEF MutexRows, CvRows
<1>4. /\ absOwner = [m \in Mutex |-> Zero] /\ absQueue = [m \in Mutex |-> <<>>]
      /\ absAsleep = [c \in CondVar |-> <<>>]
  BY <1>3, AbsFunctions
<1> QED BY <1>1, <1>4 DEF Abstract!Init, absWaking

\* The server implements mutexes with first-come first-served queues and
\* condition variables whose broadcasts wake all sleepers in order, around all
\* signals and exits, for any number of processes and any size of its tables.
THEOREM ServerImplements == Spec => ImplementsMutexCv
<1>1. Init => Abstract!Init
  BY InitRefines
<1>2. IInv /\ JInv /\ (IInv /\ JInv)' /\ [Next]_vars => [Abstract!Next]_(Abstract!absVars)
  BY NextRefines
<1> QED BY <1>1, <1>2, TablesInvariantHolds, PTL DEF Spec, ImplementsMutexCv, Abstract!Spec

=============================================================================
