--------------------------- MODULE CvServerProofs ---------------------------
(***************************************************************************)
(* Proofs about CvServer, for any processes, mutexes, condition variables  *)
(* and table sizes.  IInv is shown to be inductive action by action; the   *)
(* theorems at the end read off what it implies.                           *)
(***************************************************************************)
EXTENDS CvServer, TLAPS, WellFoundedInduction, SequenceTheorems

-----------------------------------------------------------------------------
(***************************************************************************)
(* Searching and removing.                                                 *)
(***************************************************************************)

\* Every nonempty set of naturals has a least element.
LEMMA MinExists ==
    ASSUME NEW S \in SUBSET Nat, S # {}
    PROVE  \E i \in S : \A j \in S : i <= j
<1> DEFINE R == {ss \in Nat \X Nat : ss[1] < ss[2]}
<1>1. OpToRel(<, Nat) = R
  BY DEF OpToRel
<1>2. IsWellFoundedOn(R, Nat)
  BY <1>1, NatLessThanWellFounded, Zenon
<1> HIDE DEF R
<1>3. PICK i \in S : \A j \in S : ~(<<j, i>> \in R)
  BY <1>2, WFMin, Zenon
<1>4. \A j \in S : i <= j
  <2> SUFFICES ASSUME NEW j \in S, ~(i <= j) PROVE FALSE
    OBVIOUS
  <2>1. i \in Nat /\ j \in Nat /\ j < i
    OBVIOUS
  <2>2. <<j, i>> \in R
    BY <2>1 DEF R
  <2> QED BY <1>3, <2>2
<1> QED BY <1>4

\* First finds an element of S when there is one, and says -1 when there is none.
LEMMA FirstProperties ==
    ASSUME NEW S \in SUBSET Nat
    PROVE  /\ First(S) = -1 <=> S = {}
           /\ S # {} => First(S) \in S
           /\ First(S) \in S \cup {-1}
<1>1. CASE S = {}
  BY <1>1 DEF First
<1>2. CASE S # {}
  <2>1. \E i \in S : \A j \in S : i <= j
    BY <1>2, MinExists
  <2>2. First(S) \in S
    BY <1>2, <2>1 DEF First
  <2>3. First(S) # -1
    BY <2>2
  <2> QED BY <1>2, <2>2, <2>3
<1> QED BY <1>1, <1>2

\* indeksUzywanegoMutexa finds a used row with the number, if there is one.
LEMMA IndexOfMutex ==
    ASSUME TypeOK, NEW m
    PROVE  LET i == indeksUzywanegoMutexa(m) IN
           /\ i \in Slot \cup {-1}
           /\ i # -1 => i \in Slot /\ uzywany[i] = 1 /\ numer[i] = m
           /\ i = -1 => \A j \in Slot : uzywany[j] = 1 => numer[j] # m
<1> DEFINE S == {i \in Slot : uzywany[i] = 1 /\ numer[i] = m}
<1>1. S \in SUBSET Nat
  BY SizesAssumption DEF Slot
<1>2. indeksUzywanegoMutexa(m) = First(S)
  BY DEF indeksUzywanegoMutexa
<1> QED BY <1>1, <1>2, FirstProperties

\* indeksUzywanegoCv finds a used row with the number, if there is one.
LEMMA IndexOfCv ==
    ASSUME TypeOK, NEW c
    PROVE  LET i == indeksUzywanegoCv(c) IN
           /\ i \in CvSlot \cup {-1}
           /\ i # -1 => i \in CvSlot /\ cvUzywany[i] = 1 /\ cvNumer[i] = c
           /\ i = -1 => \A j \in CvSlot : cvUzywany[j] = 1 => cvNumer[j] # c
<1> DEFINE S == {i \in CvSlot : cvUzywany[i] = 1 /\ cvNumer[i] = c}
<1>1. S \in SUBSET Nat
  BY SizesAssumption DEF CvSlot
<1>2. indeksUzywanegoCv(c) = First(S)
  BY DEF indeksUzywanegoCv
<1> QED BY <1>1, <1>2, FirstProperties

\* The free rows cs_lock and cs_wait find are free.
LEMMA FreeRows ==
    ASSUME TypeOK
    PROVE  /\ freeMutex # -1 => freeMutex \in Slot /\ uzywany[freeMutex] = 0
           /\ freeCv # -1 => freeCv \in CvSlot /\ cvUzywany[freeCv] = 0
<1> DEFINE S == {i \in Slot : uzywany[i] = 0}
           T == {i \in CvSlot : cvUzywany[i] = 0}
<1>1. S \in SUBSET Nat /\ T \in SUBSET Nat
  BY SizesAssumption DEF Slot, CvSlot
<1>2. freeMutex = First(S) /\ freeCv = First(T)
  BY DEF freeMutex, freeCv
<1> QED BY <1>1, <1>2, FirstProperties

\* The fields of a request have the types its call needs.
LEMMA RequestFields ==
    ASSUME NEW r \in Request \cup {NoRequest}
    PROVE  /\ r.typ \in {"CS_LOCK", "CS_UNLOCK", "CS_WAIT"} => r.mutex \in Mutex
           /\ r.typ \in {"CS_WAIT", "CS_BROADCAST"} => r.cv \in CondVar
BY DEF Request, NoRequest, LockRequest, UnlockRequest, WaitRequest, BroadcastRequest, BadRequest

\* Removing a position keeps a sequence, and every other element once.
LEMMA RemovePositionProperties ==
    ASSUME NEW T, NEW s \in Seq(T), NEW k \in 1 .. Len(s)
    PROVE  LET r == RemovePosition(s, k) IN
           /\ r \in Seq(T)
           /\ Len(r) = Len(s) - 1
           /\ \A j \in 1 .. Len(r) : r[j] = IF j < k THEN s[j] ELSE s[j + 1]
<1> DEFINE n == Len(s) - 1
           r == [j \in 1 .. n |-> IF j < k THEN s[j] ELSE s[j + 1]]
<1>1. n \in Nat /\ Len(s) \in Nat
  OBVIOUS
<1>2. \A j \in 1 .. n : s[j] \in T /\ s[j + 1] \in T
  BY <1>1
<1>3. r \in [1 .. n -> T]
  BY <1>2
<1>4. r \in Seq(T) /\ Len(r) = n
  BY <1>1, <1>3
<1> QED BY <1>4 DEF RemovePosition

\* usunElement takes a process out of a queue it occurs in once.
LEMMA UsunElementProperties ==
    ASSUME NEW s \in Seq(Proc), NEW p,
           \A k, l \in 1 .. Len(s) : s[k] = s[l] => k = l
    PROVE  LET r == usunElement(s, p) IN
           /\ r \in Seq(Proc)
           /\ \A j \in 1 .. Len(r) : \E k \in 1 .. Len(s) : r[j] = s[k]
           /\ \A j, l \in 1 .. Len(r) : r[j] = r[l] => j = l
           /\ \A j \in 1 .. Len(r) : r[j] # p
           /\ \A k \in 1 .. Len(s) : s[k] # p => \E j \in 1 .. Len(r) : r[j] = s[k]
<1> DEFINE S == {k \in 1 .. Len(s) : s[k] = p}
           k0 == PositionInQueue(s, p)
           r == usunElement(s, p)
<1>1. S \in SUBSET Nat
  OBVIOUS
<1>2. k0 = First(S)
  BY DEF PositionInQueue
<1>3. CASE S = {}
  <2>1. k0 = -1
    BY <1>1, <1>2, <1>3, FirstProperties
  <2>2. r = s
    BY <2>1 DEF usunElement
  <2> QED BY <1>3, <2>2
<1>4. CASE S # {}
  <2>1. k0 \in S /\ k0 # -1
    BY <1>1, <1>2, <1>4, FirstProperties
  <2>2. r = RemovePosition(s, k0)
    BY <2>1 DEF usunElement
  <2>3. k0 \in 1 .. Len(s) /\ s[k0] = p
    BY <2>1
  <2> HIDE DEF k0, r, S
  <2>4. /\ r \in Seq(Proc) /\ Len(r) = Len(s) - 1
        /\ \A j \in 1 .. Len(r) : r[j] = IF j < k0 THEN s[j] ELSE s[j + 1]
    BY <2>2, <2>3, RemovePositionProperties
  <2>5. \A k \in 1 .. Len(s) : s[k] # p => \E j \in 1 .. Len(r) : r[j] = s[k]
    <3> SUFFICES ASSUME NEW k \in 1 .. Len(s), s[k] # p
                 PROVE  \E j \in 1 .. Len(r) : r[j] = s[k]
      OBVIOUS
    <3>1. CASE k < k0
      BY <3>1, <2>3, <2>4
    <3>2. CASE k > k0
      <4>1. k - 1 \in 1 .. Len(r) /\ r[k - 1] = s[k]
        BY <3>2, <2>3, <2>4
      <4> QED BY <4>1
    <3> QED BY <3>1, <3>2, <2>3
  <2>6. \A j \in 1 .. Len(r) : r[j] # p /\ \E k \in 1 .. Len(s) : r[j] = s[k]
    BY <2>3, <2>4
  <2>7. \A j, l \in 1 .. Len(r) : r[j] = r[l] => j = l
    <3> SUFFICES ASSUME NEW j \in 1 .. Len(r), NEW l \in 1 .. Len(r), r[j] = r[l]
                 PROVE  j = l
      OBVIOUS
    <3> QED BY <2>3, <2>4
  <2> QED BY <2>4, <2>5, <2>6, <2>7 DEF r
<1> QED BY <1>3, <1>4

-----------------------------------------------------------------------------
(***************************************************************************)
(* Sending.                                                                *)
(***************************************************************************)
ClientType == [at : {"running", "sending", "receiving"},
               req : Request \cup {NoRequest}, reply : Int]

\* When every target is receiving and gets one message, wyslijWiadomosc does
\* not block: the targets that are not dead run again, and a mutex is acquired
\* only by an OK answer to a lock or a wait of a live process.
LEMMA Sending ==
    ASSUME TypeOK, NEW k \in [Proc -> ClientType], NEW msgs, NEW next,
           \A n \in msgs : n.do \in Proc /\ n.typ \in Int /\ k[n.do].at = "receiving",
           \A n, n2 \in msgs : n.do = n2.do => n = n2,
           wyslijWiadomosc(k, msgs, next)
    PROVE  /\ server' = next
           /\ client' \in [Proc -> ClientType]
           /\ holds' \in [Proc -> SUBSET Mutex]
           /\ \A q \in Proc : (life[q] = "dead" \/ \A n \in msgs : n.do # q) =>
                                client'[q] = k[q] /\ holds'[q] = holds[q]
           /\ \A n \in msgs : life[n.do] # "dead" =>
                                client'[n.do].at = "running" /\ client'[n.do].req = NoRequest
           /\ \A n \in msgs : \A m \in holds'[n.do] \ holds[n.do] :
                /\ n.typ = OK /\ life[n.do] = "alive" /\ m = k[n.do].req.mutex
                /\ k[n.do].req.typ \in {"CS_LOCK", "CS_WAIT"}
           /\ \A q \in Proc : client'[q] = k[q] \/
                                (client'[q].at = "running" /\ client'[q].req = NoRequest)
<1> DEFINE D(q) == Delivered(k, msgs, q)
           A(q) == Acquires(k, msgs, q)
<1>1. server' = next
  BY DEF wyslijWiadomosc, Blocks
<1>2. \A q \in Proc : D(q) # {} => (CHOOSE n \in D(q) : TRUE) \in D(q)
  OBVIOUS
<1>3. \A q \in Proc : \A n \in D(q) : n \in msgs /\ n.do = q /\ n.typ \in Int /\ life[q] # "dead"
  BY DEF Delivered
<1>4. \A q \in Proc : D(q) # {} => (CHOOSE n \in D(q) : TRUE).typ \in Int
  BY <1>2, <1>3
<1>5. client' = [q \in Proc |-> IF D(q) = {} THEN k[q]
                   ELSE [at |-> "running", req |-> NoRequest,
                         reply |-> (CHOOSE n \in D(q) : TRUE).typ]]
  BY DEF wyslijWiadomosc
<1>6. client' \in [Proc -> ClientType]
  BY <1>4, <1>5 DEF ClientType
<1>7. \A q \in Proc : A(q) \subseteq Mutex
  <2> SUFFICES ASSUME NEW q \in Proc, NEW m \in A(q) PROVE m \in Mutex
    OBVIOUS
  <2>1. m = k[q].req.mutex /\ k[q].req.typ \in {"CS_LOCK", "CS_WAIT"}
    BY DEF Acquires
  <2>2. k[q].req \in Request \cup {NoRequest}
    BY DEF ClientType
  <2> QED BY <2>1, <2>2, RequestFields
<1>8. holds' = [q \in Proc |-> holds[q] \cup A(q)]
  BY DEF wyslijWiadomosc
<1>9. holds' \in [Proc -> SUBSET Mutex]
  BY <1>7, <1>8 DEF TypeOK
<1>10. \A q \in Proc : (life[q] = "dead" \/ \A n \in msgs : n.do # q) => D(q) = {} /\ A(q) = {}
  BY DEF Delivered, Acquires
<1>11. \A n \in msgs : life[n.do] # "dead" => n \in D(n.do)
  BY DEF Delivered
<1>12. \A n \in msgs : \A m \in A(n.do) :
         /\ n.typ = OK /\ life[n.do] = "alive" /\ m = k[n.do].req.mutex
         /\ k[n.do].req.typ \in {"CS_LOCK", "CS_WAIT"}
  BY DEF Acquires, Delivered
<1> HIDE DEF D, A
<1>13. \A q \in Proc : D(q) = {} => client'[q] = k[q]
  BY <1>5
<1>14. \A q \in Proc : D(q) # {} => client'[q].at = "running" /\ client'[q].req = NoRequest
  BY <1>5
<1>15. \A q \in Proc : holds'[q] = holds[q] \cup A(q)
  BY <1>8
<1>16. \A q \in Proc : (life[q] = "dead" \/ \A n \in msgs : n.do # q) =>
                         client'[q] = k[q] /\ holds'[q] = holds[q]
  BY <1>10, <1>13, <1>15
<1>17. \A n \in msgs : \A m \in holds'[n.do] \ holds[n.do] : m \in A(n.do)
  BY <1>15
<1> QED BY <1>1, <1>6, <1>9, <1>11, <1>12, <1>13, <1>14, <1>16, <1>17

-----------------------------------------------------------------------------
\* The queues hold processes, the lists processes and mutexes.
LEMMA EntryTypes ==
    ASSUME TypeOK
    PROVE  /\ \A i \in Slot : \A k \in 1 .. Len(kolejka[i]) : kolejka[i][k] \in Proc
           /\ \A i \in CvSlot : \A k \in 1 .. Len(cvProcesy[i]) :
                /\ cvProcesy[i][k] \in Waiter
                /\ cvProcesy[i][k].proces \in Proc /\ cvProcesy[i][k].muteks \in Mutex
           /\ \A i \in Slot : Len(kolejka[i]) \in Nat
           /\ \A i \in CvSlot : Len(cvProcesy[i]) \in Nat
<1>1. \A i \in Slot : kolejka[i] \in Seq(Proc)
  BY DEF TypeOK
<1>2. \A i \in CvSlot : cvProcesy[i] \in Seq(Waiter)
  BY DEF TypeOK
<1>3. \A i \in CvSlot : \A k \in 1 .. Len(cvProcesy[i]) : cvProcesy[i][k] \in Waiter
  BY <1>2
<1>4. \A w \in Waiter : w.proces \in Proc /\ w.muteks \in Mutex
  BY DEF Waiter
<1> QED BY <1>1, <1>2, <1>3, <1>4

\* PM's messages name processes.
LEMMA AsyncTypes ==
    ASSUME TypeOK
    PROVE  \A k \in 1 .. Len(async) : async[k] \in Async /\ async[k].proces \in Proc
<1>1. \A k \in 1 .. Len(async) : async[k] \in Async
  BY DEF TypeOK
<1>2. \A a \in Async : a.proces \in Proc
  BY DEF Async
<1> QED BY <1>1, <1>2

-----------------------------------------------------------------------------
(***************************************************************************)
(* Requests.                                                               *)
(***************************************************************************)

\* While the server handles a request of p, p is receiving, is in no queue
\* and no list, and nobody else has changed.
LEMMA ReceivedProperties ==
    ASSUME IInv, NEW p \in Proc, NEW typ, Receives(p, typ)
    PROVE  /\ Received(p) \in [Proc -> ClientType]
           /\ Received(p)[p].at = "receiving" /\ Received(p)[p].req = client[p].req
           /\ \A q \in Proc : q # p => Received(p)[q] = client[q]
           /\ client[p].at = "sending" /\ client[p].req.typ = typ
           /\ \A i \in Slot : \A k \in 1 .. Len(kolejka[i]) : kolejka[i][k] # p
           /\ \A i \in UsedCvSlot : \A k \in 1 .. Len(cvProcesy[i]) : cvProcesy[i][k].proces # p
           /\ server.at = "receive"
<1>1. client \in [Proc -> ClientType]
  BY DEF IInv, TypeOK, ClientType
<1>2. client[p].at = "sending" /\ client[p].req.typ = typ /\ server.at = "receive"
  BY DEF Receives
<1>3. /\ Received(p) \in [Proc -> ClientType]
      /\ Received(p)[p].at = "receiving" /\ Received(p)[p].req = client[p].req
      /\ \A q \in Proc : q # p => Received(p)[q] = client[q]
  BY <1>1 DEF Received, ClientType
<1>4. \A i \in Slot : \A k \in 1 .. Len(kolejka[i]) : kolejka[i][k] # p
  BY <1>2 DEF IInv, EntriesBlocked
<1>5. \A i \in UsedCvSlot : \A k \in 1 .. Len(cvProcesy[i]) : cvProcesy[i][k].proces # p
  BY <1>2 DEF IInv, EntriesBlocked
<1> QED BY <1>2, <1>3, <1>4, <1>5

\* What a step with unchanged tables that only answers its caller preserves.
LEMMA AnswerOnly ==
    ASSUME IInv, NEW p \in Proc, NEW typ, Receives(p, typ),
           NEW result \in Int, result = OK => typ \notin {"CS_LOCK", "CS_WAIT"},
           wyslijWiadomosc(Received(p), {Msg(p, result, -2)}, Idle),
           UNCHANGED <<tables, life, async>>
    PROVE  IInv'
<1> DEFINE k == Received(p)
           msgs == {Msg(p, result, -2)}
<1>1. /\ k \in [Proc -> ClientType] /\ k[p].at = "receiving" /\ k[p].req = client[p].req
      /\ \A q \in Proc : q # p => k[q] = client[q]
      /\ client[p].at = "sending" /\ client[p].req.typ = typ
      /\ \A i \in Slot : \A j \in 1 .. Len(kolejka[i]) : kolejka[i][j] # p
      /\ \A i \in UsedCvSlot : \A j \in 1 .. Len(cvProcesy[i]) : cvProcesy[i][j].proces # p
      /\ server.at = "receive"
  BY ReceivedProperties
<1>2. \A n \in msgs : n.do = p /\ n.typ = result
  BY DEF Msg
<1>3. Msg(p, result, -2) \in msgs
  OBVIOUS
<1> HIDE DEF k, msgs
<1>4. TypeOK
  BY DEF IInv
<1>5. /\ \A n \in msgs : n.do \in Proc /\ n.typ \in Int /\ k[n.do].at = "receiving"
      /\ \A n, n2 \in msgs : n.do = n2.do => n = n2
  BY <1>1, <1>2 DEF msgs
<1>6. /\ server' = Idle
      /\ client' \in [Proc -> ClientType]
      /\ holds' \in [Proc -> SUBSET Mutex]
      /\ \A q \in Proc : (life[q] = "dead" \/ \A n \in msgs : n.do # q) =>
                           client'[q] = k[q] /\ holds'[q] = holds[q]
      /\ \A n \in msgs : life[n.do] # "dead" =>
                           client'[n.do].at = "running" /\ client'[n.do].req = NoRequest
      /\ \A n \in msgs : \A m \in holds'[n.do] \ holds[n.do] :
            n.typ = OK /\ k[n.do].req.typ \in {"CS_LOCK", "CS_WAIT"}
      /\ \A q \in Proc : client'[q] = k[q] \/
                           (client'[q].at = "running" /\ client'[q].req = NoRequest)
  <2>1. wyslijWiadomosc(k, msgs, Idle)
    BY DEF k, msgs
  <2> QED BY <1>1, <1>4, <1>5, <2>1, Sending
<1>7. \A q \in Proc : q # p => client'[q] = client[q] /\ holds'[q] = holds[q]
  BY <1>1, <1>2, <1>6
<1>8. life[p] # "dead" => client'[p].at = "running" /\ client'[p].req = NoRequest
  BY <1>2, <1>3, <1>6
<1>9. holds'[p] \subseteq holds[p]
  BY <1>1, <1>2, <1>3, <1>6
<1>10. client'[p].at # "sending"
  BY <1>1, <1>6
<1>11. /\ UNCHANGED <<uzywany, numer, wlasciciel, kolejka, cvUzywany, cvNumer, cvProcesy>>
       /\ UNCHANGED <<life, async>> /\ UNCHANGED <<Slot, CvSlot>>
  BY DEF tables
<1>12. TypeOK'
  BY <1>4, <1>6, <1>11 DEF TypeOK, ClientType, Idle, ServerPlace
<1>13. DistinctNumbers' /\ FreeRowsEmpty'
  BY <1>11 DEF IInv, DistinctNumbers, FreeRowsEmpty, UsedSlot, UsedCvSlot
<1>14. WaitsOnce'
  BY <1>11 DEF IInv, WaitsOnce, UsedCvSlot, Sleeps
<1>15. EntriesBlocked'
  <2>1. \A i \in Slot : \A j \in 1 .. Len(kolejka[i]) :
           client'[kolejka[i][j]] = client[kolejka[i][j]]
    BY <1>1, <1>4, <1>7, EntryTypes
  <2>2. \A i \in UsedCvSlot : \A j \in 1 .. Len(cvProcesy[i]) :
           client'[cvProcesy[i][j].proces] = client[cvProcesy[i][j].proces]
    BY <1>1, <1>4, <1>7, EntryTypes DEF UsedCvSlot
  <2> QED BY <1>11, <2>1, <2>2 DEF IInv, EntriesBlocked, UsedCvSlot
<1>16. HoldersAreOwners'
  BY <1>7, <1>9, <1>11 DEF IInv, HoldersAreOwners, UsedSlot
<1>17. ExitsAreDead'
  BY <1>7, <1>9, <1>11 DEF IInv, ExitsAreDead
<1>18. GaveUp'
  BY <1>7, <1>10 DEF IInv, GaveUp
<1>19. BroadcastState' /\ NeverStuck'
  BY <1>6 DEF BroadcastState, NeverStuck, Idle
<1>20. NoLostProcess'
  BY <1>1, <1>7, <1>8, <1>11 DEF IInv, NoLostProcess, Accounted, Queues, UsedSlot, UsedCvSlot
<1> QED BY <1>12, <1>13, <1>14, <1>15, <1>16, <1>17, <1>18, <1>19, <1>20 DEF IInv

-----------------------------------------------------------------------------
(***************************************************************************)
(* cs_lock.                                                                *)
(***************************************************************************)

\* cs_lock on behalf of a process that is in no queue: used rows stay as they
\* are, the process is owner of the mutex or last in its queue, and the result
\* says which.
LEMMA LockTables ==
    ASSUME IInv, NEW p \in Proc, NEW m \in Mutex, ~LockOverflows(m), cs_lock(p, m),
           \A i \in Slot : \A j \in 1 .. Len(kolejka[i]) : kolejka[i][j] # p
    PROVE  /\ uzywany' \in [Slot -> {0, 1}] /\ numer' \in [Slot -> Mutex \cup {Zero}]
           /\ wlasciciel' \in [Slot -> Proc \cup {Zero}] /\ kolejka' \in [Slot -> Seq(Proc)]
           /\ \A i \in UsedSlot : uzywany'[i] = 1 /\ numer'[i] = numer[i]
                                  /\ wlasciciel'[i] = wlasciciel[i]
           /\ \A i, j \in Slot : uzywany'[i] = 1 /\ uzywany'[j] = 1 /\ numer'[i] = numer'[j] => i = j
           /\ \A i \in Slot : uzywany'[i] = 0 => kolejka'[i] = <<>>
           /\ \A i \in Slot : \A j \in 1 .. Len(kolejka[i]) :
                i \in UsedSlot /\ j \in 1 .. Len(kolejka'[i]) /\ kolejka'[i][j] = kolejka[i][j]
           /\ \A i \in Slot : \A j \in 1 .. Len(kolejka'[i]) :
                \/ i \in UsedSlot /\ j \in 1 .. Len(kolejka[i]) /\ kolejka'[i][j] = kolejka[i][j]
                \/ /\ LockResult(p, m) = EDONTREPLY
                   /\ kolejka'[i][j] = p /\ numer'[i] = m /\ i = indeksUzywanegoMutexa(m)
                   /\ j = Len(kolejka[i]) + 1
           /\ LockResult(p, m) = EDONTREPLY =>
                \E i \in Slot : /\ uzywany'[i] = 1 /\ numer'[i] = m
                                /\ \E j \in 1 .. Len(kolejka'[i]) : kolejka'[i][j] = p
           /\ LockResult(p, m) # EDONTREPLY =>
                /\ LockResult(p, m) \in {OK, EPERM}
                /\ \E i \in Slot : uzywany'[i] = 1 /\ numer'[i] = m /\ wlasciciel'[i] = p
<1> DEFINE i0 == indeksUzywanegoMutexa(m)
           f == freeMutex
<1>1. /\ i0 # -1 => i0 \in Slot /\ uzywany[i0] = 1 /\ numer[i0] = m
      /\ i0 = -1 => \A j \in Slot : uzywany[j] = 1 => numer[j] # m
  BY IndexOfMutex DEF IInv
<1>2. TypeOK /\ DistinctNumbers /\ FreeRowsEmpty
  BY DEF IInv
<1>3. \A i \in Slot : kolejka[i] \in Seq(Proc) /\ Len(kolejka[i]) \in Nat
  BY <1>2 DEF TypeOK
<1>4. \A i \in Slot : uzywany[i] \in {0, 1}
  BY <1>2 DEF TypeOK
<1>5. \A i \in Slot : \A j \in 1 .. Len(kolejka[i]) : i \in UsedSlot
  BY <1>2, <1>3, <1>4 DEF FreeRowsEmpty, UsedSlot
<1>6. CASE i0 = -1
  <2>1. f \in Slot /\ uzywany[f] = 0
    BY <1>2, <1>6, FreeRows DEF LockOverflows
  <2> HIDE DEF f
  <2>2. /\ numer' = [numer EXCEPT ![f] = m]
        /\ wlasciciel' = [wlasciciel EXCEPT ![f] = p]
        /\ uzywany' = [uzywany EXCEPT ![f] = 1]
        /\ kolejka' = kolejka
    BY <1>6 DEF cs_lock, f
  <2>3. LockResult(p, m) = OK
    BY <1>6 DEF LockResult
  <2>4. OK # EDONTREPLY
    BY DEF OK, EDONTREPLY
  <2>5. /\ uzywany' \in [Slot -> {0, 1}] /\ numer' \in [Slot -> Mutex \cup {Zero}]
        /\ wlasciciel' \in [Slot -> Proc \cup {Zero}] /\ kolejka' \in [Slot -> Seq(Proc)]
    BY <1>2, <2>1, <2>2 DEF TypeOK
  <2>6. \A i \in UsedSlot : uzywany'[i] = 1 /\ numer'[i] = numer[i] /\ wlasciciel'[i] = wlasciciel[i]
    BY <1>2, <2>1, <2>2 DEF UsedSlot, TypeOK
  <2>7. \A i, j \in Slot : uzywany'[i] = 1 /\ uzywany'[j] = 1 /\ numer'[i] = numer'[j] => i = j
    BY <1>1, <1>2, <1>6, <2>1, <2>2 DEF TypeOK, DistinctNumbers, UsedSlot
  <2>8. \A i \in Slot : uzywany'[i] = 0 => kolejka'[i] = <<>>
    BY <1>2, <2>1, <2>2 DEF TypeOK, FreeRowsEmpty
  <2>9. uzywany'[f] = 1 /\ numer'[f] = m /\ wlasciciel'[f] = p
    BY <1>2, <2>1, <2>2 DEF TypeOK
  <2> QED BY <1>5, <2>1, <2>2, <2>3, <2>4, <2>5, <2>6, <2>7, <2>8, <2>9
<1>7. CASE i0 # -1 /\ wlasciciel[i0] = p
  <2>1. UNCHANGED <<uzywany, numer, wlasciciel, kolejka>>
    BY <1>7 DEF cs_lock
  <2>2. LockResult(p, m) = EPERM /\ EPERM # EDONTREPLY
    BY <1>7 DEF LockResult, EPERM, EDONTREPLY
  <2>3. i0 \in Slot /\ uzywany[i0] = 1 /\ numer[i0] = m /\ wlasciciel[i0] = p
    BY <1>1, <1>7
  <2> QED BY <1>2, <1>5, <2>1, <2>2, <2>3 DEF TypeOK, DistinctNumbers, FreeRowsEmpty, UsedSlot
<1>8. CASE i0 # -1 /\ wlasciciel[i0] # p
  <2>1. /\ UNCHANGED <<uzywany, numer, wlasciciel>>
        /\ kolejka' = [kolejka EXCEPT ![i0] = Append(kolejka[i0], p)]
    BY <1>8 DEF cs_lock
  <2>2. LockResult(p, m) = EDONTREPLY
    BY <1>8 DEF LockResult
  <2>3. i0 \in Slot /\ uzywany[i0] = 1 /\ numer[i0] = m /\ i0 \in UsedSlot
    BY <1>1, <1>8 DEF UsedSlot
  <2>4. i0 = indeksUzywanegoMutexa(m)
    OBVIOUS
  <2> HIDE DEF i0
  <2>5. /\ kolejka'[i0] \in Seq(Proc) /\ Len(kolejka'[i0]) = Len(kolejka[i0]) + 1
        /\ \A j \in 1 .. Len(kolejka[i0]) : kolejka'[i0][j] = kolejka[i0][j]
        /\ kolejka'[i0][Len(kolejka[i0]) + 1] = p
    BY <1>2, <1>3, <2>1, <2>3 DEF TypeOK
  <2>6. \A i \in Slot : i # i0 => kolejka'[i] = kolejka[i]
    BY <1>2, <2>1 DEF TypeOK
  <2>7. kolejka' \in [Slot -> Seq(Proc)]
    BY <1>2, <1>3, <2>1, <2>3 DEF TypeOK
  <2>8. \A i \in Slot : \A j \in 1 .. Len(kolejka[i]) :
                i \in UsedSlot /\ j \in 1 .. Len(kolejka'[i]) /\ kolejka'[i][j] = kolejka[i][j]
    BY <1>3, <1>5, <2>5, <2>6
  <2>9. \A i \in Slot : \A j \in 1 .. Len(kolejka'[i]) :
                \/ i \in UsedSlot /\ j \in 1 .. Len(kolejka[i]) /\ kolejka'[i][j] = kolejka[i][j]
                \/ kolejka'[i][j] = p /\ numer'[i] = m /\ i = i0 /\ j = Len(kolejka[i]) + 1
    BY <1>3, <1>5, <2>1, <2>3, <2>5, <2>6
  <2>10. \E j \in 1 .. Len(kolejka'[i0]) : kolejka'[i0][j] = p
    BY <1>3, <2>3, <2>5
  <2>11. \A i \in Slot : uzywany'[i] = 0 => kolejka'[i] = <<>>
    BY <1>2, <2>1, <2>3, <2>6 DEF FreeRowsEmpty
  <2>12. \A i, j \in Slot : uzywany'[i] = 1 /\ uzywany'[j] = 1 /\ numer'[i] = numer'[j] => i = j
    BY <1>2, <2>1 DEF DistinctNumbers, UsedSlot
  <2>13. /\ uzywany' \in [Slot -> {0, 1}] /\ numer' \in [Slot -> Mutex \cup {Zero}]
         /\ wlasciciel' \in [Slot -> Proc \cup {Zero}]
    BY <1>2, <2>1 DEF TypeOK
  <2>14. \A i \in UsedSlot : uzywany'[i] = 1 /\ numer'[i] = numer[i] /\ wlasciciel'[i] = wlasciciel[i]
    BY <2>1 DEF UsedSlot
  <2>15. uzywany'[i0] = 1 /\ numer'[i0] = m
    BY <2>1, <2>3
  <2> QED BY <2>2, <2>3, <2>4, <2>7, <2>8, <2>9, <2>10, <2>11, <2>12, <2>13, <2>14, <2>15
<1> QED BY <1>6, <1>7, <1>8

\* A handled cs_lock preserves the invariant.
LEMMA HandleLockStep ==
    ASSUME IInv, NEW p \in Proc, HandleLock(p)
    PROVE  IInv'
<1> DEFINE k == Received(p)
           m == client[p].req.mutex
           res == LockResult(p, m)
           msgs == Answer(p, res)
<1>0. Receives(p, "CS_LOCK")
  BY DEF HandleLock
<1>1. /\ k \in [Proc -> ClientType] /\ k[p].at = "receiving" /\ k[p].req = client[p].req
      /\ \A q \in Proc : q # p => k[q] = client[q]
      /\ client[p].at = "sending" /\ client[p].req.typ = "CS_LOCK"
      /\ \A i \in Slot : \A j \in 1 .. Len(kolejka[i]) : kolejka[i][j] # p
      /\ \A i \in UsedCvSlot : \A j \in 1 .. Len(cvProcesy[i]) : cvProcesy[i][j].proces # p
      /\ server.at = "receive"
  BY <1>0, ReceivedProperties
<1>2. TypeOK
  BY DEF IInv
<1>3. m \in Mutex
  <2>1. client[p].req \in Request \cup {NoRequest}
    BY <1>2 DEF TypeOK
  <2> QED BY <1>1, <2>1, RequestFields
<1>4. /\ uzywany' \in [Slot -> {0, 1}] /\ numer' \in [Slot -> Mutex \cup {Zero}]
      /\ wlasciciel' \in [Slot -> Proc \cup {Zero}] /\ kolejka' \in [Slot -> Seq(Proc)]
      /\ \A i \in UsedSlot : uzywany'[i] = 1 /\ numer'[i] = numer[i]
                             /\ wlasciciel'[i] = wlasciciel[i]
      /\ \A i, j \in Slot : uzywany'[i] = 1 /\ uzywany'[j] = 1 /\ numer'[i] = numer'[j] => i = j
      /\ \A i \in Slot : uzywany'[i] = 0 => kolejka'[i] = <<>>
      /\ \A i \in Slot : \A j \in 1 .. Len(kolejka[i]) :
           i \in UsedSlot /\ j \in 1 .. Len(kolejka'[i]) /\ kolejka'[i][j] = kolejka[i][j]
      /\ \A i \in Slot : \A j \in 1 .. Len(kolejka'[i]) :
           \/ i \in UsedSlot /\ j \in 1 .. Len(kolejka[i]) /\ kolejka'[i][j] = kolejka[i][j]
           \/ /\ res = EDONTREPLY
              /\ kolejka'[i][j] = p /\ numer'[i] = m /\ i = indeksUzywanegoMutexa(m)
              /\ j = Len(kolejka[i]) + 1
      /\ res = EDONTREPLY =>
           \E i \in Slot : /\ uzywany'[i] = 1 /\ numer'[i] = m
                           /\ \E j \in 1 .. Len(kolejka'[i]) : kolejka'[i][j] = p
      /\ res # EDONTREPLY =>
           /\ res \in {OK, EPERM}
           /\ \E i \in Slot : uzywany'[i] = 1 /\ numer'[i] = m /\ wlasciciel'[i] = p
  <2>1. ~LockOverflows(m) /\ cs_lock(p, m)
    BY DEF HandleLock
  <2> HIDE DEF m
  <2> QED BY <1>1, <1>3, <2>1, LockTables
<1>5. \A n \in msgs : n.do = p /\ n.typ = res
  BY DEF Answer, Msg
<1>6. /\ res = EDONTREPLY => msgs = {}
      /\ res # EDONTREPLY => \E n \in msgs : n.do = p /\ n.typ = res
  BY DEF Answer, Msg
<1>7. /\ \A n \in msgs : n.do \in Proc /\ n.typ \in Int /\ k[n.do].at = "receiving"
      /\ \A n, n2 \in msgs : n.do = n2.do => n = n2
  BY <1>1, <1>4, <1>6 DEF Answer, Msg, OK, EPERM
<1>8. wyslijWiadomosc(k, msgs, Idle) /\ UNCHANGED <<cvUzywany, cvNumer, cvProcesy, life, async>>
  BY DEF HandleLock, cvVars
<1> HIDE DEF k, msgs, res
<1>9. /\ server' = Idle
      /\ client' \in [Proc -> ClientType]
      /\ holds' \in [Proc -> SUBSET Mutex]
      /\ \A q \in Proc : (life[q] = "dead" \/ \A n \in msgs : n.do # q) =>
                           client'[q] = k[q] /\ holds'[q] = holds[q]
      /\ \A n \in msgs : life[n.do] # "dead" =>
                           client'[n.do].at = "running" /\ client'[n.do].req = NoRequest
      /\ \A n \in msgs : \A x \in holds'[n.do] \ holds[n.do] :
            life[n.do] = "alive" /\ x = k[n.do].req.mutex
      /\ \A q \in Proc : client'[q] = k[q] \/
                           (client'[q].at = "running" /\ client'[q].req = NoRequest)
  BY <1>1, <1>2, <1>7, <1>8, Sending
<1>10. \A q \in Proc : q # p => client'[q] = client[q] /\ holds'[q] = holds[q]
  BY <1>1, <1>5, <1>9
<1>11. res = EDONTREPLY => client'[p] = k[p] /\ holds'[p] = holds[p]
  BY <1>6, <1>9
<1>12. res # EDONTREPLY /\ life[p] # "dead" => client'[p].at = "running"
  BY <1>6, <1>9
<1>13. \A x \in holds'[p] : x \in holds[p] \/ (x = m /\ life[p] = "alive" /\ res # EDONTREPLY)
  BY <1>1, <1>6, <1>9, <1>11
<1>14. client'[p].at # "sending"
  BY <1>1, <1>9
<1> HIDE DEF m
<1>15. TypeOK'
  BY <1>2, <1>4, <1>8, <1>9 DEF TypeOK, ClientType, Idle, ServerPlace
<1>16. DistinctNumbers' /\ FreeRowsEmpty'
  BY <1>4, <1>8 DEF IInv, DistinctNumbers, FreeRowsEmpty, UsedSlot, UsedCvSlot
<1>17. WaitsOnce'
  <2>1. \A i, j \in Slot : \A x \in 1 .. Len(kolejka'[i]) : \A y \in 1 .. Len(kolejka'[j]) :
           kolejka'[i][x] = kolejka'[j][y] => i = j /\ x = y
    <3>1. \A i, j \in Slot : \A x \in 1 .. Len(kolejka[i]) : \A y \in 1 .. Len(kolejka[j]) :
             kolejka[i][x] = kolejka[j][y] => i = j /\ x = y
      BY DEF IInv, WaitsOnce
    <3>2. \A i \in Slot : \A x \in 1 .. Len(kolejka'[i]) :
             \/ x \in 1 .. Len(kolejka[i]) /\ kolejka'[i][x] = kolejka[i][x]
             \/ kolejka'[i][x] = p /\ i = indeksUzywanegoMutexa(m) /\ x = Len(kolejka[i]) + 1
      BY <1>4
    <3> QED BY <1>1, <3>1, <3>2, SMTT(30)
  <2>2. \A i \in Slot : \A x \in 1 .. Len(kolejka'[i]) : \A j \in UsedCvSlot :
           ~Sleeps(kolejka'[i][x], j)
    BY <1>1, <1>4 DEF IInv, WaitsOnce, Sleeps
  <2>3. \A q : \A j \in UsedCvSlot : Sleeps(q, j)' <=> Sleeps(q, j)
    BY <1>8 DEF Sleeps
  <2> QED BY <1>8, <2>1, <2>2, <2>3 DEF IInv, WaitsOnce, UsedCvSlot, Sleeps
<1>18. EntriesBlocked'
  <2>1. \A i \in Slot : \A j \in 1 .. Len(kolejka'[i]) :
           LET c == client'[kolejka'[i][j]] IN
           /\ c.at = "receiving" /\ c.req.typ \in {"CS_LOCK", "CS_WAIT"}
           /\ c.req.mutex = numer'[i]
    <3> SUFFICES ASSUME NEW i \in Slot, NEW j \in 1 .. Len(kolejka'[i])
                 PROVE  LET c == client'[kolejka'[i][j]] IN
                        /\ c.at = "receiving" /\ c.req.typ \in {"CS_LOCK", "CS_WAIT"}
                        /\ c.req.mutex = numer'[i]
      OBVIOUS
    <3>1. CASE i \in UsedSlot /\ j \in 1 .. Len(kolejka[i]) /\ kolejka'[i][j] = kolejka[i][j]
      <4>1. client'[kolejka[i][j]] = client[kolejka[i][j]] /\ numer'[i] = numer[i]
        BY <1>1, <1>2, <1>4, <1>10, <3>1, EntryTypes
      <4> QED BY <3>1, <4>1 DEF IInv, EntriesBlocked
    <3>2. CASE res = EDONTREPLY /\ kolejka'[i][j] = p /\ numer'[i] = m
      BY <1>1, <1>11, <3>2 DEF m
    <3> QED BY <1>4, <3>1, <3>2
  <2>2. \A i \in UsedCvSlot : \A j \in 1 .. Len(cvProcesy[i]) :
           client'[cvProcesy[i][j].proces] = client[cvProcesy[i][j].proces]
    BY <1>1, <1>2, <1>10, EntryTypes DEF UsedCvSlot
  <2> QED BY <1>8, <2>1, <2>2 DEF IInv, EntriesBlocked, UsedCvSlot
<1>19. HoldersAreOwners'
  <2>1. \A q \in Proc : \A x \in holds[q] : \E i \in Slot :
           uzywany'[i] = 1 /\ numer'[i] = x /\ wlasciciel'[i] = q
    <3> SUFFICES ASSUME NEW q \in Proc, NEW x \in holds[q]
                 PROVE  \E i \in Slot : uzywany'[i] = 1 /\ numer'[i] = x /\ wlasciciel'[i] = q
      OBVIOUS
    <3>1. PICK i \in UsedSlot : numer[i] = x /\ wlasciciel[i] = q
      BY DEF IInv, HoldersAreOwners
    <3>2. i \in Slot /\ uzywany'[i] = 1 /\ numer'[i] = x /\ wlasciciel'[i] = q
      BY <1>4, <3>1 DEF UsedSlot
    <3> QED BY <3>2
  <2>2. res # EDONTREPLY => \E i \in Slot : uzywany'[i] = 1 /\ numer'[i] = m /\ wlasciciel'[i] = p
    BY <1>4
  <2>3. \A x \in holds'[p] : \E i \in Slot : uzywany'[i] = 1 /\ numer'[i] = x /\ wlasciciel'[i] = p
    BY <1>13, <2>1, <2>2
  <2>4. \A q \in Proc : q # p => holds'[q] = holds[q]
    BY <1>10
  <2>5. \A q \in Proc : \A x \in holds'[q] :
           \E i \in Slot : uzywany'[i] = 1 /\ numer'[i] = x /\ wlasciciel'[i] = q
    BY <2>1, <2>3, <2>4
  <2> QED BY <2>5 DEF HoldersAreOwners, UsedSlot
<1>20. ExitsAreDead'
  BY <1>8, <1>10, <1>13 DEF IInv, ExitsAreDead
<1>21. GaveUp'
  BY <1>10, <1>14 DEF IInv, GaveUp
<1>22. BroadcastState' /\ NeverStuck'
  BY <1>9 DEF BroadcastState, NeverStuck, Idle
<1>23. NoLostProcess'
  <2> SUFFICES ASSUME NEW q \in Proc, life'[q] = "alive", client'[q].at = "receiving"
               PROVE  Accounted(q)'
    BY DEF NoLostProcess
  <2>1. CASE q = p
    <3>1. res = EDONTREPLY
      BY <1>8, <1>12, <2>1
    <3>2. client'[q].req.mutex = m
      BY <1>1, <1>11, <2>1, <3>1 DEF m
    <3>3. PICK i \in Slot : /\ uzywany'[i] = 1 /\ numer'[i] = m
                            /\ \E j \in 1 .. Len(kolejka'[i]) : kolejka'[i][j] = p
      BY <1>4, <3>1
    <3>4. i \in UsedSlot' /\ Queues(q, i)' /\ numer'[i] = client'[q].req.mutex
      BY <2>1, <3>2, <3>3 DEF UsedSlot, Queues
    <3> QED BY <3>4 DEF Accounted
  <2>2. CASE q # p
    <3>1. client'[q] = client[q] /\ Accounted(q)
      BY <1>1, <1>8, <1>10, <2>2 DEF IInv, NoLostProcess
    <3>2. CASE \E i \in UsedSlot : Queues(q, i) /\ numer[i] = client[q].req.mutex
      <4>1. PICK i \in UsedSlot : Queues(q, i) /\ numer[i] = client[q].req.mutex
        BY <3>2
      <4>2. i \in Slot /\ uzywany'[i] = 1 /\ numer'[i] = client'[q].req.mutex
        BY <1>4, <3>1, <4>1 DEF UsedSlot
      <4>3. Queues(q, i)'
        BY <1>4, <4>1, <4>2 DEF Queues
      <4>4. i \in UsedSlot'
        BY <4>2 DEF UsedSlot
      <4> QED BY <4>2, <4>3, <4>4 DEF Accounted
    <3>3. CASE \E i \in UsedCvSlot :
                  /\ cvNumer[i] = client[q].req.cv
                  /\ \E j \in 1 .. Len(cvProcesy[i]) :
                        cvProcesy[i][j] = [proces |-> q, muteks |-> client[q].req.mutex]
      BY <1>8, <3>1, <3>3 DEF Accounted, UsedCvSlot
    <3> QED BY <1>1, <3>1, <3>2, <3>3 DEF Accounted
  <2> QED BY <2>1, <2>2
<1> QED BY <1>15, <1>16, <1>17, <1>18, <1>19, <1>20, <1>21, <1>22, <1>23 DEF IInv

-----------------------------------------------------------------------------
(***************************************************************************)
(* cs_unlock.                                                              *)
(***************************************************************************)

\* Releasing the rows in J: a row stays used exactly when somebody queues for
\* it, the first in its queue becomes the owner and leaves the queue, and the
\* other queues are as they were.
LEMMA UnlockTables ==
    ASSUME IInv, NEW J \in SUBSET UsedSlot, UnlockSlots(J)
    PROVE  LET Q == QueuesAfterUnlock(J) IN
           /\ uzywany' \in [Slot -> {0, 1}] /\ numer' = numer
           /\ wlasciciel' \in [Slot -> Proc \cup {Zero}] /\ Q \in [Slot -> Seq(Proc)]
           /\ \A i \in Slot : uzywany'[i] = 1 => uzywany[i] = 1
           /\ \A i \in Slot : uzywany'[i] = 0 => Q[i] = <<>>
           /\ \A i \in UsedSlot \ J : uzywany'[i] = 1 /\ wlasciciel'[i] = wlasciciel[i]
           /\ \A i \in HandedOver(J) : /\ i \in Slot /\ 1 \in 1 .. Len(kolejka[i])
                                       /\ uzywany'[i] = 1 /\ wlasciciel'[i] = kolejka[i][1]
           /\ \A i \in Slot : \A j \in 1 .. Len(Q[i]) :
                \E l \in 1 .. Len(kolejka[i]) :
                   /\ Q[i][j] = kolejka[i][l]
                   /\ l = IF i \in HandedOver(J) THEN j + 1 ELSE j
           /\ \A i \in Slot : \A l \in 1 .. Len(kolejka[i]) :
                \/ i \in HandedOver(J) /\ l = 1
                \/ \E j \in 1 .. Len(Q[i]) : Q[i][j] = kolejka[i][l]
<1> DEFINE Q == QueuesAfterUnlock(J)
           H == HandedOver(J)
<1>1. TypeOK /\ FreeRowsEmpty
  BY DEF IInv
<1>2. J \subseteq Slot /\ H \subseteq J
  BY DEF UsedSlot, HandedOver
<1>3. \A i \in Slot : kolejka[i] \in Seq(Proc) /\ Len(kolejka[i]) \in Nat /\ uzywany[i] \in {0, 1}
  BY <1>1 DEF TypeOK
<1>4. \A i \in J : i \in H <=> kolejka[i] # <<>>
  BY DEF HandedOver
<1>5. \A i \in H : /\ 1 \in 1 .. Len(kolejka[i]) /\ Head(kolejka[i]) = kolejka[i][1]
                   /\ kolejka[i][1] \in Proc
                   /\ Tail(kolejka[i]) \in Seq(Proc)
                   /\ Len(Tail(kolejka[i])) = Len(kolejka[i]) - 1
                   /\ \A j \in 1 .. Len(Tail(kolejka[i])) : Tail(kolejka[i])[j] = kolejka[i][j + 1]
  BY <1>2, <1>3, <1>4
<1>6. Q = [i \in Slot |-> IF i \in H THEN Tail(kolejka[i]) ELSE kolejka[i]]
  BY DEF QueuesAfterUnlock
<1>7. /\ uzywany' = [i \in Slot |-> IF i \in J \ H THEN 0 ELSE uzywany[i]]
      /\ wlasciciel' = [i \in Slot |-> IF i \in H THEN Head(kolejka[i]) ELSE wlasciciel[i]]
      /\ numer' = numer
  BY DEF UnlockSlots
<1> HIDE DEF Q, H
<1>8. uzywany' \in [Slot -> {0, 1}]
  BY <1>3, <1>7
<1>9. wlasciciel' \in [Slot -> Proc \cup {Zero}]
  <2>1. wlasciciel \in [Slot -> Proc \cup {Zero}]
    BY <1>1 DEF TypeOK
  <2> QED BY <1>5, <1>7, <2>1
<1>10. Q \in [Slot -> Seq(Proc)]
  BY <1>3, <1>5, <1>6
<1>11. \A i \in Slot : uzywany'[i] = 1 => uzywany[i] = 1
  BY <1>7
<1>12. \A i \in Slot : uzywany'[i] = 0 => Q[i] = <<>>
  BY <1>1, <1>2, <1>3, <1>4, <1>6, <1>7 DEF FreeRowsEmpty, UsedSlot
<1>13. \A i \in UsedSlot \ J : uzywany'[i] = 1 /\ wlasciciel'[i] = wlasciciel[i]
  BY <1>2, <1>7 DEF UsedSlot
<1>14. \A i \in H : /\ i \in Slot /\ 1 \in 1 .. Len(kolejka[i])
                    /\ uzywany'[i] = 1 /\ wlasciciel'[i] = kolejka[i][1]
  BY <1>2, <1>5, <1>7 DEF UsedSlot
<1>15. \A i \in Slot : \A j \in 1 .. Len(Q[i]) :
          \E l \in 1 .. Len(kolejka[i]) :
             Q[i][j] = kolejka[i][l] /\ l = IF i \in H THEN j + 1 ELSE j
  <2> SUFFICES ASSUME NEW i \in Slot, NEW j \in 1 .. Len(Q[i])
               PROVE  \E l \in 1 .. Len(kolejka[i]) :
                         Q[i][j] = kolejka[i][l] /\ l = IF i \in H THEN j + 1 ELSE j
    OBVIOUS
  <2>1. CASE i \in H
    <3>1. j + 1 \in 1 .. Len(kolejka[i]) /\ Q[i][j] = kolejka[i][j + 1]
      BY <1>3, <1>5, <1>6, <2>1
    <3> QED BY <2>1, <3>1
  <2>2. CASE i \notin H
    BY <1>6, <2>2
  <2> QED BY <2>1, <2>2
<1>16. \A i \in Slot : \A l \in 1 .. Len(kolejka[i]) :
          \/ i \in H /\ l = 1
          \/ \E j \in 1 .. Len(Q[i]) : Q[i][j] = kolejka[i][l]
  <2> SUFFICES ASSUME NEW i \in Slot, NEW l \in 1 .. Len(kolejka[i]), ~(i \in H /\ l = 1)
               PROVE  \E j \in 1 .. Len(Q[i]) : Q[i][j] = kolejka[i][l]
    OBVIOUS
  <2>1. CASE i \in H
    <3>1. l - 1 \in 1 .. Len(Q[i]) /\ Q[i][l - 1] = kolejka[i][l]
      BY <1>3, <1>5, <1>6, <2>1
    <3> QED BY <3>1
  <2>2. CASE i \notin H
    BY <1>6, <2>2
  <2> QED BY <2>1, <2>2
<1> QED BY <1>7, <1>8, <1>9, <1>10, <1>11, <1>12, <1>13, <1>14, <1>15, <1>16 DEF Q, H

\* The messages of cs_unlock: one to each new owner, who is receiving, for a
\* mutex it called for, and is in no queue any more.
LEMMA GrantMessages ==
    ASSUME IInv, NEW J \in SUBSET UsedSlot, UnlockSlots(J)
    PROVE  /\ \A n \in Grants(J) : \E i \in HandedOver(J) :
                /\ n = Msg(kolejka[i][1], OK, i)
                /\ n.do = kolejka[i][1] /\ n.typ = OK /\ n.do \in Proc
                /\ client[n.do].at = "receiving" /\ client[n.do].req.mutex = numer[i]
                /\ client[n.do].req.typ \in {"CS_LOCK", "CS_WAIT"}
           /\ \A i \in HandedOver(J) : \E n \in Grants(J) : n.do = kolejka[i][1]
           /\ \A n, n2 \in Grants(J) : n.do = n2.do => n = n2
           /\ \A n \in Grants(J) : \A i \in Slot : \A j \in 1 .. Len(QueuesAfterUnlock(J)[i]) :
                QueuesAfterUnlock(J)[i][j] # n.do
<1> DEFINE Q == QueuesAfterUnlock(J)
           H == HandedOver(J)
<1>1. TypeOK /\ WaitsOnce /\ EntriesBlocked
  BY DEF IInv
<1>2. \A i \in H : i \in Slot /\ 1 \in 1 .. Len(kolejka[i])
  BY UnlockTables
<1>3. \A i \in H : Head(kolejka[i]) = kolejka[i][1] /\ kolejka[i][1] \in Proc
  BY <1>1, <1>2, EntryTypes DEF TypeOK
<1>4. \A n \in Grants(J) : \E i \in H : n = Msg(kolejka[i][1], OK, i)
  BY <1>3 DEF Grants
<1>5. \A i \in H : Msg(kolejka[i][1], OK, i) \in Grants(J)
  BY <1>3 DEF Grants
<1>6. \A i \in Slot : \A j \in 1 .. Len(Q[i]) : \E l \in 1 .. Len(kolejka[i]) :
         Q[i][j] = kolejka[i][l] /\ (i \in H => l # 1)
  <2> SUFFICES ASSUME NEW i \in Slot, NEW j \in 1 .. Len(Q[i])
               PROVE  \E l \in 1 .. Len(kolejka[i]) : Q[i][j] = kolejka[i][l] /\ (i \in H => l # 1)
    OBVIOUS
  <2>1. PICK l \in 1 .. Len(kolejka[i]) : Q[i][j] = kolejka[i][l] /\ l = IF i \in H THEN j + 1 ELSE j
    BY UnlockTables
  <2>2. j \in Nat /\ j >= 1
    OBVIOUS
  <2> QED BY <2>1, <2>2
<1> HIDE DEF Q, H
<1>7. \A i \in H : LET c == client[kolejka[i][1]] IN
         /\ c.at = "receiving" /\ c.req.typ \in {"CS_LOCK", "CS_WAIT"} /\ c.req.mutex = numer[i]
  BY <1>1, <1>2 DEF EntriesBlocked
<1>8. \A i, i2 \in H : kolejka[i][1] = kolejka[i2][1] => i = i2
  BY <1>1, <1>2 DEF WaitsOnce
<1>9. \A i \in H : \A i2 \in Slot : \A j \in 1 .. Len(Q[i2]) : Q[i2][j] # kolejka[i][1]
  <2> SUFFICES ASSUME NEW i \in H, NEW i2 \in Slot, NEW j \in 1 .. Len(Q[i2]),
                      Q[i2][j] = kolejka[i][1]
               PROVE  FALSE
    OBVIOUS
  <2>1. PICK l \in 1 .. Len(kolejka[i2]) : Q[i2][j] = kolejka[i2][l] /\ (i2 \in H => l # 1)
    BY <1>6
  <2>2. i \in Slot /\ 1 \in 1 .. Len(kolejka[i]) /\ kolejka[i2][l] = kolejka[i][1]
    BY <1>2, <2>1
  <2>3. \A a, b \in Slot : \A x \in 1 .. Len(kolejka[a]) : \A y \in 1 .. Len(kolejka[b]) :
           kolejka[a][x] = kolejka[b][y] => a = b /\ x = y
    BY <1>1 DEF WaitsOnce
  <2>4. i2 = i /\ l = 1
    BY <2>2, <2>3
  <2> QED BY <2>1, <2>4
<1>10. \A q, t, z : Msg(q, t, z).do = q /\ Msg(q, t, z).typ = t
  BY DEF Msg
<1>11. \A n \in Grants(J) : \E i \in H :
          /\ n = Msg(kolejka[i][1], OK, i)
          /\ n.do = kolejka[i][1] /\ n.typ = OK /\ n.do \in Proc
          /\ client[n.do].at = "receiving" /\ client[n.do].req.mutex = numer[i]
          /\ client[n.do].req.typ \in {"CS_LOCK", "CS_WAIT"}
  BY <1>3, <1>4, <1>7, <1>10
<1>12. \A n, n2 \in Grants(J) : n.do = n2.do => n = n2
  BY <1>8, <1>11
<1>13. \A i \in H : \E n \in Grants(J) : n.do = kolejka[i][1]
  BY <1>5, <1>10
<1>14. \A n \in Grants(J) : \A i \in Slot : \A j \in 1 .. Len(Q[i]) : Q[i][j] # n.do
  BY <1>9, <1>11
<1> QED BY <1>11, <1>12, <1>13, <1>14 DEF Q, H

\* p, who no longer counts on the mutexes of the rows J it owns, releases
\* them; k is client as the messages msgs find it: the grants, and E, which is
\* empty or an OK answer to p.
Releases(p, J, k, E, msgs) ==
    /\ UnlockSlots(J) /\ \A i \in J : wlasciciel[i] = p /\ numer[i] \notin holds[p]
    /\ k \in [Proc -> ClientType] /\ \A q \in Proc : q # p => k[q] = client[q]
    /\ E \in SUBSET {Msg(p, OK, -2)}
    /\ \/ k[p] = client[p] /\ E = {}
       \/ \A i \in Slot : \A l \in 1 .. Len(kolejka[i]) : kolejka[i][l] # p
    /\ E # {} => k[p].at = "receiving" /\ k[p].req.typ \notin {"CS_LOCK", "CS_WAIT"}
    /\ \A n : n \in msgs <=> n \in Grants(J) \/ n \in E

\* Sending the grants, and perhaps an OK answer to the caller p: new owners
\* run, whoever is still queued does not notice, and everybody who believes
\* it holds a mutex owns it.
LEMMA UnlockSends ==
    ASSUME IInv, NEW p \in Proc, NEW J \in SUBSET UsedSlot, NEW k, NEW E, NEW msgs,
           Releases(p, J, k, E, msgs),
           NEW next, wyslijWiadomosc(k, msgs, next)
    PROVE  /\ server' = next
           /\ client' \in [Proc -> ClientType]
           /\ holds' \in [Proc -> SUBSET Mutex]
           /\ \A q \in Proc : client'[q] = k[q] \/
                                (client'[q].at = "running" /\ client'[q].req = NoRequest)
           /\ \A q \in Proc : (\A i \in HandedOver(J) : kolejka[i][1] # q) /\ (q = p => E = {}) =>
                                client'[q] = k[q]
           /\ \A i \in HandedOver(J) : life[kolejka[i][1]] # "dead" =>
                                         client'[kolejka[i][1]].at = "running"
           /\ E # {} /\ life[p] # "dead" => client'[p].at = "running"
           /\ \A i \in Slot : \A j \in 1 .. Len(QueuesAfterUnlock(J)[i]) :
                client'[QueuesAfterUnlock(J)[i][j]] = client[QueuesAfterUnlock(J)[i][j]]
           /\ \A q \in Proc : \A x \in holds'[q] : \E i \in Slot :
                uzywany'[i] = 1 /\ numer[i] = x /\ wlasciciel'[i] = q
           /\ \A q \in Proc : life[q] # "alive" => holds'[q] \subseteq holds[q]
           /\ \A q \in Proc : client'[q].at = "sending" => holds'[q] \subseteq holds[q]
<1> DEFINE Q == QueuesAfterUnlock(J)
           H == HandedOver(J)
           G == Grants(J)
<1>0. /\ UnlockSlots(J) /\ \A i \in J : wlasciciel[i] = p /\ numer[i] \notin holds[p]
      /\ k \in [Proc -> ClientType] /\ \A q \in Proc : q # p => k[q] = client[q]
      /\ E \in SUBSET {Msg(p, OK, -2)}
      /\ \/ k[p] = client[p] /\ E = {}
         \/ \A i \in Slot : \A l \in 1 .. Len(kolejka[i]) : kolejka[i][l] # p
      /\ E # {} => k[p].at = "receiving" /\ k[p].req.typ \notin {"CS_LOCK", "CS_WAIT"}
  BY DEF Releases
<1>1. TypeOK /\ HoldersAreOwners
  BY DEF IInv
<1>2. /\ \A n \in G : \E i \in H :
           /\ n.do = kolejka[i][1] /\ n.typ = OK /\ n.do \in Proc
           /\ client[n.do].at = "receiving" /\ client[n.do].req.mutex = numer[i]
           /\ client[n.do].req.typ \in {"CS_LOCK", "CS_WAIT"}
      /\ \A i \in H : \E n \in G : n.do = kolejka[i][1]
      /\ \A n, n2 \in G : n.do = n2.do => n = n2
      /\ \A n \in G : \A i \in Slot : \A j \in 1 .. Len(Q[i]) : Q[i][j] # n.do
  BY <1>0, GrantMessages
<1>3. /\ \A i \in UsedSlot \ J : uzywany'[i] = 1 /\ wlasciciel'[i] = wlasciciel[i]
      /\ \A i \in H : /\ i \in Slot /\ 1 \in 1 .. Len(kolejka[i])
                      /\ uzywany'[i] = 1 /\ wlasciciel'[i] = kolejka[i][1]
      /\ \A i \in Slot : \A j \in 1 .. Len(Q[i]) :
           \E l \in 1 .. Len(kolejka[i]) : Q[i][j] = kolejka[i][l]
  BY <1>0, UnlockTables
<1>4. \A n \in E : n = Msg(p, OK, -2) /\ n.do = p /\ n.typ = OK
  BY <1>0 DEF Msg
<1>5. E # {} => Msg(p, OK, -2) \in E
  BY <1>0
<1>m. \A n : n \in msgs <=> n \in G \/ n \in E
  BY DEF Releases
<1> HIDE DEF Q, H, G
<1>6. E # {} => \A n \in G : n.do # p
  BY <1>0, <1>2, <1>3
<1>7. \A n \in G : k[n.do] = client[n.do]
  BY <1>0, <1>2, <1>3
<1>8. /\ \A n \in msgs : n.do \in Proc /\ n.typ \in Int /\ k[n.do].at = "receiving"
      /\ \A n, n2 \in msgs : n.do = n2.do => n = n2
  <2>1. OK \in Int
    BY DEF OK
  <2>2. \A n \in G : n.do \in Proc /\ n.typ \in Int /\ k[n.do].at = "receiving"
    BY <1>2, <1>7, <2>1
  <2>3. \A n \in E : n.do \in Proc /\ n.typ \in Int /\ k[n.do].at = "receiving"
    BY <1>0, <1>4, <2>1
  <2> QED BY <1>2, <1>4, <1>6, <1>m, <2>2, <2>3
<1>9. wyslijWiadomosc(k, msgs, next)
  OBVIOUS
<1>10. /\ server' = next
       /\ client' \in [Proc -> ClientType]
       /\ holds' \in [Proc -> SUBSET Mutex]
       /\ \A q \in Proc : (life[q] = "dead" \/ \A n \in msgs : n.do # q) =>
                            client'[q] = k[q] /\ holds'[q] = holds[q]
       /\ \A n \in msgs : life[n.do] # "dead" =>
                            client'[n.do].at = "running" /\ client'[n.do].req = NoRequest
       /\ \A n \in msgs : \A m \in holds'[n.do] \ holds[n.do] :
            /\ n.typ = OK /\ life[n.do] = "alive" /\ m = k[n.do].req.mutex
            /\ k[n.do].req.typ \in {"CS_LOCK", "CS_WAIT"}
       /\ \A q \in Proc : client'[q] = k[q] \/
                            (client'[q].at = "running" /\ client'[q].req = NoRequest)
  BY <1>0, <1>1, <1>8, <1>9, Sending
<1>11. \A q \in Proc : (\A i \in H : kolejka[i][1] # q) /\ (q = p => E = {}) => client'[q] = k[q]
  BY <1>m, <1>2, <1>4, <1>10
<1>12. \A i \in H : life[kolejka[i][1]] # "dead" => client'[kolejka[i][1]].at = "running"
  BY <1>m, <1>2, <1>10
<1>13. E # {} /\ life[p] # "dead" => client'[p].at = "running"
  BY <1>m, <1>4, <1>5, <1>10
<1>14. \A i \in Slot : \A j \in 1 .. Len(Q[i]) : client'[Q[i][j]] = client[Q[i][j]]
  <2> SUFFICES ASSUME NEW i \in Slot, NEW j \in 1 .. Len(Q[i])
               PROVE  client'[Q[i][j]] = client[Q[i][j]]
    OBVIOUS
  <2>1. PICK l \in 1 .. Len(kolejka[i]) : Q[i][j] = kolejka[i][l]
    BY <1>3
  <2>2. Q[i][j] \in Proc
    BY <1>1, <2>1, EntryTypes
  <2>3. k[Q[i][j]] = client[Q[i][j]] /\ (Q[i][j] = p => E = {})
    BY <1>0, <2>1, <2>2
  <2>4. \A n \in msgs : n.do # Q[i][j]
    BY <1>m, <1>2, <1>4, <2>3
  <2> QED BY <1>10, <2>2, <2>3, <2>4
<1>15. \A q \in Proc : \A x \in holds'[q] : \E i \in Slot :
          uzywany'[i] = 1 /\ numer[i] = x /\ wlasciciel'[i] = q
  <2> SUFFICES ASSUME NEW q \in Proc, NEW x \in holds'[q]
               PROVE  \E i \in Slot : uzywany'[i] = 1 /\ numer[i] = x /\ wlasciciel'[i] = q
    OBVIOUS
  <2>1. CASE x \in holds[q]
    <3>1. PICK i \in UsedSlot : numer[i] = x /\ wlasciciel[i] = q
      BY <1>1, <2>1 DEF HoldersAreOwners
    <3>2. i \notin J
      BY <1>0, <2>1, <3>1
    <3>3. i \in Slot
      BY DEF UsedSlot
    <3> QED BY <1>3, <3>1, <3>2, <3>3
  <2>2. CASE x \notin holds[q]
    <3>1. PICK n \in msgs : n.do = q
      BY <1>10, <2>2
    <3>2. x = k[q].req.mutex /\ k[q].req.typ \in {"CS_LOCK", "CS_WAIT"}
      BY <1>10, <2>2, <3>1
    <3>3. n \in G
      BY <1>0, <1>m, <1>4, <1>5, <3>1, <3>2
    <3>4. PICK i \in H : n.do = kolejka[i][1] /\ client[n.do].req.mutex = numer[i]
      BY <1>2, <3>3
    <3>5. i \in Slot /\ uzywany'[i] = 1 /\ wlasciciel'[i] = q
      BY <1>3, <3>1, <3>4
    <3>6. numer[i] = x
      BY <1>7, <3>1, <3>2, <3>3, <3>4
    <3> QED BY <3>5, <3>6
  <2> QED BY <2>1, <2>2
<1>16. \A q \in Proc : life[q] # "alive" => holds'[q] \subseteq holds[q]
  BY <1>10
<1>17. \A q \in Proc : client'[q].at = "sending" => holds'[q] \subseteq holds[q]
  BY <1>10
<1> QED BY <1>10, <1>11, <1>12, <1>13, <1>14, <1>15, <1>16, <1>17 DEF Q, H

\* After the hand-over every queue still names each process at most once, all
\* queues together too, and names nobody who sleeps on a condition variable.
LEMMA QueuesOnce ==
    ASSUME IInv, NEW J \in SUBSET UsedSlot, UnlockSlots(J)
    PROVE  LET Q == QueuesAfterUnlock(J) IN
           /\ \A i, j \in Slot : \A x \in 1 .. Len(Q[i]) : \A y \in 1 .. Len(Q[j]) :
                Q[i][x] = Q[j][y] => i = j /\ x = y
           /\ \A i \in Slot : \A x \in 1 .. Len(Q[i]) : \A j \in UsedCvSlot : ~Sleeps(Q[i][x], j)
           /\ \A i \in Slot : \A x \in 1 .. Len(Q[i]) :
                LET c == client[Q[i][x]] IN
                /\ c.at = "receiving" /\ c.req.typ \in {"CS_LOCK", "CS_WAIT"}
                /\ c.req.mutex = numer[i] /\ Q[i][x] \in Proc
<1> DEFINE Q == QueuesAfterUnlock(J)
           H == HandedOver(J)
<1>1. \A i \in Slot : \A j \in 1 .. Len(Q[i]) : \E l \in 1 .. Len(kolejka[i]) :
         Q[i][j] = kolejka[i][l] /\ l = IF i \in H THEN j + 1 ELSE j
  BY UnlockTables
<1> HIDE DEF Q, H
<1>2. \A i, j \in Slot : \A x \in 1 .. Len(kolejka[i]) : \A y \in 1 .. Len(kolejka[j]) :
         kolejka[i][x] = kolejka[j][y] => i = j /\ x = y
  BY DEF IInv, WaitsOnce
<1>3. \A i \in Slot : \A x \in 1 .. Len(kolejka[i]) : \A j \in UsedCvSlot : ~Sleeps(kolejka[i][x], j)
  BY DEF IInv, WaitsOnce
<1>4. \A i \in Slot : \A x \in 1 .. Len(kolejka[i]) :
         LET c == client[kolejka[i][x]] IN
         /\ c.at = "receiving" /\ c.req.typ \in {"CS_LOCK", "CS_WAIT"}
         /\ c.req.mutex = numer[i] /\ kolejka[i][x] \in Proc
  BY EntryTypes DEF IInv, EntriesBlocked
<1>5. \A i, j \in Slot : \A x \in 1 .. Len(Q[i]) : \A y \in 1 .. Len(Q[j]) :
         Q[i][x] = Q[j][y] => i = j /\ x = y
  <2> SUFFICES ASSUME NEW i \in Slot, NEW j \in Slot, NEW x \in 1 .. Len(Q[i]),
                      NEW y \in 1 .. Len(Q[j]), Q[i][x] = Q[j][y]
               PROVE  i = j /\ x = y
    OBVIOUS
  <2>1. PICK l \in 1 .. Len(kolejka[i]) : Q[i][x] = kolejka[i][l] /\ l = IF i \in H THEN x + 1 ELSE x
    BY <1>1
  <2>2. PICK r \in 1 .. Len(kolejka[j]) : Q[j][y] = kolejka[j][r] /\ r = IF j \in H THEN y + 1 ELSE y
    BY <1>1
  <2>3. kolejka[i][l] = kolejka[j][r]
    BY <2>1, <2>2
  <2>4. i = j /\ l = r
    BY <1>2, <2>3
  <2>5. x \in Int /\ y \in Int
    OBVIOUS
  <2> QED BY <2>1, <2>2, <2>4, <2>5
<1>6. \A i \in Slot : \A x \in 1 .. Len(Q[i]) : \E l \in 1 .. Len(kolejka[i]) : Q[i][x] = kolejka[i][l]
  BY <1>1
<1>7. \A i \in Slot : \A x \in 1 .. Len(Q[i]) : \A j \in UsedCvSlot : ~Sleeps(Q[i][x], j)
  BY <1>3, <1>6
<1>8. \A i \in Slot : \A x \in 1 .. Len(Q[i]) :
         LET c == client[Q[i][x]] IN
         /\ c.at = "receiving" /\ c.req.typ \in {"CS_LOCK", "CS_WAIT"}
         /\ c.req.mutex = numer[i] /\ Q[i][x] \in Proc
  BY <1>4, <1>6
<1> QED BY <1>5, <1>7, <1>8 DEF Q

\* A process somebody waits for is found again: the entry of q in the queues
\* survives the hand-over unless q is a new owner.
LEMMA StillQueued ==
    ASSUME IInv, NEW J \in SUBSET UsedSlot, UnlockSlots(J), NEW q, NEW i \in UsedSlot, Queues(q, i),
           \A h \in HandedOver(J) : kolejka[h][1] # q
    PROVE  /\ uzywany'[i] = 1
           /\ \E j \in 1 .. Len(QueuesAfterUnlock(J)[i]) : QueuesAfterUnlock(J)[i][j] = q
<1> DEFINE Q == QueuesAfterUnlock(J)
<1>1. i \in Slot
  BY DEF UsedSlot
<1>2. PICK l \in 1 .. Len(kolejka[i]) : kolejka[i][l] = q
  BY DEF Queues
<1>3. \E j \in 1 .. Len(Q[i]) : Q[i][j] = q
  <2>1. (i \in HandedOver(J) /\ l = 1) \/ \E j \in 1 .. Len(Q[i]) : Q[i][j] = kolejka[i][l]
    BY <1>1, UnlockTables
  <2> QED BY <1>2, <2>1
<1>4. uzywany'[i] \in {0, 1} /\ (uzywany'[i] = 0 => Q[i] = <<>>)
  BY <1>1, UnlockTables
<1> HIDE DEF Q
<1>5. Q[i] # <<>>
  BY <1>3
<1> QED BY <1>3, <1>4, <1>5 DEF Q

\* cs_unlock by the owner preserves the invariant.
LEMMA UnlockStep ==
    ASSUME IInv, NEW p \in Proc, cs_unlock(p)
    PROVE  IInv'
<1> DEFINE k == Received(p)
           m == client[p].req.mutex
           J == {indeksUzywanegoMutexa(m)}
           E == Answer(p, OK)
           Q == QueuesAfterUnlock(J)
<1>0. Receives(p, "CS_UNLOCK") /\ Owns(p, m) /\ UnlockSlots(J) /\ kolejka' = Q
  BY DEF cs_unlock
<1>1. /\ k \in [Proc -> ClientType] /\ k[p].at = "receiving" /\ k[p].req = client[p].req
      /\ \A q \in Proc : q # p => k[q] = client[q]
      /\ client[p].at = "sending" /\ client[p].req.typ = "CS_UNLOCK"
      /\ \A i \in Slot : \A j \in 1 .. Len(kolejka[i]) : kolejka[i][j] # p
      /\ \A i \in UsedCvSlot : \A j \in 1 .. Len(cvProcesy[i]) : cvProcesy[i][j].proces # p
      /\ server.at = "receive"
  BY <1>0, ReceivedProperties
<1>2. TypeOK
  BY DEF IInv
<1>3. J \in SUBSET UsedSlot /\ \A i \in J : wlasciciel[i] = p /\ numer[i] = m
  BY <1>0, <1>2, IndexOfMutex DEF Owns, UsedSlot
<1>4. m \notin holds[p]
  BY <1>1 DEF IInv, GaveUp
<1>5. E \in SUBSET {Msg(p, OK, -2)} /\ E # {}
  BY DEF Answer, OK, EDONTREPLY
<1> DEFINE msgs == Grants(J) \cup E
<1>6. wyslijWiadomosc(k, msgs, Idle)
      /\ UNCHANGED <<cvUzywany, cvNumer, cvProcesy, life, async>>
  BY DEF cs_unlock, cvVars
<1>m. Releases(p, J, k, E, msgs)
  BY <1>0, <1>1, <1>3, <1>4, <1>5 DEF Releases
<1> HIDE DEF k, J, E, Q, msgs
<1>7. /\ server' = Idle
      /\ client' \in [Proc -> ClientType]
      /\ holds' \in [Proc -> SUBSET Mutex]
      /\ \A q \in Proc : client'[q] = k[q] \/
                           (client'[q].at = "running" /\ client'[q].req = NoRequest)
      /\ \A q \in Proc : (\A i \in HandedOver(J) : kolejka[i][1] # q) /\ (q = p => E = {}) =>
                           client'[q] = k[q]
      /\ \A i \in HandedOver(J) : life[kolejka[i][1]] # "dead" =>
                                    client'[kolejka[i][1]].at = "running"
      /\ E # {} /\ life[p] # "dead" => client'[p].at = "running"
      /\ \A i \in Slot : \A j \in 1 .. Len(Q[i]) : client'[Q[i][j]] = client[Q[i][j]]
      /\ \A q \in Proc : \A x \in holds'[q] : \E i \in Slot :
           uzywany'[i] = 1 /\ numer[i] = x /\ wlasciciel'[i] = q
      /\ \A q \in Proc : life[q] # "alive" => holds'[q] \subseteq holds[q]
      /\ \A q \in Proc : client'[q].at = "sending" => holds'[q] \subseteq holds[q]
  BY <1>3, <1>m, <1>6, UnlockSends DEF Q
<1>8. /\ uzywany' \in [Slot -> {0, 1}] /\ numer' = numer
      /\ wlasciciel' \in [Slot -> Proc \cup {Zero}] /\ Q \in [Slot -> Seq(Proc)]
      /\ \A i \in Slot : uzywany'[i] = 1 => uzywany[i] = 1
      /\ \A i \in Slot : uzywany'[i] = 0 => Q[i] = <<>>
  BY <1>0, <1>3, UnlockTables DEF Q
<1>9. /\ \A i, j \in Slot : \A x \in 1 .. Len(Q[i]) : \A y \in 1 .. Len(Q[j]) :
           Q[i][x] = Q[j][y] => i = j /\ x = y
      /\ \A i \in Slot : \A x \in 1 .. Len(Q[i]) : \A j \in UsedCvSlot : ~Sleeps(Q[i][x], j)
      /\ \A i \in Slot : \A x \in 1 .. Len(Q[i]) :
           LET c == client[Q[i][x]] IN
           /\ c.at = "receiving" /\ c.req.typ \in {"CS_LOCK", "CS_WAIT"}
           /\ c.req.mutex = numer[i] /\ Q[i][x] \in Proc
  BY <1>0, <1>3, QueuesOnce DEF Q
<1>10. \A q \in Proc : q # p /\ client'[q] = k[q] => client'[q] = client[q]
  BY <1>1
<1>11. client'[p].at # "sending"
  BY <1>1, <1>7
<1>12. TypeOK'
  BY <1>0, <1>2, <1>6, <1>7, <1>8 DEF TypeOK, ClientType, Idle, ServerPlace
<1>13. DistinctNumbers' /\ FreeRowsEmpty'
  BY <1>0, <1>6, <1>8 DEF IInv, DistinctNumbers, FreeRowsEmpty, UsedSlot, UsedCvSlot
<1>14. WaitsOnce'
  <2>1. \A q : \A j \in UsedCvSlot : Sleeps(q, j)' <=> Sleeps(q, j)
    BY <1>6 DEF Sleeps
  <2> QED BY <1>0, <1>6, <1>9, <2>1 DEF IInv, WaitsOnce, UsedCvSlot, Sleeps
<1>15. EntriesBlocked'
  <2>1. \A i \in UsedCvSlot : \A j \in 1 .. Len(cvProcesy[i]) :
           client'[cvProcesy[i][j].proces] = client[cvProcesy[i][j].proces]
    <3> SUFFICES ASSUME NEW i \in UsedCvSlot, NEW j \in 1 .. Len(cvProcesy[i])
                 PROVE  client'[cvProcesy[i][j].proces] = client[cvProcesy[i][j].proces]
      OBVIOUS
    <3>1. cvProcesy[i][j].proces \in Proc /\ cvProcesy[i][j].proces # p
      BY <1>1, <1>2, EntryTypes DEF UsedCvSlot
    <3>2. \A h \in HandedOver(J) : h \in Slot /\ 1 \in 1 .. Len(kolejka[h])
      BY <1>0, <1>3, UnlockTables
    <3>3. \A h \in HandedOver(J) : kolejka[h][1] # cvProcesy[i][j].proces
      BY <3>2 DEF IInv, WaitsOnce, Sleeps
    <3> QED BY <1>7, <1>10, <3>1, <3>3
  <2>2. \A i \in Slot : \A j \in 1 .. Len(Q[i]) :
           LET c == client'[Q[i][j]] IN
           /\ c.at = "receiving" /\ c.req.typ \in {"CS_LOCK", "CS_WAIT"}
           /\ c.req.mutex = numer[i]
    BY <1>7, <1>9
  <2>3. \A i \in UsedCvSlot : \A j \in 1 .. Len(cvProcesy[i]) :
           LET c == client'[cvProcesy[i][j].proces] IN
           /\ c.at = "receiving" /\ c.req.typ = "CS_WAIT"
           /\ c.req.mutex = cvProcesy[i][j].muteks /\ c.req.cv = cvNumer[i]
    BY <2>1 DEF IInv, EntriesBlocked
  <2> QED BY <1>0, <1>6, <1>8, <2>2, <2>3 DEF EntriesBlocked, UsedCvSlot
<1>16. HoldersAreOwners'
  BY <1>7, <1>8 DEF HoldersAreOwners, UsedSlot
<1>17. ExitsAreDead'
  BY <1>6, <1>7 DEF IInv, ExitsAreDead
<1>18. GaveUp'
  <2> SUFFICES ASSUME NEW q \in Proc, client'[q].at = "sending",
                      client'[q].req.typ \in {"CS_UNLOCK", "CS_WAIT"}
               PROVE  client'[q].req.mutex \notin holds'[q]
    BY DEF GaveUp
  <2>1. client'[q] = client[q]
    BY <1>7, <1>10, <1>11
  <2> QED BY <1>7, <2>1 DEF IInv, GaveUp
<1>19. BroadcastState' /\ NeverStuck'
  BY <1>7 DEF BroadcastState, NeverStuck, Idle
<1>20. NoLostProcess'
  <2> SUFFICES ASSUME NEW q \in Proc, life[q] = "alive", client'[q].at = "receiving"
               PROVE  Accounted(q)'
    BY <1>6 DEF NoLostProcess
  <2>1. q # p /\ \A h \in HandedOver(J) : kolejka[h][1] # q
    BY <1>5, <1>7
  <2>2. client'[q] = client[q] /\ Accounted(q)
    BY <1>1, <1>7, <1>10, <2>1 DEF IInv, NoLostProcess
  <2>3. CASE \E i \in UsedSlot : Queues(q, i) /\ numer[i] = client[q].req.mutex
    <3>1. PICK i \in UsedSlot : Queues(q, i) /\ numer[i] = client[q].req.mutex
      BY <2>3
    <3>2. uzywany'[i] = 1 /\ \E j \in 1 .. Len(Q[i]) : Q[i][j] = q
      BY <1>0, <1>3, <2>1, <3>1, StillQueued DEF Q
    <3>3. i \in UsedSlot' /\ Queues(q, i)' /\ numer'[i] = client'[q].req.mutex
      BY <1>0, <1>8, <2>2, <3>1, <3>2 DEF UsedSlot, Queues
    <3> QED BY <3>3 DEF Accounted
  <2>4. CASE \E i \in UsedCvSlot :
                /\ cvNumer[i] = client[q].req.cv
                /\ \E j \in 1 .. Len(cvProcesy[i]) :
                      cvProcesy[i][j] = [proces |-> q, muteks |-> client[q].req.mutex]
    BY <1>6, <2>2, <2>4 DEF Accounted, UsedCvSlot
  <2> QED BY <1>1, <2>2, <2>3, <2>4 DEF Accounted
<1> QED BY <1>12, <1>13, <1>14, <1>15, <1>16, <1>17, <1>18, <1>19, <1>20 DEF IInv

-----------------------------------------------------------------------------
(***************************************************************************)
(* cs_wait.                                                                *)
(***************************************************************************)

\* What cs_wait does to the table CV: e joins the waiters of c.
CvAppended(c, e) ==
    /\ CvTarget(c) # -1
    /\ cvUzywany' = [cvUzywany EXCEPT ![CvTarget(c)] = 1]
    /\ cvNumer' = [cvNumer EXCEPT ![CvTarget(c)] = c]
    /\ cvProcesy' = [cvProcesy EXCEPT ![CvTarget(c)] = Append(CvWaiting(c), e)]

\* Appending e to the list of a condition variable, in its row or in a new one:
\* it is the only new entry, the others stay where they are.
LEMMA WaitTables ==
    ASSUME IInv, NEW e \in Waiter, NEW c \in CondVar, CvAppended(c, e)
    PROVE  /\ cvUzywany' \in [CvSlot -> {0, 1}] /\ cvNumer' \in [CvSlot -> CondVar \cup {Zero}]
           /\ cvProcesy' \in [CvSlot -> Seq(Waiter)]
           /\ \A i, j \in CvSlot : cvUzywany'[i] = 1 /\ cvUzywany'[j] = 1 /\ cvNumer'[i] = cvNumer'[j]
                                     => i = j
           /\ \A j \in UsedCvSlot : cvUzywany'[j] = 1 /\ cvNumer'[j] = cvNumer[j]
           /\ \A j \in UsedCvSlot : \A y \in 1 .. Len(cvProcesy[j]) :
                y \in 1 .. Len(cvProcesy'[j]) /\ cvProcesy'[j][y] = cvProcesy[j][y]
           /\ \A j \in CvSlot : cvUzywany'[j] = 1 => \A y \in 1 .. Len(cvProcesy'[j]) :
                \/ j \in UsedCvSlot /\ y \in 1 .. Len(cvProcesy[j]) /\ cvProcesy'[j][y] = cvProcesy[j][y]
                \/ /\ j = CvTarget(c) /\ y = Len(CvWaiting(c)) + 1 /\ cvNumer'[j] = c
                   /\ cvProcesy'[j][y] = e
           /\ \E j \in CvSlot : /\ cvUzywany'[j] = 1 /\ cvNumer'[j] = c
                                /\ \E y \in 1 .. Len(cvProcesy'[j]) : cvProcesy'[j][y] = e
<1> DEFINE t == CvTarget(c)
           L == CvWaiting(c)
<1>1. TypeOK /\ DistinctNumbers
  BY DEF IInv
<1>2. \A i \in CvSlot : cvProcesy[i] \in Seq(Waiter) /\ cvUzywany[i] \in {0, 1}
  BY <1>1 DEF TypeOK
<1>3. e \in Waiter
  OBVIOUS
<1>4. \/ /\ t \in CvSlot /\ cvUzywany[t] = 1 /\ cvNumer[t] = c /\ L = cvProcesy[t]
      \/ /\ t \in CvSlot /\ cvUzywany[t] = 0 /\ L = <<>>
         /\ \A j \in CvSlot : cvUzywany[j] = 1 => cvNumer[j] # c
  BY <1>1, IndexOfCv, FreeRows DEF CvTarget, CvWaiting, CvAppended
<1> HIDE DEF t, L
<1>5. L \in Seq(Waiter) /\ Len(L) \in Nat /\ t \in CvSlot
  <2>1. t \in CvSlot
    BY <1>4
  <2>2. <<>> \in Seq(Waiter)
    OBVIOUS
  <2>3. L \in Seq(Waiter)
    BY <1>2, <1>4, <2>2
  <2> QED BY <2>1, <2>3
<1>6. /\ Append(L, e) \in Seq(Waiter) /\ Len(Append(L, e)) = Len(L) + 1
      /\ \A y \in 1 .. Len(L) : Append(L, e)[y] = L[y]
      /\ Append(L, e)[Len(L) + 1] = e
  BY <1>3, <1>5
<1>7. /\ cvUzywany' = [cvUzywany EXCEPT ![t] = 1]
      /\ cvNumer' = [cvNumer EXCEPT ![t] = c]
      /\ cvProcesy' = [cvProcesy EXCEPT ![t] = Append(L, e)]
  BY DEF t, L, CvAppended
<1>8. /\ cvUzywany' \in [CvSlot -> {0, 1}] /\ cvNumer' \in [CvSlot -> CondVar \cup {Zero}]
      /\ cvProcesy' \in [CvSlot -> Seq(Waiter)]
  <2>1. /\ cvUzywany \in [CvSlot -> {0, 1}] /\ cvNumer \in [CvSlot -> CondVar \cup {Zero}]
        /\ cvProcesy \in [CvSlot -> Seq(Waiter)]
    BY <1>1 DEF TypeOK
  <2>2. cvUzywany' \in [CvSlot -> {0, 1}]
    BY <1>5, <1>7, <2>1
  <2>3. cvNumer' \in [CvSlot -> CondVar \cup {Zero}]
    BY <1>5, <1>7, <2>1
  <2>4. cvProcesy' \in [CvSlot -> Seq(Waiter)]
    BY <1>5, <1>6, <1>7, <2>1
  <2> QED BY <2>2, <2>3, <2>4
<1>9. /\ cvUzywany'[t] = 1 /\ cvNumer'[t] = c /\ cvProcesy'[t] = Append(L, e)
      /\ \A j \in CvSlot : j # t => /\ cvUzywany'[j] = cvUzywany[j] /\ cvNumer'[j] = cvNumer[j]
                                    /\ cvProcesy'[j] = cvProcesy[j]
  BY <1>1, <1>5, <1>7 DEF TypeOK
<1>10. \A i, j \in CvSlot : cvUzywany'[i] = 1 /\ cvUzywany'[j] = 1 /\ cvNumer'[i] = cvNumer'[j] => i = j
  BY <1>1, <1>4, <1>9 DEF DistinctNumbers, UsedCvSlot
<1>11. \A j \in UsedCvSlot : cvUzywany'[j] = 1 /\ cvNumer'[j] = cvNumer[j]
  BY <1>4, <1>9 DEF UsedCvSlot
<1>12. \A j \in UsedCvSlot : \A y \in 1 .. Len(cvProcesy[j]) :
          y \in 1 .. Len(cvProcesy'[j]) /\ cvProcesy'[j][y] = cvProcesy[j][y]
  <2> SUFFICES ASSUME NEW j \in UsedCvSlot, NEW y \in 1 .. Len(cvProcesy[j])
               PROVE  y \in 1 .. Len(cvProcesy'[j]) /\ cvProcesy'[j][y] = cvProcesy[j][y]
    OBVIOUS
  <2>1. j \in CvSlot /\ cvUzywany[j] = 1
    BY DEF UsedCvSlot
  <2>2. CASE j = t
    <3>1. L = cvProcesy[j] /\ cvProcesy'[j] = Append(L, e)
      BY <1>4, <1>9, <2>1, <2>2
    <3>2. y \in 1 .. Len(L)
      BY <3>1
    <3>3. y \in 1 .. Len(L) + 1 /\ Append(L, e)[y] = L[y]
      BY <1>5, <1>6, <3>2
    <3> QED BY <1>6, <3>1, <3>3
  <2>3. CASE j # t
    BY <1>9, <2>1, <2>3
  <2> QED BY <2>2, <2>3
<1>13. \A j \in CvSlot : cvUzywany'[j] = 1 => \A y \in 1 .. Len(cvProcesy'[j]) :
          \/ j \in UsedCvSlot /\ y \in 1 .. Len(cvProcesy[j]) /\ cvProcesy'[j][y] = cvProcesy[j][y]
          \/ j = t /\ y = Len(L) + 1 /\ cvNumer'[j] = c /\ cvProcesy'[j][y] = e
  <2> SUFFICES ASSUME NEW j \in CvSlot, cvUzywany'[j] = 1, NEW y \in 1 .. Len(cvProcesy'[j])
               PROVE  \/ /\ j \in UsedCvSlot /\ y \in 1 .. Len(cvProcesy[j])
                         /\ cvProcesy'[j][y] = cvProcesy[j][y]
                      \/ j = t /\ y = Len(L) + 1 /\ cvNumer'[j] = c /\ cvProcesy'[j][y] = e
    OBVIOUS
  <2>1. CASE j # t
    BY <1>9, <2>1 DEF UsedCvSlot
  <2>2. CASE j = t /\ y = Len(L) + 1
    BY <1>6, <1>9, <2>2
  <2>3. CASE j = t /\ y # Len(L) + 1
    <3>1. y \in 1 .. Len(L) /\ cvProcesy'[j][y] = L[y]
      BY <1>5, <1>6, <1>9, <2>3
    <3>2. cvUzywany[t] = 1 /\ L = cvProcesy[t]
      BY <1>4, <3>1
    <3> QED BY <2>3, <3>1, <3>2 DEF UsedCvSlot
  <2> QED BY <2>1, <2>2, <2>3
<1>14. \E y \in 1 .. Len(cvProcesy'[t]) : cvProcesy'[t][y] = e
  BY <1>5, <1>6, <1>9
<1> QED BY <1>5, <1>8, <1>9, <1>10, <1>11, <1>12, <1>13, <1>14 DEF t, L

\* cs_wait by the owner preserves the invariant.
LEMMA WaitStep ==
    ASSUME IInv, NEW p \in Proc, cs_wait(p)
    PROVE  IInv'
<1> DEFINE k == Received(p)
           m == client[p].req.mutex
           c == client[p].req.cv
           J == {indeksUzywanegoMutexa(m)}
           Q == QueuesAfterUnlock(J)
           e == [proces |-> p, muteks |-> m]
           E == Answer(p, EDONTREPLY)
<1>0. /\ Receives(p, "CS_WAIT") /\ Owns(p, m) /\ UnlockSlots(J) /\ kolejka' = Q
      /\ CvAppended(c, e)
  BY DEF cs_wait, CvAppended
<1>1. /\ k \in [Proc -> ClientType] /\ k[p].at = "receiving" /\ k[p].req = client[p].req
      /\ \A q \in Proc : q # p => k[q] = client[q]
      /\ client[p].at = "sending" /\ client[p].req.typ = "CS_WAIT"
      /\ \A i \in Slot : \A j \in 1 .. Len(kolejka[i]) : kolejka[i][j] # p
      /\ \A i \in UsedCvSlot : \A j \in 1 .. Len(cvProcesy[i]) : cvProcesy[i][j].proces # p
      /\ server.at = "receive"
  BY <1>0, ReceivedProperties
<1>2. TypeOK
  BY DEF IInv
<1>3. J \in SUBSET UsedSlot /\ \A i \in J : wlasciciel[i] = p /\ numer[i] = m
  BY <1>0, <1>2, IndexOfMutex DEF Owns, UsedSlot
<1>4. m \notin holds[p]
  BY <1>1 DEF IInv, GaveUp
<1>5. m \in Mutex /\ c \in CondVar
  <2>1. client[p].req \in Request \cup {NoRequest}
    BY <1>2 DEF TypeOK
  <2> QED BY <1>1, <2>1, RequestFields
<1>e. E = {}
  BY DEF Answer
<1> DEFINE msgs == Grants(J)
<1>6. /\ wyslijWiadomosc(k, msgs, Idle) /\ life' = life /\ async' = async
  BY DEF cs_wait
<1>m. Releases(p, J, k, E, msgs)
  BY <1>0, <1>1, <1>3, <1>4, <1>e DEF Releases
<1>7. e.proces = p /\ e.muteks = m
  OBVIOUS
<1> HIDE DEF k, J, Q, E, msgs
<1>8. /\ server' = Idle
      /\ client' \in [Proc -> ClientType]
      /\ holds' \in [Proc -> SUBSET Mutex]
      /\ \A q \in Proc : client'[q] = k[q] \/
                           (client'[q].at = "running" /\ client'[q].req = NoRequest)
      /\ \A q \in Proc : (\A i \in HandedOver(J) : kolejka[i][1] # q) /\ (q = p => E = {}) =>
                           client'[q] = k[q]
      /\ \A i \in HandedOver(J) : life[kolejka[i][1]] # "dead" =>
                                    client'[kolejka[i][1]].at = "running"
      /\ \A i \in Slot : \A j \in 1 .. Len(Q[i]) : client'[Q[i][j]] = client[Q[i][j]]
      /\ \A q \in Proc : \A x \in holds'[q] : \E i \in Slot :
           uzywany'[i] = 1 /\ numer[i] = x /\ wlasciciel'[i] = q
      /\ \A q \in Proc : life[q] # "alive" => holds'[q] \subseteq holds[q]
      /\ \A q \in Proc : client'[q].at = "sending" => holds'[q] \subseteq holds[q]
  <2>1. J \in SUBSET UsedSlot
    BY <1>3
  <2>2. wyslijWiadomosc(k, msgs, Idle)
    BY <1>6
  <2> QED BY <1>m, <2>1, <2>2, UnlockSends DEF Q
<1>9. /\ uzywany' \in [Slot -> {0, 1}] /\ numer' = numer
      /\ wlasciciel' \in [Slot -> Proc \cup {Zero}] /\ Q \in [Slot -> Seq(Proc)]
      /\ \A i \in Slot : uzywany'[i] = 1 => uzywany[i] = 1
      /\ \A i \in Slot : uzywany'[i] = 0 => Q[i] = <<>>
      /\ \A i \in HandedOver(J) : i \in Slot /\ 1 \in 1 .. Len(kolejka[i])
      /\ \A i \in Slot : \A j \in 1 .. Len(Q[i]) :
           \E l \in 1 .. Len(kolejka[i]) : Q[i][j] = kolejka[i][l]
  <2>1. /\ uzywany' \in [Slot -> {0, 1}] /\ numer' = numer
        /\ wlasciciel' \in [Slot -> Proc \cup {Zero}] /\ Q \in [Slot -> Seq(Proc)]
        /\ \A i \in Slot : uzywany'[i] = 1 => uzywany[i] = 1
        /\ \A i \in Slot : uzywany'[i] = 0 => Q[i] = <<>>
    BY <1>0, <1>3, UnlockTables DEF Q
  <2>2. \A i \in HandedOver(J) : i \in Slot /\ 1 \in 1 .. Len(kolejka[i])
    BY <1>0, <1>3, UnlockTables
  <2>3. \A i \in Slot : \A j \in 1 .. Len(Q[i]) :
           \E l \in 1 .. Len(kolejka[i]) :
              Q[i][j] = kolejka[i][l] /\ l = IF i \in HandedOver(J) THEN j + 1 ELSE j
    <3>1. UnlockSlots(J) /\ J \in SUBSET UsedSlot
      BY <1>0, <1>3
    <3> QED BY <3>1, UnlockTables DEF Q
  <2> QED BY <2>1, <2>2, <2>3
<1>10. /\ \A i, j \in Slot : \A x \in 1 .. Len(Q[i]) : \A y \in 1 .. Len(Q[j]) :
            Q[i][x] = Q[j][y] => i = j /\ x = y
       /\ \A i \in Slot : \A x \in 1 .. Len(Q[i]) : \A j \in UsedCvSlot : ~Sleeps(Q[i][x], j)
       /\ \A i \in Slot : \A x \in 1 .. Len(Q[i]) :
            LET cl == client[Q[i][x]] IN
            /\ cl.at = "receiving" /\ cl.req.typ \in {"CS_LOCK", "CS_WAIT"}
            /\ cl.req.mutex = numer[i] /\ Q[i][x] \in Proc
  BY <1>0, <1>3, QueuesOnce DEF Q
<1> HIDE DEF e, m, c
<1>11. /\ cvUzywany' \in [CvSlot -> {0, 1}] /\ cvNumer' \in [CvSlot -> CondVar \cup {Zero}]
       /\ cvProcesy' \in [CvSlot -> Seq(Waiter)]
       /\ \A i, j \in CvSlot : cvUzywany'[i] = 1 /\ cvUzywany'[j] = 1 /\ cvNumer'[i] = cvNumer'[j]
                                 => i = j
       /\ \A j \in UsedCvSlot : cvUzywany'[j] = 1 /\ cvNumer'[j] = cvNumer[j]
       /\ \A j \in UsedCvSlot : \A y \in 1 .. Len(cvProcesy[j]) :
            y \in 1 .. Len(cvProcesy'[j]) /\ cvProcesy'[j][y] = cvProcesy[j][y]
       /\ \A j \in CvSlot : cvUzywany'[j] = 1 => \A y \in 1 .. Len(cvProcesy'[j]) :
            \/ j \in UsedCvSlot /\ y \in 1 .. Len(cvProcesy[j]) /\ cvProcesy'[j][y] = cvProcesy[j][y]
            \/ /\ j = CvTarget(c) /\ y = Len(CvWaiting(c)) + 1 /\ cvNumer'[j] = c
               /\ cvProcesy'[j][y] = e
       /\ \E j \in CvSlot : /\ cvUzywany'[j] = 1 /\ cvNumer'[j] = c
                            /\ \E y \in 1 .. Len(cvProcesy'[j]) : cvProcesy'[j][y] = e
  <2>1. e \in Waiter
    BY <1>5 DEF e, Waiter
  <2> QED BY <1>0, <1>5, <2>1, WaitTables
<1>12. \A h \in HandedOver(J) : kolejka[h][1] # p
  BY <1>1, <1>9
<1>13. client'[p] = k[p] /\ client'[p].at = "receiving" /\ client'[p].req.typ = "CS_WAIT"
       /\ client'[p].req.mutex = m /\ client'[p].req.cv = c
  BY <1>1, <1>e, <1>8, <1>12 DEF m, c
<1>14. TypeOK'
  BY <1>0, <1>2, <1>6, <1>8, <1>9, <1>11 DEF TypeOK, ClientType, Idle, ServerPlace
<1>15. DistinctNumbers' /\ FreeRowsEmpty'
  BY <1>0, <1>9, <1>11 DEF IInv, DistinctNumbers, FreeRowsEmpty, UsedSlot, UsedCvSlot
<1>16. WaitsOnce'
  <2>1. \A i, j \in CvSlot : cvUzywany'[i] = 1 /\ cvUzywany'[j] = 1 =>
           \A x \in 1 .. Len(cvProcesy'[i]) : \A y \in 1 .. Len(cvProcesy'[j]) :
              cvProcesy'[i][x].proces = cvProcesy'[j][y].proces => i = j /\ x = y
    <3> SUFFICES ASSUME NEW i \in CvSlot, NEW j \in CvSlot, cvUzywany'[i] = 1, cvUzywany'[j] = 1,
                        NEW x \in 1 .. Len(cvProcesy'[i]), NEW y \in 1 .. Len(cvProcesy'[j]),
                        cvProcesy'[i][x].proces = cvProcesy'[j][y].proces
                 PROVE  i = j /\ x = y
      OBVIOUS
    <3>1. \/ i \in UsedCvSlot /\ x \in 1 .. Len(cvProcesy[i]) /\ cvProcesy'[i][x] = cvProcesy[i][x]
          \/ i = CvTarget(c) /\ x = Len(CvWaiting(c)) + 1 /\ cvProcesy'[i][x].proces = p
      BY <1>7, <1>11
    <3>2. \/ j \in UsedCvSlot /\ y \in 1 .. Len(cvProcesy[j]) /\ cvProcesy'[j][y] = cvProcesy[j][y]
          \/ j = CvTarget(c) /\ y = Len(CvWaiting(c)) + 1 /\ cvProcesy'[j][y].proces = p
      BY <1>7, <1>11
    <3>3. \A a, b \in UsedCvSlot : \A u \in 1 .. Len(cvProcesy[a]) : \A v \in 1 .. Len(cvProcesy[b]) :
             cvProcesy[a][u].proces = cvProcesy[b][v].proces => a = b /\ u = v
      BY DEF IInv, WaitsOnce
    <3>4. CASE cvProcesy'[i][x].proces = p
      <4>1. i = CvTarget(c) /\ x = Len(CvWaiting(c)) + 1
        BY <1>1, <3>1, <3>4
      <4>2. j = CvTarget(c) /\ y = Len(CvWaiting(c)) + 1
        BY <1>1, <3>2, <3>4
      <4> QED BY <4>1, <4>2
    <3>5. CASE cvProcesy'[i][x].proces # p
      <4>1. i \in UsedCvSlot /\ x \in 1 .. Len(cvProcesy[i]) /\ cvProcesy'[i][x] = cvProcesy[i][x]
        BY <3>1, <3>5
      <4>2. j \in UsedCvSlot /\ y \in 1 .. Len(cvProcesy[j]) /\ cvProcesy'[j][y] = cvProcesy[j][y]
        BY <3>2, <3>5
      <4> QED BY <3>3, <4>1, <4>2
    <3> QED BY <3>4, <3>5
  <2>2. \A i \in Slot : \A x \in 1 .. Len(Q[i]) : \A j \in CvSlot : cvUzywany'[j] = 1 =>
           \A y \in 1 .. Len(cvProcesy'[j]) : cvProcesy'[j][y].proces # Q[i][x]
    <3> SUFFICES ASSUME NEW i \in Slot, NEW x \in 1 .. Len(Q[i]), NEW j \in CvSlot,
                        cvUzywany'[j] = 1, NEW y \in 1 .. Len(cvProcesy'[j])
                 PROVE  cvProcesy'[j][y].proces # Q[i][x]
      OBVIOUS
    <3>1. \/ j \in UsedCvSlot /\ y \in 1 .. Len(cvProcesy[j]) /\ cvProcesy'[j][y] = cvProcesy[j][y]
          \/ cvProcesy'[j][y].proces = p
      BY <1>7, <1>11
    <3>2. Q[i][x] # p
      BY <1>1, <1>9
    <3> QED BY <1>10, <3>1, <3>2 DEF Sleeps
  <2> QED BY <1>0, <1>10, <2>1, <2>2, SMTT(30) DEF WaitsOnce, UsedCvSlot, Sleeps
<1>17. EntriesBlocked'
  <2>1. \A i \in Slot : \A j \in 1 .. Len(Q[i]) :
           LET cl == client'[Q[i][j]] IN
           /\ cl.at = "receiving" /\ cl.req.typ \in {"CS_LOCK", "CS_WAIT"}
           /\ cl.req.mutex = numer[i]
    BY <1>8, <1>10
  <2>2. \A i \in CvSlot : cvUzywany'[i] = 1 => \A j \in 1 .. Len(cvProcesy'[i]) :
           LET cl == client'[cvProcesy'[i][j].proces] IN
           /\ cl.at = "receiving" /\ cl.req.typ = "CS_WAIT"
           /\ cl.req.mutex = cvProcesy'[i][j].muteks /\ cl.req.cv = cvNumer'[i]
    <3> SUFFICES ASSUME NEW i \in CvSlot, cvUzywany'[i] = 1, NEW j \in 1 .. Len(cvProcesy'[i])
                 PROVE  LET cl == client'[cvProcesy'[i][j].proces] IN
                        /\ cl.at = "receiving" /\ cl.req.typ = "CS_WAIT"
                        /\ cl.req.mutex = cvProcesy'[i][j].muteks /\ cl.req.cv = cvNumer'[i]
      OBVIOUS
    <3>1. CASE i \in UsedCvSlot /\ j \in 1 .. Len(cvProcesy[i]) /\ cvProcesy'[i][j] = cvProcesy[i][j]
      <4>1. cvProcesy[i][j].proces \in Proc /\ cvProcesy[i][j].proces # p
        BY <1>1, <1>2, <3>1, EntryTypes
      <4>2. \A h \in HandedOver(J) : kolejka[h][1] # cvProcesy[i][j].proces
        BY <1>9, <3>1 DEF IInv, WaitsOnce, Sleeps
      <4>3. client'[cvProcesy[i][j].proces] = client[cvProcesy[i][j].proces]
        BY <1>1, <1>8, <4>1, <4>2
      <4>4. cvNumer'[i] = cvNumer[i]
        BY <1>11, <3>1
      <4> QED BY <3>1, <4>3, <4>4 DEF IInv, EntriesBlocked
    <3>2. CASE cvNumer'[i] = c /\ cvProcesy'[i][j] = e
      BY <1>7, <1>13, <3>2
    <3> QED BY <1>11, <3>1, <3>2
  <2> QED BY <1>0, <1>9, <2>1, <2>2 DEF EntriesBlocked, UsedCvSlot
<1>18. HoldersAreOwners'
  BY <1>8, <1>9 DEF HoldersAreOwners, UsedSlot
<1>19. ExitsAreDead'
  BY <1>6, <1>8 DEF IInv, ExitsAreDead
<1>20. GaveUp'
  <2> SUFFICES ASSUME NEW q \in Proc, client'[q].at = "sending",
                      client'[q].req.typ \in {"CS_UNLOCK", "CS_WAIT"}
               PROVE  client'[q].req.mutex \notin holds'[q]
    BY DEF GaveUp
  <2>1. client'[q] = client[q]
    BY <1>1, <1>8, <1>13
  <2> QED BY <1>8, <2>1 DEF IInv, GaveUp
<1>21. BroadcastState' /\ NeverStuck'
  BY <1>8 DEF BroadcastState, NeverStuck, Idle
<1>22. NoLostProcess'
  <2> SUFFICES ASSUME NEW q \in Proc, life[q] = "alive", client'[q].at = "receiving"
               PROVE  Accounted(q)'
    BY <1>6 DEF NoLostProcess
  <2>1. CASE q = p
    <3>1. PICK j \in CvSlot : /\ cvUzywany'[j] = 1 /\ cvNumer'[j] = c
                              /\ \E y \in 1 .. Len(cvProcesy'[j]) : cvProcesy'[j][y] = e
      BY <1>11
    <3>2. e = [proces |-> q, muteks |-> client'[q].req.mutex] /\ cvNumer'[j] = client'[q].req.cv
      BY <1>13, <2>1, <3>1 DEF e
    <3> QED BY <3>1, <3>2 DEF Accounted, UsedCvSlot
  <2>2. CASE q # p
    <3>1. \A h \in HandedOver(J) : kolejka[h][1] # q
      BY <1>8
    <3>2. client'[q] = client[q] /\ Accounted(q)
      BY <1>1, <1>8, <2>2, <3>1 DEF IInv, NoLostProcess
    <3>3. CASE \E i \in UsedSlot : Queues(q, i) /\ numer[i] = client[q].req.mutex
      <4>1. PICK i \in UsedSlot : Queues(q, i) /\ numer[i] = client[q].req.mutex
        BY <3>3
      <4>2. uzywany'[i] = 1 /\ \E j \in 1 .. Len(Q[i]) : Q[i][j] = q
        BY <1>0, <1>3, <3>1, <4>1, StillQueued DEF Q
      <4>3. i \in UsedSlot' /\ Queues(q, i)' /\ numer'[i] = client'[q].req.mutex
        BY <1>0, <1>9, <3>2, <4>1, <4>2 DEF UsedSlot, Queues
      <4> QED BY <4>3 DEF Accounted
    <3>4. CASE \E i \in UsedCvSlot :
                  /\ cvNumer[i] = client[q].req.cv
                  /\ \E j \in 1 .. Len(cvProcesy[i]) :
                        cvProcesy[i][j] = [proces |-> q, muteks |-> client[q].req.mutex]
      <4>1. PICK i \in UsedCvSlot :
                  /\ cvNumer[i] = client[q].req.cv
                  /\ \E j \in 1 .. Len(cvProcesy[i]) :
                        cvProcesy[i][j] = [proces |-> q, muteks |-> client[q].req.mutex]
        BY <3>4
      <4>2. /\ i \in UsedCvSlot' /\ cvNumer'[i] = client'[q].req.cv
            /\ \E j \in 1 .. Len(cvProcesy'[i]) :
                  cvProcesy'[i][j] = [proces |-> q, muteks |-> client'[q].req.mutex]
        BY <1>11, <3>2, <4>1 DEF UsedCvSlot
      <4> QED BY <4>2 DEF Accounted
    <3> QED BY <1>1, <3>2, <3>3, <3>4 DEF Accounted
  <2> QED BY <2>1, <2>2
<1> QED BY <1>14, <1>15, <1>16, <1>17, <1>18, <1>19, <1>20, <1>21, <1>22 DEF IInv

-----------------------------------------------------------------------------
(***************************************************************************)
(* Steps that leave the tables alone.                                      *)
(***************************************************************************)

\* What can change around unchanged tables: processes that are not receiving
\* change their state, and nobody gains a mutex.
Around ==
    /\ UNCHANGED <<uzywany, numer, wlasciciel, kolejka, cvUzywany, cvNumer, cvProcesy>>
    /\ TypeOK' /\ ExitsAreDead'
    /\ \A q \in Proc : holds'[q] \subseteq holds[q]
    /\ \A q \in Proc :
         \/ client'[q] = client[q]
         \/ /\ client[q].at # "receiving"
            /\ client'[q].at = "sending" /\ client'[q].req.typ \in {"CS_UNLOCK", "CS_WAIT"} =>
                 client'[q].req.mutex \notin holds'[q]

\* Such a step keeps every part of the invariant that is not about the server.
LEMMA TablesKept ==
    ASSUME IInv, Around
    PROVE  /\ TypeOK' /\ DistinctNumbers' /\ FreeRowsEmpty' /\ WaitsOnce' /\ EntriesBlocked'
           /\ HoldersAreOwners' /\ ExitsAreDead' /\ GaveUp'
<1>1. /\ UNCHANGED <<uzywany, numer, wlasciciel, kolejka, cvUzywany, cvNumer, cvProcesy>>
      /\ TypeOK' /\ ExitsAreDead' /\ \A q \in Proc : holds'[q] \subseteq holds[q]
  BY DEF Around
<1>2. \A q \in Proc : client[q].at = "receiving" => client'[q] = client[q]
  BY DEF Around
<1>3. DistinctNumbers' /\ FreeRowsEmpty'
  BY <1>1 DEF IInv, DistinctNumbers, FreeRowsEmpty, UsedSlot, UsedCvSlot
<1>4. WaitsOnce'
  BY <1>1 DEF IInv, WaitsOnce, UsedCvSlot, Sleeps
<1>5. EntriesBlocked'
  <2>1. \A i \in Slot : \A j \in 1 .. Len(kolejka[i]) :
           client'[kolejka[i][j]] = client[kolejka[i][j]]
    BY <1>2, EntryTypes DEF IInv, EntriesBlocked
  <2>2. \A i \in UsedCvSlot : \A j \in 1 .. Len(cvProcesy[i]) :
           client'[cvProcesy[i][j].proces] = client[cvProcesy[i][j].proces]
    BY <1>2, EntryTypes DEF IInv, EntriesBlocked, UsedCvSlot
  <2> QED BY <1>1, <2>1, <2>2 DEF IInv, EntriesBlocked, UsedCvSlot
<1>6. HoldersAreOwners'
  BY <1>1 DEF IInv, HoldersAreOwners, UsedSlot
<1>7. GaveUp'
  <2> SUFFICES ASSUME NEW q \in Proc, client'[q].at = "sending",
                      client'[q].req.typ \in {"CS_UNLOCK", "CS_WAIT"}
               PROVE  client'[q].req.mutex \notin holds'[q]
    BY DEF GaveUp
  <2>1. CASE client'[q] = client[q]
    BY <1>1, <2>1 DEF IInv, GaveUp
  <2>2. CASE client'[q] # client[q]
    BY <2>2 DEF Around
  <2> QED BY <2>1, <2>2
<1> QED BY <1>1, <1>3, <1>4, <1>5, <1>6, <1>7

\* When the server does not move either, the whole invariant is kept.
LEMMA EnvironmentKeeps ==
    ASSUME IInv, Around, server' = server,
           \A q \in Proc : life'[q] = "alive" /\ client'[q].at = "receiving" =>
                             life[q] = "alive" /\ client'[q] = client[q]
    PROVE  IInv'
<1>1. UNCHANGED <<uzywany, numer, wlasciciel, kolejka, cvUzywany, cvNumer, cvProcesy>>
  BY DEF Around
<1>2. \A q \in Proc : client[q].at = "receiving" => client'[q] = client[q]
  BY DEF Around
<1>3. BroadcastState' /\ NeverStuck'
  BY <1>1, <1>2 DEF IInv, BroadcastState, NeverStuck, UsedCvSlot
<1>4. NoLostProcess'
  BY <1>1 DEF IInv, NoLostProcess, Accounted, Queues, UsedSlot, UsedCvSlot
<1> QED BY <1>3, <1>4, TablesKept DEF IInv

\* A handler that writes past a table ends the server's normal life.
LEMMA Overrun ==
    ASSUME IInv, Around, server'.at \notin {"receive", "broadcast", "stuck"}
    PROVE  IInv'
<1>1. BroadcastState' /\ NeverStuck' /\ NoLostProcess'
  BY DEF BroadcastState, NeverStuck, NoLostProcess
<1> QED BY <1>1, TablesKept DEF IInv

\* Receiving p's request, and nothing else yet, is such a step.
LEMMA ReceivingIsAround ==
    ASSUME IInv, NEW p \in Proc, NEW typ, Receives(p, typ), client' = Received(p),
           UNCHANGED <<tables, life, holds, async>>,
           server' \in [at : ServerPlace, original : Proc \cup {Zero}, i : CvSlot \cup {-1}]
    PROVE  Around
<1>1. /\ Received(p) \in [Proc -> ClientType] /\ Received(p)[p].at = "receiving"
      /\ \A q \in Proc : q # p => Received(p)[q] = client[q]
      /\ client[p].at = "sending"
  BY ReceivedProperties
<1>2. /\ UNCHANGED <<uzywany, numer, wlasciciel, kolejka, cvUzywany, cvNumer, cvProcesy>>
      /\ life' = life /\ holds' = holds /\ async' = async
  BY DEF tables
<1>3. TypeOK'
  BY <1>1, <1>2 DEF IInv, TypeOK, ClientType
<1>4. ExitsAreDead'
  BY <1>2 DEF IInv, ExitsAreDead
<1> QED BY <1>1, <1>2, <1>3, <1>4 DEF Around

\* The cs_lock that runs off M.
LEMMA LockPastStep ==
    ASSUME IInv, NEW p \in Proc, HandleLockPastTable(p)
    PROVE  IInv'
<1>1. server \in [at : ServerPlace, original : Proc \cup {Zero}, i : CvSlot \cup {-1}]
  BY DEF IInv, TypeOK
<1>2. PICK typ : Receives(p, typ)
  BY DEF HandleLockPastTable
<1>3. server' = [server EXCEPT !.at = "pastM"]
  BY DEF HandleLockPastTable
<1>4. /\ server' \in [at : ServerPlace, original : Proc \cup {Zero}, i : CvSlot \cup {-1}]
      /\ server'.at \notin {"receive", "broadcast", "stuck"}
  BY <1>1, <1>3 DEF ServerPlace
<1>5. client' = Received(p) /\ UNCHANGED <<tables, life, holds, async>>
  BY DEF HandleLockPastTable
<1> QED BY <1>2, <1>4, <1>5, ReceivingIsAround, Overrun

\* The cs_wait that runs off CV or procesy[], with its mutex already unlocked.
LEMMA WaitPastStep ==
    ASSUME IInv, NEW p \in Proc, WaitPastTable(p)
    PROVE  IInv'
<1> DEFINE k == Received(p)
           m == client[p].req.mutex
           J == {indeksUzywanegoMutexa(m)}
           E == Answer(p, EDONTREPLY)
           Q == QueuesAfterUnlock(J)
<1>0. Receives(p, "CS_WAIT") /\ Owns(p, m) /\ UnlockSlots(J) /\ kolejka' = Q
  BY DEF WaitPastTable
<1>1. /\ k \in [Proc -> ClientType] /\ k[p].at = "receiving" /\ k[p].req = client[p].req
      /\ \A q \in Proc : q # p => k[q] = client[q]
      /\ client[p].at = "sending" /\ client[p].req.typ = "CS_WAIT"
      /\ \A i \in Slot : \A j \in 1 .. Len(kolejka[i]) : kolejka[i][j] # p
      /\ \A i \in UsedCvSlot : \A j \in 1 .. Len(cvProcesy[i]) : cvProcesy[i][j].proces # p
      /\ server.at = "receive"
  BY <1>0, ReceivedProperties
<1>2. TypeOK
  BY DEF IInv
<1>3. J \in SUBSET UsedSlot /\ \A i \in J : wlasciciel[i] = p /\ numer[i] = m
  BY <1>0, <1>2, IndexOfMutex DEF Owns, UsedSlot
<1>4. m \notin holds[p]
  BY <1>1 DEF IInv, GaveUp
<1>5. E = {}
  BY DEF Answer
<1> DEFINE msgs == Grants(J)
           at == IF CvTarget(client[p].req.cv) = -1 THEN "pastCV" ELSE "pastProcesy"
           next == [server EXCEPT !.at = at]
<1>6. wyslijWiadomosc(k, msgs, next)
      /\ UNCHANGED <<cvUzywany, cvNumer, cvProcesy, life, async>>
  BY DEF WaitPastTable, cvVars
<1>m. Releases(p, J, k, E, msgs)
  BY <1>0, <1>1, <1>3, <1>4, <1>5 DEF Releases
<1>n. /\ next \in [at : ServerPlace, original : Proc \cup {Zero}, i : CvSlot \cup {-1}]
      /\ next.at \notin {"receive", "broadcast", "stuck"}
  BY <1>2 DEF TypeOK, ServerPlace
<1> HIDE DEF k, J, E, Q, msgs, next
<1>7. /\ server' = next
      /\ client' \in [Proc -> ClientType]
      /\ holds' \in [Proc -> SUBSET Mutex]
      /\ \A q \in Proc : client'[q] = k[q] \/
                           (client'[q].at = "running" /\ client'[q].req = NoRequest)
      /\ \A q \in Proc : (\A i \in HandedOver(J) : kolejka[i][1] # q) /\ (q = p => E = {}) =>
                           client'[q] = k[q]
      /\ \A i \in HandedOver(J) : life[kolejka[i][1]] # "dead" =>
                                    client'[kolejka[i][1]].at = "running"
      /\ E # {} /\ life[p] # "dead" => client'[p].at = "running"
      /\ \A i \in Slot : \A j \in 1 .. Len(Q[i]) : client'[Q[i][j]] = client[Q[i][j]]
      /\ \A q \in Proc : \A x \in holds'[q] : \E i \in Slot :
           uzywany'[i] = 1 /\ numer[i] = x /\ wlasciciel'[i] = q
      /\ \A q \in Proc : life[q] # "alive" => holds'[q] \subseteq holds[q]
      /\ \A q \in Proc : client'[q].at = "sending" => holds'[q] \subseteq holds[q]
  <2>1. J \in SUBSET UsedSlot
    BY <1>3
  <2>2. wyslijWiadomosc(k, msgs, next)
    BY <1>6
  <2> QED BY <1>m, <2>1, <2>2, UnlockSends DEF Q
<1>8. /\ uzywany' \in [Slot -> {0, 1}] /\ numer' = numer
      /\ wlasciciel' \in [Slot -> Proc \cup {Zero}] /\ Q \in [Slot -> Seq(Proc)]
      /\ \A i \in Slot : uzywany'[i] = 1 => uzywany[i] = 1
      /\ \A i \in Slot : uzywany'[i] = 0 => Q[i] = <<>>
  BY <1>0, <1>3, UnlockTables DEF Q
<1>9. /\ \A i, j \in Slot : \A x \in 1 .. Len(Q[i]) : \A y \in 1 .. Len(Q[j]) :
           Q[i][x] = Q[j][y] => i = j /\ x = y
      /\ \A i \in Slot : \A x \in 1 .. Len(Q[i]) : \A j \in UsedCvSlot : ~Sleeps(Q[i][x], j)
      /\ \A i \in Slot : \A x \in 1 .. Len(Q[i]) :
           LET c == client[Q[i][x]] IN
           /\ c.at = "receiving" /\ c.req.typ \in {"CS_LOCK", "CS_WAIT"}
           /\ c.req.mutex = numer[i] /\ Q[i][x] \in Proc
  BY <1>0, <1>3, QueuesOnce DEF Q
<1>10. \A q \in Proc : q # p /\ client'[q] = k[q] => client'[q] = client[q]
  BY <1>1
<1>11. client'[p].at # "sending"
  BY <1>1, <1>7
<1>12. TypeOK'
  BY <1>0, <1>2, <1>6, <1>7, <1>8, <1>n DEF TypeOK, ClientType
<1>13. DistinctNumbers' /\ FreeRowsEmpty'
  BY <1>0, <1>6, <1>8 DEF IInv, DistinctNumbers, FreeRowsEmpty, UsedSlot, UsedCvSlot
<1>14. WaitsOnce'
  <2>1. \A q : \A j \in UsedCvSlot : Sleeps(q, j)' <=> Sleeps(q, j)
    BY <1>6 DEF Sleeps
  <2> QED BY <1>0, <1>6, <1>9, <2>1 DEF IInv, WaitsOnce, UsedCvSlot, Sleeps
<1>15. EntriesBlocked'
  <2>1. \A i \in UsedCvSlot : \A j \in 1 .. Len(cvProcesy[i]) :
           client'[cvProcesy[i][j].proces] = client[cvProcesy[i][j].proces]
    <3> SUFFICES ASSUME NEW i \in UsedCvSlot, NEW j \in 1 .. Len(cvProcesy[i])
                 PROVE  client'[cvProcesy[i][j].proces] = client[cvProcesy[i][j].proces]
      OBVIOUS
    <3>1. cvProcesy[i][j].proces \in Proc /\ cvProcesy[i][j].proces # p
      BY <1>1, <1>2, EntryTypes DEF UsedCvSlot
    <3>2. \A h \in HandedOver(J) : h \in Slot /\ 1 \in 1 .. Len(kolejka[h])
      BY <1>0, <1>3, UnlockTables
    <3>3. \A h \in HandedOver(J) : kolejka[h][1] # cvProcesy[i][j].proces
      BY <3>2 DEF IInv, WaitsOnce, Sleeps
    <3> QED BY <1>7, <1>10, <3>1, <3>3
  <2>2. \A i \in Slot : \A j \in 1 .. Len(Q[i]) :
           LET c == client'[Q[i][j]] IN
           /\ c.at = "receiving" /\ c.req.typ \in {"CS_LOCK", "CS_WAIT"}
           /\ c.req.mutex = numer[i]
    BY <1>7, <1>9
  <2>3. \A i \in UsedCvSlot : \A j \in 1 .. Len(cvProcesy[i]) :
           LET c == client'[cvProcesy[i][j].proces] IN
           /\ c.at = "receiving" /\ c.req.typ = "CS_WAIT"
           /\ c.req.mutex = cvProcesy[i][j].muteks /\ c.req.cv = cvNumer[i]
    BY <2>1 DEF IInv, EntriesBlocked
  <2> QED BY <1>0, <1>6, <1>8, <2>2, <2>3 DEF EntriesBlocked, UsedCvSlot
<1>16. HoldersAreOwners'
  BY <1>7, <1>8 DEF HoldersAreOwners, UsedSlot
<1>17. ExitsAreDead'
  BY <1>6, <1>7 DEF IInv, ExitsAreDead
<1>18. GaveUp'
  <2> SUFFICES ASSUME NEW q \in Proc, client'[q].at = "sending",
                      client'[q].req.typ \in {"CS_UNLOCK", "CS_WAIT"}
               PROVE  client'[q].req.mutex \notin holds'[q]
    BY DEF GaveUp
  <2>1. client'[q] = client[q]
    BY <1>7, <1>10, <1>11
  <2> QED BY <1>7, <2>1 DEF IInv, GaveUp
<1>19. BroadcastState' /\ NeverStuck' /\ NoLostProcess'
  BY <1>7, <1>n DEF BroadcastState, NeverStuck, NoLostProcess
<1> QED BY <1>12, <1>13, <1>14, <1>15, <1>16, <1>17, <1>18, <1>19 DEF IInv

\* The requests that are answered without touching the tables.
LEMMA AnsweredSteps ==
    ASSUME IInv, NEW p \in Proc,
           UnlockRefused(p) \/ WaitRefused(p) \/ BadType(p) \/ BroadcastNobody(p)
    PROVE  IInv'
<1>1. CASE UnlockRefused(p)
  <2>1. Answer(p, EPERM) = {Msg(p, EPERM, -2)} /\ EPERM \in Int /\ EPERM # OK
    BY DEF Answer, EPERM, EDONTREPLY, OK
  <2> QED BY <1>1, <2>1, AnswerOnly DEF UnlockRefused
<1>2. CASE WaitRefused(p)
  <2>1. Answer(p, -EINVAL) = {Msg(p, -EINVAL, -2)} /\ -EINVAL \in Int /\ -EINVAL # OK
    BY DEF Answer, EINVAL, EDONTREPLY, OK
  <2> QED BY <1>2, <2>1, AnswerOnly DEF WaitRefused
<1>3. CASE BadType(p)
  <2>1. Answer(p, EINVAL) = {Msg(p, EINVAL, -2)} /\ EINVAL \in Int /\ EINVAL # OK
    BY DEF Answer, EINVAL, EDONTREPLY, OK
  <2> QED BY <1>3, <2>1, AnswerOnly DEF BadType
<1>4. CASE BroadcastNobody(p)
  <2>1. Answer(p, OK) = {Msg(p, OK, -2)} /\ OK \in Int
    BY DEF Answer, EDONTREPLY, OK
  <2> QED BY <1>4, <2>1, AnswerOnly DEF BroadcastNobody
<1> QED BY <1>1, <1>2, <1>3, <1>4

-----------------------------------------------------------------------------
(***************************************************************************)
(* The environment.                                                        *)
(***************************************************************************)

\* A process starting a call preserves the invariant.
LEMMA SendStep ==
    ASSUME IInv, NEW p \in Proc, NEW r \in Request, send_message(p, r)
    PROVE  IInv'
<1>1. /\ client[p].at = "running" /\ server' = server /\ life' = life /\ async' = async
      /\ client' = [client EXCEPT ![p] = [at |-> "sending", req |-> r, reply |-> OK]]
      /\ holds' = [holds EXCEPT ![p] =
                      IF r.typ \in {"CS_UNLOCK", "CS_WAIT"} THEN @ \ {r.mutex} ELSE @]
      /\ UNCHANGED <<uzywany, numer, wlasciciel, kolejka, cvUzywany, cvNumer, cvProcesy>>
  BY DEF send_message, tables
<1>2. TypeOK
  BY DEF IInv
<1>3. client \in [Proc -> ClientType] /\ holds \in [Proc -> SUBSET Mutex]
  BY <1>2 DEF TypeOK, ClientType
<1>4. [at |-> "sending", req |-> r, reply |-> OK] \in ClientType
  BY DEF ClientType, OK
<1>5. client' \in [Proc -> ClientType] /\ holds' \in [Proc -> SUBSET Mutex]
  BY <1>1, <1>3, <1>4
<1>6. TypeOK'
  BY <1>1, <1>2, <1>5 DEF TypeOK, ClientType
<1>7. \A q \in Proc : holds'[q] \subseteq holds[q]
  BY <1>1, <1>3
<1>8. ExitsAreDead'
  BY <1>1, <1>7 DEF IInv, ExitsAreDead
<1>9. /\ \A q \in Proc : q # p => client'[q] = client[q]
      /\ client'[p] = [at |-> "sending", req |-> r, reply |-> OK]
      /\ r.typ \in {"CS_UNLOCK", "CS_WAIT"} => r.mutex \notin holds'[p]
  BY <1>1, <1>3
<1>10. client'[p].at = "sending" /\ client'[p].req = r
  BY <1>9
<1>11. Around
  BY <1>1, <1>6, <1>7, <1>8, <1>9, <1>10 DEF Around
<1> QED BY <1>1, <1>9, <1>10, <1>11, EnvironmentKeeps

\* PM's CS_EINTR preserves the invariant.
LEMMA SignalStep ==
    ASSUME IInv, NEW p \in Proc, PmSignal(p)
    PROVE  IInv'
<1> DEFINE a == [typ |-> "CS_EINTR", proces |-> p]
<1>1. /\ server' = server /\ life' = life /\ client' = client /\ holds' = holds
      /\ async' = Append(async, a)
      /\ UNCHANGED <<uzywany, numer, wlasciciel, kolejka, cvUzywany, cvNumer, cvProcesy>>
  BY DEF PmSignal, tell_cv, tables
<1>2. a \in Async /\ a.typ # "CS_EXIT"
  BY DEF Async
<1>3. TypeOK /\ async \in Seq(Async)
  BY DEF IInv, TypeOK
<1> HIDE DEF a
<1>4. /\ async' \in Seq(Async)
      /\ \A k \in 1 .. Len(async') : async'[k] = a \/ (k \in 1 .. Len(async) /\ async'[k] = async[k])
  BY <1>1, <1>2, <1>3
<1>5. TypeOK'
  BY <1>1, <1>3, <1>4 DEF TypeOK
<1>6. ExitsAreDead'
  BY <1>1, <1>2, <1>4 DEF IInv, ExitsAreDead
<1>7. Around
  BY <1>1, <1>5, <1>6 DEF Around
<1> QED BY <1>1, <1>7, EnvironmentKeeps

\* PM's CS_EXIT preserves the invariant.
LEMMA ExitStep ==
    ASSUME IInv, NEW p \in Proc, PmExit(p)
    PROVE  IInv'
<1> DEFINE a == [typ |-> "CS_EXIT", proces |-> p]
<1>1. /\ server' = server /\ client' = client
      /\ life' = [life EXCEPT ![p] = "exiting"] /\ holds' = [holds EXCEPT ![p] = {}]
      /\ async' = Append(async, a)
      /\ UNCHANGED <<uzywany, numer, wlasciciel, kolejka, cvUzywany, cvNumer, cvProcesy>>
  BY DEF PmExit, tell_cv, tables
<1>2. a \in Async /\ a.proces = p
  BY DEF Async
<1>3. /\ TypeOK /\ async \in Seq(Async) /\ holds \in [Proc -> SUBSET Mutex]
      /\ life \in [Proc -> {"alive", "exiting", "dead"}]
  BY DEF IInv, TypeOK
<1> HIDE DEF a
<1>4. /\ async' \in Seq(Async)
      /\ \A k \in 1 .. Len(async') : async'[k] = a \/ (k \in 1 .. Len(async) /\ async'[k] = async[k])
  BY <1>1, <1>2, <1>3
<1>5. /\ life' \in [Proc -> {"alive", "exiting", "dead"}] /\ holds' \in [Proc -> SUBSET Mutex]
      /\ life'[p] = "exiting" /\ holds'[p] = {}
      /\ \A q \in Proc : q # p => life'[q] = life[q] /\ holds'[q] = holds[q]
  BY <1>1, <1>3
<1>6. TypeOK'
  BY <1>1, <1>3, <1>4, <1>5 DEF TypeOK
<1>7. ExitsAreDead'
  <2>1. \A k \in 1 .. Len(async) : async[k].proces \in Proc
    BY <1>3, AsyncTypes
  <2>2. \A k \in 1 .. Len(async) : async[k].typ = "CS_EXIT" => life[async[k].proces] # "alive"
    BY DEF IInv, ExitsAreDead
  <2>3. \A k \in 1 .. Len(async') : async'[k].typ = "CS_EXIT" => life'[async'[k].proces] # "alive"
    BY <1>2, <1>4, <1>5, <2>1, <2>2
  <2> QED BY <1>5, <2>3 DEF IInv, ExitsAreDead
<1>8. Around
  BY <1>1, <1>5, <1>6, <1>7 DEF Around
<1>9. \A q \in Proc : life'[q] = "alive" => life[q] = "alive"
  BY <1>5
<1> QED BY <1>1, <1>8, <1>9, EnvironmentKeeps

\* sys_clear of an exiting process preserves the invariant.
LEMMA ClearStep ==
    ASSUME IInv, NEW p \in Proc, PmClear(p)
    PROVE  IInv'
<1>1. /\ server' = server /\ holds' = holds /\ async' = async
      /\ life[p] = "exiting" /\ life' = [life EXCEPT ![p] = "dead"]
      /\ client' = [client EXCEPT ![p].at = IF @ = "sending" THEN "running" ELSE @]
      /\ UNCHANGED <<uzywany, numer, wlasciciel, kolejka, cvUzywany, cvNumer, cvProcesy>>
  BY DEF PmClear, tables
<1>2. /\ TypeOK /\ client \in [Proc -> ClientType]
      /\ life \in [Proc -> {"alive", "exiting", "dead"}]
  BY DEF IInv, TypeOK, ClientType
<1>3. /\ life' \in [Proc -> {"alive", "exiting", "dead"}] /\ life'[p] = "dead"
      /\ \A q \in Proc : q # p => life'[q] = life[q]
  BY <1>1, <1>2
<1>4. /\ client' \in [Proc -> ClientType]
      /\ \A q \in Proc : q # p => client'[q] = client[q]
  BY <1>1, <1>2 DEF ClientType
<1>5. client'[p] = client[p] \/ (client[p].at = "sending" /\ client'[p].at = "running")
  BY <1>1, <1>2 DEF ClientType
<1>6. TypeOK'
  BY <1>1, <1>2, <1>3, <1>4 DEF TypeOK, ClientType
<1>7. ExitsAreDead'
  <2>1. \A q \in Proc : life'[q] = "alive" <=> life[q] = "alive"
    BY <1>1, <1>3
  <2>2. \A k \in 1 .. Len(async) : async[k].proces \in Proc
    BY <1>2, AsyncTypes
  <2> QED BY <1>1, <2>1, <2>2 DEF IInv, ExitsAreDead
<1>8. Around
  BY <1>1, <1>4, <1>5, <1>6, <1>7 DEF Around
<1> QED BY <1>1, <1>3, <1>4, <1>8, EnvironmentKeeps

-----------------------------------------------------------------------------
(***************************************************************************)
(* cs_broadcast.                                                           *)
(***************************************************************************)

\* Entering the loop.
LEMMA BroadcastStartStep ==
    ASSUME IInv, NEW p \in Proc, cs_broadcast(p)
    PROVE  IInv'
<1> DEFINE i == indeksUzywanegoCv(client[p].req.cv)
<1>1. /\ Receives(p, "CS_BROADCAST") /\ i # -1 /\ client' = Received(p)
      /\ server' = [at |-> "broadcast", original |-> p, i |-> i]
      /\ UNCHANGED <<tables, life, holds, async>>
  BY DEF cs_broadcast
<1>2. i \in CvSlot /\ cvUzywany[i] = 1
  BY <1>1, IndexOfCv DEF IInv
<1>3. /\ Received(p)[p].at = "receiving" /\ Received(p)[p].req = client[p].req
      /\ \A q \in Proc : q # p => Received(p)[q] = client[q]
      /\ client[p].req.typ = "CS_BROADCAST" /\ server.at = "receive"
  BY <1>1, ReceivedProperties
<1> HIDE DEF i
<1>4. /\ server' \in [at : ServerPlace, original : Proc \cup {Zero}, i : CvSlot \cup {-1}]
      /\ server'.at = "broadcast" /\ server'.original = p /\ server'.i = i
  BY <1>1, <1>2 DEF ServerPlace
<1>5. Around
  BY <1>1, <1>4, ReceivingIsAround
<1>6. /\ UNCHANGED <<uzywany, numer, wlasciciel, kolejka, cvUzywany, cvNumer, cvProcesy>>
      /\ life' = life
  BY <1>1 DEF tables
<1>7. BroadcastState' /\ NeverStuck'
  BY <1>1, <1>2, <1>3, <1>4, <1>6 DEF BroadcastState, NeverStuck, UsedCvSlot
<1>8. NoLostProcess'
  <2> SUFFICES ASSUME NEW q \in Proc, life[q] = "alive", client'[q].at = "receiving"
               PROVE  Accounted(q)'
    BY <1>6 DEF NoLostProcess
  <2>1. CASE q = p
    BY <1>4, <2>1 DEF Accounted
  <2>2. CASE q # p
    <3>1. client'[q] = client[q] /\ Accounted(q)
      BY <1>1, <1>3, <2>2 DEF IInv, NoLostProcess
    <3> QED BY <1>3, <1>6, <3>1 DEF Accounted, Queues, UsedSlot, UsedCvSlot
  <2> QED BY <2>1, <2>2
<1> QED BY <1>5, <1>7, <1>8, TablesKept DEF IInv

\* The loop needs a mutex row and there is none.
LEMMA BroadcastPastStep ==
    ASSUME IInv, BroadcastPastTable
    PROVE  IInv'
<1>1. /\ server' = [server EXCEPT !.at = "pastM"]
      /\ UNCHANGED <<uzywany, numer, wlasciciel, kolejka, cvUzywany, cvNumer, cvProcesy>>
      /\ client' = client /\ life' = life /\ holds' = holds /\ async' = async
  BY DEF BroadcastPastTable, tables
<1>2. TypeOK
  BY DEF IInv
<1>3. server \in [at : ServerPlace, original : Proc \cup {Zero}, i : CvSlot \cup {-1}]
  BY <1>2 DEF TypeOK
<1>4. /\ server' \in [at : ServerPlace, original : Proc \cup {Zero}, i : CvSlot \cup {-1}]
      /\ server'.at = "pastM"
  BY <1>1, <1>3 DEF ServerPlace
<1>5. TypeOK'
  BY <1>1, <1>2, <1>4 DEF TypeOK
<1>6. ExitsAreDead'
  BY <1>1 DEF IInv, ExitsAreDead
<1>7. Around
  BY <1>1, <1>5, <1>6 DEF Around
<1> QED BY <1>4, <1>7, Overrun

\* Taking the first waiter off a list moves the others up by one.
LEMMA TailTables ==
    ASSUME IInv, NEW i \in UsedCvSlot, cvProcesy[i] # <<>>,
           cvProcesy' = [cvProcesy EXCEPT ![i] = Tail(cvProcesy[i])]
    PROVE  /\ cvProcesy' \in [CvSlot -> Seq(Waiter)]
           /\ 1 \in 1 .. Len(cvProcesy[i]) /\ Head(cvProcesy[i]) = cvProcesy[i][1]
           /\ \A j \in CvSlot : \A y \in 1 .. Len(cvProcesy'[j]) :
                \E x \in 1 .. Len(cvProcesy[j]) :
                   cvProcesy'[j][y] = cvProcesy[j][x] /\ x = IF j = i THEN y + 1 ELSE y
           /\ \A j \in CvSlot : \A x \in 1 .. Len(cvProcesy[j]) :
                \/ j = i /\ x = 1
                \/ \E y \in 1 .. Len(cvProcesy'[j]) : cvProcesy'[j][y] = cvProcesy[j][x]
<1>1. /\ i \in CvSlot /\ cvProcesy \in [CvSlot -> Seq(Waiter)]
      /\ \A j \in CvSlot : cvProcesy[j] \in Seq(Waiter) /\ Len(cvProcesy[j]) \in Nat
  BY DEF IInv, TypeOK, UsedCvSlot
<1> DEFINE s == cvProcesy[i]
<1>2. s \in Seq(Waiter) /\ s # <<>>
  BY <1>1
<1> HIDE DEF s
<1>3. /\ 1 \in 1 .. Len(s) /\ Head(s) = s[1] /\ Tail(s) \in Seq(Waiter)
      /\ Len(Tail(s)) = Len(s) - 1 /\ \A y \in 1 .. Len(Tail(s)) : Tail(s)[y] = s[y + 1]
  BY <1>2
<1>4. /\ cvProcesy' \in [CvSlot -> Seq(Waiter)] /\ cvProcesy'[i] = Tail(s)
      /\ \A j \in CvSlot : j # i => cvProcesy'[j] = cvProcesy[j]
  BY <1>1, <1>3 DEF s
<1>5. \A j \in CvSlot : \A y \in 1 .. Len(cvProcesy'[j]) :
         \E x \in 1 .. Len(cvProcesy[j]) :
            cvProcesy'[j][y] = cvProcesy[j][x] /\ x = IF j = i THEN y + 1 ELSE y
  <2> SUFFICES ASSUME NEW j \in CvSlot, NEW y \in 1 .. Len(cvProcesy'[j])
               PROVE  \E x \in 1 .. Len(cvProcesy[j]) :
                         cvProcesy'[j][y] = cvProcesy[j][x] /\ x = IF j = i THEN y + 1 ELSE y
    OBVIOUS
  <2>1. CASE j = i
    <3>1. y \in 1 .. Len(Tail(s)) /\ cvProcesy[j] = s
      BY <1>4, <2>1 DEF s
    <3>2. y + 1 \in 1 .. Len(s) /\ Tail(s)[y] = s[y + 1]
      BY <1>2, <1>3, <3>1
    <3> QED BY <1>4, <2>1, <3>1, <3>2
  <2>2. CASE j # i
    BY <1>4, <2>2
  <2> QED BY <2>1, <2>2
<1>6. \A j \in CvSlot : \A x \in 1 .. Len(cvProcesy[j]) :
         \/ j = i /\ x = 1
         \/ \E y \in 1 .. Len(cvProcesy'[j]) : cvProcesy'[j][y] = cvProcesy[j][x]
  <2> SUFFICES ASSUME NEW j \in CvSlot, NEW x \in 1 .. Len(cvProcesy[j]), ~(j = i /\ x = 1)
               PROVE  \E y \in 1 .. Len(cvProcesy'[j]) : cvProcesy'[j][y] = cvProcesy[j][x]
    OBVIOUS
  <2>1. CASE j = i
    <3>1. x \in 1 .. Len(s) /\ x # 1 /\ cvProcesy[j] = s
      BY <2>1 DEF s
    <3>2. x - 1 \in 1 .. Len(Tail(s)) /\ Tail(s)[x - 1] = s[x]
      BY <1>2, <1>3, <3>1
    <3> QED BY <1>4, <2>1, <3>1, <3>2
  <2>2. CASE j # i
    BY <1>4, <2>2
  <2> QED BY <2>1, <2>2
<1> QED BY <1>3, <1>4, <1>5, <1>6 DEF s

\* One turn of the loop of cs_broadcast preserves the invariant.
LEMMA BroadcastNextStep ==
    ASSUME IInv, BroadcastNext
    PROVE  IInv'
<1> DEFINE b == server.i
           w == Head(cvProcesy[b])
           p == w.proces
           m == w.muteks
           res == LockResult(p, m)
           msgs == IF res = EDONTREPLY THEN {} ELSE {Msg(p, OK, MAX_MUTEX + b)}
<1>1. /\ server.at = "broadcast" /\ cvProcesy[b] # <<>> /\ ~LockOverflows(m) /\ cs_lock(p, m)
      /\ wyslijWiadomosc(client, msgs, server)
      /\ cvProcesy' = [cvProcesy EXCEPT ![b] = Tail(cvProcesy[b])]
      /\ cvUzywany' = cvUzywany /\ cvNumer' = cvNumer /\ life' = life /\ async' = async
  BY DEF BroadcastNext
<1>2. /\ TypeOK /\ client \in [Proc -> ClientType]
      /\ b \in UsedCvSlot /\ b \in CvSlot /\ server.original \in Proc
      /\ client[server.original].at = "receiving"
      /\ client[server.original].req.typ = "CS_BROADCAST"
  BY <1>1 DEF IInv, BroadcastState, TypeOK, ClientType, UsedCvSlot
<1> HIDE DEF b
<1>3. /\ cvProcesy' \in [CvSlot -> Seq(Waiter)]
      /\ 1 \in 1 .. Len(cvProcesy[b]) /\ w = cvProcesy[b][1]
      /\ \A j \in CvSlot : \A y \in 1 .. Len(cvProcesy'[j]) :
           \E x \in 1 .. Len(cvProcesy[j]) :
              cvProcesy'[j][y] = cvProcesy[j][x] /\ x = IF j = b THEN y + 1 ELSE y
      /\ \A j \in CvSlot : \A x \in 1 .. Len(cvProcesy[j]) :
           \/ j = b /\ x = 1
           \/ \E y \in 1 .. Len(cvProcesy'[j]) : cvProcesy'[j][y] = cvProcesy[j][x]
  BY <1>1, <1>2, TailTables
<1> HIDE DEF w
<1>4. /\ p \in Proc /\ m \in Mutex
      /\ client[p].at = "receiving" /\ client[p].req.typ = "CS_WAIT"
      /\ client[p].req.mutex = m
  BY <1>2, <1>3, EntryTypes DEF IInv, EntriesBlocked
<1>5. /\ \A i \in Slot : \A j \in 1 .. Len(kolejka[i]) : kolejka[i][j] # p
      /\ \A j \in UsedCvSlot : \A x \in 1 .. Len(cvProcesy[j]) :
           cvProcesy[j][x].proces = p => j = b /\ x = 1
  <2>1. \A i \in Slot : \A j \in 1 .. Len(kolejka[i]) : kolejka[i][j] # p
    BY <1>2, <1>3 DEF IInv, WaitsOnce, Sleeps
  <2>2. \A i, j \in UsedCvSlot : \A x \in 1 .. Len(cvProcesy[i]) : \A y \in 1 .. Len(cvProcesy[j]) :
           cvProcesy[i][x].proces = cvProcesy[j][y].proces => i = j /\ x = y
    BY DEF IInv, WaitsOnce
  <2> QED BY <1>2, <1>3, <2>1, <2>2
<1>6. p # server.original
  BY <1>2, <1>4
<1> HIDE DEF p, m
<1>7. /\ uzywany' \in [Slot -> {0, 1}] /\ numer' \in [Slot -> Mutex \cup {Zero}]
      /\ wlasciciel' \in [Slot -> Proc \cup {Zero}] /\ kolejka' \in [Slot -> Seq(Proc)]
      /\ \A i \in UsedSlot : uzywany'[i] = 1 /\ numer'[i] = numer[i]
                             /\ wlasciciel'[i] = wlasciciel[i]
      /\ \A i, j \in Slot : uzywany'[i] = 1 /\ uzywany'[j] = 1 /\ numer'[i] = numer'[j] => i = j
      /\ \A i \in Slot : uzywany'[i] = 0 => kolejka'[i] = <<>>
      /\ \A i \in Slot : \A j \in 1 .. Len(kolejka[i]) :
           i \in UsedSlot /\ j \in 1 .. Len(kolejka'[i]) /\ kolejka'[i][j] = kolejka[i][j]
      /\ \A i \in Slot : \A j \in 1 .. Len(kolejka'[i]) :
           \/ i \in UsedSlot /\ j \in 1 .. Len(kolejka[i]) /\ kolejka'[i][j] = kolejka[i][j]
           \/ /\ res = EDONTREPLY
              /\ kolejka'[i][j] = p /\ numer'[i] = m /\ i = indeksUzywanegoMutexa(m)
              /\ j = Len(kolejka[i]) + 1
      /\ res = EDONTREPLY =>
           \E i \in Slot : /\ uzywany'[i] = 1 /\ numer'[i] = m
                           /\ \E j \in 1 .. Len(kolejka'[i]) : kolejka'[i][j] = p
      /\ res # EDONTREPLY =>
           /\ res \in {OK, EPERM}
           /\ \E i \in Slot : uzywany'[i] = 1 /\ numer'[i] = m /\ wlasciciel'[i] = p
  <2>1. ~LockOverflows(m) /\ cs_lock(p, m)
    BY <1>1
  <2>2. \A i \in Slot : \A j \in 1 .. Len(kolejka[i]) : kolejka[i][j] # p
    BY <1>5
  <2>3. p \in Proc /\ m \in Mutex
    BY <1>4
  <2> QED BY <2>1, <2>2, <2>3, LockTables
<1>8. /\ \A n \in msgs : n.do = p /\ n.typ = OK /\ res # EDONTREPLY
      /\ res = EDONTREPLY => msgs = {}
      /\ res # EDONTREPLY => \E n \in msgs : n.do = p
      /\ \A n, n2 \in msgs : n = n2
  <2>1. CASE res = EDONTREPLY
    BY <2>1
  <2>2. CASE res # EDONTREPLY
    <3>1. msgs = {Msg(p, OK, MAX_MUTEX + b)}
      BY <2>2
    <3>2. Msg(p, OK, MAX_MUTEX + b).do = p /\ Msg(p, OK, MAX_MUTEX + b).typ = OK
      BY DEF Msg
    <3> HIDE DEF msgs
    <3> QED BY <2>2, <3>1, <3>2
  <2> QED BY <2>1, <2>2
<1> HIDE DEF msgs, res
<1>9. /\ \A n \in msgs : n.do \in Proc /\ n.typ \in Int /\ client[n.do].at = "receiving"
      /\ \A n, n2 \in msgs : n.do = n2.do => n = n2
  BY <1>4, <1>8 DEF OK
<1>10. /\ server' = server
       /\ client' \in [Proc -> ClientType]
       /\ holds' \in [Proc -> SUBSET Mutex]
       /\ \A q \in Proc : (life[q] = "dead" \/ \A n \in msgs : n.do # q) =>
                            client'[q] = client[q] /\ holds'[q] = holds[q]
       /\ \A n \in msgs : life[n.do] # "dead" =>
                            client'[n.do].at = "running" /\ client'[n.do].req = NoRequest
       /\ \A n \in msgs : \A x \in holds'[n.do] \ holds[n.do] :
             life[n.do] = "alive" /\ x = client[n.do].req.mutex
       /\ \A q \in Proc : client'[q] = client[q] \/
                            (client'[q].at = "running" /\ client'[q].req = NoRequest)
  <2>1. wyslijWiadomosc(client, msgs, server)
    BY <1>1
  <2> QED BY <1>2, <1>9, <2>1, Sending
<1>11. \A q \in Proc : q # p => client'[q] = client[q] /\ holds'[q] = holds[q]
  BY <1>8, <1>10
<1>12. res = EDONTREPLY => client'[p] = client[p] /\ holds'[p] = holds[p]
  BY <1>4, <1>8, <1>10
<1>13. res # EDONTREPLY /\ life[p] # "dead" => client'[p].at = "running"
  BY <1>8, <1>10
<1>14. \A x \in holds'[p] : x \in holds[p] \/ (x = m /\ life[p] = "alive" /\ res # EDONTREPLY)
  BY <1>4, <1>8, <1>10, <1>12
<1>15. TypeOK'
  BY <1>1, <1>2, <1>3, <1>7, <1>10 DEF TypeOK, ClientType
<1>16. DistinctNumbers' /\ FreeRowsEmpty'
  BY <1>1, <1>7 DEF IInv, DistinctNumbers, FreeRowsEmpty, UsedSlot, UsedCvSlot
<1>17. \A j \in UsedCvSlot : \A y \in 1 .. Len(cvProcesy'[j]) :
          /\ cvProcesy'[j][y].proces # p
          /\ \E x \in 1 .. Len(cvProcesy[j]) : cvProcesy'[j][y] = cvProcesy[j][x]
  <2> SUFFICES ASSUME NEW j \in UsedCvSlot, NEW y \in 1 .. Len(cvProcesy'[j])
               PROVE  /\ cvProcesy'[j][y].proces # p
                      /\ \E x \in 1 .. Len(cvProcesy[j]) : cvProcesy'[j][y] = cvProcesy[j][x]
    OBVIOUS
  <2>1. j \in CvSlot
    BY DEF UsedCvSlot
  <2>2. PICK x \in 1 .. Len(cvProcesy[j]) :
           cvProcesy'[j][y] = cvProcesy[j][x] /\ x = IF j = b THEN y + 1 ELSE y
    BY <1>3, <2>1
  <2>3. ~(j = b /\ x = 1)
    BY <2>2
  <2> QED BY <1>5, <2>2, <2>3
<1>18. WaitsOnce'
  <2>1. \A i, j \in Slot : \A x \in 1 .. Len(kolejka'[i]) : \A y \in 1 .. Len(kolejka'[j]) :
           kolejka'[i][x] = kolejka'[j][y] => i = j /\ x = y
    <3>1. \A i, j \in Slot : \A x \in 1 .. Len(kolejka[i]) : \A y \in 1 .. Len(kolejka[j]) :
             kolejka[i][x] = kolejka[j][y] => i = j /\ x = y
      BY DEF IInv, WaitsOnce
    <3>2. \A i \in Slot : \A x \in 1 .. Len(kolejka'[i]) :
             \/ x \in 1 .. Len(kolejka[i]) /\ kolejka'[i][x] = kolejka[i][x]
             \/ kolejka'[i][x] = p /\ i = indeksUzywanegoMutexa(m) /\ x = Len(kolejka[i]) + 1
      BY <1>7
    <3> QED BY <1>5, <3>1, <3>2
  <2>2. \A i, j \in UsedCvSlot : \A x \in 1 .. Len(cvProcesy'[i]) : \A y \in 1 .. Len(cvProcesy'[j]) :
           cvProcesy'[i][x].proces = cvProcesy'[j][y].proces => i = j /\ x = y
    <3> SUFFICES ASSUME NEW i \in UsedCvSlot, NEW j \in UsedCvSlot,
                        NEW x \in 1 .. Len(cvProcesy'[i]), NEW y \in 1 .. Len(cvProcesy'[j]),
                        cvProcesy'[i][x].proces = cvProcesy'[j][y].proces
                 PROVE  i = j /\ x = y
      OBVIOUS
    <3>1. i \in CvSlot /\ j \in CvSlot
      BY DEF UsedCvSlot
    <3>2. PICK u \in 1 .. Len(cvProcesy[i]) :
             cvProcesy'[i][x] = cvProcesy[i][u] /\ u = IF i = b THEN x + 1 ELSE x
      BY <1>3, <3>1
    <3>3. PICK v \in 1 .. Len(cvProcesy[j]) :
             cvProcesy'[j][y] = cvProcesy[j][v] /\ v = IF j = b THEN y + 1 ELSE y
      BY <1>3, <3>1
    <3>4. cvProcesy[i][u].proces = cvProcesy[j][v].proces
      BY <3>2, <3>3
    <3>5. i = j /\ u = v
      BY <3>4 DEF IInv, WaitsOnce
    <3>6. x \in Int /\ y \in Int
      OBVIOUS
    <3> QED BY <3>2, <3>3, <3>5, <3>6
  <2>3. \A i \in Slot : \A x \in 1 .. Len(kolejka'[i]) : \A j \in UsedCvSlot :
           \A y \in 1 .. Len(cvProcesy'[j]) : cvProcesy'[j][y].proces # kolejka'[i][x]
    <3> SUFFICES ASSUME NEW i \in Slot, NEW x \in 1 .. Len(kolejka'[i]), NEW j \in UsedCvSlot,
                        NEW y \in 1 .. Len(cvProcesy'[j])
                 PROVE  cvProcesy'[j][y].proces # kolejka'[i][x]
      OBVIOUS
    <3>1. PICK u \in 1 .. Len(cvProcesy[j]) : cvProcesy'[j][y] = cvProcesy[j][u]
      BY <1>17
    <3>2. CASE kolejka'[i][x] = p
      BY <1>17, <3>2
    <3>3. CASE x \in 1 .. Len(kolejka[i]) /\ kolejka'[i][x] = kolejka[i][x]
      BY <3>1, <3>3 DEF IInv, WaitsOnce, Sleeps
    <3> QED BY <1>7, <3>2, <3>3
  <2>4. UsedCvSlot' = UsedCvSlot
    BY <1>1 DEF UsedCvSlot
  <2>5. \A i \in Slot : \A x \in 1 .. Len(kolejka'[i]) : \A j \in UsedCvSlot :
           ~Sleeps(kolejka[i][x], j)'
    BY <2>3 DEF Sleeps
  <2> QED BY <2>1, <2>2, <2>4, <2>5 DEF WaitsOnce
<1>19. EntriesBlocked'
  <2>1. \A i \in Slot : \A j \in 1 .. Len(kolejka'[i]) :
           LET c == client'[kolejka'[i][j]] IN
           /\ c.at = "receiving" /\ c.req.typ \in {"CS_LOCK", "CS_WAIT"}
           /\ c.req.mutex = numer'[i]
    <3> SUFFICES ASSUME NEW i \in Slot, NEW j \in 1 .. Len(kolejka'[i])
                 PROVE  LET c == client'[kolejka'[i][j]] IN
                        /\ c.at = "receiving" /\ c.req.typ \in {"CS_LOCK", "CS_WAIT"}
                        /\ c.req.mutex = numer'[i]
      OBVIOUS
    <3>1. CASE i \in UsedSlot /\ j \in 1 .. Len(kolejka[i]) /\ kolejka'[i][j] = kolejka[i][j]
      <4>1. client'[kolejka[i][j]] = client[kolejka[i][j]] /\ numer'[i] = numer[i]
        BY <1>2, <1>5, <1>7, <1>11, <3>1, EntryTypes
      <4> QED BY <3>1, <4>1 DEF IInv, EntriesBlocked
    <3>2. CASE res = EDONTREPLY /\ kolejka'[i][j] = p /\ numer'[i] = m
      BY <1>4, <1>12, <3>2
    <3> QED BY <1>7, <3>1, <3>2
  <2>2. \A i \in UsedCvSlot : \A j \in 1 .. Len(cvProcesy'[i]) :
           LET c == client'[cvProcesy'[i][j].proces] IN
           /\ c.at = "receiving" /\ c.req.typ = "CS_WAIT"
           /\ c.req.mutex = cvProcesy'[i][j].muteks /\ c.req.cv = cvNumer[i]
    <3> SUFFICES ASSUME NEW i \in UsedCvSlot, NEW j \in 1 .. Len(cvProcesy'[i])
                 PROVE  LET c == client'[cvProcesy'[i][j].proces] IN
                        /\ c.at = "receiving" /\ c.req.typ = "CS_WAIT"
                        /\ c.req.mutex = cvProcesy'[i][j].muteks /\ c.req.cv = cvNumer[i]
      OBVIOUS
    <3>1. PICK x \in 1 .. Len(cvProcesy[i]) : cvProcesy'[i][j] = cvProcesy[i][x]
      BY <1>17
    <3>2. cvProcesy[i][x].proces \in Proc /\ cvProcesy[i][x].proces # p
      BY <1>2, <1>17, <3>1, EntryTypes DEF UsedCvSlot
    <3>3. client'[cvProcesy[i][x].proces] = client[cvProcesy[i][x].proces]
      BY <1>11, <3>2
    <3> QED BY <3>1, <3>3 DEF IInv, EntriesBlocked
  <2> QED BY <1>1, <2>1, <2>2 DEF EntriesBlocked, UsedCvSlot
<1>20. HoldersAreOwners'
  <2>1. \A q \in Proc : \A x \in holds[q] : \E i \in Slot :
           uzywany'[i] = 1 /\ numer'[i] = x /\ wlasciciel'[i] = q
    <3> SUFFICES ASSUME NEW q \in Proc, NEW x \in holds[q]
                 PROVE  \E i \in Slot : uzywany'[i] = 1 /\ numer'[i] = x /\ wlasciciel'[i] = q
      OBVIOUS
    <3>1. PICK i \in UsedSlot : numer[i] = x /\ wlasciciel[i] = q
      BY DEF IInv, HoldersAreOwners
    <3>2. i \in Slot /\ uzywany'[i] = 1 /\ numer'[i] = x /\ wlasciciel'[i] = q
      BY <1>7, <3>1 DEF UsedSlot
    <3> QED BY <3>2
  <2> QED BY <1>7, <1>11, <1>14, <2>1 DEF HoldersAreOwners, UsedSlot
<1>21. ExitsAreDead'
  BY <1>1, <1>4, <1>11, <1>14 DEF IInv, ExitsAreDead
<1>22. GaveUp'
  <2>1. \A q \in Proc : client'[q].at = "sending" => q # p
    BY <1>4, <1>10
  <2> QED BY <1>11, <2>1 DEF IInv, GaveUp
<1>23. BroadcastState' /\ NeverStuck'
  <2>1. client'[server.original] = client[server.original]
    BY <1>2, <1>6, <1>11
  <2> QED BY <1>1, <1>10, <2>1 DEF IInv, BroadcastState, NeverStuck, UsedCvSlot
<1>24. NoLostProcess'
  <2> SUFFICES ASSUME NEW q \in Proc, life[q] = "alive", client'[q].at = "receiving"
               PROVE  Accounted(q)'
    BY <1>1 DEF NoLostProcess
  <2>1. CASE q = p
    <3>1. res = EDONTREPLY
      BY <1>13, <2>1
    <3>2. client'[q].req.mutex = m
      BY <1>4, <1>12, <2>1, <3>1
    <3>3. PICK i \in Slot : /\ uzywany'[i] = 1 /\ numer'[i] = m
                            /\ \E j \in 1 .. Len(kolejka'[i]) : kolejka'[i][j] = p
      BY <1>7, <3>1
    <3>4. i \in UsedSlot' /\ Queues(q, i)' /\ numer'[i] = client'[q].req.mutex
      BY <2>1, <3>2, <3>3 DEF UsedSlot, Queues
    <3> QED BY <3>4 DEF Accounted
  <2>2. CASE q # p
    <3>1. client'[q] = client[q] /\ Accounted(q)
      BY <1>1, <1>11, <2>2 DEF IInv, NoLostProcess
    <3>2. CASE \E i \in UsedSlot : Queues(q, i) /\ numer[i] = client[q].req.mutex
      <4>1. PICK i \in UsedSlot : Queues(q, i) /\ numer[i] = client[q].req.mutex
        BY <3>2
      <4>2. i \in Slot /\ uzywany'[i] = 1 /\ numer'[i] = client'[q].req.mutex
        BY <1>7, <3>1, <4>1 DEF UsedSlot
      <4>3. Queues(q, i)'
        BY <1>7, <4>1, <4>2 DEF Queues
      <4>4. i \in UsedSlot'
        BY <4>2 DEF UsedSlot
      <4> QED BY <4>2, <4>3, <4>4 DEF Accounted
    <3>3. CASE \E i \in UsedCvSlot :
                  /\ cvNumer[i] = client[q].req.cv
                  /\ \E j \in 1 .. Len(cvProcesy[i]) :
                        cvProcesy[i][j] = [proces |-> q, muteks |-> client[q].req.mutex]
      <4>0. PICK i \in UsedCvSlot :
                  /\ cvNumer[i] = client[q].req.cv
                  /\ \E j \in 1 .. Len(cvProcesy[i]) :
                        cvProcesy[i][j] = [proces |-> q, muteks |-> client[q].req.mutex]
        BY <3>3
      <4>1. PICK j \in 1 .. Len(cvProcesy[i]) :
                  cvProcesy[i][j] = [proces |-> q, muteks |-> client[q].req.mutex]
        BY <4>0
      <4>2. ~(i = b /\ j = 1) /\ i \in CvSlot
        BY <1>3, <2>2, <4>1 DEF p, UsedCvSlot
      <4>3. PICK y \in 1 .. Len(cvProcesy'[i]) : cvProcesy'[i][y] = cvProcesy[i][j]
        BY <1>3, <4>2
      <4>4. i \in UsedCvSlot' /\ cvNumer'[i] = client'[q].req.cv
        BY <1>1, <3>1, <4>0 DEF UsedCvSlot
      <4>5. cvProcesy'[i][y] = [proces |-> q, muteks |-> client'[q].req.mutex]
        BY <3>1, <4>1, <4>3
      <4> QED BY <4>4, <4>5 DEF Accounted
    <3>4. CASE server.original = q
      BY <1>1, <1>10, <3>4 DEF Accounted
    <3> QED BY <3>1, <3>2, <3>3, <3>4 DEF Accounted
  <2> QED BY <2>1, <2>2
<1> QED BY <1>15, <1>16, <1>18, <1>19, <1>20, <1>21, <1>22, <1>23, <1>24 DEF IInv

\* Leaving the loop: the row, whose list is empty, is freed and the caller answered.
LEMMA BroadcastEndStep ==
    ASSUME IInv, BroadcastEnd
    PROVE  IInv'
<1> DEFINE b == server.i
           o == server.original
           msgs == Answer(o, OK)
<1>1. /\ server.at = "broadcast" /\ cvProcesy[b] = <<>>
      /\ cvUzywany' = [cvUzywany EXCEPT ![b] = 0] /\ cvNumer' = [cvNumer EXCEPT ![b] = Zero]
      /\ wyslijWiadomosc(client, msgs, Idle)
      /\ UNCHANGED <<uzywany, numer, wlasciciel, kolejka, cvProcesy>>
      /\ life' = life /\ async' = async
  BY DEF BroadcastEnd, mutexVars
<1>2. /\ TypeOK /\ client \in [Proc -> ClientType]
      /\ cvUzywany \in [CvSlot -> {0, 1}] /\ cvNumer \in [CvSlot -> CondVar \cup {Zero}]
      /\ b \in CvSlot /\ o \in Proc
      /\ client[o].at = "receiving" /\ client[o].req.typ = "CS_BROADCAST"
  BY <1>1 DEF IInv, BroadcastState, TypeOK, ClientType, UsedCvSlot
<1>3. msgs = {Msg(o, OK, -2)} /\ Msg(o, OK, -2).do = o /\ Msg(o, OK, -2).typ = OK
  BY DEF Answer, Msg, OK, EDONTREPLY
<1> HIDE DEF b, o, msgs
<1>4. /\ \A n \in msgs : n.do = o /\ n.typ = OK
      /\ \E n \in msgs : n.do = o
      /\ \A n, n2 \in msgs : n.do = n2.do => n = n2
  BY <1>3
<1>5. /\ server' = Idle
      /\ client' \in [Proc -> ClientType]
      /\ holds' \in [Proc -> SUBSET Mutex]
      /\ \A q \in Proc : (life[q] = "dead" \/ \A n \in msgs : n.do # q) =>
                           client'[q] = client[q] /\ holds'[q] = holds[q]
      /\ \A n \in msgs : life[n.do] # "dead" =>
                           client'[n.do].at = "running" /\ client'[n.do].req = NoRequest
      /\ \A n \in msgs : \A x \in holds'[n.do] \ holds[n.do] :
            client[n.do].req.typ \in {"CS_LOCK", "CS_WAIT"}
      /\ \A q \in Proc : client'[q] = client[q] \/
                           (client'[q].at = "running" /\ client'[q].req = NoRequest)
  <2>1. \A n \in msgs : n.do \in Proc /\ n.typ \in Int /\ client[n.do].at = "receiving"
    BY <1>2, <1>4 DEF OK
  <2>2. wyslijWiadomosc(client, msgs, Idle)
    BY <1>1
  <2> QED BY <1>2, <1>4, <2>1, <2>2, Sending
<1>6. \A q \in Proc : q # o => client'[q] = client[q] /\ holds'[q] = holds[q]
  BY <1>4, <1>5
<1>7. holds'[o] \subseteq holds[o]
  BY <1>2, <1>4, <1>5
<1>8. /\ life[o] # "dead" => client'[o].at = "running"
      /\ client'[o].at # "sending"
  BY <1>2, <1>4, <1>5
<1>9. /\ cvUzywany' \in [CvSlot -> {0, 1}] /\ cvNumer' \in [CvSlot -> CondVar \cup {Zero}]
      /\ cvUzywany'[b] = 0
      /\ \A j \in CvSlot : j # b => cvUzywany'[j] = cvUzywany[j] /\ cvNumer'[j] = cvNumer[j]
  BY <1>1, <1>2
<1>10. \A j \in UsedCvSlot' : j \in UsedCvSlot /\ j # b /\ cvNumer'[j] = cvNumer[j]
  BY <1>9 DEF UsedCvSlot
<1>11. TypeOK'
  BY <1>1, <1>2, <1>5, <1>9 DEF TypeOK, ClientType, Idle, ServerPlace
<1>12. DistinctNumbers' /\ FreeRowsEmpty'
  <2>1. \A i, j \in UsedCvSlot' : cvNumer'[i] = cvNumer'[j] => i = j
    BY <1>10 DEF IInv, DistinctNumbers
  <2> QED BY <1>1, <2>1 DEF IInv, DistinctNumbers, FreeRowsEmpty, UsedSlot
<1>13. WaitsOnce'
  BY <1>1, <1>10 DEF IInv, WaitsOnce, Sleeps
<1>14. EntriesBlocked'
  <2>1. \A i \in Slot : \A j \in 1 .. Len(kolejka[i]) :
           client'[kolejka[i][j]] = client[kolejka[i][j]]
    BY <1>2, <1>6, EntryTypes DEF IInv, EntriesBlocked
  <2>2. \A i \in UsedCvSlot : \A j \in 1 .. Len(cvProcesy[i]) :
           client'[cvProcesy[i][j].proces] = client[cvProcesy[i][j].proces]
    BY <1>2, <1>6, EntryTypes DEF IInv, EntriesBlocked, UsedCvSlot
  <2> QED BY <1>1, <1>10, <2>1, <2>2 DEF IInv, EntriesBlocked
<1>15. HoldersAreOwners'
  BY <1>1, <1>6, <1>7 DEF IInv, HoldersAreOwners, UsedSlot
<1>16. ExitsAreDead'
  BY <1>1, <1>6, <1>7 DEF IInv, ExitsAreDead
<1>17. GaveUp'
  BY <1>6, <1>8 DEF IInv, GaveUp
<1>18. BroadcastState' /\ NeverStuck'
  BY <1>5 DEF BroadcastState, NeverStuck, Idle
<1>19. NoLostProcess'
  <2> SUFFICES ASSUME NEW q \in Proc, life[q] = "alive", client'[q].at = "receiving"
               PROVE  Accounted(q)'
    BY <1>1 DEF NoLostProcess
  <2>1. q # o
    BY <1>8
  <2>2. client'[q] = client[q] /\ Accounted(q)
    BY <1>1, <1>6, <2>1 DEF IInv, NoLostProcess
  <2>3. CASE \E i \in UsedSlot : Queues(q, i) /\ numer[i] = client[q].req.mutex
    BY <1>1, <2>2, <2>3 DEF Accounted, Queues, UsedSlot
  <2>4. CASE \E i \in UsedCvSlot :
                /\ cvNumer[i] = client[q].req.cv
                /\ \E j \in 1 .. Len(cvProcesy[i]) :
                      cvProcesy[i][j] = [proces |-> q, muteks |-> client[q].req.mutex]
    <3>1. PICK i \in UsedCvSlot :
                /\ cvNumer[i] = client[q].req.cv
                /\ \E j \in 1 .. Len(cvProcesy[i]) :
                      cvProcesy[i][j] = [proces |-> q, muteks |-> client[q].req.mutex]
      BY <2>4
    <3>2. i # b
      BY <1>1, <3>1
    <3>3. i \in UsedCvSlot' /\ cvNumer'[i] = client'[q].req.cv
      BY <1>9, <2>2, <3>1, <3>2 DEF UsedCvSlot
    <3> QED BY <1>1, <2>2, <3>1, <3>3 DEF Accounted
  <2> QED BY <2>1, <2>2, <2>3, <2>4 DEF Accounted, o
<1> QED BY <1>11, <1>12, <1>13, <1>14, <1>15, <1>16, <1>17, <1>18, <1>19 DEF IInv

-----------------------------------------------------------------------------
(***************************************************************************)
(* CS_EINTR and CS_EXIT.                                                   *)
(***************************************************************************)

\* R is Q with p removed from every queue; no process is queued twice in Q.
QueuesLose(Q, p, R) ==
    /\ Q \in [Slot -> Seq(Proc)]
    /\ \A i, j \in Slot : \A x \in 1 .. Len(Q[i]) : \A y \in 1 .. Len(Q[j]) :
          Q[i][x] = Q[j][y] => i = j /\ x = y
    /\ R = [i \in Slot |-> usunElement(Q[i], p)]

\* Then p is gone and everybody else is still there, once.
LEMMA QueuesWithout ==
    ASSUME NEW Q, NEW p, NEW R, QueuesLose(Q, p, R)
    PROVE  /\ R \in [Slot -> Seq(Proc)]
           /\ \A i, j \in Slot : \A x \in 1 .. Len(R[i]) : \A y \in 1 .. Len(R[j]) :
                R[i][x] = R[j][y] => i = j /\ x = y
           /\ \A i \in Slot : \A x \in 1 .. Len(R[i]) :
                R[i][x] # p /\ \E y \in 1 .. Len(Q[i]) : R[i][x] = Q[i][y]
           /\ \A i \in Slot : \A y \in 1 .. Len(Q[i]) :
                Q[i][y] # p => \E x \in 1 .. Len(R[i]) : R[i][x] = Q[i][y]
           /\ \A i \in Slot : Q[i] = <<>> => R[i] = <<>>
<1> USE DEF QueuesLose
<1>1. \A i \in Slot :
        /\ R[i] \in Seq(Proc)
        /\ \A j \in 1 .. Len(R[i]) : \E k \in 1 .. Len(Q[i]) : R[i][j] = Q[i][k]
        /\ \A j, l \in 1 .. Len(R[i]) : R[i][j] = R[i][l] => j = l
        /\ \A j \in 1 .. Len(R[i]) : R[i][j] # p
        /\ \A k \in 1 .. Len(Q[i]) : Q[i][k] # p => \E j \in 1 .. Len(R[i]) : R[i][j] = Q[i][k]
  <2> SUFFICES ASSUME NEW i \in Slot
               PROVE  /\ R[i] \in Seq(Proc)
                      /\ \A j \in 1 .. Len(R[i]) : \E k \in 1 .. Len(Q[i]) : R[i][j] = Q[i][k]
                      /\ \A j, l \in 1 .. Len(R[i]) : R[i][j] = R[i][l] => j = l
                      /\ \A j \in 1 .. Len(R[i]) : R[i][j] # p
                      /\ \A k \in 1 .. Len(Q[i]) : Q[i][k] # p =>
                            \E j \in 1 .. Len(R[i]) : R[i][j] = Q[i][k]
    OBVIOUS
  <2>1. Q[i] \in Seq(Proc) /\ \A k, l \in 1 .. Len(Q[i]) : Q[i][k] = Q[i][l] => k = l
    OBVIOUS
  <2>2. R[i] = usunElement(Q[i], p)
    OBVIOUS
  <2> QED BY <2>1, <2>2, UsunElementProperties
<1>2. R \in [Slot -> Seq(Proc)]
  BY <1>1
<1>3. \A i, j \in Slot : \A x \in 1 .. Len(R[i]) : \A y \in 1 .. Len(R[j]) :
         R[i][x] = R[j][y] => i = j /\ x = y
  <2> SUFFICES ASSUME NEW i \in Slot, NEW j \in Slot, NEW x \in 1 .. Len(R[i]),
                      NEW y \in 1 .. Len(R[j]), R[i][x] = R[j][y]
               PROVE  i = j /\ x = y
    OBVIOUS
  <2>1. PICK u \in 1 .. Len(Q[i]) : R[i][x] = Q[i][u]
    BY <1>1
  <2>2. PICK v \in 1 .. Len(Q[j]) : R[j][y] = Q[j][v]
    BY <1>1
  <2>3. i = j
    BY <2>1, <2>2
  <2>4. \A a, b \in 1 .. Len(R[i]) : R[i][a] = R[i][b] => a = b
    BY <1>1
  <2>5. y \in 1 .. Len(R[i]) /\ R[i][x] = R[i][y]
    BY <2>3
  <2> QED BY <2>3, <2>4, <2>5
<1>4. \A i \in Slot : Q[i] = <<>> => R[i] = <<>>
  <2> SUFFICES ASSUME NEW i \in Slot, Q[i] = <<>> PROVE R[i] = <<>>
    OBVIOUS
  <2>1. R[i] \in Seq(Proc) /\ \A j \in 1 .. Len(R[i]) : FALSE
    BY <1>1
  <2> QED BY <2>1
<1> QED BY <1>1, <1>2, <1>3, <1>4

\* The same for one list of a condition variable that p is in.
LEMMA ListWithout ==
    ASSUME NEW s \in Seq(Waiter), NEW p, NEW r,
           \A k, l \in 1 .. Len(s) : s[k].proces = s[l].proces => k = l,
           PositionInCv(s, p) # -1, r = RemovePosition(s, PositionInCv(s, p))
    PROVE  /\ r \in Seq(Waiter)
           /\ \A j \in 1 .. Len(r) : r[j].proces # p /\ \E k \in 1 .. Len(s) : r[j] = s[k]
           /\ \A j, l \in 1 .. Len(r) : r[j].proces = r[l].proces => j = l
           /\ \A k \in 1 .. Len(s) : s[k].proces # p => \E j \in 1 .. Len(r) : r[j] = s[k]
<1> DEFINE S == {k \in 1 .. Len(s) : s[k].proces = p}
           k0 == PositionInCv(s, p)
<1>1. S \in SUBSET Nat
  OBVIOUS
<1>2. k0 = First(S)
  BY DEF PositionInCv
<1>3. k0 \in S
  BY <1>1, <1>2, FirstProperties
<1>4. k0 \in 1 .. Len(s) /\ s[k0].proces = p
  BY <1>3
<1> HIDE DEF S, k0
<1>5. /\ r \in Seq(Waiter) /\ Len(r) = Len(s) - 1
      /\ \A j \in 1 .. Len(r) : r[j] = IF j < k0 THEN s[j] ELSE s[j + 1]
  BY <1>4, RemovePositionProperties DEF k0
<1>6. \A k \in 1 .. Len(s) : s[k].proces # p => \E j \in 1 .. Len(r) : r[j] = s[k]
  <2> SUFFICES ASSUME NEW k \in 1 .. Len(s), s[k].proces # p
               PROVE  \E j \in 1 .. Len(r) : r[j] = s[k]
    OBVIOUS
  <2>1. CASE k < k0
    BY <1>4, <1>5, <2>1
  <2>2. CASE k > k0
    <3>1. k - 1 \in 1 .. Len(r) /\ r[k - 1] = s[k]
      BY <1>4, <1>5, <2>2
    <3> QED BY <3>1
  <2> QED BY <1>4, <2>1, <2>2
<1>7. \A j \in 1 .. Len(r) : \E k \in 1 .. Len(s) :
         r[j] = s[k] /\ k # k0 /\ k = IF j < k0 THEN j ELSE j + 1
  <2> SUFFICES ASSUME NEW j \in 1 .. Len(r)
               PROVE  \E k \in 1 .. Len(s) :
                         r[j] = s[k] /\ k # k0 /\ k = IF j < k0 THEN j ELSE j + 1
    OBVIOUS
  <2>1. CASE j < k0
    BY <1>4, <1>5, <2>1
  <2>2. CASE ~(j < k0)
    <3>1. j + 1 \in 1 .. Len(s) /\ j + 1 # k0 /\ r[j] = s[j + 1]
      BY <1>4, <1>5, <2>2
    <3> QED BY <2>2, <3>1
  <2> QED BY <2>1, <2>2
<1>8. \A j \in 1 .. Len(r) : r[j].proces # p /\ \E k \in 1 .. Len(s) : r[j] = s[k]
  BY <1>4, <1>7
<1>9. \A j, l \in 1 .. Len(r) : r[j].proces = r[l].proces => j = l
  <2> SUFFICES ASSUME NEW j \in 1 .. Len(r), NEW l \in 1 .. Len(r), r[j].proces = r[l].proces
               PROVE  j = l
    OBVIOUS
  <2>1. PICK u \in 1 .. Len(s) : r[j] = s[u] /\ u # k0 /\ u = IF j < k0 THEN j ELSE j + 1
    BY <1>7
  <2>2. PICK v \in 1 .. Len(s) : r[l] = s[v] /\ v # k0 /\ v = IF l < k0 THEN l ELSE l + 1
    BY <1>7
  <2>3. u = v
    BY <2>1, <2>2
  <2>4. j \in Int /\ l \in Int /\ k0 \in Int
    BY <1>4
  <2> QED BY <2>1, <2>2, <2>3, <2>4
<1> QED BY <1>5, <1>6, <1>8, <1>9

\* usunZakonczonyProcesCV: p is in no list any more, everybody else still is.
LEMMA CvWithout ==
    ASSUME IInv, NEW p, usunZakonczonyProcesCV(p)
    PROVE  /\ cvUzywany' \in [CvSlot -> {0, 1}] /\ cvNumer' = cvNumer
           /\ cvProcesy' \in [CvSlot -> Seq(Waiter)]
           /\ \A j \in UsedCvSlot' : j \in UsedCvSlot
           /\ \A j \in UsedCvSlot' : \A y \in 1 .. Len(cvProcesy'[j]) :
                /\ cvProcesy'[j][y].proces # p
                /\ \E x \in 1 .. Len(cvProcesy[j]) : cvProcesy'[j][y] = cvProcesy[j][x]
           /\ \A j \in UsedCvSlot' : \A x, y \in 1 .. Len(cvProcesy'[j]) :
                cvProcesy'[j][x].proces = cvProcesy'[j][y].proces => x = y
           /\ \A j \in UsedCvSlot : \A x \in 1 .. Len(cvProcesy[j]) : cvProcesy[j][x].proces # p =>
                /\ j \in UsedCvSlot'
                /\ \E y \in 1 .. Len(cvProcesy'[j]) : cvProcesy'[j][y] = cvProcesy[j][x]
<1> DEFINE W == CvsWith(p)
<1>1. /\ cvUzywany \in [CvSlot -> {0, 1}]
      /\ \A j \in CvSlot : cvProcesy[j] \in Seq(Waiter) /\ Len(cvProcesy[j]) \in Nat
  BY DEF IInv, TypeOK
<1>2. \A j \in UsedCvSlot : \A x, y \in 1 .. Len(cvProcesy[j]) :
         cvProcesy[j][x].proces = cvProcesy[j][y].proces => x = y
  BY DEF IInv, WaitsOnce
<1>3. /\ W \subseteq UsedCvSlot /\ UsedCvSlot \subseteq CvSlot
      /\ \A j \in W : PositionInCv(cvProcesy[j], p) # -1
  BY DEF CvsWith, UsedCvSlot
<1>4. \A j \in UsedCvSlot : j \in W <=> \E x \in 1 .. Len(cvProcesy[j]) : cvProcesy[j][x].proces = p
  <2> SUFFICES ASSUME NEW j \in UsedCvSlot
               PROVE  j \in W <=> \E x \in 1 .. Len(cvProcesy[j]) : cvProcesy[j][x].proces = p
    OBVIOUS
  <2> DEFINE S == {k \in 1 .. Len(cvProcesy[j]) : cvProcesy[j][k].proces = p}
  <2>1. S \in SUBSET Nat /\ PositionInCv(cvProcesy[j], p) = First(S)
    BY DEF PositionInCv
  <2>2. j \in W <=> First(S) # -1
    BY <2>1 DEF CvsWith, UsedCvSlot
  <2>3. First(S) # -1 <=> S # {}
    BY <2>1, FirstProperties
  <2> QED BY <2>2, <2>3
<1>5. /\ cvUzywany' = [j \in CvSlot |-> IF j \in W /\ Len(cvProcesy[j]) = 1 THEN 0 ELSE cvUzywany[j]]
      /\ cvProcesy' = [j \in CvSlot |-> IF j \in W /\ Len(cvProcesy[j]) # 1
             THEN RemovePosition(cvProcesy[j], PositionInCv(cvProcesy[j], p)) ELSE cvProcesy[j]]
      /\ cvNumer' = cvNumer
  BY DEF usunZakonczonyProcesCV
<1> HIDE DEF W
<1>6. \A j \in W : LET r == RemovePosition(cvProcesy[j], PositionInCv(cvProcesy[j], p)) IN
         /\ r \in Seq(Waiter)
         /\ \A y \in 1 .. Len(r) : r[y].proces # p /\ \E x \in 1 .. Len(cvProcesy[j]) : r[y] = cvProcesy[j][x]
         /\ \A x, y \in 1 .. Len(r) : r[x].proces = r[y].proces => x = y
         /\ \A x \in 1 .. Len(cvProcesy[j]) : cvProcesy[j][x].proces # p =>
               \E y \in 1 .. Len(r) : r[y] = cvProcesy[j][x]
  <2> SUFFICES ASSUME NEW j \in W
               PROVE  LET r == RemovePosition(cvProcesy[j], PositionInCv(cvProcesy[j], p)) IN
         /\ r \in Seq(Waiter)
         /\ \A y \in 1 .. Len(r) : r[y].proces # p /\ \E x \in 1 .. Len(cvProcesy[j]) : r[y] = cvProcesy[j][x]
         /\ \A x, y \in 1 .. Len(r) : r[x].proces = r[y].proces => x = y
         /\ \A x \in 1 .. Len(cvProcesy[j]) : cvProcesy[j][x].proces # p =>
               \E y \in 1 .. Len(r) : r[y] = cvProcesy[j][x]
    OBVIOUS
  <2> DEFINE s == cvProcesy[j]
             r == RemovePosition(s, PositionInCv(s, p))
  <2>1. /\ s \in Seq(Waiter) /\ PositionInCv(s, p) # -1 /\ r = RemovePosition(s, PositionInCv(s, p))
        /\ \A k, l \in 1 .. Len(s) : s[k].proces = s[l].proces => k = l
    BY <1>1, <1>2, <1>3
  <2> HIDE DEF s, r
  <2>2. /\ r \in Seq(Waiter)
        /\ \A y \in 1 .. Len(r) : r[y].proces # p /\ \E x \in 1 .. Len(s) : r[y] = s[x]
        /\ \A x, y \in 1 .. Len(r) : r[x].proces = r[y].proces => x = y
        /\ \A x \in 1 .. Len(s) : s[x].proces # p => \E y \in 1 .. Len(r) : r[y] = s[x]
    BY <2>1, ListWithout
  <2> QED BY <2>2 DEF s, r
<1>7. cvUzywany' \in [CvSlot -> {0, 1}]
  BY <1>1, <1>5
<1>8. cvProcesy' \in [CvSlot -> Seq(Waiter)]
  BY <1>1, <1>5, <1>6
<1>9. \A j \in UsedCvSlot' : /\ j \in UsedCvSlot
                             /\ j \in W => Len(cvProcesy[j]) # 1
  BY <1>5 DEF UsedCvSlot
<1>10. \A j \in UsedCvSlot : j \in UsedCvSlot' \/ (j \in W /\ Len(cvProcesy[j]) = 1)
  BY <1>3, <1>5 DEF UsedCvSlot
<1>11. \A j \in UsedCvSlot : j \notin W => cvProcesy'[j] = cvProcesy[j]
  BY <1>3, <1>5
<1>12. \A j \in W : Len(cvProcesy[j]) # 1 =>
          cvProcesy'[j] = RemovePosition(cvProcesy[j], PositionInCv(cvProcesy[j], p))
  BY <1>3, <1>5
<1>13. \A j \in UsedCvSlot' : \A y \in 1 .. Len(cvProcesy'[j]) :
          /\ cvProcesy'[j][y].proces # p
          /\ \E x \in 1 .. Len(cvProcesy[j]) : cvProcesy'[j][y] = cvProcesy[j][x]
  <2> SUFFICES ASSUME NEW j \in UsedCvSlot', NEW y \in 1 .. Len(cvProcesy'[j])
               PROVE  /\ cvProcesy'[j][y].proces # p
                      /\ \E x \in 1 .. Len(cvProcesy[j]) : cvProcesy'[j][y] = cvProcesy[j][x]
    OBVIOUS
  <2>1. CASE j \in W
    BY <1>6, <1>9, <1>12, <2>1
  <2>2. CASE j \notin W
    BY <1>4, <1>9, <1>11, <2>2
  <2> QED BY <2>1, <2>2
<1>14. \A j \in UsedCvSlot' : \A x, y \in 1 .. Len(cvProcesy'[j]) :
          cvProcesy'[j][x].proces = cvProcesy'[j][y].proces => x = y
  <2> SUFFICES ASSUME NEW j \in UsedCvSlot', NEW x \in 1 .. Len(cvProcesy'[j]),
                      NEW y \in 1 .. Len(cvProcesy'[j]),
                      cvProcesy'[j][x].proces = cvProcesy'[j][y].proces
               PROVE  x = y
    OBVIOUS
  <2>1. CASE j \in W
    BY <1>6, <1>9, <1>12, <2>1
  <2>2. CASE j \notin W
    BY <1>2, <1>9, <1>11, <2>2
  <2> QED BY <2>1, <2>2
<1>15. \A j \in UsedCvSlot : \A x \in 1 .. Len(cvProcesy[j]) : cvProcesy[j][x].proces # p =>
          /\ j \in UsedCvSlot'
          /\ \E y \in 1 .. Len(cvProcesy'[j]) : cvProcesy'[j][y] = cvProcesy[j][x]
  <2> SUFFICES ASSUME NEW j \in UsedCvSlot, NEW x \in 1 .. Len(cvProcesy[j]),
                      cvProcesy[j][x].proces # p
               PROVE  /\ j \in UsedCvSlot'
                      /\ \E y \in 1 .. Len(cvProcesy'[j]) : cvProcesy'[j][y] = cvProcesy[j][x]
    OBVIOUS
  <2>1. CASE j \in W
    <3>1. PICK z \in 1 .. Len(cvProcesy[j]) : cvProcesy[j][z].proces = p
      BY <1>4, <2>1
    <3>2. x # z
      BY <3>1
    <3>3. Len(cvProcesy[j]) # 1
      <4> SUFFICES ASSUME Len(cvProcesy[j]) = 1 PROVE FALSE
        OBVIOUS
      <4>1. x \in 1 .. 1 /\ z \in 1 .. 1
        OBVIOUS
      <4> QED BY <3>2, <4>1
    <3> QED BY <1>6, <1>10, <1>12, <2>1, <3>3
  <2>2. CASE j \notin W
    BY <1>10, <1>11, <2>2
  <2> QED BY <2>1, <2>2
<1> QED BY <1>5, <1>7, <1>8, <1>9, <1>13, <1>14, <1>15

\* Taking the first message of PM leaves the others, one place further down.
LEMMA AsyncTail ==
    ASSUME TypeOK, async # <<>>, async' = Tail(async)
    PROVE  /\ Head(async) = async[1] /\ 1 \in 1 .. Len(async) /\ Head(async).proces \in Proc
           /\ async' \in Seq(Async)
           /\ \A k \in 1 .. Len(async') : \E l \in 1 .. Len(async) : async'[k] = async[l]
<1>1. async \in Seq(Async)
  BY DEF TypeOK
<1>2. Head(async) = async[1] /\ 1 \in 1 .. Len(async)
  BY <1>1
<1>3. Head(async).proces \in Proc
  BY <1>2, AsyncTypes
<1>4. async' \in Seq(Async)
  BY <1>1
<1>5. \A k \in 1 .. Len(async') : k + 1 \in 1 .. Len(async) /\ async'[k] = async[k + 1]
  BY <1>1
<1> QED BY <1>2, <1>3, <1>4, <1>5

\* What the two handlers of PM's messages about p have in common: p leaves all
\* the queues and lists, whoever else waited goes on waiting where it was or has
\* been answered, and what an answer promised is in the tables.
Removes(p) ==
    /\ server.at = "receive" /\ async # <<>> /\ async' = Tail(async)
    /\ usunZakonczonyProcesCV(p)
    /\ server' = Idle /\ life' = life /\ numer' = numer
    /\ uzywany' \in [Slot -> {0, 1}] /\ wlasciciel' \in [Slot -> Proc \cup {Zero}]
    /\ kolejka' \in [Slot -> Seq(Proc)]
    /\ client' \in [Proc -> ClientType] /\ holds' \in [Proc -> SUBSET Mutex]
    /\ \A i \in Slot : uzywany'[i] = 1 => uzywany[i] = 1
    /\ \A i \in Slot : uzywany'[i] = 0 => kolejka'[i] = <<>>
    /\ \A i, j \in Slot : \A x \in 1 .. Len(kolejka'[i]) : \A y \in 1 .. Len(kolejka'[j]) :
          kolejka'[i][x] = kolejka'[j][y] => i = j /\ x = y
    /\ \A i \in Slot : \A x \in 1 .. Len(kolejka'[i]) :
          /\ client'[kolejka'[i][x]] = client[kolejka'[i][x]]
          /\ \E y \in 1 .. Len(kolejka[i]) : kolejka'[i][x] = kolejka[i][y]
    /\ \A j \in UsedCvSlot : \A x \in 1 .. Len(cvProcesy[j]) : cvProcesy[j][x].proces # p =>
          client'[cvProcesy[j][x].proces] = client[cvProcesy[j][x].proces]
    /\ \A q \in Proc : client'[q] = client[q] \/
                         (client'[q].at = "running" /\ client'[q].req = NoRequest)
    /\ \A q \in Proc : \A x \in holds'[q] : \E i \in Slot :
          uzywany'[i] = 1 /\ numer[i] = x /\ wlasciciel'[i] = q
    /\ \A q \in Proc : life[q] # "alive" => holds'[q] \subseteq holds[q]
    /\ \A q \in Proc : client'[q].at = "sending" => holds'[q] \subseteq holds[q]
    /\ \A q \in Proc : life[q] = "alive" /\ client'[q].at = "receiving" =>
          /\ q # p
          /\ \A i \in UsedSlot : Queues(q, i) =>
                uzywany'[i] = 1 /\ \E x \in 1 .. Len(kolejka'[i]) : kolejka'[i][x] = q

\* Such a step preserves the invariant.
LEMMA RemovalStep ==
    ASSUME IInv, NEW p, Removes(p)
    PROVE  IInv'
<1>1. TypeOK
  BY DEF IInv
<1>2. /\ server.at = "receive" /\ async # <<>> /\ async' = Tail(async)
      /\ usunZakonczonyProcesCV(p)
  BY DEF Removes
<1>3. server' = Idle /\ life' = life /\ numer' = numer
  BY DEF Removes
<1>4. /\ uzywany' \in [Slot -> {0, 1}] /\ wlasciciel' \in [Slot -> Proc \cup {Zero}]
      /\ kolejka' \in [Slot -> Seq(Proc)]
      /\ client' \in [Proc -> ClientType] /\ holds' \in [Proc -> SUBSET Mutex]
  BY DEF Removes
<1>5. /\ \A i \in Slot : uzywany'[i] = 1 => uzywany[i] = 1
      /\ \A i \in Slot : uzywany'[i] = 0 => kolejka'[i] = <<>>
  BY DEF Removes
<1>6. \A i, j \in Slot : \A x \in 1 .. Len(kolejka'[i]) : \A y \in 1 .. Len(kolejka'[j]) :
         kolejka'[i][x] = kolejka'[j][y] => i = j /\ x = y
  BY DEF Removes
<1>7. \A i \in Slot : \A x \in 1 .. Len(kolejka'[i]) :
         /\ client'[kolejka'[i][x]] = client[kolejka'[i][x]]
         /\ \E y \in 1 .. Len(kolejka[i]) : kolejka'[i][x] = kolejka[i][y]
  BY DEF Removes
<1>8. \A j \in UsedCvSlot : \A x \in 1 .. Len(cvProcesy[j]) : cvProcesy[j][x].proces # p =>
         client'[cvProcesy[j][x].proces] = client[cvProcesy[j][x].proces]
  BY DEF Removes
<1>9. \A q \in Proc : client'[q] = client[q] \/
                        (client'[q].at = "running" /\ client'[q].req = NoRequest)
  BY DEF Removes
<1>10. \A q \in Proc : \A x \in holds'[q] : \E i \in Slot :
         uzywany'[i] = 1 /\ numer[i] = x /\ wlasciciel'[i] = q
  BY DEF Removes
<1>11. /\ \A q \in Proc : life[q] # "alive" => holds'[q] \subseteq holds[q]
       /\ \A q \in Proc : client'[q].at = "sending" => holds'[q] \subseteq holds[q]
  BY DEF Removes
<1>12. \A q \in Proc : life[q] = "alive" /\ client'[q].at = "receiving" =>
          /\ q # p
          /\ \A i \in UsedSlot : Queues(q, i) =>
                uzywany'[i] = 1 /\ \E x \in 1 .. Len(kolejka'[i]) : kolejka'[i][x] = q
  BY DEF Removes
<1>13. /\ cvUzywany' \in [CvSlot -> {0, 1}] /\ cvNumer' = cvNumer
       /\ cvProcesy' \in [CvSlot -> Seq(Waiter)]
       /\ \A j \in UsedCvSlot' : j \in UsedCvSlot
  BY <1>2, CvWithout
<1>14. \A j \in UsedCvSlot' : \A y \in 1 .. Len(cvProcesy'[j]) :
         /\ cvProcesy'[j][y].proces # p
         /\ \E x \in 1 .. Len(cvProcesy[j]) : cvProcesy'[j][y] = cvProcesy[j][x]
  BY <1>2, CvWithout
<1>15. \A j \in UsedCvSlot' : \A x, y \in 1 .. Len(cvProcesy'[j]) :
         cvProcesy'[j][x].proces = cvProcesy'[j][y].proces => x = y
  BY <1>2, CvWithout
<1>16. \A j \in UsedCvSlot : \A x \in 1 .. Len(cvProcesy[j]) : cvProcesy[j][x].proces # p =>
         /\ j \in UsedCvSlot'
         /\ \E y \in 1 .. Len(cvProcesy'[j]) : cvProcesy'[j][y] = cvProcesy[j][x]
  BY <1>2, CvWithout
<1>17. /\ async' \in Seq(Async)
       /\ \A k \in 1 .. Len(async') : \E l \in 1 .. Len(async) : async'[k] = async[l]
  BY <1>1, <1>2, AsyncTail
<1>18. TypeOK'
  BY <1>1, <1>3, <1>4, <1>13, <1>17 DEF TypeOK, ClientType, Idle, ServerPlace
<1>19. DistinctNumbers' /\ FreeRowsEmpty'
  <2>1. \A i \in UsedSlot' : i \in UsedSlot
    BY <1>5 DEF UsedSlot
  <2> QED BY <1>3, <1>5, <1>13, <2>1 DEF IInv, DistinctNumbers, FreeRowsEmpty
<1>20. WaitsOnce'
  <2>1. \A i, j \in UsedCvSlot' :
           \A k \in 1 .. Len(cvProcesy'[i]) : \A l \in 1 .. Len(cvProcesy'[j]) :
              cvProcesy'[i][k].proces = cvProcesy'[j][l].proces => i = j /\ k = l
    <3> SUFFICES ASSUME NEW i \in UsedCvSlot', NEW j \in UsedCvSlot',
                        NEW k \in 1 .. Len(cvProcesy'[i]), NEW l \in 1 .. Len(cvProcesy'[j]),
                        cvProcesy'[i][k].proces = cvProcesy'[j][l].proces
                 PROVE  i = j /\ k = l
      OBVIOUS
    <3>1. i \in UsedCvSlot /\ j \in UsedCvSlot
      BY <1>13
    <3>2. PICK x \in 1 .. Len(cvProcesy[i]) : cvProcesy'[i][k] = cvProcesy[i][x]
      BY <1>14
    <3>3. PICK y \in 1 .. Len(cvProcesy[j]) : cvProcesy'[j][l] = cvProcesy[j][y]
      BY <1>14
    <3>4. i = j
      BY <3>1, <3>2, <3>3 DEF IInv, WaitsOnce
    <3> QED BY <1>15, <3>4
  <2>2. \A i \in Slot : \A k \in 1 .. Len(kolejka'[i]) : \A j \in UsedCvSlot' :
           ~Sleeps(kolejka[i][k], j)'
    <3> SUFFICES ASSUME NEW i \in Slot, NEW k \in 1 .. Len(kolejka'[i]), NEW j \in UsedCvSlot',
                        NEW l \in 1 .. Len(cvProcesy'[j]),
                        cvProcesy'[j][l].proces = kolejka'[i][k]
                 PROVE  FALSE
      BY DEF Sleeps
    <3>1. j \in UsedCvSlot
      BY <1>13
    <3>2. PICK x \in 1 .. Len(kolejka[i]) : kolejka'[i][k] = kolejka[i][x]
      BY <1>7
    <3>3. PICK y \in 1 .. Len(cvProcesy[j]) : cvProcesy'[j][l] = cvProcesy[j][y]
      BY <1>14
    <3>4. ~Sleeps(kolejka[i][x], j)
      BY <3>1 DEF IInv, WaitsOnce
    <3> QED BY <3>2, <3>3, <3>4 DEF Sleeps
  <2> QED BY <1>6, <2>1, <2>2 DEF WaitsOnce
<1>21. EntriesBlocked'
  <2>1. \A i \in Slot : \A k \in 1 .. Len(kolejka'[i]) :
           LET c == client'[kolejka'[i][k]] IN
           /\ c.at = "receiving" /\ c.req.typ \in {"CS_LOCK", "CS_WAIT"}
           /\ c.req.mutex = numer'[i]
    <3> SUFFICES ASSUME NEW i \in Slot, NEW k \in 1 .. Len(kolejka'[i])
                 PROVE  LET c == client'[kolejka'[i][k]] IN
                        /\ c.at = "receiving" /\ c.req.typ \in {"CS_LOCK", "CS_WAIT"}
                        /\ c.req.mutex = numer'[i]
      OBVIOUS
    <3>1. PICK y \in 1 .. Len(kolejka[i]) : kolejka'[i][k] = kolejka[i][y]
      BY <1>7
    <3>2. client'[kolejka'[i][k]] = client[kolejka[i][y]]
      BY <1>7, <3>1
    <3> QED BY <1>3, <3>2 DEF IInv, EntriesBlocked
  <2>2. \A i \in UsedCvSlot' : \A k \in 1 .. Len(cvProcesy'[i]) :
           LET c == client'[cvProcesy'[i][k].proces] IN
           /\ c.at = "receiving" /\ c.req.typ = "CS_WAIT"
           /\ c.req.mutex = cvProcesy'[i][k].muteks /\ c.req.cv = cvNumer'[i]
    <3> SUFFICES ASSUME NEW i \in UsedCvSlot', NEW k \in 1 .. Len(cvProcesy'[i])
                 PROVE  LET c == client'[cvProcesy'[i][k].proces] IN
                        /\ c.at = "receiving" /\ c.req.typ = "CS_WAIT"
                        /\ c.req.mutex = cvProcesy'[i][k].muteks /\ c.req.cv = cvNumer'[i]
      OBVIOUS
    <3>1. i \in UsedCvSlot /\ cvProcesy'[i][k].proces # p
      BY <1>13, <1>14
    <3>2. PICK y \in 1 .. Len(cvProcesy[i]) : cvProcesy'[i][k] = cvProcesy[i][y]
      BY <1>14
    <3>3. client'[cvProcesy'[i][k].proces] = client[cvProcesy[i][y].proces]
      BY <1>8, <3>1, <3>2
    <3> QED BY <1>13, <3>1, <3>2, <3>3 DEF IInv, EntriesBlocked
  <2> QED BY <2>1, <2>2 DEF EntriesBlocked
<1>22. HoldersAreOwners'
  BY <1>3, <1>10 DEF HoldersAreOwners, UsedSlot
<1>23. ExitsAreDead'
  BY <1>3, <1>11, <1>17 DEF IInv, ExitsAreDead
<1>24. GaveUp'
  <2> SUFFICES ASSUME NEW q \in Proc, client'[q].at = "sending",
                      client'[q].req.typ \in {"CS_UNLOCK", "CS_WAIT"}
               PROVE  client'[q].req.mutex \notin holds'[q]
    BY DEF GaveUp
  <2>1. client'[q] = client[q]
    BY <1>9
  <2> QED BY <1>11, <2>1 DEF IInv, GaveUp
<1>25. BroadcastState' /\ NeverStuck'
  BY <1>3 DEF BroadcastState, NeverStuck, Idle
<1>26. NoLostProcess'
  <2> SUFFICES ASSUME NEW q \in Proc, life[q] = "alive", client'[q].at = "receiving"
               PROVE  Accounted(q)'
    BY <1>3 DEF NoLostProcess
  <2>1. client'[q] = client[q] /\ Accounted(q)
    BY <1>2, <1>9 DEF IInv, NoLostProcess
  <2>2. CASE \E i \in UsedSlot : Queues(q, i) /\ numer[i] = client[q].req.mutex
    <3>1. PICK i \in UsedSlot : Queues(q, i) /\ numer[i] = client[q].req.mutex
      BY <2>2
    <3>2. uzywany'[i] = 1 /\ \E x \in 1 .. Len(kolejka'[i]) : kolejka'[i][x] = q
      BY <1>12, <3>1
    <3>3. i \in UsedSlot' /\ Queues(q, i)' /\ numer'[i] = client'[q].req.mutex
      BY <1>3, <2>1, <3>1, <3>2 DEF UsedSlot, Queues
    <3> QED BY <3>3 DEF Accounted
  <2>3. CASE \E i \in UsedCvSlot :
                /\ cvNumer[i] = client[q].req.cv
                /\ \E j \in 1 .. Len(cvProcesy[i]) :
                      cvProcesy[i][j] = [proces |-> q, muteks |-> client[q].req.mutex]
    <3>1. PICK i \in UsedCvSlot :
                /\ cvNumer[i] = client[q].req.cv
                /\ \E j \in 1 .. Len(cvProcesy[i]) :
                      cvProcesy[i][j] = [proces |-> q, muteks |-> client[q].req.mutex]
      BY <2>3
    <3>2. PICK j \in 1 .. Len(cvProcesy[i]) :
             cvProcesy[i][j] = [proces |-> q, muteks |-> client[q].req.mutex]
      BY <3>1
    <3>3. cvProcesy[i][j].proces # p
      BY <1>12, <3>2
    <3>4. i \in UsedCvSlot' /\ \E y \in 1 .. Len(cvProcesy'[i]) : cvProcesy'[i][y] = cvProcesy[i][j]
      BY <1>16, <3>3
    <3> QED BY <1>13, <2>1, <3>1, <3>2, <3>4 DEF Accounted
  <2> QED BY <1>2, <2>1, <2>2, <2>3 DEF Accounted
<1> QED BY <1>18, <1>19, <1>20, <1>21, <1>22, <1>23, <1>24, <1>25, <1>26 DEF IInv

\* QueuesWith and CvsWith are the rows whose queue or list has p in it.
LEMMA WhereWaiting ==
    ASSUME NEW p
    PROVE  /\ \A i \in Slot : i \in QueuesWith(p) <=> Queues(p, i)
           /\ \A i \in UsedCvSlot : i \in CvsWith(p) <=> Sleeps(p, i)
           /\ QueuesWith(p) \subseteq Slot /\ CvsWith(p) \subseteq UsedCvSlot
<1>1. \A i \in Slot : i \in QueuesWith(p) <=> Queues(p, i)
  <2> SUFFICES ASSUME NEW i \in Slot PROVE i \in QueuesWith(p) <=> Queues(p, i)
    OBVIOUS
  <2> DEFINE S == {k \in 1 .. Len(kolejka[i]) : kolejka[i][k] = p}
  <2>1. S \in SUBSET Nat /\ PositionInQueue(kolejka[i], p) = First(S)
    BY DEF PositionInQueue
  <2>2. i \in QueuesWith(p) <=> First(S) # -1
    BY <2>1 DEF QueuesWith
  <2>3. First(S) # -1 <=> S # {}
    BY <2>1, FirstProperties
  <2> QED BY <2>2, <2>3 DEF Queues
<1>2. \A i \in UsedCvSlot : i \in CvsWith(p) <=> Sleeps(p, i)
  <2> SUFFICES ASSUME NEW i \in UsedCvSlot PROVE i \in CvsWith(p) <=> Sleeps(p, i)
    OBVIOUS
  <2> DEFINE S == {k \in 1 .. Len(cvProcesy[i]) : cvProcesy[i][k].proces = p}
  <2>1. S \in SUBSET Nat /\ PositionInCv(cvProcesy[i], p) = First(S)
    BY DEF PositionInCv
  <2>2. i \in CvsWith(p) <=> First(S) # -1
    BY <2>1 DEF CvsWith, UsedCvSlot
  <2>3. First(S) # -1 <=> S # {}
    BY <2>1, FirstProperties
  <2> QED BY <2>2, <2>3 DEF Sleeps
<1> QED BY <1>1, <1>2 DEF QueuesWith, CvsWith, UsedCvSlot

\* CS_EINTR preserves the invariant: at most one place in the tables has p, so
\* at most one EINTR is sent, and p is receiving when it is.
LEMMA EintrStep ==
    ASSUME IInv, wyslijEINTR
    PROVE  IInv'
<1> DEFINE p == Head(async).proces
           msgs == {Msg(p, EINTR, i) : i \in QueuesWith(p)}
                   \cup {Msg(p, EINTR, MAX_MUTEX + i) : i \in CvsWith(p)}
<1>1. TypeOK
  BY DEF IInv
<1>2. server.at = "receive" /\ async # <<>> /\ async' = Tail(async)
  BY DEF wyslijEINTR, ReceivesAsync
<1>3. usunZakonczonyProcesCV(p)
  BY DEF wyslijEINTR
<1>4. uzywany' = uzywany /\ numer' = numer /\ wlasciciel' = wlasciciel /\ life' = life
  BY DEF wyslijEINTR
<1>5. wyslijWiadomosc(client, msgs, Idle)
  BY DEF wyslijEINTR
<1>6. p \in Proc
  BY <1>1, <1>2, AsyncTail
<1>7. \A n \in msgs : n.do = p /\ n.typ = EINTR
  BY DEF Msg
<1>8. \A n \in msgs : \/ \E i \in Slot : Queues(p, i) /\ n = Msg(p, EINTR, i)
                      \/ \E i \in UsedCvSlot : Sleeps(p, i) /\ n = Msg(p, EINTR, MAX_MUTEX + i)
  BY WhereWaiting
<1>9. /\ \A i \in Slot : Queues(p, i) => msgs # {}
      /\ \A i \in UsedCvSlot : Sleeps(p, i) => msgs # {}
  BY WhereWaiting
<1> HIDE DEF p, msgs
<1>10. /\ \A i, j \in Slot : Queues(p, i) /\ Queues(p, j) => i = j
       /\ \A i, j \in UsedCvSlot : Sleeps(p, i) /\ Sleeps(p, j) => i = j
       /\ \A i \in Slot : \A j \in UsedCvSlot : ~(Queues(p, i) /\ Sleeps(p, j))
  <2>1. \A i, j \in Slot : Queues(p, i) /\ Queues(p, j) => i = j
    BY DEF IInv, WaitsOnce, Queues
  <2>2. \A i, j \in UsedCvSlot : Sleeps(p, i) /\ Sleeps(p, j) => i = j
    BY DEF IInv, WaitsOnce, Sleeps
  <2>3. \A i \in Slot : \A j \in UsedCvSlot : Queues(p, i) => ~Sleeps(p, j)
    BY DEF IInv, WaitsOnce, Queues
  <2> QED BY <2>1, <2>2, <2>3
<1>11. \A n, n2 \in msgs : n = n2
  <2> SUFFICES ASSUME NEW n \in msgs, NEW n2 \in msgs PROVE n = n2
    OBVIOUS
  <2>1. CASE \E i \in Slot : Queues(p, i) /\ n = Msg(p, EINTR, i)
    <3>1. PICK i \in Slot : Queues(p, i) /\ n = Msg(p, EINTR, i)
      BY <2>1
    <3>2. PICK j \in Slot : Queues(p, j) /\ n2 = Msg(p, EINTR, j)
      BY <1>8, <1>10, <3>1
    <3> QED BY <1>10, <3>1, <3>2
  <2>2. CASE \E i \in UsedCvSlot : Sleeps(p, i) /\ n = Msg(p, EINTR, MAX_MUTEX + i)
    <3>1. PICK i \in UsedCvSlot : Sleeps(p, i) /\ n = Msg(p, EINTR, MAX_MUTEX + i)
      BY <2>2
    <3>2. PICK j \in UsedCvSlot : Sleeps(p, j) /\ n2 = Msg(p, EINTR, MAX_MUTEX + j)
      BY <1>8, <1>10, <3>1
    <3> QED BY <1>10, <3>1, <3>2
  <2> QED BY <1>8, <2>1, <2>2
<1>12. msgs # {} => client[p].at = "receiving"
  <2>1. \A i \in Slot : Queues(p, i) => client[p].at = "receiving"
    BY DEF IInv, EntriesBlocked, Queues
  <2>2. \A i \in UsedCvSlot : Sleeps(p, i) => client[p].at = "receiving"
    BY DEF IInv, EntriesBlocked, Sleeps
  <2> QED BY <1>8, <2>1, <2>2
<1>13. client \in [Proc -> ClientType]
  BY <1>1 DEF TypeOK, ClientType
<1>14. \A n \in msgs : n.do \in Proc /\ n.typ \in Int /\ client[n.do].at = "receiving"
  BY <1>6, <1>7, <1>12 DEF EINTR
<1>15. \A n, n2 \in msgs : n.do = n2.do => n = n2
  BY <1>11
<1>16. /\ server' = Idle
       /\ client' \in [Proc -> ClientType]
       /\ holds' \in [Proc -> SUBSET Mutex]
       /\ \A q \in Proc : (\A n \in msgs : n.do # q) => client'[q] = client[q] /\ holds'[q] = holds[q]
       /\ \A n \in msgs : life[n.do] # "dead" => client'[n.do].at = "running"
       /\ \A n \in msgs : \A m \in holds'[n.do] \ holds[n.do] : n.typ = OK
       /\ \A q \in Proc : client'[q] = client[q] \/
                            (client'[q].at = "running" /\ client'[q].req = NoRequest)
  BY <1>1, <1>5, <1>13, <1>14, <1>15, Sending
<1>17. \A q \in Proc : q # p => client'[q] = client[q]
  BY <1>7, <1>16
<1>18. \A q \in Proc : holds'[q] \subseteq holds[q]
  <2> SUFFICES ASSUME NEW q \in Proc, NEW m \in holds'[q], m \notin holds[q] PROVE FALSE
    OBVIOUS
  <2>1. PICK n \in msgs : n.do = q
    BY <1>16
  <2> QED BY <1>7, <1>16, <2>1 DEF OK, EINTR
<1>19. kolejka \in [Slot -> Seq(Proc)] /\ uzywany \in [Slot -> {0, 1}]
       /\ wlasciciel \in [Slot -> Proc \cup {Zero}]
  BY <1>1 DEF TypeOK
<1>20. \A i, j \in Slot : \A x \in 1 .. Len(kolejka[i]) : \A y \in 1 .. Len(kolejka[j]) :
              kolejka[i][x] = kolejka[j][y] => i = j /\ x = y
  BY DEF IInv, WaitsOnce
<1>q. QueuesLose(kolejka, p, kolejka')
  BY <1>19, <1>20 DEF wyslijEINTR, QueuesLose, p
<1>21. kolejka' \in [Slot -> Seq(Proc)]
       /\ \A i, j \in Slot : \A x \in 1 .. Len(kolejka'[i]) : \A y \in 1 .. Len(kolejka'[j]) :
            kolejka'[i][x] = kolejka'[j][y] => i = j /\ x = y
  BY <1>q, QueuesWithout
<1>22. \A i \in Slot : \A x \in 1 .. Len(kolejka'[i]) :
          kolejka'[i][x] # p /\ \E y \in 1 .. Len(kolejka[i]) : kolejka'[i][x] = kolejka[i][y]
  BY <1>q, QueuesWithout
<1>23. \A i \in Slot : \A y \in 1 .. Len(kolejka[i]) :
          kolejka[i][y] # p => \E x \in 1 .. Len(kolejka'[i]) : kolejka'[i][x] = kolejka[i][y]
  BY <1>q, QueuesWithout
<1>24. \A i \in Slot : kolejka[i] = <<>> => kolejka'[i] = <<>>
  BY <1>q, QueuesWithout
<1>25. \A i \in Slot : uzywany'[i] = 0 => kolejka'[i] = <<>>
  BY <1>4, <1>24 DEF IInv, FreeRowsEmpty
<1>26. \A i \in Slot : \A x \in 1 .. Len(kolejka'[i]) :
          client'[kolejka'[i][x]] = client[kolejka'[i][x]]
  <2> SUFFICES ASSUME NEW i \in Slot, NEW x \in 1 .. Len(kolejka'[i])
               PROVE  client'[kolejka'[i][x]] = client[kolejka'[i][x]]
    OBVIOUS
  <2>1. kolejka'[i][x] \in Proc
    BY <1>1, <1>22, EntryTypes
  <2> QED BY <1>17, <1>22, <2>1
<1>27. \A j \in UsedCvSlot : \A x \in 1 .. Len(cvProcesy[j]) : cvProcesy[j][x].proces # p =>
          client'[cvProcesy[j][x].proces] = client[cvProcesy[j][x].proces]
  BY <1>1, <1>17, EntryTypes DEF UsedCvSlot
<1>28. \A q \in Proc : \A x \in holds'[q] : \E i \in Slot :
          uzywany'[i] = 1 /\ numer[i] = x /\ wlasciciel'[i] = q
  BY <1>4, <1>18 DEF IInv, HoldersAreOwners, UsedSlot
<1>29. \A q \in Proc : life[q] = "alive" /\ client'[q].at = "receiving" => q # p
  <2> SUFFICES ASSUME life[p] = "alive", client'[p].at = "receiving" PROVE FALSE
    BY <1>6
  <2>1. \A n : n \notin msgs
    BY <1>7, <1>16
  <2>2. client[p].at = "receiving"
    BY <1>6, <1>16, <2>1
  <2>3. Accounted(p)
    BY <1>2, <1>6, <2>2 DEF IInv, NoLostProcess
  <2>4. CASE \E i \in UsedSlot : Queues(p, i)
    BY <1>9, <2>1, <2>4 DEF UsedSlot
  <2>5. CASE \E i \in UsedCvSlot : \E k \in 1 .. Len(cvProcesy[i]) :
                cvProcesy[i][k] = [proces |-> p, muteks |-> client[p].req.mutex]
    <3>1. \E i \in UsedCvSlot : Sleeps(p, i)
      BY <2>5 DEF Sleeps
    <3> QED BY <1>9, <2>1, <3>1
  <2> QED BY <1>2, <2>3, <2>4, <2>5 DEF Accounted
<1>30. \A q \in Proc : q # p => \A i \in UsedSlot : Queues(q, i) =>
           uzywany'[i] = 1 /\ \E x \in 1 .. Len(kolejka'[i]) : kolejka'[i][x] = q
  BY <1>4, <1>23 DEF UsedSlot, Queues
<1>31. Removes(p)
  BY <1>2, <1>3, <1>4, <1>16, <1>18, <1>19, <1>21, <1>22, <1>25, <1>26, <1>27, <1>28, <1>29,
     <1>30 DEF Removes
<1> QED BY <1>31, RemovalStep

\* CS_EXIT preserves the invariant: every mutex of p is freed or handed over,
\* one answer to each of the processes they are handed to.
LEMMA ExitedStep ==
    ASSUME IInv, usunZakonczonyProces
    PROVE  IInv'
<1> DEFINE p == Head(async).proces
           J == {i \in Slot : uzywany[i] = 1 /\ wlasciciel[i] = p}
           Q == QueuesAfterUnlock(J)
<1>1. TypeOK
  BY DEF IInv
<1>2. /\ server.at = "receive" /\ async # <<>> /\ async' = Tail(async)
      /\ Head(async).typ = "CS_EXIT"
  BY DEF usunZakonczonyProces, ReceivesAsync
<1>3. UnlockSlots(J) /\ usunZakonczonyProcesCV(p) /\ life' = life
  BY DEF usunZakonczonyProces
<1>4. kolejka' = [i \in Slot |-> usunElement(Q[i], p)]
  BY DEF usunZakonczonyProces
<1>5. wyslijWiadomosc(client, Grants(J), Idle)
  BY DEF usunZakonczonyProces
<1>6. p \in Proc /\ Head(async) = async[1] /\ 1 \in 1 .. Len(async)
  BY <1>1, <1>2, AsyncTail
<1>7. life[p] # "alive"
  BY <1>2, <1>6 DEF IInv, ExitsAreDead
<1>8. holds[p] = {}
  BY <1>6, <1>7 DEF IInv, ExitsAreDead
<1>9. J \in SUBSET UsedSlot /\ \A i \in J : wlasciciel[i] = p
  BY DEF UsedSlot
<1>10. client \in [Proc -> ClientType]
  BY <1>1 DEF TypeOK, ClientType
<1>11. PICK E : E = {}
  OBVIOUS
<1>12. PICK msgs : msgs = Grants(J)
  OBVIOUS
<1>k. PICK k : k = client
  OBVIOUS
<1> HIDE DEF p, J, Q
<1>p. p \in Proc
  BY <1>6
<1>J. J \in SUBSET UsedSlot
  BY <1>9
<1>U. UnlockSlots(J)
  BY <1>3
<1>13. Releases(p, J, k, E, msgs)
  BY <1>k, <1>3, <1>8, <1>9, <1>10, <1>11, <1>12 DEF Releases
<1>14. wyslijWiadomosc(k, msgs, Idle)
  BY <1>k, <1>5, <1>12
<1>s. /\ server' = Idle
      /\ client' \in [Proc -> ClientType]
      /\ holds' \in [Proc -> SUBSET Mutex]
      /\ \A q \in Proc : client'[q] = k[q] \/
                           (client'[q].at = "running" /\ client'[q].req = NoRequest)
      /\ \A q \in Proc : (\A i \in HandedOver(J) : kolejka[i][1] # q) /\ (q = p => E = {}) =>
                           client'[q] = k[q]
      /\ \A i \in HandedOver(J) : life[kolejka[i][1]] # "dead" =>
                                    client'[kolejka[i][1]].at = "running"
      /\ E # {} /\ life[p] # "dead" => client'[p].at = "running"
      /\ \A i \in Slot : \A j \in 1 .. Len(Q[i]) : client'[Q[i][j]] = client[Q[i][j]]
      /\ \A q \in Proc : \A x \in holds'[q] : \E i \in Slot :
           uzywany'[i] = 1 /\ numer[i] = x /\ wlasciciel'[i] = q
      /\ \A q \in Proc : life[q] # "alive" => holds'[q] \subseteq holds[q]
      /\ \A q \in Proc : client'[q].at = "sending" => holds'[q] \subseteq holds[q]
  BY <1>p, <1>J, <1>13, <1>14, UnlockSends DEF Q
<1>15. /\ \A q \in Proc : client'[q] = client[q] \/
                            (client'[q].at = "running" /\ client'[q].req = NoRequest)
       /\ \A q \in Proc : (\A i \in HandedOver(J) : kolejka[i][1] # q) =>
                            client'[q] = client[q]
       /\ \A i \in HandedOver(J) : life[kolejka[i][1]] # "dead" =>
                                     client'[kolejka[i][1]].at = "running"
       /\ \A i \in Slot : \A j \in 1 .. Len(Q[i]) : client'[Q[i][j]] = client[Q[i][j]]
  BY <1>k, <1>s, <1>11
<1>16. /\ uzywany' \in [Slot -> {0, 1}] /\ numer' = numer
       /\ wlasciciel' \in [Slot -> Proc \cup {Zero}] /\ Q \in [Slot -> Seq(Proc)]
       /\ \A i \in Slot : uzywany'[i] = 1 => uzywany[i] = 1
       /\ \A i \in Slot : uzywany'[i] = 0 => Q[i] = <<>>
       /\ \A i \in HandedOver(J) : i \in Slot /\ 1 \in 1 .. Len(kolejka[i])
       /\ \A i \in Slot : \A j \in 1 .. Len(Q[i]) :
            \E l \in 1 .. Len(kolejka[i]) :
               /\ Q[i][j] = kolejka[i][l]
               /\ l = IF i \in HandedOver(J) THEN j + 1 ELSE j
  BY <1>J, <1>U, UnlockTables DEF Q
<1>17. \A i, j \in Slot : \A x \in 1 .. Len(Q[i]) : \A y \in 1 .. Len(Q[j]) :
          Q[i][x] = Q[j][y] => i = j /\ x = y
  BY <1>3, <1>9, QueuesOnce DEF Q
<1>18. QueuesLose(Q, p, kolejka')
  BY <1>4, <1>16, <1>17 DEF QueuesLose
<1>19. kolejka' \in [Slot -> Seq(Proc)]
       /\ \A i, j \in Slot : \A x \in 1 .. Len(kolejka'[i]) : \A y \in 1 .. Len(kolejka'[j]) :
            kolejka'[i][x] = kolejka'[j][y] => i = j /\ x = y
  BY <1>18, QueuesWithout
<1>20. \A i \in Slot : \A x \in 1 .. Len(kolejka'[i]) :
          \E y \in 1 .. Len(Q[i]) : kolejka'[i][x] = Q[i][y]
  BY <1>18, QueuesWithout
<1>21. \A i \in Slot : \A y \in 1 .. Len(Q[i]) :
          Q[i][y] # p => \E x \in 1 .. Len(kolejka'[i]) : kolejka'[i][x] = Q[i][y]
  BY <1>18, QueuesWithout
<1>22. \A i \in Slot : Q[i] = <<>> => kolejka'[i] = <<>>
  BY <1>18, QueuesWithout
<1>23. \A i \in Slot : uzywany'[i] = 0 => kolejka'[i] = <<>>
  BY <1>16, <1>22
<1>24. \A i \in Slot : \A x \in 1 .. Len(kolejka'[i]) :
          /\ client'[kolejka'[i][x]] = client[kolejka'[i][x]]
          /\ \E y \in 1 .. Len(kolejka[i]) : kolejka'[i][x] = kolejka[i][y]
  <2> SUFFICES ASSUME NEW i \in Slot, NEW x \in 1 .. Len(kolejka'[i])
               PROVE  /\ client'[kolejka'[i][x]] = client[kolejka'[i][x]]
                      /\ \E y \in 1 .. Len(kolejka[i]) : kolejka'[i][x] = kolejka[i][y]
    OBVIOUS
  <2>1. PICK y \in 1 .. Len(Q[i]) : kolejka'[i][x] = Q[i][y]
    BY <1>20
  <2> QED BY <1>15, <1>16, <2>1
<1>25. \A j \in UsedCvSlot : \A x \in 1 .. Len(cvProcesy[j]) : cvProcesy[j][x].proces # p =>
          client'[cvProcesy[j][x].proces] = client[cvProcesy[j][x].proces]
  <2> SUFFICES ASSUME NEW j \in UsedCvSlot, NEW x \in 1 .. Len(cvProcesy[j])
               PROVE  client'[cvProcesy[j][x].proces] = client[cvProcesy[j][x].proces]
    OBVIOUS
  <2>1. cvProcesy[j][x].proces \in Proc
    BY <1>1, EntryTypes DEF UsedCvSlot
  <2>2. \A h \in HandedOver(J) : kolejka[h][1] # cvProcesy[j][x].proces
    BY <1>16 DEF IInv, WaitsOnce, Sleeps
  <2> QED BY <1>11, <1>15, <2>1, <2>2
<1>26. \A q \in Proc : life[q] = "alive" /\ client'[q].at = "receiving" =>
          /\ q # p
          /\ \A i \in UsedSlot : Queues(q, i) =>
                uzywany'[i] = 1 /\ \E x \in 1 .. Len(kolejka'[i]) : kolejka'[i][x] = q
  <2> SUFFICES ASSUME NEW q \in Proc, life[q] = "alive", client'[q].at = "receiving"
               PROVE  /\ q # p
                      /\ \A i \in UsedSlot : Queues(q, i) =>
                            uzywany'[i] = 1 /\ \E x \in 1 .. Len(kolejka'[i]) : kolejka'[i][x] = q
    OBVIOUS
  <2>1. q # p
    BY <1>7
  <2>2. \A h \in HandedOver(J) : kolejka[h][1] # q
    BY <1>15
  <2> SUFFICES ASSUME NEW i \in UsedSlot, Queues(q, i)
               PROVE  uzywany'[i] = 1 /\ \E x \in 1 .. Len(kolejka'[i]) : kolejka'[i][x] = q
    BY <2>1
  <2>3. uzywany'[i] = 1 /\ \E j \in 1 .. Len(Q[i]) : Q[i][j] = q
    BY <1>3, <1>9, <2>2, StillQueued DEF Q
  <2> QED BY <1>21, <2>1, <2>3 DEF UsedSlot
<1>27. Removes(p)
  BY <1>s, <1>2, <1>3, <1>15, <1>16, <1>19, <1>23, <1>24, <1>25, <1>26 DEF Removes
<1> QED BY <1>27, RemovalStep

-----------------------------------------------------------------------------
(***************************************************************************)
(* The theorems.                                                           *)
(***************************************************************************)

\* The tables of a freshly started server satisfy the invariant.
LEMMA InitInvariant ==
    ASSUME Init
    PROVE  IInv
<1> USE DEF Init
<1>1. TypeOK
  BY SizesAssumption DEF TypeOK, Idle, ServerPlace, NoRequest, OK
<1>2. UsedSlot = {} /\ UsedCvSlot = {}
  BY DEF UsedSlot, UsedCvSlot
<1>3. DistinctNumbers /\ FreeRowsEmpty
  BY <1>2 DEF DistinctNumbers, FreeRowsEmpty
<1>4. \A i \in Slot : \A k : k \notin 1 .. Len(kolejka[i])
  OBVIOUS
<1>5. WaitsOnce /\ EntriesBlocked
  BY <1>2, <1>4 DEF WaitsOnce, EntriesBlocked
<1>6. HoldersAreOwners /\ ExitsAreDead /\ GaveUp
  BY DEF HoldersAreOwners, ExitsAreDead, GaveUp
<1>7. BroadcastState /\ NeverStuck /\ NoLostProcess
  BY DEF BroadcastState, NeverStuck, NoLostProcess, Idle
<1> QED BY <1>1, <1>3, <1>5, <1>6, <1>7 DEF IInv

\* Every step of the server, of a client and of PM preserves the invariant.
LEMMA NextInvariant ==
    ASSUME IInv, [Next]_vars
    PROVE  IInv'
<1>1. CASE \E p \in Proc : obslugaWiadomosci(p)
  <2> SUFFICES ASSUME NEW p \in Proc, obslugaWiadomosci(p) PROVE IInv'
    BY <1>1
  <2>1. CASE HandleLock(p)
    BY <2>1, HandleLockStep
  <2>2. CASE cs_unlock(p)
    BY <2>2, UnlockStep
  <2>3. CASE cs_wait(p)
    BY <2>3, WaitStep
  <2>4. CASE HandleLockPastTable(p) \/ WaitPastTable(p)
    BY <2>4, LockPastStep, WaitPastStep
  <2>5. CASE UnlockRefused(p) \/ WaitRefused(p) \/ BadType(p) \/ BroadcastNobody(p)
    BY <2>5, AnsweredSteps
  <2>6. CASE cs_broadcast(p)
    BY <2>6, BroadcastStartStep
  <2> QED BY <2>1, <2>2, <2>3, <2>4, <2>5, <2>6 DEF obslugaWiadomosci
<1>2. CASE ServerLoop
  <2>1. CASE BroadcastNext
    BY <2>1, BroadcastNextStep
  <2>2. CASE BroadcastPastTable
    BY <2>2, BroadcastPastStep
  <2>3. CASE BroadcastEnd
    BY <2>3, BroadcastEndStep
  <2>4. CASE wyslijEINTR
    BY <2>4, EintrStep
  <2>5. CASE usunZakonczonyProces
    BY <2>5, ExitedStep
  <2> QED BY <1>2, <2>1, <2>2, <2>3, <2>4, <2>5 DEF ServerLoop
<1>3. CASE \E p \in Proc : \E r \in Request : send_message(p, r)
  BY <1>3, SendStep
<1>4. CASE \E p \in Proc : PmSignal(p) \/ PmExit(p) \/ PmClear(p)
  BY <1>4, SignalStep, ExitStep, ClearStep
<1>5. CASE UNCHANGED vars
  <2>1. /\ server' = server /\ client' = client /\ life' = life /\ holds' = holds
        /\ async' = async
        /\ UNCHANGED <<uzywany, numer, wlasciciel, kolejka, cvUzywany, cvNumer, cvProcesy>>
    BY <1>5 DEF vars
  <2>2. TypeOK' /\ ExitsAreDead'
    BY <2>1 DEF IInv, TypeOK, ExitsAreDead
  <2>3. Around
    BY <2>1, <2>2 DEF Around
  <2> QED BY <2>1, <2>3, EnvironmentKeeps
<1> QED BY <1>1, <1>2, <1>3, <1>4, <1>5 DEF Next

\* In a state of the invariant no mutex has two holders: both would own a row
\* with its number, rows with one number are one row, and a row has one owner.
LEMMA OneHolder ==
    ASSUME IInv
    PROVE  MutualExclusion
<1> SUFFICES ASSUME NEW p \in Proc, NEW q \in Proc, NEW m \in holds[p], m \in holds[q]
             PROVE  p = q
  BY DEF MutualExclusion
<1>1. PICK i \in UsedSlot : numer[i] = m /\ wlasciciel[i] = p
  BY DEF IInv, HoldersAreOwners
<1>2. PICK j \in UsedSlot : numer[j] = m /\ wlasciciel[j] = q
  BY DEF IInv, HoldersAreOwners
<1>3. i = j
  BY <1>1, <1>2 DEF IInv, DistinctNumbers
<1> QED BY <1>1, <1>2, <1>3

\* The inductive invariant holds in every state the server, its clients and PM
\* can reach, whatever the programs, the signals and the exits.
THEOREM InvariantHolds == Spec => []IInv
<1>1. Init => IInv
  BY InitInvariant
<1>2. IInv /\ [Next]_vars => IInv'
  BY NextInvariant
<1> QED BY <1>1, <1>2, PTL DEF Spec

\* Every variable keeps its type: no search, shift or hand-over of the server
\* ever puts into M or CV anything but a process and a number of a request.
THEOREM TypeCorrect == Spec => []TypeOK
<1>1. IInv => TypeOK
  BY DEF IInv
<1> QED BY <1>1, InvariantHolds, PTL

\* No two processes are ever both told that they hold one mutex, for any number
\* of processes, mutexes and condition variables and any table sizes: by cs_lock,
\* the hand-over of cs_unlock, cs_broadcast or the exit of a holder.
THEOREM MutualExclusionHolds == Spec => []MutualExclusion
<1>1. IInv => MutualExclusion
  BY OneHolder
<1> QED BY <1>1, InvariantHolds, PTL

\* A process that holds a mutex is its owner in M, so that its unlock and its
\* wait are accepted and its exit releases the mutex.
THEOREM HoldersOwn == Spec => []HoldersAreOwners
<1>1. IInv => HoldersAreOwners
  BY DEF IInv
<1> QED BY <1>1, InvariantHolds, PTL

\* A process is in at most one place of all the queues of M and the lists of CV:
\* what the comment in usunZakonczonyProces says and its loops rely on.
THEOREM WaitsAtMostOnce == Spec => []WaitsOnce
<1>1. IInv => WaitsOnce
  BY DEF IInv
<1> QED BY <1>1, InvariantHolds, PTL

\* The send of wyslijWiadomosc never blocks the server: whoever it answers is
\* waiting for that answer or has left the kernel.
THEOREM ServerNeverStuck == Spec => []NeverStuck
<1>1. IInv => NeverStuck
  BY DEF IInv
<1> QED BY <1>1, InvariantHolds, PTL

\* A live process blocked in a call stays where a later unlock, broadcast,
\* signal or exit will find it: no waiter is lost.
THEOREM NobodyLost == Spec => []NoLostProcess
<1>1. IInv => NoLostProcess
  BY DEF IInv
<1> QED BY <1>1, InvariantHolds, PTL

=============================================================================
