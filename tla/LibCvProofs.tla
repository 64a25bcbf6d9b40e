---------------------------- MODULE LibCvProofs -----------------------------
(***************************************************************************)
(* Proofs about LibCv: whatever calls programs make and whatever signals   *)
(* and exits come, cs_lock and cs_wait that return 0 return with the mutex *)
(* and nothing fails with EINTR.  The server's part of the argument is     *)
(* IInv of CvServer; LibInv adds the libc functions' part.                 *)
(***************************************************************************)
EXTENDS LibCv, CvServerProofs

-----------------------------------------------------------------------------
(***************************************************************************)
(* What a step of the server does to a process.                            *)
(***************************************************************************)

\* It takes nothing from what q holds, and leaves q where it is, receives its
\* message, or answers it: with EINTR only a lock or a wait, and with an OK
\* that gives a living q the mutex of its lock or wait.
Served(q) ==
    /\ holds[q] \subseteq holds'[q]
    /\ \/ client'[q] = client[q]
       \/ /\ client[q].at # "running" /\ client'[q].at # "running"
          /\ client'[q].req = client[q].req
       \/ /\ client[q].at # "running" /\ client'[q].at = "running"
          /\ client'[q].reply = EINTR => client[q].req.typ \in {"CS_LOCK", "CS_WAIT"}
          /\ client'[q].reply = OK /\ life[q] = "alive"
                /\ client[q].req.typ \in {"CS_LOCK", "CS_WAIT"}
               => client[q].req.mutex \in holds'[q]

AllServed == \A q \in Proc : Served(q)

\* wyslijWiadomosc serves everybody, if its EINTRs are for locks and waits.
LEMMA SendingServes ==
    ASSUME TypeOK, NEW k, NEW msgs, NEW next,
           k \in [Proc -> [at : {"running", "sending", "receiving"},
                           req : Request \cup {NoRequest}, reply : Int]],
           \A q \in Proc : /\ k[q].req = client[q].req
                           /\ k[q] # client[q] => client[q].at # "running" /\ k[q].at # "running",
           \A n \in msgs : n.typ = EINTR => client[n.do].req.typ \in {"CS_LOCK", "CS_WAIT"},
           wyslijWiadomosc(k, msgs, next)
    PROVE  AllServed
<1> SUFFICES ASSUME NEW q \in Proc PROVE Served(q)
  BY DEF AllServed
<1>1. holds'[q] = holds[q] \cup Acquires(k, msgs, q)
  BY DEF wyslijWiadomosc
<1>2. CASE Delivered(k, msgs, q) = {}
  <2>1. client'[q] = k[q]
    BY <1>2 DEF wyslijWiadomosc
  <2> QED BY <1>1, <2>1 DEF Served
<1>3. CASE Delivered(k, msgs, q) # {}
  <2> DEFINE n == CHOOSE x \in Delivered(k, msgs, q) : TRUE
  <2>1. n \in Delivered(k, msgs, q)
    BY <1>3
  <2>2. client'[q].at = "running" /\ client'[q].reply = n.typ
    BY <1>3 DEF wyslijWiadomosc
  <2> HIDE DEF n
  <2>3. n \in msgs /\ n.do = q /\ k[q].at = "receiving"
    BY <2>1 DEF Delivered
  <2>4. client[q].at # "running"
    BY <2>3
  <2>5. client'[q].reply = EINTR => client[q].req.typ \in {"CS_LOCK", "CS_WAIT"}
    BY <2>2, <2>3
  <2>6. ASSUME client'[q].reply = OK, life[q] = "alive",
               client[q].req.typ \in {"CS_LOCK", "CS_WAIT"}
        PROVE  client[q].req.mutex \in holds'[q]
    <3>1. k[q].req.mutex \in Acquires(k, msgs, q)
      BY <2>1, <2>2, <2>6 DEF Acquires
    <3> QED BY <1>1, <3>1
  <2> QED BY <1>1, <2>2, <2>4, <2>5, <2>6 DEF Served
<1> QED BY <1>2, <1>3

\* The same for a handler of p's message: none of them sends an EINTR.
LEMMA HandlerServes ==
    ASSUME TypeOK, NEW p \in Proc, client[p].at = "sending", NEW msgs, NEW next,
           \A n \in msgs : n.typ # EINTR,
           wyslijWiadomosc(Received(p), msgs, next)
    PROVE  AllServed
<1> DEFINE k == Received(p)
<1>1. k \in [Proc -> [at : {"running", "sending", "receiving"},
                      req : Request \cup {NoRequest}, reply : Int]]
  BY DEF TypeOK, Received
<1>2. \A q \in Proc : /\ k[q].req = client[q].req
                      /\ k[q] # client[q] => client[q].at # "running" /\ k[q].at # "running"
  BY DEF TypeOK, Received
<1> HIDE DEF k
<1> QED BY <1>1, <1>2, SendingServes DEF k

\* And for a step of the server on messages it received before.
LEMMA LoopServes ==
    ASSUME TypeOK, NEW msgs, NEW next,
           \A n \in msgs : n.typ = EINTR => client[n.do].req.typ \in {"CS_LOCK", "CS_WAIT"},
           wyslijWiadomosc(client, msgs, next)
    PROVE  AllServed
<1>1. client \in [Proc -> [at : {"running", "sending", "receiving"},
                           req : Request \cup {NoRequest}, reply : Int]]
  BY DEF TypeOK
<1> QED BY <1>1, SendingServes

\* A step that only receives p's message, or changes no client, serves too.
LEMMA QuietServes ==
    ASSUME TypeOK, UNCHANGED holds,
           client' = client \/ \E p \in Proc : client[p].at = "sending" /\ client' = Received(p)
    PROVE  AllServed
<1> SUFFICES ASSUME NEW q \in Proc PROVE Served(q)
  BY DEF AllServed
<1>1. client'[q] = client[q]
        \/ /\ client[q].at # "running" /\ client'[q].at # "running"
           /\ client'[q].req = client[q].req
  <2>1. CASE client' = client
    BY <2>1
  <2>2. ASSUME NEW p \in Proc, client[p].at = "sending",
               client' = [client EXCEPT ![p].at = "receiving"]
        PROVE  client'[q] = client[q]
                 \/ /\ client[q].at # "running" /\ client'[q].at # "running"
                    /\ client'[q].req = client[q].req
    <3>1. CASE q = p
      BY <2>2, <3>1 DEF TypeOK
    <3>2. CASE q # p
      BY <2>2, <3>2 DEF TypeOK
    <3> QED BY <3>1, <3>2
  <2> QED BY <2>1, <2>2 DEF Received
<1>2. holds'[q] = holds[q]
  OBVIOUS
<1> QED BY <1>1, <1>2 DEF Served

\* Who gets an EINTR is in a queue or a list.
LEMMA EintrServes ==
    ASSUME IInv, wyslijEINTR
    PROVE  AllServed
<1>0. TypeOK /\ EntriesBlocked
  BY DEF IInv
<1> DEFINE p == Head(async).proces
           msgs == {Msg(p, EINTR, i) : i \in QueuesWith(p)}
                     \cup {Msg(p, EINTR, MAX_MUTEX + i) : i \in CvsWith(p)}
<1>1. wyslijWiadomosc(client, msgs, Idle)
  BY DEF wyslijEINTR
<1>2. \A n \in msgs : n.do = p /\ (QueuesWith(p) # {} \/ CvsWith(p) # {})
  BY DEF Msg
<1>3. QueuesWith(p) # {} => client[p].req.typ \in {"CS_LOCK", "CS_WAIT"}
  <2> SUFFICES ASSUME NEW i \in Slot, PositionInQueue(kolejka[i], p) # -1
               PROVE  client[p].req.typ \in {"CS_LOCK", "CS_WAIT"}
    BY DEF QueuesWith
  <2> DEFINE S == {k \in 1 .. Len(kolejka[i]) : kolejka[i][k] = p}
  <2>1. kolejka[i] \in Seq(Proc)
    BY <1>0 DEF TypeOK
  <2>2. S \in SUBSET Nat /\ First(S) # -1
    BY <2>1 DEF PositionInQueue
  <2>3. PICK k \in 1 .. Len(kolejka[i]) : kolejka[i][k] = p
    BY <2>2, FirstProperties
  <2> QED BY <1>0, <2>3 DEF EntriesBlocked
<1>4. CvsWith(p) # {} => client[p].req.typ = "CS_WAIT"
  <2> SUFFICES ASSUME NEW i \in CvSlot, cvUzywany[i] = 1, PositionInCv(cvProcesy[i], p) # -1
               PROVE  client[p].req.typ = "CS_WAIT"
    BY DEF CvsWith
  <2> DEFINE S == {k \in 1 .. Len(cvProcesy[i]) : cvProcesy[i][k].proces = p}
  <2>1. cvProcesy[i] \in Seq(Waiter)
    BY <1>0 DEF TypeOK
  <2>2. S \in SUBSET Nat /\ First(S) # -1
    BY <2>1 DEF PositionInCv
  <2>3. PICK k \in 1 .. Len(cvProcesy[i]) : cvProcesy[i][k].proces = p
    BY <2>2, FirstProperties
  <2> QED BY <1>0, <2>3 DEF EntriesBlocked, UsedCvSlot
<1>5. \A n \in msgs : client[n.do].req.typ \in {"CS_LOCK", "CS_WAIT"}
  BY <1>2, <1>3, <1>4
<1> HIDE DEF msgs
<1> QED BY <1>0, <1>1, <1>5, LoopServes

\* Every step of the server serves every process and leaves life alone.
LEMMA ServerServes ==
    ASSUME IInv, (\E p \in Proc : obslugaWiadomosci(p)) \/ ServerLoop
    PROVE  AllServed /\ UNCHANGED life
<1>0. TypeOK
  BY DEF IInv
<1>a. \A J : \A n \in Grants(J) : n.typ # EINTR
  BY DEF Grants, Msg, OK, EINTR
<1>b. \A q, r : r # EINTR => \A n \in Answer(q, r) : n.typ # EINTR
  BY DEF Answer, Msg
<1>1. ASSUME NEW p \in Proc, obslugaWiadomosci(p)
      PROVE  AllServed /\ UNCHANGED life
  <2>1. CASE HandleLock(p)
    <3>1. LockResult(p, client[p].req.mutex) # EINTR
      BY DEF LockResult, OK, EPERM, EDONTREPLY, EINTR
    <3> QED BY <1>0, <1>b, <2>1, <3>1, HandlerServes DEF HandleLock, Receives
  <2>2. CASE HandleLockPastTable(p)
    BY <1>0, <2>2, QuietServes DEF HandleLockPastTable, Receives
  <2>3. CASE cs_unlock(p)
    <3> DEFINE J == {indeksUzywanegoMutexa(client[p].req.mutex)}
    <3>1. \A n \in Grants(J) \cup Answer(p, OK) : n.typ # EINTR
      BY <1>a, <1>b DEF OK, EINTR
    <3> QED BY <1>0, <2>3, <3>1, HandlerServes DEF cs_unlock, Receives
  <2>4. CASE UnlockRefused(p)
    <3>1. \A n \in Answer(p, EPERM) : n.typ # EINTR
      BY <1>b DEF EPERM, EINTR
    <3> QED BY <1>0, <2>4, <3>1, HandlerServes DEF UnlockRefused, Receives
  <2>5. CASE cs_wait(p)
    BY <1>0, <1>a, <2>5, HandlerServes DEF cs_wait, Receives
  <2>6. CASE WaitPastTable(p)
    BY <1>0, <1>a, <2>6, HandlerServes DEF WaitPastTable, Receives
  <2>7. CASE WaitRefused(p)
    <3>1. \A n \in Answer(p, -EINVAL) : n.typ # EINTR
      BY <1>b DEF EINVAL, EINTR
    <3> QED BY <1>0, <2>7, <3>1, HandlerServes DEF WaitRefused, Receives
  <2>8. CASE BroadcastNobody(p)
    <3>1. \A n \in Answer(p, OK) : n.typ # EINTR
      BY <1>b DEF OK, EINTR
    <3> QED BY <1>0, <2>8, <3>1, HandlerServes DEF BroadcastNobody, Receives
  <2>9. CASE cs_broadcast(p)
    BY <1>0, <2>9, QuietServes DEF cs_broadcast, Receives
  <2>10. CASE BadType(p)
    <3>1. \A n \in Answer(p, EINVAL) : n.typ # EINTR
      BY <1>b DEF EINVAL, EINTR
    <3> QED BY <1>0, <2>10, <3>1, HandlerServes DEF BadType, Receives
  <2> QED BY <1>1, <2>1, <2>2, <2>3, <2>4, <2>5, <2>6, <2>7, <2>8, <2>9, <2>10
          DEF obslugaWiadomosci
<1>2. ASSUME ServerLoop PROVE AllServed /\ UNCHANGED life
  <2>1. CASE BroadcastNext
    <3> DEFINE w == Head(cvProcesy[server.i])
               msgs == IF LockResult(w.proces, w.muteks) = EDONTREPLY THEN {}
                       ELSE {Msg(w.proces, OK, MAX_MUTEX + server.i)}
    <3>1. \A n \in msgs : n.typ # EINTR
      BY DEF Msg, OK, EINTR
    <3>2. wyslijWiadomosc(client, msgs, server) /\ UNCHANGED life
      BY <2>1 DEF BroadcastNext
    <3> HIDE DEF msgs
    <3> QED BY <1>0, <3>1, <3>2, LoopServes
  <2>2. CASE BroadcastPastTable
    BY <1>0, <2>2, QuietServes DEF BroadcastPastTable
  <2>3. CASE BroadcastEnd
    <3>1. \A n \in Answer(server.original, OK) : n.typ # EINTR
      BY <1>b DEF OK, EINTR
    <3> QED BY <1>0, <2>3, <3>1, LoopServes DEF BroadcastEnd
  <2>4. CASE wyslijEINTR
    BY <2>4, EintrServes DEF wyslijEINTR
  <2>5. CASE usunZakonczonyProces
    BY <1>0, <1>a, <2>5, LoopServes DEF usunZakonczonyProces
  <2> QED BY <1>2, <2>1, <2>2, <2>3, <2>4, <2>5 DEF ServerLoop
<1> QED BY <1>1, <1>2
-----------------------------------------------------------------------------
(***************************************************************************)
(* The libc functions.                                                     *)
(***************************************************************************)

\* Requests tell their functions apart.
RequestTypes(p) ==
    /\ client[p].at # "running" => call[p] # NoCall
    /\ client[p].at # "running" /\ client[p].req.typ \in {"CS_LOCK", "CS_WAIT"} =>
         call[p].fn \in {"cs_lock", "cs_wait"}
    /\ client[p].at # "running" /\ call[p].fn \in {"cs_lock", "cs_wait"} =>
         /\ client[p].req.typ \in {"CS_LOCK", "CS_WAIT"}
         /\ client[p].req.mutex = call[p].mutex

LEMMA FunctionOfRequest ==
    ASSUME CallsTyped, MessageOfCall, NEW p \in Proc
    PROVE  RequestTypes(p)
<1> SUFFICES ASSUME client[p].at # "running" PROVE RequestTypes(p)
  BY DEF RequestTypes
<1>0. call[p].fn \in Function
  BY DEF CallsTyped
<1>1. CASE call[p].fn = "cs_lock"
  <2>1. client[p].req = LockRequest(call[p].mutex)
    BY <1>1 DEF MessageOfCall
  <2> QED BY <1>1, <2>1 DEF RequestTypes, LockRequest, NoCall
<1>2. CASE call[p].fn = "cs_unlock"
  <2>1. client[p].req = UnlockRequest(call[p].mutex)
    BY <1>2 DEF MessageOfCall
  <2> QED BY <1>2, <2>1 DEF RequestTypes, UnlockRequest, NoCall
<1>3. CASE call[p].fn = "cs_wait"
  <2>1. client[p].req \in {WaitRequest(call[p].cv, call[p].mutex), LockRequest(call[p].mutex)}
    BY <1>3 DEF MessageOfCall
  <2> QED BY <1>3, <2>1 DEF RequestTypes, WaitRequest, LockRequest, NoCall
<1>4. CASE call[p].fn = "cs_broadcast"
  <2>1. client[p].req = BroadcastRequest(call[p].cv)
    BY <1>4 DEF MessageOfCall
  <2> QED BY <1>4, <2>1 DEF RequestTypes, BroadcastRequest, NoCall
<1>5. CASE call[p].fn = "none"
  BY <1>5 DEF MessageOfCall
<1> QED BY <1>0, <1>1, <1>2, <1>3, <1>4, <1>5 DEF Function

\* The server's steps keep LibInv: an answer is one its function expects.
LEMMA ServedKeeps ==
    ASSUME LibInv, AllServed, UNCHANGED life, UNCHANGED libVars
    PROVE  LibInv'
<1>0. CallsTyped /\ MessageOfCall /\ ReplyOfCall /\ ReturnedHolding /\ NothingYet /\ NeverEINTR
  BY DEF LibInv
<1>1. call' = call /\ ret' = ret /\ life' = life
  BY DEF libVars
<1>2. CallsTyped' /\ NothingYet' /\ NeverEINTR'
  BY <1>0, <1>1 DEF CallsTyped, NothingYet, NeverEINTR
<1>3. MessageOfCall'
  <2> SUFFICES ASSUME NEW p \in Proc, client'[p].at # "running"
               PROVE  client[p].at # "running" /\ client'[p].req = client[p].req
    BY <1>0, <1>1 DEF MessageOfCall
  <2>1. Served(p)
    BY DEF AllServed
  <2> QED BY <2>1 DEF Served
<1>4. ReplyOfCall'
  <2> SUFFICES ASSUME NEW p \in Proc, call[p] # NoCall, client'[p].at = "running",
                      life[p] = "alive"
               PROVE  /\ client'[p].reply = EINTR => call[p].fn \in {"cs_lock", "cs_wait"}
                      /\ client'[p].reply = OK /\ call[p].fn \in {"cs_lock", "cs_wait"} =>
                           call[p].mutex \in holds'[p]
    BY <1>1 DEF ReplyOfCall, Replied
  <2>1. Served(p) /\ RequestTypes(p)
    BY <1>0, FunctionOfRequest DEF AllServed
  <2>2. CASE client'[p] = client[p]
    BY <1>0, <2>1, <2>2 DEF ReplyOfCall, Replied, Served
  <2>3. CASE client'[p] # client[p]
    BY <2>1, <2>3 DEF Served, RequestTypes
  <2> QED BY <2>2, <2>3
<1>5. ReturnedHolding'
  <2>1. \A p \in Proc : holds[p] \subseteq holds'[p]
    BY DEF AllServed, Served
  <2> QED BY <1>0, <1>1, <2>1 DEF ReturnedHolding
<1> QED BY <1>2, <1>3, <1>4, <1>5 DEF LibInv

\* A function that sends its first message starts over.
LEMMA EnterKeeps ==
    ASSUME LibInv, TypeOK, NEW p \in Proc, NEW fn \in Function \ {"none"},
           NEW m \in Mutex \cup {Zero}, NEW c \in CondVar \cup {Zero}, NEW r,
           fn \in {"cs_lock", "cs_wait"} => m \in Mutex,
           r \in CASE fn = "cs_lock"      -> {LockRequest(m)}
                   [] fn = "cs_unlock"    -> {UnlockRequest(m)}
                   [] fn = "cs_wait"      -> {WaitRequest(c, m), LockRequest(m)}
                   [] fn = "cs_broadcast" -> {BroadcastRequest(c)}
                   [] OTHER -> {},
           Enter(p, fn, m, c, r)
    PROVE  LibInv'
<1>0. CallsTyped /\ MessageOfCall /\ ReplyOfCall /\ ReturnedHolding /\ NothingYet /\ NeverEINTR
  BY DEF LibInv
<1>1. /\ call' = [call EXCEPT ![p] = [fn |-> fn, mutex |-> m, cv |-> c]]
      /\ ret' = [ret EXCEPT ![p] = [NoRet EXCEPT !.errno = ret[p].errno]]
      /\ client' = [client EXCEPT ![p] = [at |-> "sending", req |-> r, reply |-> OK]]
      /\ life' = life
  BY DEF Enter, send_message
<1>2. \A q \in Proc : q # p => /\ call'[q] = call[q] /\ ret'[q] = ret[q]
                               /\ client'[q] = client[q] /\ holds'[q] = holds[q]
  BY <1>0, <1>1 DEF CallsTyped, TypeOK, Enter, send_message
<1>3. /\ call'[p] = [fn |-> fn, mutex |-> m, cv |-> c]
      /\ ret'[p] = [fn |-> "none", value |-> 0, errno |-> ret[p].errno, mutex |-> Zero]
      /\ client'[p] = [at |-> "sending", req |-> r, reply |-> OK]
  BY <1>0, <1>1 DEF CallsTyped, TypeOK, NoRet
<1>4. CallsTyped'
  <2>1. \A q \in Proc : call'[q].fn \in {"cs_lock", "cs_wait"} => call'[q].mutex \in Mutex
    BY <1>0, <1>2, <1>3 DEF CallsTyped
  <2> QED BY <1>0, <1>1, <2>1 DEF CallsTyped, NoRet, Function
<1>5. NothingYet' /\ NeverEINTR'
  BY <1>0, <1>2, <1>3 DEF NothingYet, NeverEINTR
<1>6. MessageOfCall'
  <2>1. \A q \in Proc : q # p => (client'[q] = client[q] /\ call'[q] = call[q])
    BY <1>2
  <2>2. /\ client'[p].req = r /\ call'[p].fn = fn /\ call'[p].mutex = m /\ call'[p].cv = c
    BY <1>3
  <2> QED BY <1>0, <2>1, <2>2 DEF MessageOfCall
<1>7. ReplyOfCall'
  BY <1>0, <1>1, <1>2, <1>3 DEF ReplyOfCall, Replied
<1>8. ReturnedHolding'
  BY <1>0, <1>1, <1>2, <1>3 DEF ReturnedHolding, NoCall
<1> QED BY <1>4, <1>5, <1>6, <1>7, <1>8 DEF LibInv

\* Going back for the mutex: the function stays the same, nothing is given up.
LEMMA RelockKeeps ==
    ASSUME LibInv, TypeOK, NEW p \in Proc, Relock(p)
    PROVE  LibInv'
<1>0. CallsTyped /\ MessageOfCall /\ ReplyOfCall /\ ReturnedHolding /\ NothingYet /\ NeverEINTR
  BY DEF LibInv
<1>1. /\ call' = call /\ life' = life
      /\ ret' = [ret EXCEPT ![p].errno = Errno(p, client[p].reply)]
      /\ call[p] # NoCall /\ call[p].fn \in {"cs_lock", "cs_wait"}
      /\ client' = [client EXCEPT ![p] = [at |-> "sending", req |-> LockRequest(call[p].mutex),
                                          reply |-> OK]]
  BY DEF Relock, send_message, Replied, MustRelock
<1>2. holds' = holds
  BY DEF Relock, send_message, LockRequest, TypeOK
<1>3. /\ \A q \in Proc : q # p => client'[q] = client[q]
      /\ client'[p].at = "sending" /\ client'[p].req = LockRequest(call[p].mutex)
  BY <1>1 DEF TypeOK
<1>r. Errno(p, client[p].reply) \in Int
  BY <1>0 DEF Errno, CallsTyped, TypeOK
<1>s. /\ \A q \in Proc : ret'[q].fn = ret[q].fn /\ ret'[q].value = ret[q].value
                           /\ ret'[q].mutex = ret[q].mutex
      /\ \A q \in Proc : q # p => ret'[q] = ret[q]
  BY <1>0, <1>1 DEF CallsTyped
<1>4. CallsTyped' /\ NothingYet' /\ NeverEINTR' /\ ReturnedHolding'
  <2>1. CallsTyped'
    BY <1>0, <1>1, <1>r DEF CallsTyped
  <2>2. NothingYet' /\ NeverEINTR'
    BY <1>0, <1>1, <1>s DEF NothingYet, NeverEINTR
  <2>3. ReturnedHolding'
    BY <1>0, <1>1, <1>2, <1>s DEF ReturnedHolding
  <2> QED BY <2>1, <2>2, <2>3
<1>5. MessageOfCall'
  BY <1>0, <1>1, <1>3 DEF MessageOfCall
<1>6. ReplyOfCall'
  BY <1>0, <1>1, <1>2, <1>3 DEF ReplyOfCall, Replied
<1> QED BY <1>4, <1>5, <1>6 DEF LibInv

\* Returning: EINTR is not among what is returned, and 0 means the mutex.
LEMMA ReturnKeeps ==
    ASSUME LibInv, TypeOK, NEW p \in Proc, Return(p)
    PROVE  LibInv'
<1>0. CallsTyped /\ MessageOfCall /\ ReplyOfCall /\ ReturnedHolding /\ NothingYet /\ NeverEINTR
  BY DEF LibInv
<1> DEFINE r == client[p].reply
           record == [fn |-> call[p].fn, value |-> Value(r), errno |-> Errno(p, r),
                      mutex |-> call[p].mutex]
<1>1. /\ client' = client /\ life' = life /\ holds' = holds
      /\ call' = [call EXCEPT ![p] = NoCall] /\ ret' = [ret EXCEPT ![p] = record]
      /\ call[p] # NoCall /\ client[p].at = "running" /\ life[p] = "alive" /\ ~MustRelock(p)
  BY DEF Return, Replied, vars
<1>2. r \in Int
  BY DEF TypeOK
<1>3. Value(r) \in Int /\ Errno(p, r) \in Int
  BY <1>0, <1>2 DEF Value, Errno, CallsTyped
<1>4. /\ Value(r) = -1 /\ Errno(p, r) = -EINTR => r = EINTR
      /\ Value(r) = 0 => r = OK
  BY <1>2 DEF Value, Errno, EINTR, OK
<1>5. r # EINTR
  <2> SUFFICES ASSUME r = EINTR PROVE FALSE
    OBVIOUS
  <2>1. call[p].fn \in {"cs_lock", "cs_wait"}
    BY <1>0, <1>1 DEF ReplyOfCall, Replied
  <2>2. Interrupted(p)
    BY DEF Interrupted, Value, Errno, EINTR
  <2> QED BY <1>1, <2>1, <2>2 DEF MustRelock
<1>6. /\ \A q \in Proc : q # p => call'[q] = call[q] /\ ret'[q] = ret[q]
      /\ call'[p] = NoCall /\ ret'[p] = record
  BY <1>0, <1>1 DEF CallsTyped
<1>7. call[p].fn \in Function /\ call[p].mutex \in Mutex \cup {Zero}
  BY <1>0 DEF CallsTyped
<1>8. CallsTyped'
  <2>1. record \in [fn : Function, value : Int, errno : Int, mutex : Mutex \cup {Zero}]
    BY <1>3, <1>7
  <2>2. NoCall \in [fn : Function, mutex : Mutex \cup {Zero}, cv : CondVar \cup {Zero}]
    BY DEF NoCall, Function
  <2> HIDE DEF record
  <2>3. \A q \in Proc : call'[q].fn \in {"cs_lock", "cs_wait"} => call'[q].mutex \in Mutex
    BY <1>0, <1>6 DEF CallsTyped, NoCall
  <2> QED BY <1>0, <1>1, <2>1, <2>2, <2>3 DEF CallsTyped
<1>9. NothingYet' /\ NeverEINTR'
  BY <1>0, <1>4, <1>5, <1>6 DEF NothingYet, NeverEINTR
<1>10. MessageOfCall'
  BY <1>0, <1>1, <1>6 DEF MessageOfCall
<1>11. ReplyOfCall'
  BY <1>0, <1>1, <1>6 DEF ReplyOfCall, Replied
<1>12. ReturnedHolding'
  <2>1. call[p].fn \in {"cs_lock", "cs_wait"} /\ Value(r) = 0 => call[p].mutex \in holds[p]
    BY <1>0, <1>1, <1>4 DEF ReplyOfCall, Replied
  <2> QED BY <1>0, <1>1, <1>6, <2>1 DEF ReturnedHolding
<1> QED BY <1>8, <1>9, <1>10, <1>11, <1>12 DEF LibInv

\* PM takes what a process holds only when it exits.
LEMMA PmKeeps ==
    ASSUME LibInv, TypeOK, NEW p \in Proc, Signal(p) \/ Exit(p) \/ Clear(p)
    PROVE  LibInv'
<1>0. CallsTyped /\ MessageOfCall /\ ReplyOfCall /\ ReturnedHolding /\ NothingYet /\ NeverEINTR
  BY DEF LibInv
<1>1. call' = call /\ ret' = ret
  BY DEF Signal, Exit, Clear, libVars
<1>2. \A q \in Proc :
        /\ life'[q] = "alive" =>
             life[q] = "alive" /\ holds'[q] = holds[q] /\ client'[q] = client[q]
        /\ client'[q].reply = client[q].reply
        /\ client'[q].at # "running" =>
             client[q].at # "running" /\ client'[q].req = client[q].req
  <2>1. CASE Signal(p)
    BY <2>1 DEF Signal, PmSignal
  <2>2. CASE Exit(p)
    BY <2>2 DEF Exit, PmExit, TypeOK
  <2>3. CASE Clear(p)
    BY <2>3 DEF Clear, PmClear, TypeOK
  <2> QED BY <2>1, <2>2, <2>3
<1>3. CallsTyped' /\ NothingYet' /\ NeverEINTR' /\ ReturnedHolding'
  BY <1>0, <1>1, <1>2 DEF CallsTyped, NothingYet, NeverEINTR, ReturnedHolding
<1>4. MessageOfCall'
  BY <1>0, <1>1, <1>2 DEF MessageOfCall
<1>5. ReplyOfCall'
  BY <1>0, <1>1, <1>2 DEF ReplyOfCall, Replied
<1> QED BY <1>3, <1>4, <1>5 DEF LibInv
-----------------------------------------------------------------------------
(***************************************************************************)
(* Theorems.                                                               *)
(***************************************************************************)

\* A step of LibCv is a step of CvServer, or leaves the server's world alone.
LEMMA LibStepIsStep ==
    ASSUME LibInv, [LibNext]_allVars
    PROVE  [Next]_vars
<1>1. ASSUME NEW p \in Proc, NEW r \in Request, send_message(p, r) PROVE Next
  BY <1>1 DEF Next
<1>2. ASSUME NEW p \in Proc, PmSignal(p) \/ PmExit(p) \/ PmClear(p) PROVE Next
  BY <1>2 DEF Next
<1>3. ASSUME NEW p \in Proc, ServerStep(p) PROVE Next
  BY <1>3 DEF ServerStep, Next
<1>4. CASE ServerLoopStep
  BY <1>4 DEF ServerLoopStep, Next
<1>5. ASSUME NEW p \in Proc, Relock(p) PROVE Next
  <2>1. LockRequest(call[p].mutex) \in Request
    BY <1>5 DEF Request, Relock, MustRelock, LibInv, CallsTyped
  <2> QED BY <1>1, <1>5, <2>1 DEF Relock
<1>6. ASSUME NEW p \in Proc, Return(p) PROVE UNCHANGED vars
  BY <1>6 DEF Return
<1>7. ASSUME NEW p \in Proc, Signal(p) \/ Exit(p) \/ Clear(p) PROVE Next
  BY <1>2, <1>7 DEF Signal, Exit, Clear
<1>8. ASSUME NEW p \in Proc, AnyCall(p) PROVE Next
  <2>1. \A m \in Mutex : LockRequest(m) \in Request /\ UnlockRequest(m) \in Request
    BY DEF Request
  <2>2. \A c \in CondVar : /\ BroadcastRequest(c) \in Request
                           /\ \A m \in Mutex : WaitRequest(c, m) \in Request
    BY DEF Request
  <2>3. \E r \in Request : send_message(p, r)
    BY <1>8, <2>1, <2>2 DEF AnyCall, CallLock, CallUnlock, CallWait, CallBroadcast, Enter
  <2> QED BY <1>1, <2>3
<1>9. CASE UNCHANGED allVars
  BY <1>9 DEF allVars
<1> QED BY <1>3, <1>4, <1>5, <1>6, <1>7, <1>8, <1>9 DEF LibNext, System

\* Initially nobody is in a function.
LEMMA LibInitInvariant == LibInit => IInv /\ LibInv
<1> SUFFICES ASSUME LibInit PROVE IInv /\ LibInv
  OBVIOUS
<1>1. IInv
  BY InitInvariant DEF LibInit
<1>2. CallsTyped
  BY DEF LibInit, CallsTyped, NoCall, NoRet, Function
<1>3. MessageOfCall /\ ReplyOfCall /\ ReturnedHolding /\ NothingYet /\ NeverEINTR
  BY DEF LibInit, Init, MessageOfCall, ReplyOfCall, Replied, ReturnedHolding, NothingYet,
         NeverEINTR, NoRet
<1> QED BY <1>1, <1>2, <1>3 DEF LibInv

\* Every step keeps the server's invariant and that of the functions.
LEMMA LibNextInvariant == IInv /\ LibInv /\ [LibNext]_allVars => IInv' /\ LibInv'
<1> SUFFICES ASSUME IInv, LibInv, [LibNext]_allVars PROVE IInv' /\ LibInv'
  OBVIOUS
<1>0. TypeOK
  BY DEF IInv
<1>1. IInv'
  BY LibStepIsStep, NextInvariant
<1>2. ASSUME NEW p \in Proc, ServerStep(p) PROVE LibInv'
  BY <1>2, ServerServes, ServedKeeps DEF ServerStep
<1>3. ASSUME ServerLoopStep PROVE LibInv'
  BY <1>3, ServerServes, ServedKeeps DEF ServerLoopStep
<1>4. ASSUME NEW p \in Proc, AnyCall(p) PROVE LibInv'
  <2>1. ASSUME NEW m \in Mutex, CallLock(p, m) PROVE LibInv'
    BY <1>0, <2>1, EnterKeeps DEF CallLock, Function
  <2>2. ASSUME NEW m \in Mutex, CallUnlock(p, m) PROVE LibInv'
    BY <1>0, <2>2, EnterKeeps DEF CallUnlock, Function
  <2>3. ASSUME NEW c \in CondVar, NEW m \in Mutex, CallWait(p, c, m) PROVE LibInv'
    BY <1>0, <2>3, EnterKeeps DEF CallWait, Function
  <2>4. ASSUME NEW c \in CondVar, CallBroadcast(p, c) PROVE LibInv'
    BY <1>0, <2>4, EnterKeeps DEF CallBroadcast, Function
  <2> QED BY <1>4, <2>1, <2>2, <2>3, <2>4 DEF AnyCall
<1>5. ASSUME UNCHANGED allVars PROVE LibInv'
  <2>1. UNCHANGED <<client, life, holds, call, ret>>
    BY <1>5 DEF allVars, vars, libVars
  <2> QED BY <2>1 DEF LibInv, CallsTyped, MessageOfCall, ReplyOfCall, Replied,
                      ReturnedHolding, NothingYet, NeverEINTR
<1>6. ASSUME NEW p \in Proc, Relock(p) PROVE LibInv'
  BY <1>0, <1>6, RelockKeeps
<1>7. ASSUME NEW p \in Proc, Return(p) PROVE LibInv'
  BY <1>0, <1>7, ReturnKeeps
<1>8. ASSUME NEW p \in Proc, Signal(p) \/ Exit(p) \/ Clear(p) PROVE LibInv'
  BY <1>0, <1>8, PmKeeps
<1> QED
  BY <1>1, <1>2, <1>3, <1>4, <1>5, <1>6, <1>7, <1>8 DEF LibNext, System

\* Calls, messages, replies and return values stay consistent with each other
\* and with the server, in every program and through all signals and exits.
THEOREM LibInvariantHolds == LibSpec => [](IInv /\ LibInv)
<1> QED BY LibInitInvariant, LibNextInvariant, PTL DEF LibSpec

\* Under the libc functions the server is still the server: every behaviour of
\* LibCv is one of CvServer, so what is proved there holds for every program.
THEOREM LibUsesServer == LibSpec => Spec
<1>1. LibInit => Init
  BY DEF LibInit
<1>2. LibInv /\ [LibNext]_allVars => [Next]_vars
  BY LibStepIsStep
<1> QED BY <1>1, <1>2, LibInvariantHolds, PTL DEF LibSpec, Spec

\* No function ever fails with EINTR: not after a signal, nor after a signal
\* that came while it was going back for the mutex.
THEOREM NothingReturnsEINTR == LibSpec => []NeverEINTR
<1>1. LibInv => NeverEINTR
  BY DEF LibInv
<1> QED BY <1>1, LibInvariantHolds, PTL

\* A process to which cs_lock or cs_wait has returned 0 is recorded as the
\* owner of the mutex until its next call.
THEOREM ReturnMeansOwner == LibSpec => []ReturnsHolding
<1>1. IInv /\ LibInv => ReturnsHolding
  BY DEF IInv, LibInv, ReturnedHolding, HoldersAreOwners, ReturnsHolding
<1> QED BY <1>1, LibInvariantHolds, PTL

\* The programs of the liveness run, which use the functions as they are meant
\* to be used, are programs: what is proved of LibSpec holds for them.
THEOREM MonitorIsProgram == MonitorSpec => LibSpec
<1>1. IInv /\ LibInv /\ [MonitorNext]_allVars => [LibNext]_allVars
  <2> SUFFICES ASSUME IInv, MonitorNext PROVE LibNext
    BY DEF LibNext
  <2>1. \A p \in Proc : holds[p] \subseteq Mutex
    BY DEF IInv, TypeOK
  <2> QED BY <2>1 DEF MonitorNext, MonitorCall, MonitorUnlock, LibNext, AnyCall
<1> QED BY <1>1, LibInitInvariant, LibNextInvariant, PTL DEF MonitorSpec, LibSpec

=============================================================================
