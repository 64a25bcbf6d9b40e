------------------------------- MODULE LibCv --------------------------------
(***************************************************************************)
(* The system as a program sees it: the libc functions of                  *)
(* projekt/lib/libc/sys-minix/cv.c on top of the server of CvServer.       *)
(* A process is in at most one libc function; the function makes one or    *)
(* more calls to the server and turns the replies into a return value and  *)
(* errno.                                                                  *)
(***************************************************************************)
EXTENDS CvServer

CONSTANTS MAX_SIGNALS,  \* bound: signals PM delivers in a behaviour
          MAX_EXITS,    \* bound: processes that exit in a behaviour
          MAX_EVENTS    \* bound: both together

ASSUME BudgetAssumption == MAX_SIGNALS \in Nat /\ MAX_EXITS \in Nat /\ MAX_EVENTS \in Nat

VARIABLES call,     \* the libc function each process is in, with its arguments
          ret,      \* what the last function of each process returned, and its errno
          budget,   \* signals and exits still to come
          late      \* processes that died with a request on its way

libVars == <<call, ret, budget, late>>
allVars == <<vars, libVars>>

NoCall == [fn |-> "none", mutex |-> Zero, cv |-> Zero]
NoRet  == [fn |-> "none", value |-> 0, errno |-> 0, mutex |-> Zero]

LibInit ==
    /\ Init
    /\ call = [p \in Proc |-> NoCall]
    /\ ret = [p \in Proc |-> NoRet]
    /\ budget = [signals |-> MAX_SIGNALS, exits |-> MAX_EXITS]
    /\ late = {}

(***************************************************************************)
(* _syscall: a negative m_type becomes -1 with errno, anything else is the *)
(* value returned and leaves errno as it was.                              *)
(***************************************************************************)
Value(reply)    == IF reply < 0 THEN -1 ELSE reply
Errno(p, reply) == IF reply < 0 THEN -reply ELSE ret[p].errno

Interrupted(p) == Value(client[p].reply) = -1 /\ Errno(p, client[p].reply) = -EINTR

\* Program code of p calls a libc function, which sends its first message.
Enter(p, fn, m, c, request) ==
    /\ call[p] = NoCall
    /\ send_message(p, request)
    /\ call' = [call EXCEPT ![p] = [fn |-> fn, mutex |-> m, cv |-> c]]
    /\ ret' = [ret EXCEPT ![p] = [NoRet EXCEPT !.errno = ret[p].errno]]
    /\ UNCHANGED <<budget, late>>

CallLock(p, m)      == Enter(p, "cs_lock", m, Zero, LockRequest(m))
CallUnlock(p, m)    == Enter(p, "cs_unlock", m, Zero, UnlockRequest(m))
CallWait(p, c, m)   == Enter(p, "cs_wait", m, c, WaitRequest(c, m))
CallBroadcast(p, c) == Enter(p, "cs_broadcast", Zero, c, BroadcastRequest(c))

\* The reply is there and p runs.
Replied(p) == call[p] # NoCall /\ client[p].at = "running" /\ life[p] = "alive"

\* Mutant: an interrupted cs_wait is reported to the program.
MustRelockNever(p) == Interrupted(p) /\ call[p].fn = "cs_lock"
\* The loop of cs_lock, and cs_wait after a signal: lock the mutex (again).
MustRelock(p) == Interrupted(p) /\ call[p].fn \in {"cs_lock", "cs_wait"}

Relock(p) ==
    /\ Replied(p)
    /\ MustRelock(p)
    /\ send_message(p, LockRequest(call[p].mutex))
    /\ ret' = [ret EXCEPT ![p].errno = Errno(p, client[p].reply)]
    /\ UNCHANGED <<call, budget, late>>

Return(p) ==
    /\ Replied(p)
    /\ ~MustRelock(p)
    /\ ret' = [ret EXCEPT ![p] = [fn |-> call[p].fn, value |-> Value(client[p].reply),
                                  errno |-> Errno(p, client[p].reply), mutex |-> call[p].mutex]]
    /\ call' = [call EXCEPT ![p] = NoCall]
    /\ UNCHANGED <<vars, budget, late>>

-----------------------------------------------------------------------------
ServerStep(p) == obslugaWiadomosci(p) /\ UNCHANGED libVars
ServerLoopStep == ServerLoop /\ UNCHANGED libVars

EventsLeft == MAX_SIGNALS - budget.signals + MAX_EXITS - budget.exits < MAX_EVENTS

Signal(p) ==
    /\ budget.signals > 0 /\ EventsLeft
    /\ PmSignal(p)
    /\ budget' = [budget EXCEPT !.signals = @ - 1]
    /\ UNCHANGED <<call, ret, late>>

Exit(p) ==
    /\ budget.exits > 0 /\ EventsLeft
    /\ PmExit(p)
    /\ budget' = [budget EXCEPT !.exits = @ - 1]
    /\ late' = IF client[p].at = "sending" THEN late \cup {p} ELSE late
    /\ UNCHANGED <<call, ret>>

Clear(p) == PmClear(p) /\ UNCHANGED libVars

System ==
    \/ \E p \in Proc : ServerStep(p) \/ Relock(p) \/ Return(p)
    \/ ServerLoopStep
    \/ \E p \in Proc : Signal(p) \/ Exit(p) \/ Clear(p)

\* Any program: every function at any time.
AnyCall(p) ==
    \/ \E m \in Mutex : CallLock(p, m) \/ CallUnlock(p, m)
    \/ \E c \in CondVar : \E m \in Mutex : CallWait(p, c, m)
    \/ \E c \in CondVar : CallBroadcast(p, c)

LibNext == System \/ \E p \in Proc : AnyCall(p)

LibSpec == LibInit /\ [][LibNext]_allVars

(***************************************************************************)
(* A program that uses the functions as they are meant to be used: it      *)
(* locks when it holds nothing, and with a mutex in hand it waits,         *)
(* broadcasts or unlocks.                                                  *)
(***************************************************************************)
MonitorCall(p) ==
    \/ /\ holds[p] = {}
       /\ \E m \in Mutex : CallLock(p, m)
    \/ \E m \in holds[p] : \E c \in CondVar : CallWait(p, c, m) \/ CallBroadcast(p, c)

MonitorUnlock(p) == \E m \in holds[p] : CallUnlock(p, m)

MonitorNext == System \/ \E p \in Proc : MonitorCall(p) \/ MonitorUnlock(p)

(***************************************************************************)
(* Fairness.  The server and the libc code keep running (WF).  The kernel  *)
(* keeps the server's callers in a first-come first-served queue, so each  *)
(* of them is received however often others call in between (SF).  The     *)
(* program comes to its cs_unlock, however often it broadcasts or waits    *)
(* before (SF).  Programs need not call anything else, signals and exits   *)
(* need not happen.                                                        *)
(***************************************************************************)
Fairness ==
    /\ WF_allVars(ServerLoopStep)
    /\ \A p \in Proc : /\ SF_allVars(ServerStep(p))
                       /\ WF_allVars(Relock(p))
                       /\ WF_allVars(Return(p))
                       /\ SF_allVars(MonitorUnlock(p))

MonitorSpec == LibInit /\ [][MonitorNext]_allVars /\ Fairness

-----------------------------------------------------------------------------
(***************************************************************************)
(* Properties.                                                             *)
(***************************************************************************)

\* No libc function fails with EINTR: cs_lock goes back to wait and cs_wait
\* turns a signal into a spurious wakeup.  (errno itself keeps the EINTR of a
\* retried call that then succeeds; test3 looks at it.)
NeverEINTR == \A p \in Proc : ret[p].value = -1 => ret[p].errno # -EINTR

\* When cs_lock or cs_wait returns 0 the server has p down as the owner of the
\* mutex and still has when p looks, through any number of signals and retries.
ReturnsHolding ==
    \A p \in Proc :
        /\ call[p] = NoCall /\ ret[p].fn \in {"cs_lock", "cs_wait"} /\ ret[p].value = 0
        /\ life[p] = "alive" /\ server.at \in {"receive", "broadcast"}
        => \E i \in UsedSlot : numer[i] = ret[p].mutex /\ wlasciciel[i] = p

\* "funkcja zwraca -1 i ustawia errno na EINVAL" (the comment in libc's
\* cs_wait): a cs_wait that is refused returns -1 with errno EINVAL.
RefusedWaitSaysEINVAL ==
    \A p \in Proc : ret[p].fn = "cs_wait" /\ ret[p].value # 0 =>
        ret[p].value = -1 /\ ret[p].errno = -EINVAL

\* A process that wants a mutex, in cs_lock or woken in cs_wait, gets it (or
\* dies): finitely many signals, exits of holders and waiters and broadcasts
\* of others cannot keep it waiting for ever.  The one thing that can is what
\* the run exited shows: a request that was on its way when its sender died,
\* and was received after the CS_EXIT, made the dead process the owner.
WantsMutex(p) ==
    \/ call[p].fn = "cs_lock"
    \/ call[p].fn = "cs_wait" /\ client[p].at = "receiving" /\ \E i \in Slot : Queues(p, i)
OwnedByTheDead(m) ==
    \E i \in UsedSlot : numer[i] = m /\ wlasciciel[i] \in late /\ ExitHandled(wlasciciel[i])
LockEventuallyGranted ==
    \A p \in Proc : WantsMutex(p) ~>
        (call[p] = NoCall \/ life[p] # "alive" \/ OwnedByTheDead(call[p].mutex))

-----------------------------------------------------------------------------
(***************************************************************************)
(* What LibCvProofs adds to the server's invariant: how the call a process *)
(* is in, its message to the server and the reply hang together.           *)
(***************************************************************************)
Function == {"none", "cs_lock", "cs_unlock", "cs_wait", "cs_broadcast"}

CallsTyped ==
    /\ call \in [Proc -> [fn : Function, mutex : Mutex \cup {Zero}, cv : CondVar \cup {Zero}]]
    /\ \A p \in Proc : call[p].fn \in {"cs_lock", "cs_wait"} => call[p].mutex \in Mutex
    /\ ret \in [Proc -> [fn : Function, value : Int, errno : Int, mutex : Mutex \cup {Zero}]]

\* A message on its way or being served is one the process's function sends.
\* A cs_wait that was interrupted may be locking its mutex again.
MessageOfCall ==
    \A p \in Proc : client[p].at # "running" =>
        client[p].req \in
            CASE call[p].fn = "cs_lock"      -> {LockRequest(call[p].mutex)}
              [] call[p].fn = "cs_unlock"    -> {UnlockRequest(call[p].mutex)}
              [] call[p].fn = "cs_wait"      -> {WaitRequest(call[p].cv, call[p].mutex),
                                                 LockRequest(call[p].mutex)}
              [] call[p].fn = "cs_broadcast" -> {BroadcastRequest(call[p].cv)}
              [] OTHER -> {}

\* Only a living process in cs_lock or cs_wait sees the answer EINTR, and there
\* an OK has made it a holder.
ReplyOfCall ==
    \A p \in Proc : Replied(p) =>
        /\ client[p].reply = EINTR => call[p].fn \in {"cs_lock", "cs_wait"}
        /\ client[p].reply = OK /\ call[p].fn \in {"cs_lock", "cs_wait"} =>
             call[p].mutex \in holds[p]

ReturnedHolding ==
    \A p \in Proc :
        call[p] = NoCall /\ ret[p].fn \in {"cs_lock", "cs_wait"} /\ ret[p].value = 0
            /\ life[p] = "alive"
        => ret[p].mutex \in holds[p]

\* A function that is still running has not returned anything.
NothingYet == \A p \in Proc : call[p] # NoCall => ret[p].value = 0

LibInv ==
    CallsTyped /\ MessageOfCall /\ ReplyOfCall /\ ReturnedHolding /\ NothingYet /\ NeverEINTR

=============================================================================
