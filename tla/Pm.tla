--------------------------------- MODULE Pm ---------------------------------
(***************************************************************************)
(* The process manager (projekt/servers/pm) from a signal or an exit to    *)
(* the message it posts to the cv server: the flags of the process table,  *)
(* the signal sets, the dialogue with VFS, and the kernel operations that  *)
(* stop, resume and clear a process.                                       *)
(*                                                                         *)
(* PM handles one message at a time, but its C functions call each other   *)
(* in a chain that a single message can make long: a signal kills, the     *)
(* death signals the parent, the parent's handler cannot be set up, the    *)
(* parent dies.  So todo is PM's call stack: one step executes the         *)
(* function on top and pushes the functions it calls, in order.  The next  *)
(* message is received only when the stack is empty, and user processes,   *)
(* servers and the kernel run on in between, as they do.                   *)
(*                                                                         *)
(* A process is its endpoint, used once; a table slot is free again when   *)
(* its process has left the table.  Not in this module: system processes,  *)
(* tracing, alarms, accounting, exec, scheduling, uids.                    *)
(***************************************************************************)
EXTENDS Integers, Sequences, FiniteSets

CONSTANTS
    Proc,       \* endpoints of user processes
    INIT_PROC_NR, \* the process that adopts orphans
    Booted,     \* bound: the processes that exist at the start, INIT among them
    NR_PROCS,   \* slots user processes may take in mproc[]
    Signal,     \* bound: the signals that occur, numbers in the order of signal.h
    SIGHUP, SIGKILL, SIGCHLD,
    core_sset,  \* sef_cb_init_fresh: signals that dump core,
    ign_sset,   \*   that are ignored by default,
    noign_sset, \*   that the kernel does not let a process ignore or block
    Calls,      \* bound: Calls[p] is the set of requests p makes
    KernelSigs  \* bound: signals the kernel raises by itself

ASSUME ProcAssumption ==
    /\ INIT_PROC_NR \in Booted
    /\ Booted \subseteq Proc
    /\ NR_PROCS \in Nat
    /\ Signal \subseteq Nat \ {0}
    /\ {SIGHUP, SIGKILL, SIGCHLD} \subseteq Signal
    /\ core_sset \cup ign_sset \cup noign_sset \cup KernelSigs \subseteq Signal
    /\ SIGCHLD \in ign_sset
    /\ {SIGHUP, SIGKILL} \cap ign_sset = {}

\* A request: its type, and the signal (or option), signal set and processes
\* it names.  PM answers EINVAL to a signal number out of range.
NamesSignal == {"kill", "SIG_IGN", "SIG_DFL", "handler"}
CallType ==
    [typ : NamesSignal \cup {"none", "server", "pause", "sigsuspend", "sigblock", "sigsetmask",
                             "exit", "waitpid", "fork", "setuid"},
     sig : Nat, set : SUBSET Signal, to : SUBSET Proc]

ASSUME CallsAssumption ==
    \A p \in Proc : \A c \in Calls[p] :
        c \in CallType /\ (c.typ \in NamesSignal => c.sig \in Signal)

VARIABLES
    flags,                  \* mp_flags
    parent, pgrp,           \* mp_parent, mp_procgrp (the leader's endpoint)
    pending, ksigpending,   \* mp_sigpending, mp_ksigpending
    sigmask, ignore, catch, \* mp_sigmask, mp_ignore, mp_catch
    mpgrp,                  \* mp->mp_procgrp: group of the process PM works for
    todo,                   \* PM's call stack
    vfs,                    \* requests VFS has not answered
    post,                   \* the message this step of PM posted to the cv server
    kstate, call,           \* the kernel: what a process is doing, and its last request
    stop,                   \* the kernel: stopped by sys_stop
    delay                   \* the kernel: a refused sys_delay_stop and its SIGSNDELAY

table  == <<parent, pgrp, ignore, catch>>
sigs   == <<pending, ksigpending, sigmask>>
kernel == <<kstate, call, delay>>
vars   == <<flags, parent, pgrp, pending, ksigpending, sigmask, ignore, catch,
            mpgrp, todo, vfs, post, kstate, call, stop, delay>>

Flag == {"IN_USE", "EXITING", "ZOMBIE", "TOLD_PARENT", "VFS_CALL", "DELAY_CALL",
         "PM_SIG_PENDING", "UNPAUSED", "PAUSED", "WAITING", "SIGSUSPENDED", "REPLY"}
Hanging == {"PAUSED", "WAITING", "SIGSUSPENDED"}

NoGroup == "none"   \* VFS, whose process group is nobody's
NoPost  == [typ |-> "none", p |-> INIT_PROC_NR]

\* A stack frame: the function, the process, the signal, ksig / dump_core /
\* try_cleanup, and the processes a loop has yet to visit.
Frame(op, p, s, k, procs) == [op |-> op, p |-> p, s |-> s, k |-> k, procs |-> procs]
sig_procFrame(p, s, k)    == Frame("sig_proc", p, s, k, {})
check_sigFrame(S, s, k)   == Frame("check_sig", INIT_PROC_NR, s, k, S)
check_pendingFrame(p, i)  == Frame("check_pending", p, i, FALSE, {})
exit_procFrame(p, core)   == Frame("exit_proc", p, 0, core, {})
check_parentFrame(p, try) == Frame("check_parent", p, 0, try, {})
Then(op, p)               == Frame(op, p, 0, FALSE, {})
Sendreply                 == Then("sendreply", INIT_PROC_NR)

\* The parameters of the function on top of the stack, under their C names.
Top(op) == todo # <<>> /\ Head(todo).op = op
rmp     == Head(todo).p
signo   == Head(todo).s
ksig    == Head(todo).k
procs   == Head(todo).procs

\* The function on top returns after calling those in frames.
Return(frames) == todo' = frames \o Tail(todo)

\* It changes nothing else, or flags only.
OnlyFlags   == post' = NoPost /\ UNCHANGED <<table, sigs, mpgrp, vfs, kernel, stop>>
OnlyControl == OnlyFlags /\ UNCHANGED flags

Alive(p) == "IN_USE" \in flags[p] /\ "EXITING" \notin flags[p]
Is(p, flag) == flag \in flags[p]
InUse == {p \in Proc : "IN_USE" \in flags[p]}

Init ==
    /\ flags = [p \in Proc |-> IF p \in Booted THEN {"IN_USE"} ELSE {}]
    /\ parent = [p \in Proc |-> INIT_PROC_NR]
    /\ pgrp = [p \in Proc |-> p]
    /\ pending = [p \in Proc |-> {}]
    /\ ksigpending = [p \in Proc |-> {}]
    /\ sigmask = [p \in Proc |-> {}]
    /\ ignore = [p \in Proc |-> {}]
    /\ catch = [p \in Proc |-> {}]
    /\ mpgrp = NoGroup
    /\ todo = <<>>
    /\ vfs = {}
    /\ post = NoPost
    /\ kstate = [p \in Proc |-> IF p \in Booted THEN "running" ELSE "none"]
    /\ call = [p \in Proc |-> [typ |-> "none", sig |-> 0, set |-> {}, to |-> {}]]
    /\ stop = [p \in Proc |-> FALSE]
    /\ delay = [p \in Proc |-> "no"]

-----------------------------------------------------------------------------
(***************************************************************************)
(* sig_proc.                                                               *)
(***************************************************************************)
AddPending ==
    /\ pending' = [pending EXCEPT ![rmp] = @ \cup {signo}]
    /\ ksigpending' = IF ksig THEN [ksigpending EXCEPT ![rmp] = @ \cup {signo}]
                      ELSE ksigpending
    /\ UNCHANGED sigmask

badignore == ksig /\ signo \in noign_sset /\ signo \in ignore[rmp] \cup sigmask[rmp]

\* The signal waits for VFS; the process is stopped until then.
SigDuringVfsCall ==
    /\ Top("sig_proc")
    /\ Alive(rmp)
    /\ Is(rmp, "VFS_CALL")
    /\ AddPending
    /\ stop' = [stop EXCEPT ![rmp] = @ \/ ~Is(rmp, "PM_SIG_PENDING")]
    /\ flags' = [flags EXCEPT ![rmp] = @ \cup {"PM_SIG_PENDING"}]
    /\ Return(<<>>)
    /\ post' = NoPost
    /\ UNCHANGED <<table, mpgrp, vfs, kernel>>

Considered == Top("sig_proc") /\ Alive(rmp) /\ ~Is(rmp, "VFS_CALL")

SigBlocked ==
    /\ Considered
    /\ ~badignore
    /\ signo \in sigmask[rmp] \ ignore[rmp]
    /\ AddPending
    /\ Return(<<>>)
    /\ post' = NoPost
    /\ UNCHANGED <<flags, table, mpgrp, vfs, kernel, stop>>

SigIgnored ==
    /\ Considered
    /\ ~badignore
    /\ \/ signo \in ignore[rmp]
       \/ signo \in ign_sset \ (sigmask[rmp] \cup catch[rmp])
    /\ Return(<<>>)
    /\ OnlyControl

\* sig_proc_exit.
SigFatal ==
    /\ Considered
    /\ badignore \/ signo \notin ignore[rmp] \cup sigmask[rmp] \cup catch[rmp] \cup ign_sset
    /\ Return(<<exit_procFrame(rmp, signo \in core_sset)>>)
    /\ OnlyControl

Caught ==
    /\ Considered
    /\ ~badignore
    /\ signo \in catch[rmp] \ (ignore[rmp] \cup sigmask[rmp])

(***************************************************************************)
(* unpause, and what sig_proc does when the process is not unpaused yet.   *)
(***************************************************************************)
HangsInPm(p) == flags[p] \cap Hanging # {}

\* PM waits for a SIGSNDELAY already.
UnpauseLater ==
    /\ Caught
    /\ ~Is(rmp, "UNPAUSED")
    /\ Is(rmp, "DELAY_CALL")
    /\ AddPending
    /\ Return(<<>>)
    /\ post' = NoPost
    /\ UNCHANGED <<flags, table, mpgrp, vfs, kernel, stop>>

\* Mutant: the process is stopped even while it sends.
BusyNever(p) == FALSE

\* sys_delay_stop refuses a process that is sending; one PM has stopped before
\* is not asked about.
Busy(p) == ~Is(p, "PM_SIG_PENDING") /\ kstate[p] = "sending"

UnpauseBusy ==
    /\ Caught
    /\ flags[rmp] \cap {"UNPAUSED", "DELAY_CALL"} = {}
    /\ ~HangsInPm(rmp)
    /\ Busy(rmp)
    /\ AddPending
    /\ flags' = [flags EXCEPT ![rmp] = @ \cup {"DELAY_CALL"}]
    /\ delay' = [delay EXCEPT ![rmp] = "armed"]
    /\ Return(<<>>)
    /\ post' = NoPost
    /\ UNCHANGED <<table, mpgrp, vfs, kstate, call, stop>>

tell_vfs(typ, p) == vfs' = vfs \cup {[typ |-> typ, p |-> p]}
\* Mutant: the server hears of signals only.
tell_cvSignalsOnly(p, signal) ==
    post' = IF signal = "CS_EINTR" THEN [typ |-> signal, p |-> p] ELSE NoPost
\* Mutant: the arguments are swapped.
tell_cvSwapped(p, signal) == post' = [typ |-> p, p |-> signal]
tell_cv(p, signal) == post' = [typ |-> signal, p |-> p]

UnpauseByVfs ==
    /\ Caught
    /\ flags[rmp] \cap {"UNPAUSED", "DELAY_CALL"} = {}
    /\ ~HangsInPm(rmp)
    /\ ~Busy(rmp)
    /\ AddPending
    /\ flags' = [flags EXCEPT ![rmp] = @ \cup {"PM_SIG_PENDING", "VFS_CALL"}]
    /\ stop' = [stop EXCEPT ![rmp] = TRUE]
    /\ tell_vfs("PM_UNPAUSE", rmp)
    /\ tell_cv(rmp, "CS_EINTR")
    /\ Return(<<>>)
    /\ UNCHANGED <<table, mpgrp, kernel>>

(***************************************************************************)
(* sig_send, for a process VFS has unpaused or that hangs in PM.  ok is    *)
(* the result of sys_sigsend.                                              *)
(***************************************************************************)
\* The interrupted call is answered EINTR; a process stopped for this signal
\* only is resumed.
FlagsAfterHandler(p) ==
    (flags[p] \ (Hanging \cup {"UNPAUSED"})) \cup {f \in {"REPLY"} : HangsInPm(p)}
        \cup {f \in {"UNPAUSED"} : Is(p, "PM_SIG_PENDING")}

sig_send(ok) ==
    /\ Caught
    /\ Is(rmp, "UNPAUSED") \/ (~Is(rmp, "DELAY_CALL") /\ HangsInPm(rmp))
    /\ sigmask' = [sigmask EXCEPT ![rmp] = @ \cup {signo}]
    /\ pending' = [pending EXCEPT ![rmp] = @ \ {signo}]
    /\ ksigpending' = [ksigpending EXCEPT ![rmp] = @ \ {signo}]
    /\ IF ok
       THEN /\ flags' = [flags EXCEPT ![rmp] = FlagsAfterHandler(rmp)]
            /\ stop' = [stop EXCEPT ![rmp] = Is(rmp, "PM_SIG_PENDING")]
            /\ Return(<<>>)
       ELSE /\ flags' = [flags EXCEPT ![rmp] = @ \cup {"UNPAUSED"}]
            /\ stop' = [stop EXCEPT ![rmp] = TRUE]
            /\ Return(<<exit_procFrame(rmp, signo \in core_sset)>>)
    /\ post' = NoPost
    /\ UNCHANGED <<table, mpgrp, vfs, kernel>>

-----------------------------------------------------------------------------
(***************************************************************************)
(* check_sig, check_pending, restart_sigs.                                 *)
(***************************************************************************)

\* Mutant: exiting processes are not passed over.
check_sigAll ==
    /\ Top("check_sig")
    /\ \/ procs = {} /\ Return(<<>>)
       \/ \E p \in procs :
            Return(<<sig_procFrame(p, signo, ksig),
                     check_sigFrame(procs \ {p}, signo, ksig)>>)
    /\ OnlyControl

\* One round of the loop over the selected processes.
check_sig ==
    /\ Top("check_sig")
    /\ \/ procs = {} /\ Return(<<>>)
       \/ \E p \in procs :
            LET rest == check_sigFrame(procs \ {p}, signo, ksig) IN
            Return(IF Alive(p) THEN <<sig_procFrame(p, signo, ksig), rest>> ELSE <<rest>>)
    /\ OnlyControl

\* The loop has dealt with the signals up to i = signo; it breaks when one of
\* them has sent the process to VFS.
Unblocked(p, i) == {s \in pending[p] \ sigmask[p] : s > i}
Lowest(S) == CHOOSE s \in S : \A t \in S : s <= t

check_pending ==
    LET todoSigs == Unblocked(rmp, signo)
        i == Lowest(todoSigs)
    IN
    /\ Top("check_pending")
    /\ IF todoSigs = {} \/ (signo # 0 /\ Is(rmp, "VFS_CALL"))
       THEN Return(<<>>) /\ UNCHANGED sigs
       ELSE /\ Return(<<sig_procFrame(rmp, i, i \in ksigpending[rmp]),
                        check_pendingFrame(rmp, i)>>)
            /\ pending' = [pending EXCEPT ![rmp] = @ \ {i}]
            /\ ksigpending' = [ksigpending EXCEPT ![rmp] = @ \ {i}]
            /\ UNCHANGED sigmask
    /\ post' = NoPost
    /\ UNCHANGED <<flags, table, mpgrp, vfs, kernel, stop>>

restart_sigs ==
    /\ Top("restart_sigs")
    /\ Return(IF Alive(rmp) /\ ~Is(rmp, "VFS_CALL") /\ Is(rmp, "PM_SIG_PENDING")
              THEN <<check_pendingFrame(rmp, 0), Then("restart_sigs_end", rmp)>>
              ELSE <<>>)
    /\ OnlyControl

\* Mutant: the process is resumed although VFS has it again.
restart_sigs_end_Always ==
    /\ Top("restart_sigs_end")
    /\ flags' = [flags EXCEPT ![rmp] = @ \ {"PM_SIG_PENDING", "UNPAUSED"}]
    /\ stop' = [stop EXCEPT ![rmp] = FALSE]
    /\ Return(<<>>)
    /\ post' = NoPost
    /\ UNCHANGED <<table, sigs, mpgrp, vfs, kernel>>

\* The rest of restart_sigs: sys_resume unless VFS has the process again.
restart_sigs_end ==
    /\ Top("restart_sigs_end")
    /\ IF Is(rmp, "VFS_CALL")
       THEN UNCHANGED <<flags, stop>>
       ELSE /\ flags' = [flags EXCEPT ![rmp] = @ \ {"PM_SIG_PENDING", "UNPAUSED"}]
            /\ stop' = [stop EXCEPT ![rmp] = FALSE]
    /\ Return(<<>>)
    /\ post' = NoPost
    /\ UNCHANGED <<table, sigs, mpgrp, vfs, kernel>>

-----------------------------------------------------------------------------
(***************************************************************************)
(* Exit.                                                                   *)
(***************************************************************************)

\* The hangup goes to the group of mp, the process PM works for, if the one
\* that exits is its leader.
Hangup(p) == IF p = mpgrp
             THEN <<check_sigFrame({q \in Proc : pgrp[q] = mpgrp}, SIGHUP, FALSE)>>
             ELSE <<>>

\* INIT does not die.
exit_proc ==
    LET dump_core == ksig IN
    /\ Top("exit_proc")
    /\ ~Is(rmp, "VFS_CALL") /\ rmp # INIT_PROC_NR
    /\ stop' = [stop EXCEPT ![rmp] = TRUE]
    /\ tell_vfs(IF dump_core THEN "PM_DUMPCORE" ELSE "PM_EXIT", rmp)
    /\ tell_cv(rmp, "CS_EXIT")
    /\ flags' = [flags EXCEPT ![rmp] = {"IN_USE", "VFS_CALL", "EXITING"}
                    \cup {f \in {"ZOMBIE"} : ~dump_core}]
    /\ Return((IF dump_core THEN <<>> ELSE <<check_parentFrame(rmp, FALSE)>>)
              \o <<Frame("disinherit", rmp, 0, FALSE, Proc)>> \o Hangup(rmp))
    /\ UNCHANGED <<table, sigs, mpgrp, kernel>>

\* Mutant: INIT does not hear of the zombies it adopts.
NotifyInitNever(c) == <<>>
NotifyInit(c) == IF Is(c, "ZOMBIE") THEN <<check_parentFrame(c, TRUE)>> ELSE <<>>

\* The loop of exit_proc over the children of the dead process, those in procs
\* are still to come: INIT adopts each and hears of it if it is a zombie.
disinherit ==
    LET children == {c \in procs \cap InUse : parent[c] = rmp} IN
    /\ Top("disinherit")
    /\ \/ children = {} /\ Return(<<>>) /\ UNCHANGED parent
       \/ \E c \in children :
            /\ parent' = [parent EXCEPT ![c] = INIT_PROC_NR]
            /\ Return(NotifyInit(c) \o <<[Head(todo) EXCEPT !.procs = @ \ {c}]>>)
    /\ post' = NoPost
    /\ UNCHANGED <<flags, pgrp, ignore, catch, sigs, mpgrp, vfs, kernel, stop>>

MayTell(c) == Is(c, "ZOMBIE") /\ ~Is(c, "TOLD_PARENT")

\* tell_parent, and cleanup of the slot when VFS is done with the child too.
FlagsAfterTelling(c, clean) ==
    [flags EXCEPT ![parent[c]] = (@ \ {"WAITING"}) \cup {"REPLY"},
                  ![c] = IF clean THEN {} ELSE (@ \ {"ZOMBIE"}) \cup {"TOLD_PARENT"}]

\* mp_wpid against the child: the pid that p asked for, or any.  p is in the
\* very call that set mp_wpid as long as it is WAITING.
right_child(p, c) == call[p].to = {} \/ c \in call[p].to
\* Mutant: whoever waits is told of whoever dies.
wait_testAny(p, c) == Is(p, "WAITING")
wait_test(p, c) == Is(p, "WAITING") /\ right_child(p, c)

check_parent ==
    LET p_mp == parent[rmp] IN
    /\ Top("check_parent")
    /\ IF Is(p_mp, "EXITING") THEN Return(<<>>) /\ UNCHANGED flags
       ELSE IF ~wait_test(p_mp, rmp)
       THEN Return(<<sig_procFrame(p_mp, SIGCHLD, FALSE)>>) /\ UNCHANGED flags
       ELSE /\ MayTell(rmp)
            /\ flags' = FlagsAfterTelling(rmp, ksig /\ ~Is(rmp, "VFS_CALL"))
            /\ Return(<<>>)
    /\ OnlyFlags

\* Mutant: the slot is never freed here.
exit_restart_endNever ==
    /\ Top("exit_restart_end")
    /\ Return(<<>>)
    /\ OnlyControl

\* The end of exit_restart: the slot is freed if the parent has been told.
exit_restart_end ==
    /\ Top("exit_restart_end")
    /\ flags' = IF Is(rmp, "TOLD_PARENT") THEN [flags EXCEPT ![rmp] = {}] ELSE flags
    /\ Return(<<>>)
    /\ OnlyFlags

-----------------------------------------------------------------------------
(***************************************************************************)
(* handle_vfs_reply, one action per reply.  VFS answers each request once, *)
(* in any order.                                                           *)
(***************************************************************************)
VfsReply(typ, p) ==
    /\ todo = <<>>
    /\ [typ |-> typ, p |-> p] \in vfs
    /\ vfs' = vfs \ {[typ |-> typ, p |-> p]}
    /\ mpgrp' = NoGroup
    /\ post' = NoPost

\* handle_vfs_reply panics otherwise.
VfsIdle(p) == Is(p, "VFS_CALL") /\ ~Is(p, "UNPAUSED")

ThenRestart(p) == <<Then("restart_sigs", p), Sendreply>>

\* Mutant: the end of the request is not noted.
SetuidReplyKeeps(p) ==
    /\ VfsReply("PM_SETUID", p)
    /\ VfsIdle(p)
    /\ flags' = [flags EXCEPT ![p] = @ \cup {"REPLY"}]
    /\ todo' = ThenRestart(p)
    /\ UNCHANGED <<table, sigs, kernel, stop>>

SetuidReply(p) ==
    /\ VfsReply("PM_SETUID", p)
    /\ VfsIdle(p)
    /\ flags' = [flags EXCEPT ![p] = (@ \ {"VFS_CALL"}) \cup {"REPLY"}]
    /\ todo' = ThenRestart(p)
    /\ UNCHANGED <<table, sigs, kernel, stop>>

UnpauseReply(p) ==
    /\ VfsReply("PM_UNPAUSE", p)
    /\ VfsIdle(p)
    /\ flags' = [flags EXCEPT ![p] = (@ \ {"VFS_CALL"}) \cup {"UNPAUSED"}]
    /\ todo' = ThenRestart(p)
    /\ UNCHANGED <<table, sigs, kernel, stop>>

\* r = OK: the child is scheduled and both are woken; otherwise it is torn down
\* and the fork fails.
ForkReply(p, ok) ==
    /\ VfsReply("PM_FORK", p)
    /\ VfsIdle(p)
    /\ flags' = [q \in Proc |-> (flags[q] \ {f \in {"VFS_CALL"} : q = p})
                                  \cup {f \in {"REPLY"} : ok /\ q \in {p, parent[p]}}]
    /\ todo' = IF ok THEN ThenRestart(p)
               ELSE <<exit_procFrame(p, FALSE), Then("fork_failed", p), Sendreply>>
    /\ UNCHANGED <<table, sigs, kernel, stop>>

\* exit_restart: sys_clear forgets the process, whatever it was doing.
Cleared(p) ==
    /\ kstate' = [kstate EXCEPT ![p] = "cleared"]
    /\ delay' = [delay EXCEPT ![p] = "no"]
    /\ UNCHANGED call

ExitReply(p) ==
    /\ VfsReply("PM_EXIT", p)
    /\ VfsIdle(p)
    /\ flags' = [flags EXCEPT ![p] = @ \ {"VFS_CALL"}]
    /\ Cleared(p)
    /\ todo' = <<Then("exit_restart_end", p), Sendreply>>
    /\ UNCHANGED <<table, sigs, stop>>

\* After a core dump the parent is told only now (zombify).  The code calls
\* zombify before sys_clear; the two do not meet, for check_parent reads nothing
\* of the kernel's view of p and PM takes no message in between.
CoreReply(p) ==
    /\ VfsReply("PM_DUMPCORE", p)
    /\ VfsIdle(p)
    /\ ~Is(p, "ZOMBIE")
    /\ flags' = [flags EXCEPT ![p] = (@ \ {"VFS_CALL"}) \cup {"ZOMBIE"}]
    /\ Cleared(p)
    /\ todo' = <<check_parentFrame(p, FALSE), Then("exit_restart_end", p), Sendreply>>
    /\ UNCHANGED <<table, sigs, stop>>

handle_vfs_reply(p) ==
    \/ SetuidReply(p) \/ UnpauseReply(p) \/ ExitReply(p) \/ CoreReply(p)
    \/ \E ok \in BOOLEAN : ForkReply(p, ok)

-----------------------------------------------------------------------------
(***************************************************************************)
(* Replies.                                                                *)
(***************************************************************************)
setreply ==
    /\ Top("setreply")
    /\ flags' = [flags EXCEPT ![rmp] = @ \cup {"REPLY"}]
    /\ Return(<<>>)
    /\ OnlyFlags

\* The end of a failed fork: whoever is now the parent is woken.
fork_failed ==
    /\ Top("fork_failed")
    /\ flags' = [flags EXCEPT ![parent[rmp]] = @ \cup {"REPLY"}]
    /\ Return(<<>>)
    /\ OnlyFlags

\* do_kill answers its caller unless the caller killed itself.
kill_result ==
    /\ Top("kill_result")
    /\ flags' = IF Alive(rmp) THEN [flags EXCEPT ![rmp] = @ \cup {"REPLY"}] ELSE flags
    /\ Return(<<>>)
    /\ OnlyFlags

AwaitsPm(p) == kstate[p] = "receiving" /\ call[p].typ # "server"
ToAnswer == {p \in Proc : Alive(p) /\ Is(p, "REPLY")}

\* Mutant: a reply is sent again and again.
FlagsAfterRepliesKeep == flags
FlagsAfterReplies == [p \in Proc |-> IF p \in ToAnswer THEN flags[p] \ {"REPLY"} ELSE flags[p]]

\* sendnb: a reply to a process that is not receiving from PM is lost.
sendreply ==
    /\ Top("sendreply")
    /\ kstate' = [p \in Proc |-> IF p \in ToAnswer /\ AwaitsPm(p) THEN "running"
                                 ELSE kstate[p]]
    /\ flags' = FlagsAfterReplies
    /\ Return(<<>>)
    /\ post' = NoPost
    /\ UNCHANGED <<table, sigs, mpgrp, vfs, call, stop, delay>>

-----------------------------------------------------------------------------
(***************************************************************************)
(* Requests to PM.  PM receives p's message, which ends its sending: if a  *)
(* sys_delay_stop was refused meanwhile, the kernel raises SIGSNDELAY.     *)
(***************************************************************************)
SendingEnds(p) == delay' = [delay EXCEPT ![p] = IF @ = "armed" THEN "raised" ELSE @]

Receives(p, typ) ==
    /\ todo = <<>>
    /\ kstate[p] = "sending"
    /\ call[p].typ = typ
    /\ Alive(p)
    /\ SendingEnds(p)
    /\ mpgrp' = pgrp[p]
    /\ post' = NoPost

Received(p) == kstate' = [kstate EXCEPT ![p] = "receiving"] /\ UNCHANGED call

\* main: calls of exiting processes are dropped.
DropCall(p) ==
    /\ todo = <<>>
    /\ kstate[p] = "sending"
    /\ call[p].typ # "server"
    /\ Is(p, "EXITING")
    /\ SendingEnds(p)
    /\ Received(p)
    /\ post' = NoPost
    /\ UNCHANGED <<flags, table, sigs, mpgrp, todo, vfs, stop>>

Answer(p) == <<Then("setreply", p), Sendreply>>

do_pause(p) ==
    /\ Receives(p, "pause")
    /\ Received(p)
    /\ flags' = [flags EXCEPT ![p] = @ \cup {"PAUSED"}]
    /\ todo' = <<Sendreply>>
    /\ UNCHANGED <<table, sigs, vfs, stop>>

Catchable(S) == S \ {SIGKILL}

do_sigsuspend(p) ==
    /\ Receives(p, "sigsuspend")
    /\ Received(p)
    /\ sigmask' = [sigmask EXCEPT ![p] = Catchable(call[p].set)]
    /\ flags' = [flags EXCEPT ![p] = @ \cup {"SIGSUSPENDED"}]
    /\ todo' = <<check_pendingFrame(p, 0), Sendreply>>
    /\ UNCHANGED <<table, pending, ksigpending, vfs, stop>>

\* SIG_BLOCK.
do_sigprocmask_block(p) ==
    /\ Receives(p, "sigblock")
    /\ Received(p)
    /\ sigmask' = [sigmask EXCEPT ![p] = @ \cup Catchable(call[p].set)]
    /\ todo' = Answer(p)
    /\ UNCHANGED <<flags, table, pending, ksigpending, vfs, stop>>

\* Mutant: the newly unblocked signals are not looked at.
do_sigprocmask_setNoCheck(p) ==
    /\ Receives(p, "sigsetmask")
    /\ Received(p)
    /\ sigmask' = [sigmask EXCEPT ![p] = Catchable(call[p].set)]
    /\ todo' = Answer(p)
    /\ UNCHANGED <<flags, table, pending, ksigpending, vfs, stop>>

\* SIG_SETMASK, SIG_UNBLOCK, and do_sigreturn, which sets the mask the handler
\* frame was given.
do_sigprocmask_set(p) ==
    /\ Receives(p, "sigsetmask")
    /\ Received(p)
    /\ sigmask' = [sigmask EXCEPT ![p] = Catchable(call[p].set)]
    /\ todo' = <<check_pendingFrame(p, 0)>> \o Answer(p)
    /\ UNCHANGED <<flags, table, pending, ksigpending, vfs, stop>>

\* do_sigaction with SIG_IGN, SIG_DFL or a handler; for SIGKILL it says OK and
\* does nothing.
do_sigaction(p) ==
    LET S == Catchable({call[p].sig})
        Without(f) == [f EXCEPT ![p] = @ \ S]
        With(f) == [f EXCEPT ![p] = @ \cup S]
    IN
    /\ \/ /\ Receives(p, "SIG_IGN")
          /\ ignore' = With(ignore)
          /\ catch' = Without(catch)
          /\ pending' = Without(pending)
          /\ ksigpending' = Without(ksigpending)
       \/ /\ Receives(p, "SIG_DFL")
          /\ ignore' = Without(ignore)
          /\ catch' = Without(catch)
          /\ UNCHANGED <<pending, ksigpending>>
       \/ /\ Receives(p, "handler")
          /\ ignore' = Without(ignore)
          /\ catch' = With(catch)
          /\ UNCHANGED <<pending, ksigpending>>
    /\ Received(p)
    /\ todo' = Answer(p)
    /\ UNCHANGED <<flags, parent, pgrp, sigmask, vfs, stop>>

\* check_sig refuses a SIGKILL for INIT alone.
KillTargets(p) ==
    IF call[p].to = {INIT_PROC_NR} /\ call[p].sig = SIGKILL THEN {} ELSE call[p].to

do_kill(p) ==
    /\ Receives(p, "kill")
    /\ Received(p)
    /\ todo' = <<check_sigFrame(KillTargets(p), call[p].sig, FALSE),
                 Then("kill_result", p), Sendreply>>
    /\ UNCHANGED <<flags, table, sigs, vfs, stop>>

do_exit(p) ==
    /\ Receives(p, "exit")
    /\ Received(p)
    /\ todo' = <<exit_procFrame(p, FALSE), Sendreply>>
    /\ UNCHANGED <<flags, table, sigs, vfs, stop>>

\* waitpid(pid, ..., options) for one child (to) or for any: a child that
\* qualifies and has exited is collected, otherwise the caller waits, unless it
\* said WNOHANG or no child qualifies (ECHILD).  INIT is a child of itself.
\* The third argument travels in sig_nr.
WNOHANG == 1
Children(p) ==
    {c \in InUse : parent[c] = p /\ ~Is(c, "TOLD_PARENT") /\ right_child(p, c)}

WaitCollects(p) ==
    /\ Receives(p, "waitpid")
    /\ Received(p)
    /\ \E c \in Children(p) :
         /\ Is(c, "ZOMBIE")
         /\ flags' = FlagsAfterTelling(c, ~Is(c, "VFS_CALL"))
    /\ todo' = <<Sendreply>>
    /\ UNCHANGED <<table, sigs, vfs, stop>>

WaitHangs(p) ==
    /\ Receives(p, "waitpid")
    /\ Received(p)
    /\ Children(p) # {} /\ call[p].sig # WNOHANG
    /\ \A c \in Children(p) : ~Is(c, "ZOMBIE")
    /\ flags' = [flags EXCEPT ![p] = @ \cup {"WAITING"}]
    /\ todo' = <<Sendreply>>
    /\ UNCHANGED <<table, sigs, vfs, stop>>

WaitRefused(p) ==
    /\ Receives(p, "waitpid")
    /\ Received(p)
    /\ \A c \in Children(p) : ~Is(c, "ZOMBIE")
    /\ Children(p) = {} \/ call[p].sig = WNOHANG
    /\ todo' = Answer(p)
    /\ UNCHANGED <<flags, table, sigs, vfs, stop>>

\* do_fork.  The child is a copy of its parent that waits for the same reply;
\* it keeps IN_USE and DELAY_CALL.
FreeSlots == Cardinality(InUse) < NR_PROCS

do_fork(p) ==
    /\ Receives(p, "fork")
    /\ FreeSlots
    /\ \E c \in Proc :
         LET Copied(f) == [f EXCEPT ![c] = f[p]] IN
         /\ kstate[c] = "none"
         /\ flags' = [flags EXCEPT ![c] = (flags[p] \cap {"IN_USE", "DELAY_CALL"})
                                            \cup {"VFS_CALL"}]
         /\ parent' = [parent EXCEPT ![c] = p]
         /\ pgrp' = Copied(pgrp)
         /\ ignore' = Copied(ignore)
         /\ catch' = Copied(catch)
         /\ pending' = Copied(pending)
         /\ ksigpending' = Copied(ksigpending)
         /\ sigmask' = Copied(sigmask)
         /\ tell_vfs("PM_FORK", c)
         /\ kstate' = [kstate EXCEPT ![p] = "receiving", ![c] = "receiving"]
         /\ call' = Copied(call)
    /\ todo' = <<Sendreply>>
    /\ UNCHANGED stop

\* No slot, or vm_fork fails.
ForkRefused(p) ==
    /\ Receives(p, "fork")
    /\ Received(p)
    /\ todo' = Answer(p)
    /\ UNCHANGED <<flags, table, sigs, vfs, stop>>

\* setuid, setgid, setsid, setgroups: PM asks VFS and answers after its reply.
do_setuid(p) ==
    /\ Receives(p, "setuid")
    /\ Received(p)
    /\ ~Is(p, "VFS_CALL")
    /\ flags' = [flags EXCEPT ![p] = @ \cup {"VFS_CALL"}]
    /\ tell_vfs("PM_SETUID", p)
    /\ todo' = <<Sendreply>>
    /\ UNCHANGED <<table, sigs, stop>>

PmCall(p) ==
    \/ DropCall(p) \/ do_pause(p) \/ do_sigsuspend(p)
    \/ do_sigprocmask_block(p) \/ do_sigprocmask_set(p) \/ do_sigaction(p)
    \/ do_kill(p) \/ do_exit(p) \/ WaitCollects(p) \/ WaitHangs(p) \/ WaitRefused(p)
    \/ do_fork(p) \/ ForkRefused(p) \/ do_setuid(p)

-----------------------------------------------------------------------------
(***************************************************************************)
(* process_ksig.  SIGSNDELAY is no signal for check_sig (it is not below   *)
(* _NSIG); any other is sent on with ksig, to the process or, for SIGINT   *)
(* and its like, to its group.                                             *)
(***************************************************************************)
KernelSignal(p, s) ==
    /\ todo = <<>>
    /\ Alive(p) /\ p # INIT_PROC_NR
    /\ mpgrp' = pgrp[p]
    /\ \E S \in {{p}, {q \in Proc : pgrp[q] = pgrp[p]}} :
          todo' = <<check_sigFrame(S, s, TRUE), Sendreply>>
    /\ post' = NoPost
    /\ UNCHANGED <<flags, table, sigs, vfs, kernel, stop>>

\* Mutant: the wait for the end of sending is not over.
SignalSendDelayKeep(p) ==
    /\ todo = <<>>
    /\ delay[p] = "raised"
    /\ todo' = <<Sendreply, Then("sys_endksig", p)>>
    /\ mpgrp' = IF Alive(p) THEN pgrp[p] ELSE mpgrp
    /\ post' = NoPost
    /\ UNCHANGED <<flags, table, sigs, vfs, kernel, stop>>

\* process_ksig panics: the process is stopped, but VFS does not have it.
BadDelayState(p) == Is(p, "DELAY_CALL") /\ Is(p, "PM_SIG_PENDING") /\ ~Is(p, "VFS_CALL")

\* The process is held until PM is done with the SIGSNDELAY (sys_endksig).
SignalSendDelay(p) ==
    LET Done == <<Sendreply, Then("sys_endksig", p)>> IN
    /\ todo = <<>>
    /\ delay[p] = "raised"
    /\ IF Alive(p) /\ Is(p, "DELAY_CALL")
       THEN /\ ~BadDelayState(p)
            /\ flags' = [flags EXCEPT ![p] = @ \ {"DELAY_CALL"}]
            /\ todo' = IF Is(p, "VFS_CALL") THEN Done
                       ELSE <<check_pendingFrame(p, 0), Then("ksig_end", p)>> \o Done
       ELSE todo' = Done /\ UNCHANGED flags
    /\ mpgrp' = IF Alive(p) THEN pgrp[p] ELSE mpgrp
    /\ post' = NoPost
    /\ UNCHANGED <<table, sigs, vfs, kernel, stop>>

sys_endksig ==
    /\ Top("sys_endksig")
    /\ delay' = [delay EXCEPT ![rmp] = "no"]
    /\ Return(<<>>)
    /\ post' = NoPost
    /\ UNCHANGED <<flags, table, sigs, mpgrp, vfs, kstate, call, stop>>

ksig_end ==
    /\ Top("ksig_end")
    /\ ~Is(rmp, "DELAY_CALL")
    /\ Return(<<>>)
    /\ OnlyControl

-----------------------------------------------------------------------------
(***************************************************************************)
(* The kernel and what runs outside PM.  A process runs unless it is in a  *)
(* call, stopped, or has a kernel signal PM has not seen.                  *)
(***************************************************************************)
Runs(p) == kstate[p] = "running" /\ ~stop[p] /\ delay[p] # "raised"

Sends(p, c) ==
    /\ Runs(p)
    /\ kstate' = [kstate EXCEPT ![p] = "sending"]
    /\ call' = [call EXCEPT ![p] = c]
    /\ post' = NoPost
    /\ UNCHANGED <<flags, table, sigs, mpgrp, todo, vfs, stop, delay>>

\* Another server, cv for one, takes the request, and answers it.
ServerReceives(p) ==
    /\ kstate[p] = "sending"
    /\ call[p].typ = "server"
    /\ Received(p)
    /\ SendingEnds(p)
    /\ post' = NoPost
    /\ UNCHANGED <<flags, table, sigs, mpgrp, todo, vfs, stop>>

ServerAnswers(p) ==
    /\ kstate[p] = "receiving"
    /\ call[p].typ = "server"
    /\ kstate' = [kstate EXCEPT ![p] = "running"]
    /\ post' = NoPost
    /\ UNCHANGED <<flags, table, sigs, mpgrp, todo, vfs, call, stop, delay>>

\* PM executes the function on top of its stack.
PmStep ==
    \/ SigDuringVfsCall \/ SigBlocked \/ SigIgnored \/ SigFatal
    \/ UnpauseLater \/ UnpauseBusy \/ UnpauseByVfs
    \/ \E ok \in BOOLEAN : sig_send(ok)
    \/ check_sig \/ check_pending \/ restart_sigs \/ restart_sigs_end
    \/ exit_proc \/ disinherit \/ check_parent \/ exit_restart_end
    \/ setreply \/ fork_failed \/ kill_result \/ sendreply \/ ksig_end \/ sys_endksig

Next ==
    \/ PmStep
    \/ \E p \in Proc : \/ PmCall(p) \/ handle_vfs_reply(p) \/ SignalSendDelay(p)
                       \/ ServerReceives(p) \/ ServerAnswers(p)
                       \/ \E s \in KernelSigs : KernelSignal(p, s)
                       \/ \E c \in Calls[p] : Sends(p, c)

Spec == Init /\ [][Next]_vars

\* PM runs on; the kernel passes on every message, reply and SIGSNDELAY in
\* the end (its queues are first come first served), VFS and the servers
\* answer.  Processes need not call, and the kernel need not signal.
Fairness ==
    /\ WF_vars(PmStep)
    /\ \A p \in Proc : /\ SF_vars(PmCall(p))
                       /\ SF_vars(handle_vfs_reply(p))
                       /\ SF_vars(SignalSendDelay(p))
                       /\ WF_vars(ServerReceives(p))

FairSpec == Spec /\ Fairness

-----------------------------------------------------------------------------
(***************************************************************************)
(* Properties.                                                             *)
(***************************************************************************)
Rest == todo = <<>>

\* Every variable stays in its range; in particular a stack frame names a
\* process and a signal and VFS is asked only what PM asks it.
TypeOK ==
    /\ flags \in [Proc -> SUBSET Flag]
    /\ parent \in [Proc -> Proc] /\ pgrp \in [Proc -> Proc]
    /\ \A f \in {pending, ksigpending, sigmask, ignore, catch} : f \in [Proc -> SUBSET Signal]
    /\ mpgrp \in Proc \cup {NoGroup}
    /\ vfs \subseteq [typ : {"PM_SETUID", "PM_UNPAUSE", "PM_FORK", "PM_EXIT", "PM_DUMPCORE"},
                      p : Proc]
    /\ post \in [typ : {"none", "CS_EINTR", "CS_EXIT"}, p : Proc]
    /\ kstate \in [Proc -> {"none", "running", "sending", "receiving", "cleared"}]
    /\ stop \in [Proc -> BOOLEAN]
    /\ delay \in [Proc -> {"no", "armed", "raised"}]
    /\ \A k \in DOMAIN todo : /\ todo[k].p \in Proc /\ todo[k].procs \subseteq Proc
                              /\ todo[k].s \in Signal \cup {0} /\ todo[k].k \in BOOLEAN

\* The panics about the state of a process in PM's own table, and the death of
\* INIT.  No action of PM is enabled there.  Not here: the panics about failed
\* calls of the kernel, VM and VFS, about endpoints and numbers out of range, and
\* two that the model cannot reach: do_fork's search for a slot (procs_in_use is
\* the size of InUse here) and "sig_send: process not unpaused" (one step does
\* unpause's work and sig_send's).
Panics ==
    \/ Top("sig_proc") /\ ~Alive(rmp)
    \/ Top("exit_proc") /\ (Is(rmp, "VFS_CALL") \/ rmp = INIT_PROC_NR)
    \/ Top("check_parent") /\ wait_test(parent[rmp], rmp) /\ ~MayTell(rmp)
    \/ Top("ksig_end") /\ Is(rmp, "DELAY_CALL")
    \/ Rest /\ \E r \in vfs : \/ ~VfsIdle(r.p)
                              \/ r.typ = "PM_DUMPCORE" /\ Is(r.p, "ZOMBIE")
    \/ Rest /\ \E p \in Proc : Alive(p) /\
          \/ delay[p] = "raised" /\ BadDelayState(p)
          \/ kstate[p] = "sending" /\ call[p].typ = "setuid" /\ Is(p, "VFS_CALL")

\* PM does not panic over the state of a process, in any of the places that
\* Panics takes from signal.c, forkexit.c, main.c and utility.c: no signal is sent
\* to a dead process, no second request to VFS about one process, no reply without
\* a request or with UNPAUSED set, no delay call in a bad state, no second zombie,
\* no parent told twice or of a live child; and INIT lives.
NeverPanics == ~Panics

\* Between messages a live process is stopped exactly when PM has a signal for
\* it and VFS owes PM the answer after which restart_sigs will resume it: no
\* path through unpause, sig_send, process_ksig and handle_vfs_reply leaves a
\* process stopped for good or running while PM believes it stopped.
StoppedOnlyForVfs ==
    Rest => \A p \in Proc : Alive(p) =>
        /\ stop[p] <=> Is(p, "PM_SIG_PENDING")
        /\ stop[p] => Is(p, "VFS_CALL")
        /\ ~Is(p, "UNPAUSED")

\* PM's VFS_CALL flag and VFS agree: a request is out for exactly the processes
\* that have the flag, and one only (tell_vfs, handle_vfs_reply).
VfsCallsMatch ==
    Rest => \A p \in Proc :
        Cardinality({r \in vfs : r.p = p}) = (IF Is(p, "VFS_CALL") THEN 1 ELSE 0)

\* What the cv server relies on (PmSignal in CvServer): when unpause posts
\* CS_EINTR the process is alive, stopped, and has no request on its way that
\* the message could overtake.
InterruptFollowsRequest ==
    post.typ = "CS_EINTR" => /\ Alive(post.p)
                             /\ stop[post.p]
                             /\ kstate[post.p] # "sending"

\* The server hears of a death exactly when it happens, once, and while the
\* kernel still knows the process: CS_EXIT is posted in the step in which the
\* process stops being alive, and sys_clear comes only after it.
ExitPostedOnce ==
    [][\A p \in Proc :
         /\ (Alive(p) /\ ~Alive(p)') <=> post' = [typ |-> "CS_EXIT", p |-> p]
         /\ (kstate[p] # "cleared" /\ kstate'[p] = "cleared")
               => Is(p, "EXITING") /\ post' = NoPost]_vars

\* No signal is forgotten: between messages, a live process with a pending
\* signal it does not block has a reply of VFS or a SIGSNDELAY coming, after
\* which check_pending runs.
PendingHasOccasion ==
    Rest => \A p \in Proc : Alive(p) /\ pending[p] \ sigmask[p] # {} =>
        Is(p, "VFS_CALL") \/ Is(p, "DELAY_CALL")

\* A delay call ends: the kernel has a SIGSNDELAY for every process that PM
\* expects one for.  A forked child inherits the flag and not the SIGSNDELAY,
\* so this is about the processes that were not forked.
DelayCallEnds ==
    Rest => \A p \in Booted : Alive(p) /\ Is(p, "DELAY_CALL") => delay[p] # "no"

\* sendreply answers no user process that is not waiting for PM: the EINTR of
\* sig_send, the answer of tell_parent and the result of the call never meet.
RepliesAwaited ==
    Top("sendreply") => \A p \in ToAnswer \ {INIT_PROC_NR} : AwaitsPm(p)

\* Between messages no wait is missed: a process hangs in waitpid only while
\* no child that it waits for is a zombie, and every process has a parent that will
\* hear of its death.
NoMissedChild ==
    Rest => \A c \in InUse :
        /\ Alive(parent[c])
        /\ Is(c, "ZOMBIE") => ~wait_test(parent[c], c)

\* A table slot is given back only when VFS, the kernel and the parent are all
\* done with its process, and always then.
SlotsGivenBack ==
    Rest => \A p \in Proc :
        kstate[p] # "none" => (p \notin InUse <=> kstate[p] = "cleared" /\ ~Is(p, "ZOMBIE"))

\* A child leaves its parent's sight once, as a zombie, and the parent gets a
\* reply for it, which it asked for, and for no other child: wait_test, tell_parent, cleanup and the
\* end of exit_restart, in whichever order VFS, the parent and the death come.
\* (INIT may have been sent the result of a dead process's fork at the same time.)
Reported(c) == kstate[c] # "none" /\ (c \notin InUse \/ Is(c, "TOLD_PARENT"))
ParentHearsOnce ==
    [][\A c \in Proc : kstate[c] # "none" /\ ~Reported(c) /\ Reported(c)' =>
          /\ Is(c, "ZOMBIE")
          /\ Is(parent[c], "REPLY")'
          /\ call[parent[c]].typ = "waitpid" /\ right_child(parent[c], c)
          /\ parent[c] # INIT_PROC_NR => ~Is(parent[c], "REPLY")
          /\ \A d \in Proc : Reported(d)' => Reported(d) \/ d = c]_vars

\* Every caught or fatal signal that is pending and not blocked is acted on or
\* its process dies, whatever else is going on.
SignalActedOn ==
    \A p \in Booted, s \in Signal :
        (s \in pending[p] \ sigmask[p]) ~> (s \notin pending[p] \ sigmask[p] \/ ~Alive(p))

-----------------------------------------------------------------------------
(***************************************************************************)
(* The inductive invariant behind the theorems of PmProofs.                *)
(***************************************************************************)
Function == {"sig_proc", "check_sig", "check_pending", "restart_sigs", "restart_sigs_end",
             "exit_proc", "disinherit", "check_parent", "exit_restart_end", "setreply",
             "fork_failed", "kill_result", "sendreply", "ksig_end", "sys_endksig"}
StackFrame ==
    {f \in [op : Function, p : Proc, s : Signal \cup {0}, k : BOOLEAN, procs : SUBSET Proc] :
        f.op \in {"sig_proc", "check_sig"} => f.s \in Signal}

TypeInv ==
    /\ TypeOK
    /\ todo \in Seq(StackFrame)
    /\ call \in [Proc -> CallType]
    /\ \A p \in Proc : call[p].typ \in NamesSignal => call[p].sig \in Signal

\* Function op of process p is on the stack at k, or somewhere.
At(k, op, p)   == todo[k].op = op /\ todo[k].p = p
OnStack(op, p) == \E k \in 1 .. Len(todo) : At(k, op, p)
Dying(p)       == todo # <<>> /\ At(1, "exit_proc", p)
Resuming(p)    == OnStack("restart_sigs", p) \/ OnStack("restart_sigs_end", p)

\* One request to VFS for a process that has VFS_CALL, none for any other.
VfsInv(p) ==
    /\ Is(p, "VFS_CALL") => \E r \in vfs : r.p = p
    /\ \A r, t \in vfs : r.p = p /\ t.p = p => r = t
    /\ \A r \in vfs : r.p = p =>
         /\ Is(p, "VFS_CALL")
         /\ r.typ \in {"PM_EXIT", "PM_DUMPCORE"} <=> Is(p, "EXITING")
         /\ r.typ = "PM_EXIT" => Is(p, "ZOMBIE") \/ Is(p, "TOLD_PARENT")
         /\ r.typ = "PM_UNPAUSE" => Is(p, "PM_SIG_PENDING")

\* From alive to exiting, with VFS; to cleared, without; and out of the table,
\* where a process that has not been forked yet is not either.
LifeInv(p) ==
    /\ flags[p] \cap {"EXITING", "VFS_CALL"} # {} => Is(p, "IN_USE")
    /\ Is(p, "ZOMBIE") \/ Is(p, "TOLD_PARENT") => Is(p, "EXITING")
    /\ Is(p, "EXITING") => Is(p, "VFS_CALL") \/ kstate[p] = "cleared"
    /\ kstate[p] = "cleared" => ~Alive(p) /\ ~Is(p, "VFS_CALL")
    /\ kstate[p] = "none" => ~Is(p, "IN_USE") /\ ~stop[p] /\ p \notin Booted
    /\ ~Is(p, "IN_USE") => kstate[p] \in {"none", "cleared"}
    /\ Is(p, "IN_USE") /\ kstate[p] = "cleared" /\ ~Is(p, "ZOMBIE") =>
         Is(p, "TOLD_PARENT") /\ OnStack("exit_restart_end", p)

\* A live process is stopped for its signals, until restart_sigs is done.
StopInv(p) ==
    Alive(p) =>
        /\ Is(p, "PM_SIG_PENDING") => stop[p]
        /\ stop[p] => Is(p, "PM_SIG_PENDING") \/ Dying(p)
        /\ Is(p, "PM_SIG_PENDING") => Is(p, "VFS_CALL") \/ Resuming(p) \/ Dying(p)
        /\ Is(p, "UNPAUSED") => (~Is(p, "VFS_CALL") /\ Is(p, "PM_SIG_PENDING")) \/ Dying(p)

\* PM and the kernel agree on who is to be stopped when it has sent.
DelayInv(p) ==
    /\ p \in Booted /\ Alive(p) /\ Is(p, "DELAY_CALL") => delay[p] # "no"
    /\ delay[p] = "raised" => kstate[p] # "sending"

ProcInv(p) == VfsInv(p) /\ LifeInv(p) /\ StopInv(p) /\ DelayInv(p)

\* Who dies is alive until then and dies at once.  exit_restart goes on when the
\* kernel has forgotten the process.  A parent is told without cleaning up only
\* if somebody else will clean up.  The kernel holds a process until PM is done
\* with its SIGSNDELAY, which is the last thing PM does.
StackInv ==
    \A k \in 1 .. Len(todo) :
        /\ todo[k].op = "exit_proc" => k = 1 /\ Alive(todo[k].p)
        /\ todo[k].op = "exit_restart_end" => kstate[todo[k].p] = "cleared"
        /\ todo[k].op = "check_parent" /\ ~todo[k].k =>
             \/ Is(todo[k].p, "VFS_CALL")
             \/ \E l \in k + 1 .. Len(todo) : At(l, "exit_restart_end", todo[k].p)
        /\ todo[k].op = "sys_endksig" =>
             /\ k = Len(todo)
             /\ delay[todo[k].p] = "raised"
             /\ Alive(todo[k].p) => ~Is(todo[k].p, "DELAY_CALL")

PmInv == TypeInv /\ StackInv /\ \A p \in Proc : ProcInv(p)

-----------------------------------------------------------------------------
(***************************************************************************)
(* The invariant behind the theorems of PmFamilyProofs.                    *)
(***************************************************************************)

\* INIT waits for its children, whichever comes first, and does nothing else;
\* nobody signals it.
InitOnlyWaits ==
    /\ \A c \in Calls[INIT_PROC_NR] : c.typ = "waitpid" /\ c.to = {}
    /\ \A p \in Proc : \A c \in Calls[p] : c.typ = "kill" => INIT_PROC_NR \notin c.to

\* Then INIT lives, VFS never has it, and no signal does anything to it.
InitInv ==
    /\ Is(INIT_PROC_NR, "IN_USE")
    /\ flags[INIT_PROC_NR] \subseteq {"IN_USE", "WAITING", "REPLY"}
    /\ ignore[INIT_PROC_NR] \cup catch[INIT_PROC_NR] \cup sigmask[INIT_PROC_NR] = {}
    /\ call[INIT_PROC_NR].to = {}
    /\ Is(INIT_PROC_NR, "WAITING") \/ kstate[INIT_PROC_NR] = "sending"
         => call[INIT_PROC_NR].typ = "waitpid"
    /\ \A p \in Proc : pgrp[p] = INIT_PROC_NR <=> p = INIT_PROC_NR
    /\ \A p \in Proc : call[p].typ = "kill" => INIT_PROC_NR \notin call[p].to

\* Dead, and VFS has not let go of it.
Leaving(p) == Is(p, "EXITING") /\ Is(p, "VFS_CALL")

\* The functions that have the answer to the request PM works on.
Answering == {"setreply", "kill_result", "fork_failed"}

\* Frame f at k: a signal goes to a live process, at once; a zombie is reported
\* at once; who dies is not with VFS; and the loops of the dead and of the
\* signalled go on only until VFS is done with their process.
CalledInv(k, f) ==
    /\ f.op \in {"sig_proc", "check_parent"} => k = 1
    /\ f.op = "sig_proc" => Alive(f.p) /\ (f.p = INIT_PROC_NR => f.s = SIGCHLD /\ ~f.k)
    /\ f.op = "check_parent" => Is(f.p, "ZOMBIE")
    /\ f.op = "check_pending" => IF f.s = 0 THEN k = 1 /\ Alive(f.p)
                                 ELSE Alive(f.p) \/ Leaving(f.p)
    /\ f.op = "check_sig" => INIT_PROC_NR \notin f.procs
    /\ f.op \in {"check_pending", "restart_sigs", "restart_sigs_end", "exit_proc"}
         => f.p # INIT_PROC_NR
    /\ f.op = "exit_proc" => ~Is(f.p, "VFS_CALL")
    /\ f.op = "disinherit" => Leaving(f.p)
    /\ f.op = "ksig_end" => ~Is(f.p, "DELAY_CALL") /\ delay[f.p] = "raised"
CallsInv ==
    /\ \A k \in 1 .. Len(todo) : CalledInv(k, todo[k])
    /\ \A k, l \in 1 .. Len(todo) : todo[k].op \in Answering /\ todo[l].op \in Answering => k = l

\* A process in the table has a live parent, or one whose children are about to
\* be adopted.
ParentInv(c) ==
    Is(c, "IN_USE") =>
        \/ Alive(parent[c])
        \/ \E k \in 1 .. Len(todo) : At(k, "disinherit", parent[c]) /\ c \in todo[k].procs

\* A zombie its parent waits for is being reported.
ZombieInv(c) ==
    Is(c, "ZOMBIE") /\ wait_test(parent[c], c) => todo # <<>> /\ At(1, "check_parent", c)

\* A dead process waits for nothing and is reported once, after its core is dumped.
DeadInv(c) ==
    /\ Is(c, "EXITING") => flags[c] \cap (Hanging \cup {"UNPAUSED"}) = {}
    /\ ~(Is(c, "ZOMBIE") /\ Is(c, "TOLD_PARENT"))
    /\ \A r \in vfs : r.p = c /\ r.typ = "PM_DUMPCORE" => ~Is(c, "ZOMBIE") /\ ~Is(c, "TOLD_PARENT")

\* Where the answer to p's request is to come from: VFS, or a function on the stack.
Asked(r, p)   == \/ r.typ = "PM_SETUID" /\ r.p = p
                 \/ r.typ = "PM_FORK" /\ p \in {r.p, parent[r.p]}
Answers(f, p) == \/ f.op \in {"setreply", "kill_result"} /\ f.p = p
                 \/ f.op = "fork_failed" /\ parent[f.p] = p
Forwarded(p)  == \E r \in vfs : Asked(r, p)
Answered(p)   == \E k \in 1 .. Len(todo) : Answers(todo[k], p)
AskedOnce(p)  == \A r, t \in vfs : Asked(r, p) /\ Asked(t, p) => r = t

\* A process awaits whatever PM will send it, and PM will send it one thing.
\* While it is with VFS or about to be resumed it sends nothing.
OwedInv(p) ==
    /\ Is(p, "REPLY") \/ HangsInPm(p) \/ Answered(p) \/ Forwarded(p) => AwaitsPm(p)
    /\ Is(p, "REPLY") => ~HangsInPm(p) /\ ~Answered(p) /\ ~Forwarded(p)
    /\ HangsInPm(p) => ~Answered(p) /\ ~Forwarded(p)
    /\ Answered(p) => ~Forwarded(p)
    /\ AskedOnce(p)
    /\ Is(p, "PAUSED") => call[p].typ = "pause"
    /\ Is(p, "SIGSUSPENDED") => call[p].typ = "sigsuspend"
    /\ Is(p, "WAITING") => call[p].typ = "waitpid"
    /\ Is(p, "VFS_CALL") \/ Is(p, "PM_SIG_PENDING") => kstate[p] # "sending"

FamilyInv ==
    /\ InitInv
    /\ CallsInv
    /\ \A p \in Proc : ParentInv(p) /\ ZombieInv(p) /\ DeadInv(p)
    /\ \A p \in Proc \ {INIT_PROC_NR} : Alive(p) => OwedInv(p)

-----------------------------------------------------------------------------
(***************************************************************************)
(* The invariant behind the theorem of PmPendingProofs.                    *)
(***************************************************************************)

\* No process makes a call that PM forwards to VFS.
NothingForwarded ==
    \A p \in Proc : \A c \in Calls[p] : c.typ \notin {"setuid", "fork"}

ForwardInv ==
    /\ \A p \in Proc : call[p].typ \notin {"setuid", "fork"}
    /\ \A r \in vfs : r.typ \notin {"PM_SETUID", "PM_FORK"}

\* Signal s of p will be looked at: after VFS's answer or a SIGSNDELAY, by a loop
\* of check_pending that has not come to s yet, or by the one restart_sigs is
\* about to start.
HasOccasion(p, s) ==
    \/ Is(p, "VFS_CALL") \/ Is(p, "DELAY_CALL")
    \/ \E k \in 1 .. Len(todo) : At(k, "check_pending", p) /\ todo[k].s < s
    \/ Is(p, "PM_SIG_PENDING") /\ todo # <<>> /\ At(1, "restart_sigs", p)

OccasionInv(p) == Alive(p) => \A s \in pending[p] \ sigmask[p] : HasOccasion(p, s)

PendingInv == ForwardInv /\ \A p \in Proc : OccasionInv(p)

=============================================================================
