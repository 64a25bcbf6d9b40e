------------------------------- MODULE MCPm -------------------------------
(***************************************************************************)
(* Instances of Pm for TLC: the requests processes make.                   *)
(***************************************************************************)
EXTENDS Pm

CONSTANTS a, b, c

SIGUSR  == 10
SIGSEGV == 11

Request(typ, sig, set, to) == [typ |-> typ, sig |-> sig, set |-> set, to |-> to]
Simple(typ) == Request(typ, 0, {}, {})
Kill(p, s) == Request("kill", s, {}, {p})

\* What a process under signals does: it catches, ignores and blocks them, and
\* waits in PM, in VFS or in another server.
Target ==
    {Simple("pause"), Simple("server"), Simple("exit"),
     Request("sigsuspend", 0, {}, {}),
     Request("sigblock", 0, {SIGUSR, SIGSEGV}, {}),
     Request("sigsetmask", 0, {}, {}),
     Request("handler", SIGUSR, {}, {}), Request("SIG_DFL", SIGUSR, {}, {}),
     Request("handler", SIGSEGV, {}, {}), Request("SIG_IGN", SIGSEGV, {}, {})}

\* b signals a.  SIGKILL cannot be ignored, nor sent to INIT.
SignalCalls ==
    [p \in Proc |->
       IF p = a THEN Target \cup {Simple("setuid"), Kill(a, SIGKILL),
                                Request("SIG_IGN", SIGKILL, {}, {})}
       ELSE IF p = b THEN {Kill(a, SIGUSR), Kill(INIT_PROC_NR, SIGKILL)}
       ELSE {}]

\* One process, no call that PM forwards to VFS, signals of the kernel only.
PendingCalls == [p \in Proc |-> IF p = a THEN Target ELSE {}]
\* The same with such a call.
ForwardedCalls == [p \in Proc |-> IF p = a THEN Target \cup {Simple("setuid")} ELSE {}]

\* Families: a process waits for any child or for b, its children and grandchild
\* die in every way.
FamilyCalls ==
    [p \in Proc |->
       CASE p = INIT_PROC_NR -> {Simple("waitpid")}
         [] p = a -> {Simple("fork"), Simple("exit"), Simple("waitpid"),
                      Request("waitpid", WNOHANG, {}, {}), Request("waitpid", 0, {}, {b}),
                      Request("handler", SIGCHLD, {}, {})}
         [] p = b -> {Simple("fork"), Simple("exit")}
         [] OTHER -> {Simple("exit"), Kill(a, SIGSEGV), Kill(b, SIGSEGV)}]

\* A process that neither sends nor receives has no request: what call holds is
\* the last one, which nothing reads.
NoStaleCall == <<flags, parent, pgrp, pending, ksigpending, sigmask, ignore, catch,
                 mpgrp, todo, vfs, post, kstate, stop, delay,
                 [p \in Proc |-> IF kstate[p] \in {"sending", "receiving"} THEN call[p]
                                 ELSE Simple("none")]>>
===========================================================================
