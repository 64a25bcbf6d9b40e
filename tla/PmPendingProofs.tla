--------------------------- MODULE PmPendingProofs ---------------------------
(***************************************************************************)
(* No signal is forgotten as long as no process makes a call that PM       *)
(* forwards to VFS.  PendingInv is inductive together with PmInv.          *)
(***************************************************************************)
EXTENDS PmProofs

\* The frames under the top stay on the stack.
BelowKept == \A j \in 2 .. Len(todo) : \E k \in 1 .. Len(todo') : todo'[k] = todo[j]

LEMMA ReturnKeepsBelow ==
    ASSUME todo \in Seq(StackFrame), todo # <<>>, NEW S, NEW fr \in Seq(S), Return(fr)
    PROVE  BelowKept
<1>1. PICK T : T = S \cup StackFrame
  OBVIOUS
<1>2. PICK rest : rest = Tail(todo)
  OBVIOUS
<1>r. rest \in Seq(StackFrame) /\ Len(rest) = Len(todo) - 1 /\ \A i \in 1 .. Len(rest) : rest[i] = todo[i + 1]
  BY <1>2
<1>s. rest \in Seq(T)
  <2>1. \A i \in 1 .. Len(rest) : rest[i] \in T
    BY <1>1, <1>r
  <2> QED BY <1>r, <2>1
<1>t. PICK m \in Nat, n \in Nat : m = Len(fr) /\ n = Len(rest)
  BY <1>r
<1>3. fr \in Seq(T)
  <2>1. \A i \in 1 .. Len(fr) : fr[i] \in T
    BY <1>1
  <2> QED BY <2>1
<1>4. PICK z : z = fr \o rest /\ todo' = z
  BY <1>2 DEF Return
<1>5. Len(z) = m + n /\ \A i \in 1 .. m + n : z[i] = IF i <= m THEN fr[i] ELSE rest[i - m]
  BY <1>3, <1>4, <1>s, <1>t, ConcatProperties
<1> SUFFICES ASSUME NEW j \in 2 .. Len(todo) PROVE \E k \in 1 .. Len(todo') : todo'[k] = todo[j]
  BY DEF BelowKept
<1>6. PICK k \in 1 .. m + n : k = m + j - 1 /\ ~(k <= m) /\ k - m \in 1 .. n /\ k - m + 1 = j
  <2>1. j \in Int /\ j >= 2 /\ j <= n + 1
    BY <1>r, <1>t
  <2> QED BY <2>1
<1>7. z[k] = todo[j]
  <2>1. z[k] = rest[k - m]
    BY <1>5, <1>6
  <2>2. rest[k - m] = todo[k - m + 1]
    BY <1>6, <1>r, <1>t
  <2> QED BY <1>6, <2>1, <2>2
<1> QED BY <1>4, <1>5, <1>6, <1>7

LEMMA NothingReturned ==
    ASSUME todo \in Seq(StackFrame), todo # <<>>, Return(<<>>)
    PROVE  BelowKept
<1>1. <<>> \in Seq({})
  OBVIOUS
<1> QED BY <1>1, ReturnKeepsBelow

LEMMA OneReturned ==
    ASSUME todo \in Seq(StackFrame), todo # <<>>, NEW f, Return(<<f>>)
    PROVE  BelowKept
<1>1. <<f>> \in Seq({f})
  OBVIOUS
<1> QED BY <1>1, ReturnKeepsBelow

LEMMA TwoReturned ==
    ASSUME todo \in Seq(StackFrame), todo # <<>>, NEW f, NEW g, Return(<<f, g>>)
    PROVE  BelowKept
<1>1. <<f, g>> \in Seq({f, g})
  OBVIOUS
<1> QED BY <1>1, ReturnKeepsBelow

LEMMA StepKeepsBelow ==
    ASSUME PmInv, PmStep
    PROVE  BelowKept
<1>0. todo \in Seq(StackFrame) /\ todo # <<>>
  BY TypesSplit DEF PmInv, PmStep, SigDuringVfsCall, SigBlocked, SigIgnored, SigFatal, UnpauseLater,
         UnpauseBusy, UnpauseByVfs, sig_send, Caught, Considered, check_sig, check_pending,
         restart_sigs, restart_sigs_end, exit_proc, disinherit, check_parent, exit_restart_end,
         setreply, fork_failed, kill_result, sendreply, ksig_end, sys_endksig, Top
<1>1. CASE Return(<<>>)
  BY <1>0, <1>1, NothingReturned
<1>2. CASE \E f : Return(<<f>>)
  BY <1>0, <1>2, OneReturned
<1>3. CASE \E f, g : Return(<<f, g>>)
  BY <1>0, <1>3, TwoReturned
<1>4. CASE check_sig
  BY <1>1, <1>2, <1>3, <1>4 DEF check_sig
<1>5. CASE check_pending
  BY <1>1, <1>3, <1>5 DEF check_pending
<1>6. CASE restart_sigs
  BY <1>1, <1>3, <1>6 DEF restart_sigs
<1>7. ASSUME NEW ok \in BOOLEAN, sig_send(ok) PROVE BelowKept
  BY <1>1, <1>2, <1>7 DEF sig_send
<1>8. CASE check_parent
  BY <1>1, <1>2, <1>8 DEF check_parent
<1>9. CASE exit_proc
  <2>1. PICK h, d, g : /\ h = check_parentFrame(rmp, FALSE) /\ d = Frame("disinherit", rmp, 0, FALSE, Proc)
                       /\ g = check_sigFrame({q \in Proc : pgrp[q] = mpgrp}, SIGHUP, FALSE)
    OBVIOUS
  <2>2. PICK x, y : x = (IF ksig THEN <<>> ELSE <<h>>) /\ y = Hangup(rmp)
    OBVIOUS
  <2>3. PICK S : S = {h, d, g}
    OBVIOUS
  <2>4. <<>> \in Seq(S) /\ <<h>> \in Seq(S) /\ <<d>> \in Seq(S) /\ <<g>> \in Seq(S)
    BY <2>3
  <2>5. x \in Seq(S) /\ y \in Seq(S)
    <3>1. y = <<>> \/ y = <<g>>
      BY <2>1, <2>2 DEF Hangup
    <3> QED BY <2>2, <2>4, <3>1
  <2>6. x \o <<d>> \in Seq(S)
    BY <2>4, <2>5, ConcatProperties
  <2>7. x \o <<d>> \o y \in Seq(S)
    BY <2>5, <2>6, ConcatProperties
  <2>8. Return(x \o <<d>> \o y)
    BY <1>9, <2>1, <2>2, Zenon DEF exit_proc
  <2> QED BY <1>0, <2>7, <2>8, ReturnKeepsBelow
<1>10. CASE disinherit
  <2>1. ASSUME NEW c, Return(NotifyInit(c) \o <<[Head(todo) EXCEPT !.procs = @ \ {c}]>>) PROVE BelowKept
    <3>1. PICK h, d : h = check_parentFrame(c, TRUE) /\ d = [Head(todo) EXCEPT !.procs = @ \ {c}]
      OBVIOUS
    <3>2. PICK S, x : S = {h, d} /\ x = NotifyInit(c)
      OBVIOUS
    <3>3. <<>> \in Seq(S) /\ <<h>> \in Seq(S) /\ <<d>> \in Seq(S)
      BY <3>2
    <3>4. x \in Seq(S)
      BY <3>1, <3>2, <3>3 DEF NotifyInit
    <3>5. x \o <<d>> \in Seq(S)
      BY <3>3, <3>4, ConcatProperties
    <3>6. Return(x \o <<d>>)
      BY <2>1, <3>1, <3>2, Zenon
    <3> QED BY <1>0, <3>5, <3>6, ReturnKeepsBelow
  <2> QED BY <1>1, <1>10, <2>1 DEF disinherit
<1>11. CASE SigFatal
  BY <1>2, <1>11 DEF SigFatal
<1>12. CASE \/ SigDuringVfsCall \/ SigBlocked \/ SigIgnored \/ UnpauseLater \/ UnpauseBusy
            \/ UnpauseByVfs \/ restart_sigs_end \/ exit_restart_end \/ setreply \/ fork_failed
            \/ kill_result \/ sendreply \/ ksig_end \/ sys_endksig
  BY <1>1, <1>12 DEF SigDuringVfsCall, SigBlocked, SigIgnored, UnpauseLater, UnpauseBusy, UnpauseByVfs,
         restart_sigs_end, exit_restart_end, setreply, fork_failed, kill_result, sendreply, ksig_end,
         sys_endksig
<1> QED BY <1>4, <1>5, <1>6, <1>7, <1>8, <1>9, <1>10, <1>11, <1>12 DEF PmStep

-----------------------------------------------------------------------------
(***************************************************************************)
(* One process.                                                            *)
(***************************************************************************)

\* What a step may do to q: no signal of it comes to be looked at, unless VFS or
\* a SIGSNDELAY will be the occasion.
Calm(q) ==
    Alive(q)' =>
        /\ Alive(q)
        /\ Is(q, "VFS_CALL") => Is(q, "VFS_CALL")'
        /\ Is(q, "DELAY_CALL") => Is(q, "DELAY_CALL")'
        /\ \/ pending'[q] \ sigmask'[q] \subseteq pending[q] \ sigmask[q]
           \/ Is(q, "VFS_CALL")' \/ Is(q, "DELAY_CALL")'

\* A step that ends no loop that looks at q's signals.
LEMMA OccasionKept ==
    ASSUME PmInv, NEW q \in Proc, OccasionInv(q), Calm(q), BelowKept,
           todo # <<>> => todo[1].op \notin {"check_pending", "restart_sigs"}
    PROVE  OccasionInv(q)'
<1> SUFFICES ASSUME Alive(q)', NEW s \in pending'[q] \ sigmask'[q] PROVE HasOccasion(q, s)'
  BY DEF OccasionInv
<1>1. CASE Is(q, "VFS_CALL")' \/ Is(q, "DELAY_CALL")'
  BY <1>1 DEF HasOccasion
<1>2. CASE ~Is(q, "VFS_CALL")' /\ ~Is(q, "DELAY_CALL")'
  <2>1. HasOccasion(q, s) /\ ~Is(q, "VFS_CALL") /\ ~Is(q, "DELAY_CALL")
    BY <1>2 DEF Calm, OccasionInv
  <2>2. ~(todo # <<>> /\ At(1, "restart_sigs", q))
    BY DEF At
  <2>3. PICK k \in 1 .. Len(todo) : At(k, "check_pending", q) /\ todo[k].s < s
    BY <2>1, <2>2 DEF HasOccasion
  <2>4. todo \in Seq(StackFrame)
    BY TypesSplit DEF PmInv
  <2>5. k \in 2 .. Len(todo)
    <3>1. Len(todo) \in Nat /\ todo # <<>>
      BY <2>3, <2>4
    <3>2. k # 1
      BY <2>3, <3>1 DEF At
    <3> QED BY <2>3, <3>1, <3>2
  <2>6. PICK j \in 1 .. Len(todo') : todo'[j] = todo[k]
    BY <2>5 DEF BelowKept
  <2>7. todo'[j].op = "check_pending" /\ todo'[j].p = q /\ todo'[j].s < s
    BY <2>3, <2>6 DEF At
  <2> QED BY <2>7 DEF HasOccasion, At
<1> QED BY <1>1, <1>2

\* Nothing that matters changes.
LEMMA OccasionSame ==
    ASSUME NEW q, OccasionInv(q), UNCHANGED <<flags, pending, sigmask, todo>>
    PROVE  OccasionInv(q)'
BY DEF OccasionInv, HasOccasion, Alive, Is, At

LEMMA CalmSame ==
    ASSUME NEW q, flags'[q] = flags[q],
           pending'[q] \ sigmask'[q] \subseteq pending[q] \ sigmask[q]
    PROVE  Calm(q)
BY DEF Calm, Alive, Is

\* The flags of x change.
LEMMA CalmOne ==
    ASSUME VarTypes, NEW x \in Proc, NEW F, flags' = [flags EXCEPT ![x] = F],
           \/ "IN_USE" \notin F \/ "EXITING" \in F
           \/ \A f \in {"VFS_CALL", "DELAY_CALL"} : f \in flags[x] => f \in F,
           "IN_USE" \in F /\ "EXITING" \notin F => "IN_USE" \in flags[x] /\ "EXITING" \notin flags[x],
           \A q \in Proc : \/ pending'[q] \ sigmask'[q] \subseteq pending[q] \ sigmask[q]
                           \/ q = x /\ ("VFS_CALL" \in F \/ "DELAY_CALL" \in F)
    PROVE  \A q \in Proc : Calm(q)
<1>1. flags'[x] = F /\ \A q \in Proc \ {x} : flags'[q] = flags[q]
  BY DEF VarTypes
<1>2. Calm(x)
  BY <1>1 DEF Calm, Alive, Is
<1>3. \A q \in Proc \ {x} : Calm(q)
  BY <1>1, CalmSame
<1> QED BY <1>2, <1>3

\* A signal becomes pending.
LEMMA AddingPending ==
    ASSUME VarTypes, NEW x \in Proc, x = rmp, AddPending
    PROVE  /\ sigmask' = sigmask
           /\ pending'[x] = pending[x] \cup {signo}
           /\ \A q \in Proc \ {x} : pending'[q] = pending[q]
BY DEF AddPending, VarTypes

\* A zombie is reported.
LEMMA TellingCalm ==
    ASSUME PmInv, NEW c \in Proc, Is(c, "ZOMBIE"), ~Is(parent[c], "EXITING"), NEW clean,
           flags' = FlagsAfterTelling(c, clean), UNCHANGED <<pending, sigmask>>
    PROVE  \A q \in Proc : Calm(q)
<1>0. VarTypes /\ ProcInv(c)
  BY TypesSplit DEF PmInv
<1>1. Is(c, "EXITING")
  BY <1>0 DEF ProcInv, LifeInv
<1>2. PICK x \in Proc : x = parent[c] /\ x # c
  BY <1>0, <1>1 DEF VarTypes
<1>3. flags'[c] = IF clean THEN {} ELSE (flags[c] \ {"ZOMBIE"}) \cup {"TOLD_PARENT"}
  BY <1>0, <1>2 DEF FlagsAfterTelling, VarTypes
<1>4. \A q \in Proc \ {c} : flags'[q] = flags[q] \/ flags'[q] = (flags[q] \ {"WAITING"}) \cup {"REPLY"}
  BY <1>0, <1>2 DEF FlagsAfterTelling, VarTypes
<1>5. flags'[c] = {} \/ "EXITING" \in flags'[c]
  BY <1>1, <1>3 DEF Is
<1>6. Calm(c)
  BY <1>5 DEF Calm, Alive
<1>7. \A q \in Proc \ {c} : Calm(q)
  BY <1>4 DEF Calm, Alive, Is
<1> QED BY <1>6, <1>7

\* The functions of PM that look at no pending signals.
LEMMA PmStepCalm ==
    ASSUME PmInv, PmStep, ~check_pending, ~restart_sigs
    PROVE  /\ \A q \in Proc : Calm(q)
           /\ todo[1].op \notin {"check_pending", "restart_sigs"}
<1>0. VarTypes
  BY TypesSplit DEF PmInv
<1>1. PICK op : Top(op) /\ op \notin {"check_pending", "restart_sigs"}
  BY DEF PmStep, SigDuringVfsCall, SigBlocked, SigIgnored, SigFatal, UnpauseLater, UnpauseBusy,
         UnpauseByVfs, sig_send, Caught, Considered, check_sig, check_parent,
         restart_sigs_end, exit_proc, disinherit, exit_restart_end, setreply, fork_failed,
         kill_result, sendreply, ksig_end, sys_endksig
<1>2. PICK p \in Proc : p = rmp
  BY <1>1, TopOf
<1>3. todo[1].op \notin {"check_pending", "restart_sigs"}
  BY <1>1, TopOf
<1>4. CASE \/ SigIgnored \/ SigFatal \/ check_sig \/ disinherit \/ ksig_end \/ sys_endksig
  <2>1. flags' = flags /\ pending' = pending /\ sigmask' = sigmask
    BY <1>4 DEF SigIgnored, SigFatal, check_sig, disinherit, ksig_end, sys_endksig, OnlyControl,
                OnlyFlags, sigs
  <2> QED BY <1>3, <2>1, CalmSame
<1>5. CASE SigBlocked
  <2>1. flags' = flags /\ AddPending /\ signo \in sigmask[p]
    BY <1>2, <1>5 DEF SigBlocked
  <2>2. /\ sigmask' = sigmask /\ pending'[p] = pending[p] \cup {signo}
        /\ \A q \in Proc \ {p} : pending'[q] = pending[q]
    BY <1>0, <1>2, <2>1, AddingPending
  <2>3. \A q \in Proc : pending'[q] \ sigmask'[q] \subseteq pending[q] \ sigmask[q]
    BY <2>1, <2>2
  <2> QED BY <1>3, <2>1, <2>3, CalmSame
<1>6. CASE UnpauseLater
  <2>1. flags' = flags /\ AddPending /\ Is(p, "DELAY_CALL")
    BY <1>2, <1>6 DEF UnpauseLater
  <2>2. sigmask' = sigmask /\ \A q \in Proc \ {p} : pending'[q] = pending[q]
    BY <1>0, <1>2, <2>1, AddingPending
  <2>3. Calm(p)
    BY <2>1 DEF Calm, Alive, Is
  <2>4. \A q \in Proc \ {p} : Calm(q)
    BY <2>1, <2>2, CalmSame
  <2> QED BY <1>3, <2>3, <2>4
<1>7. CASE SigDuringVfsCall \/ UnpauseBusy \/ UnpauseByVfs
  <2>1. AddPending /\ Alive(p)
    BY <1>2, <1>7 DEF SigDuringVfsCall, UnpauseBusy, UnpauseByVfs, Caught, Considered
  <2>2. sigmask' = sigmask /\ \A q \in Proc \ {p} : pending'[q] = pending[q]
    BY <1>0, <1>2, <2>1, AddingPending
  <2>3. PICK F : /\ flags' = [flags EXCEPT ![p] = F]
                 /\ flags[p] \subseteq F /\ "EXITING" \notin F
                 /\ "VFS_CALL" \in F \/ "DELAY_CALL" \in F
    <3>1. CASE SigDuringVfsCall
      <4>1. PICK F : F = flags[p] \cup {"PM_SIG_PENDING"}
        OBVIOUS
      <4>2. flags' = [flags EXCEPT ![p] = F] /\ "VFS_CALL" \in flags[p]
        BY <1>2, <3>1, <4>1 DEF SigDuringVfsCall, Is
      <4> QED BY <2>1, <4>1, <4>2 DEF Alive
    <3>2. CASE UnpauseBusy
      <4>1. PICK F : F = flags[p] \cup {"DELAY_CALL"}
        OBVIOUS
      <4>2. flags' = [flags EXCEPT ![p] = F]
        BY <1>2, <3>2, <4>1 DEF UnpauseBusy
      <4>3. flags[p] \subseteq F /\ "EXITING" \notin F /\ "DELAY_CALL" \in F
        BY <2>1, <4>1 DEF Alive
      <4> QED BY <4>2, <4>3
    <3>3. CASE UnpauseByVfs
      <4>1. PICK F : F = flags[p] \cup {"PM_SIG_PENDING", "VFS_CALL"}
        OBVIOUS
      <4>2. flags' = [flags EXCEPT ![p] = F]
        BY <1>2, <3>3, <4>1 DEF UnpauseByVfs
      <4>3. flags[p] \subseteq F /\ "EXITING" \notin F /\ "VFS_CALL" \in F
        BY <2>1, <4>1 DEF Alive
      <4> QED BY <4>2, <4>3
    <3> QED BY <1>7, <3>1, <3>2, <3>3
  <2>4. /\ \A f \in {"VFS_CALL", "DELAY_CALL"} : f \in flags[p] => f \in F
        /\ "IN_USE" \in F /\ "EXITING" \notin F => "IN_USE" \in flags[p] /\ "EXITING" \notin flags[p]
        /\ \A q \in Proc : \/ pending'[q] \ sigmask'[q] \subseteq pending[q] \ sigmask[q]
                           \/ q = p /\ ("VFS_CALL" \in F \/ "DELAY_CALL" \in F)
    BY <2>1, <2>2, <2>3 DEF Alive
  <2> QED BY <1>0, <1>3, <2>3, <2>4, CalmOne
<1>8. ASSUME NEW ok \in BOOLEAN, sig_send(ok) PROVE \A q \in Proc : Calm(q)
  <2>1. PICK F : /\ flags' = [flags EXCEPT ![p] = F]
                 /\ F = IF ok THEN FlagsAfterHandler(p) ELSE flags[p] \cup {"UNPAUSED"}
    BY <1>2, <1>8 DEF sig_send
  <2>2. \A f \in {"VFS_CALL", "DELAY_CALL", "IN_USE", "EXITING"} : f \in flags[p] <=> f \in F
    <3>1. CASE ok
      BY <2>1, <3>1 DEF FlagsAfterHandler, Hanging
    <3>2. CASE ~ok
      BY <2>1, <3>2
    <3> QED BY <3>1, <3>2
  <2>3. \A q \in Proc : pending'[q] \ sigmask'[q] \subseteq pending[q] \ sigmask[q]
    <3>1. /\ sigmask' = [sigmask EXCEPT ![p] = @ \cup {signo}]
          /\ pending' = [pending EXCEPT ![p] = @ \ {signo}]
      BY <1>2, <1>8 DEF sig_send
    <3> QED BY <1>0, <3>1 DEF VarTypes
  <2> QED BY <1>0, <2>1, <2>2, <2>3, CalmOne
<1>9. CASE restart_sigs_end \/ exit_restart_end \/ setreply \/ fork_failed \/ kill_result \/ sendreply
           \/ check_parent \/ exit_proc
  <2>1. pending' = pending /\ sigmask' = sigmask
    BY <1>9 DEF restart_sigs_end, exit_restart_end, setreply, fork_failed, kill_result, sendreply,
                check_parent, exit_proc, OnlyFlags, sigs
  <2>2. ASSUME restart_sigs_end PROVE \A q \in Proc : Calm(q)
    <3>1. ASSUME flags' = flags PROVE \A q \in Proc : Calm(q)
      BY <2>1, <3>1, CalmSame
    <3>2. ASSUME flags' = [flags EXCEPT ![p] = flags[p] \ {"PM_SIG_PENDING", "UNPAUSED"}]
          PROVE  \A q \in Proc : Calm(q)
      <4>1. PICK F : F = flags[p] \ {"PM_SIG_PENDING", "UNPAUSED"}
        OBVIOUS
      <4> QED BY <1>0, <2>1, <3>2, <4>1, CalmOne
    <3> QED BY <1>2, <2>2, <3>1, <3>2 DEF restart_sigs_end
  <2>3. ASSUME exit_restart_end PROVE \A q \in Proc : Calm(q)
    <3>1. ASSUME flags' = flags PROVE \A q \in Proc : Calm(q)
      BY <2>1, <3>1, CalmSame
    <3>2. ASSUME flags' = [flags EXCEPT ![p] = {}] PROVE \A q \in Proc : Calm(q)
      <4>1. PICK F : F = {}
        OBVIOUS
      <4> QED BY <1>0, <2>1, <3>2, <4>1, CalmOne
    <3> QED BY <1>2, <2>3, <3>1, <3>2 DEF exit_restart_end
  <2>4. ASSUME setreply \/ fork_failed \/ kill_result PROVE \A q \in Proc : Calm(q)
    <3>1. flags' = flags \/ \E q \in Proc : flags' = [flags EXCEPT ![q] = flags[q] \cup {"REPLY"}]
      BY <1>0, <1>2, <2>4 DEF setreply, fork_failed, kill_result, VarTypes
    <3>2. ASSUME NEW x \in Proc, flags' = [flags EXCEPT ![x] = flags[x] \cup {"REPLY"}]
          PROVE  \A q \in Proc : Calm(q)
      <4>1. PICK F : F = flags[x] \cup {"REPLY"}
        OBVIOUS
      <4> QED BY <1>0, <2>1, <3>2, <4>1, CalmOne
    <3> QED BY <2>1, <3>1, <3>2, CalmSame
  <2>5. ASSUME sendreply PROVE \A q \in Proc : Calm(q)
    <3>1. \A q \in Proc : flags'[q] = flags[q] \/ flags'[q] = flags[q] \ {"REPLY"}
      BY <2>5 DEF sendreply, FlagsAfterReplies
    <3> QED BY <2>1, <3>1 DEF Calm, Alive, Is
  <2>6. ASSUME check_parent PROVE \A q \in Proc : Calm(q)
    <3>1. ASSUME flags' = flags PROVE \A q \in Proc : Calm(q)
      BY <2>1, <3>1, CalmSame
    <3>2. ASSUME MayTell(p), ~Is(parent[p], "EXITING"), NEW clean, flags' = FlagsAfterTelling(p, clean)
          PROVE  \A q \in Proc : Calm(q)
      BY <2>1, <3>2, TellingCalm DEF MayTell
    <3> QED BY <1>2, <2>6, <3>1, <3>2 DEF check_parent
  <2>7. ASSUME exit_proc PROVE \A q \in Proc : Calm(q)
    <3>1. PICK F : flags' = [flags EXCEPT ![p] = F] /\ "EXITING" \in F
      BY <1>2, <2>7 DEF exit_proc
    <3> QED BY <1>0, <2>1, <3>1, CalmOne
  <2> QED BY <1>3, <1>9, <2>2, <2>3, <2>4, <2>5, <2>6, <2>7
<1> QED BY <1>3, <1>4, <1>5, <1>6, <1>7, <1>8, <1>9 DEF PmStep

-----------------------------------------------------------------------------
(***************************************************************************)
(* The functions that look at pending signals.                             *)
(***************************************************************************)

\* What is pushed is on top.
LEMMA PushedOnTop ==
    ASSUME todo \in Seq(StackFrame), todo # <<>>, NEW f, NEW g, Return(<<f, g>>)
    PROVE  1 \in 1 .. Len(todo') /\ 2 \in 1 .. Len(todo') /\ todo'[1] = f /\ todo'[2] = g
<1>0. PICK rest : rest = Tail(todo)
  OBVIOUS
<1>1. rest = Tail(todo) /\ rest \in Seq(StackFrame) /\ Len(rest) \in Nat
  BY <1>0
<1>2. todo' = <<f, g>> \o rest
  BY <1>1 DEF Return
<1> QED BY <1>1, <1>2

LEMMA CheckPendingOccasion ==
    ASSUME PmInv, check_pending, NEW q \in Proc, OccasionInv(q)
    PROVE  OccasionInv(q)'
<1>0. PICK p \in Proc : p = rmp
  BY TopOf DEF check_pending
<1>1. /\ VarTypes /\ todo \in Seq(StackFrame) /\ todo # <<>> /\ 1 \in 1 .. Len(todo)
      /\ signo \in Signal \cup {0}
      /\ todo[1].op = "check_pending" /\ todo[1].p = p /\ todo[1].s = signo
  BY <1>0, TopOf, TopTypes DEF check_pending, Top, signo
<1>2. BelowKept
  BY StepKeepsBelow DEF PmStep
<1>3. flags' = flags /\ sigmask' = sigmask
  BY DEF check_pending, sigs
<1>4. PICK i, T : i = Lowest(T) /\ T = Unblocked(p, signo)
  OBVIOUS
<1>5. CASE T = {} \/ (signo # 0 /\ Is(p, "VFS_CALL"))
  <2>1. pending' = pending
    BY <1>0, <1>4, <1>5 DEF check_pending, sigs
  <2> SUFFICES ASSUME Alive(q), NEW s \in pending[q] \ sigmask[q] PROVE HasOccasion(q, s)'
    BY <1>3, <2>1 DEF OccasionInv, Alive
  <2>2. HasOccasion(q, s)
    BY DEF OccasionInv
  <2>3. CASE Is(q, "VFS_CALL") \/ Is(q, "DELAY_CALL")
    BY <1>3, <2>3 DEF HasOccasion, Is
  <2>4. CASE ~Is(q, "VFS_CALL") /\ ~Is(q, "DELAY_CALL")
    <3>1. PICK k \in 1 .. Len(todo) : At(k, "check_pending", q) /\ todo[k].s < s
      BY <1>1, <2>2, <2>4 DEF HasOccasion, At
    <3>2. k # 1
      <4> SUFFICES ASSUME k = 1 PROVE FALSE
        OBVIOUS
      <4>1. q = p /\ signo < s
        BY <1>1, <3>1 DEF At
      <4>2. s \in T
        BY <1>4, <4>1 DEF Unblocked
      <4>3. T = {}
        BY <1>5, <2>4, <4>1
      <4> QED BY <4>2, <4>3
    <3>3. k \in 2 .. Len(todo)
      BY <1>1, <3>2
    <3>4. PICK j \in 1 .. Len(todo') : todo'[j] = todo[k]
      BY <1>2, <3>3 DEF BelowKept
    <3>5. todo'[j].op = "check_pending" /\ todo'[j].p = q /\ todo'[j].s < s
      BY <3>1, <3>4 DEF At
    <3> QED BY <3>5 DEF HasOccasion, At
  <2> QED BY <2>3, <2>4
<1>6. CASE ~(T = {} \/ (signo # 0 /\ Is(p, "VFS_CALL")))
  <2>1. /\ Return(<<sig_procFrame(p, i, i \in ksigpending[p]), check_pendingFrame(p, i)>>)
        /\ pending' = [pending EXCEPT ![p] = pending[p] \ {i}]
    BY <1>0, <1>4, <1>6 DEF check_pending
  <2>2. T \in SUBSET Signal /\ T # {}
    BY <1>1, <1>4, <1>6 DEF Unblocked, VarTypes
  <2>3. i \in T /\ \A t \in T : i <= t
    BY <1>4, <2>2, LowestFound
  <2>4. /\ pending'[p] = pending[p] \ {i}
        /\ \A x \in Proc \ {p} : pending'[x] = pending[x]
    BY <1>1, <2>1 DEF VarTypes
  <2>5. 2 \in 1 .. Len(todo') /\ todo'[2] = check_pendingFrame(p, i)
    BY <1>1, <2>1, PushedOnTop
  <2> SUFFICES ASSUME Alive(q), NEW s \in pending'[q] \ sigmask'[q] PROVE HasOccasion(q, s)'
    BY <1>3 DEF OccasionInv, Alive
  <2>6. s \in pending[q] \ sigmask[q] /\ (q = p => s # i)
    BY <1>3, <2>4
  <2>7. HasOccasion(q, s)
    BY <2>6 DEF OccasionInv
  <2>8. CASE Is(q, "VFS_CALL") \/ Is(q, "DELAY_CALL")
    BY <1>3, <2>8 DEF HasOccasion, Is
  <2>9. CASE ~Is(q, "VFS_CALL") /\ ~Is(q, "DELAY_CALL")
    <3>1. PICK k \in 1 .. Len(todo) : At(k, "check_pending", q) /\ todo[k].s < s
      BY <1>1, <2>7, <2>9 DEF HasOccasion, At
    <3>2. CASE k = 1
      <4>1. q = p /\ signo < s
        BY <1>1, <3>1, <3>2 DEF At
      <4>2. s \in T /\ s # i
        BY <1>4, <2>6, <4>1 DEF Unblocked
      <4>3. i \in Nat /\ s \in Nat
        BY <2>2, <2>3, <4>2, ProcAssumption
      <4>4. i < s
        BY <2>3, <4>2, <4>3
      <4>5. todo'[2].op = "check_pending" /\ todo'[2].p = q /\ todo'[2].s < s
        BY <2>5, <4>1, <4>4 DEF check_pendingFrame, Frame
      <4> QED BY <2>5, <4>5 DEF HasOccasion, At
    <3>3. CASE k # 1
      <4>1. k \in 2 .. Len(todo)
        BY <1>1, <3>3
      <4>2. PICK j \in 1 .. Len(todo') : todo'[j] = todo[k]
        BY <1>2, <4>1 DEF BelowKept
      <4>3. todo'[j].op = "check_pending" /\ todo'[j].p = q /\ todo'[j].s < s
        BY <3>1, <4>2 DEF At
      <4> QED BY <4>3 DEF HasOccasion, At
    <3> QED BY <3>2, <3>3
  <2> QED BY <2>8, <2>9
<1> QED BY <1>5, <1>6

LEMMA RestartSigsOccasion ==
    ASSUME PmInv, restart_sigs, NEW q \in Proc, OccasionInv(q)
    PROVE  OccasionInv(q)'
<1>0. PICK p \in Proc : p = rmp
  BY TopOf DEF restart_sigs
<1>1. /\ VarTypes /\ todo \in Seq(StackFrame) /\ todo # <<>> /\ 1 \in 1 .. Len(todo)
      /\ todo[1].op = "restart_sigs" /\ todo[1].p = p
  BY <1>0, TopOf DEF restart_sigs
<1>2. BelowKept
  BY StepKeepsBelow DEF PmStep
<1>3. flags' = flags /\ sigmask' = sigmask /\ pending' = pending
  BY DEF restart_sigs, OnlyControl, OnlyFlags, sigs
<1> SUFFICES ASSUME Alive(q), NEW s \in pending[q] \ sigmask[q],
                    ~Is(q, "VFS_CALL") /\ ~Is(q, "DELAY_CALL")
             PROVE  HasOccasion(q, s)'
  BY <1>3 DEF OccasionInv, HasOccasion, Alive, Is
<1>4. HasOccasion(q, s)
  BY DEF OccasionInv
<1>5. CASE \E k \in 1 .. Len(todo) : At(k, "check_pending", q) /\ todo[k].s < s
  <2>1. PICK k \in 1 .. Len(todo) : At(k, "check_pending", q) /\ todo[k].s < s
    BY <1>5
  <2>2. k \in 2 .. Len(todo)
    <3>1. k # 1
      BY <1>1, <2>1 DEF At
    <3> QED BY <1>1, <2>1, <3>1
  <2>3. PICK j \in 1 .. Len(todo') : todo'[j] = todo[k]
    BY <1>2, <2>2 DEF BelowKept
  <2>4. todo'[j].op = "check_pending" /\ todo'[j].p = q /\ todo'[j].s < s
    BY <2>1, <2>3 DEF At
  <2> QED BY <2>4 DEF HasOccasion, At
<1>6. CASE Is(q, "PM_SIG_PENDING") /\ todo # <<>> /\ At(1, "restart_sigs", q)
  <2>1. q = p
    BY <1>1, <1>6 DEF At
  <2>2. Return(<<check_pendingFrame(p, 0), Then("restart_sigs_end", p)>>)
    BY <1>0, <1>6, <2>1 DEF restart_sigs
  <2>3. 1 \in 1 .. Len(todo') /\ todo'[1] = check_pendingFrame(p, 0)
    BY <1>1, <2>2, PushedOnTop
  <2>4. s > 0
    BY <1>1, ProcAssumption DEF VarTypes
  <2>5. todo'[1].op = "check_pending" /\ todo'[1].p = q /\ todo'[1].s < s
    BY <2>1, <2>3, <2>4 DEF check_pendingFrame, Frame
  <2> QED BY <2>3, <2>5 DEF HasOccasion, At
<1> QED BY <1>4, <1>5, <1>6 DEF HasOccasion

LEMMA PmStepOccasion ==
    ASSUME PmInv, PmStep, NEW q \in Proc, OccasionInv(q)
    PROVE  OccasionInv(q)'
<1>1. CASE check_pending
  BY <1>1, CheckPendingOccasion
<1>2. CASE restart_sigs
  BY <1>2, RestartSigsOccasion
<1>3. CASE ~check_pending /\ ~restart_sigs
  <2>1. Calm(q) /\ todo[1].op \notin {"check_pending", "restart_sigs"}
    BY <1>3, PmStepCalm
  <2>2. BelowKept
    BY StepKeepsBelow
  <2> QED BY <2>1, <2>2, OccasionKept
<1> QED BY <1>1, <1>2, <1>3

-----------------------------------------------------------------------------
(***************************************************************************)
(* Messages to PM.                                                         *)
(***************************************************************************)
LEMMA StartKept ==
    ASSUME PmInv, todo = <<>>, NEW q \in Proc, OccasionInv(q), Calm(q)
    PROVE  OccasionInv(q)'
<1>1. BelowKept
  BY DEF BelowKept
<1> QED BY <1>1, OccasionKept

\* All signals of p are about to be looked at.
LEMMA LoopStarts ==
    ASSUME NEW p \in Proc, pending'[p] \subseteq Signal, 1 \in 1 .. Len(todo'),
           todo'[1] = check_pendingFrame(p, 0)
    PROVE  OccasionInv(p)'
<1> SUFFICES ASSUME NEW s \in pending'[p] PROVE HasOccasion(p, s)'
  BY DEF OccasionInv
<1>0. s \in Signal
  OBVIOUS
<1>1. 0 < s
  BY <1>0, ProcAssumption
<1>2. todo'[1].op = "check_pending" /\ todo'[1].p = p /\ todo'[1].s < s
  BY <1>1 DEF check_pendingFrame, Frame
<1> QED BY <1>2 DEF HasOccasion, At

LEMMA PmCallOccasion ==
    ASSUME PmInv, ForwardInv, NEW p \in Proc, PmCall(p), NEW q \in Proc, OccasionInv(q)
    PROVE  OccasionInv(q)'
<1>0. VarTypes
  BY TypesSplit DEF PmInv
<1>1. todo = <<>>
  BY DEF PmCall, DropCall, do_pause, do_sigsuspend, do_sigprocmask_block, do_sigprocmask_set,
         do_sigaction, do_kill, do_exit, WaitCollects, WaitHangs, WaitRefused, do_fork, ForkRefused,
         do_setuid, Receives
<1>2. ASSUME Calm(q) PROVE OccasionInv(q)'
  BY <1>1, <1>2, StartKept
<1>3. CASE \/ DropCall(p) \/ do_kill(p) \/ do_exit(p) \/ WaitRefused(p) \/ ForkRefused(p)
  <2>1. flags' = flags /\ pending' = pending /\ sigmask' = sigmask
    BY <1>3 DEF DropCall, do_kill, do_exit, WaitRefused, ForkRefused, sigs
  <2> QED BY <1>2, <2>1, CalmSame
<1>4. CASE do_sigprocmask_block(p) \/ do_sigaction(p)
  <2>1. flags' = flags
    BY <1>4 DEF do_sigprocmask_block, do_sigaction
  <2>2. pending'[q] \ sigmask'[q] \subseteq pending[q] \ sigmask[q]
    <3>1. CASE do_sigprocmask_block(p)
      <4>1. pending' = pending /\ sigmask' = [sigmask EXCEPT ![p] = @ \cup Catchable(call[p].set)]
        BY <3>1 DEF do_sigprocmask_block
      <4> QED BY <1>0, <4>1 DEF VarTypes
    <3>2. CASE do_sigaction(p)
      <4>1. sigmask' = sigmask
        BY <3>2 DEF do_sigaction
      <4>2. pending' = pending \/ pending' = [pending EXCEPT ![p] = @ \ Catchable({call[p].sig})]
        BY <3>2 DEF do_sigaction
      <4> QED BY <1>0, <4>1, <4>2 DEF VarTypes
    <3> QED BY <1>4, <3>1, <3>2
  <2> QED BY <1>2, <2>1, <2>2, CalmSame
<1>5. CASE do_pause(p) \/ WaitHangs(p)
  <2>1. pending' = pending /\ sigmask' = sigmask
    BY <1>5 DEF do_pause, WaitHangs, sigs
  <2>2. PICK f \in {"PAUSED", "WAITING"} : flags' = [flags EXCEPT ![p] = flags[p] \cup {f}]
    BY <1>5 DEF do_pause, WaitHangs
  <2>3. PICK F : F = flags[p] \cup {f}
    OBVIOUS
  <2>4. Calm(q)
    BY <1>0, <2>1, <2>2, <2>3, CalmOne
  <2> QED BY <1>2, <2>4
<1>6. CASE do_sigsuspend(p) \/ do_sigprocmask_set(p)
  <2>1. /\ pending' = pending /\ sigmask' = [sigmask EXCEPT ![p] = Catchable(call[p].set)]
        /\ flags' = flags \/ flags' = [flags EXCEPT ![p] = flags[p] \cup {"SIGSUSPENDED"}]
    BY <1>6 DEF do_sigsuspend, do_sigprocmask_set
  <2>2. CASE q = p
    <3>1. 1 \in 1 .. Len(todo') /\ todo'[1] = check_pendingFrame(p, 0)
      BY <1>6 DEF do_sigsuspend, do_sigprocmask_set, Answer
    <3>2. pending'[p] \subseteq Signal
      BY <1>0, <2>1 DEF VarTypes
    <3> QED BY <2>2, <3>1, <3>2, LoopStarts
  <2>3. CASE q # p
    <3>1. flags'[q] = flags[q] /\ pending'[q] = pending[q] /\ sigmask'[q] = sigmask[q]
      BY <1>0, <2>1, <2>3 DEF VarTypes
    <3> QED BY <1>2, <3>1, CalmSame
  <2> QED BY <2>2, <2>3
<1>7. CASE WaitCollects(p)
  <2>1. PICK c \in Children(p) : Is(c, "ZOMBIE") /\ flags' = FlagsAfterTelling(c, ~Is(c, "VFS_CALL"))
    BY <1>7 DEF WaitCollects
  <2>2. c \in Proc /\ parent[c] = p
    BY <2>1 DEF Children, InUse
  <2>3. ~Is(p, "EXITING") /\ UNCHANGED <<pending, sigmask>>
    BY <1>7 DEF WaitCollects, Receives, Alive, Is, sigs
  <2>4. PICK clean : flags' = FlagsAfterTelling(c, clean)
    BY <2>1
  <2>5. Calm(q)
    BY <2>1, <2>2, <2>3, <2>4, TellingCalm
  <2> QED BY <1>2, <2>5
<1>8. ~do_fork(p) /\ ~do_setuid(p)
  BY DEF do_fork, do_setuid, Receives, ForwardInv
<1> QED BY <1>3, <1>4, <1>5, <1>6, <1>7, <1>8 DEF PmCall

\* VFS answers: the process it has unpaused was stopped for a signal.
LEMMA VfsReplyOccasion ==
    ASSUME PmInv, ForwardInv, NEW p \in Proc, handle_vfs_reply(p), NEW q \in Proc, OccasionInv(q)
    PROVE  OccasionInv(q)'
<1>0. VarTypes /\ ProcInv(p)
  BY TypesSplit DEF PmInv
<1>1. todo = <<>> /\ pending' = pending /\ sigmask' = sigmask
  BY DEF handle_vfs_reply, SetuidReply, UnpauseReply, ExitReply, CoreReply, ForkReply, VfsReply, sigs
<1>2. ASSUME Calm(q) PROVE OccasionInv(q)'
  BY <1>1, <1>2, StartKept
<1>3. ~SetuidReply(p) /\ \A ok \in BOOLEAN : ~ForkReply(p, ok)
  <2>1. ASSUME NEW typ, [typ |-> typ, p |-> p] \in vfs PROVE typ \notin {"PM_SETUID", "PM_FORK"}
    <3>1. PICK r \in vfs : r = [typ |-> typ, p |-> p]
      BY <2>1
    <3>2. r.typ = typ
      BY <3>1
    <3> QED BY <3>2 DEF ForwardInv
  <2> QED BY <2>1 DEF SetuidReply, ForkReply, VfsReply
<1>4. CASE ExitReply(p) \/ CoreReply(p)
  <2>1. PICK typ \in {"PM_EXIT", "PM_DUMPCORE"} : [typ |-> typ, p |-> p] \in vfs
    BY <1>4 DEF ExitReply, CoreReply, VfsReply
  <2>2. PICK r \in vfs : r = [typ |-> typ, p |-> p]
    BY <2>1
  <2>3. r.typ = typ /\ r.p = p
    BY <2>2
  <2>4. Is(p, "EXITING")
    BY <1>0, <2>1, <2>3 DEF ProcInv, VfsInv
  <2>5. PICK F : flags' = [flags EXCEPT ![p] = F] /\ "EXITING" \in F
    <3>1. PICK D, E : D = flags[p] \ {"VFS_CALL"} /\ E = D \cup {"ZOMBIE"}
      OBVIOUS
    <3>2. "EXITING" \in D /\ "EXITING" \in E
      BY <2>4, <3>1 DEF Is
    <3>3. flags' = [flags EXCEPT ![p] = D] \/ flags' = [flags EXCEPT ![p] = E]
      BY <1>4, <3>1 DEF ExitReply, CoreReply
    <3> QED BY <3>2, <3>3
  <2>6. Calm(q)
    BY <1>0, <1>1, <2>5, CalmOne
  <2> QED BY <1>2, <2>6
<1>5. CASE UnpauseReply(p)
  <2>1. PICK r \in vfs : r = [typ |-> "PM_UNPAUSE", p |-> p]
    BY <1>5 DEF UnpauseReply, VfsReply
  <2>2. r.typ = "PM_UNPAUSE" /\ r.p = p
    BY <2>1
  <2>3. Is(p, "PM_SIG_PENDING")
    BY <1>0, <2>2 DEF ProcInv, VfsInv
  <2>4. flags' = [flags EXCEPT ![p] = (flags[p] \ {"VFS_CALL"}) \cup {"UNPAUSED"}]
    BY <1>5 DEF UnpauseReply
  <2>5. CASE q = p
    <3>1. Is(p, "PM_SIG_PENDING")'
      BY <1>0, <2>3, <2>4 DEF Is, VarTypes
    <3>2. todo' # <<>> /\ todo'[1] = Then("restart_sigs", p)
      BY <1>5 DEF UnpauseReply, ThenRestart
    <3>3. todo'[1].op = "restart_sigs" /\ todo'[1].p = p
      BY <3>2 DEF Then, Frame
    <3> QED BY <2>5, <3>1, <3>2, <3>3 DEF OccasionInv, HasOccasion, At
  <2>6. CASE q # p
    <3>1. flags'[q] = flags[q]
      BY <1>0, <2>4, <2>6 DEF VarTypes
    <3> QED BY <1>1, <1>2, <3>1, CalmSame
  <2> QED BY <2>5, <2>6
<1> QED BY <1>3, <1>4, <1>5 DEF handle_vfs_reply

LEMMA SendDelayOccasion ==
    ASSUME PmInv, NEW p \in Proc, SignalSendDelay(p), NEW q \in Proc, OccasionInv(q)
    PROVE  OccasionInv(q)'
<1>0. VarTypes
  BY TypesSplit DEF PmInv
<1>1. todo = <<>> /\ pending' = pending /\ sigmask' = sigmask
  BY DEF SignalSendDelay, sigs
<1>2. ASSUME Calm(q) PROVE OccasionInv(q)'
  BY <1>1, <1>2, StartKept
<1>3. CASE ~(Alive(p) /\ Is(p, "DELAY_CALL")) \/ q # p
  <2>1. flags'[q] = flags[q]
    BY <1>0, <1>3 DEF SignalSendDelay, VarTypes
  <2> QED BY <1>1, <1>2, <2>1, CalmSame
<1>4. CASE Alive(p) /\ Is(p, "DELAY_CALL") /\ q = p
  <2>1. flags' = [flags EXCEPT ![p] = flags[p] \ {"DELAY_CALL"}]
    BY <1>4 DEF SignalSendDelay
  <2>2. CASE Is(p, "VFS_CALL")
    <3>1. Is(p, "VFS_CALL")'
      BY <1>0, <2>1, <2>2 DEF Is, VarTypes
    <3> QED BY <1>4, <3>1 DEF OccasionInv, HasOccasion
  <2>3. CASE ~Is(p, "VFS_CALL")
    <3>1. todo' = <<check_pendingFrame(p, 0), Then("ksig_end", p)>> \o <<Sendreply, Then("sys_endksig", p)>>
      BY <1>4, <2>3 DEF SignalSendDelay
    <3>2. 1 \in 1 .. Len(todo') /\ todo'[1] = check_pendingFrame(p, 0)
      BY <3>1
    <3>3. pending'[p] \subseteq Signal
      BY <1>0, <1>1 DEF VarTypes
    <3> QED BY <1>4, <3>2, <3>3, LoopStarts
  <2> QED BY <2>2, <2>3
<1> QED BY <1>3, <1>4

LEMMA OtherOccasion ==
    ASSUME PmInv, NEW p \in Proc, NEW q \in Proc, OccasionInv(q),
           \/ ServerReceives(p) \/ ServerAnswers(p)
           \/ \E s \in KernelSigs : KernelSignal(p, s)
           \/ \E c \in Calls[p] : Sends(p, c)
    PROVE  OccasionInv(q)'
<1>1. flags' = flags /\ pending' = pending /\ sigmask' = sigmask
  BY DEF ServerReceives, ServerAnswers, KernelSignal, Sends, sigs
<1>2. CASE todo' = todo
  BY <1>1, <1>2, OccasionSame
<1>3. CASE todo = <<>>
  BY <1>1, <1>3, StartKept, CalmSame
<1>4. todo' = todo \/ todo = <<>>
  BY DEF ServerReceives, ServerAnswers, KernelSignal, Sends
<1> QED BY <1>2, <1>3, <1>4

-----------------------------------------------------------------------------
(***************************************************************************)
(* The theorem.                                                            *)
(***************************************************************************)

\* Nothing is forwarded: VFS is asked to unpause and about deaths only.
LEMMA ForwardKept ==
    ASSUME ForwardInv, call' = call, vfs' \subseteq vfs
    PROVE  ForwardInv'
BY DEF ForwardInv

LEMMA ForwardAsked ==
    ASSUME ForwardInv, call' = call, NEW p,
           NEW typ \in {"PM_UNPAUSE", "PM_EXIT", "PM_DUMPCORE"}, tell_vfs(typ, p)
    PROVE  ForwardInv'
<1>1. PICK m : m.typ = typ /\ vfs' = vfs \cup {m}
  BY AskVfs
<1> QED BY <1>1 DEF ForwardInv

LEMMA NextForward ==
    ASSUME NothingForwarded, PmInv, ForwardInv, Next
    PROVE  ForwardInv'
<1>0. VarTypes
  BY TypesSplit DEF PmInv
<1>1. CASE PmStep
  <2>1. call' = call
    BY <1>1 DEF PmStep, SigDuringVfsCall, SigBlocked, SigIgnored, SigFatal, UnpauseLater, UnpauseBusy,
         UnpauseByVfs, sig_send, check_sig, check_pending, restart_sigs, restart_sigs_end, exit_proc,
         disinherit, check_parent, exit_restart_end, setreply, fork_failed, kill_result, sendreply,
         ksig_end, sys_endksig, OnlyControl, OnlyFlags, kernel
  <2>2. CASE UnpauseByVfs
    BY <2>1, <2>2, ForwardAsked DEF UnpauseByVfs
  <2>3. CASE exit_proc
    <3>1. tell_vfs("PM_DUMPCORE", rmp) \/ tell_vfs("PM_EXIT", rmp)
      BY <2>3 DEF exit_proc
    <3> QED BY <2>1, <3>1, ForwardAsked
  <2>4. CASE ~UnpauseByVfs /\ ~exit_proc
    <3>1. vfs' = vfs
      BY <1>1, <2>4 DEF PmStep, SigDuringVfsCall, SigBlocked, SigIgnored, SigFatal, UnpauseLater,
         UnpauseBusy, sig_send, check_sig, check_pending, restart_sigs, restart_sigs_end,
         disinherit, check_parent, exit_restart_end, setreply, fork_failed, kill_result, sendreply,
         ksig_end, sys_endksig, OnlyControl, OnlyFlags
    <3> QED BY <2>1, <3>1, ForwardKept
  <2> QED BY <2>2, <2>3, <2>4
<1>2. ASSUME NEW p \in Proc, PmCall(p) PROVE ForwardInv'
  <2>1. ~do_fork(p) /\ ~do_setuid(p)
    BY <1>2 DEF do_fork, do_setuid, Receives, ForwardInv
  <2>2. call' = call /\ vfs' = vfs
    BY <1>2, <2>1 DEF PmCall, DropCall, do_pause, do_sigsuspend, do_sigprocmask_block,
         do_sigprocmask_set, do_sigaction, do_kill, do_exit, WaitCollects, WaitHangs, WaitRefused,
         ForkRefused, Received
  <2> QED BY <2>2, ForwardKept
<1>3. ASSUME NEW p \in Proc, handle_vfs_reply(p) PROVE ForwardInv'
  <2>1. call' = call /\ vfs' \subseteq vfs
    BY <1>3 DEF handle_vfs_reply, SetuidReply, UnpauseReply, ExitReply, CoreReply, ForkReply, VfsReply,
         Cleared, kernel
  <2> QED BY <2>1, ForwardKept
<1>4. ASSUME NEW p \in Proc,
             \/ SignalSendDelay(p) \/ ServerReceives(p) \/ ServerAnswers(p)
             \/ \E s \in KernelSigs : KernelSignal(p, s)
      PROVE  ForwardInv'
  <2>1. call' = call /\ vfs' = vfs
    BY <1>4 DEF SignalSendDelay, ServerReceives, ServerAnswers, KernelSignal, Received, kernel
  <2> QED BY <2>1, ForwardKept
<1>5. ASSUME NEW p \in Proc, NEW c \in Calls[p], Sends(p, c) PROVE ForwardInv'
  <2>1. call' = [call EXCEPT ![p] = c] /\ vfs' = vfs
    BY <1>5 DEF Sends
  <2>2. c.typ \notin {"setuid", "fork"}
    BY <1>5 DEF NothingForwarded
  <2>3. \A q \in Proc : call'[q] = c \/ call'[q] = call[q]
    BY <1>0, <2>1 DEF VarTypes
  <2> QED BY <2>1, <2>2, <2>3 DEF ForwardInv
<1> QED BY <1>1, <1>2, <1>3, <1>4, <1>5 DEF Next

LEMMA NextOccasion ==
    ASSUME PmInv, ForwardInv, Next, NEW q \in Proc, OccasionInv(q)
    PROVE  OccasionInv(q)'
<1>1. CASE PmStep
  BY <1>1, PmStepOccasion
<1>2. ASSUME NEW p \in Proc, PmCall(p) PROVE OccasionInv(q)'
  BY <1>2, PmCallOccasion
<1>3. ASSUME NEW p \in Proc, handle_vfs_reply(p) PROVE OccasionInv(q)'
  BY <1>3, VfsReplyOccasion
<1>4. ASSUME NEW p \in Proc, SignalSendDelay(p) PROVE OccasionInv(q)'
  BY <1>4, SendDelayOccasion
<1>5. ASSUME NEW p \in Proc,
             \/ ServerReceives(p) \/ ServerAnswers(p)
             \/ \E s \in KernelSigs : KernelSignal(p, s)
             \/ \E c \in Calls[p] : Sends(p, c)
      PROVE  OccasionInv(q)'
  BY <1>5, OtherOccasion
<1> QED BY <1>1, <1>2, <1>3, <1>4, <1>5 DEF Next

LEMMA InitPending == Init => PendingInv
<1> SUFFICES ASSUME Init PROVE PendingInv
  OBVIOUS
<1>1. ForwardInv
  BY DEF Init, ForwardInv
<1>2. ASSUME NEW p \in Proc PROVE OccasionInv(p)
  BY DEF Init, OccasionInv
<1> QED BY <1>1, <1>2 DEF PendingInv

\* If no process makes a call that PM forwards to VFS, every pending signal that
\* its process does not block will be looked at, at every moment.
THEOREM PendingInvariantHolds ==
    ASSUME NothingForwarded
    PROVE  Spec => [](PmInv /\ PendingInv)
<1>1. Init => PmInv /\ PendingInv
  BY InitInvariant, InitPending
<1>2. PmInv /\ PendingInv /\ [Next]_vars => PmInv' /\ PendingInv'
  <2> SUFFICES ASSUME PmInv, PendingInv, [Next]_vars PROVE PendingInv'
    BY NextInvariant
  <2>0. ForwardInv /\ \A p \in Proc : OccasionInv(p)
    BY DEF PendingInv
  <2>1. CASE Next
    <3>1. ForwardInv'
      BY <2>0, <2>1, NextForward
    <3>2. \A p \in Proc : OccasionInv(p)'
      BY <2>0, <2>1, NextOccasion
    <3> QED BY <3>1, <3>2 DEF PendingInv
  <2>2. CASE UNCHANGED vars
    <3>1. UNCHANGED <<flags, pending, sigmask, todo, call, vfs>>
      BY <2>2 DEF vars
    <3>2. ForwardInv'
      BY <2>0, <3>1, ForwardKept
    <3>3. \A p \in Proc : OccasionInv(p)'
      BY <2>0, <3>1, OccasionSame
    <3> QED BY <3>2, <3>3 DEF PendingInv
  <2> QED BY <2>1, <2>2
<1> QED BY <1>1, <1>2, PTL DEF Spec

\* If no process makes a call that PM forwards to VFS, check_pending, unpause,
\* restart_sigs and process_ksig forget no signal: between messages the answer of
\* VFS or the SIGSNDELAY is still to come.
THEOREM NoSignalIsForgotten ==
    ASSUME NothingForwarded
    PROVE  Spec => []PendingHasOccasion
<1>1. PendingInv => PendingHasOccasion
  <2> SUFFICES ASSUME PendingInv, Rest, NEW p \in Proc, Alive(p), NEW s \in pending[p] \ sigmask[p]
               PROVE  Is(p, "VFS_CALL") \/ Is(p, "DELAY_CALL")
    BY DEF PendingHasOccasion
  <2>1. HasOccasion(p, s)
    BY DEF PendingInv, OccasionInv
  <2>2. todo = <<>> /\ Len(todo) = 0
    BY DEF Rest
  <2> QED BY <2>1, <2>2 DEF HasOccasion
<1> QED BY <1>1, PendingInvariantHolds, PTL

=============================================================================
