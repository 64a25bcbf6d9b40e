--------------------------- MODULE PmFamilyProofs ---------------------------
(***************************************************************************)
(* More proofs about Pm, for an INIT that waits for its children and does  *)
(* nothing else: PM does not panic, a process that is interrupted has no   *)
(* request on its way, replies reach processes that wait for them, and a   *)
(* parent hears of each child once.  FamilyInv is inductive together with  *)
(* PmInv.                                                                  *)
(***************************************************************************)
EXTENDS PmProofs

-----------------------------------------------------------------------------
(***************************************************************************)
(* The stack.                                                              *)
(***************************************************************************)

\* What a step on a nonempty stack must leave alone at q for the frames below.
KeepsCalled(q) ==
    /\ Alive(q) => Alive(q)' \/ Leaving(q)'
    /\ Leaving(q) => Leaving(q)'
    /\ delay[q] = "raised" => delay'[q] = "raised" \/ At(1, "sys_endksig", q)
    /\ delay[q] = "raised" /\ Is(q, "DELAY_CALL")' => Is(q, "DELAY_CALL")

\* What the frames that are pushed must meet.
CallsFit(fr) ==
    /\ \A k \in 1 .. Len(fr) : CalledInv(k, fr[k])'
    /\ \A k, l \in 1 .. Len(fr) : fr[k].op \in Answering /\ fr[l].op \in Answering => k = l
    /\ todo # <<>> => \A k \in 1 .. Len(fr) : fr[k].op \notin Answering

CalledInvs == \A k \in 1 .. Len(todo) : \A f : f = todo[k] => CalledInv(k, f)
OneAnswer  ==
    \A k, l \in 1 .. Len(todo) : todo[k].op \in Answering /\ todo[l].op \in Answering => k = l

LEMMA CallsByFrame == CalledInvs /\ OneAnswer <=> CallsInv
BY DEF CalledInvs, OneAnswer, CallsInv

LEMMA CallsByFrameNext == CalledInvs' /\ OneAnswer' <=> CallsInv'
BY CallsByFrame, PTL

\* The frames PM pushes, field by field.
LEMMA Fields ==
    ASSUME NEW p, NEW s, NEW k, NEW S, NEW op
    PROVE  /\ Frame(op, p, s, k, S).op = op /\ Frame(op, p, s, k, S).p = p
           /\ Frame(op, p, s, k, S).s = s /\ Frame(op, p, s, k, S).k = k
           /\ Frame(op, p, s, k, S).procs = S
BY DEF Frame

\* The stack keeps its invariant.
LEMMA CallsStep ==
    ASSUME PmInv, CallsInv, NEW fr, Pushes(fr), CallsFit(fr),
           todo # <<>> => \A q \in Proc : KeepsCalled(q)
    PROVE  CallsInv'
<1>0. StackShape(fr) /\ StackInv /\ todo \in Seq(StackFrame)
  BY PushShape, TypesSplit DEF PmInv
<1>l. Len(fr) \in Nat /\ Len(todo) \in Nat
  BY <1>0 DEF StackShape
<1>1. CalledInvs'
  <2> SUFFICES ASSUME NEW k \in 1 .. Len(todo'), NEW f, f = todo'[k]
               PROVE  CalledInv(k, f)'
    BY DEF CalledInvs
  <2>1. ASSUME k \in 1 .. Len(fr), f = fr[k] PROVE CalledInv(k, f)'
    BY <2>1 DEF CallsFit
  <2>2. ASSUME k > Len(fr), k - Len(fr) + 1 \in 2 .. Len(todo), f = todo[k - Len(fr) + 1]
        PROVE  CalledInv(k, f)'
    <3>1. PICK j \in 2 .. Len(todo) : j = k - Len(fr) + 1 /\ f = todo[j]
      BY <2>2
    <3>2. j \in 1 .. Len(todo) /\ j # 1 /\ j \in Nat /\ todo # <<>>
      BY <1>l, <3>1
    <3>3. CalledInv(j, f)
      BY <3>1, <3>2, CallsByFrame DEF CalledInvs
    <3>4. f \in StackFrame
      BY <1>0, <3>1, <3>2
    <3>5. KeepsCalled(f.p) /\ f.p \in Proc
      BY <3>2, <3>4 DEF StackFrame
    <3>6. f.op \notin {"sig_proc", "check_parent", "exit_proc"}
      BY <1>0, <3>1, <3>2, <3>3 DEF CalledInv, StackInv
    <3>7. f.op = "check_pending" => f.s # 0 /\ (Alive(f.p)' \/ Leaving(f.p)') /\ f.p # INIT_PROC_NR
      BY <3>2, <3>3, <3>5 DEF CalledInv, KeepsCalled
    <3>8. f.op = "ksig_end" => ~Is(f.p, "DELAY_CALL")' /\ delay'[f.p] = "raised"
      <4> SUFFICES ASSUME f.op = "ksig_end" PROVE ~Is(f.p, "DELAY_CALL")' /\ delay'[f.p] = "raised"
        OBVIOUS
      <4>1. ~Is(f.p, "DELAY_CALL") /\ delay[f.p] = "raised"
        BY <3>3 DEF CalledInv
      <4>2. ~At(1, "sys_endksig", f.p)
        <5>1. 1 \in 1 .. Len(todo) /\ 1 # Len(todo)
          BY <1>l, <3>1
        <5> QED BY <1>0, <5>1 DEF StackInv, At
      <4> QED BY <3>5, <4>1, <4>2 DEF KeepsCalled
    <3>9. f.op = "disinherit" => Leaving(f.p)'
      BY <3>3, <3>5 DEF CalledInv, KeepsCalled
    <3>10. /\ f.op = "check_sig" => INIT_PROC_NR \notin f.procs
           /\ f.op \in {"check_pending", "restart_sigs", "restart_sigs_end", "exit_proc"}
                => f.p # INIT_PROC_NR
      BY <3>3 DEF CalledInv
    <3> QED BY <3>6, <3>7, <3>8, <3>9, <3>10 DEF CalledInv
  <2> QED BY <1>0, <2>1, <2>2 DEF StackShape
<1>2. OneAnswer'
  <2> SUFFICES ASSUME NEW k \in 1 .. Len(todo'), NEW l \in 1 .. Len(todo'),
                      todo'[k].op \in Answering, todo'[l].op \in Answering
               PROVE  k = l
    BY DEF OneAnswer
  <2>0. k \in Nat /\ l \in Nat
    BY <1>0 DEF StackShape
  <2>1. CASE todo = <<>>
    <3>1. Len(todo') = Len(fr)
      BY <1>0, <2>1 DEF StackShape
    <3>2. k \in 1 .. Len(fr) /\ l \in 1 .. Len(fr) /\ todo'[k] = fr[k] /\ todo'[l] = fr[l]
      BY <1>0, <3>1 DEF StackShape
    <3> QED BY <3>2 DEF CallsFit
  <2>2. CASE todo # <<>>
    <3>1. ASSUME NEW i \in 1 .. Len(todo'), todo'[i].op \in Answering
          PROVE  \E j \in 2 .. Len(todo) : i = j - 1 + Len(fr) /\ todo'[i] = todo[j]
      <4>1. ~(i \in 1 .. Len(fr) /\ todo'[i] = fr[i])
        BY <2>2, <3>1 DEF CallsFit
      <4>2. i - Len(fr) + 1 \in 2 .. Len(todo) /\ todo'[i] = todo[i - Len(fr) + 1]
        BY <1>0, <4>1 DEF StackShape
      <4>3. PICK j \in 2 .. Len(todo) : j = i - Len(fr) + 1 /\ todo'[i] = todo[j]
        BY <4>2
      <4> QED BY <1>l, <4>3
    <3>2. PICK i \in 2 .. Len(todo) : k = i - 1 + Len(fr) /\ todo'[k] = todo[i]
      BY <3>1
    <3>3. PICK j \in 2 .. Len(todo) : l = j - 1 + Len(fr) /\ todo'[l] = todo[j]
      BY <3>1
    <3>4. i \in 1 .. Len(todo) /\ j \in 1 .. Len(todo)
      BY <1>l, <3>2, <3>3
    <3>5. i = j
      BY <3>2, <3>3, <3>4, CallsByFrame DEF OneAnswer
    <3> QED BY <3>2, <3>3, <3>5
  <2> QED BY <2>1, <2>2
<1> QED BY <1>1, <1>2, CallsByFrameNext

\* A step outside PM.
LEMMA CallsOutside ==
    ASSUME PmInv, CallsInv, todo' = todo, UNCHANGED flags,
           \A q \in Proc : delay[q] = "raised" => delay'[q] = "raised"
    PROVE  CallsInv'
<1>0. todo \in Seq(StackFrame)
  BY TypesSplit DEF PmInv
<1>1. OneAnswer'
  BY CallsByFrame DEF OneAnswer
<1>2. CalledInvs'
  <2> SUFFICES ASSUME NEW k \in 1 .. Len(todo), NEW f, f = todo[k] PROVE CalledInv(k, f)'
    BY DEF CalledInvs
  <2>1. CalledInv(k, f)
    BY CallsByFrame DEF CalledInvs
  <2>2. f \in StackFrame
    BY <1>0
  <2>3. f.p \in Proc
    BY <2>2 DEF StackFrame
  <2> QED BY <2>1, <2>3 DEF CalledInv, Alive, Leaving, Is
<1> QED BY <1>1, <1>2, CallsByFrameNext

-----------------------------------------------------------------------------
(***************************************************************************)
(* Families and replies.                                                   *)
(***************************************************************************)

\* Nobody is born, dies or begins to wait; the dead may be reported.
KinCalm ==
    /\ parent' = parent
    /\ \A q \in Proc : Alive(q)' <=> Alive(q)
    /\ \A q \in Proc : \A f \in {"IN_USE", "EXITING", "ZOMBIE"} : f \in flags'[q] => f \in flags[q]
    /\ \A q \in Proc : Is(q, "TOLD_PARENT")' =>
         Is(q, "TOLD_PARENT") \/ (Is(q, "ZOMBIE") /\ ~Is(q, "ZOMBIE")')
    /\ \A q \in Proc : Is(q, "WAITING")' => Is(q, "WAITING") /\ call'[q].to = call[q].to
    /\ \A q \in Proc : Is(q, "EXITING") => flags'[q] \subseteq flags[q] \cup {"REPLY", "TOLD_PARENT"}
    /\ \A r \in vfs' : r \in vfs \/ r.typ # "PM_DUMPCORE"

LEMMA KinSame ==
    ASSUME parent' = parent,
           \A q \in Proc : \A f \in {"IN_USE", "EXITING", "ZOMBIE", "TOLD_PARENT"} :
             f \in flags'[q] <=> f \in flags[q],
           \A q \in Proc : Is(q, "WAITING")' => Is(q, "WAITING") /\ call'[q].to = call[q].to,
           \A q \in Proc : Is(q, "EXITING") => flags'[q] \subseteq flags[q] \cup {"REPLY"},
           \A r \in vfs' : r \in vfs \/ r.typ # "PM_DUMPCORE"
    PROVE  KinCalm
<1>1. \A q \in Proc : Alive(q)' <=> Alive(q)
  BY DEF Alive
<1> QED BY <1>1 DEF KinCalm, Is

LEMMA DeadKept ==
    ASSUME KinCalm, NEW c \in Proc, DeadInv(c)
    PROVE  DeadInv(c)'
<1>1. /\ Is(c, "EXITING")' => Is(c, "EXITING")
      /\ Is(c, "ZOMBIE")' => Is(c, "ZOMBIE")
      /\ Is(c, "TOLD_PARENT")' => Is(c, "TOLD_PARENT") \/ (Is(c, "ZOMBIE") /\ ~Is(c, "ZOMBIE")')
  BY DEF KinCalm, Is
<1>2. Is(c, "EXITING") => flags'[c] \cap (Hanging \cup {"UNPAUSED"}) = {}
  BY DEF KinCalm, DeadInv, Hanging
<1>3. \A r \in vfs' : r.p = c /\ r.typ = "PM_DUMPCORE" => r \in vfs
  BY DEF KinCalm
<1> QED BY <1>1, <1>2, <1>3 DEF DeadInv

\* wait_test is true of no more than before.
LEMMA WaitKept ==
    ASSUME KinCalm, VarTypes, NEW c \in Proc, wait_test(parent[c], c)'
    PROVE  wait_test(parent[c], c)
<1>1. parent[c] \in Proc
  BY DEF VarTypes
<1> QED BY <1>1 DEF KinCalm, wait_test, right_child

\* Such a step keeps families in order, if it does not end one of their loops.
LEMMA KinKept ==
    ASSUME PmInv, FamilyInv, KinCalm, NEW fr, Pushes(fr),
           todo # <<>> =>
             /\ todo[1].op # "disinherit"
             /\ \A c \in Proc : At(1, "check_parent", c) =>
                  ~Is(c, "ZOMBIE")' \/ ~wait_test(parent[c], c)
    PROVE  \A c \in Proc : ParentInv(c)' /\ ZombieInv(c)' /\ DeadInv(c)'
<1>0. StackShape(fr) /\ VarTypes /\ todo \in Seq(StackFrame)
  BY PushShape, TypesSplit DEF PmInv
<1>1. SUFFICES ASSUME NEW c \in Proc PROVE ParentInv(c)' /\ ZombieInv(c)' /\ DeadInv(c)'
  OBVIOUS
<1>2. ParentInv(c) /\ ZombieInv(c) /\ DeadInv(c) /\ parent[c] \in Proc /\ parent'[c] = parent[c]
  BY <1>0 DEF FamilyInv, VarTypes, KinCalm
<1>3. DeadInv(c)'
  BY <1>2, DeadKept
<1>4. ParentInv(c)'
  <2> SUFFICES ASSUME Is(c, "IN_USE"), ~Alive(parent[c])
               PROVE  \E k \in 1 .. Len(todo') : /\ todo'[k].op = "disinherit"
                                                  /\ todo'[k].p = parent[c] /\ c \in todo'[k].procs
    <3>1. Alive(parent[c])' <=> Alive(parent[c])
      BY <1>2 DEF KinCalm, Alive
    <3>2. Is(c, "IN_USE")' => Is(c, "IN_USE")
      BY DEF KinCalm, Is
    <3> QED BY <1>2, <3>1, <3>2 DEF ParentInv, At
  <2>1. PICK k \in 1 .. Len(todo) : At(k, "disinherit", parent[c]) /\ c \in todo[k].procs
    BY <1>2 DEF ParentInv
  <2>2. Len(todo) \in Nat /\ Len(fr) \in Nat
    BY <1>0 DEF StackShape
  <2>3. k # 1 /\ k \in 2 .. Len(todo)
    <3>1. todo # <<>>
      BY <2>1
    <3>2. k # 1
      BY <2>1, <3>1 DEF At
    <3> QED BY <2>1, <2>2, <3>2
  <2>4. k - 1 + Len(fr) \in 1 .. Len(todo') /\ todo'[k - 1 + Len(fr)] = todo[k]
    BY <1>0, <2>3 DEF StackShape
  <2> QED BY <2>1, <2>4 DEF At
<1>5. ZombieInv(c)'
  <2> SUFFICES ASSUME Is(c, "ZOMBIE")', wait_test(parent[c], c)' PROVE FALSE
    BY DEF ZombieInv
  <2>1. Is(c, "ZOMBIE") /\ wait_test(parent[c], c)
    BY <1>0, WaitKept DEF KinCalm, Is
  <2>2. todo # <<>> /\ At(1, "check_parent", c)
    BY <1>2, <2>1 DEF ZombieInv
  <2> QED BY <2>1, <2>2
<1> QED BY <1>3, <1>4, <1>5

\* The same for a step outside PM.
LEMMA KinOutside ==
    ASSUME PmInv, FamilyInv, KinCalm, todo' = todo
    PROVE  \A c \in Proc : ParentInv(c)' /\ ZombieInv(c)' /\ DeadInv(c)'
<1>0. VarTypes
  BY TypesSplit DEF PmInv
<1>1. SUFFICES ASSUME NEW c \in Proc PROVE ParentInv(c)' /\ ZombieInv(c)' /\ DeadInv(c)'
  OBVIOUS
<1>2. ParentInv(c) /\ ZombieInv(c) /\ DeadInv(c) /\ parent[c] \in Proc /\ parent'[c] = parent[c]
  BY <1>0 DEF FamilyInv, VarTypes, KinCalm
<1>3. DeadInv(c)'
  BY <1>2, DeadKept
<1>4. /\ Alive(parent[c])' <=> Alive(parent[c])
      /\ Is(c, "IN_USE")' => Is(c, "IN_USE")
      /\ Is(c, "ZOMBIE")' => Is(c, "ZOMBIE")
  BY <1>2 DEF Alive, KinCalm, Is
<1>5. ParentInv(c)'
  BY <1>2, <1>4 DEF ParentInv, At
<1>6. ZombieInv(c)'
  BY <1>0, <1>2, <1>4, WaitKept DEF ZombieInv, At
<1> QED BY <1>3, <1>5, <1>6

\* INIT notices nothing, but may be answered.
InitCalm ==
    /\ Is(INIT_PROC_NR, "IN_USE")'
    /\ flags'[INIT_PROC_NR] \subseteq flags[INIT_PROC_NR] \cup {"REPLY"}
    /\ ignore'[INIT_PROC_NR] = ignore[INIT_PROC_NR]
    /\ catch'[INIT_PROC_NR] = catch[INIT_PROC_NR]
    /\ sigmask'[INIT_PROC_NR] = sigmask[INIT_PROC_NR]
    /\ call' = call
    /\ kstate'[INIT_PROC_NR] = "sending" => kstate[INIT_PROC_NR] = "sending"
    /\ pgrp' = pgrp

LEMMA InitKept == InitInv /\ InitCalm => InitInv'
BY DEF InitInv, InitCalm, Is

\* The answers q is to get do not become more.
LEMMA AnsweredKept ==
    ASSUME NEW fr, StackShape(fr), todo \in Seq(StackFrame), NEW q,
           \A k \in 1 .. Len(fr) : fr[k].op \notin Answering,
           \A x \in Proc : parent'[x] = q => parent[x] = q
    PROVE  Answered(q)' => Answered(q)
<1> SUFFICES ASSUME Answered(q)' PROVE Answered(q)
  OBVIOUS
<1>1. PICK k \in 1 .. Len(todo') : Answers(todo[k], q)'
  BY DEF Answered
<1>2. todo'[k].op \in Answering
  BY <1>1 DEF Answers, Answering
<1>3. PICK j \in 2 .. Len(todo) : todo'[k] = todo[j]
  BY <1>2 DEF StackShape
<1>4. j \in 1 .. Len(todo)
  BY <1>3 DEF StackShape
<1>5. todo[j].p \in Proc
  <2>1. todo[j] \in StackFrame
    BY <1>4
  <2> QED BY <2>1 DEF StackFrame
<1>6. Answers(todo[j], q)
  BY <1>1, <1>3, <1>5 DEF Answers
<1> QED BY <1>4, <1>6 DEF Answered

LEMMA ForwardedKept ==
    ASSUME VarTypes, NEW q, \A r \in vfs' : r \in vfs \/ r.typ \notin {"PM_SETUID", "PM_FORK"},
           \A x \in Proc : parent'[x] = q => parent[x] = q
    PROVE  (Forwarded(q)' => Forwarded(q)) /\ (AskedOnce(q) => AskedOnce(q)')
<1>1. ASSUME NEW r \in vfs', Asked(r, q)' PROVE r \in vfs /\ Asked(r, q)
  <2>1. r \in vfs
    BY <1>1 DEF Asked
  <2>2. r.p \in Proc
    BY <2>1 DEF VarTypes
  <2> QED BY <1>1, <2>1, <2>2 DEF Asked
<1>2. Forwarded(q)' => Forwarded(q)
  BY <1>1 DEF Forwarded
<1>3. AskedOnce(q) => AskedOnce(q)'
  BY <1>1 DEF AskedOnce
<1> QED BY <1>2, <1>3

\* Nothing new is owed to q, which goes on doing what it did.
OwedSame(q) ==
    /\ \A f \in Hanging \cup {"REPLY"} : f \in flags'[q] => f \in flags[q]
    /\ kstate'[q] = kstate[q] /\ call'[q] = call[q]
    /\ Is(q, "VFS_CALL")' \/ Is(q, "PM_SIG_PENDING")' =>
         Is(q, "VFS_CALL") \/ Is(q, "PM_SIG_PENDING") \/ kstate[q] # "sending"

LEMMA OwedKept ==
    ASSUME NEW q, OwedInv(q), OwedSame(q), Answered(q)' => Answered(q),
           Forwarded(q)' => Forwarded(q), AskedOnce(q)'
    PROVE  OwedInv(q)'
<1>1. /\ Is(q, "REPLY")' => Is(q, "REPLY")
      /\ Is(q, "PAUSED")' => Is(q, "PAUSED")
      /\ Is(q, "SIGSUSPENDED")' => Is(q, "SIGSUSPENDED")
      /\ Is(q, "WAITING")' => Is(q, "WAITING")
      /\ HangsInPm(q)' => HangsInPm(q)
  BY DEF OwedSame, Is, HangsInPm, Hanging
<1>2. AwaitsPm(q)' <=> AwaitsPm(q)
  BY DEF OwedSame, AwaitsPm
<1> QED BY <1>1, <1>2 DEF OwedInv, OwedSame

\* A step of PM that keeps families in order.
LEMMA FamilyStep ==
    ASSUME PmInv, FamilyInv, NEW fr, Pushes(fr), CallsFit(fr), InitCalm, KinCalm,
           todo # <<>> =>
             /\ \A q \in Proc : KeepsCalled(q)
             /\ todo[1].op # "disinherit"
             /\ \A c \in Proc : At(1, "check_parent", c) =>
                  ~Is(c, "ZOMBIE")' \/ ~wait_test(parent[c], c),
           \A q \in Proc \ {INIT_PROC_NR} : Alive(q) => OwedInv(q)'
    PROVE  FamilyInv'
<1>1. InitInv'
  BY InitKept DEF FamilyInv
<1>2. CallsInv'
  BY CallsStep DEF FamilyInv
<1>3. (\A c \in Proc : ParentInv(c) /\ ZombieInv(c) /\ DeadInv(c))'
  BY KinKept
<1>4. (\A q \in Proc \ {INIT_PROC_NR} : Alive(q) => OwedInv(q))'
  BY DEF KinCalm
<1> QED BY <1>1, <1>2, <1>3, <1>4 DEF FamilyInv

\* One after which nobody but x is owed anything else than before.
LEMMA CalmFamilyStep ==
    ASSUME PmInv, FamilyInv, NEW fr, Pushes(fr), CallsFit(fr), InitCalm, KinCalm,
           todo # <<>> =>
             /\ \A q \in Proc : KeepsCalled(q)
             /\ todo[1].op # "disinherit"
             /\ \A c \in Proc : At(1, "check_parent", c) =>
                  ~Is(c, "ZOMBIE")' \/ ~wait_test(parent[c], c),
           \A k \in 1 .. Len(fr) : fr[k].op \notin Answering,
           \A r \in vfs' : r \in vfs \/ r.typ \notin {"PM_SETUID", "PM_FORK"},
           \A q \in Proc \ {INIT_PROC_NR} : Alive(q) => OwedSame(q) \/ OwedInv(q)'
    PROVE  FamilyInv'
<1>0. StackShape(fr) /\ VarTypes /\ todo \in Seq(StackFrame)
  BY PushShape, TypesSplit DEF PmInv
<1>1. ASSUME NEW q \in Proc \ {INIT_PROC_NR}, Alive(q) PROVE OwedInv(q)'
  <2>1. OwedInv(q)
    BY <1>1 DEF FamilyInv
  <2>2. \A x \in Proc : parent'[x] = q => parent[x] = q
    BY DEF KinCalm
  <2>3. Answered(q)' => Answered(q)
    BY <1>0, <2>2, AnsweredKept
  <2>4. (Forwarded(q)' => Forwarded(q)) /\ AskedOnce(q)'
    BY <1>0, <2>1, <2>2, ForwardedKept DEF OwedInv
  <2> QED BY <1>1, <2>1, <2>3, <2>4, OwedKept
<1> QED BY <1>1, FamilyStep

-----------------------------------------------------------------------------
(***************************************************************************)
(* Steps in which PM only decides what to call next.                       *)
(***************************************************************************)

\* Nothing that FamilyInv speaks of changes, apart from the stack.
Untouched == UNCHANGED <<flags, parent, pgrp, ignore, catch, sigmask, vfs, kstate, call, delay>>

LEMMA UntouchedCalm ==
    ASSUME FamilyInv, Untouched
    PROVE  /\ InitCalm /\ KinCalm
           /\ \A q : KeepsCalled(q) /\ OwedSame(q)
           /\ \A r \in vfs' : r \in vfs
<1>1. InitCalm
  BY DEF FamilyInv, InitInv, InitCalm, Untouched, Is
<1>2. KinCalm
  BY KinSame DEF Untouched, Is
<1>3. \A q : KeepsCalled(q) /\ OwedSame(q)
  BY DEF KeepsCalled, OwedSame, Untouched, Alive, Leaving, Is
<1> QED BY <1>1, <1>2, <1>3 DEF Untouched

LEMMA UntouchedStep ==
    ASSUME PmInv, FamilyInv, Untouched, NEW fr, Pushes(fr), CallsFit(fr),
           \A k \in 1 .. Len(fr) : fr[k].op \notin Answering,
           todo # <<>> =>
             /\ todo[1].op # "disinherit"
             /\ \A c \in Proc : At(1, "check_parent", c) =>
                  ~Is(c, "ZOMBIE")' \/ ~wait_test(parent[c], c)
    PROVE  FamilyInv'
BY UntouchedCalm, CalmFamilyStep

\* Short sequences of frames.
LEMMA FitNone ==
    CallsFit(<<>>) /\ <<>> \in Seq(StackFrame) /\ \A k \in 1 .. Len(<<>>) : <<>>[k].op \notin Answering
BY DEF CallsFit

LEMMA FitOne ==
    ASSUME NEW f \in StackFrame, CalledInv(1, f)', f.op \notin Answering
    PROVE  \E fr \in Seq(StackFrame) :
             fr = <<f>> /\ CallsFit(fr) /\ \A k \in 1 .. Len(fr) : fr[k].op \notin Answering
<1>1. PICK fr : fr = <<f>>
  OBVIOUS
<1>2. fr \in Seq(StackFrame) /\ Len(fr) = 1 /\ fr[1] = f
  BY <1>1
<1>3. \A k \in 1 .. 1 : k = 1
  OBVIOUS
<1>4. CallsFit(fr)
  BY <1>2, <1>3 DEF CallsFit
<1> QED BY <1>1, <1>2, <1>3, <1>4

LEMMA FitTwo ==
    ASSUME NEW f \in StackFrame, NEW g \in StackFrame, CalledInv(1, f)', CalledInv(2, g)',
           f.op \notin Answering, g.op \notin Answering
    PROVE  \E fr \in Seq(StackFrame) :
             fr = <<f, g>> /\ CallsFit(fr) /\ \A k \in 1 .. Len(fr) : fr[k].op \notin Answering
<1>1. PICK fr : fr = <<f, g>>
  OBVIOUS
<1>2. fr \in Seq(StackFrame) /\ Len(fr) = 2 /\ fr[1] = f /\ fr[2] = g
  BY <1>1
<1>3. \A k \in 1 .. 2 : k = 1 \/ k = 2
  OBVIOUS
<1> QED BY <1>1, <1>2, <1>3 DEF CallsFit

\* What is known of the function on top.
LEMMA TopCalled ==
    ASSUME PmInv, FamilyInv, NEW op, Top(op)
    PROVE  /\ VarTypes /\ todo \in Seq(StackFrame) /\ todo # <<>> /\ 1 \in 1 .. Len(todo)
           /\ todo[1].op = op /\ todo[1].p = rmp /\ todo[1].s = signo /\ todo[1].k = ksig
           /\ todo[1].procs = procs
           /\ CalledInv(1, todo[1]) /\ rmp \in Proc /\ procs \in SUBSET Proc
<1>1. /\ VarTypes /\ todo \in Seq(StackFrame) /\ todo # <<>> /\ 1 \in 1 .. Len(todo)
      /\ Head(todo) = todo[1] /\ rmp \in Proc /\ procs \in SUBSET Proc
  BY TopTypes, TypesSplit DEF PmInv, Top
<1> QED BY <1>1 DEF FamilyInv, CallsInv, Top, rmp, signo, ksig, procs

\* No signal does anything to INIT.
LEMMA SignalledNotInit ==
    ASSUME PmInv, FamilyInv, SigFatal \/ Caught
    PROVE  rmp # INIT_PROC_NR
<1>1. Top("sig_proc")
  BY DEF SigFatal, Caught, Considered
<1>2. rmp = INIT_PROC_NR => signo = SIGCHLD /\ ~ksig
  BY <1>1, TopCalled DEF CalledInv
<1>3. InitInv /\ SIGCHLD \in ign_sset
  BY ProcAssumption DEF FamilyInv
<1> QED BY <1>2, <1>3 DEF SigFatal, Caught, badignore, InitInv

LEMMA SigKeptFamily ==
    ASSUME PmInv, FamilyInv, SigBlocked \/ SigIgnored \/ UnpauseLater
    PROVE  FamilyInv'
<1>1. Top("sig_proc") /\ Return(<<>>) /\ Untouched
  BY DEF SigBlocked, SigIgnored, UnpauseLater, Considered, Caught, OnlyControl, OnlyFlags,
         AddPending, Untouched, table, kernel, sigs
<1>2. Pushes(<<>>) /\ todo # <<>> /\ todo[1].op = "sig_proc"
  BY <1>1, TopCalled, FitNone, Returning
<1> QED BY <1>1, <1>2, FitNone, UntouchedStep DEF At

LEMMA SigFatalFamily ==
    ASSUME PmInv, FamilyInv, SigFatal
    PROVE  FamilyInv'
<1>1. Top("sig_proc") /\ Untouched
  BY DEF SigFatal, Considered, OnlyControl, OnlyFlags, Untouched, table, kernel, sigs
<1>2. PICK p \in Proc : p = rmp
  BY <1>1, TopCalled
<1>3. PICK core \in BOOLEAN : core = (signo \in core_sset)
  <2>1. (signo \in core_sset) \in BOOLEAN
    OBVIOUS
  <2> QED BY <2>1, Zenon
<1>4. ~Is(p, "VFS_CALL") /\ Return(<<exit_procFrame(p, core)>>) /\ p # INIT_PROC_NR
  BY <1>2, <1>3, SignalledNotInit DEF SigFatal, Considered
<1>5. PICK f : f = exit_procFrame(p, core)
  OBVIOUS
<1>6. f \in StackFrame /\ f.op = "exit_proc" /\ f.p = p
  BY <1>5, FrameTypes DEF exit_procFrame, Frame
<1>7. CalledInv(1, f)' /\ f.op \notin Answering
  BY <1>1, <1>4, <1>6 DEF CalledInv, Untouched, Is, Answering
<1>8. PICK fr \in Seq(StackFrame) :
        fr = <<f>> /\ CallsFit(fr) /\ \A k \in 1 .. Len(fr) : fr[k].op \notin Answering
  BY <1>6, <1>7, FitOne
<1>9. Pushes(fr) /\ todo # <<>> /\ todo[1].op = "sig_proc"
  BY <1>1, <1>4, <1>5, <1>8, TopCalled, Returning
<1> QED BY <1>1, <1>8, <1>9, UntouchedStep DEF At

LEMMA CheckSigFamily ==
    ASSUME PmInv, FamilyInv, check_sig
    PROVE  FamilyInv'
<1>1. Top("check_sig") /\ Untouched
  BY DEF check_sig, OnlyControl, OnlyFlags, Untouched, table, kernel, sigs
<1>2. PICK s, k, S : s = signo /\ k = ksig /\ S = procs
  OBVIOUS
<1>3. s \in Signal /\ k \in BOOLEAN /\ S \in SUBSET Proc /\ INIT_PROC_NR \notin S
  BY <1>1, <1>2, TopCalled, TopTypes DEF Top, CalledInv
<1>4. PICK fr \in Seq(StackFrame) : /\ Return(fr) /\ CallsFit(fr)
                                    /\ \A i \in 1 .. Len(fr) : fr[i].op \notin Answering
  <2>1. CASE Return(<<>>)
    BY <2>1, FitNone
  <2>2. ASSUME NEW p \in S,
               \/ Alive(p) /\ Return(<<sig_procFrame(p, s, k), check_sigFrame(S \ {p}, s, k)>>)
               \/ Return(<<check_sigFrame(S \ {p}, s, k)>>)
        PROVE  \E fr \in Seq(StackFrame) : /\ Return(fr) /\ CallsFit(fr)
                                           /\ \A i \in 1 .. Len(fr) : fr[i].op \notin Answering
    <3>1. PICK f, g : f = sig_procFrame(p, s, k) /\ g = check_sigFrame(S \ {p}, s, k)
      OBVIOUS
    <3>2. /\ f.op = "sig_proc" /\ f.p = p /\ g.op = "check_sig" /\ g.procs = S \ {p}
          /\ f \in StackFrame /\ g \in StackFrame
      <4>1. s \in Signal \cup {0} /\ s # 0 /\ S \ {p} \in SUBSET Proc /\ p \in Proc
        BY <1>3, ProcAssumption
      <4> QED BY <1>3, <3>1, <4>1, FrameTypes DEF sig_procFrame, check_sigFrame, Frame
    <3>3. f.op \notin Answering /\ g.op \notin Answering /\ CalledInv(1, g)' /\ CalledInv(2, g)'
      BY <1>3, <3>2 DEF Answering, CalledInv
    <3>4. Alive(p) => CalledInv(1, f)'
      BY <1>1, <1>3, <3>2 DEF CalledInv, Untouched, Alive
    <3> QED BY <2>2, <3>1, <3>2, <3>3, <3>4, FitOne, FitTwo
  <2> QED BY <1>2, <2>1, <2>2 DEF check_sig
<1>5. Pushes(fr) /\ todo # <<>> /\ todo[1].op = "check_sig"
  BY <1>1, <1>4, TopCalled, Returning
<1> QED BY <1>1, <1>4, <1>5, UntouchedStep DEF At

LEMMA CheckPendingFamily ==
    ASSUME PmInv, FamilyInv, check_pending
    PROVE  FamilyInv'
<1>1. Top("check_pending") /\ Untouched
  BY DEF check_pending, Untouched, table, kernel, sigs
<1>2. PICK p \in Proc : p = rmp
  BY <1>1, TopCalled
<1>3. CASE Return(<<>>)
  <2>1. Pushes(<<>>) /\ todo # <<>> /\ todo[1].op = "check_pending"
    BY <1>1, <1>3, TopCalled, FitNone, Returning
  <2> QED BY <1>1, <2>1, FitNone, UntouchedStep DEF At
<1>4. CASE ~(Unblocked(rmp, signo) = {} \/ (signo # 0 /\ Is(rmp, "VFS_CALL")))
  <2>1. PICK i : i = Lowest(Unblocked(rmp, signo))
    OBVIOUS
  <2>2. i \in Signal /\ i \in Signal \cup {0} /\ i # 0
    <3>1. Unblocked(rmp, signo) \in SUBSET Signal
      BY <1>1, TopCalled DEF VarTypes, Unblocked
    <3> QED BY <1>4, <2>1, <3>1, LowestFound, ProcAssumption
  <2>3. PICK k \in BOOLEAN : k = (i \in ksigpending[rmp])
    <3>1. (i \in ksigpending[rmp]) \in BOOLEAN
      OBVIOUS
    <3> QED BY <3>1, Zenon
  <2>4. Return(<<sig_procFrame(p, i, k), check_pendingFrame(p, i)>>)
    BY <1>2, <1>4, <2>1, <2>3 DEF check_pending
  <2>5. Alive(p) /\ p # INIT_PROC_NR
    <3>1. /\ p # INIT_PROC_NR
          /\ IF signo = 0 THEN Alive(p) ELSE Alive(p) \/ Leaving(p)
      BY <1>1, <1>2, TopCalled DEF CalledInv
    <3> QED BY <1>2, <1>4, <3>1 DEF Leaving
  <2>6. PICK f, g : f = sig_procFrame(p, i, k) /\ g = check_pendingFrame(p, i)
    OBVIOUS
  <2>7. /\ f.op = "sig_proc" /\ f.p = p /\ g.op = "check_pending" /\ g.p = p /\ g.s = i
        /\ f \in StackFrame /\ g \in StackFrame
    BY <2>2, <2>6, FrameTypes DEF sig_procFrame, check_pendingFrame, Frame
  <2>8. f.op \notin Answering /\ g.op \notin Answering /\ CalledInv(1, f)' /\ CalledInv(2, g)'
    BY <1>1, <2>2, <2>5, <2>7 DEF Answering, CalledInv, Untouched, Alive
  <2>9. PICK fr \in Seq(StackFrame) :
          fr = <<f, g>> /\ CallsFit(fr) /\ \A j \in 1 .. Len(fr) : fr[j].op \notin Answering
    BY <2>7, <2>8, FitTwo
  <2>10. Pushes(fr) /\ todo # <<>> /\ todo[1].op = "check_pending"
    BY <1>1, <2>4, <2>6, <2>9, TopCalled, Returning
  <2> QED BY <1>1, <2>9, <2>10, UntouchedStep DEF At
<1> QED BY <1>3, <1>4 DEF check_pending

LEMMA RestartSigsFamily ==
    ASSUME PmInv, FamilyInv, restart_sigs
    PROVE  FamilyInv'
<1>1. Top("restart_sigs") /\ Untouched
  BY DEF restart_sigs, OnlyControl, OnlyFlags, Untouched, table, kernel, sigs
<1>2. PICK p \in Proc : p = rmp /\ p # INIT_PROC_NR
  BY <1>1, TopCalled DEF CalledInv
<1>3. CASE Return(<<>>)
  <2>1. Pushes(<<>>) /\ todo # <<>> /\ todo[1].op = "restart_sigs"
    BY <1>1, <1>3, TopCalled, FitNone, Returning
  <2> QED BY <1>1, <2>1, FitNone, UntouchedStep DEF At
<1>4. CASE Alive(p) /\ Return(<<check_pendingFrame(p, 0), Then("restart_sigs_end", p)>>)
  <2>1. PICK f, g : f = check_pendingFrame(p, 0) /\ g = Then("restart_sigs_end", p)
    OBVIOUS
  <2>2. /\ f.op = "check_pending" /\ f.p = p /\ f.s = 0 /\ g.op = "restart_sigs_end" /\ g.p = p
        /\ f \in StackFrame /\ g \in StackFrame
    <3>1. 0 \in Signal \cup {0} /\ "restart_sigs_end" \in Function \ {"sig_proc", "check_sig"}
      BY DEF Function
    <3> QED BY <2>1, <3>1, FrameTypes DEF check_pendingFrame, Then, Frame
  <2>3. f.op \notin Answering /\ g.op \notin Answering /\ CalledInv(1, f)' /\ CalledInv(2, g)'
    BY <1>1, <1>2, <1>4, <2>2 DEF Answering, CalledInv, Untouched, Alive
  <2>4. PICK fr \in Seq(StackFrame) :
          fr = <<f, g>> /\ CallsFit(fr) /\ \A j \in 1 .. Len(fr) : fr[j].op \notin Answering
    BY <2>2, <2>3, FitTwo
  <2>5. Pushes(fr) /\ todo # <<>> /\ todo[1].op = "restart_sigs"
    BY <1>1, <1>4, <2>1, <2>4, TopCalled, Returning
  <2> QED BY <1>1, <2>4, <2>5, UntouchedStep DEF At
<1> QED BY <1>2, <1>3, <1>4 DEF restart_sigs

LEMMA KsigEndFamily ==
    ASSUME PmInv, FamilyInv, ksig_end
    PROVE  FamilyInv'
<1>1. Top("ksig_end") /\ Untouched /\ Return(<<>>)
  BY DEF ksig_end, OnlyControl, OnlyFlags, Untouched, table, kernel, sigs
<1>2. Pushes(<<>>) /\ todo # <<>> /\ todo[1].op = "ksig_end"
  BY <1>1, TopCalled, FitNone, Returning
<1> QED BY <1>1, <1>2, FitNone, UntouchedStep DEF At

-----------------------------------------------------------------------------
(***************************************************************************)
(* Steps that change one process.                                          *)
(***************************************************************************)

\* A step of PM that changes p only, which is not INIT and is neither born nor dies.
LEMMA OneChanges ==
    ASSUME PmInv, FamilyInv, NEW p \in Proc, p # INIT_PROC_NR,
           UNCHANGED <<parent, pgrp, ignore, catch, call>>,
           \A q \in Proc \ {p} : /\ flags'[q] = flags[q] /\ kstate'[q] = kstate[q]
                                 /\ delay'[q] = delay[q] /\ sigmask'[q] = sigmask[q],
           \A f \in {"IN_USE", "EXITING", "ZOMBIE", "TOLD_PARENT"} : f \in flags'[p] <=> f \in flags[p],
           Is(p, "WAITING")' => Is(p, "WAITING"),
           Is(p, "EXITING") => flags'[p] \subseteq flags[p] \cup {"REPLY"},
           \A r \in vfs' : r \in vfs \/ r.typ \notin {"PM_DUMPCORE", "PM_SETUID", "PM_FORK"},
           NEW fr, Pushes(fr), CallsFit(fr), \A k \in 1 .. Len(fr) : fr[k].op \notin Answering,
           todo # <<>> => KeepsCalled(p) /\ todo[1].op \notin {"disinherit", "check_parent"},
           Alive(p) => OwedSame(p) \/ OwedInv(p)'
    PROVE  FamilyInv'
<1>0. INIT_PROC_NR \in Proc \ {p}
  BY ProcAssumption
<1>1. InitCalm
  BY <1>0 DEF InitCalm, FamilyInv, InitInv, Is
<1>2. KinCalm
  BY KinSame DEF Is
<1>3. ASSUME NEW q \in Proc, q # p PROVE KeepsCalled(q) /\ OwedSame(q)
  <2>1. flags'[q] = flags[q] /\ kstate'[q] = kstate[q] /\ delay'[q] = delay[q]
    BY <1>3
  <2> QED BY <2>1 DEF KeepsCalled, OwedSame, Alive, Leaving, Is
<1> QED BY <1>1, <1>2, <1>3, CalmFamilyStep DEF At

\* The process is added to those VFS has, or has another signal.
LEMMA SigDuringVfsCallFamily ==
    ASSUME PmInv, FamilyInv, SigDuringVfsCall
    PROVE  FamilyInv'
<1>1. /\ Top("sig_proc") /\ Return(<<>>)
      /\ UNCHANGED <<parent, pgrp, ignore, catch, sigmask, call, kstate, delay, vfs>>
  BY DEF SigDuringVfsCall, AddPending, table, kernel
<1>2. PICK p \in Proc : p = rmp
  BY <1>1, TopCalled
<1>3. Is(p, "VFS_CALL") /\ flags' = [flags EXCEPT ![p] = @ \cup {"PM_SIG_PENDING"}] /\ Alive(p)
  BY <1>2 DEF SigDuringVfsCall
<1>4. /\ flags'[p] = flags[p] \cup {"PM_SIG_PENDING"} /\ \A q \in Proc \ {p} : flags'[q] = flags[q]
  BY <1>1, <1>3, TopCalled DEF VarTypes
<1>5. p # INIT_PROC_NR
  BY <1>3 DEF FamilyInv, InitInv, Is
<1>6. Pushes(<<>>) /\ todo # <<>> /\ todo[1].op = "sig_proc"
  BY <1>1, TopCalled, FitNone, Returning
<1>7. KeepsCalled(p)
  BY <1>1, <1>4 DEF KeepsCalled, Alive, Leaving, Is
<1>8. OwedSame(p)
  BY <1>1, <1>3, <1>4 DEF OwedSame, Is, Hanging
<1>9. /\ \A f \in {"IN_USE", "EXITING", "ZOMBIE", "TOLD_PARENT"} : f \in flags'[p] <=> f \in flags[p]
      /\ Is(p, "WAITING")' => Is(p, "WAITING")
      /\ ~Is(p, "EXITING")
  BY <1>3, <1>4 DEF Is, Alive
<1> QED BY <1>1, <1>4, <1>5, <1>6, <1>7, <1>8, <1>9, FitNone, OneChanges

LEMMA UnpauseBusyFamily ==
    ASSUME PmInv, FamilyInv, UnpauseBusy
    PROVE  FamilyInv'
<1>1. /\ Top("sig_proc") /\ Return(<<>>) /\ Caught
      /\ UNCHANGED <<parent, pgrp, ignore, catch, sigmask, call, kstate, vfs>>
  BY DEF UnpauseBusy, AddPending, Caught, Considered, table
<1>2. PICK p \in Proc : p = rmp /\ p # INIT_PROC_NR
  BY <1>1, TopCalled, SignalledNotInit
<1>3. /\ flags' = [flags EXCEPT ![p] = @ \cup {"DELAY_CALL"}] /\ Alive(p)
      /\ delay' = [delay EXCEPT ![p] = "armed"] /\ kstate[p] = "sending"
  BY <1>2 DEF UnpauseBusy, Caught, Considered, Busy
<1>4. /\ flags'[p] = flags[p] \cup {"DELAY_CALL"}
      /\ \A q \in Proc \ {p} : flags'[q] = flags[q] /\ delay'[q] = delay[q]
  BY <1>1, <1>3, TopCalled DEF VarTypes
<1>5. delay[p] # "raised"
  BY <1>3 DEF PmInv, ProcInv, DelayInv
<1>6. Pushes(<<>>) /\ todo # <<>> /\ todo[1].op = "sig_proc"
  BY <1>1, TopCalled, FitNone, Returning
<1>7. KeepsCalled(p)
  BY <1>1, <1>4, <1>5 DEF KeepsCalled, Alive, Leaving, Is
<1>8. OwedSame(p)
  BY <1>1, <1>4 DEF OwedSame, Is, Hanging
<1>9. /\ \A f \in {"IN_USE", "EXITING", "ZOMBIE", "TOLD_PARENT"} : f \in flags'[p] <=> f \in flags[p]
      /\ Is(p, "WAITING")' => Is(p, "WAITING")
      /\ ~Is(p, "EXITING")
  BY <1>3, <1>4 DEF Is, Alive
<1> QED BY <1>1, <1>2, <1>4, <1>6, <1>7, <1>8, <1>9, FitNone, OneChanges

LEMMA UnpauseByVfsFamily ==
    ASSUME PmInv, FamilyInv, UnpauseByVfs
    PROVE  FamilyInv'
<1>1. /\ Top("sig_proc") /\ Return(<<>>) /\ Caught
      /\ UNCHANGED <<parent, pgrp, ignore, catch, sigmask, call, kstate, delay>>
  BY DEF UnpauseByVfs, AddPending, Caught, Considered, table, kernel
<1>2. PICK p \in Proc : p = rmp /\ p # INIT_PROC_NR
  BY <1>1, TopCalled, SignalledNotInit
<1>3. /\ flags' = [flags EXCEPT ![p] = @ \cup {"PM_SIG_PENDING", "VFS_CALL"}] /\ Alive(p)
      /\ ~Busy(p) /\ tell_vfs("PM_UNPAUSE", p)
  BY <1>2 DEF UnpauseByVfs, Caught, Considered
<1>4. /\ flags'[p] = flags[p] \cup {"PM_SIG_PENDING", "VFS_CALL"}
      /\ \A q \in Proc \ {p} : flags'[q] = flags[q]
  BY <1>1, <1>3, TopCalled DEF VarTypes
<1>5. kstate[p] # "sending"
  BY <1>2, <1>3 DEF Busy, FamilyInv, OwedInv
<1>6. Pushes(<<>>) /\ todo # <<>> /\ todo[1].op = "sig_proc"
  BY <1>1, TopCalled, FitNone, Returning
<1>7. KeepsCalled(p)
  BY <1>1, <1>4 DEF KeepsCalled, Alive, Leaving, Is
<1>8. OwedSame(p)
  BY <1>1, <1>4, <1>5 DEF OwedSame, Is, Hanging
<1>9. /\ \A f \in {"IN_USE", "EXITING", "ZOMBIE", "TOLD_PARENT"} : f \in flags'[p] <=> f \in flags[p]
      /\ Is(p, "WAITING")' => Is(p, "WAITING")
      /\ ~Is(p, "EXITING")
  BY <1>3, <1>4 DEF Is, Alive
<1>10. \A r \in vfs' : r \in vfs \/ r.typ \notin {"PM_DUMPCORE", "PM_SETUID", "PM_FORK"}
  BY <1>3, AskVfs
<1> QED BY <1>1, <1>2, <1>4, <1>6, <1>7, <1>8, <1>9, <1>10, FitNone, OneChanges

\* The process runs its handler, and the call it hangs in is answered, or it dies.
LEMMA SigSendFamily ==
    ASSUME PmInv, FamilyInv, NEW ok \in BOOLEAN, sig_send(ok)
    PROVE  FamilyInv'
<1>1. /\ Top("sig_proc") /\ Caught
      /\ UNCHANGED <<parent, pgrp, ignore, catch, call, kstate, delay, vfs>>
  BY DEF sig_send, Caught, Considered, table, kernel
<1>2. PICK p \in Proc : p = rmp /\ p # INIT_PROC_NR
  BY <1>1, TopCalled, SignalledNotInit
<1>3. /\ VarTypes /\ Alive(p) /\ ~Is(p, "VFS_CALL") /\ OwedInv(p) /\ todo \in Seq(StackFrame)
      /\ \A q \in Proc \ {p} : sigmask'[q] = sigmask[q]
  BY <1>1, <1>2, TopCalled DEF Caught, Considered, FamilyInv, VarTypes, sig_send
<1>4. CASE ~ok
  <2>1. PICK core \in BOOLEAN : core = (signo \in core_sset)
    <3>1. (signo \in core_sset) \in BOOLEAN
      OBVIOUS
    <3> QED BY <3>1, Zenon
  <2>2. Return(<<exit_procFrame(p, core)>>) /\ flags' = [flags EXCEPT ![p] = @ \cup {"UNPAUSED"}]
    BY <1>2, <1>4, <2>1 DEF sig_send
  <2>3. flags'[p] = flags[p] \cup {"UNPAUSED"} /\ \A q \in Proc \ {p} : flags'[q] = flags[q]
    BY <1>3, <2>2 DEF VarTypes
  <2>4. PICK f : f = exit_procFrame(p, core)
    OBVIOUS
  <2>5. f \in StackFrame /\ f.op = "exit_proc" /\ f.p = p
    BY <2>4, FrameTypes DEF exit_procFrame, Frame
  <2>6. CalledInv(1, f)' /\ f.op \notin Answering
    BY <1>2, <1>3, <2>3, <2>5 DEF CalledInv, Is, Answering
  <2>7. PICK fr \in Seq(StackFrame) :
          fr = <<f>> /\ CallsFit(fr) /\ \A k \in 1 .. Len(fr) : fr[k].op \notin Answering
    BY <2>5, <2>6, FitOne
  <2>8. Pushes(fr) /\ todo # <<>> /\ todo[1].op = "sig_proc"
    BY <1>1, <1>3, <2>2, <2>4, <2>7, Returning
  <2>9. KeepsCalled(p) /\ OwedSame(p)
    BY <1>1, <2>3 DEF KeepsCalled, OwedSame, Alive, Leaving, Is, Hanging
  <2>10. /\ \A g \in {"IN_USE", "EXITING", "ZOMBIE", "TOLD_PARENT"} : g \in flags'[p] <=> g \in flags[p]
         /\ Is(p, "WAITING")' => Is(p, "WAITING")
         /\ ~Is(p, "EXITING")
    BY <1>3, <2>3 DEF Is, Alive
  <2> QED BY <1>1, <1>2, <1>3, <2>3, <2>7, <2>8, <2>9, <2>10, OneChanges
<1>5. CASE ok
  <2>1. Return(<<>>) /\ flags' = [flags EXCEPT ![p] = FlagsAfterHandler(p)]
    BY <1>2, <1>5 DEF sig_send
  <2>2. flags'[p] = FlagsAfterHandler(p) /\ \A q \in Proc \ {p} : flags'[q] = flags[q]
    BY <1>3, <2>1 DEF VarTypes
  <2>3. /\ \A g \in Flag \ (Hanging \cup {"UNPAUSED", "REPLY"}) : g \in flags'[p] <=> g \in flags[p]
        /\ flags'[p] \cap Hanging = {}
        /\ Is(p, "REPLY")' <=> Is(p, "REPLY") \/ HangsInPm(p)
    BY <2>2 DEF FlagsAfterHandler, Hanging, Is, HangsInPm
  <2>4. Pushes(<<>>) /\ todo # <<>> /\ todo[1].op = "sig_proc"
    BY <1>1, <2>1, TopCalled, FitNone, Returning
  <2>5. /\ \A g \in {"IN_USE", "EXITING", "ZOMBIE", "TOLD_PARENT"} : g \in flags'[p] <=> g \in flags[p]
        /\ Is(p, "VFS_CALL")' <=> Is(p, "VFS_CALL")
        /\ Is(p, "PM_SIG_PENDING")' <=> Is(p, "PM_SIG_PENDING")
        /\ Is(p, "DELAY_CALL")' <=> Is(p, "DELAY_CALL")
        /\ ~Is(p, "WAITING")' /\ ~Is(p, "PAUSED")' /\ ~Is(p, "SIGSUSPENDED")' /\ ~HangsInPm(p)'
        /\ ~Is(p, "EXITING")
    BY <1>3, <2>3 DEF Is, Flag, Hanging, Alive, HangsInPm
  <2>6. KeepsCalled(p)
    BY <1>1, <2>5 DEF KeepsCalled, Alive, Leaving, Is
  <2>7. OwedInv(p)'
    <3>1. Answered(p)' => Answered(p)
      BY <1>1, <1>3, <2>4, FitNone, PushShape, AnsweredKept
    <3>2. (Forwarded(p)' => Forwarded(p)) /\ AskedOnce(p)'
      BY <1>1, <1>3, ForwardedKept DEF OwedInv
    <3>3. AwaitsPm(p)' <=> AwaitsPm(p)
      BY <1>1 DEF AwaitsPm
    <3> QED BY <1>1, <1>3, <2>3, <2>5, <3>1, <3>2, <3>3 DEF OwedInv
  <2> QED BY <1>1, <1>2, <1>3, <2>2, <2>4, <2>5, <2>6, <2>7, FitNone, OneChanges
<1> QED BY <1>4, <1>5

LEMMA RestartSigsEndFamily ==
    ASSUME PmInv, FamilyInv, restart_sigs_end
    PROVE  FamilyInv'
<1>1. /\ Top("restart_sigs_end") /\ Return(<<>>)
      /\ UNCHANGED <<parent, pgrp, ignore, catch, sigmask, call, kstate, delay, vfs>>
  BY DEF restart_sigs_end, table, kernel, sigs
<1>2. PICK p \in Proc : p = rmp /\ p # INIT_PROC_NR
  BY <1>1, TopCalled DEF CalledInv
<1>3. flags' = flags \/ flags' = [flags EXCEPT ![p] = @ \ {"PM_SIG_PENDING", "UNPAUSED"}]
  BY <1>2 DEF restart_sigs_end
<1>4. /\ flags'[p] \subseteq flags[p] /\ \A q \in Proc \ {p} : flags'[q] = flags[q]
      /\ \A f \in flags[p] : f \in flags'[p] \/ f \in {"PM_SIG_PENDING", "UNPAUSED"}
  BY <1>1, <1>3, TopCalled DEF VarTypes
<1>5. Pushes(<<>>) /\ todo # <<>> /\ todo[1].op = "restart_sigs_end"
  BY <1>1, TopCalled, FitNone, Returning
<1>6. KeepsCalled(p) /\ OwedSame(p)
  BY <1>1, <1>4 DEF KeepsCalled, OwedSame, Alive, Leaving, Is, Hanging
<1>7. /\ \A f \in {"IN_USE", "EXITING", "ZOMBIE", "TOLD_PARENT"} : f \in flags'[p] <=> f \in flags[p]
      /\ Is(p, "WAITING")' => Is(p, "WAITING")
  BY <1>4 DEF Is
<1> QED BY <1>1, <1>2, <1>4, <1>5, <1>6, <1>7, FitNone, OneChanges

LEMMA SysEndksigFamily ==
    ASSUME PmInv, FamilyInv, sys_endksig
    PROVE  FamilyInv'
<1>1. /\ Top("sys_endksig") /\ Return(<<>>)
      /\ UNCHANGED <<flags, parent, pgrp, ignore, catch, sigmask, call, kstate, vfs>>
  BY DEF sys_endksig, table, sigs
<1>2. PICK p \in Proc : p = rmp
  BY <1>1, TopCalled
<1>3. todo[1].op = "sys_endksig" /\ todo[1].p = p /\ VarTypes /\ todo # <<>>
  BY <1>1, <1>2, TopCalled
<1>4. \A q \in Proc : delay'[q] = delay[q] \/ At(1, "sys_endksig", q)
  BY <1>2, <1>3 DEF sys_endksig, VarTypes, At
<1>5. \A q \in Proc : KeepsCalled(q) /\ OwedSame(q)
  BY <1>1, <1>4 DEF KeepsCalled, OwedSame, Alive, Leaving, Is
<1>6. InitCalm
  BY <1>1 DEF InitCalm, FamilyInv, InitInv, Is
<1>7. KinCalm
  BY <1>1, KinSame DEF Is
<1>8. Pushes(<<>>)
  BY <1>1, TopCalled, FitNone, Returning
<1> QED BY <1>1, <1>3, <1>5, <1>6, <1>7, <1>8, FitNone, CalmFamilyStep DEF At

-----------------------------------------------------------------------------
(***************************************************************************)
(* Replies, and the end of exit_restart.                                   *)
(***************************************************************************)

\* The functions that have an answer set REPLY, and have no answer left.
LEMMA AnswerGiven ==
    ASSUME PmInv, FamilyInv, NEW op \in Answering, Top(op), Pushes(<<>>)
    PROVE  \A q : ~Answered(q)'
<1>0. /\ StackShape(<<>>) /\ Len(<<>>) = 0 /\ todo[1].op \in Answering /\ 1 \in 1 .. Len(todo)
      /\ Len(todo) \in Nat
  BY PushShape, TopCalled DEF StackShape
<1> SUFFICES ASSUME NEW q, Answered(q)' PROVE FALSE
  OBVIOUS
<1>1. PICK k \in 1 .. Len(todo') : todo'[k].op \in Answering
  BY DEF Answered, Answers, Answering
<1>2. PICK j \in 2 .. Len(todo) : todo'[k] = todo[j]
  BY <1>0 DEF StackShape
<1>3. j \in 1 .. Len(todo) /\ j # 1
  BY <1>0, <1>2
<1> QED BY <1>0, <1>1, <1>2, <1>3 DEF FamilyInv, CallsInv

LEMMA ReplyFlagFamily ==
    ASSUME PmInv, FamilyInv, setreply \/ fork_failed \/ kill_result
    PROVE  FamilyInv'
<1>1. /\ Return(<<>>)
      /\ UNCHANGED <<parent, pgrp, ignore, catch, sigmask, call, kstate, delay, vfs>>
  BY DEF setreply, fork_failed, kill_result, OnlyFlags, table, kernel, sigs
<1>2. PICK op \in Answering : Top(op)
  BY DEF setreply, fork_failed, kill_result, Answering
<1>3. VarTypes /\ todo \in Seq(StackFrame) /\ todo # <<>> /\ 1 \in 1 .. Len(todo) /\ todo[1].op = op
        /\ rmp \in Proc /\ todo[1].p = rmp
  BY <1>2, TopCalled
<1>4. Pushes(<<>>)
  BY <1>1, <1>2, <1>3, FitNone, Returning
<1>5. PICK q \in Proc : /\ Answers(todo[1], q)
                        /\ flags' = flags \/ flags' = [flags EXCEPT ![q] = @ \cup {"REPLY"}]
  <2>1. CASE setreply \/ kill_result
    <3>1. op \in {"setreply", "kill_result"}
      BY <1>3, <2>1, TopCalled DEF setreply, kill_result
    <3> QED BY <1>3, <2>1, <3>1 DEF setreply, kill_result, Answers
  <2>2. CASE fork_failed
    <3>1. op = "fork_failed" /\ parent[rmp] \in Proc
      BY <1>3, <2>2, TopCalled DEF fork_failed, VarTypes
    <3> QED BY <1>3, <2>2, <3>1 DEF fork_failed, Answers
  <2> QED BY <2>1, <2>2
<1>6. /\ \A x \in Proc \ {q} : flags'[x] = flags[x]
      /\ flags'[q] = flags[q] \/ flags'[q] = flags[q] \cup {"REPLY"}
  BY <1>3, <1>5 DEF VarTypes
<1>7. \A x \in Proc : \A f \in Flag \ {"REPLY"} : f \in flags'[x] <=> f \in flags[x]
  BY <1>6
<1>8. \A x \in Proc : flags'[x] \subseteq flags[x] \cup {"REPLY"}
  BY <1>6
<1>9. \A x \in Proc : KeepsCalled(x)
  BY <1>1, <1>7 DEF KeepsCalled, Alive, Leaving, Is, Flag
<1>10. InitCalm
  <2>1. INIT_PROC_NR \in Proc /\ "IN_USE" \in Flag \ {"REPLY"}
    BY ProcAssumption DEF Flag
  <2> QED BY <1>1, <1>7, <1>8, <2>1 DEF InitCalm, FamilyInv, InitInv, Is
<1>11. KinCalm
  BY <1>1, <1>7, <1>8, KinSame DEF Is, Flag
<1>12. ASSUME q # INIT_PROC_NR, Alive(q) PROVE OwedInv(q)'
  <2>1. OwedInv(q) /\ Answered(q)
    BY <1>3, <1>5, <1>12 DEF FamilyInv, Answered
  <2>2. ~Answered(q)'
    BY <1>2, <1>4, AnswerGiven
  <2>3. (Forwarded(q)' => Forwarded(q)) /\ AskedOnce(q)'
    BY <1>1, <1>3, <2>1, ForwardedKept DEF OwedInv
  <2>4. AwaitsPm(q)' <=> AwaitsPm(q)
    BY <1>1 DEF AwaitsPm
  <2>5. /\ HangsInPm(q)' => HangsInPm(q)
        /\ Is(q, "PAUSED")' => Is(q, "PAUSED")
        /\ Is(q, "SIGSUSPENDED")' => Is(q, "SIGSUSPENDED")
        /\ Is(q, "WAITING")' => Is(q, "WAITING")
        /\ Is(q, "VFS_CALL")' => Is(q, "VFS_CALL")
        /\ Is(q, "PM_SIG_PENDING")' => Is(q, "PM_SIG_PENDING")
    BY <1>6 DEF Is, HangsInPm, Hanging
  <2> QED BY <1>1, <2>1, <2>2, <2>3, <2>4, <2>5 DEF OwedInv
<1>13. ASSUME NEW x \in Proc, x # q PROVE OwedSame(x)
  BY <1>1, <1>6, <1>13 DEF OwedSame, Is
<1>14. todo[1].op \notin {"disinherit", "check_parent"}
  BY <1>3 DEF Answering
<1> QED BY <1>1, <1>4, <1>9, <1>10, <1>11, <1>12, <1>13, <1>14, FitNone, CalmFamilyStep DEF At

LEMMA SendreplyFamily ==
    ASSUME PmInv, FamilyInv, sendreply
    PROVE  FamilyInv'
<1>1. /\ Top("sendreply") /\ Return(<<>>)
      /\ UNCHANGED <<parent, pgrp, ignore, catch, sigmask, call, delay, vfs>>
  BY DEF sendreply, table, sigs
<1>2. VarTypes /\ todo \in Seq(StackFrame) /\ todo # <<>> /\ todo[1].op = "sendreply"
  BY <1>1, TopCalled
<1>3. \A q \in Proc :
        /\ flags'[q] = IF q \in ToAnswer THEN flags[q] \ {"REPLY"} ELSE flags[q]
        /\ kstate'[q] = IF q \in ToAnswer /\ AwaitsPm(q) THEN "running" ELSE kstate[q]
  BY DEF sendreply, FlagsAfterReplies
<1>4. Pushes(<<>>)
  BY <1>1, <1>2, FitNone, Returning
<1>5. \A q \in Proc : /\ \A f \in Flag \ {"REPLY"} : f \in flags'[q] <=> f \in flags[q]
                      /\ flags'[q] \subseteq flags[q]
                      /\ kstate'[q] = "sending" => kstate[q] = "sending"
  BY <1>3
<1>6. \A q \in Proc : KeepsCalled(q)
  BY <1>1, <1>5 DEF KeepsCalled, Alive, Leaving, Is, Flag
<1>7. InitCalm
  <2>1. INIT_PROC_NR \in Proc /\ "IN_USE" \in Flag \ {"REPLY"}
    BY ProcAssumption DEF Flag
  <2> QED BY <1>1, <1>5, <2>1 DEF InitCalm, FamilyInv, InitInv, Is
<1>8. KinCalm
  BY <1>1, <1>5, KinSame DEF Is, Flag
<1>9. ASSUME NEW q \in Proc \ {INIT_PROC_NR}, Alive(q) PROVE OwedSame(q) \/ OwedInv(q)'
  <2>1. CASE q \in ToAnswer
    <3>1. OwedInv(q) /\ Is(q, "REPLY")
      BY <1>9, <2>1 DEF FamilyInv, ToAnswer
    <3>2. ~Is(q, "REPLY")'
      BY <1>3, <2>1 DEF Is
    <3>3. Answered(q)' => Answered(q)
      BY <1>1, <1>2, <1>4, FitNone, PushShape, AnsweredKept
    <3>4. (Forwarded(q)' => Forwarded(q)) /\ AskedOnce(q)'
      BY <1>1, <1>2, <3>1, ForwardedKept DEF OwedInv
    <3>5. /\ HangsInPm(q)' => HangsInPm(q)
          /\ Is(q, "PAUSED")' => Is(q, "PAUSED")
          /\ Is(q, "SIGSUSPENDED")' => Is(q, "SIGSUSPENDED")
          /\ Is(q, "WAITING")' => Is(q, "WAITING")
          /\ Is(q, "VFS_CALL")' => Is(q, "VFS_CALL")
          /\ Is(q, "PM_SIG_PENDING")' => Is(q, "PM_SIG_PENDING")
      BY <1>5 DEF Is, HangsInPm, Hanging
    <3> QED BY <1>1, <1>5, <3>1, <3>2, <3>3, <3>4, <3>5 DEF OwedInv
  <2>2. CASE q \notin ToAnswer
    BY <1>1, <1>3, <2>2 DEF OwedSame, Is
  <2> QED BY <2>1, <2>2
<1> QED BY <1>1, <1>2, <1>4, <1>6, <1>7, <1>8, <1>9, FitNone, CalmFamilyStep DEF At

\* A slot is freed.
LEMMA ExitRestartEndFamily ==
    ASSUME PmInv, FamilyInv, exit_restart_end
    PROVE  FamilyInv'
<1>1. /\ Top("exit_restart_end") /\ Return(<<>>)
      /\ UNCHANGED <<parent, pgrp, ignore, catch, sigmask, call, kstate, delay, vfs>>
  BY DEF exit_restart_end, OnlyFlags, table, kernel, sigs
<1>2. PICK p \in Proc : p = rmp
  BY <1>1, TopCalled
<1>3. VarTypes /\ todo \in Seq(StackFrame) /\ todo # <<>> /\ todo[1].op = "exit_restart_end"
        /\ 1 \in 1 .. Len(todo) /\ todo[1].p = p
  BY <1>1, <1>2, TopCalled
<1>4. ~Alive(p) /\ ~Is(p, "VFS_CALL") /\ p # INIT_PROC_NR
  <2>1. kstate[p] = "cleared"
    BY <1>3 DEF PmInv, StackInv
  <2>2. LifeInv(p)
    BY DEF PmInv, ProcInv
  <2>3. Alive(INIT_PROC_NR)
    BY DEF FamilyInv, InitInv, Is, Alive
  <2> QED BY <2>1, <2>2, <2>3 DEF LifeInv
<1>5. /\ flags'[p] \subseteq flags[p]
      /\ flags'[p] = flags[p] \/ flags'[p] = {}
      /\ \A q \in Proc \ {p} : flags'[q] = flags[q]
  BY <1>2, <1>3 DEF exit_restart_end, VarTypes
<1>6. Pushes(<<>>)
  BY <1>1, <1>3, FitNone, Returning
<1>7. KinCalm
  <2>1. ~Alive(p)'
    BY <1>4, <1>5 DEF Alive
  <2>2. \A q \in Proc : Alive(q)' <=> Alive(q)
    BY <1>4, <1>5, <2>1 DEF Alive
  <2>3. \A q \in Proc : flags'[q] \subseteq flags[q]
    BY <1>5
  <2> QED BY <1>1, <2>2, <2>3 DEF KinCalm, Is
<1>8. InitCalm
  <2>1. INIT_PROC_NR \in Proc \ {p}
    BY <1>4, ProcAssumption
  <2> QED BY <1>1, <1>5, <2>1 DEF InitCalm, FamilyInv, InitInv, Is
<1>9. \A q \in Proc : KeepsCalled(q)
  BY <1>1, <1>4, <1>5 DEF KeepsCalled, Alive, Leaving, Is
<1>10. \A q \in Proc : Alive(q) => OwedSame(q)
  BY <1>1, <1>4, <1>5 DEF OwedSame, Is
<1> QED BY <1>1, <1>3, <1>6, <1>7, <1>8, <1>9, <1>10, FitNone, CalmFamilyStep DEF At

-----------------------------------------------------------------------------
(***************************************************************************)
(* Parents and children.                                                   *)
(***************************************************************************)

\* Whoever is not exiting is alive if it is a parent.
LEMMA ParentAlive ==
    ASSUME PmInv, FamilyInv, NEW c \in Proc, Is(c, "IN_USE")
    PROVE  Alive(parent[c]) \/ (Is(parent[c], "EXITING") /\ todo # <<>>)
<1>1. ParentInv(c)
  BY DEF FamilyInv
<1>2. ASSUME NEW k \in 1 .. Len(todo), At(k, "disinherit", parent[c])
      PROVE  Is(parent[c], "EXITING") /\ todo # <<>>
  <2>1. CalledInv(k, todo[k])
    BY DEF FamilyInv, CallsInv
  <2>2. todo # <<>>
    BY <1>2
  <2> QED BY <1>2, <2>1, <2>2 DEF CalledInv, At, Leaving
<1> QED BY <1>1, <1>2 DEF ParentInv

\* A zombie is not alive and is in the table.
LEMMA ZombieKnown ==
    ASSUME PmInv, NEW c \in Proc, Is(c, "ZOMBIE")
    PROVE  Is(c, "IN_USE") /\ Is(c, "EXITING") /\ ~Alive(c)
<1>1. LifeInv(c)
  BY DEF PmInv, ProcInv
<1> QED BY <1>1 DEF LifeInv, Alive, Is

\* A parent is told of a zombie.
LEMMA TellingFamily ==
    ASSUME PmInv, FamilyInv, NEW c \in Proc, Is(c, "ZOMBIE"), NEW p \in Proc, p = parent[c], Alive(p),
           NEW clean \in BOOLEAN, clean => ~Is(c, "VFS_CALL"), flags' = FlagsAfterTelling(c, clean),
           UNCHANGED <<parent, pgrp, ignore, catch, sigmask, call, vfs>>,
           kstate'[INIT_PROC_NR] = "sending" => kstate[INIT_PROC_NR] = "sending",
           \A q \in Proc : delay[q] = "raised" => delay'[q] = "raised"
    PROVE  /\ InitCalm /\ KinCalm /\ p # c /\ ~Is(c, "ZOMBIE")'
           /\ \A q \in Proc : KeepsCalled(q)
           /\ flags'[p] = (flags[p] \ {"WAITING"}) \cup {"REPLY"}
           /\ \A q \in Proc \ {p, c} : flags'[q] = flags[q]
<1>0. VarTypes
  BY TypesSplit DEF PmInv
<1>1. ~Alive(c) /\ p # c /\ Is(c, "EXITING")
  BY ZombieKnown
<1>2. /\ flags'[p] = (flags[p] \ {"WAITING"}) \cup {"REPLY"}
      /\ flags'[c] = IF clean THEN {} ELSE (flags[c] \ {"ZOMBIE"}) \cup {"TOLD_PARENT"}
      /\ \A q \in Proc \ {p, c} : flags'[q] = flags[q]
  BY <1>0, <1>1 DEF FlagsAfterTelling, VarTypes
<1>3. ~Is(c, "ZOMBIE")' /\ ~Alive(c)' /\ flags'[c] \subseteq flags[c] \cup {"TOLD_PARENT"}
  BY <1>1, <1>2 DEF Is, Alive
<1>4. Alive(p)' /\ ~Is(p, "EXITING")
  BY <1>2 DEF Alive, Is
<1>5. KinCalm
  <2>1. \A q \in Proc : Alive(q)' <=> Alive(q)
    BY <1>1, <1>2, <1>3, <1>4 DEF Alive
  <2>2. \A q \in Proc : \A f \in {"IN_USE", "EXITING", "ZOMBIE"} : f \in flags'[q] => f \in flags[q]
    BY <1>2, <1>3
  <2>3. \A q \in Proc : Is(q, "TOLD_PARENT")' =>
          Is(q, "TOLD_PARENT") \/ (Is(q, "ZOMBIE") /\ ~Is(q, "ZOMBIE")')
    BY <1>2, <1>3 DEF Is
  <2>4. \A q \in Proc : Is(q, "WAITING")' => Is(q, "WAITING")
    BY <1>2, <1>3 DEF Is
  <2>5. \A q \in Proc : Is(q, "EXITING") => flags'[q] \subseteq flags[q] \cup {"REPLY", "TOLD_PARENT"}
    BY <1>2, <1>3, <1>4
  <2> QED BY <2>1, <2>2, <2>3, <2>4, <2>5 DEF KinCalm
<1>6. InitCalm
  <2>1. INIT_PROC_NR \in Proc /\ Alive(INIT_PROC_NR)
    BY ProcAssumption DEF FamilyInv, InitInv, Is, Alive
  <2>2. INIT_PROC_NR # c
    BY <1>1, <2>1
  <2> QED BY <1>2, <2>1, <2>2 DEF InitCalm, Is, Alive
<1>7. ASSUME NEW q \in Proc PROVE KeepsCalled(q)
  <2>1. CASE q = c
    <3>1. clean => ~Leaving(c)
      BY DEF Leaving
    <3>2. ~clean => (Leaving(c) => Leaving(c)')
      BY <1>2 DEF Leaving, Is
    <3>3. Is(c, "DELAY_CALL")' => Is(c, "DELAY_CALL")
      BY <1>3 DEF Is
    <3> QED BY <1>1, <2>1, <3>1, <3>2, <3>3 DEF KeepsCalled
  <2>2. CASE q # c
    <3>1. \A f \in {"IN_USE", "EXITING", "VFS_CALL", "DELAY_CALL"} : f \in flags'[q] <=> f \in flags[q]
      BY <1>2, <2>2
    <3> QED BY <3>1 DEF KeepsCalled, Alive, Leaving, Is
  <2> QED BY <2>1, <2>2
<1> QED BY <1>1, <1>2, <1>3, <1>5, <1>6, <1>7

LEMMA CheckParentFamily ==
    ASSUME PmInv, FamilyInv, check_parent
    PROVE  FamilyInv'
<1>1. /\ Top("check_parent")
      /\ UNCHANGED <<parent, pgrp, ignore, catch, sigmask, call, kstate, delay, vfs>>
  BY DEF check_parent, OnlyFlags, table, kernel, sigs
<1>2. PICK c \in Proc : c = rmp
  BY <1>1, TopCalled
<1>3. /\ VarTypes /\ todo \in Seq(StackFrame) /\ todo # <<>> /\ todo[1].op = "check_parent"
      /\ todo[1].p = c /\ Is(c, "ZOMBIE")
  BY <1>1, <1>2, TopCalled DEF CalledInv
<1>4. PICK p \in Proc : p = parent[c]
  BY <1>3 DEF VarTypes
<1>5. Alive(p) \/ Is(p, "EXITING")
  BY <1>3, <1>4, ZombieKnown, ParentAlive
<1>6. \A x \in Proc : At(1, "check_parent", x) => x = c
  BY <1>3 DEF At
<1>7. CASE Is(p, "EXITING") /\ Return(<<>>) /\ flags' = flags
  <2>1. ~wait_test(p, c)
    <3>1. DeadInv(p)
      BY DEF FamilyInv
    <3> QED BY <1>7, <3>1 DEF DeadInv, Hanging, wait_test, Is
  <2>2. Pushes(<<>>) /\ Untouched
    BY <1>1, <1>3, <1>7, FitNone, Returning DEF Untouched
  <2> QED BY <1>3, <1>4, <1>6, <2>1, <2>2, FitNone, UntouchedStep
<1>8. CASE /\ ~Is(p, "EXITING") /\ ~wait_test(p, c) /\ flags' = flags
           /\ Return(<<sig_procFrame(p, SIGCHLD, FALSE)>>)
  <2>1. PICK f : f = sig_procFrame(p, SIGCHLD, FALSE)
    OBVIOUS
  <2>2. /\ f \in StackFrame /\ f.op = "sig_proc" /\ f.p = p /\ f.s = SIGCHLD /\ ~f.k
    <3>1. SIGCHLD \in Signal \cup {0} /\ SIGCHLD # 0
      BY ProcAssumption
    <3> QED BY <2>1, <3>1, FrameTypes DEF sig_procFrame, Frame
  <2>3. CalledInv(1, f)' /\ f.op \notin Answering
    BY <1>5, <1>8, <2>2 DEF CalledInv, Alive, Answering
  <2>4. PICK fr \in Seq(StackFrame) :
          fr = <<f>> /\ CallsFit(fr) /\ \A k \in 1 .. Len(fr) : fr[k].op \notin Answering
    BY <2>2, <2>3, FitOne
  <2>5. Pushes(fr) /\ Untouched
    BY <1>1, <1>3, <1>8, <2>1, <2>4, Returning DEF Untouched
  <2> QED BY <1>3, <1>4, <1>6, <1>8, <2>4, <2>5, UntouchedStep
<1>9. ASSUME NEW clean \in BOOLEAN, clean => ~Is(c, "VFS_CALL"), flags' = FlagsAfterTelling(c, clean),
             ~Is(p, "EXITING"), wait_test(p, c), Return(<<>>)
      PROVE  FamilyInv'
  <2>1. Alive(p)
    BY <1>5, <1>9
  <2>2. /\ InitCalm /\ KinCalm /\ p # c /\ ~Is(c, "ZOMBIE")'
        /\ \A q \in Proc : KeepsCalled(q)
        /\ flags'[p] = (flags[p] \ {"WAITING"}) \cup {"REPLY"}
        /\ \A q \in Proc \ {p, c} : flags'[q] = flags[q]
    BY <1>1, <1>3, <1>4, <1>9, <2>1, TellingFamily
  <2>3. Pushes(<<>>)
    BY <1>1, <1>3, <1>9, FitNone, Returning
  <2>4. ASSUME p # INIT_PROC_NR PROVE OwedInv(p)'
    <3>1. OwedInv(p) /\ Is(p, "WAITING")
      BY <1>9, <2>1, <2>4 DEF FamilyInv, wait_test
    <3>2. HangsInPm(p)
      BY <3>1 DEF HangsInPm, Hanging, Is
    <3>3. Answered(p)' => Answered(p)
      BY <1>1, <1>3, <2>3, FitNone, PushShape, AnsweredKept
    <3>4. (Forwarded(p)' => Forwarded(p)) /\ AskedOnce(p)'
      BY <1>1, <1>3, <3>1, ForwardedKept DEF OwedInv
    <3>5. ~Is(p, "PAUSED") /\ ~Is(p, "SIGSUSPENDED")
      BY <3>1 DEF OwedInv
    <3>6. /\ ~Is(p, "PAUSED")' /\ ~Is(p, "SIGSUSPENDED")' /\ ~Is(p, "WAITING")' /\ ~HangsInPm(p)'
          /\ Is(p, "VFS_CALL")' => Is(p, "VFS_CALL")
          /\ Is(p, "PM_SIG_PENDING")' => Is(p, "PM_SIG_PENDING")
      BY <2>2, <3>5 DEF Is, HangsInPm, Hanging
    <3>7. AwaitsPm(p)' <=> AwaitsPm(p)
      BY <1>1 DEF AwaitsPm
    <3> QED BY <1>1, <3>1, <3>2, <3>3, <3>4, <3>6, <3>7 DEF OwedInv
  <2>5. ASSUME NEW q \in Proc \ {p, c} PROVE OwedSame(q)
    BY <1>1, <2>2 DEF OwedSame, Is
  <2>6. ~Alive(c)
    BY <1>3, ZombieKnown
  <2> QED BY <1>1, <1>3, <1>6, <2>2, <2>3, <2>4, <2>5, <2>6, FitNone, CalmFamilyStep
<1>10. (ksig /\ ~Is(c, "VFS_CALL")) \in BOOLEAN
  BY <1>1, TopOf DEF Is
<1> QED BY <1>2, <1>4, <1>7, <1>8, <1>9, <1>10 DEF check_parent

-----------------------------------------------------------------------------
(***************************************************************************)
(* Requests.                                                               *)
(***************************************************************************)

\* One sequence after another.
LEMMA Joined ==
    ASSUME NEW S, NEW x \in Seq(S), NEW y \in Seq(S), NEW z, z = x \o y
    PROVE  /\ z \in Seq(S) /\ Len(x) \in Nat /\ Len(y) \in Nat /\ Len(z) = Len(x) + Len(y)
           /\ \A i \in 1 .. Len(x) : z[i] = x[i]
           /\ \A j \in 1 .. Len(y) : z[Len(x) + j] = y[j]
<1>1. PICK m \in Nat, n \in Nat : m = Len(x) /\ n = Len(y)
  OBVIOUS
<1>2. /\ z \in Seq(S) /\ Len(z) = m + n
      /\ \A i \in 1 .. m + n : z[i] = IF i <= m THEN x[i] ELSE y[i - m]
  BY <1>1, ConcatProperties
<1>3. \A i \in 1 .. m : i \in 1 .. m + n /\ i <= m
  OBVIOUS
<1>4. \A j \in 1 .. n : m + j \in 1 .. m + n /\ ~(m + j <= m) /\ m + j - m = j
  OBVIOUS
<1> QED BY <1>1, <1>2, <1>3, <1>4

LEMMA JoinOneTwo ==
    ASSUME NEW S, NEW f \in S, NEW g \in S, NEW h \in S
    PROVE  <<f>> \o <<g, h>> = <<f, g, h>>
<1>1. PICK x, y, t, z : x = <<f>> /\ y = <<g, h>> /\ t = <<f, g, h>> /\ z = x \o y
  OBVIOUS
<1>2. /\ Len(x) = 1 /\ Len(y) = 2 /\ x[1] = f /\ y[1] = g /\ y[2] = h /\ x \in Seq(S) /\ y \in Seq(S)
      /\ Len(t) = 3 /\ t[1] = f /\ t[2] = g /\ t[3] = h /\ t \in Seq(S)
  BY <1>1
<1>3. /\ z \in Seq(S) /\ Len(z) = Len(x) + Len(y)
      /\ \A i \in 1 .. Len(x) : z[i] = x[i]
      /\ \A j \in 1 .. Len(y) : z[Len(x) + j] = y[j]
  BY <1>1, <1>2, Joined
<1>4. Len(z) = 3 /\ z[1] = f /\ z[1 + 1] = g /\ z[1 + 2] = h
  <2>1. 1 \in 1 .. 1 /\ 1 \in 1 .. 2 /\ 2 \in 1 .. 2
    OBVIOUS
  <2> QED BY <1>2, <1>3, <2>1
<1>5. \A i \in 1 .. 3 : z[i] = t[i]
  BY <1>2, <1>4
<1>6. z = t
  BY <1>2, <1>3, <1>4, <1>5, SeqEqual
<1> QED BY <1>1, <1>6

\* The frames with which PM starts on a message.
LEMMA StartFit ==
    ASSUME todo = <<>>, NEW f \in StackFrame, NEW g \in StackFrame, NEW h \in StackFrame,
           NEW i \in StackFrame, CalledInv(1, f)', CalledInv(2, g)', CalledInv(3, h)', CalledInv(4, i)',
           f.op \notin Answering \/ g.op \notin Answering,
           h.op \notin Answering, i.op \notin Answering,
           NEW fr \in Seq(StackFrame), todo' = fr, NEW n \in 1 .. 4, Len(fr) = n,
           fr[1] = f, n >= 2 => fr[2] = g, n >= 3 => fr[3] = h, n >= 4 => fr[4] = i
    PROVE  /\ Pushes(fr) /\ CallsFit(fr)
           /\ \A k \in 1 .. Len(fr) : fr[k].op \in Answering => fr[k] = f \/ fr[k] = g
<1>1. ASSUME NEW k \in 1 .. n
      PROVE  \/ k = 1 /\ fr[k] = f
             \/ k = 2 /\ fr[k] = g
             \/ k = 3 /\ fr[k] = h
             \/ k = 4 /\ fr[k] = i
  OBVIOUS
<1>2. \A k \in 1 .. n : CalledInv(k, fr[k])'
  <2> SUFFICES ASSUME NEW k \in 1 .. n, NEW e, e = fr[k] PROVE CalledInv(k, e)'
    OBVIOUS
  <2> QED BY <1>1
<1>3. \A k \in 1 .. n : fr[k].op \in Answering => k \in {1, 2}
  BY <1>1
<1>4. \A k, l \in 1 .. n : fr[k].op \in Answering /\ fr[l].op \in Answering => k = l
  <2> SUFFICES ASSUME NEW k \in 1 .. n, NEW l \in 1 .. n, fr[k].op \in Answering, fr[l].op \in Answering
               PROVE  k = l
    OBVIOUS
  <2>1. k \in {1, 2} /\ l \in {1, 2}
    BY <1>3
  <2>2. (k = 1 => fr[k] = f) /\ (k = 2 => fr[k] = g) /\ (l = 1 => fr[l] = f) /\ (l = 2 => fr[l] = g)
    BY <1>1
  <2> QED BY <2>1, <2>2
<1>5. CallsFit(fr)
  BY <1>2, <1>4 DEF CallsFit
<1> QED BY <1>1, <1>5, Starting

LEMMA StartOne ==
    ASSUME todo = <<>>, NEW f \in StackFrame, \A k : CalledInv(k, f)', f.op \notin Answering,
           todo' = <<f>>
    PROVE  \E fr : /\ fr = <<f>> /\ Pushes(fr) /\ CallsFit(fr)
                   /\ \A k \in 1 .. Len(fr) : fr[k].op \notin Answering
<1>1. PICK fr : fr = <<f>>
  OBVIOUS
<1>2. fr \in Seq(StackFrame) /\ Len(fr) = 1 /\ fr[1] = f /\ todo' = fr
  BY <1>1
<1>3. 1 \in 1 .. 4 /\ ~(1 >= 2) /\ ~(1 >= 3) /\ ~(1 >= 4)
  OBVIOUS
<1>4. /\ Pushes(fr) /\ CallsFit(fr)
      /\ \A k \in 1 .. Len(fr) : fr[k].op \in Answering => fr[k] = f \/ fr[k] = f
  BY <1>2, <1>3, StartFit
<1> QED BY <1>1, <1>4

LEMMA StartTwo ==
    ASSUME todo = <<>>, NEW f \in StackFrame, NEW g \in StackFrame, CalledInv(1, f)',
           \A k : CalledInv(k, g)', g.op \notin Answering, todo' = <<f, g>>
    PROVE  \E fr : /\ fr = <<f, g>> /\ Pushes(fr) /\ CallsFit(fr) /\ 1 \in 1 .. Len(fr) /\ fr[1] = f
                   /\ \A k \in 1 .. Len(fr) : fr[k].op \in Answering => fr[k] = f
<1>1. PICK fr : fr = <<f, g>>
  OBVIOUS
<1>2. fr \in Seq(StackFrame) /\ Len(fr) = 2 /\ fr[1] = f /\ fr[2] = g /\ todo' = fr
  BY <1>1
<1>3. 2 \in 1 .. 4 /\ ~(2 >= 3) /\ ~(2 >= 4) /\ 1 \in 1 .. 2
  OBVIOUS
<1>4. /\ Pushes(fr) /\ CallsFit(fr)
      /\ \A k \in 1 .. Len(fr) : fr[k].op \in Answering => fr[k] = f \/ fr[k] = g
  BY <1>2, <1>3, StartFit
<1> QED BY <1>1, <1>2, <1>3, <1>4

LEMMA StartThree ==
    ASSUME todo = <<>>, NEW f \in StackFrame, NEW g \in StackFrame, NEW h \in StackFrame,
           CalledInv(1, f)', f.op \notin Answering, CalledInv(2, g)',
           \A k : CalledInv(k, h)', h.op \notin Answering, todo' = <<f, g, h>>
    PROVE  \E fr : /\ fr = <<f, g, h>> /\ Pushes(fr) /\ CallsFit(fr) /\ 1 \in 1 .. Len(fr) /\ fr[1] = f
                   /\ \A k \in 1 .. Len(fr) : fr[k].op \in Answering => fr[k] = g
<1>1. PICK fr : fr = <<f, g, h>>
  OBVIOUS
<1>2. fr \in Seq(StackFrame) /\ Len(fr) = 3 /\ fr[1] = f /\ fr[2] = g /\ fr[3] = h /\ todo' = fr
  BY <1>1
<1>3. 3 \in 1 .. 4 /\ ~(3 >= 4) /\ 1 \in 1 .. 3
  OBVIOUS
<1>4. /\ Pushes(fr) /\ CallsFit(fr)
      /\ \A k \in 1 .. Len(fr) : fr[k].op \in Answering => fr[k] = f \/ fr[k] = g
  BY <1>2, <1>3, StartFit
<1> QED BY <1>1, <1>2, <1>3, <1>4

LEMMA StartFour ==
    ASSUME todo = <<>>, NEW f \in StackFrame, NEW g \in StackFrame, NEW h \in StackFrame,
           NEW i \in StackFrame, CalledInv(1, f)', CalledInv(2, g)', CalledInv(3, h)', CalledInv(4, i)',
           f.op \notin Answering, g.op \notin Answering, h.op \notin Answering, i.op \notin Answering,
           NEW fr \in Seq(StackFrame), todo' = fr, Len(fr) = 4,
           fr[1] = f, fr[2] = g, fr[3] = h, fr[4] = i
    PROVE  Pushes(fr) /\ CallsFit(fr) /\ \A k \in 1 .. Len(fr) : fr[k].op \notin Answering
<1>1. PICK n \in 1 .. 4 : n = 4
  OBVIOUS
<1>2. /\ Len(fr) = n
      /\ n >= 2 => fr[2] = g
      /\ n >= 3 => fr[3] = h
      /\ n >= 4 => fr[4] = i
  BY <1>1
<1>3. /\ Pushes(fr) /\ CallsFit(fr)
      /\ \A k \in 1 .. Len(fr) : fr[k].op \in Answering => fr[k] = f \/ fr[k] = g
  BY <1>2, StartFit
<1> QED BY <1>3

\* What PM knows of a process whose request it receives.
LEMMA CallerKnown ==
    ASSUME PmInv, FamilyInv, NEW p \in Proc, NEW typ, Receives(p, typ)
    PROVE  /\ todo = <<>> /\ VarTypes /\ Alive(p) /\ kstate[p] = "sending" /\ call[p].typ = typ
           /\ p = INIT_PROC_NR => typ = "waitpid"
           /\ p # INIT_PROC_NR => /\ OwedInv(p) /\ ~Is(p, "REPLY") /\ ~HangsInPm(p) /\ ~Forwarded(p)
                                  /\ ~Is(p, "VFS_CALL") /\ ~Is(p, "PM_SIG_PENDING")
           /\ p = INIT_PROC_NR => ~Is(p, "VFS_CALL")
           /\ \A q : ~Answered(q)
           /\ \A q \in Proc \ {p} : delay'[q] = delay[q]
           /\ \A q \in Proc : delay[q] = "raised" => delay'[q] = "raised"
<1>1. todo = <<>> /\ VarTypes /\ Alive(p) /\ kstate[p] = "sending" /\ call[p].typ = typ
  BY TypesSplit DEF Receives, PmInv
<1>2. p = INIT_PROC_NR => typ = "waitpid" /\ ~Is(p, "VFS_CALL")
  BY <1>1 DEF FamilyInv, InitInv, Is
<1>3. ASSUME p # INIT_PROC_NR
      PROVE  /\ OwedInv(p) /\ ~Is(p, "REPLY") /\ ~HangsInPm(p) /\ ~Forwarded(p)
             /\ ~Is(p, "VFS_CALL") /\ ~Is(p, "PM_SIG_PENDING")
  <2>1. OwedInv(p) /\ ~AwaitsPm(p)
    BY <1>1, <1>3 DEF FamilyInv, AwaitsPm
  <2> QED BY <1>1, <2>1 DEF OwedInv
<1>4. \A q : ~Answered(q)
  <2>1. Len(todo) = 0
    BY <1>1
  <2> QED BY <2>1 DEF Answered
<1>5. /\ \A q \in Proc \ {p} : delay'[q] = delay[q]
      /\ \A q \in Proc : delay[q] = "raised" => delay'[q] = "raised"
  BY <1>1 DEF Receives, SendingEnds, VarTypes
<1> QED BY <1>1, <1>2, <1>3, <1>4, <1>5

\* The answer is for p, or p hangs.
LEMMA CallOwed ==
    ASSUME PmInv, FamilyInv, NEW p \in Proc, NEW typ, Receives(p, typ), Received(p),
           typ # "server",
           NEW fr, Pushes(fr), UNCHANGED <<parent, vfs>>,
           NEW g, flags' = flags \/ flags' = [flags EXCEPT ![p] = @ \cup {g}],
           \/ flags' = flags
           \/ g = "PAUSED" /\ typ = "pause"
           \/ g = "SIGSUSPENDED" /\ typ = "sigsuspend"
           \/ g = "WAITING" /\ typ = "waitpid",
           \A k \in 1 .. Len(fr) : fr[k].op \in Answering =>
             fr[k].op # "fork_failed" /\ fr[k].p = p /\ flags' = flags
    PROVE  \A q \in Proc \ {INIT_PROC_NR} : Alive(q) => OwedInv(q)'
<1>0. /\ todo = <<>> /\ VarTypes /\ Alive(p) /\ kstate[p] = "sending" /\ call[p].typ = typ
      /\ p # INIT_PROC_NR => /\ OwedInv(p) /\ ~Is(p, "REPLY") /\ ~HangsInPm(p) /\ ~Forwarded(p)
                             /\ ~Is(p, "VFS_CALL") /\ ~Is(p, "PM_SIG_PENDING")
      /\ \A q : ~Answered(q)
  BY CallerKnown
<1>1. SUFFICES ASSUME NEW q \in Proc \ {INIT_PROC_NR}, Alive(q) PROVE OwedInv(q)'
  OBVIOUS
<1>2. OwedInv(q)
  BY <1>1 DEF FamilyInv
<1>3. (Forwarded(q)' => Forwarded(q)) /\ AskedOnce(q)'
  BY <1>0, <1>2, ForwardedKept DEF OwedInv
<1>4. Answered(q)' => q = p /\ flags' = flags
  <2>1. StackShape(fr)
    BY PushShape, TypesSplit DEF PmInv
  <2>2. Len(todo') = Len(fr) /\ \A k \in 1 .. Len(fr) : todo'[k] = fr[k]
    BY <1>0, <2>1 DEF StackShape
  <2> QED BY <2>2 DEF Answered, Answers, Answering
<1>5. call' = call /\ kstate' = [kstate EXCEPT ![p] = "receiving"]
  BY DEF Received
<1>6. CASE q # p
  <2>1. flags'[q] = flags[q] /\ kstate'[q] = kstate[q]
    BY <1>0, <1>5, <1>6 DEF VarTypes
  <2>2. OwedSame(q)
    BY <1>5, <2>1 DEF OwedSame, Is
  <2> QED BY <1>2, <1>3, <1>4, <1>6, <2>2, OwedKept
<1>7. CASE q = p
  <2>1. kstate'[p] = "receiving" /\ AwaitsPm(p)'
    BY <1>0, <1>5 DEF VarTypes, AwaitsPm
  <2>2. CASE flags' = flags
    BY <1>0, <1>2, <1>3, <1>5, <1>7, <2>1, <2>2 DEF OwedInv, Is, HangsInPm
  <2>3. CASE flags' # flags
    <3>1. flags'[p] = flags[p] \cup {g} /\ g \in Hanging
      BY <1>0, <2>3 DEF VarTypes, Hanging
    <3>2. ~Answered(p)' /\ ~Forwarded(p)'
      BY <1>0, <1>3, <1>4, <1>7, <2>3
    <3>3. ~Is(p, "PAUSED") /\ ~Is(p, "SIGSUSPENDED") /\ ~Is(p, "WAITING") /\ ~Is(p, "REPLY")
      BY <1>0, <1>7 DEF HangsInPm, Hanging, Is
    <3>4. ~Is(p, "REPLY")'
      BY <3>1, <3>3 DEF Is, Hanging
    <3>5. /\ Is(p, "PAUSED")' => g = "PAUSED"
          /\ Is(p, "SIGSUSPENDED")' => g = "SIGSUSPENDED"
          /\ Is(p, "WAITING")' => g = "WAITING"
      BY <3>1, <3>3 DEF Is
    <3> QED BY <1>0, <1>3, <1>5, <1>7, <2>1, <2>3, <3>2, <3>4, <3>5 DEF OwedInv
  <2> QED BY <2>2, <2>3
<1> QED BY <1>6, <1>7

\* Frames that stand for no condition.
LEMMA ThenCalled ==
    ASSUME NEW op \in {"setreply", "kill_result", "fork_failed", "sendreply", "exit_restart_end",
                       "sys_endksig"},
           NEW p \in Proc, NEW f, f = Then(op, p)
    PROVE  f \in StackFrame /\ f.op = op /\ f.p = p /\ \A k : CalledInv(k, f)'
<1>1. op \in Function \ {"sig_proc", "check_sig"}
  BY DEF Function
<1>2. f.op = op /\ f.p = p /\ f \in StackFrame
  <2>1. Then(op, p) \in StackFrame
    BY <1>1, FrameTypes
  <2> QED BY <2>1 DEF Then, Frame
<1> QED BY <1>2 DEF CalledInv

LEMMA SendreplyCalled ==
    \E f \in StackFrame : f = Sendreply /\ f.op = "sendreply" /\ f.op \notin Answering
                            /\ \A k : CalledInv(k, f)'
<1>1. PICK f : f = Then("sendreply", INIT_PROC_NR)
  OBVIOUS
<1>2. f \in StackFrame /\ f.op = "sendreply" /\ \A k : CalledInv(k, f)'
  BY <1>1, ThenCalled, ProcAssumption
<1> QED BY <1>1, <1>2 DEF Sendreply, Answering

\* A request after which no family is other than before.
LEMMA CalmCallFamily ==
    ASSUME PmInv, FamilyInv, NEW p \in Proc, NEW typ, Receives(p, typ), Received(p),
           typ # "server", NEW fr, Pushes(fr), CallsFit(fr), UNCHANGED <<parent, pgrp, vfs>>,
           NEW g, flags' = flags \/ flags' = [flags EXCEPT ![p] = @ \cup {g}],
           \/ flags' = flags
           \/ g = "PAUSED" /\ typ = "pause"
           \/ g = "SIGSUSPENDED" /\ typ = "sigsuspend",
           \A k \in 1 .. Len(fr) : fr[k].op \in Answering =>
             fr[k].op # "fork_failed" /\ fr[k].p = p /\ flags' = flags,
           \A q \in Proc \ {p} :
             ignore'[q] = ignore[q] /\ catch'[q] = catch[q] /\ sigmask'[q] = sigmask[q],
           p = INIT_PROC_NR => UNCHANGED <<ignore, catch, sigmask>>
    PROVE  FamilyInv'
<1>0. /\ todo = <<>> /\ VarTypes /\ Alive(p) /\ kstate[p] = "sending" /\ call[p].typ = typ
      /\ p = INIT_PROC_NR => typ = "waitpid"
  BY CallerKnown
<1>1. call' = call /\ kstate' = [kstate EXCEPT ![p] = "receiving"]
  BY DEF Received
<1>2. \A q \in Proc \ {INIT_PROC_NR} : Alive(q) => OwedInv(q)'
  BY CallOwed
<1>3. /\ \A q \in Proc \ {p} : flags'[q] = flags[q]
      /\ flags'[p] = flags[p] \/ (flags'[p] = flags[p] \cup {g} /\ g \in {"PAUSED", "SIGSUSPENDED"})
      /\ \A q \in Proc : kstate'[q] = "sending" => kstate[q] = "sending"
  BY <1>0, <1>1 DEF VarTypes
<1>4. InitCalm
  <2>1. flags'[INIT_PROC_NR] = flags[INIT_PROC_NR] /\ INIT_PROC_NR \in Proc
    BY <1>0, <1>3, ProcAssumption
  <2>2. /\ ignore'[INIT_PROC_NR] = ignore[INIT_PROC_NR] /\ catch'[INIT_PROC_NR] = catch[INIT_PROC_NR]
        /\ sigmask'[INIT_PROC_NR] = sigmask[INIT_PROC_NR]
    BY <2>1
  <2> QED BY <1>1, <1>3, <2>1, <2>2 DEF InitCalm, FamilyInv, InitInv, Is
<1>5. KinCalm
  <2>1. \A q \in Proc : \A f \in {"IN_USE", "EXITING", "ZOMBIE", "TOLD_PARENT"} :
          f \in flags'[q] <=> f \in flags[q]
    BY <1>3
  <2>2. \A q \in Proc : Is(q, "WAITING")' => Is(q, "WAITING")
    BY <1>3 DEF Is
  <2>3. \A q \in Proc : Is(q, "EXITING") => flags'[q] \subseteq flags[q]
    BY <1>0, <1>3 DEF Is, Alive
  <2> QED BY <1>1, <2>1, <2>2, <2>3, KinSame
<1> QED BY <1>0, <1>2, <1>4, <1>5, FamilyStep

\* A request that is answered at once.
LEMMA AnswerFamily ==
    ASSUME PmInv, FamilyInv, NEW p \in Proc, NEW typ, Receives(p, typ), Received(p),
           typ # "server", UNCHANGED <<flags, parent, pgrp, vfs>>, todo' = Answer(p),
           \A q \in Proc \ {p} :
             ignore'[q] = ignore[q] /\ catch'[q] = catch[q] /\ sigmask'[q] = sigmask[q],
           p = INIT_PROC_NR => UNCHANGED <<ignore, catch, sigmask>>
    PROVE  FamilyInv'
<1>0. todo = <<>>
  BY CallerKnown
<1>1. PICK s \in StackFrame :
        s = Sendreply /\ s.op = "sendreply" /\ s.op \notin Answering /\ \A k : CalledInv(k, s)'
  BY SendreplyCalled
<1>2. PICK f : f = Then("setreply", p)
  OBVIOUS
<1>3. f \in StackFrame /\ f.op = "setreply" /\ f.p = p /\ \A k : CalledInv(k, f)'
  BY <1>2, ThenCalled
<1>4. todo' = <<f, s>>
  BY <1>1, <1>2 DEF Answer
<1>5. PICK fr : /\ Pushes(fr) /\ CallsFit(fr)
                /\ \A k \in 1 .. Len(fr) : fr[k].op \in Answering => fr[k] = f
  BY <1>0, <1>1, <1>3, <1>4, StartTwo
<1>6. \A k \in 1 .. Len(fr) : fr[k].op \in Answering => fr[k].op # "fork_failed" /\ fr[k].p = p
  BY <1>1, <1>3, <1>5
<1> QED BY <1>5, <1>6, CalmCallFamily

LEMMA AnsweredCallFamily ==
    ASSUME PmInv, FamilyInv, NEW p \in Proc,
           do_sigprocmask_block(p) \/ do_sigaction(p) \/ WaitRefused(p) \/ ForkRefused(p)
    PROVE  FamilyInv'
<1>0. VarTypes
  BY TypesSplit DEF PmInv
<1>1. CASE do_sigprocmask_block(p)
  <2>1. /\ Receives(p, "sigblock") /\ Received(p) /\ todo' = Answer(p)
        /\ sigmask' = [sigmask EXCEPT ![p] = @ \cup Catchable(call[p].set)]
        /\ UNCHANGED <<flags, parent, pgrp, ignore, catch, vfs>>
    BY <1>1 DEF do_sigprocmask_block, table
  <2>2. p # INIT_PROC_NR
    BY <2>1, CallerKnown
  <2>3. \A q \in Proc \ {p} : sigmask'[q] = sigmask[q]
    BY <1>0, <2>1 DEF VarTypes
  <2> QED BY <2>1, <2>2, <2>3, AnswerFamily
<1>2. CASE do_sigaction(p)
  <2>1. PICK typ \in {"SIG_IGN", "SIG_DFL", "handler"} : Receives(p, typ)
    BY <1>2 DEF do_sigaction
  <2>2. /\ Received(p) /\ todo' = Answer(p) /\ UNCHANGED <<flags, parent, pgrp, sigmask, vfs>>
        /\ \E I, C : ignore' = [ignore EXCEPT ![p] = I] /\ catch' = [catch EXCEPT ![p] = C]
    BY <1>2 DEF do_sigaction
  <2>3. p # INIT_PROC_NR
    BY <2>1, CallerKnown
  <2>4. \A q \in Proc \ {p} : ignore'[q] = ignore[q] /\ catch'[q] = catch[q]
    BY <1>0, <2>2 DEF VarTypes
  <2> QED BY <2>1, <2>2, <2>3, <2>4, AnswerFamily
<1>3. CASE WaitRefused(p) \/ ForkRefused(p)
  <2>1. PICK typ \in {"waitpid", "fork"} : Receives(p, typ)
    BY <1>3 DEF WaitRefused, ForkRefused
  <2>2. /\ Received(p) /\ todo' = Answer(p)
        /\ UNCHANGED <<flags, parent, pgrp, ignore, catch, sigmask, vfs>>
    BY <1>3 DEF WaitRefused, ForkRefused, table, sigs
  <2> QED BY <2>1, <2>2, AnswerFamily
<1> QED BY <1>1, <1>2, <1>3

\* pause, sigsuspend, sigprocmask and kill.
LEMMA SignalCallFamily ==
    ASSUME PmInv, FamilyInv, NEW p \in Proc,
           do_pause(p) \/ do_sigsuspend(p) \/ do_sigprocmask_set(p) \/ do_kill(p)
    PROVE  FamilyInv'
<1>1. PICK typ \in {"pause", "sigsuspend", "sigsetmask", "kill"} : Receives(p, typ)
  BY DEF do_pause, do_sigsuspend, do_sigprocmask_set, do_kill
<1>2. /\ todo = <<>> /\ VarTypes /\ Alive(p) /\ call[p].typ = typ /\ p # INIT_PROC_NR
  BY <1>1, CallerKnown
<1>3. Received(p) /\ UNCHANGED <<parent, pgrp, ignore, catch, vfs>>
  BY DEF do_pause, do_sigsuspend, do_sigprocmask_set, do_kill, table, sigs
<1>4. \A q \in Proc \ {p} : sigmask'[q] = sigmask[q]
  BY <1>2 DEF do_pause, do_sigsuspend, do_sigprocmask_set, do_kill, VarTypes, sigs
<1>5. PICK s \in StackFrame :
        s = Sendreply /\ s.op = "sendreply" /\ s.op \notin Answering /\ \A k : CalledInv(k, s)'
  BY SendreplyCalled
<1>6. ASSUME NEW f \in StackFrame, CalledInv(1, f)', f.op \notin Answering,
             NEW op \in {"setreply", "kill_result"}, flags' = flags,
             todo' = <<f, Then(op, p), s>>
      PROVE  FamilyInv'
  <2>1. PICK a : a = Then(op, p)
    OBVIOUS
  <2>2. a \in StackFrame /\ a.op = op /\ a.p = p /\ \A k : CalledInv(k, a)'
    BY <2>1, ThenCalled
  <2>3. todo' = <<f, a, s>>
    BY <1>6, <2>1
  <2>4. PICK fr : /\ Pushes(fr) /\ CallsFit(fr)
                  /\ \A k \in 1 .. Len(fr) : fr[k].op \in Answering => fr[k] = a
    BY <1>2, <1>5, <1>6, <2>2, <2>3, StartThree
  <2>5. \A k \in 1 .. Len(fr) : fr[k].op \in Answering => fr[k].op # "fork_failed" /\ fr[k].p = p
    BY <2>2, <2>4
  <2> QED BY <1>1, <1>2, <1>3, <1>4, <1>6, <2>4, <2>5, CalmCallFamily
<1>7. ASSUME NEW f \in StackFrame, CalledInv(1, f)', f.op \notin Answering,
             todo' = <<f, s>> \/ todo' = <<s>>, NEW g, flags' = [flags EXCEPT ![p] = @ \cup {g}],
             (g = "PAUSED" /\ typ = "pause") \/ (g = "SIGSUSPENDED" /\ typ = "sigsuspend")
      PROVE  FamilyInv'
  <2>1. PICK fr : Pushes(fr) /\ CallsFit(fr) /\ \A k \in 1 .. Len(fr) : fr[k].op \notin Answering
    <3>1. CASE todo' = <<f, s>>
      BY <1>2, <1>5, <1>7, <3>1, StartTwo
    <3>2. CASE todo' = <<s>>
      BY <1>2, <1>5, <3>2, StartOne
    <3> QED BY <1>7, <3>1, <3>2
  <2> QED BY <1>1, <1>2, <1>3, <1>4, <1>7, <2>1, CalmCallFamily
<1>8. PICK f : f = check_pendingFrame(p, 0)
  OBVIOUS
<1>9. f \in StackFrame /\ f.op = "check_pending" /\ f.p = p /\ f.s = 0 /\ f.op \notin Answering
  <2>1. 0 \in Signal \cup {0}
    OBVIOUS
  <2> QED BY <1>8, <2>1, FrameTypes DEF check_pendingFrame, Frame, Answering
<1>10. Alive(p)' => CalledInv(1, f)'
  BY <1>2, <1>9 DEF CalledInv
<1>11. CASE do_pause(p)
  <2>1. flags' = [flags EXCEPT ![p] = @ \cup {"PAUSED"}] /\ todo' = <<s>> /\ call[p].typ = "pause"
    BY <1>5, <1>11 DEF do_pause, Receives
  <2>2. Alive(p)'
    BY <1>2, <2>1 DEF Alive, VarTypes
  <2> QED BY <1>2, <1>7, <1>9, <1>10, <2>1, <2>2
<1>12. CASE do_sigsuspend(p)
  <2>1. /\ flags' = [flags EXCEPT ![p] = @ \cup {"SIGSUSPENDED"}] /\ todo' = <<f, s>>
        /\ call[p].typ = "sigsuspend"
    BY <1>5, <1>8, <1>12 DEF do_sigsuspend, Receives
  <2>2. Alive(p)'
    BY <1>2, <2>1 DEF Alive, VarTypes
  <2> QED BY <1>2, <1>7, <1>9, <1>10, <2>1, <2>2
<1>13. CASE do_sigprocmask_set(p)
  <2>1. flags' = flags /\ todo' = <<f>> \o Answer(p)
    BY <1>8, <1>13 DEF do_sigprocmask_set
  <2>2. todo' = <<f, Then("setreply", p), s>>
    <3>1. PICK a : a = Then("setreply", p)
      OBVIOUS
    <3>2. a \in StackFrame /\ Then("setreply", p) = a
      BY <3>1, ThenCalled
    <3>3. <<f>> \o <<a, s>> = <<f, a, s>>
      BY <1>5, <1>9, <3>2, JoinOneTwo
    <3> QED BY <1>5, <2>1, <3>2, <3>3 DEF Answer
  <2>3. Alive(p)'
    BY <1>2, <2>1 DEF Alive
  <2> QED BY <1>6, <1>9, <1>10, <2>1, <2>2, <2>3
<1>14. CASE do_kill(p)
  <2>1. PICK t : t = check_sigFrame(KillTargets(p), call[p].sig, FALSE)
    OBVIOUS
  <2>2. flags' = flags /\ todo' = <<t, Then("kill_result", p), s>> /\ call[p].typ = "kill"
    BY <1>5, <1>14, <2>1 DEF do_kill, Receives
  <2>3. /\ t \in StackFrame /\ t.op = "check_sig" /\ t.procs = KillTargets(p) /\ t.op \notin Answering
    <3>1. KillTargets(p) \in SUBSET Proc /\ call[p].sig \in Signal
      BY <1>2, <2>2 DEF KillTargets, VarTypes, CallType, NamesSignal
    <3>2. call[p].sig \in Signal \cup {0} /\ call[p].sig # 0 /\ FALSE \in BOOLEAN
      BY <3>1, ProcAssumption
    <3> QED BY <2>1, <3>1, <3>2, FrameTypes DEF check_sigFrame, Frame, Answering
  <2>4. INIT_PROC_NR \notin t.procs
    <3>1. INIT_PROC_NR \notin call[p].to
      BY <2>2 DEF FamilyInv, InitInv
    <3> QED BY <2>3, <3>1 DEF KillTargets
  <2>5. CalledInv(1, t)'
    BY <2>3, <2>4 DEF CalledInv
  <2> QED BY <1>6, <2>2, <2>3, <2>5
<1> QED BY <1>11, <1>12, <1>13, <1>14

-----------------------------------------------------------------------------
(***************************************************************************)
(* Steps outside PM, and requests PM drops.                                *)
(***************************************************************************)
LEMMA OutsideFamily ==
    ASSUME PmInv, FamilyInv, InitInv',
           UNCHANGED <<flags, parent, pgrp, ignore, catch, sigmask, todo, vfs>>,
           \A q \in Proc : delay[q] = "raised" => delay'[q] = "raised",
           \A q \in Proc : Is(q, "WAITING") => call'[q].to = call[q].to,
           \A q \in Proc \ {INIT_PROC_NR} :
             Alive(q) /\ ~OwedSame(q) =>
               /\ ~Is(q, "REPLY") /\ ~HangsInPm(q) /\ ~Answered(q) /\ ~Forwarded(q)
               /\ Is(q, "VFS_CALL") \/ Is(q, "PM_SIG_PENDING") => kstate'[q] # "sending"
    PROVE  FamilyInv'
<1>0. VarTypes
  BY TypesSplit DEF PmInv
<1>1. CallsInv'
  BY CallsOutside DEF FamilyInv
<1>2. KinCalm
  BY KinSame DEF Is
<1>3. (\A c \in Proc : ParentInv(c) /\ ZombieInv(c) /\ DeadInv(c))'
  BY <1>2, KinOutside
<1>4. ASSUME NEW q \in Proc \ {INIT_PROC_NR}, Alive(q) PROVE OwedInv(q)'
  <2>1. OwedInv(q)
    BY <1>4 DEF FamilyInv
  <2>2. Answered(q)' => Answered(q)
    BY DEF Answered, Answers
  <2>3. (Forwarded(q)' => Forwarded(q)) /\ AskedOnce(q)'
    BY <1>0, <2>1, ForwardedKept DEF OwedInv
  <2>4. CASE OwedSame(q)
    BY <2>1, <2>2, <2>3, <2>4, OwedKept
  <2>5. CASE ~OwedSame(q)
    <3>1. /\ ~Is(q, "REPLY") /\ ~HangsInPm(q) /\ ~Answered(q) /\ ~Forwarded(q)
          /\ Is(q, "VFS_CALL") \/ Is(q, "PM_SIG_PENDING") => kstate'[q] # "sending"
      BY <1>4, <2>5
    <3>2. /\ ~Is(q, "REPLY")' /\ ~HangsInPm(q)' /\ ~Is(q, "PAUSED")' /\ ~Is(q, "SIGSUSPENDED")'
          /\ ~Is(q, "WAITING")'
          /\ Is(q, "VFS_CALL")' \/ Is(q, "PM_SIG_PENDING")' => kstate'[q] # "sending"
      BY <3>1 DEF Is, HangsInPm, Hanging
    <3> QED BY <2>2, <2>3, <3>1, <3>2 DEF OwedInv
  <2> QED BY <2>4, <2>5
<1>5. (\A q \in Proc \ {INIT_PROC_NR} : Alive(q) => OwedInv(q))'
  BY <1>4 DEF Alive
<1> QED BY <1>1, <1>3, <1>5 DEF FamilyInv

\* A process that is sending or running is owed nothing.
LEMMA NothingOwed ==
    ASSUME PmInv, FamilyInv, NEW p \in Proc \ {INIT_PROC_NR}, Alive(p), ~AwaitsPm(p)
    PROVE  /\ ~Is(p, "REPLY") /\ ~HangsInPm(p) /\ ~Answered(p) /\ ~Forwarded(p)
           /\ Is(p, "VFS_CALL") => Is(p, "PM_SIG_PENDING")
<1>0. OwedInv(p) /\ VfsInv(p) /\ VarTypes
  BY TypesSplit DEF FamilyInv, PmInv, ProcInv
<1>1. ~Is(p, "REPLY") /\ ~HangsInPm(p) /\ ~Answered(p) /\ ~Forwarded(p)
  BY <1>0 DEF OwedInv
<1>2. ASSUME Is(p, "VFS_CALL") PROVE Is(p, "PM_SIG_PENDING")
  <2>1. PICK r \in vfs : r.p = p
    BY <1>0, <1>2 DEF VfsInv
  <2>2. r.typ \in {"PM_SETUID", "PM_UNPAUSE", "PM_FORK", "PM_EXIT", "PM_DUMPCORE"}
    BY <1>0 DEF VarTypes
  <2>3. r.typ \notin {"PM_EXIT", "PM_DUMPCORE"}
    BY <1>0, <2>1 DEF VfsInv, Alive, Is
  <2>4. r.typ \notin {"PM_SETUID", "PM_FORK"}
    BY <1>1, <2>1 DEF Forwarded, Asked
  <2> QED BY <1>0, <2>1, <2>2, <2>3, <2>4 DEF VfsInv
<1> QED BY <1>1, <1>2

LEMMA SentFamily ==
    ASSUME PmInv, FamilyInv, NEW p \in Proc, DropCall(p) \/ ServerReceives(p)
    PROVE  FamilyInv'
<1>0. VarTypes
  BY TypesSplit DEF PmInv
<1>1. /\ UNCHANGED <<flags, parent, pgrp, ignore, catch, sigmask, todo, vfs>>
      /\ call' = call /\ kstate' = [kstate EXCEPT ![p] = "receiving"]
      /\ SendingEnds(p) /\ kstate[p] = "sending"
  BY DEF DropCall, ServerReceives, table, sigs, Received
<1>2. /\ \A q \in Proc : delay[q] = "raised" => delay'[q] = "raised"
      /\ \A q \in Proc \ {p} : kstate'[q] = kstate[q]
      /\ kstate'[p] = "receiving"
  BY <1>0, <1>1 DEF SendingEnds, VarTypes
<1>3. InitInv'
  <2>1. InitCalm
    <3>1. INIT_PROC_NR \in Proc
      BY ProcAssumption
    <3> QED BY <1>1, <1>2, <3>1 DEF InitCalm, FamilyInv, InitInv, Is
  <2> QED BY <2>1, InitKept DEF FamilyInv
<1>4. ASSUME NEW q \in Proc \ {INIT_PROC_NR}, Alive(q), ~OwedSame(q)
      PROVE  /\ ~Is(q, "REPLY") /\ ~HangsInPm(q) /\ ~Answered(q) /\ ~Forwarded(q)
             /\ kstate'[q] # "sending"
  <2>1. q = p
    BY <1>1, <1>2, <1>4 DEF OwedSame, Is
  <2>2. ~AwaitsPm(q)
    BY <1>1, <2>1 DEF AwaitsPm
  <2> QED BY <1>2, <1>4, <2>1, <2>2, NothingOwed
<1> QED BY <1>1, <1>2, <1>3, <1>4, OutsideFamily

LEMMA ServerAnswersFamily ==
    ASSUME PmInv, FamilyInv, NEW p \in Proc, ServerAnswers(p)
    PROVE  FamilyInv'
<1>0. VarTypes
  BY TypesSplit DEF PmInv
<1>1. /\ UNCHANGED <<flags, parent, pgrp, ignore, catch, sigmask, todo, vfs, call, delay>>
      /\ kstate' = [kstate EXCEPT ![p] = "running"] /\ call[p].typ = "server"
  BY DEF ServerAnswers, table, sigs
<1>2. /\ \A q \in Proc \ {p} : kstate'[q] = kstate[q]
      /\ kstate'[p] = "running"
  BY <1>0, <1>1 DEF VarTypes
<1>3. InitInv'
  <2>1. InitCalm
    <3>1. INIT_PROC_NR \in Proc
      BY ProcAssumption
    <3> QED BY <1>1, <1>2, <3>1 DEF InitCalm, FamilyInv, InitInv, Is
  <2> QED BY <2>1, InitKept DEF FamilyInv
<1>4. ASSUME NEW q \in Proc \ {INIT_PROC_NR}, Alive(q), ~OwedSame(q)
      PROVE  /\ ~Is(q, "REPLY") /\ ~HangsInPm(q) /\ ~Answered(q) /\ ~Forwarded(q)
             /\ kstate'[q] # "sending"
  <2>1. q = p
    BY <1>1, <1>2, <1>4 DEF OwedSame, Is
  <2>2. ~AwaitsPm(q)
    BY <1>1, <2>1 DEF AwaitsPm
  <2> QED BY <1>2, <1>4, <2>1, <2>2, NothingOwed
<1> QED BY <1>1, <1>2, <1>3, <1>4, OutsideFamily

\* A process that runs owes and is owed nothing.
LEMMA SendsFamily ==
    ASSUME PmInv, FamilyInv, InitOnlyWaits, NEW p \in Proc, NEW c \in Calls[p], Sends(p, c)
    PROVE  FamilyInv'
<1>0. VarTypes
  BY TypesSplit DEF PmInv
<1>1. /\ UNCHANGED <<flags, parent, pgrp, ignore, catch, sigmask, todo, vfs, delay>>
      /\ kstate' = [kstate EXCEPT ![p] = "sending"] /\ call' = [call EXCEPT ![p] = c]
      /\ kstate[p] = "running" /\ ~stop[p]
  BY DEF Sends, table, sigs, Runs
<1>2. /\ \A q \in Proc \ {p} : kstate'[q] = kstate[q] /\ call'[q] = call[q]
      /\ kstate'[p] = "sending" /\ call'[p] = c
  BY <1>0, <1>1 DEF VarTypes
<1>3. InitInv'
  <2>1. p = INIT_PROC_NR => c.typ = "waitpid" /\ c.to = {}
    BY DEF InitOnlyWaits
  <2>2. c.typ = "kill" => INIT_PROC_NR \notin c.to
    BY DEF InitOnlyWaits
  <2>3. InitInv /\ INIT_PROC_NR \in Proc
    BY ProcAssumption DEF FamilyInv
  <2>4. /\ call'[INIT_PROC_NR].to = {}
        /\ Is(INIT_PROC_NR, "WAITING") \/ kstate'[INIT_PROC_NR] = "sending"
             => call'[INIT_PROC_NR].typ = "waitpid"
    BY <1>2, <2>1, <2>3 DEF InitInv
  <2>5. \A q \in Proc : call'[q].typ = "kill" => INIT_PROC_NR \notin call'[q].to
    BY <1>2, <2>2, <2>3 DEF InitInv
  <2> QED BY <1>1, <2>3, <2>4, <2>5 DEF InitInv, Is
<1>4. ASSUME p # INIT_PROC_NR
      PROVE  /\ Alive(p) => /\ ~Is(p, "REPLY") /\ ~HangsInPm(p) /\ ~Answered(p) /\ ~Forwarded(p)
                            /\ ~Is(p, "VFS_CALL") /\ ~Is(p, "PM_SIG_PENDING")
             /\ ~Is(p, "WAITING")
  <2>1. LifeInv(p) /\ StopInv(p) /\ DeadInv(p)
    BY DEF PmInv, ProcInv, FamilyInv
  <2>2. Is(p, "IN_USE")
    BY <1>1, <2>1 DEF LifeInv
  <2>3. ~Alive(p) => ~Is(p, "WAITING")
    BY <2>1, <2>2 DEF Alive, Is, DeadInv, Hanging
  <2>4. ASSUME Alive(p)
        PROVE  /\ ~Is(p, "REPLY") /\ ~HangsInPm(p) /\ ~Answered(p) /\ ~Forwarded(p)
               /\ ~Is(p, "VFS_CALL") /\ ~Is(p, "PM_SIG_PENDING")
    <3>1. ~AwaitsPm(p) /\ ~Is(p, "PM_SIG_PENDING")
      BY <1>1, <2>1, <2>4 DEF AwaitsPm, StopInv
    <3> QED BY <1>4, <2>4, <3>1, NothingOwed
  <2> QED BY <2>3, <2>4 DEF HangsInPm, Hanging, Is
<1>5. \A q \in Proc : Is(q, "WAITING") => call'[q].to = call[q].to
  <2>1. call'[INIT_PROC_NR].to = call[INIT_PROC_NR].to
    BY <1>3 DEF FamilyInv, InitInv
  <2> QED BY <1>2, <1>4, <2>1
<1>6. ASSUME NEW q \in Proc \ {INIT_PROC_NR}, Alive(q), ~OwedSame(q)
      PROVE  /\ ~Is(q, "REPLY") /\ ~HangsInPm(q) /\ ~Answered(q) /\ ~Forwarded(q)
             /\ ~Is(q, "VFS_CALL") /\ ~Is(q, "PM_SIG_PENDING")
  <2>1. q = p
    BY <1>1, <1>2, <1>6 DEF OwedSame, Is
  <2> QED BY <1>4, <1>6, <2>1
<1> QED BY <1>1, <1>3, <1>5, <1>6, OutsideFamily

LEMMA StutterFamily == PmInv /\ FamilyInv /\ UNCHANGED vars => FamilyInv'
<1> SUFFICES ASSUME PmInv, FamilyInv, UNCHANGED vars PROVE FamilyInv'
  OBVIOUS
<1>1. UNCHANGED <<flags, parent, pgrp, ignore, catch, sigmask, todo, vfs, kstate, call, delay>>
  BY DEF vars
<1>2. InitInv'
  BY <1>1 DEF FamilyInv, InitInv, Is
<1>3. \A q \in Proc : OwedSame(q)
  BY <1>1 DEF OwedSame, Is
<1> QED BY <1>1, <1>2, <1>3, OutsideFamily

-----------------------------------------------------------------------------
(***************************************************************************)
(* waitpid, exit, setuid and fork.                                         *)
(***************************************************************************)

\* Between messages everyone has a parent, and nobody hangs that need not.
LEMMA RestKnown ==
    ASSUME PmInv, FamilyInv, todo = <<>>
    PROVE  /\ \A c \in Proc : Is(c, "IN_USE") => Alive(parent[c])
           /\ \A c \in Proc : Is(c, "ZOMBIE") => ~wait_test(parent[c], c)
           /\ \A c \in Proc : DeadInv(c)
           /\ \A q : ~Answered(q)
<1>1. Len(todo) = 0
  OBVIOUS
<1>2. \A c \in Proc : ParentInv(c) /\ ZombieInv(c) /\ DeadInv(c)
  BY DEF FamilyInv
<1>3. \A c \in Proc : Is(c, "IN_USE") => Alive(parent[c])
  BY <1>1, <1>2 DEF ParentInv
<1>4. \A c \in Proc : Is(c, "ZOMBIE") => ~wait_test(parent[c], c)
  BY <1>2 DEF ZombieInv
<1>5. \A q : ~Answered(q)
  BY <1>1 DEF Answered
<1> QED BY <1>2, <1>3, <1>4, <1>5

\* PM starts on a message.
LEMMA StartFamily ==
    ASSUME PmInv, FamilyInv, todo = <<>>, NEW fr, Pushes(fr), CallsFit(fr), InitInv',
           \A c \in Proc : (Is(c, "IN_USE") => Alive(parent[c]))',
           \A c \in Proc : ZombieInv(c)' /\ DeadInv(c)',
           \A q \in Proc \ {INIT_PROC_NR} : Alive(q)' => OwedInv(q)'
    PROVE  FamilyInv'
<1>1. CallsInv'
  BY CallsStep DEF FamilyInv
<1>2. \A c \in Proc : ParentInv(c)'
  BY DEF ParentInv
<1> QED BY <1>1, <1>2 DEF FamilyInv

LEMMA WaitHangsFamily ==
    ASSUME PmInv, FamilyInv, NEW p \in Proc, WaitHangs(p)
    PROVE  FamilyInv'
<1>1. /\ Receives(p, "waitpid") /\ Received(p) /\ todo' = <<Sendreply>>
      /\ flags' = [flags EXCEPT ![p] = @ \cup {"WAITING"}]
      /\ UNCHANGED <<parent, pgrp, ignore, catch, sigmask, vfs>>
      /\ \A c \in Children(p) : ~Is(c, "ZOMBIE")
  BY DEF WaitHangs, table, sigs
<1>2. todo = <<>> /\ VarTypes /\ Alive(p) /\ kstate[p] = "sending" /\ call[p].typ = "waitpid"
  BY <1>1, CallerKnown
<1>3. call' = call /\ kstate' = [kstate EXCEPT ![p] = "receiving"]
  BY <1>1 DEF Received
<1>4. PICK fr : Pushes(fr) /\ CallsFit(fr) /\ \A k \in 1 .. Len(fr) : fr[k].op \notin Answering
  <2>1. PICK s \in StackFrame :
          s = Sendreply /\ s.op = "sendreply" /\ s.op \notin Answering /\ \A k : CalledInv(k, s)'
    BY SendreplyCalled
  <2> QED BY <1>1, <1>2, <2>1, StartOne
<1>5. \A q \in Proc \ {INIT_PROC_NR} : Alive(q) => OwedInv(q)'
  BY <1>1, <1>4, CallOwed
<1>6. /\ \A q \in Proc \ {p} : flags'[q] = flags[q] /\ kstate'[q] = kstate[q]
      /\ flags'[p] = flags[p] \cup {"WAITING"} /\ kstate'[p] = "receiving"
  BY <1>1, <1>2, <1>3 DEF VarTypes
<1>7. \A q \in Proc : \A f \in Flag \ {"WAITING"} : f \in flags'[q] <=> f \in flags[q]
  BY <1>6
<1>8. \A q \in Proc : Alive(q)' <=> Alive(q)
  BY <1>7 DEF Alive, Flag
<1>9. InitInv'
  <2>1. INIT_PROC_NR \in Proc /\ InitInv
    BY ProcAssumption DEF FamilyInv
  <2>2. Is(INIT_PROC_NR, "WAITING")' => call[INIT_PROC_NR].typ = "waitpid"
    BY <1>2, <1>6, <2>1 DEF InitInv, Is
  <2>3. /\ flags'[INIT_PROC_NR] \subseteq flags[INIT_PROC_NR] \cup {"WAITING"}
        /\ flags[INIT_PROC_NR] \subseteq flags'[INIT_PROC_NR]
    BY <1>6, <2>1
  <2>4. kstate'[INIT_PROC_NR] = "sending" => kstate[INIT_PROC_NR] = "sending"
    BY <1>6, <2>1
  <2>5. Is(INIT_PROC_NR, "IN_USE")' /\ flags'[INIT_PROC_NR] \subseteq {"IN_USE", "WAITING", "REPLY"}
    BY <2>1, <2>3 DEF InitInv, Is
  <2> QED BY <1>1, <1>3, <2>1, <2>2, <2>4, <2>5 DEF InitInv
<1>10. ASSUME NEW c \in Proc PROVE (Is(c, "IN_USE") => Alive(parent[c]))'
  <2>1. parent[c] \in Proc
    BY <1>2 DEF VarTypes
  <2>2. Is(c, "IN_USE")' => Is(c, "IN_USE")
    BY <1>7 DEF Is, Flag
  <2> QED BY <1>1, <1>2, <1>8, <2>1, <2>2, RestKnown
<1>11. ASSUME NEW c \in Proc PROVE ZombieInv(c)'
  <2> SUFFICES ASSUME Is(c, "ZOMBIE")', wait_test(parent[c], c)' PROVE FALSE
    BY DEF ZombieInv
  <2>1. Is(c, "ZOMBIE") /\ ~wait_test(parent[c], c) /\ parent[c] \in Proc /\ DeadInv(c)
    BY <1>2, <1>7, RestKnown DEF Is, Flag, VarTypes
  <2>2. parent[c] = p
    BY <1>1, <1>3, <1>6, <2>1 DEF wait_test, right_child, Is
  <2>3. right_child(p, c) /\ ~Is(c, "TOLD_PARENT") /\ Is(c, "IN_USE")
    BY <1>1, <1>3, <2>1, <2>2, ZombieKnown DEF wait_test, right_child, DeadInv
  <2>4. c \in Children(p)
    BY <2>2, <2>3 DEF Children, InUse, Is
  <2> QED BY <1>1, <2>1, <2>4
<1>12. ASSUME NEW c \in Proc PROVE DeadInv(c)'
  <2>1. DeadInv(c) /\ (Is(c, "EXITING") => flags'[c] = flags[c])
    BY <1>2, <1>6, RestKnown DEF Is, Alive
  <2>2. /\ Is(c, "EXITING")' <=> Is(c, "EXITING")
        /\ Is(c, "ZOMBIE")' <=> Is(c, "ZOMBIE")
        /\ Is(c, "TOLD_PARENT")' <=> Is(c, "TOLD_PARENT")
    BY <1>7 DEF Is, Flag
  <2> QED BY <1>1, <2>1, <2>2 DEF DeadInv
<1> QED BY <1>2, <1>4, <1>5, <1>8, <1>9, <1>10, <1>11, <1>12, StartFamily

LEMMA WaitCollectsFamily ==
    ASSUME PmInv, FamilyInv, NEW p \in Proc, WaitCollects(p)
    PROVE  FamilyInv'
<1>1. /\ Receives(p, "waitpid") /\ Received(p) /\ todo' = <<Sendreply>>
      /\ UNCHANGED <<parent, pgrp, ignore, catch, sigmask, vfs>>
  BY DEF WaitCollects, table, sigs
<1>2. PICK c \in Proc : /\ parent[c] = p /\ Is(c, "ZOMBIE")
                        /\ flags' = FlagsAfterTelling(c, ~Is(c, "VFS_CALL"))
  BY DEF WaitCollects, Children, InUse
<1>3. /\ todo = <<>> /\ VarTypes /\ Alive(p) /\ kstate[p] = "sending" /\ call[p].typ = "waitpid"
      /\ p # INIT_PROC_NR => /\ OwedInv(p) /\ ~Is(p, "REPLY") /\ ~HangsInPm(p) /\ ~Forwarded(p)
                             /\ ~Is(p, "VFS_CALL") /\ ~Is(p, "PM_SIG_PENDING")
      /\ \A q : ~Answered(q)
      /\ \A q \in Proc : delay[q] = "raised" => delay'[q] = "raised"
  BY <1>1, CallerKnown
<1>4. call' = call /\ kstate' = [kstate EXCEPT ![p] = "receiving"]
  BY <1>1 DEF Received
<1>5. PICK fr : Pushes(fr) /\ CallsFit(fr) /\ \A k \in 1 .. Len(fr) : fr[k].op \notin Answering
  <2>1. PICK s \in StackFrame :
          s = Sendreply /\ s.op = "sendreply" /\ s.op \notin Answering /\ \A k : CalledInv(k, s)'
    BY SendreplyCalled
  <2> QED BY <1>1, <1>3, <2>1, StartOne
<1>6. /\ \A q \in Proc \ {p} : kstate'[q] = kstate[q]
      /\ kstate'[p] = "receiving"
  BY <1>3, <1>4 DEF VarTypes
<1>7. kstate'[INIT_PROC_NR] = "sending" => kstate[INIT_PROC_NR] = "sending"
  BY <1>6, ProcAssumption
<1>8. PICK clean \in BOOLEAN : clean = ~Is(c, "VFS_CALL")
  <2>1. (~Is(c, "VFS_CALL")) \in BOOLEAN
    OBVIOUS
  <2> QED BY <2>1, Zenon
<1>9. flags' = FlagsAfterTelling(c, clean)
  BY <1>2, <1>8
<1>10. /\ InitCalm /\ KinCalm /\ p # c /\ ~Is(c, "ZOMBIE")'
       /\ flags'[p] = (flags[p] \ {"WAITING"}) \cup {"REPLY"}
       /\ \A q \in Proc \ {p, c} : flags'[q] = flags[q]
  BY <1>1, <1>2, <1>3, <1>4, <1>7, <1>8, <1>9, TellingFamily
<1>11. ASSUME p # INIT_PROC_NR PROVE OwedInv(p)'
  <2>1. ~Answered(p)'
    BY <1>1, <1>3, <1>5, PushShape, AnsweredKept, TypesSplit DEF PmInv
  <2>2. ~Forwarded(p)' /\ AskedOnce(p)'
    BY <1>1, <1>3, <1>11, ForwardedKept DEF OwedInv
  <2>3. /\ ~Is(p, "PAUSED")' /\ ~Is(p, "SIGSUSPENDED")' /\ ~Is(p, "WAITING")' /\ ~HangsInPm(p)'
    BY <1>3, <1>10, <1>11 DEF Is, HangsInPm, Hanging
  <2>4. AwaitsPm(p)' /\ kstate'[p] # "sending"
    BY <1>3, <1>4, <1>6 DEF AwaitsPm
  <2> QED BY <2>1, <2>2, <2>3, <2>4 DEF OwedInv
<1>12. ASSUME NEW q \in Proc \ {p, c} PROVE OwedSame(q)
  BY <1>4, <1>6, <1>10 DEF OwedSame, Is
<1>13. ~Alive(c)
  BY <1>2, ZombieKnown
<1> QED BY <1>1, <1>3, <1>5, <1>10, <1>11, <1>12, <1>13, CalmFamilyStep

LEMMA DoExitFamily ==
    ASSUME PmInv, FamilyInv, NEW p \in Proc, do_exit(p)
    PROVE  FamilyInv'
<1>1. /\ Receives(p, "exit") /\ Received(p) /\ todo' = <<exit_procFrame(p, FALSE), Sendreply>>
      /\ UNCHANGED <<flags, parent, pgrp, ignore, catch, sigmask, vfs>>
  BY DEF do_exit, table, sigs
<1>2. todo = <<>> /\ p # INIT_PROC_NR /\ ~Is(p, "VFS_CALL")
  BY <1>1, CallerKnown
<1>3. PICK f : f = exit_procFrame(p, FALSE)
  OBVIOUS
<1>4. f \in StackFrame /\ f.op = "exit_proc" /\ f.p = p /\ f.op \notin Answering
  BY <1>3, FrameTypes DEF exit_procFrame, Frame, Answering
<1>5. CalledInv(1, f)'
  BY <1>1, <1>2, <1>4 DEF CalledInv, Is
<1>6. PICK fr : Pushes(fr) /\ CallsFit(fr) /\ \A k \in 1 .. Len(fr) : fr[k].op \notin Answering
  <2>1. PICK s \in StackFrame :
          s = Sendreply /\ s.op = "sendreply" /\ s.op \notin Answering /\ \A k : CalledInv(k, s)'
    BY SendreplyCalled
  <2>2. todo' = <<f, s>>
    BY <1>1, <1>3, <2>1
  <2> QED BY <1>2, <1>4, <1>5, <2>1, <2>2, StartTwo
<1> QED BY <1>1, <1>6, CalmCallFamily

LEMMA DoSetuidFamily ==
    ASSUME PmInv, FamilyInv, NEW p \in Proc, do_setuid(p)
    PROVE  FamilyInv'
<1>1. /\ Receives(p, "setuid") /\ Received(p) /\ todo' = <<Sendreply>>
      /\ flags' = [flags EXCEPT ![p] = @ \cup {"VFS_CALL"}] /\ tell_vfs("PM_SETUID", p)
      /\ UNCHANGED <<parent, pgrp, ignore, catch, sigmask>>
  BY DEF do_setuid, table, sigs
<1>2. /\ todo = <<>> /\ VarTypes /\ Alive(p) /\ kstate[p] = "sending" /\ call[p].typ = "setuid"
      /\ p # INIT_PROC_NR
      /\ OwedInv(p) /\ ~Is(p, "REPLY") /\ ~HangsInPm(p) /\ ~Forwarded(p)
      /\ \A q : ~Answered(q)
  BY <1>1, CallerKnown
<1>3. call' = call /\ kstate' = [kstate EXCEPT ![p] = "receiving"]
  BY <1>1 DEF Received
<1>4. PICK fr : Pushes(fr) /\ CallsFit(fr) /\ \A k \in 1 .. Len(fr) : fr[k].op \notin Answering
  <2>1. PICK s \in StackFrame :
          s = Sendreply /\ s.op = "sendreply" /\ s.op \notin Answering /\ \A k : CalledInv(k, s)'
    BY SendreplyCalled
  <2> QED BY <1>1, <1>2, <2>1, StartOne
<1>5. /\ \A q \in Proc \ {p} : flags'[q] = flags[q] /\ kstate'[q] = kstate[q]
      /\ flags'[p] = flags[p] \cup {"VFS_CALL"} /\ kstate'[p] = "receiving"
  BY <1>1, <1>2, <1>3 DEF VarTypes
<1>6. PICK m : m.typ = "PM_SETUID" /\ m.p = p /\ vfs' = vfs \cup {m}
  BY <1>1, AskVfs
<1>7. \A q : ~Answered(q)'
  BY <1>1, <1>2, <1>4, PushShape, AnsweredKept, TypesSplit DEF PmInv
<1>8. \A r, q : Asked(r, q)' <=> Asked(r, q)
  BY <1>1 DEF Asked
<1>9. OwedInv(p)'
  <2>1. AskedOnce(p)'
    <3>1. \A r \in vfs' : Asked(r, p)' => r = m
      BY <1>2, <1>6, <1>8 DEF Forwarded
    <3> QED BY <3>1 DEF AskedOnce
  <2>2. AwaitsPm(p)' /\ kstate'[p] # "sending"
    BY <1>2, <1>3, <1>5 DEF AwaitsPm
  <2>3. /\ ~Is(p, "REPLY")' /\ ~HangsInPm(p)' /\ ~Is(p, "PAUSED")' /\ ~Is(p, "SIGSUSPENDED")'
        /\ ~Is(p, "WAITING")'
    BY <1>2, <1>5 DEF Is, HangsInPm, Hanging
  <2> QED BY <1>7, <2>1, <2>2, <2>3 DEF OwedInv
<1>10. ASSUME NEW q \in Proc \ {INIT_PROC_NR, p}, Alive(q) PROVE OwedInv(q)'
  <2>1. OwedInv(q)
    BY <1>10 DEF FamilyInv
  <2>2. \A r \in vfs' : Asked(r, q)' => r \in vfs /\ Asked(r, q)
    BY <1>6, <1>8 DEF Asked
  <2>3. (Forwarded(q)' => Forwarded(q)) /\ AskedOnce(q)'
    BY <2>1, <2>2 DEF Forwarded, AskedOnce, OwedInv
  <2>4. OwedSame(q)
    BY <1>3, <1>5 DEF OwedSame, Is
  <2> QED BY <1>7, <2>1, <2>3, <2>4, OwedKept
<1>11. InitCalm
  <2>1. INIT_PROC_NR \in Proc \ {p}
    BY <1>2, ProcAssumption
  <2> QED BY <1>1, <1>3, <1>5, <2>1 DEF InitCalm, FamilyInv, InitInv, Is
<1>12. KinCalm
  <2>1. \A q \in Proc : \A f \in {"IN_USE", "EXITING", "ZOMBIE", "TOLD_PARENT", "WAITING"} :
          f \in flags'[q] <=> f \in flags[q]
    BY <1>5
  <2>2. \A q \in Proc : Is(q, "EXITING") => flags'[q] \subseteq flags[q]
    BY <1>2, <1>5 DEF Is, Alive
  <2>3. \A r \in vfs' : r \in vfs \/ r.typ # "PM_DUMPCORE"
    BY <1>6
  <2> QED BY <1>1, <1>3, <2>1, <2>2, <2>3, KinSame DEF Is
<1> QED BY <1>2, <1>4, <1>9, <1>10, <1>11, <1>12, FamilyStep

\* The child is nobody's parent yet and VFS has not heard of it.
LEMMA DoForkFamily ==
    ASSUME PmInv, FamilyInv, NEW p \in Proc, do_fork(p)
    PROVE  FamilyInv'
<1>1. /\ Receives(p, "fork") /\ todo' = <<Sendreply>>
  BY DEF do_fork
<1>2. /\ todo = <<>> /\ VarTypes /\ Alive(p) /\ kstate[p] = "sending" /\ call[p].typ = "fork"
      /\ p # INIT_PROC_NR
      /\ OwedInv(p) /\ ~Is(p, "REPLY") /\ ~HangsInPm(p) /\ ~Forwarded(p)
      /\ \A q : ~Answered(q)
  BY <1>1, CallerKnown
<1>3. PICK c \in Proc :
        /\ kstate[c] = "none"
        /\ flags' = [flags EXCEPT ![c] = (flags[p] \cap {"IN_USE", "DELAY_CALL"}) \cup {"VFS_CALL"}]
        /\ parent' = [parent EXCEPT ![c] = p]
        /\ pgrp' = [pgrp EXCEPT ![c] = pgrp[p]]
        /\ ignore' = [ignore EXCEPT ![c] = ignore[p]]
        /\ catch' = [catch EXCEPT ![c] = catch[p]]
        /\ sigmask' = [sigmask EXCEPT ![c] = sigmask[p]]
        /\ tell_vfs("PM_FORK", c)
        /\ kstate' = [kstate EXCEPT ![p] = "receiving", ![c] = "receiving"]
        /\ call' = [call EXCEPT ![c] = call[p]]
  BY DEF do_fork
<1>4. c # p /\ c # INIT_PROC_NR /\ ~Alive(c) /\ \A r \in vfs : r.p # c
  <2>1. LifeInv(c) /\ VfsInv(c) /\ INIT_PROC_NR \in Booted
    BY ProcAssumption DEF PmInv, ProcInv
  <2>2. ~Is(c, "IN_USE") /\ c \notin Booted
    BY <1>3, <2>1 DEF LifeInv
  <2>3. ~Is(c, "VFS_CALL")
    BY <2>1, <2>2 DEF LifeInv, Is
  <2> QED BY <1>2, <1>3, <2>1, <2>2, <2>3 DEF VfsInv, Alive, Is
<1>5. /\ \A q \in Proc \ {c} : /\ flags'[q] = flags[q] /\ parent'[q] = parent[q] /\ pgrp'[q] = pgrp[q]
                               /\ ignore'[q] = ignore[q] /\ catch'[q] = catch[q]
                               /\ sigmask'[q] = sigmask[q] /\ call'[q] = call[q]
      /\ flags'[c] = (flags[p] \cap {"IN_USE", "DELAY_CALL"}) \cup {"VFS_CALL"}
      /\ parent'[c] = p /\ pgrp'[c] = pgrp[p] /\ call'[c] = call[p]
      /\ \A q \in Proc \ {p, c} : kstate'[q] = kstate[q]
      /\ kstate'[p] = "receiving" /\ kstate'[c] = "receiving"
  BY <1>2, <1>3, <1>4 DEF VarTypes
<1>6. PICK m : m.typ = "PM_FORK" /\ m.p = c /\ vfs' = vfs \cup {m}
  BY <1>3, AskVfs
<1>7. PICK fr : Pushes(fr) /\ CallsFit(fr) /\ \A k \in 1 .. Len(fr) : fr[k].op \notin Answering
  <2>1. PICK s \in StackFrame :
          s = Sendreply /\ s.op = "sendreply" /\ s.op \notin Answering /\ \A k : CalledInv(k, s)'
    BY SendreplyCalled
  <2> QED BY <1>1, <1>2, <2>1, StartOne
<1>8. \A q : ~Answered(q)'
  <2>1. StackShape(fr)
    BY <1>7, PushShape, TypesSplit DEF PmInv
  <2>2. Len(todo') = Len(fr) /\ \A k \in 1 .. Len(fr) : todo'[k] = fr[k]
    BY <1>2, <2>1 DEF StackShape
  <2> QED BY <1>7, <2>2 DEF Answered, Answers, Answering
<1>9. ASSUME NEW r \in vfs PROVE r.p \in Proc \ {c} /\ parent[r.p] # c
  <2>1. r.p \in Proc \ {c}
    BY <1>2, <1>4 DEF VarTypes
  <2>2. VfsInv(r.p) /\ LifeInv(r.p)
    BY <2>1 DEF PmInv, ProcInv
  <2>3. Is(r.p, "IN_USE")
    BY <2>2 DEF VfsInv, LifeInv, Is
  <2> QED BY <1>2, <1>4, <2>1, <2>3, RestKnown
<1>10. \A r \in vfs : \A q : Asked(r, q)' <=> Asked(r, q)
  BY <1>5, <1>9 DEF Asked
<1>11. \A q : Asked(m, q)' <=> q \in {c, p}
  BY <1>5, <1>6 DEF Asked
<1>12. OwedInv(p)'
  <2>1. AskedOnce(p)'
    <3>1. \A r \in vfs' : Asked(r, p)' => r = m
      BY <1>2, <1>6, <1>10 DEF Forwarded
    <3> QED BY <3>1 DEF AskedOnce
  <2>2. AwaitsPm(p)' /\ kstate'[p] # "sending"
    BY <1>2, <1>4, <1>5 DEF AwaitsPm
  <2>3. /\ ~Is(p, "REPLY")' /\ ~HangsInPm(p)' /\ ~Is(p, "PAUSED")' /\ ~Is(p, "SIGSUSPENDED")'
        /\ ~Is(p, "WAITING")'
    BY <1>2, <1>4, <1>5 DEF Is, HangsInPm, Hanging
  <2> QED BY <1>8, <2>1, <2>2, <2>3 DEF OwedInv
<1>13. OwedInv(c)'
  <2>1. AskedOnce(c)'
    <3>1. \A r \in vfs : ~Asked(r, c)
      BY <1>9 DEF Asked
    <3>2. \A r \in vfs' : Asked(r, c)' => r = m
      BY <1>6, <1>10, <3>1
    <3> QED BY <3>2 DEF AskedOnce
  <2>2. AwaitsPm(c)' /\ kstate'[c] # "sending"
    BY <1>2, <1>5 DEF AwaitsPm
  <2>3. /\ ~Is(c, "REPLY")' /\ ~HangsInPm(c)' /\ ~Is(c, "PAUSED")' /\ ~Is(c, "SIGSUSPENDED")'
        /\ ~Is(c, "WAITING")'
    BY <1>5 DEF Is, HangsInPm, Hanging
  <2> QED BY <1>8, <2>1, <2>2, <2>3 DEF OwedInv
<1>14. ASSUME NEW q \in Proc \ {INIT_PROC_NR, p, c}, Alive(q)' PROVE OwedInv(q)'
  <2>1. OwedInv(q)
    BY <1>5, <1>14 DEF FamilyInv, Alive
  <2>2. \A r \in vfs' : Asked(r, q)' => r \in vfs /\ Asked(r, q)
    BY <1>6, <1>10, <1>11
  <2>3. (Forwarded(q)' => Forwarded(q)) /\ AskedOnce(q)'
    BY <2>1, <2>2 DEF Forwarded, AskedOnce, OwedInv
  <2>4. OwedSame(q)
    BY <1>5 DEF OwedSame, Is
  <2> QED BY <1>8, <2>1, <2>3, <2>4, OwedKept
<1>15. InitInv'
  <2>1. INIT_PROC_NR \in Proc \ {p, c} /\ InitInv
    BY <1>2, <1>4, ProcAssumption DEF FamilyInv
  <2>2. \A q \in Proc : pgrp'[q] = INIT_PROC_NR <=> q = INIT_PROC_NR
    BY <1>2, <1>4, <1>5, <2>1 DEF InitInv
  <2>3. \A q \in Proc : call'[q].typ = "kill" => INIT_PROC_NR \notin call'[q].to
    BY <1>2, <1>5, <2>1 DEF InitInv
  <2>4. /\ flags'[INIT_PROC_NR] = flags[INIT_PROC_NR] /\ ignore'[INIT_PROC_NR] = ignore[INIT_PROC_NR]
        /\ catch'[INIT_PROC_NR] = catch[INIT_PROC_NR] /\ sigmask'[INIT_PROC_NR] = sigmask[INIT_PROC_NR]
        /\ call'[INIT_PROC_NR] = call[INIT_PROC_NR] /\ kstate'[INIT_PROC_NR] = kstate[INIT_PROC_NR]
    BY <1>5, <2>1
  <2> QED BY <2>1, <2>2, <2>3, <2>4 DEF InitInv, Is
<1>16. ASSUME NEW x \in Proc PROVE (Is(x, "IN_USE") => Alive(parent[x]))'
  <2>1. CASE x = c
    BY <1>2, <1>4, <1>5, <2>1 DEF Alive
  <2>2. CASE x # c
    <3>1. Is(x, "IN_USE")' => Alive(parent[x])
      BY <1>2, <1>5, <2>2, RestKnown DEF Is
    <3>2. parent[x] \in Proc
      BY <1>2 DEF VarTypes
    <3> QED BY <1>4, <1>5, <2>2, <3>1, <3>2 DEF Alive
  <2> QED BY <2>1, <2>2
<1>17. ASSUME NEW x \in Proc PROVE ZombieInv(x)'
  <2> SUFFICES ASSUME Is(x, "ZOMBIE")', wait_test(parent[x], x)' PROVE FALSE
    BY DEF ZombieInv
  <2>1. x # c
    BY <1>5 DEF Is
  <2>2. Is(x, "ZOMBIE")
    BY <1>5, <2>1 DEF Is
  <2>3. ~wait_test(parent[x], x) /\ Alive(parent[x]) /\ parent[x] \in Proc
    BY <1>2, <2>2, RestKnown, ZombieKnown DEF VarTypes
  <2>4. parent[x] # c
    BY <1>4, <2>3
  <2> QED BY <1>5, <2>1, <2>3, <2>4 DEF wait_test, right_child, Is
<1>18. ASSUME NEW x \in Proc PROVE DeadInv(x)'
  <2>1. \A r \in vfs' : r.typ = "PM_DUMPCORE" => r \in vfs
    BY <1>6
  <2>2. CASE x = c
    <3>1. ~Is(c, "EXITING")' /\ ~Is(c, "ZOMBIE")' /\ ~Is(c, "TOLD_PARENT")'
      BY <1>5 DEF Is
    <3> QED BY <1>9, <2>1, <2>2, <3>1 DEF DeadInv
  <2>3. CASE x # c
    <3>1. flags'[x] = flags[x] /\ DeadInv(x)
      BY <1>2, <1>5, <2>3, RestKnown
    <3> QED BY <2>1, <3>1 DEF DeadInv, Is
  <2> QED BY <2>2, <2>3
<1> QED BY <1>2, <1>7, <1>12, <1>13, <1>14, <1>15, <1>16, <1>17, <1>18, StartFamily

-----------------------------------------------------------------------------
(***************************************************************************)
(* Replies of VFS, and signals from the kernel.                            *)
(***************************************************************************)

\* A process VFS has answered about is not INIT, and its request is the only one.
LEMMA ReplyKnown ==
    ASSUME PmInv, FamilyInv, NEW p \in Proc, NEW typ, VfsReply(typ, p)
    PROVE  /\ todo = <<>> /\ VarTypes /\ Is(p, "VFS_CALL") /\ Is(p, "IN_USE") /\ p # INIT_PROC_NR
           /\ Alive(p) <=> typ \notin {"PM_EXIT", "PM_DUMPCORE"}
           /\ vfs' \subseteq vfs /\ \A r \in vfs' : r.p # p
           /\ \E m \in vfs : m.typ = typ /\ m.p = p /\ m \notin vfs'
<1>1. /\ todo = <<>> /\ Is(p, "VFS_CALL") /\ Is(p, "IN_USE")
      /\ typ \in {"PM_EXIT", "PM_DUMPCORE"} <=> Is(p, "EXITING")
      /\ vfs' \subseteq vfs /\ \A r \in vfs' : r.p # p
  BY VfsAnswered
<1>2. p # INIT_PROC_NR
  BY <1>1 DEF FamilyInv, InitInv, Is
<1>3. PICK m : m = [typ |-> typ, p |-> p]
  OBVIOUS
<1>4. m.typ = typ /\ m.p = p /\ m \in vfs
  BY <1>3 DEF VfsReply
<1> QED BY <1>1, <1>2, <1>4, TypesSplit DEF PmInv, Alive, Is

\* Whose answer VFS had is owed the reply, and nothing else.
LEMMA ReplyOwed ==
    ASSUME PmInv, FamilyInv, NEW m \in vfs, m \notin vfs', vfs' \subseteq vfs, todo = <<>>,
           UNCHANGED <<parent, call, kstate>>, NEW q \in Proc \ {INIT_PROC_NR}, Alive(q), Asked(m, q),
           \A f \in Hanging \cup {"VFS_CALL", "PM_SIG_PENDING"} : f \in flags'[q] => f \in flags[q],
           Is(q, "REPLY")' => ~Answered(q)'
    PROVE  OwedInv(q)'
<1>1. OwedInv(q) /\ Forwarded(q)
  BY DEF FamilyInv, Forwarded
<1>2. \A r : Asked(r, q)' <=> Asked(r, q)
  BY DEF Asked
<1>3. ~Forwarded(q)' /\ AskedOnce(q)'
  BY <1>1, <1>2 DEF OwedInv, AskedOnce, Forwarded
<1>4. AwaitsPm(q)' /\ kstate'[q] # "sending"
  BY <1>1 DEF OwedInv, AwaitsPm
<1>5. ~HangsInPm(q)
  BY <1>1 DEF OwedInv
<1>6. ~HangsInPm(q)' /\ ~Is(q, "PAUSED")' /\ ~Is(q, "SIGSUSPENDED")' /\ ~Is(q, "WAITING")'
  BY <1>5 DEF HangsInPm, Hanging, Is
<1> QED BY <1>3, <1>4, <1>6 DEF OwedInv

\* restart_sigs and sendreply.
LEMMA ThenRestartFit ==
    ASSUME todo = <<>>, NEW p \in Proc, p # INIT_PROC_NR, todo' = ThenRestart(p)
    PROVE  \E fr : Pushes(fr) /\ CallsFit(fr) /\ \A k \in 1 .. Len(fr) : fr[k].op \notin Answering
<1>1. PICK s \in StackFrame :
        s = Sendreply /\ s.op = "sendreply" /\ s.op \notin Answering /\ \A k : CalledInv(k, s)'
  BY SendreplyCalled
<1>2. PICK f : f = Then("restart_sigs", p)
  OBVIOUS
<1>3. f \in StackFrame /\ f.op = "restart_sigs" /\ f.p = p
  <2>1. "restart_sigs" \in Function \ {"sig_proc", "check_sig"}
    BY DEF Function
  <2>2. Then("restart_sigs", p) \in StackFrame
    BY <2>1, FrameTypes
  <2> QED BY <1>2, <2>2 DEF Then, Frame
<1>4. CalledInv(1, f)' /\ f.op \notin Answering
  BY <1>3 DEF CalledInv, Answering
<1>5. todo' = <<f, s>>
  BY <1>1, <1>2 DEF ThenRestart
<1> QED BY <1>1, <1>3, <1>4, <1>5, StartTwo

LEMMA SetuidUnpauseReplyFamily ==
    ASSUME PmInv, FamilyInv, NEW p \in Proc, SetuidReply(p) \/ UnpauseReply(p)
    PROVE  FamilyInv'
<1>1. PICK typ \in {"PM_SETUID", "PM_UNPAUSE"}, g \in {"REPLY", "UNPAUSED"} :
        /\ VfsReply(typ, p) /\ g = (IF typ = "PM_SETUID" THEN "REPLY" ELSE "UNPAUSED")
        /\ flags' = [flags EXCEPT ![p] = (@ \ {"VFS_CALL"}) \cup {g}]
  <2>1. CASE SetuidReply(p)
    BY <2>1 DEF SetuidReply
  <2>2. CASE UnpauseReply(p)
    BY <2>2 DEF UnpauseReply
  <2> QED BY <2>1, <2>2
<1>2. todo' = ThenRestart(p) /\ UNCHANGED <<parent, pgrp, ignore, catch, sigmask, kstate, call, delay>>
  BY DEF SetuidReply, UnpauseReply, table, sigs, kernel
<1>3. /\ todo = <<>> /\ VarTypes /\ p # INIT_PROC_NR /\ Alive(p) /\ vfs' \subseteq vfs
  BY <1>1, ReplyKnown
<1>4. PICK m \in vfs : m.typ = typ /\ m.p = p /\ m \notin vfs'
  BY <1>1, ReplyKnown
<1>5. PICK fr : Pushes(fr) /\ CallsFit(fr) /\ \A k \in 1 .. Len(fr) : fr[k].op \notin Answering
  BY <1>2, <1>3, ThenRestartFit
<1>6. flags'[p] = (flags[p] \ {"VFS_CALL"}) \cup {g} /\ \A q \in Proc \ {p} : flags'[q] = flags[q]
  BY <1>1, <1>3 DEF VarTypes
<1>7. /\ \A f \in {"IN_USE", "EXITING", "ZOMBIE", "TOLD_PARENT"} : f \in flags'[p] <=> f \in flags[p]
      /\ \A f \in Hanging \cup {"VFS_CALL", "PM_SIG_PENDING"} : f \in flags'[p] => f \in flags[p]
      /\ Is(p, "WAITING")' => Is(p, "WAITING")
      /\ ~Is(p, "EXITING")
  BY <1>3, <1>6 DEF Is, Alive, Hanging
<1>8. CASE typ = "PM_SETUID"
  <2>1. Asked(m, p)
    BY <1>4, <1>8 DEF Asked
  <2>2. ~Answered(p)'
    BY <1>2, <1>3, <1>5, RestKnown, PushShape, AnsweredKept, TypesSplit DEF PmInv
  <2>3. OwedInv(p)'
    BY <1>2, <1>3, <1>4, <1>7, <2>1, <2>2, ReplyOwed
  <2> QED BY <1>2, <1>3, <1>5, <1>6, <1>7, <2>3, OneChanges
<1>9. CASE typ = "PM_UNPAUSE"
  <2>1. OwedSame(p)
    BY <1>1, <1>2, <1>6, <1>9 DEF OwedSame, Is, Hanging
  <2> QED BY <1>2, <1>3, <1>5, <1>6, <1>7, <2>1, OneChanges
<1> QED BY <1>8, <1>9

LEMMA ForkReplyFamily ==
    ASSUME PmInv, FamilyInv, NEW p \in Proc, NEW ok \in BOOLEAN, ForkReply(p, ok)
    PROVE  FamilyInv'
<1>1. /\ VfsReply("PM_FORK", p)
      /\ UNCHANGED <<parent, pgrp, ignore, catch, sigmask, kstate, call, delay>>
  BY DEF ForkReply, table, sigs, kernel
<1>2. /\ todo = <<>> /\ VarTypes /\ p # INIT_PROC_NR /\ Alive(p) /\ vfs' \subseteq vfs
  BY <1>1, ReplyKnown
<1>3. PICK m \in vfs : m.typ = "PM_FORK" /\ m.p = p /\ m \notin vfs'
  BY <1>1, ReplyKnown
<1>4. \A q \in Proc :
        flags'[q] = (flags[q] \ {f \in {"VFS_CALL"} : q = p})
                      \cup {f \in {"REPLY"} : ok /\ q \in {p, parent[p]}}
  BY DEF ForkReply
<1>5. /\ \A q \in Proc : \A f \in Flag \ {"VFS_CALL", "REPLY"} : f \in flags'[q] <=> f \in flags[q]
      /\ \A q \in Proc : flags'[q] \subseteq flags[q] \cup {"REPLY"}
      /\ \A q \in Proc : Is(q, "REPLY")' => Is(q, "REPLY") \/ (ok /\ q \in {p, parent[p]})
      /\ ~Is(p, "VFS_CALL")'
  BY <1>4 DEF Is
<1>6. InitCalm
  <2>1. INIT_PROC_NR \in Proc /\ "IN_USE" \in Flag \ {"VFS_CALL", "REPLY"}
    BY ProcAssumption DEF Flag
  <2> QED BY <1>1, <1>5, <2>1 DEF InitCalm, FamilyInv, InitInv, Is
<1>7. KinCalm
  BY <1>1, <1>2, <1>5, KinSame DEF Is, Flag
<1>8. \A q \in {p, parent[p]} : Asked(m, q)
  BY <1>3 DEF Asked
<1>9. ASSUME NEW q \in Proc \ {INIT_PROC_NR}, Alive(q), q \in {p, parent[p]},
             Is(q, "REPLY")' => ~Answered(q)'
      PROVE  OwedInv(q)'
  <2>1. \A f \in Hanging \cup {"VFS_CALL", "PM_SIG_PENDING"} : f \in flags'[q] => f \in flags[q]
    BY <1>5 DEF Hanging
  <2> QED BY <1>1, <1>2, <1>3, <1>8, <1>9, <2>1, ReplyOwed
<1>10. ASSUME NEW q \in Proc, q \notin {p, parent[p]} PROVE OwedSame(q)
  BY <1>1, <1>4, <1>5, <1>10 DEF OwedSame, Is, Hanging, Flag
<1>11. CASE ok
  <2>1. todo' = ThenRestart(p)
    BY <1>11 DEF ForkReply
  <2>2. PICK fr : Pushes(fr) /\ CallsFit(fr) /\ \A k \in 1 .. Len(fr) : fr[k].op \notin Answering
    BY <1>2, <2>1, ThenRestartFit
  <2>3. \A q : ~Answered(q)'
    BY <1>1, <1>2, <2>2, RestKnown, PushShape, AnsweredKept, TypesSplit DEF PmInv
  <2> QED BY <1>2, <1>6, <1>7, <1>9, <1>10, <2>2, <2>3, CalmFamilyStep
<1>12. CASE ~ok
  <2>1. todo' = <<exit_procFrame(p, FALSE), Then("fork_failed", p), Sendreply>>
    BY <1>12 DEF ForkReply
  <2>2. PICK s \in StackFrame :
          s = Sendreply /\ s.op = "sendreply" /\ s.op \notin Answering /\ \A k : CalledInv(k, s)'
    BY SendreplyCalled
  <2>3. PICK e, f : e = exit_procFrame(p, FALSE) /\ f = Then("fork_failed", p)
    OBVIOUS
  <2>4. e \in StackFrame /\ e.op = "exit_proc" /\ e.p = p /\ e.op \notin Answering
    BY <2>3, FrameTypes DEF exit_procFrame, Frame, Answering
  <2>5. f \in StackFrame /\ f.op = "fork_failed" /\ f.p = p /\ \A k : CalledInv(k, f)'
    BY <2>3, ThenCalled
  <2>6. CalledInv(1, e)'
    BY <1>2, <1>5, <2>4 DEF CalledInv
  <2>7. todo' = <<e, f, s>>
    BY <2>1, <2>2, <2>3
  <2>8. PICK fr : /\ Pushes(fr) /\ CallsFit(fr)
                  /\ \A k \in 1 .. Len(fr) : fr[k].op \in Answering => fr[k] = f
    BY <1>2, <2>2, <2>4, <2>5, <2>6, <2>7, StartThree
  <2>9. \A q : Answered(q)' => q = parent[p]
    <3>1. StackShape(fr)
      BY <2>8, PushShape, TypesSplit DEF PmInv
    <3>2. Len(todo') = Len(fr) /\ \A k \in 1 .. Len(fr) : todo'[k] = fr[k]
      BY <1>2, <3>1 DEF StackShape
    <3> QED BY <1>1, <2>5, <2>8, <3>2 DEF Answered, Answers, Answering
  <2>10. ASSUME NEW q \in Proc \ {INIT_PROC_NR}, Alive(q) PROVE OwedInv(q)'
    <3>1. CASE q \in {p, parent[p]}
      <4>1. OwedInv(q) /\ Forwarded(q)
        BY <1>3, <1>8, <2>10, <3>1 DEF FamilyInv, Forwarded
      <4>2. ~Is(q, "REPLY")'
        BY <1>5, <1>12, <4>1 DEF OwedInv
      <4> QED BY <1>9, <2>10, <3>1, <4>2
    <3>2. CASE q \notin {p, parent[p]}
      <4>1. OwedInv(q) /\ OwedSame(q) /\ ~Answered(q)'
        BY <1>10, <2>9, <2>10, <3>2 DEF FamilyInv
      <4>2. (Forwarded(q)' => Forwarded(q)) /\ AskedOnce(q)'
        BY <1>1, <1>2, <4>1, ForwardedKept DEF OwedInv
      <4> QED BY <4>1, <4>2, OwedKept
    <3> QED BY <3>1, <3>2
  <2> QED BY <1>2, <1>6, <1>7, <2>8, <2>10, FamilyStep
<1> QED BY <1>11, <1>12

LEMMA ExitReplyFamily ==
    ASSUME PmInv, FamilyInv, NEW p \in Proc, ExitReply(p)
    PROVE  FamilyInv'
<1>1. /\ VfsReply("PM_EXIT", p) /\ flags' = [flags EXCEPT ![p] = @ \ {"VFS_CALL"}]
      /\ kstate' = [kstate EXCEPT ![p] = "cleared"] /\ delay' = [delay EXCEPT ![p] = "no"]
      /\ todo' = <<Then("exit_restart_end", p), Sendreply>>
      /\ UNCHANGED <<parent, pgrp, ignore, catch, sigmask, call>>
  BY DEF ExitReply, Cleared, table, sigs
<1>2. todo = <<>> /\ VarTypes /\ p # INIT_PROC_NR /\ ~Alive(p) /\ vfs' \subseteq vfs
  BY <1>1, ReplyKnown
<1>3. /\ flags'[p] = flags[p] \ {"VFS_CALL"}
      /\ \A q \in Proc \ {p} : flags'[q] = flags[q] /\ kstate'[q] = kstate[q] /\ delay'[q] = delay[q]
  BY <1>1, <1>2 DEF VarTypes
<1>4. PICK fr : Pushes(fr) /\ CallsFit(fr) /\ \A k \in 1 .. Len(fr) : fr[k].op \notin Answering
  <2>1. PICK s \in StackFrame :
          s = Sendreply /\ s.op = "sendreply" /\ s.op \notin Answering /\ \A k : CalledInv(k, s)'
    BY SendreplyCalled
  <2>2. PICK f : f = Then("exit_restart_end", p)
    OBVIOUS
  <2>3. f \in StackFrame /\ f.op = "exit_restart_end" /\ \A k : CalledInv(k, f)'
    BY <2>2, ThenCalled
  <2>4. todo' = <<f, s>> /\ f.op \notin Answering
    BY <1>1, <2>1, <2>2, <2>3 DEF Answering
  <2> QED BY <1>2, <2>1, <2>3, <2>4, StartTwo
<1>5. /\ \A f \in {"IN_USE", "EXITING", "ZOMBIE", "TOLD_PARENT"} : f \in flags'[p] <=> f \in flags[p]
      /\ Is(p, "WAITING")' => Is(p, "WAITING")
  BY <1>3 DEF Is
<1> QED BY <1>1, <1>2, <1>3, <1>4, <1>5, OneChanges

LEMMA CoreReplyFamily ==
    ASSUME PmInv, FamilyInv, NEW p \in Proc, CoreReply(p)
    PROVE  FamilyInv'
<1>1. /\ VfsReply("PM_DUMPCORE", p) /\ flags' = [flags EXCEPT ![p] = (@ \ {"VFS_CALL"}) \cup {"ZOMBIE"}]
      /\ kstate' = [kstate EXCEPT ![p] = "cleared"] /\ delay' = [delay EXCEPT ![p] = "no"]
      /\ todo' = <<check_parentFrame(p, FALSE), Then("exit_restart_end", p), Sendreply>>
      /\ UNCHANGED <<parent, pgrp, ignore, catch, sigmask, call>>
  BY DEF CoreReply, Cleared, table, sigs
<1>2. /\ todo = <<>> /\ VarTypes /\ p # INIT_PROC_NR /\ ~Alive(p) /\ Is(p, "IN_USE")
      /\ vfs' \subseteq vfs /\ \A r \in vfs' : r.p # p
  BY <1>1, ReplyKnown
<1>3. PICK m \in vfs : m.typ = "PM_DUMPCORE" /\ m.p = p
  BY <1>1, ReplyKnown
<1>4. /\ flags'[p] = (flags[p] \ {"VFS_CALL"}) \cup {"ZOMBIE"}
      /\ \A q \in Proc \ {p} : flags'[q] = flags[q] /\ kstate'[q] = kstate[q]
  BY <1>1, <1>2 DEF VarTypes
<1>5. PICK f : f = check_parentFrame(p, FALSE)
  OBVIOUS
<1>6. f \in StackFrame /\ f.op = "check_parent" /\ f.p = p /\ f.op \notin Answering
  BY <1>5, FrameTypes DEF check_parentFrame, Frame, Answering
<1>7. CalledInv(1, f)'
  BY <1>4, <1>6 DEF CalledInv, Is
<1>8. PICK fr : /\ Pushes(fr) /\ CallsFit(fr) /\ \A k \in 1 .. Len(fr) : fr[k].op \notin Answering
                /\ 1 \in 1 .. Len(fr) /\ fr[1] = f
  <2>1. PICK s \in StackFrame :
          s = Sendreply /\ s.op = "sendreply" /\ s.op \notin Answering /\ \A k : CalledInv(k, s)'
    BY SendreplyCalled
  <2>2. PICK e : e = Then("exit_restart_end", p)
    OBVIOUS
  <2>3. e \in StackFrame /\ e.op = "exit_restart_end" /\ \A k : CalledInv(k, e)'
    BY <2>2, ThenCalled
  <2>4. todo' = <<f, e, s>> /\ e.op \notin Answering
    BY <1>1, <1>5, <2>1, <2>2, <2>3 DEF Answering
  <2> QED BY <1>2, <1>6, <1>7, <2>1, <2>3, <2>4, StartThree
<1>9. todo' # <<>> /\ (At(1, "check_parent", p))'
  <2>1. StackShape(fr)
    BY <1>8, PushShape, TypesSplit DEF PmInv
  <2>2. 1 \in 1 .. Len(todo') /\ todo'[1] = f
    BY <1>8, <2>1 DEF StackShape
  <2> QED BY <1>6, <2>2 DEF At
<1>10. \A q \in Proc : Alive(q)' <=> Alive(q)
  BY <1>2, <1>4 DEF Alive
<1>11. InitInv'
  <2>1. INIT_PROC_NR \in Proc \ {p}
    BY <1>2, ProcAssumption
  <2>2. InitCalm
    BY <1>1, <1>4, <2>1 DEF InitCalm, FamilyInv, InitInv, Is
  <2> QED BY <2>2, InitKept DEF FamilyInv
<1>12. ASSUME NEW c \in Proc PROVE (Is(c, "IN_USE") => Alive(parent[c]))'
  <2>1. parent[c] \in Proc
    BY <1>2 DEF VarTypes
  <2>2. Is(c, "IN_USE")' => Is(c, "IN_USE")
    BY <1>4 DEF Is
  <2> QED BY <1>1, <1>2, <1>10, <2>1, <2>2, RestKnown
<1>13. ASSUME NEW c \in Proc PROVE ZombieInv(c)'
  <2>1. CASE c = p
    BY <1>9, <2>1 DEF ZombieInv
  <2>2. CASE c # p
    <3> SUFFICES ASSUME Is(c, "ZOMBIE")', wait_test(parent[c], c)' PROVE FALSE
      BY DEF ZombieInv
    <3>1. Is(c, "ZOMBIE") /\ parent[c] \in Proc
      BY <1>2, <1>4, <2>2 DEF Is, VarTypes
    <3>2. ~wait_test(parent[c], c)
      BY <1>2, <3>1, RestKnown
    <3>3. Is(parent[c], "WAITING")' => Is(parent[c], "WAITING")
      BY <1>1, <1>4, <3>1 DEF Is
    <3> QED BY <1>1, <3>2, <3>3 DEF wait_test, right_child
  <2> QED BY <2>1, <2>2
<1>14. ASSUME NEW c \in Proc PROVE DeadInv(c)'
  <2>1. DeadInv(c)
    BY <1>2, RestKnown
  <2>2. CASE c = p
    <3>1. ~Is(p, "TOLD_PARENT")
      BY <1>3, <2>1, <2>2 DEF DeadInv
    <3>2. ~Is(p, "TOLD_PARENT")' /\ (Is(p, "EXITING")' => Is(p, "EXITING"))
      BY <1>4, <3>1 DEF Is
    <3>3. Is(p, "EXITING") => flags'[p] \cap (Hanging \cup {"UNPAUSED"}) = {}
      BY <1>4, <2>1, <2>2 DEF DeadInv, Hanging
    <3> QED BY <1>2, <2>2, <3>2, <3>3 DEF DeadInv
  <2>3. CASE c # p
    <3>1. flags'[c] = flags[c]
      BY <1>4, <2>3
    <3> QED BY <1>2, <2>1, <3>1 DEF DeadInv, Is
  <2> QED BY <2>2, <2>3
<1>15. ASSUME NEW q \in Proc \ {INIT_PROC_NR}, Alive(q)' PROVE OwedInv(q)'
  <2>1. OwedInv(q) /\ q # p
    BY <1>2, <1>10, <1>15 DEF FamilyInv
  <2>2. OwedSame(q)
    BY <1>1, <1>4, <2>1 DEF OwedSame, Is
  <2>3. Answered(q)' => Answered(q)
    BY <1>1, <1>8, PushShape, AnsweredKept, TypesSplit DEF PmInv
  <2>4. (Forwarded(q)' => Forwarded(q)) /\ AskedOnce(q)'
    BY <1>1, <1>2, <2>1, ForwardedKept DEF OwedInv
  <2> QED BY <2>1, <2>2, <2>3, <2>4, OwedKept
<1> QED BY <1>2, <1>8, <1>11, <1>12, <1>13, <1>14, <1>15, StartFamily

LEMMA KernelSignalFamily ==
    ASSUME PmInv, FamilyInv, NEW p \in Proc, NEW s \in KernelSigs, KernelSignal(p, s)
    PROVE  FamilyInv'
<1>1. todo = <<>> /\ p # INIT_PROC_NR /\ Untouched
  BY DEF KernelSignal, Untouched, table, sigs, kernel
<1>2. PICK S \in {{p}, {q \in Proc : pgrp[q] = pgrp[p]}} : todo' = <<check_sigFrame(S, s, TRUE), Sendreply>>
  BY DEF KernelSignal
<1>3. S \in SUBSET Proc
  BY <1>2
<1>4. INIT_PROC_NR \notin S
  <2>1. InitInv
    BY DEF FamilyInv
  <2>2. pgrp[p] # INIT_PROC_NR
    BY <1>1, <2>1 DEF InitInv
  <2>3. pgrp[INIT_PROC_NR] = INIT_PROC_NR
    BY <2>1, ProcAssumption DEF InitInv
  <2> QED BY <1>1, <1>2, <2>2, <2>3
<1>5. PICK f : f = check_sigFrame(S, s, TRUE)
  OBVIOUS
<1>6. f \in StackFrame /\ f.op = "check_sig" /\ f.procs = S /\ f.op \notin Answering
  <2>1. s \in Signal \cup {0} /\ s # 0 /\ TRUE \in BOOLEAN
    BY ProcAssumption
  <2> QED BY <1>3, <1>5, <2>1, FrameTypes DEF check_sigFrame, Frame, Answering
<1>7. CalledInv(1, f)'
  BY <1>4, <1>6 DEF CalledInv
<1>8. PICK fr : Pushes(fr) /\ CallsFit(fr) /\ \A k \in 1 .. Len(fr) : fr[k].op \notin Answering
  <2>1. PICK e \in StackFrame :
          e = Sendreply /\ e.op = "sendreply" /\ e.op \notin Answering /\ \A k : CalledInv(k, e)'
    BY SendreplyCalled
  <2>2. todo' = <<f, e>>
    BY <1>2, <1>5, <2>1
  <2> QED BY <1>1, <1>6, <1>7, <2>1, <2>2, StartTwo
<1> QED BY <1>1, <1>8, UntouchedStep

LEMMA SignalSendDelayFamily ==
    ASSUME PmInv, FamilyInv, NEW p \in Proc, SignalSendDelay(p)
    PROVE  FamilyInv'
<1>1. /\ todo = <<>> /\ delay[p] = "raised"
      /\ UNCHANGED <<parent, pgrp, ignore, catch, sigmask, vfs, kstate, call, delay>>
  BY DEF SignalSendDelay, table, sigs, kernel
<1>2. VarTypes
  BY TypesSplit DEF PmInv
<1>3. PICK s \in StackFrame :
        s = Sendreply /\ s.op = "sendreply" /\ s.op \notin Answering /\ \A k : CalledInv(k, s)'
  BY SendreplyCalled
<1>4. PICK e, c, k : /\ e = Then("sys_endksig", p) /\ c = check_pendingFrame(p, 0)
                     /\ k = Then("ksig_end", p)
  OBVIOUS
<1>5. e \in StackFrame /\ e.op = "sys_endksig" /\ e.op \notin Answering /\ \A j : CalledInv(j, e)'
  <2>1. e \in StackFrame /\ e.op = "sys_endksig" /\ \A j : CalledInv(j, e)'
    BY <1>4, ThenCalled
  <2> QED BY <2>1 DEF Answering
<1>6. /\ c \in StackFrame /\ c.op = "check_pending" /\ c.p = p /\ c.s = 0 /\ c.op \notin Answering
      /\ k \in StackFrame /\ k.op = "ksig_end" /\ k.p = p /\ k.op \notin Answering
  <2>1. 0 \in Signal \cup {0} /\ "ksig_end" \in Function \ {"sig_proc", "check_sig"}
    BY DEF Function
  <2> QED BY <1>4, <2>1, FrameTypes DEF check_pendingFrame, Then, Frame, Answering
<1>7. CASE todo' = <<s, e>> /\ flags' = flags
  <2>1. PICK fr : Pushes(fr) /\ CallsFit(fr) /\ \A j \in 1 .. Len(fr) : fr[j].op \notin Answering
    BY <1>1, <1>3, <1>5, <1>7, StartTwo
  <2>2. Untouched
    BY <1>1, <1>7 DEF Untouched
  <2> QED BY <1>1, <2>1, <2>2, UntouchedStep
<1>8. ASSUME Alive(p), Is(p, "DELAY_CALL"), flags' = [flags EXCEPT ![p] = @ \ {"DELAY_CALL"}],
             todo' = <<s, e>> \/ todo' = <<c, k>> \o <<s, e>>
      PROVE  FamilyInv'
  <2>1. p # INIT_PROC_NR
    BY <1>8 DEF FamilyInv, InitInv, Is
  <2>2. flags'[p] = flags[p] \ {"DELAY_CALL"} /\ \A q \in Proc \ {p} : flags'[q] = flags[q]
    BY <1>2, <1>8 DEF VarTypes
  <2>3. Alive(p)' /\ ~Is(p, "DELAY_CALL")'
    BY <1>8, <2>2 DEF Alive, Is
  <2>4. CalledInv(1, c)' /\ CalledInv(2, k)'
    BY <1>1, <1>6, <2>1, <2>3 DEF CalledInv
  <2>5. PICK fr : Pushes(fr) /\ CallsFit(fr) /\ \A j \in 1 .. Len(fr) : fr[j].op \notin Answering
    <3>1. CASE todo' = <<s, e>>
      BY <1>1, <1>3, <1>5, <3>1, StartTwo
    <3>2. CASE todo' = <<c, k>> \o <<s, e>>
      <4>1. PICK x, y, z : x = <<c, k>> /\ y = <<s, e>> /\ z = x \o y
        OBVIOUS
      <4>2. /\ x \in Seq(StackFrame) /\ y \in Seq(StackFrame) /\ Len(x) = 2 /\ Len(y) = 2
            /\ x[1] = c /\ x[2] = k /\ y[1] = s /\ y[2] = e
        BY <1>3, <1>5, <1>6, <4>1
      <4>3. /\ z \in Seq(StackFrame) /\ Len(z) = Len(x) + Len(y)
            /\ \A i \in 1 .. Len(x) : z[i] = x[i]
            /\ \A j \in 1 .. Len(y) : z[Len(x) + j] = y[j]
        BY <4>1, <4>2, Joined
      <4>4. Len(z) = 4 /\ z[1] = c /\ z[2] = k /\ z[2 + 1] = s /\ z[2 + 2] = e
        <5>1. 1 \in 1 .. 2 /\ 2 \in 1 .. 2
          OBVIOUS
        <5> QED BY <4>2, <4>3, <5>1
      <4>5. z[3] = s /\ z[4] = e /\ 4 \in 1 .. 4 /\ todo' = z
        BY <3>2, <4>1, <4>4
      <4>6. CalledInv(3, s)' /\ CalledInv(4, e)'
        BY <1>3, <1>5
      <4>7. z \in Seq(StackFrame) /\ todo' = z /\ Len(z) = 4 /\ z[1] = c /\ z[2] = k /\ z[3] = s /\ z[4] = e
        BY <4>3, <4>4, <4>5
      <4>8. /\ s \in StackFrame /\ e \in StackFrame
            /\ s.op \notin Answering /\ e.op \notin Answering
        BY <1>3, <1>5
      <4>9. Pushes(z) /\ CallsFit(z) /\ \A j \in 1 .. Len(z) : z[j].op \notin Answering
        BY <1>1, <1>6, <2>4, <4>6, <4>7, <4>8, StartFour
      <4> QED BY <4>9
    <3> QED BY <1>8, <3>1, <3>2
  <2>6. /\ \A f \in {"IN_USE", "EXITING", "ZOMBIE", "TOLD_PARENT"} : f \in flags'[p] <=> f \in flags[p]
        /\ Is(p, "WAITING")' => Is(p, "WAITING")
        /\ ~Is(p, "EXITING")
    BY <1>8, <2>2 DEF Is, Alive
  <2>7. OwedSame(p)
    BY <1>1, <2>2 DEF OwedSame, Is, Hanging
  <2> QED BY <1>1, <2>1, <2>2, <2>5, <2>6, <2>7, OneChanges
<1> QED BY <1>3, <1>4, <1>7, <1>8 DEF SignalSendDelay

-----------------------------------------------------------------------------
(***************************************************************************)
(* A death.                                                                *)
(***************************************************************************)

\* A frame d between what comes before and after it.
LEMMA Between ==
    ASSUME NEW S, NEW x \in Seq(S), NEW d \in S, NEW y \in Seq(S), NEW z, z = x \o <<d>> \o y
    PROVE  /\ z \in Seq(S) /\ Len(x) \in Nat /\ Len(z) \in Nat
           /\ Len(x) + 1 \in 1 .. Len(z) /\ z[Len(x) + 1] = d
           /\ \A i \in 1 .. Len(x) : i \in 1 .. Len(z) /\ z[i] = x[i]
           /\ \A k \in 1 .. Len(z) : \/ k \in 1 .. Len(x) /\ z[k] = x[k]
                                     \/ z[k] = d
                                     \/ \E j \in 1 .. Len(y) : z[k] = y[j]
<1>0. PICK e : e = <<d>>
  OBVIOUS
<1>1. e \in Seq(S) /\ Len(e) = 1 /\ e[1] = d
  BY <1>0
<1>2. PICK w : w = x \o e
  OBVIOUS
<1>3. /\ w \in Seq(S) /\ Len(x) \in Nat /\ Len(w) = Len(x) + 1
      /\ \A i \in 1 .. Len(x) : w[i] = x[i]
      /\ w[Len(x) + 1] = d
  <2>1. /\ w \in Seq(S) /\ Len(x) \in Nat /\ Len(w) = Len(x) + Len(e)
        /\ \A i \in 1 .. Len(x) : w[i] = x[i]
        /\ \A j \in 1 .. Len(e) : w[Len(x) + j] = e[j]
    <3>1. e \in Seq(S)
      BY <1>1
    <3> QED BY <1>2, <3>1, Joined
  <2>2. 1 \in 1 .. Len(e)
    BY <1>1
  <2> QED BY <1>1, <2>1, <2>2
<1>4. z = w \o y
  BY <1>0, <1>2
<1>5. /\ z \in Seq(S) /\ Len(y) \in Nat /\ Len(z) = Len(w) + Len(y)
      /\ \A i \in 1 .. Len(w) : z[i] = w[i]
      /\ \A j \in 1 .. Len(y) : z[Len(w) + j] = y[j]
  BY <1>3, <1>4, Joined
<1>6. ASSUME NEW k \in 1 .. Len(z)
      PROVE  \/ k \in 1 .. Len(x) /\ z[k] = x[k]
             \/ z[k] = d
             \/ \E j \in 1 .. Len(y) : z[k] = y[j]
  <2>1. CASE k \in 1 .. Len(x)
    BY <1>3, <1>5, <2>1
  <2>2. CASE k = Len(x) + 1
    BY <1>3, <1>5, <2>2
  <2>3. CASE k > Len(x) + 1
    <3>0. Len(w) \in Nat /\ Len(y) \in Nat /\ k \in Int /\ k <= Len(w) + Len(y) /\ k > Len(w)
      BY <1>3, <1>5, <2>3
    <3>a. k - Len(w) \in 1 .. Len(y)
      BY <3>0
    <3>1. PICK j \in 1 .. Len(y) : j = k - Len(w)
      BY <3>a
    <3>2. k = Len(w) + j
      BY <1>3, <1>5, <3>1
    <3> QED BY <1>5, <3>1, <3>2
  <2> QED BY <1>3, <1>5, <2>1, <2>2, <2>3
<1>7. Len(x) + 1 \in 1 .. Len(w) /\ Len(x) + 1 \in 1 .. Len(z) /\ Len(z) \in Nat
  BY <1>3, <1>5
<1>8. \A i \in 1 .. Len(x) : i \in 1 .. Len(w) /\ i \in 1 .. Len(z)
  BY <1>3, <1>5
<1> QED BY <1>3, <1>5, <1>6, <1>7, <1>8

\* The functions exit_proc calls: a zombie is reported first, then its children
\* are adopted, and INIT is not hung up on.
LEMMA ExitFrames ==
    ASSUME PmInv, FamilyInv, exit_proc
    PROVE  \E p \in Proc, core \in BOOLEAN, fr \in Seq(StackFrame), n \in Nat :
             /\ p = rmp /\ core = ksig /\ Pushes(fr)
             /\ n \in 1 .. Len(fr) /\ fr[n].op = "disinherit" /\ fr[n].p = p /\ fr[n].procs = Proc
             /\ ~core => 1 \in 1 .. Len(fr) /\ fr[1].op = "check_parent" /\ fr[1].p = p
             /\ \A k \in 1 .. Len(fr) :
                  \/ k = 1 /\ ~core /\ fr[k].op = "check_parent" /\ fr[k].p = p
                  \/ fr[k].op = "disinherit" /\ fr[k].p = p
                  \/ fr[k].op = "check_sig" /\ INIT_PROC_NR \notin fr[k].procs
<1>0. Top("exit_proc")
  BY DEF exit_proc
<1>1. PICK p \in Proc, core \in BOOLEAN : p = rmp /\ core = ksig
  BY <1>0, TopOf
<1>2. /\ todo \in Seq(StackFrame) /\ todo # <<>> /\ p # INIT_PROC_NR
  BY <1>0, <1>1, TopCalled DEF exit_proc
<1>3. PICK h \in StackFrame : h = check_parentFrame(p, FALSE) /\ h.op = "check_parent" /\ h.p = p
  BY FrameTypes DEF check_parentFrame, Frame
<1>4. PICK d \in StackFrame : /\ d = Frame("disinherit", p, 0, FALSE, Proc)
                              /\ d.op = "disinherit" /\ d.p = p /\ d.procs = Proc
  <2>1. PICK d : d = Frame("disinherit", p, 0, FALSE, Proc)
    OBVIOUS
  <2>2. d \in PlainFrame
    BY <2>1, PlainFrameTypes
  <2>3. d \in StackFrame
    BY <2>2 DEF PlainFrame
  <2>4. d.op = "disinherit" /\ d.p = p /\ d.procs = Proc
    BY <2>1 DEF Frame
  <2> QED BY <2>1, <2>3, <2>4
<1>5. PICK G \in SUBSET Proc : G = {q \in Proc : pgrp[q] = mpgrp}
  OBVIOUS
<1>6. PICK g \in StackFrame : g = check_sigFrame(G, SIGHUP, FALSE) /\ g.op = "check_sig" /\ g.procs = G
  <2>1. PICK g : g = check_sigFrame(G, SIGHUP, FALSE)
    OBVIOUS
  <2>2. SIGHUP \in Signal /\ FALSE \in BOOLEAN
    BY ProcAssumption
  <2>3. g \in PlainFrame
    BY <2>1, <2>2, PlainFrameTypes
  <2>4. g \in StackFrame
    BY <2>3 DEF PlainFrame
  <2>5. g.op = "check_sig" /\ g.procs = G
    BY <2>1 DEF check_sigFrame, Frame
  <2> QED BY <2>1, <2>4, <2>5
<1>7. p = mpgrp => INIT_PROC_NR \notin G
  <2>1. pgrp[INIT_PROC_NR] = INIT_PROC_NR
    BY ProcAssumption DEF FamilyInv, InitInv
  <2> QED BY <1>2, <1>5, <2>1
<1>8. PICK x : x = IF core THEN <<>> ELSE <<h>>
  OBVIOUS
<1>9. PICK y : y = Hangup(p)
  OBVIOUS
<1>10. y = <<>> \/ (p = mpgrp /\ y = <<g>>)
  BY <1>5, <1>6, <1>9 DEF Hangup
<1>11. /\ x \in Seq(StackFrame)
       /\ core => Len(x) = 0
       /\ ~core => Len(x) = 1 /\ x[1] = h
  BY <1>8
<1>12. y \in Seq(StackFrame) /\ \A j \in 1 .. Len(y) : y[j] = g /\ p = mpgrp
  <2>1. CASE y = <<>>
    BY <2>1
  <2>2. CASE p = mpgrp /\ y = <<g>>
    BY <2>2
  <2> QED BY <1>10, <2>1, <2>2
<1>13. PICK z : z = x \o <<d>> \o y
  OBVIOUS
<1>14. Return(z)
  <2>1. Return((IF core THEN <<>> ELSE <<h>>) \o <<d>> \o Hangup(p))
    BY <1>1, <1>3, <1>4, Zenon DEF exit_proc
  <2> QED BY <1>8, <1>9, <1>13, <2>1, Zenon
<1>15. /\ z \in Seq(StackFrame) /\ Len(x) \in Nat /\ Len(z) \in Nat
       /\ Len(x) + 1 \in 1 .. Len(z) /\ z[Len(x) + 1] = d
       /\ \A i \in 1 .. Len(x) : i \in 1 .. Len(z) /\ z[i] = x[i]
       /\ \A k \in 1 .. Len(z) : \/ k \in 1 .. Len(x) /\ z[k] = x[k]
                                 \/ z[k] = d
                                 \/ \E j \in 1 .. Len(y) : z[k] = y[j]
  <2>1. x \in Seq(StackFrame) /\ y \in Seq(StackFrame) /\ d \in StackFrame
    BY <1>11, <1>12
  <2> QED BY <1>13, <2>1, Between
<1>16. Pushes(z)
  BY <1>0, <1>2, <1>14, <1>15, Returning
<1>17. ~core => 1 \in 1 .. Len(z) /\ z[1] = h
  <2>0. 1 \in 1 .. 1
    OBVIOUS
  <2>1. ~core => 1 \in 1 .. Len(x)
    BY <1>11, <2>0
  <2> QED BY <1>11, <1>15, <2>1
<1>18. ASSUME NEW k \in 1 .. Len(z)
       PROVE  \/ k = 1 /\ ~core /\ z[k].op = "check_parent" /\ z[k].p = p
              \/ z[k].op = "disinherit" /\ z[k].p = p
              \/ z[k].op = "check_sig" /\ INIT_PROC_NR \notin z[k].procs
  <2>1. CASE k \in 1 .. Len(x) /\ z[k] = x[k]
    <3>1. ~core /\ k = 1
      BY <1>11, <2>1
    <3> QED BY <1>3, <1>11, <2>1, <3>1
  <2>2. CASE z[k] = d
    BY <1>4, <2>2
  <2>3. CASE \E j \in 1 .. Len(y) : z[k] = y[j]
    BY <1>6, <1>7, <1>12, <2>3
  <2> QED BY <1>15, <2>1, <2>2, <2>3
<1>19. PICK n \in Nat : n \in 1 .. Len(z) /\ z[n] = d
  BY <1>15
<1>20. z[n].op = "disinherit" /\ z[n].p = p /\ z[n].procs = Proc
  BY <1>4, <1>19
<1> QED BY <1>1, <1>3, <1>15, <1>16, <1>17, <1>18, <1>19, <1>20

\* exit_proc: the frames it pushes carry what is still to be done for the family.
LEMMA ExitProcFamily ==
    ASSUME PmInv, FamilyInv, exit_proc
    PROVE  FamilyInv'
<1>0. Top("exit_proc") /\ UNCHANGED <<table, sigs, mpgrp, kernel>>
  BY DEF exit_proc
<1>1. PICK p \in Proc, core \in BOOLEAN, fr \in Seq(StackFrame), n \in Nat :
        /\ p = rmp /\ core = ksig /\ Pushes(fr)
        /\ n \in 1 .. Len(fr) /\ fr[n].op = "disinherit" /\ fr[n].p = p /\ fr[n].procs = Proc
        /\ ~core => 1 \in 1 .. Len(fr) /\ fr[1].op = "check_parent" /\ fr[1].p = p
        /\ \A k \in 1 .. Len(fr) :
             \/ k = 1 /\ ~core /\ fr[k].op = "check_parent" /\ fr[k].p = p
             \/ fr[k].op = "disinherit" /\ fr[k].p = p
             \/ fr[k].op = "check_sig" /\ INIT_PROC_NR \notin fr[k].procs
  BY ExitFrames
<1>2. /\ VarTypes /\ todo \in Seq(StackFrame) /\ todo # <<>> /\ 1 \in 1 .. Len(todo)
      /\ todo[1].op = "exit_proc" /\ todo[1].p = p /\ StackInv
  BY <1>0, <1>1, TopCalled, TopOf
<1>3. Alive(p) /\ p # INIT_PROC_NR /\ ~Is(p, "VFS_CALL")
  BY <1>1, <1>2 DEF exit_proc, StackInv
<1>4. PICK F : /\ flags' = [flags EXCEPT ![p] = F]
               /\ F = {"IN_USE", "VFS_CALL", "EXITING"} \cup {f \in {"ZOMBIE"} : ~core}
  BY <1>1 DEF exit_proc
<1>5. flags'[p] = F /\ \A q \in Proc \ {p} : flags'[q] = flags[q]
  BY <1>2, <1>4 DEF VarTypes
<1>6. /\ Is(p, "VFS_CALL")' /\ Is(p, "EXITING")' /\ Is(p, "IN_USE")' /\ ~Alive(p)' /\ Leaving(p)'
      /\ Is(p, "ZOMBIE")' <=> ~core
      /\ ~Is(p, "DELAY_CALL")' /\ ~Is(p, "TOLD_PARENT")' /\ ~Is(p, "WAITING")'
      /\ flags'[p] \cap (Hanging \cup {"UNPAUSED"}) = {}
  BY <1>4, <1>5 DEF Is, Alive, Leaving, Hanging
<1>7. PICK typ \in {"PM_DUMPCORE", "PM_EXIT"} : tell_vfs(typ, p) /\ (typ = "PM_EXIT" <=> ~core)
  <2>1. CASE core
    BY <1>1, <2>1 DEF exit_proc
  <2>2. CASE ~core
    BY <1>1, <2>2 DEF exit_proc
  <2> QED BY <2>1, <2>2
<1>8. PICK m : m.typ = typ /\ m.p = p /\ vfs' = vfs \cup {m}
  BY <1>7, AskVfs
<1>9. StackShape(fr)
  BY <1>1, <1>2, PushShape
<1>10. UNCHANGED <<parent, pgrp, ignore, catch, sigmask, kstate, call, delay>>
  BY <1>0 DEF table, sigs, kernel
<1>11. \A q \in Proc \ {p} : \A f : Is(q, f)' <=> Is(q, f)
  BY <1>5 DEF Is
<1>12. \A q \in Proc \ {p} : Alive(q)' <=> Alive(q)
  BY <1>5 DEF Alive
<1>13. InitInv'
  <2>1. INIT_PROC_NR \in Proc \ {p}
    BY <1>3, ProcAssumption
  <2>2. InitCalm
    BY <1>5, <1>10, <2>1 DEF InitCalm, FamilyInv, InitInv, Is
  <2> QED BY <2>2, InitKept DEF FamilyInv
<1>14. CallsInv'
  <2>1. CallsFit(fr)
    <3>1. ASSUME NEW k \in 1 .. Len(fr), NEW f, f = fr[k] PROVE CalledInv(k, f)' /\ f.op \notin Answering
      <4>1. CASE k = 1 /\ ~core /\ f.op = "check_parent" /\ f.p = p
        BY <1>6, <4>1 DEF CalledInv, Answering
      <4>2. CASE f.op = "disinherit" /\ f.p = p
        BY <1>6, <4>2 DEF CalledInv, Answering
      <4>3. CASE f.op = "check_sig" /\ INIT_PROC_NR \notin f.procs
        BY <4>3 DEF CalledInv, Answering
      <4> QED BY <1>1, <3>1, <4>1, <4>2, <4>3
    <3>2. \A k \in 1 .. Len(fr) : CalledInv(k, fr[k])' /\ fr[k].op \notin Answering
      BY <3>1
    <3> QED BY <3>2 DEF CallsFit
  <2>2. ASSUME NEW q \in Proc PROVE KeepsCalled(q)
    <3>1. CASE q = p
      BY <1>3, <1>6, <1>10, <3>1 DEF KeepsCalled, Leaving
    <3>2. CASE q # p
      BY <1>10, <1>11, <1>12, <3>2 DEF KeepsCalled, Leaving
    <3> QED BY <3>1, <3>2
  <2> QED BY <1>1, <2>1, <2>2, CallsStep DEF FamilyInv
<1>15. ASSUME NEW c \in Proc PROVE ParentInv(c)'
  <2>0. ParentInv(c) /\ parent[c] \in Proc /\ parent'[c] = parent[c]
    BY <1>2, <1>10 DEF FamilyInv, VarTypes
  <2>1. CASE parent[c] = p
    <3>1. n \in 1 .. Len(todo') /\ todo'[n] = fr[n]
      BY <1>1, <1>9 DEF StackShape
    <3>2. todo'[n].op = "disinherit" /\ todo'[n].p = parent'[c] /\ c \in todo'[n].procs
      BY <1>1, <2>0, <2>1, <3>1
    <3> QED BY <3>1, <3>2 DEF ParentInv, At
  <2>2. CASE parent[c] # p /\ Alive(parent[c])
    BY <1>12, <2>0, <2>2 DEF ParentInv, Alive
  <2>3. CASE parent[c] # p /\ ~Alive(parent[c]) /\ Is(c, "IN_USE")
    <3>1. PICK k \in 1 .. Len(todo) : At(k, "disinherit", parent[c]) /\ c \in todo[k].procs
      BY <2>0, <2>3 DEF ParentInv
    <3>2. k # 1 /\ k \in 2 .. Len(todo)
      BY <1>2, <1>9, <3>1 DEF At, StackShape
    <3>3. k - 1 + Len(fr) \in 1 .. Len(todo') /\ todo'[k - 1 + Len(fr)] = todo[k]
      BY <1>9, <3>2 DEF StackShape
    <3>4. PICK l \in 1 .. Len(todo') : todo'[l] = todo[k]
      BY <3>3
    <3>5. todo'[l].op = "disinherit" /\ todo'[l].p = parent'[c] /\ c \in todo'[l].procs
      BY <2>0, <3>1, <3>4 DEF At
    <3> QED BY <3>5 DEF ParentInv, At
  <2>4. CASE parent[c] # p /\ ~Is(c, "IN_USE")
    <3>1. c # p
      BY <1>3, <2>4 DEF Alive, Is
    <3> QED BY <1>11, <2>4, <3>1 DEF ParentInv
  <2> QED BY <2>1, <2>2, <2>3, <2>4
<1>16. ASSUME NEW c \in Proc PROVE ZombieInv(c)'
  <2>0. parent[c] \in Proc /\ parent'[c] = parent[c] /\ call' = call
    BY <1>2, <1>10 DEF VarTypes
  <2>1. CASE c = p
    <3>1. CASE ~core
      <4>1. 1 \in 1 .. Len(todo') /\ todo'[1] = fr[1]
        BY <1>1, <1>9, <3>1 DEF StackShape
      <4>2. todo' # <<>> /\ At(1, "check_parent", c)'
        <5>1. todo' # <<>>
          BY <4>1
        <5> QED BY <1>1, <2>1, <3>1, <4>1, <5>1 DEF At
      <4> QED BY <4>2 DEF ZombieInv
    <3>2. CASE core
      BY <1>6, <2>1, <3>2 DEF ZombieInv
    <3> QED BY <3>1, <3>2
  <2>2. CASE c # p
    <3>1. ~(Is(c, "ZOMBIE") /\ wait_test(parent[c], c))
      <4>1. ZombieInv(c) /\ ~At(1, "check_parent", c)
        BY <1>2 DEF FamilyInv, At
      <4> QED BY <4>1 DEF ZombieInv
    <3>2. wait_test(parent[c], c)' => wait_test(parent[c], c)
      <4>1. Is(parent[c], "WAITING")' => parent[c] # p
        BY <1>6, <2>0
      <4> QED BY <1>11, <2>0, <4>1 DEF wait_test, right_child
    <3> QED BY <1>11, <2>2, <3>1, <3>2 DEF ZombieInv
  <2> QED BY <2>1, <2>2
<1>17. ASSUME NEW c \in Proc PROVE DeadInv(c)'
  <2>1. CASE c = p
    <3>1. \A r \in vfs : r.p # p
      BY <1>3 DEF PmInv, ProcInv, VfsInv
    <3>2. \A r \in vfs' : r.p = p /\ r.typ = "PM_DUMPCORE" => core
      BY <1>7, <1>8, <3>1
    <3> QED BY <1>6, <2>1, <3>2 DEF DeadInv
  <2>2. CASE c # p
    <3>1. DeadInv(c) /\ flags'[c] = flags[c]
      BY <1>5, <2>2 DEF FamilyInv
    <3>2. \A r \in vfs' : r.p = c => r \in vfs
      BY <1>8, <2>2
    <3> QED BY <3>1, <3>2 DEF DeadInv, Is
  <2> QED BY <2>1, <2>2
<1>18. ASSUME NEW q \in Proc \ {INIT_PROC_NR}, Alive(q)' PROVE OwedInv(q)'
  <2>1. q # p /\ Alive(q)
    BY <1>6, <1>12, <1>18
  <2>2. OwedInv(q)
    BY <2>1 DEF FamilyInv
  <2>3. OwedSame(q)
    <3>1. flags'[q] = flags[q]
      BY <1>5, <2>1
    <3> QED BY <1>10, <3>1 DEF OwedSame, Is
  <2>4. \A x \in Proc : parent'[x] = q => parent[x] = q
    BY <1>10
  <2>5. \A k \in 1 .. Len(fr) : fr[k].op \notin Answering
    BY <1>1 DEF Answering
  <2>6. \A r \in vfs' : r \in vfs \/ r.typ \notin {"PM_SETUID", "PM_FORK"}
    BY <1>7, <1>8
  <2>7. Answered(q)' => Answered(q)
    BY <1>2, <1>9, <2>4, <2>5, AnsweredKept
  <2>8. (Forwarded(q)' => Forwarded(q)) /\ AskedOnce(q)'
    BY <1>2, <2>2, <2>4, <2>6, ForwardedKept DEF OwedInv
  <2> QED BY <2>2, <2>3, <2>7, <2>8, OwedKept
<1> QED BY <1>13, <1>14, <1>15, <1>16, <1>17, <1>18 DEF FamilyInv

\* A round of the loop over the children of p: fr is what it calls.
LEMMA AdoptionFamily ==
    ASSUME PmInv, FamilyInv, Top("disinherit"), NEW fr, Pushes(fr),
           UNCHANGED <<flags, pgrp, ignore, catch, sigmask, vfs, kstate, call, delay>>,
           \A k \in 1 .. Len(fr) :
             \/ k = 1 /\ fr[k].op = "check_parent" /\ Is(fr[k].p, "ZOMBIE")
             \/ fr[k].op = "disinherit" /\ fr[k].p = rmp,
           \A x \in Proc :
             \/ parent'[x] = INIT_PROC_NR
                  /\ (Is(x, "ZOMBIE") => 1 \in 1 .. Len(fr) /\ fr[1].op = "check_parent" /\ fr[1].p = x)
             \/ parent'[x] = parent[x]
                  /\ (Is(x, "IN_USE") /\ parent[x] = rmp /\ x \in procs =>
                        \E k \in 1 .. Len(fr) : /\ fr[k].op = "disinherit" /\ fr[k].p = rmp
                                                /\ x \in fr[k].procs)
    PROVE  FamilyInv'
<1>1. /\ VarTypes /\ todo \in Seq(StackFrame) /\ todo # <<>> /\ 1 \in 1 .. Len(todo)
      /\ todo[1].op = "disinherit" /\ todo[1].p = rmp /\ todo[1].procs = procs
      /\ CalledInv(1, todo[1]) /\ rmp \in Proc
  BY TopCalled
<1>2. Leaving(rmp)
  BY <1>1 DEF CalledInv
<1>3. StackShape(fr)
  BY <1>1, PushShape
<1>4. \A q : (Alive(q)' <=> Alive(q)) /\ (Leaving(q)' <=> Leaving(q)) /\ \A f : Is(q, f)' <=> Is(q, f)
  BY DEF Alive, Leaving, Is
<1>5. InitInv'
  BY InitKept DEF InitCalm, FamilyInv, InitInv, Is
<1>6. CallsInv'
  <2>1. CallsFit(fr)
    <3>1. ASSUME NEW k \in 1 .. Len(fr), NEW f, f = fr[k] PROVE CalledInv(k, f)' /\ f.op \notin Answering
      <4>1. CASE k = 1 /\ f.op = "check_parent" /\ Is(f.p, "ZOMBIE")
        BY <1>4, <4>1 DEF CalledInv, Answering
      <4>2. CASE f.op = "disinherit" /\ f.p = rmp
        <5>1. Leaving(f.p)'
          BY <1>2, <1>4, <4>2
        <5> QED BY <4>2, <5>1 DEF CalledInv, Answering
      <4> QED BY <3>1, <4>1, <4>2
    <3>2. \A k \in 1 .. Len(fr) : CalledInv(k, fr[k])' /\ fr[k].op \notin Answering
      BY <3>1
    <3> QED BY <3>2 DEF CallsFit
  <2>2. \A q \in Proc : KeepsCalled(q)
    BY <1>4 DEF KeepsCalled
  <2> QED BY <2>1, <2>2, CallsStep DEF FamilyInv
<1>7. ASSUME NEW x \in Proc PROVE ParentInv(x)'
  <2>1. CASE parent'[x] = INIT_PROC_NR
    <3>1. Alive(INIT_PROC_NR)'
      BY <1>5 DEF InitInv, Alive, Is
    <3> QED BY <2>1, <3>1 DEF ParentInv, Alive
  <2>2. CASE ~Is(x, "IN_USE")
    BY <1>4, <2>2 DEF ParentInv
  <2>3. CASE parent'[x] = parent[x] /\ Alive(parent[x])
    <3>1. Alive(parent[x])'
      BY <2>3 DEF Alive
    <3> QED BY <3>1 DEF ParentInv
  <2>4. ASSUME Is(x, "IN_USE"), parent'[x] # INIT_PROC_NR, ~Alive(parent[x]) PROVE ParentInv(x)'
    <3>0. parent'[x] = parent[x]
      BY <2>4
    <3>1. PICK k \in 1 .. Len(todo) : At(k, "disinherit", parent[x]) /\ x \in todo[k].procs
      BY <2>4 DEF FamilyInv, ParentInv
    <3>2. CASE k = 1
      <4>1. parent[x] = rmp /\ x \in procs
        BY <1>1, <3>1, <3>2 DEF At
      <4>2. PICK l \in 1 .. Len(fr) : fr[l].op = "disinherit" /\ fr[l].p = rmp /\ x \in fr[l].procs
        BY <2>4, <4>1
      <4>3. l \in 1 .. Len(todo') /\ todo'[l] = fr[l]
        BY <1>3 DEF StackShape
      <4>4. todo'[l].op = "disinherit" /\ todo'[l].p = parent'[x] /\ x \in todo'[l].procs
        BY <3>0, <4>1, <4>2, <4>3
      <4> QED BY <4>3, <4>4 DEF ParentInv, At
    <3>3. CASE k # 1
      <4>1. k \in 2 .. Len(todo)
        BY <1>3, <3>1, <3>3 DEF StackShape
      <4>2. k - 1 + Len(fr) \in 1 .. Len(todo') /\ todo'[k - 1 + Len(fr)] = todo[k]
        BY <1>3, <4>1 DEF StackShape
      <4>3. PICK l \in 1 .. Len(todo') : todo'[l] = todo[k]
        BY <4>2
      <4>4. todo'[l].op = "disinherit" /\ todo'[l].p = parent'[x] /\ x \in todo'[l].procs
        BY <3>0, <3>1, <4>3 DEF At
      <4> QED BY <4>4 DEF ParentInv, At
    <3> QED BY <3>2, <3>3
  <2> QED BY <2>1, <2>2, <2>3, <2>4
<1>8. ASSUME NEW x \in Proc PROVE ZombieInv(x)'
  <2>1. CASE Is(x, "ZOMBIE") /\ 1 \in 1 .. Len(fr) /\ fr[1].op = "check_parent" /\ fr[1].p = x
    <3>1. 1 \in 1 .. Len(todo') /\ todo'[1] = fr[1]
      BY <1>3, <2>1 DEF StackShape
    <3>2. todo' # <<>>
      BY <3>1
    <3> QED BY <2>1, <3>1, <3>2 DEF ZombieInv, At
  <2>2. CASE parent'[x] = parent[x]
    <3>1. ZombieInv(x) /\ ~At(1, "check_parent", x)
      BY <1>1 DEF FamilyInv, At
    <3>2. ~(Is(x, "ZOMBIE") /\ wait_test(parent[x], x))
      BY <3>1 DEF ZombieInv
    <3>3. wait_test(parent[x], x)' => wait_test(parent[x], x)
      BY <2>2 DEF wait_test, right_child, Is
    <3> QED BY <1>4, <3>2, <3>3 DEF ZombieInv
  <2>3. CASE ~Is(x, "ZOMBIE")
    BY <1>4, <2>3 DEF ZombieInv
  <2> QED BY <2>1, <2>2, <2>3
<1>9. ASSUME NEW x \in Proc PROVE DeadInv(x)'
  BY DEF FamilyInv, DeadInv, Is
<1>10. ASSUME NEW q \in Proc \ {INIT_PROC_NR}, Alive(q)' PROVE OwedInv(q)'
  <2>1. OwedInv(q)
    BY <1>4, <1>10 DEF FamilyInv
  <2>2. OwedSame(q)
    BY DEF OwedSame, Is
  <2>3. \A x \in Proc : parent'[x] = q => parent[x] = q
    OBVIOUS
  <2>4. \A k \in 1 .. Len(fr) : fr[k].op \notin Answering
    BY DEF Answering
  <2>5. Answered(q)' => Answered(q)
    BY <1>1, <1>3, <2>3, <2>4, AnsweredKept
  <2>6. (Forwarded(q)' => Forwarded(q)) /\ AskedOnce(q)'
    BY <1>1, <2>1, <2>3, ForwardedKept DEF OwedInv
  <2> QED BY <2>1, <2>2, <2>5, <2>6, OwedKept
<1> QED BY <1>5, <1>6, <1>7, <1>8, <1>9, <1>10 DEF FamilyInv

LEMMA DisinheritFamily ==
    ASSUME PmInv, FamilyInv, disinherit
    PROVE  FamilyInv'
<1>0. /\ Top("disinherit")
      /\ UNCHANGED <<flags, pgrp, ignore, catch, sigmask, vfs, kstate, call, delay>>
  BY DEF disinherit, sigs, kernel
<1>1. /\ VarTypes /\ todo \in Seq(StackFrame) /\ todo # <<>> /\ rmp \in Proc /\ procs \in SUBSET Proc
      /\ Head(todo) \in StackFrame /\ Head(todo).op = "disinherit"
  BY <1>0, TopCalled, TopTypes DEF Top
<1>2. CASE {c \in procs \cap InUse : parent[c] = rmp} = {} /\ Return(<<>>) /\ UNCHANGED parent
  <2>1. Pushes(<<>>)
    <3>1. <<>> \in Seq(StackFrame)
      OBVIOUS
    <3> QED BY <1>0, <1>1, <1>2, <3>1, Returning
  <2>2. \A x \in Proc : ~(Is(x, "IN_USE") /\ parent[x] = rmp /\ x \in procs)
    BY <1>2 DEF InUse, Is
  <2>3. PICK e : e = <<>> /\ Pushes(e)
    BY <2>1
  <2>4. Len(e) = 0
    BY <2>3
  <2> QED BY <1>0, <1>2, <2>2, <2>3, <2>4, AdoptionFamily
<1>3. ASSUME NEW c \in procs \cap InUse, parent' = [parent EXCEPT ![c] = INIT_PROC_NR],
             Return(NotifyInit(c) \o <<[Head(todo) EXCEPT !.procs = @ \ {c}]>>)
      PROVE  FamilyInv'
  <2>0. c \in Proc /\ parent'[c] = INIT_PROC_NR /\ \A x \in Proc \ {c} : parent'[x] = parent[x]
    BY <1>1, <1>3 DEF VarTypes, InUse
  <2>1. PICK d : d = [Head(todo) EXCEPT !.procs = @ \ {c}]
    OBVIOUS
  <2>2. d \in StackFrame /\ d.op = "disinherit" /\ d.p = rmp /\ d.procs = procs \ {c}
    BY <1>1, <2>1 DEF StackFrame, rmp, procs
  <2>3. PICK h \in StackFrame : h = check_parentFrame(c, TRUE) /\ h.op = "check_parent" /\ h.p = c
    BY <2>0, FrameTypes DEF check_parentFrame, Frame
  <2>4. PICK x : x = NotifyInit(c)
    OBVIOUS
  <2>5. /\ Is(c, "ZOMBIE") => x = <<h>>
        /\ ~Is(c, "ZOMBIE") => x = <<>>
    BY <2>3, <2>4 DEF NotifyInit
  <2>6. /\ x \in Seq(StackFrame)
        /\ Is(c, "ZOMBIE") => Len(x) = 1 /\ x[1] = h
        /\ ~Is(c, "ZOMBIE") => Len(x) = 0
    <3>1. CASE Is(c, "ZOMBIE")
      <4>1. x = <<h>>
        BY <2>5, <3>1
      <4> QED BY <3>1, <4>1
    <3>2. CASE ~Is(c, "ZOMBIE")
      <4>1. x = <<>>
        BY <2>5, <3>2
      <4> QED BY <3>2, <4>1
    <3> QED BY <3>1, <3>2
  <2>7. PICK e, z : e = <<d>> /\ z = x \o e
    OBVIOUS
  <2>8. e \in Seq(StackFrame) /\ Len(e) = 1 /\ e[1] = d
    BY <2>2, <2>7
  <2>9. /\ z \in Seq(StackFrame) /\ Len(x) \in Nat /\ Len(z) = Len(x) + Len(e)
        /\ \A i \in 1 .. Len(x) : z[i] = x[i]
        /\ \A j \in 1 .. Len(e) : z[Len(x) + j] = e[j]
    <3>1. e \in Seq(StackFrame) /\ x \in Seq(StackFrame) /\ z = x \o e
      BY <2>6, <2>7, <2>8
    <3> QED BY <3>1, Joined
  <2>10. 1 \in 1 .. 1 /\ 1 \in 1 .. 2 /\ 2 \in 1 .. 2
    OBVIOUS
  <2>11. z[Len(x) + 1] = d /\ Len(z) = Len(x) + 1
    BY <2>8, <2>9, <2>10
  <2>12. Pushes(z)
    <3>1. Return(z)
      BY <1>3, <2>1, <2>4, <2>7, Zenon
    <3> QED BY <1>0, <1>1, <2>9, <3>1, Returning
  <2>13. Is(c, "ZOMBIE") => Len(z) = 2 /\ z[1] = h /\ z[2] = d
    <3> SUFFICES ASSUME Is(c, "ZOMBIE") PROVE Len(z) = 2 /\ z[1] = h /\ z[2] = d
      OBVIOUS
    <3>1. Len(x) = 1 /\ x[1] = h
      BY <2>6
    <3>2. 1 \in 1 .. Len(x) /\ Len(x) + 1 = 2
      BY <2>10, <3>1
    <3>3. z[1] = h
      BY <2>9, <3>1, <3>2
    <3> QED BY <2>11, <3>2, <3>3
  <2>14. ~Is(c, "ZOMBIE") => Len(z) = 1 /\ z[1] = d
    BY <2>6, <2>9, <2>11
  <2>15. ASSUME NEW k \in 1 .. Len(z)
         PROVE  \/ k = 1 /\ z[k].op = "check_parent" /\ Is(z[k].p, "ZOMBIE")
                \/ z[k].op = "disinherit" /\ z[k].p = rmp
    <3>1. CASE Is(c, "ZOMBIE")
      <4>0. k \in 1 .. 2
        BY <2>13, <3>1
      <4>1. k = 1 \/ k = 2
        BY <4>0
      <4> QED BY <2>2, <2>3, <2>13, <3>1, <4>1
    <3>2. CASE ~Is(c, "ZOMBIE")
      <4>0. k \in 1 .. 1
        BY <2>14, <3>2
      <4>1. k = 1
        BY <4>0
      <4> QED BY <2>2, <2>14, <3>2, <4>1
    <3> QED BY <3>1, <3>2
  <2>16. PICK n \in 1 .. Len(z) : z[n] = d
    BY <2>10, <2>13, <2>14
  <2>17. ASSUME NEW y \in Proc
         PROVE  \/ parent'[y] = INIT_PROC_NR
                     /\ (Is(y, "ZOMBIE") => 1 \in 1 .. Len(z) /\ z[1].op = "check_parent" /\ z[1].p = y)
                \/ parent'[y] = parent[y]
                     /\ (Is(y, "IN_USE") /\ parent[y] = rmp /\ y \in procs =>
                           \E k \in 1 .. Len(z) : /\ z[k].op = "disinherit" /\ z[k].p = rmp
                                                  /\ y \in z[k].procs)
    <3>1. CASE y = c
      BY <2>0, <2>3, <2>10, <2>13, <3>1
    <3>2. CASE y # c
      BY <2>0, <2>2, <2>16, <3>2
    <3> QED BY <3>1, <3>2
  <2> QED BY <1>0, <2>12, <2>15, <2>17, AdoptionFamily
<1> QED BY <1>2, <1>3 DEF disinherit

-----------------------------------------------------------------------------
(***************************************************************************)
(* The invariant.                                                          *)
(***************************************************************************)
LEMMA InitFamily == Init => FamilyInv
<1> SUFFICES ASSUME Init PROVE FamilyInv
  OBVIOUS
<1>0. INIT_PROC_NR \in Proc /\ INIT_PROC_NR \in Booted
  BY ProcAssumption
<1>1. Len(todo) = 0 /\ vfs = {}
  BY DEF Init
<1>2. ASSUME NEW p \in Proc
      PROVE  /\ flags[p] \subseteq {"IN_USE"} /\ parent[p] = INIT_PROC_NR
             /\ call[p].typ = "none" /\ call[p].to = {}
             /\ kstate[p] # "sending"
  BY DEF Init
<1>3. flags[INIT_PROC_NR] = {"IN_USE"}
  BY <1>0 DEF Init
<1>4. InitInv
  <2>1. ignore[INIT_PROC_NR] \cup catch[INIT_PROC_NR] \cup sigmask[INIT_PROC_NR] = {}
    BY <1>0 DEF Init
  <2>2. \A p \in Proc : pgrp[p] = INIT_PROC_NR <=> p = INIT_PROC_NR
    BY DEF Init
  <2> QED BY <1>0, <1>2, <1>3, <2>1, <2>2 DEF InitInv, Is
<1>5. CallsInv
  BY <1>1 DEF CallsInv
<1>6. ASSUME NEW p \in Proc PROVE ParentInv(p) /\ ZombieInv(p) /\ DeadInv(p)
  BY <1>1, <1>2, <1>3, <1>6 DEF ParentInv, ZombieInv, DeadInv, Is, Alive
<1>7. ASSUME NEW p \in Proc PROVE OwedInv(p)
  <2>1. ~Answered(p) /\ ~Forwarded(p) /\ AskedOnce(p)
    BY <1>1 DEF Answered, Forwarded, AskedOnce
  <2>2. ~HangsInPm(p)
    BY <1>2 DEF HangsInPm, Hanging
  <2> QED BY <1>2, <2>1, <2>2 DEF OwedInv, Is
<1> QED BY <1>4, <1>5, <1>6, <1>7 DEF FamilyInv

LEMMA PmStepFamily ==
    ASSUME PmInv, FamilyInv, PmStep
    PROVE  FamilyInv'
<1>1. CASE SigBlocked \/ SigIgnored \/ UnpauseLater
  BY <1>1, SigKeptFamily
<1>2. CASE SigDuringVfsCall
  BY <1>2, SigDuringVfsCallFamily
<1>3. CASE SigFatal
  BY <1>3, SigFatalFamily
<1>4. CASE UnpauseBusy
  BY <1>4, UnpauseBusyFamily
<1>5. CASE UnpauseByVfs
  BY <1>5, UnpauseByVfsFamily
<1>6. CASE \E ok \in BOOLEAN : sig_send(ok)
  BY <1>6, SigSendFamily
<1>7. CASE check_sig
  BY <1>7, CheckSigFamily
<1>8. CASE check_pending
  BY <1>8, CheckPendingFamily
<1>9. CASE restart_sigs
  BY <1>9, RestartSigsFamily
<1>10. CASE restart_sigs_end
  BY <1>10, RestartSigsEndFamily
<1>11. CASE exit_proc
  BY <1>11, ExitProcFamily
<1>12. CASE disinherit
  BY <1>12, DisinheritFamily
<1>13. CASE check_parent
  BY <1>13, CheckParentFamily
<1>14. CASE exit_restart_end
  BY <1>14, ExitRestartEndFamily
<1>15. CASE setreply \/ fork_failed \/ kill_result
  BY <1>15, ReplyFlagFamily
<1>16. CASE sendreply
  BY <1>16, SendreplyFamily
<1>17. CASE ksig_end
  BY <1>17, KsigEndFamily
<1>18. CASE sys_endksig
  BY <1>18, SysEndksigFamily
<1> QED BY <1>1, <1>2, <1>3, <1>4, <1>5, <1>6, <1>7, <1>8, <1>9, <1>10, <1>11, <1>12, <1>13, <1>14,
           <1>15, <1>16, <1>17, <1>18 DEF PmStep

LEMMA PmCallFamily ==
    ASSUME PmInv, FamilyInv, NEW p \in Proc, PmCall(p)
    PROVE  FamilyInv'
<1>1. CASE DropCall(p)
  BY <1>1, SentFamily
<1>2. CASE do_pause(p) \/ do_sigsuspend(p) \/ do_sigprocmask_set(p) \/ do_kill(p)
  BY <1>2, SignalCallFamily
<1>3. CASE do_sigprocmask_block(p) \/ do_sigaction(p) \/ WaitRefused(p) \/ ForkRefused(p)
  BY <1>3, AnsweredCallFamily
<1>4. CASE do_exit(p)
  BY <1>4, DoExitFamily
<1>5. CASE WaitCollects(p)
  BY <1>5, WaitCollectsFamily
<1>6. CASE WaitHangs(p)
  BY <1>6, WaitHangsFamily
<1>7. CASE do_fork(p)
  BY <1>7, DoForkFamily
<1>8. CASE do_setuid(p)
  BY <1>8, DoSetuidFamily
<1> QED BY <1>1, <1>2, <1>3, <1>4, <1>5, <1>6, <1>7, <1>8 DEF PmCall

LEMMA VfsReplyFamily ==
    ASSUME PmInv, FamilyInv, NEW p \in Proc, handle_vfs_reply(p)
    PROVE  FamilyInv'
BY SetuidUnpauseReplyFamily, ExitReplyFamily, CoreReplyFamily, ForkReplyFamily DEF handle_vfs_reply

LEMMA NextFamily ==
    ASSUME InitOnlyWaits
    PROVE  PmInv /\ FamilyInv /\ [Next]_vars => FamilyInv'
<1> SUFFICES ASSUME PmInv, FamilyInv, [Next]_vars PROVE FamilyInv'
  OBVIOUS
<1>1. CASE UNCHANGED vars
  BY <1>1, StutterFamily
<1>2. CASE PmStep
  BY <1>2, PmStepFamily
<1>3. ASSUME NEW p \in Proc, PmCall(p) PROVE FamilyInv'
  BY <1>3, PmCallFamily
<1>4. ASSUME NEW p \in Proc, handle_vfs_reply(p) PROVE FamilyInv'
  BY <1>4, VfsReplyFamily
<1>5. ASSUME NEW p \in Proc, SignalSendDelay(p) PROVE FamilyInv'
  BY <1>5, SignalSendDelayFamily
<1>6. ASSUME NEW p \in Proc, ServerReceives(p) PROVE FamilyInv'
  BY <1>6, SentFamily
<1>7. ASSUME NEW p \in Proc, ServerAnswers(p) PROVE FamilyInv'
  BY <1>7, ServerAnswersFamily
<1>8. ASSUME NEW p \in Proc, NEW s \in KernelSigs, KernelSignal(p, s) PROVE FamilyInv'
  BY <1>8, KernelSignalFamily
<1>9. ASSUME NEW p \in Proc, NEW c \in Calls[p], Sends(p, c) PROVE FamilyInv'
  BY <1>9, SendsFamily
<1> QED BY <1>1, <1>2, <1>3, <1>4, <1>5, <1>6, <1>7, <1>8, <1>9 DEF Next

\* If INIT only waits for its children and nobody signals it, families, the call
\* stack and the replies PM owes stay in order.
THEOREM FamilyInvariantHolds ==
    ASSUME InitOnlyWaits
    PROVE  Spec => [](PmInv /\ FamilyInv)
<1>1. Init => PmInv /\ FamilyInv
  BY InitInvariant, InitFamily
<1>2. PmInv /\ FamilyInv /\ [Next]_vars => PmInv' /\ FamilyInv'
  BY NextInvariant, NextFamily
<1> QED BY <1>1, <1>2, PTL DEF Spec

-----------------------------------------------------------------------------
(***************************************************************************)
(* What follows from it.                                                   *)
(***************************************************************************)

\* The panics of the functions on the stack.
LEMMA StackPanics ==
    ASSUME PmInv, FamilyInv
    PROVE  /\ ~(Top("sig_proc") /\ ~Alive(rmp))
           /\ ~(Top("exit_proc") /\ (Is(rmp, "VFS_CALL") \/ rmp = INIT_PROC_NR))
           /\ ~(Top("check_parent") /\ wait_test(parent[rmp], rmp) /\ ~MayTell(rmp))
           /\ ~(Top("ksig_end") /\ Is(rmp, "DELAY_CALL"))
<1>1. ASSUME Top("sig_proc") PROVE Alive(rmp)
  BY <1>1, TopCalled DEF CalledInv
<1>2. ASSUME Top("exit_proc") PROVE ~Is(rmp, "VFS_CALL") /\ rmp # INIT_PROC_NR
  BY <1>2, TopCalled DEF CalledInv
<1>3. ASSUME Top("check_parent") PROVE MayTell(rmp)
  <2>1. rmp \in Proc /\ Is(rmp, "ZOMBIE")
    BY <1>3, TopCalled DEF CalledInv
  <2>2. DeadInv(rmp)
    BY <2>1 DEF FamilyInv
  <2> QED BY <2>1, <2>2 DEF DeadInv, MayTell
<1>4. ASSUME Top("ksig_end") PROVE ~Is(rmp, "DELAY_CALL")
  BY <1>4, TopCalled DEF CalledInv
<1> QED BY <1>1, <1>2, <1>3, <1>4

\* The panics on receiving a message.
LEMMA RestPanics ==
    ASSUME PmInv, FamilyInv, Rest
    PROVE  /\ \A r \in vfs : VfsIdle(r.p) /\ ~(r.typ = "PM_DUMPCORE" /\ Is(r.p, "ZOMBIE"))
           /\ \A p \in Proc : Alive(p) =>
                /\ ~BadDelayState(p)
                /\ ~(kstate[p] = "sending" /\ call[p].typ = "setuid" /\ Is(p, "VFS_CALL"))
<1>0. VarTypes
  BY TypesSplit DEF PmInv
<1>1. \A q : ~Dying(q) /\ ~Resuming(q)
  BY AtRest DEF Rest
<1>2. ASSUME NEW r \in vfs
      PROVE  VfsIdle(r.p) /\ ~(r.typ = "PM_DUMPCORE" /\ Is(r.p, "ZOMBIE"))
  <2>1. PICK p \in Proc : p = r.p
    BY <1>0, <1>2 DEF VarTypes
  <2>2. VfsInv(p) /\ LifeInv(p) /\ StopInv(p) /\ DeadInv(p)
    BY DEF PmInv, ProcInv, FamilyInv
  <2>3. Is(p, "VFS_CALL") /\ Is(p, "IN_USE")
    <3>1. Is(p, "VFS_CALL")
      BY <2>1, <2>2 DEF VfsInv
    <3> QED BY <2>2, <3>1 DEF LifeInv, Is
  <2>4. CASE Is(p, "EXITING")
    <3>1. ~Is(p, "UNPAUSED")
      BY <2>2, <2>4 DEF DeadInv, Is
    <3> QED BY <2>1, <2>2, <2>3, <3>1 DEF VfsIdle, DeadInv
  <2>5. CASE ~Is(p, "EXITING")
    <3>1. Alive(p)
      BY <2>3, <2>5 DEF Alive, Is
    <3>2. ~Is(p, "UNPAUSED")
      BY <1>1, <2>2, <2>3, <3>1 DEF StopInv
    <3>3. r.typ # "PM_DUMPCORE"
      BY <2>1, <2>2, <2>5 DEF VfsInv
    <3> QED BY <2>1, <2>3, <3>2, <3>3 DEF VfsIdle
  <2> QED BY <2>4, <2>5
<1>3. ASSUME NEW p \in Proc, Alive(p)
      PROVE  /\ ~BadDelayState(p)
             /\ ~(kstate[p] = "sending" /\ call[p].typ = "setuid" /\ Is(p, "VFS_CALL"))
  <2>1. ~BadDelayState(p)
    <3>1. StopInv(p)
      BY DEF PmInv, ProcInv
    <3> QED BY <1>1, <1>3, <3>1 DEF StopInv, BadDelayState
  <2>2. CASE p = INIT_PROC_NR
    <3>1. ~Is(p, "VFS_CALL")
      BY <2>2 DEF FamilyInv, InitInv, Is
    <3> QED BY <2>1, <3>1
  <2>3. CASE p # INIT_PROC_NR
    <3>1. OwedInv(p)
      BY <1>3, <2>3 DEF FamilyInv
    <3> QED BY <2>1, <3>1 DEF OwedInv
  <2> QED BY <2>2, <2>3
<1> QED BY <1>2, <1>3

\* None of the panics over the state of a process that Panics lists is reached,
\* however many processes there are, whatever they call and in whatever order VFS
\* answers, and INIT does not die.
THEOREM PmNeverPanics ==
    ASSUME InitOnlyWaits
    PROVE  Spec => []NeverPanics
<1>1. PmInv /\ FamilyInv => NeverPanics
  <2> SUFFICES ASSUME PmInv, FamilyInv PROVE ~Panics
    BY DEF NeverPanics
  <2> QED BY StackPanics, RestPanics DEF Panics
<1> QED BY <1>1, FamilyInvariantHolds, PTL

\* sendreply and setreply: every user process that is sent a reply waits in a call
\* to PM, so the EINTR of sig_send, the answer of tell_parent and the result of
\* the call never meet.
THEOREM RepliesAreAwaited ==
    ASSUME InitOnlyWaits
    PROVE  Spec => []RepliesAwaited
<1>1. PmInv /\ FamilyInv => RepliesAwaited
  <2> SUFFICES ASSUME FamilyInv, NEW p \in ToAnswer \ {INIT_PROC_NR} PROVE AwaitsPm(p)
    BY DEF RepliesAwaited
  <2>1. p \in Proc \ {INIT_PROC_NR} /\ Alive(p) /\ Is(p, "REPLY")
    BY DEF ToAnswer
  <2>2. OwedInv(p)
    BY <2>1 DEF FamilyInv
  <2> QED BY <2>1, <2>2 DEF OwedInv
<1> QED BY <1>1, FamilyInvariantHolds, PTL

\* wait_test, check_parent and the loop of exit_proc over the children: between
\* messages every process has a live parent, which does not hang in waitpid for a
\* child that is a zombie.
THEOREM NoChildIsMissed ==
    ASSUME InitOnlyWaits
    PROVE  Spec => []NoMissedChild
<1>1. PmInv /\ FamilyInv => NoMissedChild
  <2> SUFFICES ASSUME PmInv, FamilyInv, Rest, NEW c \in InUse
               PROVE  Alive(parent[c]) /\ (Is(c, "ZOMBIE") => ~wait_test(parent[c], c))
    BY DEF NoMissedChild
  <2>1. c \in Proc /\ Is(c, "IN_USE")
    BY DEF InUse, Is
  <2> QED BY <2>1, RestKnown DEF Rest
<1> QED BY <1>1, FamilyInvariantHolds, PTL

\* Only unpause posts CS_EINTR.
LEMMA InterruptPosted ==
    ASSUME PmInv, FamilyInv, InterruptFollowsRequest, [Next]_vars
    PROVE  InterruptFollowsRequest'
<1>1. CASE post' = NoPost
  BY <1>1 DEF InterruptFollowsRequest, NoPost
<1>2. CASE UNCHANGED vars
  BY <1>2 DEF InterruptFollowsRequest, vars, Alive
<1>3. CASE exit_proc
  <2>1. post'.typ = "CS_EXIT"
    BY <1>3 DEF exit_proc, tell_cv
  <2> QED BY <2>1 DEF InterruptFollowsRequest
<1>4. CASE UnpauseByVfs
  <2>1. Caught /\ Top("sig_proc") /\ Alive(rmp) /\ ~Busy(rmp) /\ kstate' = kstate
    BY <1>4 DEF UnpauseByVfs, Caught, Considered, kernel
  <2>2. PICK p \in Proc : p = rmp /\ p # INIT_PROC_NR /\ VarTypes
    BY <2>1, TopOf, SignalledNotInit
  <2>3. /\ flags' = [flags EXCEPT ![p] = @ \cup {"PM_SIG_PENDING", "VFS_CALL"}]
        /\ stop' = [stop EXCEPT ![p] = TRUE]
        /\ post' = [typ |-> "CS_EINTR", p |-> p]
    BY <1>4, <2>2 DEF UnpauseByVfs, tell_cv
  <2>4. Alive(p)' /\ stop'[p]
    <3>1. flags'[p] = flags[p] \cup {"PM_SIG_PENDING", "VFS_CALL"} /\ stop'[p]
      BY <2>2, <2>3 DEF VarTypes
    <3> QED BY <2>1, <2>2, <3>1 DEF Alive
  <2>5. kstate[p] # "sending"
    <3>1. OwedInv(p)
      BY <2>1, <2>2 DEF FamilyInv
    <3> QED BY <2>1, <2>2, <3>1 DEF Busy, OwedInv
  <2>6. post'.p = p
    BY <2>3
  <2>7. Alive(post.p)'
    BY <2>4, <2>6 DEF Alive
  <2> QED BY <2>1, <2>4, <2>5, <2>6, <2>7 DEF InterruptFollowsRequest
<1>5. CASE PmStep
  <2>1. \/ exit_proc \/ UnpauseByVfs \/ post' = NoPost
    BY <1>5 DEF PmStep, SigDuringVfsCall, SigBlocked, SigIgnored, SigFatal, UnpauseLater, UnpauseBusy,
         sig_send, check_sig, check_pending, restart_sigs, restart_sigs_end, disinherit, check_parent,
         exit_restart_end, setreply, fork_failed, kill_result, sendreply, ksig_end, sys_endksig,
         OnlyControl, OnlyFlags
  <2> QED BY <1>1, <1>3, <1>4, <2>1
<1>6. ASSUME NEW p \in Proc, PmCall(p) PROVE post' = NoPost
  BY <1>6 DEF PmCall, DropCall, do_pause, do_sigsuspend, do_sigprocmask_block, do_sigprocmask_set,
         do_sigaction, do_kill, do_exit, WaitCollects, WaitHangs, WaitRefused, do_fork, ForkRefused,
         do_setuid, Receives
<1>7. ASSUME NEW p \in Proc, handle_vfs_reply(p) PROVE post' = NoPost
  BY <1>7 DEF handle_vfs_reply, SetuidReply, UnpauseReply, ExitReply, CoreReply, ForkReply, VfsReply
<1>8. ASSUME NEW p \in Proc,
             \/ SignalSendDelay(p) \/ ServerReceives(p) \/ ServerAnswers(p)
             \/ \E s \in KernelSigs : KernelSignal(p, s)
             \/ \E c \in Calls[p] : Sends(p, c)
      PROVE  post' = NoPost
  BY <1>8 DEF SignalSendDelay, ServerReceives, ServerAnswers, KernelSignal, Sends
<1> QED BY <1>1, <1>2, <1>5, <1>6, <1>7, <1>8 DEF Next

\* unpause and tell_cv: when CS_EINTR is posted the process is alive, stopped, and
\* no request of it is on its way that the message could overtake.
THEOREM InterruptsFollowRequests ==
    ASSUME InitOnlyWaits
    PROVE  Spec => []InterruptFollowsRequest
<1>1. Init => InterruptFollowsRequest
  BY DEF Init, InterruptFollowsRequest, NoPost
<1>2. PmInv /\ FamilyInv /\ InterruptFollowsRequest /\ [Next]_vars => InterruptFollowsRequest'
  BY InterruptPosted
<1> QED BY <1>1, <1>2, FamilyInvariantHolds, PTL DEF Spec

-----------------------------------------------------------------------------
(***************************************************************************)
(* What a parent hears of its children.                                    *)
(***************************************************************************)

\* Nobody leaves its parent's sight.
NoNews == \A d \in Proc : Reported(d)' => Reported(d)

\* Slots are freed after the parent has been told, nobody is told of, and only a
\* fork makes a process known.
LEMMA NoNewsWhen ==
    ASSUME \A d \in Proc : Is(d, "IN_USE") => Is(d, "IN_USE")' \/ Is(d, "TOLD_PARENT"),
           \A d \in Proc : Is(d, "TOLD_PARENT")' => Is(d, "TOLD_PARENT"),
           \A d \in Proc : kstate[d] = "none" =>
             kstate'[d] = "none" \/ (Is(d, "IN_USE")' /\ ~Is(d, "TOLD_PARENT")')
    PROVE  NoNews
<1> SUFFICES ASSUME NEW d \in Proc, Reported(d)' PROVE Reported(d)
  BY DEF NoNews
<1>1. kstate'[d] # "none" /\ (~Is(d, "IN_USE")' \/ Is(d, "TOLD_PARENT")')
  BY DEF Reported, InUse, Is
<1>2. kstate[d] # "none" /\ (~Is(d, "IN_USE") \/ Is(d, "TOLD_PARENT"))
  BY <1>1
<1> QED BY <1>2 DEF Reported, InUse, Is

\* A step that changes the flags of x only.
LEMMA NoNewsOne ==
    ASSUME VarTypes, NEW x \in Proc, NEW F, flags' = [flags EXCEPT ![x] = F],
           "IN_USE" \in flags[x] => "IN_USE" \in F \/ "TOLD_PARENT" \in flags[x],
           "TOLD_PARENT" \in F => "TOLD_PARENT" \in flags[x],
           \A d \in Proc : kstate[d] = "none" => kstate'[d] = "none"
    PROVE  NoNews
<1>1. flags'[x] = F /\ \A d \in Proc \ {x} : flags'[d] = flags[d]
  BY DEF VarTypes
<1>2. \A d \in Proc : Is(d, "IN_USE") => Is(d, "IN_USE")' \/ Is(d, "TOLD_PARENT")
  BY <1>1 DEF Is
<1>3. \A d \in Proc : Is(d, "TOLD_PARENT")' => Is(d, "TOLD_PARENT")
  BY <1>1 DEF Is
<1> QED BY <1>2, <1>3, NoNewsWhen

LEMMA NoNewsSame ==
    ASSUME flags' = flags, \A d \in Proc : kstate[d] = "none" => kstate'[d] = "none"
    PROVE  NoNews
BY DEF NoNews, Reported, InUse, Is

\* PM's functions, check_parent apart.
LEMMA PmStepNews ==
    ASSUME PmInv, PmStep, ~check_parent
    PROVE  NoNews
<1>0. VarTypes
  BY TypesSplit DEF PmInv
<1>1. PICK op : Top(op)
  BY DEF PmStep, SigDuringVfsCall, SigBlocked, SigIgnored, SigFatal, UnpauseLater, UnpauseBusy,
         UnpauseByVfs, sig_send, Caught, Considered, check_sig, check_pending, restart_sigs,
         restart_sigs_end, exit_proc, disinherit, exit_restart_end, setreply, fork_failed,
         kill_result, sendreply, ksig_end, sys_endksig
<1>2. PICK p \in Proc : p = rmp
  BY <1>1, TopOf
<1>3. \A d \in Proc : kstate[d] = "none" => kstate'[d] = "none"
  <2>1. CASE sendreply
    BY <2>1 DEF sendreply, AwaitsPm
  <2>2. CASE ~sendreply
    <3>1. kstate' = kstate
      BY <2>2 DEF PmStep, SigDuringVfsCall, SigBlocked, SigIgnored, SigFatal, UnpauseLater, UnpauseBusy,
         UnpauseByVfs, sig_send, check_sig, check_pending, restart_sigs,
         restart_sigs_end, exit_proc, disinherit, exit_restart_end, setreply, fork_failed,
         kill_result, ksig_end, sys_endksig, OnlyControl, OnlyFlags, kernel
    <3> QED BY <3>1
  <2> QED BY <2>1, <2>2
<1>4. CASE \/ SigBlocked \/ SigIgnored \/ SigFatal \/ UnpauseLater \/ check_sig \/ check_pending
           \/ restart_sigs \/ disinherit \/ ksig_end \/ sys_endksig
  <2>1. flags' = flags
    BY <1>4 DEF SigBlocked, SigIgnored, SigFatal, UnpauseLater, check_sig, check_pending,
                restart_sigs, disinherit, ksig_end, sys_endksig, OnlyControl
  <2> QED BY <1>3, <2>1, NoNewsSame
<1>5. CASE SigDuringVfsCall \/ UnpauseBusy \/ UnpauseByVfs
  <2>1. PICK S \in SUBSET {"PM_SIG_PENDING", "DELAY_CALL", "VFS_CALL"} :
          flags' = [flags EXCEPT ![p] = flags[p] \cup S]
    <3>1. CASE SigDuringVfsCall
      BY <1>2, <3>1 DEF SigDuringVfsCall
    <3>2. CASE UnpauseBusy
      BY <1>2, <3>2 DEF UnpauseBusy
    <3>3. CASE UnpauseByVfs
      BY <1>2, <3>3 DEF UnpauseByVfs
    <3> QED BY <1>5, <3>1, <3>2, <3>3
  <2>2. PICK F : F = flags[p] \cup S
    OBVIOUS
  <2> QED BY <1>0, <1>3, <2>1, <2>2, NoNewsOne
<1>6. ASSUME NEW ok \in BOOLEAN, sig_send(ok) PROVE NoNews
  <2>1. PICK F : /\ flags' = [flags EXCEPT ![p] = F]
                 /\ F = IF ok THEN FlagsAfterHandler(p) ELSE flags[p] \cup {"UNPAUSED"}
    BY <1>2, <1>6 DEF sig_send
  <2>2. /\ "IN_USE" \in flags[p] => "IN_USE" \in F
        /\ "TOLD_PARENT" \in F => "TOLD_PARENT" \in flags[p]
    <3>1. CASE ok
      BY <2>1, <3>1 DEF FlagsAfterHandler, Hanging
    <3>2. CASE ~ok
      BY <2>1, <3>2
    <3> QED BY <3>1, <3>2
  <2> QED BY <1>0, <1>3, <2>1, <2>2, NoNewsOne
<1>7. CASE restart_sigs_end
  <2>1. CASE flags' = flags
    BY <1>3, <2>1, NoNewsSame
  <2>2. ASSUME flags' = [flags EXCEPT ![p] = flags[p] \ {"PM_SIG_PENDING", "UNPAUSED"}] PROVE NoNews
    <3>1. PICK F : F = flags[p] \ {"PM_SIG_PENDING", "UNPAUSED"}
      OBVIOUS
    <3> QED BY <1>0, <1>3, <2>2, <3>1, NoNewsOne
  <2> QED BY <1>2, <1>7, <2>1, <2>2 DEF restart_sigs_end
<1>8. CASE setreply \/ fork_failed \/ kill_result
  <2>1. flags' = flags \/ \E q \in Proc : flags' = [flags EXCEPT ![q] = flags[q] \cup {"REPLY"}]
    BY <1>0, <1>2, <1>8 DEF setreply, fork_failed, kill_result, VarTypes
  <2>2. ASSUME NEW q \in Proc, flags' = [flags EXCEPT ![q] = flags[q] \cup {"REPLY"}] PROVE NoNews
    <3>1. PICK F : F = flags[q] \cup {"REPLY"}
      OBVIOUS
    <3> QED BY <1>0, <1>3, <2>2, <3>1, NoNewsOne
  <2> QED BY <1>3, <2>1, <2>2, NoNewsSame
<1>9. CASE sendreply
  <2>1. \A q \in Proc : flags'[q] = flags[q] \/ flags'[q] = flags[q] \ {"REPLY"}
    BY <1>9 DEF sendreply, FlagsAfterReplies
  <2>2. \A d \in Proc : \A f \in {"IN_USE", "TOLD_PARENT"} : Is(d, f)' <=> Is(d, f)
    BY <2>1 DEF Is
  <2> QED BY <1>3, <2>2, NoNewsWhen
<1>10. CASE exit_restart_end
  <2>1. CASE flags' = flags
    BY <1>3, <2>1, NoNewsSame
  <2>2. ASSUME Is(p, "TOLD_PARENT"), flags' = [flags EXCEPT ![p] = {}] PROVE NoNews
    <3>1. PICK F : F = {}
      OBVIOUS
    <3> QED BY <1>0, <1>3, <2>2, <3>1, NoNewsOne DEF Is
  <2> QED BY <1>2, <1>10, <2>1, <2>2 DEF exit_restart_end
<1>11. CASE exit_proc
  <2>1. PICK F : /\ flags' = [flags EXCEPT ![p] = F]
                 /\ F = {"IN_USE", "VFS_CALL", "EXITING"} \cup {f \in {"ZOMBIE"} : ~ksig}
    BY <1>2, <1>11 DEF exit_proc
  <2> QED BY <1>0, <1>3, <2>1, NoNewsOne
<1> QED BY <1>4, <1>5, <1>6, <1>7, <1>8, <1>9, <1>10, <1>11 DEF PmStep

\* The requests PM receives, waitpid for a zombie apart.
LEMMA PmCallNews ==
    ASSUME PmInv, NEW p \in Proc, PmCall(p), ~WaitCollects(p)
    PROVE  NoNews
<1>0. VarTypes
  BY TypesSplit DEF PmInv
<1>1. CASE do_fork(p)
  <2>1. PICK c, F :
          /\ c \in Proc /\ kstate[c] = "none" /\ flags' = [flags EXCEPT ![c] = F]
          /\ F = (flags[p] \cap {"IN_USE", "DELAY_CALL"}) \cup {"VFS_CALL"}
          /\ kstate' = [kstate EXCEPT ![p] = "receiving", ![c] = "receiving"]
    BY <1>1 DEF do_fork
  <2>2. Alive(p) /\ kstate[p] = "sending"
    BY <1>1 DEF do_fork, Receives
  <2>3. flags'[c] = F /\ \A d \in Proc \ {c} : flags'[d] = flags[d]
    BY <1>0, <2>1 DEF VarTypes
  <2>4. "IN_USE" \in F /\ "TOLD_PARENT" \notin F
    BY <2>1, <2>2 DEF Alive
  <2>5. \A d \in Proc \ {c} : kstate[d] = "none" => kstate'[d] = "none"
    BY <1>0, <2>1, <2>2 DEF VarTypes
  <2>6. \A d \in Proc : Is(d, "IN_USE") => Is(d, "IN_USE")' \/ Is(d, "TOLD_PARENT")
    BY <2>3, <2>4 DEF Is
  <2>7. \A d \in Proc : Is(d, "TOLD_PARENT")' => Is(d, "TOLD_PARENT")
    BY <2>3, <2>4 DEF Is
  <2>8. Is(c, "IN_USE")' /\ ~Is(c, "TOLD_PARENT")'
    BY <2>3, <2>4 DEF Is
  <2> QED BY <2>5, <2>6, <2>7, <2>8, NoNewsWhen
<1>2. CASE ~do_fork(p)
  <2>1. Received(p) /\ kstate[p] = "sending"
    BY <1>2 DEF PmCall, DropCall, do_pause, do_sigsuspend, do_sigprocmask_block, do_sigprocmask_set,
           do_sigaction, do_kill, do_exit, WaitHangs, WaitRefused, ForkRefused, do_setuid, Receives
  <2>2. \A d \in Proc : kstate[d] = "none" => kstate'[d] = "none"
    BY <1>0, <2>1 DEF Received, VarTypes
  <2>3. \/ flags' = flags
        \/ \E f \in {"PAUSED", "SIGSUSPENDED", "WAITING", "VFS_CALL"} :
              flags' = [flags EXCEPT ![p] = flags[p] \cup {f}]
    BY <1>2 DEF PmCall, DropCall, do_pause, do_sigsuspend, do_sigprocmask_block,
           do_sigprocmask_set, do_sigaction, do_kill, do_exit, WaitHangs, WaitRefused,
           ForkRefused, do_setuid
  <2>4. ASSUME NEW f \in {"PAUSED", "SIGSUSPENDED", "WAITING", "VFS_CALL"},
               flags' = [flags EXCEPT ![p] = flags[p] \cup {f}]
        PROVE  NoNews
    <3>1. PICK F : F = flags[p] \cup {f}
      OBVIOUS
    <3> QED BY <1>0, <2>2, <2>4, <3>1, NoNewsOne
  <2> QED BY <2>2, <2>3, <2>4, NoNewsSame
<1> QED BY <1>1, <1>2

\* The replies of VFS, and everything else.
LEMMA OtherStepNews ==
    ASSUME PmInv, NEW p \in Proc,
           \/ handle_vfs_reply(p)
           \/ SignalSendDelay(p) \/ ServerReceives(p) \/ ServerAnswers(p)
           \/ \E s \in KernelSigs : KernelSignal(p, s)
           \/ \E c \in Calls[p] : Sends(p, c)
    PROVE  NoNews
<1>0. VarTypes
  BY TypesSplit DEF PmInv
<1>1. CASE handle_vfs_reply(p)
  <2>1. PICK typ : VfsReply(typ, p)
    BY <1>1 DEF handle_vfs_reply, SetuidReply, UnpauseReply, ExitReply, CoreReply, ForkReply
  <2>2. kstate[p] # "none"
    BY <2>1, VfsAnswered
  <2>3. \A d \in Proc : kstate[d] = "none" => kstate'[d] = "none"
    BY <1>0, <1>1, <2>2 DEF handle_vfs_reply, SetuidReply, UnpauseReply, ExitReply, CoreReply,
       ForkReply, Cleared, kernel, VarTypes
  <2>4. ASSUME NEW ok \in BOOLEAN, ForkReply(p, ok) PROVE NoNews
    <3>1. \A q \in Proc : flags'[q] = (flags[q] \ {f \in {"VFS_CALL"} : q = p})
                                        \cup {f \in {"REPLY"} : ok /\ q \in {p, parent[p]}}
      BY <2>4 DEF ForkReply
    <3>2. \A d \in Proc : \A f \in {"IN_USE", "TOLD_PARENT"} : Is(d, f)' <=> Is(d, f)
      BY <3>1 DEF Is
    <3> QED BY <2>3, <3>2, NoNewsWhen
  <2>5. CASE SetuidReply(p) \/ UnpauseReply(p) \/ ExitReply(p) \/ CoreReply(p)
    <3>1. PICK S \in SUBSET {"REPLY", "UNPAUSED", "ZOMBIE"} :
            flags' = [flags EXCEPT ![p] = (flags[p] \ {"VFS_CALL"}) \cup S]
      <4>1. CASE SetuidReply(p)
        BY <4>1 DEF SetuidReply
      <4>2. CASE UnpauseReply(p)
        BY <4>2 DEF UnpauseReply
      <4>3. CASE ExitReply(p)
        <5>1. (flags[p] \ {"VFS_CALL"}) \cup {} = flags[p] \ {"VFS_CALL"}
          OBVIOUS
        <5> QED BY <4>3, <5>1 DEF ExitReply
      <4>4. CASE CoreReply(p)
        BY <4>4 DEF CoreReply
      <4> QED BY <2>5, <4>1, <4>2, <4>3, <4>4
    <3>2. PICK F : F = (flags[p] \ {"VFS_CALL"}) \cup S
      OBVIOUS
    <3> QED BY <1>0, <2>3, <3>1, <3>2, NoNewsOne
  <2> QED BY <1>1, <2>4, <2>5 DEF handle_vfs_reply
<1>2. CASE SignalSendDelay(p)
  <2>1. kstate' = kstate /\ (flags' = flags \/ flags' = [flags EXCEPT ![p] = flags[p] \ {"DELAY_CALL"}])
    BY <1>2 DEF SignalSendDelay, kernel
  <2>2. PICK F : F = flags[p] \ {"DELAY_CALL"}
    OBVIOUS
  <2> QED BY <1>0, <2>1, <2>2, NoNewsOne, NoNewsSame
<1>3. CASE \/ ServerReceives(p) \/ ServerAnswers(p) \/ \E s \in KernelSigs : KernelSignal(p, s)
           \/ \E c \in Calls[p] : Sends(p, c)
  <2>1. flags' = flags
    BY <1>3 DEF ServerReceives, ServerAnswers, KernelSignal, Sends
  <2>2. \A d \in Proc : kstate[d] = "none" => kstate'[d] = "none"
    BY <1>0, <1>3 DEF ServerReceives, ServerAnswers, KernelSignal, Sends, Received, Runs, kernel, VarTypes
  <2> QED BY <2>1, <2>2, NoNewsSame
<1> QED BY <1>1, <1>2, <1>3

\* What ParentHearsOnce says of a step about child c.
HeardOnce(c) ==
    kstate[c] # "none" /\ ~Reported(c) /\ Reported(c)' =>
        /\ Is(c, "ZOMBIE")
        /\ Is(parent[c], "REPLY")'
        /\ call[parent[c]].typ = "waitpid" /\ right_child(parent[c], c)
        /\ parent[c] # INIT_PROC_NR => ~Is(parent[c], "REPLY")
        /\ \A d \in Proc : Reported(d)' => Reported(d) \/ d = c

LEMMA NothingHeard == NoNews => \A c \in Proc : HeardOnce(c)
BY DEF NoNews, HeardOnce

\* tell_parent for child c, whose parent asked for it.
LEMMA TellingHeard ==
    ASSUME PmInv, FamilyInv, NEW c \in Proc, Is(c, "ZOMBIE"), NEW p \in Proc, p = parent[c], Alive(p),
           NEW clean, flags' = FlagsAfterTelling(c, clean), parent' = parent,
           \A d \in Proc : kstate[d] = "none" => kstate'[d] = "none",
           call[p].typ = "waitpid", right_child(p, c), p # INIT_PROC_NR => ~Is(p, "REPLY")
    PROVE  \A x \in Proc : HeardOnce(x)
<1>0. VarTypes
  BY TypesSplit DEF PmInv
<1>1. p # c
  BY ZombieKnown
<1>2. /\ flags'[p] = (flags[p] \ {"WAITING"}) \cup {"REPLY"}
      /\ \A d \in Proc \ {p, c} : flags'[d] = flags[d]
  BY <1>0, <1>1 DEF FlagsAfterTelling, VarTypes
<1>3. ~Is(p, "TOLD_PARENT")' /\ Is(p, "IN_USE")' /\ Is(p, "REPLY")'
  <2>1. ~Is(p, "TOLD_PARENT") /\ Is(p, "IN_USE")
    BY AliveKnown DEF PmInv, ProcInv
  <2> QED BY <1>2, <2>1 DEF Is
<1>4. ASSUME NEW d \in Proc, Reported(d)' PROVE Reported(d) \/ d = c
  <2>1. CASE d = p
    BY <1>3, <1>4, <2>1 DEF Reported, InUse, Is
  <2>2. CASE d \notin {p, c}
    BY <1>2, <1>4, <2>2 DEF Reported, InUse, Is
  <2> QED BY <2>1, <2>2
<1>5. ASSUME NEW x \in Proc PROVE HeardOnce(x)
  <2>1. CASE x = c
    BY <1>3, <1>4, <2>1 DEF HeardOnce, Is
  <2>2. CASE x # c
    BY <1>4, <2>2 DEF HeardOnce
  <2> QED BY <2>1, <2>2
<1> QED BY <1>5

LEMMA CheckParentHeard ==
    ASSUME PmInv, FamilyInv, check_parent
    PROVE  \A x \in Proc : HeardOnce(x)
<1>0. Top("check_parent") /\ kstate' = kstate /\ parent' = parent
  BY DEF check_parent, OnlyFlags, kernel, table
<1>1. PICK c \in Proc : c = rmp /\ VarTypes
  BY <1>0, TopOf
<1>2. PICK p \in Proc : p = parent[c]
  BY <1>1 DEF VarTypes
<1>3. CASE flags' = flags
  BY <1>0, <1>3, NoNewsSame, NothingHeard
<1>4. ASSUME wait_test(p, c), MayTell(c), ~Is(p, "EXITING"), NEW clean, flags' = FlagsAfterTelling(c, clean)
      PROVE  \A x \in Proc : HeardOnce(x)
  <2>1. Is(c, "ZOMBIE") /\ Is(p, "WAITING") /\ right_child(p, c)
    BY <1>4 DEF MayTell, wait_test
  <2>2. Alive(p)
    BY <1>2, <1>4, <2>1, ParentAlive, ZombieKnown
  <2>3. CASE p = INIT_PROC_NR
    <3>1. call[p].typ = "waitpid"
      BY <2>1, <2>3 DEF FamilyInv, InitInv
    <3> QED BY <1>0, <1>2, <1>4, <2>1, <2>2, <2>3, <3>1, TellingHeard
  <2>4. CASE p # INIT_PROC_NR
    <3>1. OwedInv(p)
      BY <2>2, <2>4 DEF FamilyInv
    <3>2. HangsInPm(p)
      BY <2>1 DEF HangsInPm, Hanging, Is
    <3>3. call[p].typ = "waitpid" /\ ~Is(p, "REPLY")
      BY <2>1, <3>1, <3>2 DEF OwedInv
    <3> QED BY <1>0, <1>2, <1>4, <2>1, <2>2, <3>3, TellingHeard
  <2> QED BY <2>3, <2>4
<1> QED BY <1>1, <1>2, <1>3, <1>4 DEF check_parent

LEMMA WaitCollectsHeard ==
    ASSUME PmInv, FamilyInv, NEW p \in Proc, WaitCollects(p)
    PROVE  \A x \in Proc : HeardOnce(x)
<1>0. Receives(p, "waitpid") /\ Received(p) /\ kstate[p] = "sending" /\ parent' = parent
  BY DEF WaitCollects, Receives, table
<1>1. /\ VarTypes /\ Alive(p) /\ call[p].typ = "waitpid"
      /\ p # INIT_PROC_NR => ~Is(p, "REPLY")
  BY <1>0, CallerKnown
<1>2. PICK c \in Proc : /\ parent[c] = p /\ right_child(p, c) /\ Is(c, "ZOMBIE")
                        /\ flags' = FlagsAfterTelling(c, ~Is(c, "VFS_CALL"))
  BY DEF WaitCollects, Children, InUse
<1>3. \A d \in Proc : kstate[d] = "none" => kstate'[d] = "none"
  BY <1>0, <1>1 DEF Received, VarTypes
<1>4. PICK clean : clean = ~Is(c, "VFS_CALL")
  OBVIOUS
<1> QED BY <1>0, <1>1, <1>2, <1>3, <1>4, TellingHeard

\* wait_test, tell_parent, cleanup and the end of exit_restart: a child leaves its
\* parent's sight once, as a zombie, when the parent gets the reply to a waitpid
\* that asked for it, and no other child does in the same step.
THEOREM ParentIsToldOnce ==
    ASSUME InitOnlyWaits
    PROVE  Spec => ParentHearsOnce
<1>1. PmInv /\ FamilyInv /\ [Next]_vars => [\A c \in Proc : HeardOnce(c)]_vars
  <2> SUFFICES ASSUME PmInv, FamilyInv, Next PROVE \A c \in Proc : HeardOnce(c)
    OBVIOUS
  <2>1. CASE PmStep
    BY <2>1, PmStepNews, NothingHeard, CheckParentHeard
  <2>2. ASSUME NEW p \in Proc, PmCall(p) PROVE \A c \in Proc : HeardOnce(c)
    BY <2>2, PmCallNews, NothingHeard, WaitCollectsHeard
  <2>3. ASSUME NEW p \in Proc,
               \/ handle_vfs_reply(p)
               \/ SignalSendDelay(p) \/ ServerReceives(p) \/ ServerAnswers(p)
               \/ \E s \in KernelSigs : KernelSignal(p, s)
               \/ \E c \in Calls[p] : Sends(p, c)
        PROVE  \A c \in Proc : HeardOnce(c)
    BY <2>3, OtherStepNews, NothingHeard
  <2> QED BY <2>1, <2>2, <2>3 DEF Next
<1> QED BY <1>1, FamilyInvariantHolds, PTL DEF Spec, ParentHearsOnce, HeardOnce

=============================================================================
