------------------------------ MODULE PmProofs ------------------------------
(***************************************************************************)
(* Proofs about Pm, for any processes, signals and requests.  PmInv is     *)
(* shown to be inductive; the theorems at the end read off what it         *)
(* implies.                                                                *)
(*                                                                         *)
(* A step executes one function of PM's stack, or starts on a message, or  *)
(* is a step of the kernel.  It matters to one process at most (StepKeeps):*)
(* the others only see flags change that PmInv does not speak of.          *)
(***************************************************************************)
EXTENDS Pm, TLAPS, WellFoundedInduction, SequenceTheorems, FiniteSetTheorems

-----------------------------------------------------------------------------
(***************************************************************************)
(* The stack.                                                              *)
(***************************************************************************)

\* The sequences PM pushes have at most four frames.
LEMMA ShortSeqs ==
    ASSUME NEW S, NEW f \in S, NEW g \in S, NEW h \in S, NEW i \in S
    PROVE  /\ <<>> \in Seq(S) /\ <<f>> \in Seq(S) /\ <<f, g>> \in Seq(S) /\ <<f, g, h>> \in Seq(S)
           /\ <<f, g, h, i>> \in Seq(S)
OBVIOUS

\* The frames PM pushes have the type of frames.
LEMMA FrameTypes ==
    ASSUME NEW p \in Proc, NEW s \in Signal \cup {0}, NEW k \in BOOLEAN, NEW S \in SUBSET Proc
    PROVE  /\ s # 0 => sig_procFrame(p, s, k) \in StackFrame
           /\ s # 0 => check_sigFrame(S, s, k) \in StackFrame
           /\ check_pendingFrame(p, s) \in StackFrame
           /\ exit_procFrame(p, k) \in StackFrame
           /\ check_parentFrame(p, k) \in StackFrame
           /\ \A op \in Function \ {"sig_proc", "check_sig"} : Then(op, p) \in StackFrame
           /\ Frame("disinherit", p, 0, FALSE, S) \in StackFrame
           /\ Sendreply \in StackFrame
<1>1. ASSUME NEW op \in Function, NEW q \in Proc, NEW t \in Signal \cup {0}, NEW j \in BOOLEAN,
             NEW T \in SUBSET Proc, op \in {"sig_proc", "check_sig"} => t # 0
      PROVE  Frame(op, q, t, j, T) \in StackFrame
  <2>1. Frame(op, q, t, j, T) \in
          [op : Function, p : Proc, s : Signal \cup {0}, k : BOOLEAN, procs : SUBSET Proc]
    BY <1>1 DEF Frame
  <2>2. Frame(op, q, t, j, T).op = op /\ Frame(op, q, t, j, T).s = t
    BY DEF Frame
  <2> QED BY <1>1, <2>1, <2>2 DEF StackFrame
<1>f. /\ "sig_proc" \in Function /\ "check_sig" \in Function /\ "check_pending" \in Function
      /\ "exit_proc" \in Function /\ "check_parent" \in Function /\ "sendreply" \in Function
      /\ "disinherit" \in Function
  BY DEF Function
<1>2. INIT_PROC_NR \in Proc /\ 0 \in Signal \cup {0} /\ {} \in SUBSET Proc
  BY ProcAssumption
<1>3. s # 0 => sig_procFrame(p, s, k) \in StackFrame
  BY <1>1, <1>2, <1>f DEF sig_procFrame
<1>4. s # 0 => check_sigFrame(S, s, k) \in StackFrame
  BY <1>1, <1>2, <1>f DEF check_sigFrame
<1>5. check_pendingFrame(p, s) \in StackFrame
  BY <1>1, <1>2, <1>f DEF check_pendingFrame
<1>6. exit_procFrame(p, k) \in StackFrame
  BY <1>1, <1>2, <1>f DEF exit_procFrame
<1>7. check_parentFrame(p, k) \in StackFrame
  BY <1>1, <1>2, <1>f DEF check_parentFrame
<1>8. \A op \in Function \ {"sig_proc", "check_sig"} : \A q \in Proc : Then(op, q) \in StackFrame
  BY <1>1, <1>2, <1>f DEF Then
<1>9. Sendreply \in StackFrame
  BY <1>2, <1>8, <1>f DEF Sendreply
<1>10. Frame("disinherit", p, 0, FALSE, S) \in StackFrame
  BY <1>1, <1>2, <1>f
<1> QED BY <1>3, <1>4, <1>5, <1>6, <1>7, <1>8, <1>9, <1>10

\* What stays on the stack when the function on top returns.
Below == IF todo = <<>> THEN <<>> ELSE Tail(todo)

\* The function on top returns, or a message is received, and fr is pushed.
Pushes(fr) == fr \in Seq(StackFrame) /\ todo' = fr \o Below

StackShape(fr) ==
    /\ todo' \in Seq(StackFrame)
    /\ Len(fr) \in Nat /\ Len(todo) \in Nat /\ Len(todo') \in Nat
    /\ Len(todo') = Len(fr) + (IF todo = <<>> THEN 0 ELSE Len(todo) - 1)
    /\ \A k \in 1 .. Len(todo') :
         \/ k \in 1 .. Len(fr) /\ todo'[k] = fr[k]
         \/ k > Len(fr) /\ k - Len(fr) + 1 \in 2 .. Len(todo) /\ todo'[k] = todo[k - Len(fr) + 1]
    /\ \A k \in 1 .. Len(fr) : k \in 1 .. Len(todo') /\ todo'[k] = fr[k]
    /\ \A j \in 2 .. Len(todo) :
         j - 1 + Len(fr) \in 1 .. Len(todo') /\ todo'[j - 1 + Len(fr)] = todo[j]

LEMMA PushShape ==
    ASSUME todo \in Seq(StackFrame), NEW fr, Pushes(fr)
    PROVE  StackShape(fr)
<1>1. CASE todo = <<>>
  <2>1. fr \in Seq(StackFrame) /\ todo' = fr
    BY <1>1 DEF Pushes, Below
  <2>2. Len(todo) = 0 /\ Len(fr) \in Nat
    BY <1>1, <2>1
  <2> QED BY <1>1, <2>1, <2>2 DEF StackShape
<1>2. CASE todo # <<>>
  <2>1. PICK n \in Nat : n = Len(fr)
    BY DEF Pushes
  <2>2. PICK m \in Nat : m = Len(todo)
    OBVIOUS
  <2>3. m >= 1
    BY <1>2, <2>2
  <2>4. /\ Tail(todo) \in Seq(StackFrame) /\ Len(Tail(todo)) = m - 1
        /\ \A k \in 1 .. m - 1 : Tail(todo)[k] = todo[k + 1]
    BY <1>2, <2>2, <2>3
  <2>5. fr \in Seq(StackFrame) /\ todo' = fr \o Tail(todo)
    BY <1>2 DEF Pushes, Below
  <2>6. todo' \in Seq(StackFrame) /\ Len(todo') = n + m - 1
    <3>1. fr \o Tail(todo) \in Seq(StackFrame) /\ Len(fr \o Tail(todo)) = Len(fr) + Len(Tail(todo))
      BY <2>4, <2>5, ConcatProperties
    <3> QED BY <2>1, <2>3, <2>4, <2>5, <3>1
  <2>7. \A k \in 1 .. n : todo'[k] = fr[k]
    BY <2>1, <2>4, <2>5
  <2>8. \A k \in n + 1 .. n + m - 1 : todo'[k] = todo[k - n + 1]
    <3> SUFFICES ASSUME NEW k \in n + 1 .. n + m - 1 PROVE todo'[k] = todo[k - n + 1]
      OBVIOUS
    <3>1. todo'[k] = Tail(todo)[k - n]
      BY <2>1, <2>3, <2>4, <2>5
    <3>2. k - n \in 1 .. m - 1
      BY <2>3
    <3> QED BY <2>4, <3>1, <3>2
  <2>9. \A k \in 1 .. n + m - 1 :
          \/ k \in 1 .. n /\ todo'[k] = fr[k]
          \/ k > n /\ k - n + 1 \in 2 .. m /\ todo'[k] = todo[k - n + 1]
    BY <2>7, <2>8
  <2>10. \A k \in 1 .. n : k \in 1 .. n + m - 1 /\ todo'[k] = fr[k]
    BY <2>3, <2>7
  <2>11. \A j \in 2 .. m : j - 1 + n \in 1 .. n + m - 1 /\ todo'[j - 1 + n] = todo[j]
    <3> SUFFICES ASSUME NEW j \in 2 .. m
                 PROVE  j - 1 + n \in 1 .. n + m - 1 /\ todo'[j - 1 + n] = todo[j]
      OBVIOUS
    <3>1. j - 1 + n \in n + 1 .. n + m - 1 /\ (j - 1 + n) - n + 1 = j
      OBVIOUS
    <3> QED BY <2>8, <3>1
  <2> QED BY <1>2, <2>1, <2>2, <2>6, <2>9, <2>10, <2>11 DEF StackShape
<1> QED BY <1>1, <1>2

\* The function on top is in the range of its parameters.
LEMMA TopTypes ==
    ASSUME todo \in Seq(StackFrame), todo # <<>>
    PROVE  /\ Head(todo) = todo[1] /\ 1 \in 1 .. Len(todo)
           /\ rmp \in Proc /\ signo \in Signal \cup {0} /\ ksig \in BOOLEAN
           /\ procs \in SUBSET Proc
           /\ Top("sig_proc") \/ Top("check_sig") => signo \in Signal
<1>1. Head(todo) \in StackFrame /\ Head(todo) = todo[1] /\ 1 \in 1 .. Len(todo)
  OBVIOUS
<1> QED BY <1>1 DEF StackFrame, Top, rmp, signo, ksig, procs

\* check_pending's loop finds the lowest signal.
LEMMA LowestFound ==
    ASSUME NEW S \in SUBSET Signal, S # {}
    PROVE  Lowest(S) \in S /\ \A t \in S : Lowest(S) <= t
<1> DEFINE R == {ss \in Nat \X Nat : ss[1] < ss[2]}
<1>1. OpToRel(<, Nat) = R
  BY DEF OpToRel
<1>2. IsWellFoundedOn(R, Nat)
  BY <1>1, NatLessThanWellFounded, Zenon
<1>3. S \subseteq Nat
  BY ProcAssumption
<1> HIDE DEF R
<1>4. PICK s \in S : \A t \in S : ~(<<t, s>> \in R)
  BY <1>2, <1>3, WFMin, Zenon
<1>5. \A t \in S : s <= t
  <2> SUFFICES ASSUME NEW t \in S, ~(s <= t) PROVE FALSE
    OBVIOUS
  <2>1. s \in Nat /\ t \in Nat /\ t < s
    BY <1>3
  <2>2. <<t, s>> \in R
    BY <2>1 DEF R
  <2> QED BY <1>4, <2>2
<1> QED BY <1>5 DEF Lowest

\* A frame that is not on top stays on the stack, one that is pushed is on it.
LEMMA StackKept ==
    ASSUME NEW fr, StackShape(fr), NEW op, NEW q
    PROVE  /\ OnStack(op, q) /\ ~At(1, op, q) => OnStack(op, q)'
           /\ (\E k \in 1 .. Len(fr) : fr[k].op = op /\ fr[k].p = q) => OnStack(op, q)'
<1>1. ASSUME NEW k \in 1 .. Len(todo), At(k, op, q), k # 1 PROVE OnStack(op, q)'
  <2>1. k \in 2 .. Len(todo)
    BY <1>1 DEF StackShape
  <2> DEFINE j == k - 1 + Len(fr)
  <2>2. j \in 1 .. Len(todo') /\ todo'[j] = todo[k]
    BY <2>1 DEF StackShape
  <2> HIDE DEF j
  <2> QED BY <1>1, <2>2 DEF OnStack, At
<1>2. ASSUME NEW k \in 1 .. Len(fr), fr[k].op = op /\ fr[k].p = q PROVE OnStack(op, q)'
  BY <1>2 DEF StackShape, OnStack, At
<1> QED BY <1>1, <1>2 DEF OnStack

-----------------------------------------------------------------------------
(***************************************************************************)
(* Types.                                                                  *)
(***************************************************************************)

\* TypeInv without the stack.
VarTypes ==
    /\ flags \in [Proc -> SUBSET Flag]
    /\ parent \in [Proc -> Proc] /\ pgrp \in [Proc -> Proc]
    /\ pending \in [Proc -> SUBSET Signal] /\ ksigpending \in [Proc -> SUBSET Signal]
    /\ sigmask \in [Proc -> SUBSET Signal] /\ ignore \in [Proc -> SUBSET Signal]
    /\ catch \in [Proc -> SUBSET Signal]
    /\ mpgrp \in Proc \cup {NoGroup}
    /\ vfs \subseteq [typ : {"PM_SETUID", "PM_UNPAUSE", "PM_FORK", "PM_EXIT", "PM_DUMPCORE"},
                      p : Proc]
    /\ post \in [typ : {"none", "CS_EINTR", "CS_EXIT"}, p : Proc]
    /\ kstate \in [Proc -> {"none", "running", "sending", "receiving", "cleared"}]
    /\ stop \in [Proc -> BOOLEAN]
    /\ delay \in [Proc -> {"no", "armed", "raised"}]
    /\ call \in [Proc -> CallType]
    /\ \A p \in Proc : call[p].typ \in NamesSignal => call[p].sig \in Signal

LEMMA TypesSplit == TypeInv => VarTypes /\ todo \in Seq(StackFrame)
<1> SUFFICES ASSUME TypeInv PROVE VarTypes /\ todo \in Seq(StackFrame)
  OBVIOUS
<1>1. \A f \in {pending, ksigpending, sigmask, ignore, catch} : f \in [Proc -> SUBSET Signal]
  BY DEF TypeInv, TypeOK
<1> QED BY <1>1 DEF TypeInv, TypeOK, VarTypes

StackTyped == todo \in Seq(StackFrame)

LEMMA TypesJoin == VarTypes /\ StackTyped => TypeInv
<1> SUFFICES ASSUME VarTypes, todo \in Seq(StackFrame) PROVE TypeInv
  BY DEF StackTyped
<1>1. \A f \in {pending, ksigpending, sigmask, ignore, catch} : f \in [Proc -> SUBSET Signal]
  BY DEF VarTypes
<1>2. \A k \in DOMAIN todo : todo[k] \in StackFrame
  OBVIOUS
<1>3. \A k \in DOMAIN todo : /\ todo[k].p \in Proc /\ todo[k].procs \subseteq Proc
                             /\ todo[k].s \in Signal \cup {0} /\ todo[k].k \in BOOLEAN
  BY <1>2 DEF StackFrame
<1>4. TypeOK
  BY <1>1, <1>3 DEF TypeOK, VarTypes
<1> QED BY <1>4 DEF TypeInv, VarTypes

LEMMA TypesJoinNext == VarTypes' /\ todo' \in Seq(StackFrame) => TypeInv'
<1>1. VarTypes' /\ StackTyped' => TypeInv'
  BY TypesJoin, PTL
<1> QED BY <1>1 DEF StackTyped

-----------------------------------------------------------------------------
(***************************************************************************)
(* Steps.                                                                  *)
(***************************************************************************)
CoreFlag == {"IN_USE", "EXITING", "ZOMBIE", "TOLD_PARENT", "VFS_CALL", "DELAY_CALL",
             "PM_SIG_PENDING", "UNPAUSED"}

\* PmInv sees nothing happen to q, except on the stack.
SameAt(q) ==
    /\ \A f \in CoreFlag : f \in flags'[q] <=> f \in flags[q]
    /\ stop'[q] = stop[q]
    /\ \A s \in {"none", "cleared"} : kstate'[q] = s <=> kstate[q] = s
    /\ \A r \in vfs \cup vfs' : r.p = q => (r \in vfs' <=> r \in vfs)
    /\ delay[q] = "raised" => delay'[q] = "raised"
    /\ delay'[q] = "no" => delay[q] = "no"
    /\ delay'[q] = "raised" => kstate'[q] # "sending"

\* The frames that keep q's part of PmInv are still there.
StaysOnStack(q) ==
    /\ OnStack("exit_restart_end", q) => OnStack("exit_restart_end", q)'
    /\ Alive(q) /\ Is(q, "PM_SIG_PENDING") /\ ~Is(q, "VFS_CALL") /\ Resuming(q) => Resuming(q)'
    /\ Dying(q) => Dying(q)'

LEMMA ProcKept ==
    ASSUME NEW q \in Proc, ProcInv(q), SameAt(q), StaysOnStack(q)
    PROVE  ProcInv(q)'
<1>1. /\ Is(q, "IN_USE")' <=> Is(q, "IN_USE")
      /\ Is(q, "EXITING")' <=> Is(q, "EXITING")
      /\ Is(q, "ZOMBIE")' <=> Is(q, "ZOMBIE")
      /\ Is(q, "TOLD_PARENT")' <=> Is(q, "TOLD_PARENT")
      /\ Is(q, "VFS_CALL")' <=> Is(q, "VFS_CALL")
      /\ Is(q, "DELAY_CALL")' <=> Is(q, "DELAY_CALL")
      /\ Is(q, "PM_SIG_PENDING")' <=> Is(q, "PM_SIG_PENDING")
      /\ Is(q, "UNPAUSED")' <=> Is(q, "UNPAUSED")
  BY DEF SameAt, CoreFlag, Is
<1>2. Alive(q)' <=> Alive(q)
  BY <1>1 DEF Alive, Is
<1>3. VfsInv(q)'
  BY <1>1 DEF VfsInv, ProcInv, SameAt
<1>4. LifeInv(q)'
  <2>1. /\ flags'[q] \cap {"EXITING", "VFS_CALL"} # {} => flags[q] \cap {"EXITING", "VFS_CALL"} # {}
    BY <1>1 DEF Is
  <2> QED BY <1>1, <1>2, <2>1 DEF LifeInv, ProcInv, SameAt, StaysOnStack
<1>5. StopInv(q)'
  BY <1>1, <1>2 DEF StopInv, ProcInv, SameAt, StaysOnStack
<1>6. DelayInv(q)'
  BY <1>1, <1>2 DEF DelayInv, ProcInv, SameAt
<1> QED BY <1>3, <1>4, <1>5, <1>6 DEF ProcInv

\* What a frame that is pushed must meet, in the state after the step: the part
\* of StackInv about it.
FramesFit(fr) ==
    \A k \in 1 .. Len(fr) :
        /\ fr[k].op = "exit_proc" => k = 1 /\ Alive(fr[k].p)'
        /\ fr[k].op = "exit_restart_end" => kstate'[fr[k].p] = "cleared"
        /\ fr[k].op = "check_parent" /\ ~fr[k].k =>
             \/ Is(fr[k].p, "VFS_CALL")'
             \/ \E l \in k + 1 .. Len(fr) :
                   fr[l].op = "exit_restart_end" /\ fr[l].p = fr[k].p
        /\ fr[k].op = "sys_endksig" =>
             /\ todo = <<>> /\ k = Len(fr)
             /\ delay'[fr[k].p] = "raised"
             /\ Alive(fr[k].p)' => ~Is(fr[k].p, "DELAY_CALL")'

\* What a step on a nonempty stack must leave alone at q for the frames below.
KeepsFrames(q) ==
    /\ kstate[q] = "cleared" => kstate'[q] = "cleared"
    /\ Is(q, "VFS_CALL") => Is(q, "VFS_CALL")'
    /\ delay[q] = "raised" => delay'[q] = "raised" \/ At(1, "sys_endksig", q)
    /\ delay[q] = "raised" /\ Alive(q)' /\ Is(q, "DELAY_CALL")' => Alive(q) /\ Is(q, "DELAY_CALL")

\* The part of StackInv about frame f, which is at k.
FrameInv(k, f) ==
    /\ f.op = "exit_proc" => k = 1 /\ Alive(f.p)
    /\ f.op = "exit_restart_end" => kstate[f.p] = "cleared"
    /\ f.op = "check_parent" /\ ~f.k =>
         \/ Is(f.p, "VFS_CALL")
         \/ \E l \in k + 1 .. Len(todo) : At(l, "exit_restart_end", f.p)
    /\ f.op = "sys_endksig" =>
         k = Len(todo) /\ delay[f.p] = "raised" /\ (Alive(f.p) => ~Is(f.p, "DELAY_CALL"))
FrameInvs == \A k \in 1 .. Len(todo) : \A f : f = todo[k] => FrameInv(k, f)

LEMMA StackByFrame == FrameInvs <=> StackInv
BY DEF FrameInvs, FrameInv, StackInv

LEMMA StackByFrameNext == FrameInvs' <=> StackInv'
BY StackByFrame, PTL

\* The stack keeps its invariant.
LEMMA StackStep ==
    ASSUME StackInv, todo \in Seq(StackFrame), NEW fr, Pushes(fr), FramesFit(fr),
           todo # <<>> => \A q \in Proc : KeepsFrames(q)
    PROVE  StackInv'
<1>0. StackShape(fr)
  BY PushShape
<1> SUFFICES ASSUME NEW k \in 1 .. Len(todo'), NEW f, f = todo'[k]
             PROVE  FrameInv(k, f)'
  BY StackByFrameNext DEF FrameInvs
<1>1. ASSUME k \in 1 .. Len(fr), f = fr[k]
      PROVE  FrameInv(k, f)'
  <2>1. ASSUME NEW l \in k + 1 .. Len(fr) PROVE l \in k + 1 .. Len(todo') /\ todo'[l] = fr[l]
    BY <1>0, <1>1 DEF StackShape
  <2>2. todo = <<>> => Len(todo') = Len(fr)
    BY <1>0 DEF StackShape
  <2>3. f.op = "check_parent" /\ ~f.k =>
         \/ Is(f.p, "VFS_CALL")'
         \/ \E l \in k + 1 .. Len(todo') : todo'[l].op = "exit_restart_end" /\ todo'[l].p = f.p
    BY <1>1, <2>1 DEF FramesFit
  <2>4. f.op = "sys_endksig" =>
         k = Len(todo') /\ delay'[f.p] = "raised" /\ (Alive(f.p)' => ~Is(f.p, "DELAY_CALL")')
    BY <1>1, <2>2 DEF FramesFit
  <2>5. (f.op = "exit_proc" => k = 1 /\ Alive(f.p)')
          /\ (f.op = "exit_restart_end" => kstate'[f.p] = "cleared")
    BY <1>1 DEF FramesFit
  <2> QED BY <2>3, <2>4, <2>5 DEF FrameInv, At
<1>2. ASSUME k > Len(fr), k - Len(fr) + 1 \in 2 .. Len(todo), f = todo[k - Len(fr) + 1]
      PROVE  FrameInv(k, f)'
  <2>0. Len(fr) \in Nat /\ Len(todo) \in Nat
    BY <1>0 DEF StackShape
  <2>1. PICK j \in 2 .. Len(todo) : j = k - Len(fr) + 1 /\ f = todo[j]
    BY <1>2
  <2>2. j \in 1 .. Len(todo) /\ j # 1 /\ j \in Nat
    BY <2>0, <2>1
  <2>3. todo # <<>>
    BY <2>0, <2>1
  <2>4. f.p \in Proc
    <3>1. f \in StackFrame
      BY <2>1, <2>2
    <3> QED BY <3>1 DEF StackFrame
  <2>5. KeepsFrames(f.p)
    BY <2>3, <2>4
  <2>6. FrameInv(j, f)
    BY <2>1, <2>2, StackByFrame DEF FrameInvs
  <2>7. ASSUME f.op = "check_parent", ~f.k, ~Is(f.p, "VFS_CALL")'
        PROVE  \E l \in k + 1 .. Len(todo') : todo'[l].op = "exit_restart_end" /\ todo'[l].p = f.p
    <3>1. ~Is(f.p, "VFS_CALL")
      BY <2>5, <2>7 DEF KeepsFrames
    <3>2. PICK i \in j + 1 .. Len(todo) : At(i, "exit_restart_end", f.p)
      BY <2>6, <2>7, <3>1 DEF FrameInv
    <3>3. i \in 2 .. Len(todo) /\ i > j /\ i \in Nat
      BY <2>0, <2>2, <3>2
    <3>4. i - 1 + Len(fr) \in 1 .. Len(todo') /\ todo'[i - 1 + Len(fr)] = todo[i]
      BY <1>0, <3>3 DEF StackShape
    <3>5. PICK l \in 1 .. Len(todo') : l = i - 1 + Len(fr) /\ todo'[l] = todo[i]
      BY <3>4
    <3>6. l \in k + 1 .. Len(todo')
      BY <2>0, <2>1, <2>2, <3>3, <3>5
    <3> QED BY <3>2, <3>5, <3>6 DEF At
  <2>8. ASSUME f.op = "sys_endksig"
        PROVE  k = Len(todo') /\ delay'[f.p] = "raised" /\ (Alive(f.p)' => ~Is(f.p, "DELAY_CALL")')
    <3>1. j = Len(todo) /\ delay[f.p] = "raised" /\ (Alive(f.p) => ~Is(f.p, "DELAY_CALL"))
      BY <2>6, <2>8 DEF FrameInv
    <3>2. k = Len(todo')
      BY <1>0, <2>0, <2>1, <2>2, <2>3, <3>1 DEF StackShape
    <3>3. ~At(1, "sys_endksig", f.p)
      <4>1. 1 \in 1 .. Len(todo) /\ 1 # Len(todo)
        BY <2>0, <2>2, <3>1
      <4> QED BY <4>1 DEF StackInv, At
    <3> QED BY <2>5, <3>1, <3>2, <3>3 DEF KeepsFrames
  <2>9. /\ f.op # "exit_proc"
        /\ f.op = "exit_restart_end" => kstate'[f.p] = "cleared"
    BY <2>2, <2>5, <2>6 DEF FrameInv, KeepsFrames
  <2> QED BY <2>7, <2>8, <2>9 DEF FrameInv, At
<1> QED BY <1>0, <1>1, <1>2 DEF StackShape

\* Functions whose place on the stack PmInv speaks of.
Noted == {"exit_proc", "exit_restart_end", "restart_sigs", "restart_sigs_end", "sys_endksig"}

\* Where PmInv sees nothing, the frames are kept.
LEMMA SameKeepsFrames ==
    ASSUME NEW q, SameAt(q)
    PROVE  KeepsFrames(q)
<1>1. /\ Is(q, "VFS_CALL") => Is(q, "VFS_CALL")'
      /\ Is(q, "DELAY_CALL")' => Is(q, "DELAY_CALL")
      /\ Alive(q)' => Alive(q)
  BY DEF SameAt, CoreFlag, Is, Alive
<1> QED BY <1>1 DEF SameAt, KeepsFrames

\* A function other than those, or of another process, returns: nothing that
\* q's part of PmInv needs leaves the stack.
LEMMA StaysUnlessTop ==
    ASSUME NEW fr, StackShape(fr), NEW q,
           todo # <<>> => todo[1].p # q \/ todo[1].op \notin Noted
    PROVE  StaysOnStack(q)
<1>1. ASSUME NEW op \in Noted PROVE OnStack(op, q) => ~At(1, op, q)
  <2> SUFFICES ASSUME OnStack(op, q), At(1, op, q) PROVE FALSE
    OBVIOUS
  <2>1. todo # <<>>
    BY DEF OnStack, StackShape
  <2> QED BY <2>1 DEF At
<1>2. ASSUME NEW op \in Noted PROVE OnStack(op, q) => OnStack(op, q)'
  BY <1>1, <1>2, StackKept
<1>3. ~Dying(q)
  BY DEF Dying, At, Noted
<1>4. /\ OnStack("exit_restart_end", q) => OnStack("exit_restart_end", q)'
      /\ OnStack("restart_sigs", q) => OnStack("restart_sigs", q)'
      /\ OnStack("restart_sigs_end", q) => OnStack("restart_sigs_end", q)'
  BY <1>2 DEF Noted
<1> QED BY <1>3, <1>4 DEF StaysOnStack, Resuming

\* A step of PM that matters to p: what is left to show is p's part of PmInv
\* and that the frames it pushes fit.
LEMMA StepKeeps ==
    ASSUME PmInv, NEW p \in Proc, NEW fr, Pushes(fr), VarTypes', FramesFit(fr),
           \A q \in Proc \ {p} : SameAt(q),
           todo # <<>> => KeepsFrames(p) /\ (todo[1].p = p \/ todo[1].op \notin Noted),
           ProcInv(p)'
    PROVE  PmInv'
<1>0. TypeInv /\ StackInv /\ todo \in Seq(StackFrame) /\ \A q \in Proc : ProcInv(q)
  BY TypesSplit DEF PmInv
<1>1. StackShape(fr)
  BY <1>0, PushShape
<1>2. TypeInv'
  BY <1>1, TypesJoinNext DEF StackShape
<1>3. todo # <<>> => \A q \in Proc : KeepsFrames(q)
  BY SameKeepsFrames
<1>4. StackInv'
  BY <1>0, <1>3, StackStep
<1>5. ASSUME NEW q \in Proc, q # p PROVE ProcInv(q)'
  <2>1. SameAt(q) /\ ProcInv(q)
    BY <1>0, <1>5
  <2>2. StaysOnStack(q)
    BY <1>1, <1>5, StaysUnlessTop
  <2> QED BY <2>1, <2>2, ProcKept
<1>6. (\A q \in Proc : ProcInv(q))'
  BY <1>5
<1> QED BY <1>2, <1>4, <1>6 DEF PmInv

\* A frame StackInv says nothing about.
Plain(f) ==
    f.op \notin {"exit_proc", "exit_restart_end", "sys_endksig"} /\ (f.op = "check_parent" => f.k)

\* A step of PM in which PmInv sees nothing happen to anybody.
LEMMA CalmKeeps ==
    ASSUME PmInv, NEW fr, Pushes(fr), VarTypes', \A k \in 1 .. Len(fr) : Plain(fr[k]),
           \A q \in Proc : SameAt(q),
           todo # <<>> => todo[1].op \notin Noted
    PROVE  PmInv'
<1>1. INIT_PROC_NR \in Proc
  BY ProcAssumption
<1>2. FramesFit(fr)
  BY DEF FramesFit, Plain
<1>3. KeepsFrames(INIT_PROC_NR)
  BY <1>1, SameKeepsFrames
<1>4. ProcInv(INIT_PROC_NR)'
  <2>1. StackShape(fr) /\ ProcInv(INIT_PROC_NR)
    BY <1>1, PushShape, TypesSplit DEF PmInv
  <2>2. StaysOnStack(INIT_PROC_NR)
    BY <2>1, StaysUnlessTop
  <2> QED BY <1>1, <2>1, <2>2, ProcKept
<1> QED BY <1>1, <1>2, <1>3, <1>4, StepKeeps

\* A step outside PM.
LEMMA OutsideKeeps ==
    ASSUME PmInv, todo' = todo, VarTypes', \A q \in Proc : SameAt(q)
    PROVE  PmInv'
<1>0. TypeInv /\ StackInv /\ todo \in Seq(StackFrame) /\ \A q \in Proc : ProcInv(q)
  BY TypesSplit DEF PmInv
<1>1. TypeInv'
  BY <1>0, TypesJoinNext
<1>2. \A q \in Proc : ProcInv(q)'
  <2>1. \A q \in Proc : StaysOnStack(q)
    BY DEF StaysOnStack, OnStack, Resuming, Dying, At
  <2> QED BY <1>0, <2>1, ProcKept
<1>3. StackInv'
  <2> SUFFICES ASSUME NEW k \in 1 .. Len(todo), NEW f, f = todo[k] PROVE FrameInv(k, f)'
    BY StackByFrameNext DEF FrameInvs
  <2>1. FrameInv(k, f)
    BY <1>0, StackByFrame DEF FrameInvs
  <2>2. f \in StackFrame
    BY <1>0
  <2>3. SameAt(f.p)
    BY <2>2 DEF StackFrame
  <2>4. /\ Is(f.p, "VFS_CALL") => Is(f.p, "VFS_CALL")'
        /\ Is(f.p, "DELAY_CALL")' => Is(f.p, "DELAY_CALL")
        /\ Alive(f.p)' <=> Alive(f.p)
    BY <2>3 DEF SameAt, CoreFlag, Is, Alive
  <2>5. \A l, op : At(l, op, f.p) => At(l, op, f.p)'
    BY DEF At
  <2> QED BY <2>1, <2>3, <2>4, <2>5 DEF FrameInv, SameAt
<1>4. (\A q \in Proc : ProcInv(q))'
  BY <1>2
<1> QED BY <1>1, <1>3, <1>4 DEF PmInv

-----------------------------------------------------------------------------
(***************************************************************************)
(* Steps in which PmInv sees nothing happen.                               *)
(***************************************************************************)

\* The function on top returns.
LEMMA Returning ==
    ASSUME todo \in Seq(StackFrame), NEW op, Top(op), NEW fr \in Seq(StackFrame), Return(fr)
    PROVE  Pushes(fr) /\ todo # <<>> /\ todo[1].op = op /\ todo[1].p = rmp /\ rmp \in Proc
BY TopTypes DEF Top, Return, Pushes, Below, rmp

\* A message is received.
LEMMA Starting ==
    ASSUME todo = <<>>, NEW fr \in Seq(StackFrame), todo' = fr
    PROVE  Pushes(fr)
BY DEF Pushes, Below

LEMMA NoPostType == NoPost \in [typ : {"none", "CS_EINTR", "CS_EXIT"}, p : Proc]
BY ProcAssumption DEF NoPost

\* Flags that PmInv does not speak of.
LEMMA SameWhenQuiet ==
    ASSUME PmInv, UNCHANGED <<vfs, kstate, stop, delay>>,
           \A q \in Proc : \A f \in CoreFlag : f \in flags'[q] <=> f \in flags[q]
    PROVE  \A q \in Proc : SameAt(q)
BY DEF PmInv, ProcInv, DelayInv, SameAt

\* Receiving p's message may raise a SIGSNDELAY.
LEMMA SameWhenReceived ==
    ASSUME PmInv, NEW p \in Proc, kstate[p] = "sending", SendingEnds(p), Received(p),
           UNCHANGED <<vfs, stop>>,
           \A q \in Proc : \A f \in CoreFlag : f \in flags'[q] <=> f \in flags[q]
    PROVE  \A q \in Proc : SameAt(q)
<1>0. VarTypes /\ \A q \in Proc : delay[q] = "raised" => kstate[q] # "sending"
  BY TypesSplit DEF PmInv, ProcInv, DelayInv
<1> SUFFICES ASSUME NEW q \in Proc PROVE SameAt(q)
  OBVIOUS
<1>1. CASE q = p
  <2>1. kstate'[q] = "receiving" /\ delay'[q] = (IF delay[q] = "armed" THEN "raised" ELSE delay[q])
    BY <1>0, <1>1 DEF VarTypes, Received, SendingEnds
  <2> QED BY <1>0, <1>1, <2>1 DEF SameAt, VarTypes
<1>2. CASE q # p
  <2>1. kstate'[q] = kstate[q] /\ delay'[q] = delay[q]
    BY <1>0, <1>2 DEF VarTypes, Received, SendingEnds
  <2> QED BY <1>0, <2>1 DEF SameAt
<1> QED BY <1>1, <1>2

\* Types in a step that changes flags, pending signals and masks only.
LEMMA TypesWhenQuiet ==
    ASSUME VarTypes, flags' \in [Proc -> SUBSET Flag],
           pending' \in [Proc -> SUBSET Signal], ksigpending' \in [Proc -> SUBSET Signal],
           sigmask' \in [Proc -> SUBSET Signal],
           post' = NoPost, UNCHANGED <<table, mpgrp, vfs, kernel, stop>>
    PROVE  VarTypes'
BY NoPostType DEF VarTypes, table, kernel

\* AddPending keeps the signal sets sets of signals.
LEMMA AddPendingTypes ==
    ASSUME VarTypes, todo \in Seq(StackFrame), Top("sig_proc"), AddPending
    PROVE  /\ pending' \in [Proc -> SUBSET Signal] /\ ksigpending' \in [Proc -> SUBSET Signal]
           /\ sigmask' \in [Proc -> SUBSET Signal]
<1>1. rmp \in Proc /\ signo \in Signal
  BY TopTypes DEF Top
<1> QED BY <1>1 DEF AddPending, VarTypes

\* sig_proc when the signal is kept, dropped or put off.
LEMMA SigKeptKeeps ==
    ASSUME PmInv, SigBlocked \/ SigIgnored \/ UnpauseLater
    PROVE  PmInv'
<1>0. VarTypes /\ todo \in Seq(StackFrame)
  BY TypesSplit DEF PmInv
<1>1. Top("sig_proc") /\ Return(<<>>) /\ post' = NoPost
        /\ UNCHANGED <<flags, table, mpgrp, vfs, kernel, stop>>
  BY DEF SigBlocked, SigIgnored, UnpauseLater, Considered, Caught, OnlyControl, OnlyFlags
<1>2. /\ pending' \in [Proc -> SUBSET Signal] /\ ksigpending' \in [Proc -> SUBSET Signal]
      /\ sigmask' \in [Proc -> SUBSET Signal]
  <2>1. CASE SigIgnored
    BY <1>0, <2>1 DEF SigIgnored, OnlyControl, OnlyFlags, sigs, VarTypes
  <2>2. CASE AddPending
    BY <1>0, <1>1, <2>2, AddPendingTypes
  <2> QED BY <2>1, <2>2 DEF SigBlocked, UnpauseLater
<1>3. VarTypes'
  BY <1>0, <1>1, <1>2, TypesWhenQuiet DEF VarTypes
<1>n. <<>> \in Seq(StackFrame)
  OBVIOUS
<1>4. Pushes(<<>>) /\ todo # <<>> /\ todo[1].op = "sig_proc"
  BY <1>0, <1>1, <1>n, Returning
<1>5. \A q \in Proc : SameAt(q)
  BY <1>1, SameWhenQuiet DEF kernel
<1> QED BY <1>3, <1>4, <1>5, CalmKeeps DEF Noted

\* Types in a step that changes flags only.
LEMMA TypesWhenFlags ==
    ASSUME VarTypes, flags' \in [Proc -> SUBSET Flag], OnlyFlags
    PROVE  VarTypes'
BY TypesWhenQuiet DEF OnlyFlags, sigs, VarTypes

\* The loop of check_sig.
LEMMA CheckSigKeeps ==
    ASSUME PmInv, check_sig
    PROVE  PmInv'
<1>0. VarTypes /\ todo \in Seq(StackFrame)
  BY TypesSplit DEF PmInv
<1>1. Top("check_sig") /\ OnlyFlags /\ flags' = flags
  BY DEF check_sig, OnlyControl
<1>2. rmp \in Proc /\ signo \in Signal /\ ksig \in BOOLEAN /\ procs \in SUBSET Proc
  BY <1>0, <1>1, TopTypes DEF Top
<1>3. PICK fr \in Seq(StackFrame) : Return(fr) /\ \A k \in 1 .. Len(fr) : Plain(fr[k])
  <2>1. CASE procs = {} /\ Return(<<>>)
    <3>1. <<>> \in Seq(StackFrame) /\ \A k \in 1 .. Len(<<>>) : FALSE
      OBVIOUS
    <3> QED BY <2>1, <3>1
  <2>2. ASSUME NEW p \in procs,
               Return(IF Alive(p) THEN <<sig_procFrame(p, signo, ksig),
                                         check_sigFrame(procs \ {p}, signo, ksig)>>
                      ELSE <<check_sigFrame(procs \ {p}, signo, ksig)>>)
        PROVE  \E fr \in Seq(StackFrame) : Return(fr) /\ \A k \in 1 .. Len(fr) : Plain(fr[k])
    <3>1. p \in Proc /\ procs \ {p} \in SUBSET Proc /\ signo \in Signal \cup {0} /\ signo # 0
      BY <1>2, ProcAssumption
    <3> DEFINE f == sig_procFrame(p, signo, ksig)
               g == check_sigFrame(procs \ {p}, signo, ksig)
    <3>2. f \in StackFrame /\ g \in StackFrame
      BY <1>2, <3>1, FrameTypes
    <3>3. Plain(f) /\ Plain(g)
      BY DEF Plain, sig_procFrame, check_sigFrame, Frame
    <3>4. Return(<<f, g>>) \/ Return(<<g>>)
      BY <2>2
    <3> HIDE DEF f, g
    <3>5. <<f, g>> \in Seq(StackFrame) /\ <<g>> \in Seq(StackFrame)
      BY <3>2
    <3>6. (\A k \in 1 .. Len(<<f, g>>) : Plain(<<f, g>>[k])) /\ \A k \in 1 .. Len(<<g>>) : Plain(<<g>>[k])
      BY <3>3
    <3> QED BY <3>4, <3>5, <3>6
  <2> QED BY <2>1, <2>2 DEF check_sig
<1>4. VarTypes'
  BY <1>0, <1>1, TypesWhenFlags DEF VarTypes
<1>5. Pushes(fr) /\ todo # <<>> /\ todo[1].op = "check_sig"
  BY <1>0, <1>1, <1>3, Returning
<1>6. \A q \in Proc : SameAt(q)
  BY <1>1, SameWhenQuiet DEF OnlyFlags, kernel
<1> QED BY <1>3, <1>4, <1>5, <1>6, CalmKeeps DEF Noted

\* The frames StackInv says nothing about.
PlainFrame == {f \in StackFrame : Plain(f)}

LEMMA PlainSeq ==
    ASSUME NEW fr \in Seq(PlainFrame)
    PROVE  fr \in Seq(StackFrame) /\ \A k \in 1 .. Len(fr) : Plain(fr[k])
<1>1. \A k \in 1 .. Len(fr) : fr[k] \in StackFrame /\ Plain(fr[k])
  BY DEF PlainFrame
<1> QED BY <1>1

PlainThen == {"check_pending", "setreply", "fork_failed", "kill_result", "sendreply", "ksig_end",
              "restart_sigs", "restart_sigs_end"}

LEMMA PlainFrameTypes ==
    ASSUME NEW p \in Proc
    PROVE  /\ \A s \in Signal, k \in BOOLEAN : sig_procFrame(p, s, k) \in PlainFrame
           /\ \A s \in Signal, k \in BOOLEAN, S \in SUBSET Proc : check_sigFrame(S, s, k) \in PlainFrame
           /\ \A s \in Signal \cup {0} : check_pendingFrame(p, s) \in PlainFrame
           /\ check_parentFrame(p, TRUE) \in PlainFrame
           /\ \A op \in PlainThen : Then(op, p) \in PlainFrame
           /\ \A S \in SUBSET Proc : Frame("disinherit", p, 0, FALSE, S) \in PlainFrame
           /\ Sendreply \in PlainFrame
<1>0. /\ PlainThen \subseteq Function \ {"sig_proc", "check_sig"}
      /\ 0 \notin Signal
  BY ProcAssumption DEF PlainThen, Function
<1>1. \A s \in Signal, k \in BOOLEAN : sig_procFrame(p, s, k) \in PlainFrame
  <2> SUFFICES ASSUME NEW s \in Signal, NEW k \in BOOLEAN PROVE sig_procFrame(p, s, k) \in PlainFrame
    OBVIOUS
  <2>1. sig_procFrame(p, s, k) \in StackFrame
    BY <1>0, FrameTypes
  <2>2. Plain(sig_procFrame(p, s, k))
    BY DEF Plain, sig_procFrame, Frame
  <2> QED BY <2>1, <2>2 DEF PlainFrame
<1>2. \A s \in Signal, k \in BOOLEAN, S \in SUBSET Proc : check_sigFrame(S, s, k) \in PlainFrame
  <2> SUFFICES ASSUME NEW s \in Signal, NEW k \in BOOLEAN, NEW S \in SUBSET Proc
               PROVE  check_sigFrame(S, s, k) \in PlainFrame
    OBVIOUS
  <2>1. check_sigFrame(S, s, k) \in StackFrame
    BY <1>0, FrameTypes
  <2>2. Plain(check_sigFrame(S, s, k))
    BY DEF Plain, check_sigFrame, Frame
  <2> QED BY <2>1, <2>2 DEF PlainFrame
<1>3. \A s \in Signal \cup {0} : check_pendingFrame(p, s) \in PlainFrame
  <2> SUFFICES ASSUME NEW s \in Signal \cup {0} PROVE check_pendingFrame(p, s) \in PlainFrame
    OBVIOUS
  <2>1. check_pendingFrame(p, s) \in StackFrame
    BY FrameTypes
  <2>2. Plain(check_pendingFrame(p, s))
    BY DEF Plain, check_pendingFrame, Frame
  <2> QED BY <2>1, <2>2 DEF PlainFrame
<1>4. check_parentFrame(p, TRUE) \in PlainFrame
  <2>1. check_parentFrame(p, TRUE) \in StackFrame
    BY FrameTypes
  <2>2. Plain(check_parentFrame(p, TRUE))
    BY DEF Plain, check_parentFrame, Frame
  <2> QED BY <2>1, <2>2 DEF PlainFrame
<1>5. ASSUME NEW op \in PlainThen, NEW q \in Proc PROVE Then(op, q) \in PlainFrame
  <2>1. Then(op, q) \in StackFrame
    BY <1>0, FrameTypes
  <2>2. Plain(Then(op, q))
    BY DEF Plain, Then, Frame, PlainThen
  <2> QED BY <2>1, <2>2 DEF PlainFrame
<1>6. \A S \in SUBSET Proc : Frame("disinherit", p, 0, FALSE, S) \in PlainFrame
  <2> SUFFICES ASSUME NEW S \in SUBSET Proc PROVE Frame("disinherit", p, 0, FALSE, S) \in PlainFrame
    OBVIOUS
  <2>1. Frame("disinherit", p, 0, FALSE, S) \in StackFrame
    BY FrameTypes
  <2>2. Plain(Frame("disinherit", p, 0, FALSE, S))
    BY DEF Plain, Frame
  <2> QED BY <2>1, <2>2 DEF PlainFrame
<1>7. Sendreply \in PlainFrame
  <2>1. "sendreply" \in PlainThen /\ INIT_PROC_NR \in Proc
    BY ProcAssumption DEF PlainThen
  <2> QED BY <1>5, <2>1 DEF Sendreply
<1> QED BY <1>1, <1>2, <1>3, <1>4, <1>5, <1>6, <1>7

\* The function on top, whose place PmInv does not speak of, returns.
LEMMA CalmTop ==
    ASSUME PmInv, NEW op \in Function \ Noted, Top(op), NEW fr \in Seq(PlainFrame), Return(fr),
           VarTypes', \A q \in Proc : SameAt(q)
    PROVE  PmInv'
<1>0. VarTypes /\ todo \in Seq(StackFrame)
  BY TypesSplit DEF PmInv
<1>1. fr \in Seq(StackFrame) /\ \A k \in 1 .. Len(fr) : Plain(fr[k])
  BY PlainSeq
<1>2. Pushes(fr) /\ todo # <<>> /\ todo[1].op = op
  BY <1>0, <1>1, Returning
<1> QED BY <1>1, <1>2, CalmKeeps

\* A message is received that PmInv sees nothing of.
LEMMA CalmStart ==
    ASSUME PmInv, todo = <<>>, NEW fr \in Seq(PlainFrame), todo' = fr,
           VarTypes', \A q \in Proc : SameAt(q)
    PROVE  PmInv'
<1>1. fr \in Seq(StackFrame) /\ \A k \in 1 .. Len(fr) : Plain(fr[k])
  BY PlainSeq
<1>2. Pushes(fr)
  BY <1>1, Starting
<1> QED BY <1>1, <1>2, CalmKeeps

\* The loop of check_pending.
LEMMA CheckPendingKeeps ==
    ASSUME PmInv, check_pending
    PROVE  PmInv'
<1>0. VarTypes /\ todo \in Seq(StackFrame)
  BY TypesSplit DEF PmInv
<1>1. Top("check_pending") /\ post' = NoPost /\ UNCHANGED <<flags, table, mpgrp, vfs, kernel, stop>>
  BY DEF check_pending
<1>2. rmp \in Proc /\ signo \in Signal \cup {0}
  BY <1>0, <1>1, TopTypes DEF Top
<1>3. \A q \in Proc : SameAt(q)
  BY <1>1, SameWhenQuiet DEF kernel
<1>f. "check_pending" \in Function \ Noted
  BY DEF Function, Noted
<1>4. CASE Return(<<>>) /\ UNCHANGED sigs
  <2>1. VarTypes'
    BY <1>0, <1>1, <1>4, TypesWhenQuiet DEF VarTypes, sigs
  <2>2. <<>> \in Seq(PlainFrame)
    OBVIOUS
  <2> QED BY <1>1, <1>3, <1>4, <1>f, <2>1, <2>2, CalmTop
<1>5. CASE ~(Unblocked(rmp, signo) = {} \/ (signo # 0 /\ Is(rmp, "VFS_CALL")))
  <2>1. PICK i : i = Lowest(Unblocked(rmp, signo))
    OBVIOUS
  <2>2. i \in Signal
    <3>1. Unblocked(rmp, signo) \in SUBSET Signal
      BY <1>0, <1>2 DEF VarTypes, Unblocked
    <3> QED BY <1>5, <2>1, <3>1, LowestFound
  <2>3. /\ Return(<<sig_procFrame(rmp, i, i \in ksigpending[rmp]), check_pendingFrame(rmp, i)>>)
        /\ pending' = [pending EXCEPT ![rmp] = @ \ {i}]
        /\ ksigpending' = [ksigpending EXCEPT ![rmp] = @ \ {i}]
        /\ UNCHANGED sigmask
    BY <1>5, <2>1 DEF check_pending
  <2>4. VarTypes'
    BY <1>0, <1>1, <1>2, <2>3, TypesWhenQuiet DEF VarTypes
  <2>5. sig_procFrame(rmp, i, i \in ksigpending[rmp]) \in PlainFrame
          /\ check_pendingFrame(rmp, i) \in PlainFrame
    <3>1. (i \in ksigpending[rmp]) \in BOOLEAN /\ i \in Signal \cup {0}
      BY <2>2
    <3> QED BY <1>2, <2>2, <3>1, PlainFrameTypes, Zenon
  <2>6. <<sig_procFrame(rmp, i, i \in ksigpending[rmp]), check_pendingFrame(rmp, i)>> \in Seq(PlainFrame)
    BY <2>5
  <2> QED BY <1>1, <1>3, <1>f, <2>3, <2>4, <2>6, CalmTop
<1> QED BY <1>4, <1>5 DEF check_pending

\* The steps that only set REPLY, and the end of a delay call.
LEMMA ReplyFlagKeeps ==
    ASSUME PmInv, setreply \/ fork_failed \/ kill_result \/ ksig_end
    PROVE  PmInv'
<1>0. VarTypes /\ todo \in Seq(StackFrame)
  BY TypesSplit DEF PmInv
<1>1. PICK op \in {"setreply", "fork_failed", "kill_result", "ksig_end"} : Top(op)
  BY DEF setreply, fork_failed, kill_result, ksig_end
<1>2. op \in Function \ Noted
  BY <1>1 DEF Function, Noted
<1>3. Return(<<>>) /\ OnlyFlags /\ <<>> \in Seq(PlainFrame)
  BY DEF setreply, fork_failed, kill_result, ksig_end, OnlyControl
<1>4. rmp \in Proc
  BY <1>0, <1>1, TopTypes DEF Top
<1>5. flags' = flags \/ \E q \in Proc : flags' = [flags EXCEPT ![q] = @ \cup {"REPLY"}]
  BY <1>0, <1>4 DEF setreply, fork_failed, kill_result, ksig_end, OnlyControl, VarTypes
<1>6. flags' \in [Proc -> SUBSET Flag] /\ \A q \in Proc : \A f \in CoreFlag : f \in flags'[q] <=> f \in flags[q]
  BY <1>0, <1>5 DEF VarTypes, Flag, CoreFlag
<1>7. VarTypes'
  BY <1>0, <1>3, <1>6, TypesWhenFlags
<1>8. \A q \in Proc : SameAt(q)
  BY <1>3, <1>6, SameWhenQuiet DEF OnlyFlags, kernel
<1> QED BY <1>1, <1>2, <1>3, <1>7, <1>8, CalmTop

\* The replies go out.
LEMMA SendreplyKeeps ==
    ASSUME PmInv, sendreply
    PROVE  PmInv'
<1>0. VarTypes /\ todo \in Seq(StackFrame) /\ \A q \in Proc : DelayInv(q)
  BY TypesSplit DEF PmInv, ProcInv
<1>1. /\ Top("sendreply") /\ Return(<<>>) /\ <<>> \in Seq(PlainFrame)
      /\ "sendreply" \in Function \ Noted
  BY DEF sendreply, Function, Noted
<1>2. \A q \in Proc : flags'[q] = flags[q] \/ flags'[q] = flags[q] \ {"REPLY"}
  BY DEF sendreply, FlagsAfterReplies
<1>3. \A q \in Proc : kstate'[q] = kstate[q] \/ (kstate[q] = "receiving" /\ kstate'[q] = "running")
  BY DEF sendreply, AwaitsPm
<1>4. VarTypes'
  <2>1. flags' \in [Proc -> SUBSET Flag]
    BY <1>0, <1>2 DEF sendreply, FlagsAfterReplies, VarTypes
  <2>2. kstate' \in [Proc -> {"none", "running", "sending", "receiving", "cleared"}]
    BY <1>0, <1>3 DEF sendreply, VarTypes
  <2> QED BY <1>0, <2>1, <2>2, NoPostType DEF sendreply, VarTypes, table, sigs
<1>5. \A q \in Proc : SameAt(q)
  <2> SUFFICES ASSUME NEW q \in Proc PROVE SameAt(q)
    OBVIOUS
  <2>1. \A f \in CoreFlag : f \in flags'[q] <=> f \in flags[q]
    BY <1>2 DEF CoreFlag
  <2> QED BY <1>0, <1>3, <2>1 DEF SameAt, sendreply, DelayInv
<1> QED BY <1>1, <1>4, <1>5, CalmTop

\* INIT adopts a child of the dead.
LEMMA DisinheritKeeps ==
    ASSUME PmInv, disinherit
    PROVE  PmInv'
<1>0. VarTypes /\ todo \in Seq(StackFrame) /\ INIT_PROC_NR \in Proc
  BY TypesSplit, ProcAssumption DEF PmInv
<1>1. /\ Top("disinherit") /\ "disinherit" \in Function \ Noted
      /\ post' = NoPost /\ UNCHANGED <<flags, pgrp, ignore, catch, sigs, mpgrp, vfs, kernel, stop>>
  BY DEF disinherit, Function, Noted
<1>2. /\ Head(todo) \in StackFrame /\ Head(todo).op = "disinherit" /\ procs \in SUBSET Proc
      /\ procs = Head(todo).procs
  BY <1>0, <1>1, TopTypes DEF Top, procs
<1>3. VarTypes'
  <2>1. parent' \in [Proc -> Proc]
    BY <1>0, <1>2 DEF disinherit, VarTypes
  <2> QED BY <1>0, <1>1, <2>1, NoPostType DEF VarTypes, sigs, kernel
<1>4. \A q \in Proc : SameAt(q)
  BY <1>1, SameWhenQuiet DEF kernel
<1>5. \E fr \in Seq(PlainFrame) : Return(fr)
  <2>1. CASE Return(<<>>)
    <3>1. <<>> \in Seq(PlainFrame)
      OBVIOUS
    <3> QED BY <2>1, <3>1
  <2>2. ASSUME NEW c \in procs, Return(NotifyInit(c) \o <<[Head(todo) EXCEPT !.procs = @ \ {c}]>>)
        PROVE  \E fr \in Seq(PlainFrame) : Return(fr)
    <3>0. c \in Proc
      BY <1>2
    <3> DEFINE g == [Head(todo) EXCEPT !.procs = @ \ {c}]
               h == check_parentFrame(c, TRUE)
    <3>1. g \in PlainFrame
      BY <1>2 DEF StackFrame, PlainFrame, Plain
    <3>2. h \in PlainFrame
      BY <3>0, PlainFrameTypes
    <3>3. NotifyInit(c) = <<>> \/ NotifyInit(c) = <<h>>
      BY DEF NotifyInit
    <3> HIDE DEF g, h
    <3>4. <<>> \in Seq(PlainFrame) /\ <<h>> \in Seq(PlainFrame) /\ <<g>> \in Seq(PlainFrame)
      BY <3>1, <3>2
    <3>n. NotifyInit(c) \in Seq(PlainFrame)
      BY <3>3, <3>4
    <3>5. NotifyInit(c) \o <<g>> \in Seq(PlainFrame)
      BY <3>4, <3>n, ConcatProperties
    <3> QED BY <2>2, <3>5 DEF g
  <2> QED BY <2>1, <2>2 DEF disinherit
<1> QED BY <1>1, <1>3, <1>4, <1>5, CalmTop

\* Types in a step in which p's message is received.
LEMMA TypesWhenReceived ==
    ASSUME VarTypes, NEW p \in Proc, SendingEnds(p), Received(p),
           flags' \in [Proc -> SUBSET Flag],
           pending' \in [Proc -> SUBSET Signal], ksigpending' \in [Proc -> SUBSET Signal],
           sigmask' \in [Proc -> SUBSET Signal], ignore' \in [Proc -> SUBSET Signal],
           catch' \in [Proc -> SUBSET Signal], mpgrp' \in Proc \cup {NoGroup},
           post' = NoPost, UNCHANGED <<parent, pgrp, vfs, stop>>
    PROVE  VarTypes'
<1>1. kstate' \in [Proc -> {"none", "running", "sending", "receiving", "cleared"}] /\ call' = call
  BY DEF Received, VarTypes
<1>2. delay' \in [Proc -> {"no", "armed", "raised"}]
  BY DEF SendingEnds, VarTypes
<1> QED BY <1>1, <1>2, NoPostType DEF VarTypes

\* A call that changes flags PmInv does not speak of and signal sets.
LEMMA CalmCall ==
    ASSUME PmInv, NEW p \in Proc, NEW typ, Receives(p, typ), Received(p),
           NEW fr \in Seq(PlainFrame), todo' = fr,
           NEW f \in Flag \ CoreFlag, flags' = flags \/ flags' = [flags EXCEPT ![p] = @ \cup {f}],
           pending' \in [Proc -> SUBSET Signal], ksigpending' \in [Proc -> SUBSET Signal],
           sigmask' \in [Proc -> SUBSET Signal], ignore' \in [Proc -> SUBSET Signal],
           catch' \in [Proc -> SUBSET Signal], UNCHANGED <<parent, pgrp, vfs, stop>>
    PROVE  PmInv'
<1>0. VarTypes
  BY TypesSplit DEF PmInv
<1>1. /\ todo = <<>> /\ kstate[p] = "sending" /\ SendingEnds(p) /\ post' = NoPost
      /\ mpgrp' \in Proc \cup {NoGroup}
  BY <1>0 DEF Receives, VarTypes
<1>2. /\ flags' \in [Proc -> SUBSET Flag]
      /\ \A q \in Proc : \A g \in CoreFlag : g \in flags'[q] <=> g \in flags[q]
  <2>1. CASE flags' = flags
    BY <1>0, <2>1 DEF VarTypes
  <2>2. CASE flags' = [flags EXCEPT ![p] = @ \cup {f}]
    <3>1. flags' \in [Proc -> SUBSET Flag]
      BY <1>0, <2>2 DEF VarTypes
    <3>2. \A q \in Proc : flags'[q] = flags[q] \/ flags'[q] = flags[q] \cup {f}
      BY <1>0, <2>2 DEF VarTypes
    <3>3. \A q \in Proc : \A g \in CoreFlag : g \in flags'[q] <=> g \in flags[q]
      <4> SUFFICES ASSUME NEW q \in Proc, NEW g \in CoreFlag PROVE g \in flags'[q] <=> g \in flags[q]
        OBVIOUS
      <4>1. g # f
        OBVIOUS
      <4> QED BY <3>2, <4>1
    <3> QED BY <3>1, <3>3
  <2> QED BY <2>1, <2>2
<1>3. VarTypes'
  BY <1>0, <1>1, <1>2, TypesWhenReceived
<1>4. \A q \in Proc : SameAt(q)
  BY <1>1, <1>2, SameWhenReceived
<1> QED BY <1>1, <1>3, <1>4, CalmStart

\* What PM does after most calls.
LEMMA AnswerTypes ==
    ASSUME NEW p \in Proc
    PROVE  /\ Answer(p) \in Seq(PlainFrame) /\ <<Sendreply>> \in Seq(PlainFrame)
           /\ <<check_pendingFrame(p, 0), Sendreply>> \in Seq(PlainFrame)
           /\ <<check_pendingFrame(p, 0)>> \o Answer(p) \in Seq(PlainFrame)
           /\ ThenRestart(p) \in Seq(PlainFrame)
<1>1. {"setreply", "restart_sigs"} \subseteq PlainThen
  BY DEF PlainThen
<1>2. /\ Then("setreply", p) \in PlainFrame /\ Then("restart_sigs", p) \in PlainFrame
      /\ Sendreply \in PlainFrame /\ check_pendingFrame(p, 0) \in PlainFrame
  BY <1>1, PlainFrameTypes
<1>3. /\ Answer(p) \in Seq(PlainFrame) /\ <<Sendreply>> \in Seq(PlainFrame)
      /\ <<check_pendingFrame(p, 0), Sendreply>> \in Seq(PlainFrame)
      /\ ThenRestart(p) \in Seq(PlainFrame)
  BY <1>2 DEF Answer, ThenRestart
<1>4. <<check_pendingFrame(p, 0)>> \in Seq(PlainFrame)
  BY <1>2
<1> QED BY <1>3, <1>4, ConcatProperties

\* The calls about signal sets.
LEMMA SignalCallKeeps ==
    ASSUME PmInv, NEW p \in Proc,
           \/ do_pause(p) \/ do_sigsuspend(p) \/ do_sigprocmask_block(p) \/ do_sigprocmask_set(p)
           \/ do_sigaction(p)
    PROVE  PmInv'
<1>0. VarTypes
  BY TypesSplit DEF PmInv
<1>1. Catchable(call[p].set) \in SUBSET Signal
  BY <1>0 DEF VarTypes, CallType, Catchable
<1>2. "PAUSED" \in Flag \ CoreFlag /\ "SIGSUSPENDED" \in Flag \ CoreFlag
  BY DEF Flag, CoreFlag
<1>3. CASE do_pause(p)
  <2>1. /\ Receives(p, "pause") /\ Received(p) /\ todo' = <<Sendreply>>
        /\ flags' = [flags EXCEPT ![p] = @ \cup {"PAUSED"}]
        /\ UNCHANGED <<parent, pgrp, vfs, stop, pending, ksigpending, sigmask, ignore, catch>>
    BY <1>3 DEF do_pause, table, sigs
  <2> QED BY <1>0, <1>2, <2>1, AnswerTypes, CalmCall DEF VarTypes
<1>4. CASE do_sigsuspend(p)
  <2>1. /\ Receives(p, "sigsuspend") /\ Received(p) /\ todo' = <<check_pendingFrame(p, 0), Sendreply>>
        /\ flags' = [flags EXCEPT ![p] = @ \cup {"SIGSUSPENDED"}]
        /\ UNCHANGED <<parent, pgrp, vfs, stop, pending, ksigpending, ignore, catch>>
    BY <1>4 DEF do_sigsuspend, table
  <2>2. sigmask' \in [Proc -> SUBSET Signal]
    BY <1>0, <1>1, <1>4 DEF do_sigsuspend, VarTypes
  <2> QED BY <1>0, <1>2, <2>1, <2>2, AnswerTypes, CalmCall DEF VarTypes
<1>5. CASE do_sigprocmask_block(p)
  <2>1. /\ Receives(p, "sigblock") /\ Received(p) /\ todo' = Answer(p)
        /\ UNCHANGED <<flags, parent, pgrp, vfs, stop, pending, ksigpending, ignore, catch>>
    BY <1>5 DEF do_sigprocmask_block, table
  <2>2. sigmask' \in [Proc -> SUBSET Signal]
    BY <1>0, <1>1, <1>5 DEF do_sigprocmask_block, VarTypes
  <2> QED BY <1>0, <1>2, <2>1, <2>2, AnswerTypes, CalmCall DEF VarTypes
<1>6. CASE do_sigprocmask_set(p)
  <2>1. /\ Receives(p, "sigsetmask") /\ Received(p) /\ todo' = <<check_pendingFrame(p, 0)>> \o Answer(p)
        /\ UNCHANGED <<flags, parent, pgrp, vfs, stop, pending, ksigpending, ignore, catch>>
    BY <1>6 DEF do_sigprocmask_set, table
  <2>2. sigmask' \in [Proc -> SUBSET Signal]
    BY <1>0, <1>1, <1>6 DEF do_sigprocmask_set, VarTypes
  <2> QED BY <1>0, <1>2, <2>1, <2>2, AnswerTypes, CalmCall DEF VarTypes
<1>7. CASE do_sigaction(p)
  <2>1. PICK typ \in {"SIG_IGN", "SIG_DFL", "handler"} : Receives(p, typ)
    BY <1>7 DEF do_sigaction
  <2>2. Catchable({call[p].sig}) \subseteq Signal
    BY <1>0, <2>1 DEF Receives, VarTypes, NamesSignal, Catchable
  <2>3. /\ Received(p) /\ todo' = Answer(p) /\ UNCHANGED <<flags, parent, pgrp, vfs, stop, sigmask>>
    BY <1>7 DEF do_sigaction
  <2>4. /\ pending' \in [Proc -> SUBSET Signal] /\ ksigpending' \in [Proc -> SUBSET Signal]
        /\ ignore' \in [Proc -> SUBSET Signal] /\ catch' \in [Proc -> SUBSET Signal]
    <3> DEFINE S == Catchable({call[p].sig})
               Adapts(f, g) == \/ g = f
                               \/ g = [f EXCEPT ![p] = f[p] \ S]
                               \/ g = [f EXCEPT ![p] = f[p] \cup S]
    <3>1. /\ Adapts(pending, pending') /\ Adapts(ksigpending, ksigpending')
          /\ Adapts(ignore, ignore') /\ Adapts(catch, catch')
      BY <1>7 DEF do_sigaction
    <3> HIDE DEF S
    <3>2. ASSUME NEW f \in [Proc -> SUBSET Signal], NEW g, Adapts(f, g)
          PROVE  g \in [Proc -> SUBSET Signal]
      BY <2>2, <3>2 DEF S
    <3> HIDE DEF Adapts
    <3> QED BY <1>0, <3>1, <3>2 DEF VarTypes
  <2>5. sigmask' \in [Proc -> SUBSET Signal]
    BY <1>0, <2>3 DEF VarTypes
  <2> QED BY <1>2, <2>1, <2>3, <2>4, <2>5, AnswerTypes, CalmCall
<1> QED BY <1>3, <1>4, <1>5, <1>6, <1>7

\* kill, a waitpid that finds nothing, a fork that is refused.
LEMMA OtherCallKeeps ==
    ASSUME PmInv, NEW p \in Proc,
           do_kill(p) \/ WaitHangs(p) \/ WaitRefused(p) \/ ForkRefused(p)
    PROVE  PmInv'
<1>0. VarTypes
  BY TypesSplit DEF PmInv
<1>1. "WAITING" \in Flag \ CoreFlag
  BY DEF Flag, CoreFlag
<1>2. /\ UNCHANGED <<parent, pgrp, vfs, stop, pending, ksigpending, sigmask, ignore, catch>>
      /\ Received(p)
      /\ flags' = flags \/ flags' = [flags EXCEPT ![p] = @ \cup {"WAITING"}]
  BY DEF do_kill, WaitHangs, WaitRefused, ForkRefused, table, sigs
<1>3. PICK typ : Receives(p, typ)
  BY DEF do_kill, WaitHangs, WaitRefused, ForkRefused
<1>4. \E fr \in Seq(PlainFrame) : todo' = fr
  <2>1. CASE do_kill(p)
    <3>1. KillTargets(p) \in SUBSET Proc /\ call[p].sig \in Signal /\ FALSE \in BOOLEAN
      BY <1>0, <2>1 DEF do_kill, KillTargets, Receives, VarTypes, NamesSignal, CallType
    <3>2. "kill_result" \in PlainThen
      BY DEF PlainThen
    <3>3. /\ check_sigFrame(KillTargets(p), call[p].sig, FALSE) \in PlainFrame
          /\ Then("kill_result", p) \in PlainFrame /\ Sendreply \in PlainFrame
      BY <3>1, <3>2, PlainFrameTypes
    <3>4. <<check_sigFrame(KillTargets(p), call[p].sig, FALSE), Then("kill_result", p), Sendreply>>
            \in Seq(PlainFrame)
      BY <3>3, ShortSeqs, Zenon
    <3> QED BY <2>1, <3>4 DEF do_kill
  <2> QED BY <2>1, AnswerTypes DEF WaitHangs, WaitRefused, ForkRefused
<1> QED BY <1>0, <1>1, <1>2, <1>3, <1>4, CalmCall DEF VarTypes

\* A signal of the kernel.
LEMMA KernelSignalKeeps ==
    ASSUME PmInv, NEW p \in Proc, NEW s \in KernelSigs, KernelSignal(p, s)
    PROVE  PmInv'
<1>0. VarTypes
  BY TypesSplit DEF PmInv
<1>1. PICK S \in SUBSET Proc : todo' = <<check_sigFrame(S, s, TRUE), Sendreply>>
  BY DEF KernelSignal
<1>2. s \in Signal /\ TRUE \in BOOLEAN
  BY ProcAssumption
<1>3. check_sigFrame(S, s, TRUE) \in PlainFrame /\ Sendreply \in PlainFrame
  BY <1>2, PlainFrameTypes
<1>4. <<check_sigFrame(S, s, TRUE), Sendreply>> \in Seq(PlainFrame)
  BY <1>3, ShortSeqs, Zenon
<1>5. VarTypes'
  BY <1>0, NoPostType DEF KernelSignal, VarTypes, table, sigs, kernel
<1>6. \A q \in Proc : SameAt(q)
  BY SameWhenQuiet DEF KernelSignal, kernel
<1>7. todo = <<>>
  BY DEF KernelSignal
<1> QED BY <1>1, <1>4, <1>5, <1>6, <1>7, CalmStart

\* A process sends a request, another server takes or answers it, PM drops one.
LEMMA OutsideStepKeeps ==
    ASSUME PmInv, NEW p \in Proc,
           \/ \E c \in Calls[p] : Sends(p, c)
           \/ ServerReceives(p) \/ ServerAnswers(p) \/ DropCall(p)
    PROVE  PmInv'
<1>0. VarTypes /\ \A q \in Proc : DelayInv(q)
  BY TypesSplit DEF PmInv, ProcInv
<1>1. ASSUME NEW c \in Calls[p], Sends(p, c) PROVE PmInv'
  <2>1. c \in CallType /\ (c.typ \in NamesSignal => c.sig \in Signal)
    BY CallsAssumption
  <2>2. VarTypes'
    <3>1. call' \in [Proc -> CallType] /\ \A q \in Proc : call'[q].typ \in NamesSignal => call'[q].sig \in Signal
      BY <1>0, <1>1, <2>1 DEF Sends, VarTypes
    <3>2. kstate' \in [Proc -> {"none", "running", "sending", "receiving", "cleared"}]
      BY <1>0, <1>1 DEF Sends, VarTypes
    <3> QED BY <1>0, <1>1, <3>1, <3>2, NoPostType DEF Sends, VarTypes, table, sigs
  <2>3. ASSUME NEW q \in Proc PROVE SameAt(q)
    <3>1. kstate'[q] = kstate[q] \/ (q = p /\ kstate[q] = "running" /\ kstate'[q] = "sending" /\ delay[q] # "raised")
      BY <1>0, <1>1 DEF Sends, Runs, VarTypes
    <3> QED BY <1>0, <1>1, <3>1 DEF SameAt, Sends, DelayInv
  <2> QED BY <1>1, <2>2, <2>3, OutsideKeeps DEF Sends
<1>2. CASE ServerReceives(p) \/ DropCall(p)
  <2>1. /\ kstate[p] = "sending" /\ SendingEnds(p) /\ Received(p) /\ post' = NoPost /\ todo' = todo
        /\ UNCHANGED <<flags, parent, pgrp, vfs, stop, pending, ksigpending, sigmask, ignore, catch, mpgrp>>
    BY <1>2 DEF ServerReceives, DropCall, table, sigs
  <2>2. VarTypes'
    BY <1>0, <2>1, TypesWhenReceived DEF VarTypes
  <2>3. \A q \in Proc : SameAt(q)
    BY <2>1, SameWhenReceived
  <2> QED BY <2>1, <2>2, <2>3, OutsideKeeps
<1>3. CASE ServerAnswers(p)
  <2>1. VarTypes'
    <3>1. kstate' \in [Proc -> {"none", "running", "sending", "receiving", "cleared"}]
      BY <1>0, <1>3 DEF ServerAnswers, VarTypes
    <3> QED BY <1>0, <1>3, <3>1, NoPostType DEF ServerAnswers, VarTypes, table, sigs
  <2>2. ASSUME NEW q \in Proc PROVE SameAt(q)
    <3>1. kstate'[q] = kstate[q] \/ (kstate[q] = "receiving" /\ kstate'[q] = "running")
      BY <1>0, <1>3 DEF ServerAnswers, VarTypes
    <3> QED BY <1>0, <1>3, <3>1 DEF SameAt, ServerAnswers, DelayInv
  <2> QED BY <1>3, <2>1, <2>2, OutsideKeeps DEF ServerAnswers
<1> QED BY <1>1, <1>2, <1>3

-----------------------------------------------------------------------------
(***************************************************************************)
(* Steps that matter to the process of the function on top.                *)
(***************************************************************************)
LEMMA TopOf ==
    ASSUME PmInv, NEW op, Top(op)
    PROVE  /\ VarTypes /\ StackInv /\ todo \in Seq(StackFrame) /\ todo # <<>> /\ 1 \in 1 .. Len(todo)
           /\ rmp \in Proc /\ signo \in Signal \cup {0} /\ ksig \in BOOLEAN
           /\ todo[1].op = op /\ todo[1].p = rmp /\ todo[1].k = ksig /\ ProcInv(rmp)
BY TypesSplit, TopTypes DEF PmInv, Top, rmp, ksig

LEMMA NothingPushed ==
    ASSUME todo \in Seq(StackFrame), NEW op, Top(op), Return(<<>>)
    PROVE  Pushes(<<>>) /\ FramesFit(<<>>)
<1>1. <<>> \in Seq(StackFrame) /\ Len(<<>>) = 0
  OBVIOUS
<1>2. Pushes(<<>>)
  BY <1>1, Returning
<1>3. FramesFit(<<>>)
  BY <1>1 DEF FramesFit
<1> QED BY <1>2, <1>3

\* Nothing happens to anybody else.
LEMMA SameElsewhere ==
    ASSUME PmInv, NEW p \in Proc,
           \A q \in Proc \ {p} : /\ \A f \in CoreFlag : f \in flags'[q] <=> f \in flags[q]
                                 /\ stop'[q] = stop[q] /\ kstate'[q] = kstate[q]
                                 /\ delay'[q] = delay[q],
           \A r \in vfs \cup vfs' : r.p # p => (r \in vfs' <=> r \in vfs)
    PROVE  \A q \in Proc \ {p} : SameAt(q)
BY DEF PmInv, ProcInv, DelayInv, SameAt

\* No process has two requests with VFS, and none that has not VFS_CALL.
LEMMA NoRequest ==
    ASSUME NEW p, VfsInv(p), ~Is(p, "VFS_CALL")
    PROVE  \A r \in vfs : r.p # p
BY DEF VfsInv

\* A live process has a slot and is known to the kernel.
LEMMA AliveKnown ==
    ASSUME NEW p, LifeInv(p), Alive(p)
    PROVE  /\ kstate[p] # "none" /\ kstate[p] # "cleared"
           /\ Is(p, "IN_USE") /\ ~Is(p, "EXITING") /\ ~Is(p, "ZOMBIE") /\ ~Is(p, "TOLD_PARENT")
BY DEF LifeInv, Alive, Is

LEMMA SigDuringVfsCallKeeps ==
    ASSUME PmInv, SigDuringVfsCall
    PROVE  PmInv'
<1>0. /\ Top("sig_proc") /\ AddPending /\ Return(<<>>) /\ post' = NoPost
      /\ UNCHANGED <<table, mpgrp, vfs, kernel>>
  BY DEF SigDuringVfsCall
<1>1. PICK p \in Proc : p = rmp
  BY <1>0, TopOf
<1>2. /\ VarTypes /\ todo \in Seq(StackFrame) /\ todo # <<>>
      /\ todo[1].op = "sig_proc" /\ todo[1].p = p /\ ProcInv(p)
  BY <1>0, <1>1, TopOf
<1>3. /\ Alive(p) /\ Is(p, "VFS_CALL")
      /\ stop' = [stop EXCEPT ![p] = @ \/ ~Is(p, "PM_SIG_PENDING")]
      /\ flags' = [flags EXCEPT ![p] = @ \cup {"PM_SIG_PENDING"}]
  BY <1>1 DEF SigDuringVfsCall
<1>4. /\ flags' \in [Proc -> SUBSET Flag] /\ flags'[p] = flags[p] \cup {"PM_SIG_PENDING"}
      /\ stop' \in [Proc -> BOOLEAN] /\ stop'[p] = (stop[p] \/ ~Is(p, "PM_SIG_PENDING"))
      /\ \A q \in Proc \ {p} : flags'[q] = flags[q] /\ stop'[q] = stop[q]
  BY <1>2, <1>3 DEF VarTypes, Flag
<1>5. VarTypes'
  BY <1>0, <1>2, <1>4, AddPendingTypes, NoPostType DEF VarTypes, table, kernel
<1>7. Pushes(<<>>) /\ FramesFit(<<>>)
  BY <1>0, <1>2, NothingPushed
<1>8. StaysOnStack(p) /\ ~Dying(p)
  BY <1>2, <1>7, PushShape, StaysUnlessTop DEF Noted, Dying, At
<1>9. \A q \in Proc \ {p} : SameAt(q)
  BY <1>0, <1>4, SameElsewhere DEF kernel
<1>10. /\ \A f \in CoreFlag \ {"PM_SIG_PENDING"} : Is(p, f)' <=> Is(p, f)
       /\ Is(p, "PM_SIG_PENDING")' /\ Alive(p)' /\ stop'[p]
  BY <1>2, <1>3, <1>4 DEF Is, Alive, ProcInv, StopInv, VarTypes
<1>11. ProcInv(p)'
  <2>1. VfsInv(p)'
    BY <1>0, <1>2, <1>10 DEF ProcInv, VfsInv, CoreFlag
  <2>2. LifeInv(p)'
    BY <1>0, <1>2, <1>3, <1>4, <1>10, AliveKnown DEF ProcInv, LifeInv, CoreFlag, kernel, Is
  <2>3. StopInv(p)'
    BY <1>2, <1>3, <1>8, <1>10 DEF ProcInv, StopInv, CoreFlag
  <2>4. DelayInv(p)'
    BY <1>0, <1>2, <1>3, <1>10 DEF ProcInv, DelayInv, CoreFlag, kernel
  <2> QED BY <2>1, <2>2, <2>3, <2>4 DEF ProcInv
<1>13. KeepsFrames(p)
  BY <1>0, <1>3, <1>10 DEF KeepsFrames, CoreFlag, kernel
<1> QED BY <1>2, <1>5, <1>7, <1>9, <1>11, <1>13, StepKeeps

\* sig_proc_exit: exit_proc is next.
LEMMA SigFatalKeeps ==
    ASSUME PmInv, SigFatal
    PROVE  PmInv'
<1>0. Top("sig_proc") /\ OnlyFlags /\ flags' = flags
  BY DEF SigFatal, Considered, OnlyControl
<1>1. PICK p \in Proc : p = rmp
  BY <1>0, TopOf
<1>2. /\ VarTypes /\ todo \in Seq(StackFrame) /\ todo # <<>>
      /\ todo[1].op = "sig_proc" /\ todo[1].p = p /\ ProcInv(p)
  BY <1>0, <1>1, TopOf
<1>3. PICK core \in BOOLEAN : core = (signo \in core_sset)
  <2>1. (signo \in core_sset) \in BOOLEAN
    OBVIOUS
  <2> QED BY <2>1, Zenon
<1>4. Alive(p) /\ Return(<<exit_procFrame(p, core)>>)
  BY <1>1, <1>3 DEF SigFatal, Considered
<1>5. PICK f : f = exit_procFrame(p, core)
  OBVIOUS
<1>6. f \in StackFrame /\ f.op = "exit_proc" /\ f.p = p
  BY <1>5, FrameTypes DEF exit_procFrame, Frame
<1>7. <<f>> \in Seq(StackFrame) /\ Len(<<f>>) = 1 /\ <<f>>[1] = f
  BY <1>6
<1>8. Pushes(<<f>>)
  BY <1>0, <1>2, <1>4, <1>5, <1>7, Returning
<1>9. \A q \in Proc : SameAt(q)
  BY <1>0, SameWhenQuiet DEF OnlyFlags, kernel
<1>10. FramesFit(<<f>>)
  BY <1>0, <1>4, <1>6, <1>7 DEF FramesFit, Alive
<1>11. VarTypes'
  BY <1>0, <1>2, TypesWhenFlags DEF VarTypes
<1>12. ProcInv(p)'
  BY <1>2, <1>8, <1>9, PushShape, StaysUnlessTop, ProcKept DEF Noted
<1> QED BY <1>2, <1>8, <1>9, <1>10, <1>11, <1>12, SameKeepsFrames, StepKeeps

LEMMA UnpauseBusyKeeps ==
    ASSUME PmInv, UnpauseBusy
    PROVE  PmInv'
<1>0. /\ Top("sig_proc") /\ AddPending /\ Return(<<>>) /\ post' = NoPost
      /\ UNCHANGED <<table, mpgrp, vfs, kstate, call, stop>>
  BY DEF UnpauseBusy, Caught, Considered
<1>1. PICK p \in Proc : p = rmp
  BY <1>0, TopOf
<1>2. /\ VarTypes /\ todo \in Seq(StackFrame) /\ todo # <<>>
      /\ todo[1].op = "sig_proc" /\ todo[1].p = p /\ ProcInv(p)
  BY <1>0, <1>1, TopOf
<1>3. /\ Alive(p) /\ kstate[p] = "sending"
      /\ flags' = [flags EXCEPT ![p] = @ \cup {"DELAY_CALL"}]
      /\ delay' = [delay EXCEPT ![p] = "armed"]
  BY <1>1 DEF UnpauseBusy, Caught, Considered, Busy
<1>4. /\ flags' \in [Proc -> SUBSET Flag] /\ flags'[p] = flags[p] \cup {"DELAY_CALL"}
      /\ delay' \in [Proc -> {"no", "armed", "raised"}] /\ delay'[p] = "armed"
      /\ \A q \in Proc \ {p} : flags'[q] = flags[q] /\ delay'[q] = delay[q]
  BY <1>2, <1>3 DEF VarTypes, Flag
<1>5. VarTypes'
  BY <1>0, <1>2, <1>4, AddPendingTypes, NoPostType DEF VarTypes, table
<1>7. Pushes(<<>>) /\ FramesFit(<<>>)
  BY <1>0, <1>2, NothingPushed
<1>8. StaysOnStack(p) /\ ~Dying(p)
  BY <1>2, <1>7, PushShape, StaysUnlessTop DEF Noted, Dying, At
<1>9. \A q \in Proc \ {p} : SameAt(q)
  BY <1>0, <1>4, SameElsewhere
<1>10. /\ \A f \in CoreFlag \ {"DELAY_CALL"} : Is(p, f)' <=> Is(p, f)
       /\ Is(p, "DELAY_CALL")' /\ Alive(p)' /\ delay[p] # "raised"
  BY <1>2, <1>3, <1>4 DEF Is, Alive, ProcInv, DelayInv
<1>11. ProcInv(p)'
  <2>1. VfsInv(p)'
    BY <1>0, <1>2, <1>10 DEF ProcInv, VfsInv, CoreFlag
  <2>2. LifeInv(p)'
    BY <1>0, <1>2, <1>3, <1>4, <1>10, AliveKnown DEF ProcInv, LifeInv, CoreFlag, Is
  <2>3. StopInv(p)'
    BY <1>0, <1>2, <1>3, <1>8, <1>10 DEF ProcInv, StopInv, CoreFlag, StaysOnStack
  <2>4. DelayInv(p)'
    BY <1>0, <1>3, <1>4 DEF DelayInv
  <2> QED BY <2>1, <2>2, <2>3, <2>4 DEF ProcInv
<1>13. KeepsFrames(p)
  BY <1>0, <1>10 DEF KeepsFrames, CoreFlag
<1> QED BY <1>2, <1>5, <1>7, <1>9, <1>11, <1>13, StepKeeps

\* PM asks VFS about p.
LEMMA AskVfs ==
    ASSUME NEW typ, NEW p, tell_vfs(typ, p)
    PROVE  \E m : /\ m.typ = typ /\ m.p = p /\ vfs' = vfs \cup {m}
                 /\ \A r \in vfs \cup vfs' : r.p # p => (r \in vfs' <=> r \in vfs)
<1>1. PICK m : m = [typ |-> typ, p |-> p]
  OBVIOUS
<1>2. m.typ = typ /\ m.p = p /\ vfs' = vfs \cup {m}
  BY <1>1 DEF tell_vfs
<1> QED BY <1>2

LEMMA UnpauseByVfsKeeps ==
    ASSUME PmInv, UnpauseByVfs
    PROVE  PmInv'
<1>0. /\ Top("sig_proc") /\ AddPending /\ Return(<<>>) /\ UNCHANGED <<table, mpgrp, kernel>>
  BY DEF UnpauseByVfs, Caught, Considered
<1>1. PICK p \in Proc : p = rmp
  BY <1>0, TopOf
<1>2. /\ VarTypes /\ todo \in Seq(StackFrame) /\ todo # <<>>
      /\ todo[1].op = "sig_proc" /\ todo[1].p = p /\ ProcInv(p)
  BY <1>0, <1>1, TopOf
<1>3. /\ Alive(p) /\ ~Is(p, "VFS_CALL") /\ ~Is(p, "UNPAUSED")
      /\ flags' = [flags EXCEPT ![p] = @ \cup {"PM_SIG_PENDING", "VFS_CALL"}]
      /\ stop' = [stop EXCEPT ![p] = TRUE]
      /\ vfs' = vfs \cup {[typ |-> "PM_UNPAUSE", p |-> p]}
      /\ post' = [typ |-> "CS_EINTR", p |-> p]
  BY <1>1 DEF UnpauseByVfs, Caught, Considered, Is, tell_vfs, tell_cv
<1>4. /\ flags' \in [Proc -> SUBSET Flag] /\ flags'[p] = flags[p] \cup {"PM_SIG_PENDING", "VFS_CALL"}
      /\ stop' \in [Proc -> BOOLEAN] /\ stop'[p]
      /\ \A q \in Proc \ {p} : flags'[q] = flags[q] /\ stop'[q] = stop[q]
  BY <1>2, <1>3 DEF VarTypes, Flag
<1>5. VarTypes'
  BY <1>0, <1>2, <1>3, <1>4, AddPendingTypes DEF VarTypes, table, kernel
<1>7. Pushes(<<>>) /\ FramesFit(<<>>)
  BY <1>0, <1>2, NothingPushed
<1>8. PICK m : /\ m.typ = "PM_UNPAUSE" /\ m.p = p /\ vfs' = vfs \cup {m}
               /\ \A r \in vfs \cup vfs' : r.p # p => (r \in vfs' <=> r \in vfs)
  BY <1>3, AskVfs DEF tell_vfs
<1>9. \A q \in Proc \ {p} : SameAt(q)
  BY <1>0, <1>4, <1>8, SameElsewhere DEF kernel
<1>10. /\ \A f \in CoreFlag \ {"PM_SIG_PENDING", "VFS_CALL"} : Is(p, f)' <=> Is(p, f)
       /\ Is(p, "PM_SIG_PENDING")' /\ Is(p, "VFS_CALL")' /\ Alive(p)'
  BY <1>2, <1>3, <1>4 DEF Is, Alive
<1>11. ProcInv(p)'
  <2>0. \A r \in vfs : r.p # p
    BY <1>2, <1>3, NoRequest DEF ProcInv
  <2>1. VfsInv(p)'
    <3>1. \A r \in vfs' : r.p = p => r = m
      BY <1>8, <2>0
    <3>2. ~Is(p, "EXITING")'
      BY <1>10 DEF Alive, Is
    <3> QED BY <1>8, <1>10, <3>1, <3>2 DEF VfsInv
  <2>2. LifeInv(p)'
    BY <1>0, <1>2, <1>3, <1>4, <1>10, AliveKnown DEF ProcInv, LifeInv, CoreFlag, kernel, Is, Alive
  <2>3. StopInv(p)'
    BY <1>3, <1>4, <1>10 DEF StopInv, CoreFlag
  <2>4. DelayInv(p)'
    BY <1>0, <1>2, <1>3, <1>10 DEF ProcInv, DelayInv, CoreFlag, kernel
  <2> QED BY <2>1, <2>2, <2>3, <2>4 DEF ProcInv
<1>13. KeepsFrames(p)
  BY <1>0, <1>3, <1>10 DEF KeepsFrames, CoreFlag, kernel
<1> QED BY <1>2, <1>5, <1>7, <1>9, <1>11, <1>13, StepKeeps

\* The handler is set up, or the process dies of it.
LEMMA SigSendKeeps ==
    ASSUME PmInv, NEW ok \in BOOLEAN, sig_send(ok)
    PROVE  PmInv'
<1>0. /\ Top("sig_proc") /\ post' = NoPost /\ UNCHANGED <<table, mpgrp, vfs, kernel>>
  BY DEF sig_send, Caught, Considered
<1>1. PICK p \in Proc : p = rmp
  BY <1>0, TopOf
<1>2. /\ VarTypes /\ todo \in Seq(StackFrame) /\ todo # <<>> /\ signo \in Signal
      /\ todo[1].op = "sig_proc" /\ todo[1].p = p /\ ProcInv(p)
  BY <1>0, <1>1, TopOf, TopTypes
<1>3. Alive(p) /\ ~Is(p, "VFS_CALL")
  BY <1>1 DEF sig_send, Caught, Considered
<1>4. /\ pending' \in [Proc -> SUBSET Signal] /\ ksigpending' \in [Proc -> SUBSET Signal]
      /\ sigmask' \in [Proc -> SUBSET Signal]
  BY <1>1, <1>2 DEF sig_send, VarTypes
<1>5. PICK F : /\ flags' = [flags EXCEPT ![p] = F]
               /\ F = IF ok THEN FlagsAfterHandler(p) ELSE flags[p] \cup {"UNPAUSED"}
  BY <1>1 DEF sig_send
<1>6. /\ F \in SUBSET Flag
      /\ \A f \in CoreFlag \ {"UNPAUSED"} : f \in F <=> f \in flags[p]
      /\ ok => ("UNPAUSED" \in F <=> Is(p, "PM_SIG_PENDING"))
  <2>1. CASE ok
    BY <1>2, <1>5, <2>1 DEF FlagsAfterHandler, VarTypes, Flag, CoreFlag, Hanging, Is
  <2>2. CASE ~ok
    BY <1>2, <1>5, <2>2 DEF VarTypes, Flag
  <2> QED BY <2>1, <2>2
<1>7. /\ flags' \in [Proc -> SUBSET Flag] /\ flags'[p] = F
      /\ stop' \in [Proc -> BOOLEAN]
      /\ IF ok THEN stop'[p] = Is(p, "PM_SIG_PENDING") ELSE stop'[p]
      /\ \A q \in Proc \ {p} : flags'[q] = flags[q] /\ stop'[q] = stop[q]
  <2>1. flags' \in [Proc -> SUBSET Flag] /\ flags'[p] = F /\ \A q \in Proc \ {p} : flags'[q] = flags[q]
    BY <1>2, <1>5, <1>6 DEF VarTypes
  <2>2. CASE ok
    <3>1. stop' = [stop EXCEPT ![p] = Is(p, "PM_SIG_PENDING")]
      BY <1>1, <2>2 DEF sig_send
    <3> QED BY <1>2, <2>1, <2>2, <3>1 DEF VarTypes, Is
  <2>3. CASE ~ok
    <3>1. stop' = [stop EXCEPT ![p] = TRUE]
      BY <1>1, <2>3 DEF sig_send
    <3> QED BY <1>2, <2>1, <2>3, <3>1 DEF VarTypes
  <2> QED BY <2>2, <2>3
<1>8. VarTypes'
  BY <1>0, <1>2, <1>4, <1>7, NoPostType DEF VarTypes, table, kernel
<1>9. \A q \in Proc \ {p} : SameAt(q)
  BY <1>0, <1>7, SameElsewhere DEF kernel
<1>10. /\ \A f \in CoreFlag \ {"UNPAUSED"} : Is(p, f)' <=> Is(p, f)
       /\ Alive(p)'
       /\ ok => (Is(p, "UNPAUSED")' <=> Is(p, "PM_SIG_PENDING")) /\ (stop'[p] <=> Is(p, "PM_SIG_PENDING"))
       /\ ~ok => stop'[p]
  BY <1>3, <1>5, <1>6, <1>7 DEF Is, Alive, CoreFlag
<1>11. KeepsFrames(p)
  BY <1>0, <1>3, <1>10 DEF KeepsFrames, CoreFlag, kernel
<1>12. VfsInv(p)' /\ LifeInv(p)' /\ DelayInv(p)'
  <2>1. VfsInv(p)'
    BY <1>0, <1>2, <1>10 DEF ProcInv, VfsInv, CoreFlag
  <2>2. LifeInv(p)'
    BY <1>0, <1>2, <1>3, <1>7, <1>10, AliveKnown DEF ProcInv, LifeInv, CoreFlag, kernel, Is, Alive
  <2>3. DelayInv(p)'
    BY <1>0, <1>2, <1>3, <1>10 DEF ProcInv, DelayInv, CoreFlag, kernel
  <2> QED BY <2>1, <2>2, <2>3
<1>13. CASE ok
  <2>1. Return(<<>>)
    BY <1>13 DEF sig_send
  <2>2. Pushes(<<>>) /\ FramesFit(<<>>)
    BY <1>0, <1>2, <2>1, NothingPushed
  <2>3. StaysOnStack(p) /\ ~Dying(p)
    BY <1>2, <2>2, PushShape, StaysUnlessTop DEF Noted, Dying, At
  <2>4. StopInv(p)'
    BY <1>2, <1>3, <1>10, <1>13, <2>3 DEF ProcInv, StopInv, CoreFlag, StaysOnStack
  <2>5. ProcInv(p)'
    BY <1>12, <2>3, <2>4 DEF ProcInv
  <2> QED BY <1>2, <1>8, <1>9, <1>11, <2>2, <2>5, StepKeeps
<1>14. CASE ~ok
  <2>0. PICK core \in BOOLEAN : core = (signo \in core_sset)
    <3>1. (signo \in core_sset) \in BOOLEAN
      OBVIOUS
    <3> QED BY <3>1, Zenon
  <2>1. Return(<<exit_procFrame(p, core)>>)
    BY <1>1, <1>14, <2>0 DEF sig_send
  <2>2. PICK f : f = exit_procFrame(p, core)
    OBVIOUS
  <2>3. f \in StackFrame /\ f.op = "exit_proc" /\ f.p = p
    BY <2>2, FrameTypes DEF exit_procFrame, Frame
  <2>4. <<f>> \in Seq(StackFrame) /\ Len(<<f>>) = 1 /\ <<f>>[1] = f
    BY <2>3
  <2>5. Pushes(<<f>>)
    BY <1>0, <1>2, <2>1, <2>2, <2>4, Returning
  <2>6. StackShape(<<f>>)
    BY <1>2, <2>5, PushShape
  <2>7. StaysOnStack(p)
    BY <1>2, <2>6, StaysUnlessTop DEF Noted
  <2>8. Dying(p)'
    <3>1. todo'[1] = f /\ 1 \in 1 .. Len(todo')
      BY <2>4, <2>6 DEF StackShape
    <3>2. todo' # <<>>
      BY <2>6, <3>1 DEF StackShape
    <3> QED BY <2>3, <3>1, <3>2 DEF Dying, At
  <2>9. StopInv(p)'
    BY <1>10, <1>14, <2>8 DEF StopInv
  <2>10. ProcInv(p)'
    BY <1>12, <2>7, <2>9 DEF ProcInv
  <2>11. FramesFit(<<f>>)
    BY <1>10, <2>3, <2>4 DEF FramesFit
  <2> QED BY <1>2, <1>8, <1>9, <1>11, <2>5, <2>10, <2>11, StepKeeps
<1> QED BY <1>13, <1>14

\* restart_sigs goes on with check_pending and its own rest, or is done.
LEMMA RestartSigsKeeps ==
    ASSUME PmInv, restart_sigs
    PROVE  PmInv'
<1>0. Top("restart_sigs") /\ OnlyFlags /\ flags' = flags
  BY DEF restart_sigs, OnlyControl
<1>1. PICK p \in Proc : p = rmp
  BY <1>0, TopOf
<1>2. /\ VarTypes /\ todo \in Seq(StackFrame) /\ todo # <<>>
      /\ todo[1].op = "restart_sigs" /\ todo[1].p = p /\ ProcInv(p)
  BY <1>0, <1>1, TopOf
<1>3. \A q \in Proc : SameAt(q)
  BY <1>0, SameWhenQuiet DEF OnlyFlags, kernel
<1>4. VarTypes'
  BY <1>0, <1>2, TypesWhenFlags DEF VarTypes
<1>5. ASSUME NEW fr, StackShape(fr),
             \/ ~(Alive(p) /\ ~Is(p, "VFS_CALL") /\ Is(p, "PM_SIG_PENDING"))
             \/ \E k \in 1 .. Len(fr) : fr[k].op = "restart_sigs_end" /\ fr[k].p = p
      PROVE  ProcInv(p)'
  <2>1. OnStack("exit_restart_end", p) => OnStack("exit_restart_end", p)'
    BY <1>2, <1>5, StackKept DEF At
  <2>2. Alive(p) /\ ~Is(p, "VFS_CALL") /\ Is(p, "PM_SIG_PENDING") => Resuming(p)'
    BY <1>5, StackKept DEF Resuming
  <2>3. ~Dying(p)
    BY <1>2 DEF Dying, At
  <2>4. StaysOnStack(p)
    BY <2>1, <2>2, <2>3 DEF StaysOnStack
  <2> QED BY <1>2, <1>3, <2>4, ProcKept
<1>6. ASSUME NEW fr \in Seq(PlainFrame), Return(fr),
             \/ ~(Alive(p) /\ ~Is(p, "VFS_CALL") /\ Is(p, "PM_SIG_PENDING"))
             \/ \E k \in 1 .. Len(fr) : fr[k].op = "restart_sigs_end" /\ fr[k].p = p
      PROVE  PmInv'
  <2>1. fr \in Seq(StackFrame) /\ \A k \in 1 .. Len(fr) : Plain(fr[k])
    BY PlainSeq
  <2>2. Pushes(fr)
    BY <1>0, <1>2, <1>6, <2>1, Returning
  <2>3. ProcInv(p)'
    BY <1>2, <1>5, <1>6, <2>2, PushShape
  <2>4. FramesFit(fr)
    BY <2>1 DEF FramesFit, Plain
  <2> QED BY <1>2, <1>3, <1>4, <2>2, <2>3, <2>4, SameKeepsFrames, StepKeeps
<1>7. CASE Alive(p) /\ ~Is(p, "VFS_CALL") /\ Is(p, "PM_SIG_PENDING")
  <2>1. PICK f, g : f = check_pendingFrame(p, 0) /\ g = Then("restart_sigs_end", p)
    OBVIOUS
  <2>2. Return(<<f, g>>)
    BY <1>1, <1>7, <2>1 DEF restart_sigs
  <2>3. f \in PlainFrame /\ g \in PlainFrame
    BY <2>1, PlainFrameTypes DEF PlainThen
  <2>4. g.op = "restart_sigs_end" /\ g.p = p
    BY <2>1 DEF Then, Frame
  <2>5. PICK fr : fr = <<f, g>>
    OBVIOUS
  <2>6. fr \in Seq(PlainFrame) /\ 2 \in 1 .. Len(fr) /\ fr[2] = g
    BY <2>3, <2>5
  <2>7. \E k \in 1 .. Len(fr) : fr[k].op = "restart_sigs_end" /\ fr[k].p = p
    BY <2>4, <2>6
  <2> QED BY <1>6, <2>2, <2>5, <2>6, <2>7
<1>8. CASE ~(Alive(p) /\ ~Is(p, "VFS_CALL") /\ Is(p, "PM_SIG_PENDING"))
  <2>1. PICK fr \in Seq(PlainFrame) : fr = <<>>
    <3>1. <<>> \in Seq(PlainFrame)
      OBVIOUS
    <3> QED BY <3>1, Zenon
  <2>2. Return(fr)
    BY <1>1, <1>8, <2>1 DEF restart_sigs
  <2> QED BY <1>6, <1>8, <2>2
<1> QED BY <1>7, <1>8

\* The process is resumed, unless VFS has it again.
LEMMA RestartSigsEndKeeps ==
    ASSUME PmInv, restart_sigs_end
    PROVE  PmInv'
<1>0. /\ Top("restart_sigs_end") /\ Return(<<>>) /\ post' = NoPost
      /\ UNCHANGED <<table, sigs, mpgrp, vfs, kernel>>
  BY DEF restart_sigs_end
<1>1. PICK p \in Proc : p = rmp
  BY <1>0, TopOf
<1>2. /\ VarTypes /\ todo \in Seq(StackFrame) /\ todo # <<>>
      /\ todo[1].op = "restart_sigs_end" /\ todo[1].p = p /\ ProcInv(p)
  BY <1>0, <1>1, TopOf
<1>4. Pushes(<<>>) /\ FramesFit(<<>>)
  BY <1>0, <1>2, NothingPushed
<1>5. ~Dying(p) /\ (OnStack("exit_restart_end", p) => OnStack("exit_restart_end", p)')
  BY <1>2, <1>4, PushShape, StackKept DEF Dying, At
<1>6. CASE Is(p, "VFS_CALL")
  <2>1. UNCHANGED <<flags, stop>>
    BY <1>1, <1>6 DEF restart_sigs_end
  <2>2. VarTypes'
    BY <1>0, <1>2, <2>1, NoPostType DEF VarTypes, table, sigs, kernel
  <2>3. \A q \in Proc : SameAt(q)
    BY <1>0, <2>1, SameWhenQuiet DEF kernel
  <2>4. ProcInv(p)'
    BY <1>2, <1>5, <1>6, <2>3, ProcKept DEF StaysOnStack
  <2> QED BY <1>2, <1>4, <2>2, <2>3, <2>4, SameKeepsFrames, StepKeeps
<1>7. CASE ~Is(p, "VFS_CALL")
  <2>1. /\ flags' = [flags EXCEPT ![p] = @ \ {"PM_SIG_PENDING", "UNPAUSED"}]
        /\ stop' = [stop EXCEPT ![p] = FALSE]
    BY <1>1, <1>7 DEF restart_sigs_end
  <2>2. /\ flags' \in [Proc -> SUBSET Flag] /\ flags'[p] = flags[p] \ {"PM_SIG_PENDING", "UNPAUSED"}
        /\ stop' \in [Proc -> BOOLEAN] /\ ~stop'[p]
        /\ \A q \in Proc \ {p} : flags'[q] = flags[q] /\ stop'[q] = stop[q]
    BY <1>2, <2>1 DEF VarTypes
  <2>3. VarTypes'
    BY <1>0, <1>2, <2>2, NoPostType DEF VarTypes, table, sigs, kernel
  <2>4. \A q \in Proc \ {p} : SameAt(q)
    BY <1>0, <2>2, SameElsewhere DEF kernel
  <2>5. /\ \A f \in CoreFlag \ {"PM_SIG_PENDING", "UNPAUSED"} : Is(p, f)' <=> Is(p, f)
        /\ ~Is(p, "PM_SIG_PENDING")' /\ ~Is(p, "UNPAUSED")' /\ (Alive(p)' <=> Alive(p))
    BY <2>2 DEF Is, Alive
  <2>6. VfsInv(p)'
    BY <1>0, <1>2, <1>7, <2>5, NoRequest DEF ProcInv, VfsInv, CoreFlag
  <2>7. LifeInv(p)'
    BY <1>0, <1>2, <1>5, <2>2, <2>5 DEF ProcInv, LifeInv, CoreFlag, kernel, Is
  <2>8. StopInv(p)'
    BY <2>2, <2>5 DEF StopInv
  <2>9. DelayInv(p)'
    BY <1>0, <1>2, <2>5 DEF ProcInv, DelayInv, CoreFlag, kernel
  <2>10. KeepsFrames(p)
    BY <1>0, <1>7, <2>5 DEF KeepsFrames, CoreFlag, kernel
  <2>11. ProcInv(p)'
    BY <2>6, <2>7, <2>8, <2>9 DEF ProcInv
  <2> QED BY <1>2, <1>4, <2>3, <2>4, <2>10, <2>11, StepKeeps
<1> QED BY <1>6, <1>7

LEMMA ExitProcKeeps ==
    ASSUME PmInv, exit_proc
    PROVE  PmInv'
<1>0. Top("exit_proc") /\ UNCHANGED <<table, sigs, mpgrp, kernel>>
  BY DEF exit_proc
<1>1. PICK p \in Proc, core \in BOOLEAN : p = rmp /\ core = ksig
  BY <1>0, TopOf
<1>2. /\ VarTypes /\ todo \in Seq(StackFrame) /\ todo # <<>>
      /\ todo[1].op = "exit_proc" /\ todo[1].p = p /\ ProcInv(p) /\ Alive(p)
  BY <1>0, <1>1, TopOf DEF StackInv
<1>3. PICK typ \in {"PM_DUMPCORE", "PM_EXIT"} :
        /\ tell_vfs(typ, p)
        /\ typ = "PM_EXIT" <=> ~core
  <2>1. CASE core
    BY <1>1, <2>1 DEF exit_proc
  <2>2. CASE ~core
    BY <1>1, <2>2 DEF exit_proc
  <2> QED BY <2>1, <2>2
<1>4. PICK m : /\ m.typ = typ /\ m.p = p /\ vfs' = vfs \cup {m}
               /\ \A r \in vfs \cup vfs' : r.p # p => (r \in vfs' <=> r \in vfs)
  BY <1>3, AskVfs
<1>5. PICK F : /\ flags' = [flags EXCEPT ![p] = F]
               /\ F = {"IN_USE", "VFS_CALL", "EXITING"} \cup {f \in {"ZOMBIE"} : ~core}
  BY <1>1 DEF exit_proc
<1>6. /\ ~Is(p, "VFS_CALL") /\ stop' = [stop EXCEPT ![p] = TRUE]
      /\ post' = [typ |-> "CS_EXIT", p |-> p]
  BY <1>1 DEF exit_proc, tell_cv
<1>7. /\ flags' \in [Proc -> SUBSET Flag] /\ flags'[p] = F
      /\ stop' \in [Proc -> BOOLEAN] /\ stop'[p]
      /\ \A q \in Proc \ {p} : flags'[q] = flags[q] /\ stop'[q] = stop[q]
  <2>1. F \in SUBSET Flag
    BY <1>5 DEF Flag
  <2> QED BY <1>2, <1>5, <1>6, <2>1 DEF VarTypes
<1>8. VarTypes'
  <2>1. vfs' \subseteq [typ : {"PM_SETUID", "PM_UNPAUSE", "PM_FORK", "PM_EXIT", "PM_DUMPCORE"}, p : Proc]
    BY <1>2, <1>3 DEF VarTypes, tell_vfs
  <2> QED BY <1>0, <1>2, <1>6, <1>7, <2>1 DEF VarTypes, table, sigs, kernel
<1>9. \A q \in Proc \ {p} : SameAt(q)
  BY <1>0, <1>4, <1>7, SameElsewhere DEF kernel
<1>10. /\ Is(p, "VFS_CALL")' /\ Is(p, "EXITING")' /\ Is(p, "IN_USE")' /\ ~Alive(p)'
       /\ Is(p, "ZOMBIE")' <=> ~core
  BY <1>5, <1>7 DEF Is, Alive
<1>11. ProcInv(p)'
  <2>0. \A r \in vfs : r.p # p
    BY <1>2, <1>6, NoRequest DEF ProcInv
  <2>1. VfsInv(p)'
    <3>1. \A r \in vfs' : r.p = p => r = m
      BY <1>4, <2>0
    <3> QED BY <1>3, <1>4, <1>10, <3>1 DEF VfsInv
  <2>2. LifeInv(p)'
    <3>1. kstate[p] # "none" /\ kstate[p] # "cleared"
      BY <1>2, AliveKnown DEF ProcInv
    <3> QED BY <1>0, <1>10, <3>1 DEF LifeInv, kernel
  <2>3. StopInv(p)'
    BY <1>10 DEF StopInv
  <2>4. DelayInv(p)'
    BY <1>0, <1>2, <1>10 DEF ProcInv, DelayInv, kernel
  <2> QED BY <2>1, <2>2, <2>3, <2>4 DEF ProcInv
<1>12. KeepsFrames(p)
  BY <1>0, <1>10 DEF KeepsFrames, kernel
<1>13. PICK h : h = check_parentFrame(p, FALSE)
  OBVIOUS
<1>14. h \in StackFrame /\ h.op = "check_parent" /\ h.p = p
  BY <1>13, FrameTypes DEF check_parentFrame, Frame
<1>15. PICK fr \in Seq(PlainFrame \cup {h}) : Return(fr)
  <2>1. PICK hang : hang = Hangup(p)
    OBVIOUS
  <2>2. hang \in Seq(PlainFrame \cup {h})
    <3>0. {q \in Proc : pgrp[q] = mpgrp} \in SUBSET Proc /\ SIGHUP \in Signal /\ FALSE \in BOOLEAN
      BY ProcAssumption
    <3>1. check_sigFrame({q \in Proc : pgrp[q] = mpgrp}, SIGHUP, FALSE) \in PlainFrame
      BY <3>0, PlainFrameTypes
    <3>2. PICK g : g = check_sigFrame({q \in Proc : pgrp[q] = mpgrp}, SIGHUP, FALSE)
      OBVIOUS
    <3>g. g \in PlainFrame
      BY <3>1, <3>2, Zenon
    <3>3. <<g>> \in Seq(PlainFrame \cup {h}) /\ <<>> \in Seq(PlainFrame \cup {h})
      BY <3>g
    <3>4. hang = <<>> \/ hang = <<g>>
      BY <2>1, <3>2 DEF Hangup
    <3> QED BY <3>3, <3>4
  <2>3. PICK d : d = Frame("disinherit", p, 0, FALSE, Proc)
    OBVIOUS
  <2>4. d \in PlainFrame
    BY <2>3, PlainFrameTypes
  <2>5. PICK notify : notify = IF core THEN <<>> ELSE <<h>>
    OBVIOUS
  <2>6. /\ notify \in Seq(PlainFrame \cup {h}) /\ <<d>> \in Seq(PlainFrame \cup {h})
    <3>1. <<>> \in Seq(PlainFrame \cup {h}) /\ <<h>> \in Seq(PlainFrame \cup {h})
      OBVIOUS
    <3>2. <<d>> \in Seq(PlainFrame \cup {h})
      BY <2>4
    <3> QED BY <2>5, <3>1, <3>2
  <2>7. notify \o <<d>> \in Seq(PlainFrame \cup {h})
    BY <2>6, ConcatProperties
  <2>8. notify \o <<d>> \o hang \in Seq(PlainFrame \cup {h})
    BY <2>2, <2>7, ConcatProperties
  <2>9. Return(notify \o <<d>> \o hang)
    BY <1>1, <1>13, <2>1, <2>3, <2>5, Zenon DEF exit_proc
  <2> QED BY <2>8, <2>9
<1>16. fr \in Seq(StackFrame)
  <2>1. PlainFrame \cup {h} \subseteq StackFrame
    BY <1>14 DEF PlainFrame
  <2>2. \A k \in 1 .. Len(fr) : fr[k] \in StackFrame
    BY <2>1
  <2> QED BY <2>2
<1>17. Pushes(fr)
  BY <1>0, <1>2, <1>15, <1>16, Returning
<1>18. FramesFit(fr)
  <2>1. \A k \in 1 .. Len(fr) : Plain(fr[k]) \/ fr[k] = h
    BY <1>15 DEF PlainFrame
  <2> QED BY <1>10, <1>14, <2>1 DEF FramesFit, Plain
<1> QED BY <1>2, <1>8, <1>9, <1>11, <1>12, <1>17, <1>18, StepKeeps

\* The end of exit_restart.
LEMMA ExitRestartEndKeeps ==
    ASSUME PmInv, exit_restart_end
    PROVE  PmInv'
<1>0. Top("exit_restart_end") /\ Return(<<>>) /\ OnlyFlags
  BY DEF exit_restart_end
<1>1. PICK p \in Proc : p = rmp
  BY <1>0, TopOf
<1>2. /\ VarTypes /\ todo \in Seq(StackFrame) /\ todo # <<>>
      /\ todo[1].op = "exit_restart_end" /\ todo[1].p = p /\ ProcInv(p) /\ kstate[p] = "cleared"
  BY <1>0, <1>1, TopOf DEF StackInv
<1>4. Pushes(<<>>) /\ FramesFit(<<>>)
  BY <1>0, <1>2, NothingPushed
<1>5. PICK F : /\ flags' = [flags EXCEPT ![p] = F]
               /\ F = IF Is(p, "TOLD_PARENT") THEN {} ELSE flags[p]
  <2>1. CASE Is(p, "TOLD_PARENT")
    BY <1>1, <2>1 DEF exit_restart_end
  <2>2. CASE ~Is(p, "TOLD_PARENT")
    <3>1. flags' = flags /\ flags = [flags EXCEPT ![p] = flags[p]]
      BY <1>1, <1>2, <2>2 DEF exit_restart_end, VarTypes
    <3> QED BY <2>2, <3>1
  <2> QED BY <2>1, <2>2
<1>6. /\ flags' \in [Proc -> SUBSET Flag] /\ flags'[p] = F
      /\ \A q \in Proc \ {p} : flags'[q] = flags[q]
  BY <1>2, <1>5 DEF VarTypes
<1>7. VarTypes'
  BY <1>0, <1>2, <1>6, TypesWhenFlags
<1>8. \A q \in Proc \ {p} : SameAt(q)
  BY <1>0, <1>6, SameElsewhere DEF OnlyFlags, kernel
<1>9. /\ ~Alive(p)' /\ ~Is(p, "VFS_CALL") /\ ~Is(p, "VFS_CALL")'
      /\ Is(p, "TOLD_PARENT") => \A f \in Flag : ~Is(p, f)'
      /\ ~Is(p, "TOLD_PARENT") => \A f \in Flag : Is(p, f)' <=> Is(p, f)
  BY <1>2, <1>5, <1>6 DEF ProcInv, LifeInv, Alive, Is
<1>10. UNCHANGED <<vfs, kstate, stop, delay>>
  BY <1>0 DEF OnlyFlags, kernel
<1>11. ProcInv(p)'
  <2>1. VfsInv(p)'
    BY <1>2, <1>9, <1>10, NoRequest DEF ProcInv, VfsInv
  <2>2. LifeInv(p)'
    BY <1>2, <1>5, <1>6, <1>9, <1>10 DEF ProcInv, LifeInv, Flag, Is
  <2>3. StopInv(p)'
    BY <1>9 DEF StopInv
  <2>4. DelayInv(p)'
    BY <1>2, <1>9, <1>10 DEF ProcInv, DelayInv
  <2> QED BY <2>1, <2>2, <2>3, <2>4 DEF ProcInv
<1>12. KeepsFrames(p)
  BY <1>9, <1>10 DEF KeepsFrames
<1> QED BY <1>2, <1>4, <1>7, <1>8, <1>11, <1>12, StepKeeps

LEMMA SysEndksigKeeps ==
    ASSUME PmInv, sys_endksig
    PROVE  PmInv'
<1>0. /\ Top("sys_endksig") /\ Return(<<>>) /\ post' = NoPost
      /\ UNCHANGED <<flags, table, sigs, mpgrp, vfs, kstate, call, stop>>
  BY DEF sys_endksig
<1>1. PICK p \in Proc : p = rmp
  BY <1>0, TopOf
<1>2. /\ VarTypes /\ todo \in Seq(StackFrame) /\ todo # <<>>
      /\ todo[1].op = "sys_endksig" /\ todo[1].p = p /\ ProcInv(p)
      /\ Alive(p) => ~Is(p, "DELAY_CALL")
  BY <1>0, <1>1, TopOf DEF StackInv
<1>4. Pushes(<<>>) /\ FramesFit(<<>>)
  BY <1>0, <1>2, NothingPushed
<1>5. delay' = [delay EXCEPT ![p] = "no"]
  BY <1>1 DEF sys_endksig
<1>6. /\ delay' \in [Proc -> {"no", "armed", "raised"}] /\ delay'[p] = "no"
      /\ \A q \in Proc \ {p} : delay'[q] = delay[q]
  BY <1>2, <1>5 DEF VarTypes
<1>7. VarTypes'
  BY <1>0, <1>2, <1>6, NoPostType DEF VarTypes, table, sigs
<1>8. \A q \in Proc \ {p} : SameAt(q)
  BY <1>0, <1>6, SameElsewhere
<1>9. ~Dying(p) /\ (OnStack("exit_restart_end", p) => OnStack("exit_restart_end", p)')
        /\ (Resuming(p) => Resuming(p)')
  BY <1>2, <1>4, PushShape, StackKept DEF Dying, At, Resuming
<1>10. ProcInv(p)'
  <2>1. VfsInv(p)'
    BY <1>0, <1>2 DEF ProcInv, VfsInv, Is
  <2>2. LifeInv(p)'
    BY <1>0, <1>2, <1>9 DEF ProcInv, LifeInv, Is, Alive
  <2>3. StopInv(p)'
    BY <1>0, <1>2, <1>9 DEF ProcInv, StopInv, Is, Alive
  <2>4. DelayInv(p)'
    BY <1>0, <1>2, <1>6 DEF DelayInv, Is, Alive
  <2> QED BY <2>1, <2>2, <2>3, <2>4 DEF ProcInv
<1>11. KeepsFrames(p)
  BY <1>0, <1>2, <1>6 DEF KeepsFrames, At, Is, Alive
<1> QED BY <1>2, <1>4, <1>7, <1>8, <1>10, <1>11, StepKeeps

-----------------------------------------------------------------------------
(***************************************************************************)
(* A parent is told.                                                       *)
(***************************************************************************)
LEMMA Telling ==
    ASSUME PmInv, NEW c \in Proc, parent[c] # c, Is(c, "ZOMBIE"), NEW clean \in BOOLEAN,
           clean => ~Is(c, "VFS_CALL"),
           ~clean => Is(c, "VFS_CALL") \/ OnStack("exit_restart_end", c)',
           flags' = FlagsAfterTelling(c, clean), UNCHANGED <<vfs, stop>>,
           kstate'[c] = kstate[c], delay'[c] = delay[c]
    PROVE  /\ ProcInv(c)' /\ KeepsFrames(c)
           /\ flags' \in [Proc -> SUBSET Flag]
           /\ \A q \in Proc \ {c} : \A f \in CoreFlag : f \in flags'[q] <=> f \in flags[q]
<1>0. VarTypes /\ ProcInv(c)
  BY TypesSplit DEF PmInv
<1>1. PICK p \in Proc : p = parent[c]
  BY <1>0 DEF VarTypes
<1>2. PICK F, G : /\ F = (flags[p] \ {"WAITING"}) \cup {"REPLY"}
                  /\ G = IF clean THEN {} ELSE (flags[c] \ {"ZOMBIE"}) \cup {"TOLD_PARENT"}
  OBVIOUS
<1>3. flags' = [flags EXCEPT ![p] = F, ![c] = G]
  BY <1>0, <1>1, <1>2 DEF FlagsAfterTelling, VarTypes
<1>4. F \in SUBSET Flag /\ G \in SUBSET Flag
  BY <1>0, <1>2 DEF VarTypes, Flag
<1>5. /\ flags' \in [Proc -> SUBSET Flag] /\ flags'[c] = G
      /\ \A q \in Proc \ {c} : flags'[q] = flags[q] \/ flags'[q] = (flags[q] \ {"WAITING"}) \cup {"REPLY"}
  BY <1>0, <1>1, <1>2, <1>3, <1>4 DEF VarTypes
<1>6. \A q \in Proc \ {c} : \A f \in CoreFlag : f \in flags'[q] <=> f \in flags[q]
  BY <1>5 DEF CoreFlag
<1>7. Is(c, "EXITING") /\ Is(c, "IN_USE") /\ ~Alive(c)
  BY <1>0 DEF ProcInv, LifeInv, Is, Alive
<1>8. CASE clean
  <2>1. \A f \in Flag : ~Is(c, f)'
    BY <1>2, <1>5, <1>8 DEF Is
  <2>2. ~Is(c, "VFS_CALL") /\ kstate[c] = "cleared" /\ \A r \in vfs : r.p # c
    BY <1>0, <1>7, <1>8, NoRequest DEF ProcInv, LifeInv
  <2>3. ~Alive(c)'
    BY <2>1 DEF Alive, Is, Flag
  <2>4. VfsInv(c)'
    BY <2>1, <2>2 DEF VfsInv, Flag
  <2>5. LifeInv(c)'
    BY <2>1, <2>2, <2>3 DEF LifeInv, Flag, Is
  <2>6. StopInv(c)' /\ DelayInv(c)'
    BY <1>0, <2>2, <2>3 DEF ProcInv, StopInv, DelayInv
  <2>7. KeepsFrames(c)
    BY <2>2, <2>3 DEF KeepsFrames
  <2> QED BY <1>5, <1>6, <2>4, <2>5, <2>6, <2>7 DEF ProcInv
<1>9. CASE ~clean
  <2>1. /\ \A f \in CoreFlag \ {"ZOMBIE", "TOLD_PARENT"} : Is(c, f)' <=> Is(c, f)
        /\ Is(c, "TOLD_PARENT")' /\ ~Is(c, "ZOMBIE")'
    BY <1>2, <1>5, <1>9 DEF Is
  <2>2. ~Alive(c)'
    BY <1>7, <2>1 DEF Alive, Is, CoreFlag
  <2>3. VfsInv(c)'
    BY <1>0, <2>1 DEF ProcInv, VfsInv, CoreFlag
  <2>4. LifeInv(c)'
    BY <1>0, <1>7, <1>9, <2>1, <2>2 DEF ProcInv, LifeInv, CoreFlag, Is
  <2>5. StopInv(c)' /\ DelayInv(c)'
    BY <1>0, <2>2 DEF ProcInv, StopInv, DelayInv
  <2>6. KeepsFrames(c)
    BY <2>1, <2>2 DEF KeepsFrames, CoreFlag
  <2> QED BY <1>5, <1>6, <2>3, <2>4, <2>5, <2>6 DEF ProcInv
<1> QED BY <1>8, <1>9

LEMMA CheckParentKeeps ==
    ASSUME PmInv, check_parent
    PROVE  PmInv'
<1>0. Top("check_parent") /\ OnlyFlags
  BY DEF check_parent
<1>1. PICK c \in Proc, try \in BOOLEAN : c = rmp /\ try = ksig
  BY <1>0, TopOf
<1>2. /\ VarTypes /\ StackInv /\ todo \in Seq(StackFrame) /\ todo # <<>> /\ 1 \in 1 .. Len(todo)
      /\ todo[1].op = "check_parent" /\ todo[1].p = c /\ todo[1].k = try /\ ProcInv(c)
  BY <1>0, <1>1, TopOf
<1>3. "check_parent" \in Function \ Noted
  BY DEF Function, Noted
<1>4. CASE flags' = flags /\ (Return(<<>>) \/ Return(<<sig_procFrame(parent[c], SIGCHLD, FALSE)>>))
  <2>1. PICK f : f = sig_procFrame(parent[c], SIGCHLD, FALSE)
    OBVIOUS
  <2>2. f \in PlainFrame
    <3>1. parent[c] \in Proc /\ SIGCHLD \in Signal /\ FALSE \in BOOLEAN
      BY <1>2, ProcAssumption DEF VarTypes
    <3> QED BY <2>1, <3>1, PlainFrameTypes
  <2>3. <<>> \in Seq(PlainFrame) /\ <<f>> \in Seq(PlainFrame)
    BY <2>2
  <2>4. \A q \in Proc : SameAt(q)
    BY <1>0, <1>4, SameWhenQuiet DEF OnlyFlags, kernel
  <2>5. VarTypes'
    BY <1>0, <1>2, <1>4, TypesWhenFlags DEF VarTypes
  <2> QED BY <1>0, <1>3, <1>4, <2>1, <2>3, <2>4, <2>5, CalmTop
<1>5. CASE /\ ~Is(parent[c], "EXITING") /\ MayTell(c) /\ Return(<<>>)
           /\ flags' = FlagsAfterTelling(c, try /\ ~Is(c, "VFS_CALL"))
  <2>1. PICK clean \in BOOLEAN : clean = (try /\ ~Is(c, "VFS_CALL"))
    <3>1. (try /\ ~Is(c, "VFS_CALL")) \in BOOLEAN
      BY DEF Is
    <3> QED BY <3>1, Zenon
  <2>2. Is(c, "ZOMBIE") /\ parent[c] # c
    BY <1>2, <1>5 DEF MayTell, ProcInv, LifeInv
  <2>3. Pushes(<<>>) /\ FramesFit(<<>>)
    BY <1>0, <1>2, <1>5, NothingPushed
  <2>4. ~clean => Is(c, "VFS_CALL") \/ OnStack("exit_restart_end", c)'
    <3> SUFFICES ASSUME ~clean, ~Is(c, "VFS_CALL") PROVE OnStack("exit_restart_end", c)'
      OBVIOUS
    <3>1. ~try
      BY <2>1
    <3>2. PICK l \in 2 .. Len(todo) : At(l, "exit_restart_end", c)
      BY <1>2, <3>1 DEF StackInv
    <3>3. OnStack("exit_restart_end", c)
      BY <1>2, <3>2 DEF OnStack
    <3>4. ~At(1, "exit_restart_end", c)
      BY <1>2 DEF At
    <3> QED BY <1>2, <2>3, <3>3, <3>4, PushShape, StackKept
  <2>5. UNCHANGED <<vfs, kstate, stop, delay>>
    BY <1>0 DEF OnlyFlags, kernel
  <2>6. flags' = FlagsAfterTelling(c, clean)
    BY <1>5, <2>1, Zenon
  <2>7. /\ ProcInv(c)' /\ KeepsFrames(c) /\ flags' \in [Proc -> SUBSET Flag]
        /\ \A q \in Proc \ {c} : \A f \in CoreFlag : f \in flags'[q] <=> f \in flags[q]
    <3>1. clean => ~Is(c, "VFS_CALL")
      BY <2>1
    <3> QED BY <2>2, <2>4, <2>5, <2>6, <3>1, Telling
  <2>8. VarTypes'
    BY <1>0, <1>2, <2>7, TypesWhenFlags
  <2>9. \A q \in Proc \ {c} : SameAt(q)
    BY <2>5, <2>7, SameElsewhere
  <2> QED BY <1>2, <2>3, <2>7, <2>8, <2>9, StepKeeps
<1> QED BY <1>1, <1>4, <1>5 DEF check_parent

\* waitpid finds a zombie.
LEMMA WaitCollectsKeeps ==
    ASSUME PmInv, NEW p \in Proc, WaitCollects(p)
    PROVE  PmInv'
<1>0. VarTypes /\ \A q \in Proc : ProcInv(q)
  BY TypesSplit DEF PmInv
<1>1. /\ todo = <<>> /\ kstate[p] = "sending" /\ Alive(p) /\ SendingEnds(p) /\ Received(p)
      /\ mpgrp' \in Proc \cup {NoGroup} /\ post' = NoPost /\ todo' = <<Sendreply>>
      /\ UNCHANGED <<table, sigs, vfs, stop>>
  BY <1>0 DEF WaitCollects, Receives, VarTypes
<1>2. PICK c \in Proc : /\ parent[c] = p /\ Is(c, "ZOMBIE")
                        /\ flags' = FlagsAfterTelling(c, ~Is(c, "VFS_CALL"))
  BY DEF WaitCollects, Children, InUse
<1>3. p # c
  BY <1>0, <1>1, <1>2 DEF ProcInv, LifeInv, Alive, Is
<1>4. kstate'[c] = kstate[c] /\ delay'[c] = delay[c]
  BY <1>0, <1>1, <1>3 DEF VarTypes, Received, SendingEnds
<1>5. PICK clean \in BOOLEAN : clean = (~Is(c, "VFS_CALL"))
  <2>1. (~Is(c, "VFS_CALL")) \in BOOLEAN
    BY DEF Is
  <2> QED BY <2>1, Zenon
<1>6. flags' = FlagsAfterTelling(c, clean)
  BY <1>2, <1>5, Zenon
<1>7. /\ ProcInv(c)' /\ flags' \in [Proc -> SUBSET Flag]
      /\ \A q \in Proc \ {c} : \A f \in CoreFlag : f \in flags'[q] <=> f \in flags[q]
  <2>1. (clean => ~Is(c, "VFS_CALL")) /\ (~clean => Is(c, "VFS_CALL"))
    BY <1>5
  <2> QED BY <1>1, <1>2, <1>3, <1>4, <1>6, <2>1, Telling
<1>8. VarTypes'
  BY <1>0, <1>1, <1>7, TypesWhenReceived DEF VarTypes, table, sigs
<1>9. \A q \in Proc \ {c} : SameAt(q)
  <2> SUFFICES ASSUME NEW q \in Proc \ {c} PROVE SameAt(q)
    OBVIOUS
  <2>1. CASE q = p
    <3>1. kstate'[q] = "receiving" /\ delay'[q] = (IF delay[q] = "armed" THEN "raised" ELSE delay[q])
      BY <1>0, <1>1, <2>1 DEF VarTypes, Received, SendingEnds
    <3> QED BY <1>0, <1>1, <1>7, <2>1, <3>1 DEF SameAt, VarTypes, ProcInv, DelayInv
  <2>2. CASE q # p
    <3>1. kstate'[q] = kstate[q] /\ delay'[q] = delay[q]
      BY <1>0, <1>1, <2>2 DEF VarTypes, Received, SendingEnds
    <3> QED BY <1>0, <1>1, <1>7, <3>1 DEF SameAt, ProcInv, DelayInv
  <2> QED BY <2>1, <2>2
<1>10. <<Sendreply>> \in Seq(PlainFrame)
  BY <1>1, AnswerTypes
<1>11. <<Sendreply>> \in Seq(StackFrame) /\ \A k \in 1 .. Len(<<Sendreply>>) : Plain(<<Sendreply>>[k])
  BY <1>10, PlainSeq
<1>12. Pushes(<<Sendreply>>)
  BY <1>1, <1>11, Starting
<1>13. FramesFit(<<Sendreply>>)
  BY <1>11 DEF FramesFit, Plain
<1> QED BY <1>1, <1>7, <1>8, <1>9, <1>12, <1>13, StepKeeps

-----------------------------------------------------------------------------
(***************************************************************************)
(* Messages PM receives that matter to a process.                          *)
(***************************************************************************)
LEMMA StartKeeps ==
    ASSUME PmInv, todo = <<>>, NEW p \in Proc, NEW fr \in Seq(StackFrame), todo' = fr,
           VarTypes', FramesFit(fr), \A q \in Proc \ {p} : SameAt(q), ProcInv(p)'
    PROVE  PmInv'
<1>1. Pushes(fr)
  BY Starting
<1> QED BY <1>1, StepKeeps

LEMMA AtRest ==
    ASSUME todo = <<>>
    PROVE  \A q : ~Dying(q) /\ ~Resuming(q) /\ \A op : ~OnStack(op, q)
<1>1. Len(todo) = 0
  OBVIOUS
<1>2. \A q, op : ~OnStack(op, q)
  BY <1>1 DEF OnStack
<1> QED BY <1>2 DEF Dying, Resuming

LEMMA PlainFit ==
    ASSUME NEW fr \in Seq(PlainFrame)
    PROVE  fr \in Seq(StackFrame) /\ FramesFit(fr)
BY PlainSeq DEF FramesFit, Plain

\* VFS answers: it has no other request about p.
LEMMA VfsAnswered ==
    ASSUME PmInv, NEW p \in Proc, NEW typ, VfsReply(typ, p)
    PROVE  /\ todo = <<>> /\ Is(p, "VFS_CALL") /\ Is(p, "IN_USE")
           /\ kstate[p] # "none" /\ kstate[p] # "cleared"
           /\ typ \in {"PM_EXIT", "PM_DUMPCORE"} <=> Is(p, "EXITING")
           /\ typ = "PM_EXIT" => Is(p, "ZOMBIE") \/ Is(p, "TOLD_PARENT")
           /\ typ = "PM_UNPAUSE" => Is(p, "PM_SIG_PENDING")
           /\ \A r \in vfs' : r.p # p
           /\ \A r \in vfs \cup vfs' : r.p # p => (r \in vfs' <=> r \in vfs)
           /\ vfs' \subseteq vfs /\ mpgrp' = NoGroup /\ post' = NoPost
<1>1. PICK m : m = [typ |-> typ, p |-> p]
  OBVIOUS
<1>2. m.typ = typ /\ m.p = p /\ m \in vfs /\ vfs' = vfs \ {m}
  BY <1>1 DEF VfsReply
<1>3. VfsInv(p) /\ LifeInv(p)
  BY DEF PmInv, ProcInv
<1>4. Is(p, "VFS_CALL")
  BY <1>2, <1>3 DEF VfsInv
<1>5. Is(p, "IN_USE") /\ kstate[p] # "none" /\ kstate[p] # "cleared"
  BY <1>3, <1>4 DEF LifeInv, Is
<1>6. /\ typ \in {"PM_EXIT", "PM_DUMPCORE"} <=> Is(p, "EXITING")
      /\ typ = "PM_EXIT" => Is(p, "ZOMBIE") \/ Is(p, "TOLD_PARENT")
      /\ typ = "PM_UNPAUSE" => Is(p, "PM_SIG_PENDING")
  BY <1>2, <1>3 DEF VfsInv
<1>7. \A r \in vfs' : r.p # p
  BY <1>2, <1>3 DEF VfsInv
<1>8. \A r \in vfs \cup vfs' : r.p # p => (r \in vfs' <=> r \in vfs)
  BY <1>2
<1> QED BY <1>2, <1>4, <1>5, <1>6, <1>7, <1>8 DEF VfsReply

\* A reply about a live process: it is resumed by restart_sigs, or dies.
LEMMA ReplyOfAlive ==
    ASSUME PmInv, NEW p \in Proc, NEW typ \in {"PM_SETUID", "PM_UNPAUSE", "PM_FORK"},
           VfsReply(typ, p), UNCHANGED <<table, sigs, kernel, stop>>,
           flags' \in [Proc -> SUBSET Flag],
           \A q \in Proc \ {p} : \A f \in CoreFlag : f \in flags'[q] <=> f \in flags[q],
           \A f \in CoreFlag \ {"VFS_CALL", "UNPAUSED"} : f \in flags'[p] <=> f \in flags[p],
           "VFS_CALL" \notin flags'[p], "UNPAUSED" \in flags'[p] => typ = "PM_UNPAUSE",
           NEW fr \in Seq(StackFrame), todo' = fr,
           Alive(p)' => FramesFit(fr), Resuming(p)' \/ Dying(p)'
    PROVE  PmInv'
<1>0. VarTypes /\ ProcInv(p)
  BY TypesSplit DEF PmInv
<1>1. /\ todo = <<>> /\ Is(p, "VFS_CALL") /\ Is(p, "IN_USE")
      /\ kstate[p] # "none" /\ kstate[p] # "cleared" /\ ~Is(p, "EXITING")
      /\ typ = "PM_UNPAUSE" => Is(p, "PM_SIG_PENDING")
      /\ \A r \in vfs' : r.p # p
      /\ \A r \in vfs \cup vfs' : r.p # p => (r \in vfs' <=> r \in vfs)
      /\ vfs' \subseteq vfs /\ mpgrp' = NoGroup /\ post' = NoPost
  BY VfsAnswered
<1>2. UNCHANGED <<kstate, delay, stop>>
  BY DEF kernel
<1>3. VarTypes'
  BY <1>0, <1>1, NoPostType DEF VarTypes, table, sigs, kernel
<1>4. \A q \in Proc \ {p} : SameAt(q)
  BY <1>1, <1>2, SameElsewhere
<1>5. /\ \A f \in CoreFlag \ {"VFS_CALL", "UNPAUSED"} : Is(p, f)' <=> Is(p, f)
      /\ ~Is(p, "VFS_CALL")' /\ (Is(p, "UNPAUSED")' => Is(p, "PM_SIG_PENDING")')
  BY <1>1 DEF Is, CoreFlag
<1>6. Alive(p) /\ Alive(p)'
  BY <1>1, <1>5 DEF Alive, Is, CoreFlag
<1>7. ~Dying(p) /\ ~Resuming(p)
  BY <1>1, AtRest
<1>8. VfsInv(p)'
  BY <1>1, <1>5 DEF VfsInv
<1>9. LifeInv(p)'
  BY <1>0, <1>1, <1>2, <1>5, <1>6 DEF ProcInv, LifeInv, CoreFlag, Is
<1>10. StopInv(p)'
  BY <1>0, <1>2, <1>5, <1>6, <1>7 DEF ProcInv, StopInv, CoreFlag
<1>11. DelayInv(p)'
  BY <1>0, <1>2, <1>5, <1>6 DEF ProcInv, DelayInv, CoreFlag
<1>12. ProcInv(p)'
  BY <1>8, <1>9, <1>10, <1>11 DEF ProcInv
<1> QED BY <1>1, <1>3, <1>4, <1>6, <1>12, StartKeeps

LEMMA SetuidUnpauseReplyKeeps ==
    ASSUME PmInv, NEW p \in Proc, SetuidReply(p) \/ UnpauseReply(p)
    PROVE  PmInv'
<1>0. VarTypes
  BY TypesSplit DEF PmInv
<1>1. /\ todo' = ThenRestart(p) /\ UNCHANGED <<table, sigs, kernel, stop>> /\ VfsIdle(p)
  BY DEF SetuidReply, UnpauseReply
<1>2. PICK fr : fr = ThenRestart(p)
  OBVIOUS
<1>3. fr \in Seq(StackFrame) /\ FramesFit(fr)
  BY <1>2, AnswerTypes, PlainFit
<1>4. Resuming(p)'
  <2>1. todo' = <<Then("restart_sigs", p), Sendreply>>
    BY <1>1 DEF ThenRestart
  <2>2. Then("restart_sigs", p).op = "restart_sigs" /\ Then("restart_sigs", p).p = p
    BY DEF Then, Frame
  <2>3. 1 \in 1 .. Len(todo') /\ todo'[1] = Then("restart_sigs", p)
    BY <2>1
  <2> QED BY <2>2, <2>3 DEF Resuming, OnStack, At
<1>5. PICK typ \in {"PM_SETUID", "PM_UNPAUSE"}, g \in {"REPLY", "UNPAUSED"} :
        /\ VfsReply(typ, p) /\ g = (IF typ = "PM_SETUID" THEN "REPLY" ELSE "UNPAUSED")
        /\ flags' = [flags EXCEPT ![p] = (@ \ {"VFS_CALL"}) \cup {g}]
  <2>1. CASE SetuidReply(p)
    BY <2>1 DEF SetuidReply
  <2>2. CASE UnpauseReply(p)
    BY <2>2 DEF UnpauseReply
  <2> QED BY <2>1, <2>2
<1>6. /\ flags' \in [Proc -> SUBSET Flag] /\ flags'[p] = (flags[p] \ {"VFS_CALL"}) \cup {g}
      /\ \A q \in Proc \ {p} : flags'[q] = flags[q]
  BY <1>0, <1>5 DEF VarTypes, Flag
<1>7. /\ \A f \in CoreFlag \ {"VFS_CALL", "UNPAUSED"} : f \in flags'[p] <=> f \in flags[p]
      /\ "VFS_CALL" \notin flags'[p] /\ ("UNPAUSED" \in flags'[p] => typ = "PM_UNPAUSE")
  BY <1>1, <1>5, <1>6 DEF CoreFlag, VfsIdle, Is
<1> QED BY <1>1, <1>2, <1>3, <1>4, <1>5, <1>6, <1>7, ReplyOfAlive

LEMMA ForkReplyKeeps ==
    ASSUME PmInv, NEW p \in Proc, NEW ok \in BOOLEAN, ForkReply(p, ok)
    PROVE  PmInv'
<1>0. VarTypes
  BY TypesSplit DEF PmInv
<1>1. /\ VfsReply("PM_FORK", p) /\ UNCHANGED <<table, sigs, kernel, stop>> /\ VfsIdle(p)
  BY DEF ForkReply
<1>2. \A q \in Proc : flags'[q] = (flags[q] \ {f \in {"VFS_CALL"} : q = p})
                                   \cup {f \in {"REPLY"} : ok /\ q \in {p, parent[p]}}
  BY DEF ForkReply
<1>3. /\ flags' \in [Proc -> SUBSET Flag]
      /\ \A f \in Flag \ {"VFS_CALL", "REPLY"} : f \in flags'[p] <=> f \in flags[p]
      /\ "VFS_CALL" \notin flags'[p]
      /\ \A q \in Proc \ {p} : \A f \in Flag \ {"REPLY"} : f \in flags'[q] <=> f \in flags[q]
  <2>1. \A q \in Proc : flags'[q] \in SUBSET Flag
    BY <1>0, <1>2 DEF VarTypes, Flag
  <2>2. flags' \in [Proc -> SUBSET Flag]
    BY <2>1 DEF ForkReply
  <2> QED BY <1>2, <2>2
<1>4. /\ \A q \in Proc \ {p} : \A f \in CoreFlag : f \in flags'[q] <=> f \in flags[q]
      /\ \A f \in CoreFlag \ {"VFS_CALL", "UNPAUSED"} : f \in flags'[p] <=> f \in flags[p]
      /\ "VFS_CALL" \notin flags'[p] /\ "UNPAUSED" \notin flags'[p]
  BY <1>1, <1>3 DEF Flag, CoreFlag, VfsIdle, Is
<1>5. \E fr \in Seq(StackFrame) :
        todo' = fr /\ (Alive(p)' => FramesFit(fr)) /\ (Resuming(p)' \/ Dying(p)')
  <2>1. CASE ok
    <3>1. todo' = ThenRestart(p)
      BY <2>1 DEF ForkReply
    <3>2. PICK fr : fr = ThenRestart(p)
      OBVIOUS
    <3>3. fr \in Seq(StackFrame) /\ FramesFit(fr)
      BY <3>2, AnswerTypes, PlainFit
    <3>4. Resuming(p)'
      <4>1. todo' = <<Then("restart_sigs", p), Sendreply>>
        BY <3>1 DEF ThenRestart
      <4>2. Then("restart_sigs", p).op = "restart_sigs" /\ Then("restart_sigs", p).p = p
        BY DEF Then, Frame
      <4>3. 1 \in 1 .. Len(todo') /\ todo'[1] = Then("restart_sigs", p)
        BY <4>1
      <4> QED BY <4>2, <4>3 DEF Resuming, OnStack, At
    <3> QED BY <3>1, <3>2, <3>3, <3>4
  <2>2. CASE ~ok
    <3>1. PICK f, g, h : f = exit_procFrame(p, FALSE) /\ g = Then("fork_failed", p) /\ h = Sendreply
      OBVIOUS
    <3>2. todo' = <<f, g, h>>
      BY <2>2, <3>1 DEF ForkReply
    <3>3. f \in StackFrame /\ f.op = "exit_proc" /\ f.p = p
      BY <3>1, FrameTypes DEF exit_procFrame, Frame
    <3>4. g \in PlainFrame /\ h \in PlainFrame
      BY <3>1, PlainFrameTypes DEF PlainThen
    <3>5. g \in StackFrame /\ h \in StackFrame /\ Plain(g) /\ Plain(h)
      BY <3>4 DEF PlainFrame
    <3>6. PICK fr : fr = <<f, g, h>>
      OBVIOUS
    <3>7. fr \in Seq(StackFrame) /\ Len(fr) = 3 /\ fr[1] = f /\ fr[2] = g /\ fr[3] = h
      BY <3>3, <3>5, <3>6
    <3>8. Alive(p)' => FramesFit(fr)
      BY <3>3, <3>5, <3>7 DEF FramesFit, Plain
    <3>9. Dying(p)'
      BY <3>2, <3>3, <3>6, <3>7 DEF Dying, At
    <3> QED BY <3>2, <3>6, <3>7, <3>8, <3>9
  <2> QED BY <2>1, <2>2
<1> QED BY <1>1, <1>3, <1>4, <1>5, ReplyOfAlive

\* exit_restart, after an exit or a core dump.
LEMMA ClearingKeeps ==
    ASSUME PmInv, NEW p \in Proc, ExitReply(p) \/ CoreReply(p)
    PROVE  PmInv'
<1>0. VarTypes /\ ProcInv(p)
  BY TypesSplit DEF PmInv
<1>1. Cleared(p) /\ UNCHANGED <<table, sigs, stop>>
  BY DEF ExitReply, CoreReply
<1>2. PICK typ \in {"PM_EXIT", "PM_DUMPCORE"}, Z \in SUBSET {"ZOMBIE"} :
        /\ VfsReply(typ, p)
        /\ typ = "PM_EXIT" <=> Z = {}
        /\ flags' = [flags EXCEPT ![p] = (@ \ {"VFS_CALL"}) \cup Z]
  <2>1. CASE ExitReply(p)
    <3>1. flags' = [flags EXCEPT ![p] = (@ \ {"VFS_CALL"}) \cup {}]
      BY <2>1 DEF ExitReply
    <3> QED BY <2>1, <3>1 DEF ExitReply
  <2>2. CASE CoreReply(p)
    BY <2>2 DEF CoreReply
  <2> QED BY <2>1, <2>2
<1>3. /\ todo = <<>> /\ Is(p, "VFS_CALL") /\ Is(p, "IN_USE") /\ Is(p, "EXITING")
      /\ kstate[p] # "none" /\ kstate[p] # "cleared"
      /\ typ = "PM_EXIT" => Is(p, "ZOMBIE") \/ Is(p, "TOLD_PARENT")
      /\ \A r \in vfs' : r.p # p
      /\ \A r \in vfs \cup vfs' : r.p # p => (r \in vfs' <=> r \in vfs)
      /\ vfs' \subseteq vfs /\ mpgrp' = NoGroup /\ post' = NoPost
  BY <1>2, VfsAnswered
<1>4. /\ flags' \in [Proc -> SUBSET Flag] /\ flags'[p] = (flags[p] \ {"VFS_CALL"}) \cup Z
      /\ kstate' \in [Proc -> {"none", "running", "sending", "receiving", "cleared"}]
      /\ kstate'[p] = "cleared"
      /\ delay' \in [Proc -> {"no", "armed", "raised"}] /\ delay'[p] = "no" /\ call' = call
      /\ \A q \in Proc \ {p} : flags'[q] = flags[q] /\ kstate'[q] = kstate[q] /\ delay'[q] = delay[q]
  BY <1>0, <1>1, <1>2 DEF VarTypes, Flag, Cleared
<1>5. VarTypes'
  BY <1>0, <1>1, <1>3, <1>4, NoPostType DEF VarTypes, table, sigs
<1>6. \A q \in Proc \ {p} : SameAt(q)
  BY <1>1, <1>3, <1>4, SameElsewhere
<1>7. /\ Is(p, "IN_USE")' /\ Is(p, "EXITING")' /\ ~Is(p, "VFS_CALL")' /\ ~Alive(p)'
      /\ Is(p, "ZOMBIE")' \/ Is(p, "TOLD_PARENT")'
  BY <1>2, <1>3, <1>4 DEF Is, Alive
<1>8. PICK h, e, s : /\ h = check_parentFrame(p, FALSE) /\ e = Then("exit_restart_end", p)
                     /\ s = Sendreply
  OBVIOUS
<1>9. /\ h \in StackFrame /\ h.op = "check_parent" /\ h.p = p
      /\ e \in StackFrame /\ e.op = "exit_restart_end" /\ e.p = p
      /\ s \in StackFrame /\ Plain(s)
  <2>1. h \in StackFrame /\ h.op = "check_parent" /\ h.p = p
    BY <1>8, FrameTypes DEF check_parentFrame, Frame
  <2>2. e \in StackFrame /\ e.op = "exit_restart_end" /\ e.p = p
    <3>1. "exit_restart_end" \in Function \ {"sig_proc", "check_sig"}
      BY DEF Function
    <3>2. 0 \in Signal \cup {0} /\ TRUE \in BOOLEAN /\ {} \in SUBSET Proc
      OBVIOUS
    <3>3. e \in StackFrame
      BY <1>8, <3>1, <3>2, FrameTypes, Zenon
    <3> QED BY <1>8, <3>3 DEF Then, Frame
  <2>3. s \in StackFrame /\ Plain(s)
    BY <1>8, PlainFrameTypes DEF PlainFrame
  <2> QED BY <2>1, <2>2, <2>3
<1>10. PICK fr : /\ fr \in Seq(StackFrame) /\ todo' = fr /\ FramesFit(fr)
                 /\ OnStack("exit_restart_end", p)'
  <2>1. CASE ExitReply(p)
    <3>1. PICK fr : fr = <<e, s>>
      OBVIOUS
    <3>2. fr \in Seq(StackFrame) /\ Len(fr) = 2 /\ fr[1] = e /\ fr[2] = s /\ todo' = fr
      BY <1>8, <1>9, <2>1, <3>1 DEF ExitReply
    <3>3. FramesFit(fr)
      BY <1>4, <1>9, <3>2 DEF FramesFit, Plain
    <3>4. OnStack("exit_restart_end", p)'
      BY <1>9, <3>2 DEF OnStack, At
    <3> QED BY <3>2, <3>3, <3>4
  <2>2. CASE CoreReply(p)
    <3>1. PICK fr : fr = <<h, e, s>>
      OBVIOUS
    <3>2. /\ fr \in Seq(StackFrame) /\ Len(fr) = 3 /\ fr[1] = h /\ fr[2] = e /\ fr[3] = s
          /\ todo' = fr
      <4>1. todo' = <<h, e, s>>
        BY <1>8, <2>2, Zenon DEF CoreReply
      <4> QED BY <1>9, <3>1, <4>1
    <3>3. FramesFit(fr)
      BY <1>4, <1>9, <3>2 DEF FramesFit, Plain
    <3>4. OnStack("exit_restart_end", p)'
      <4>0. Len(todo') = 3 /\ todo'[2] = e
        BY <3>2, Zenon
      <4>1. 2 \in 1 .. Len(todo') /\ todo'[2] = e
        BY <4>0
      <4> QED BY <1>9, <4>1 DEF OnStack, At
    <3> QED BY <3>2, <3>3, <3>4
  <2> QED BY <2>1, <2>2
<1>11. ProcInv(p)'
  <2>1. VfsInv(p)'
    BY <1>3, <1>7 DEF VfsInv
  <2>2. LifeInv(p)'
    BY <1>4, <1>7, <1>10 DEF LifeInv, Is
  <2>3. StopInv(p)' /\ DelayInv(p)'
    BY <1>4, <1>7 DEF StopInv, DelayInv
  <2> QED BY <2>1, <2>2, <2>3 DEF ProcInv
<1> QED BY <1>3, <1>5, <1>6, <1>10, <1>11, StartKeeps

\* exit: exit_proc is next.
LEMMA DoExitKeeps ==
    ASSUME PmInv, NEW p \in Proc, do_exit(p)
    PROVE  PmInv'
<1>0. VarTypes /\ ProcInv(p) /\ todo \in Seq(StackFrame)
  BY TypesSplit DEF PmInv
<1>1. /\ todo = <<>> /\ kstate[p] = "sending" /\ Alive(p) /\ SendingEnds(p) /\ Received(p)
      /\ mpgrp' \in Proc \cup {NoGroup} /\ post' = NoPost
      /\ UNCHANGED <<flags, table, sigs, vfs, stop>>
  BY <1>0 DEF do_exit, Receives, VarTypes
<1>2. PICK f, s : f = exit_procFrame(p, FALSE) /\ s = Sendreply
  OBVIOUS
<1>3. PICK fr : fr = <<f, s>>
  OBVIOUS
<1>4. f \in StackFrame /\ f.op = "exit_proc" /\ f.p = p
  BY <1>2, FrameTypes DEF exit_procFrame, Frame
<1>5. s \in StackFrame /\ Plain(s)
  BY <1>2, PlainFrameTypes DEF PlainFrame
<1>6. fr \in Seq(StackFrame) /\ Len(fr) = 2 /\ fr[1] = f /\ fr[2] = s
  BY <1>3, <1>4, <1>5
<1>7. todo' = fr
  BY <1>2, <1>3, Zenon DEF do_exit
<1>8. VarTypes'
  BY <1>0, <1>1, TypesWhenReceived DEF VarTypes, table, sigs
<1>9. \A q \in Proc : SameAt(q)
  BY <1>1, SameWhenReceived
<1>10. Alive(p)'
  BY <1>1 DEF Alive
<1>11. FramesFit(fr)
  BY <1>4, <1>5, <1>6, <1>10 DEF FramesFit, Plain
<1>12. ProcInv(p)'
  <2>1. StackShape(fr)
    BY <1>0, <1>1, <1>6, <1>7, Starting, PushShape
  <2>2. StaysOnStack(p)
    BY <1>1, <2>1, StaysUnlessTop
  <2> QED BY <1>0, <1>9, <2>2, ProcKept
<1> QED BY <1>1, <1>6, <1>7, <1>8, <1>9, <1>11, <1>12, StartKeeps

\* The child is a new process that VFS is told of.
LEMMA DoForkKeeps ==
    ASSUME PmInv, NEW p \in Proc, do_fork(p)
    PROVE  PmInv'
<1>0. VarTypes /\ \A q \in Proc : ProcInv(q)
  BY TypesSplit DEF PmInv
<1>1. /\ todo = <<>> /\ kstate[p] = "sending" /\ Alive(p) /\ SendingEnds(p)
      /\ mpgrp' \in Proc \cup {NoGroup} /\ post' = NoPost /\ todo' = <<Sendreply>> /\ stop' = stop
  BY <1>0 DEF do_fork, Receives, VarTypes
<1>2. PICK c \in Proc :
        /\ kstate[c] = "none"
        /\ flags' = [flags EXCEPT ![c] = (flags[p] \cap {"IN_USE", "DELAY_CALL"}) \cup {"VFS_CALL"}]
        /\ parent' = [parent EXCEPT ![c] = p] /\ pgrp' = [pgrp EXCEPT ![c] = pgrp[p]]
        /\ ignore' = [ignore EXCEPT ![c] = ignore[p]] /\ catch' = [catch EXCEPT ![c] = catch[p]]
        /\ pending' = [pending EXCEPT ![c] = pending[p]]
        /\ ksigpending' = [ksigpending EXCEPT ![c] = ksigpending[p]]
        /\ sigmask' = [sigmask EXCEPT ![c] = sigmask[p]]
        /\ tell_vfs("PM_FORK", c)
        /\ kstate' = [kstate EXCEPT ![p] = "receiving", ![c] = "receiving"]
        /\ call' = [call EXCEPT ![c] = call[p]]
  BY DEF do_fork
<1>3. p # c
  BY <1>1, <1>2
<1>4. PICK m : /\ m.typ = "PM_FORK" /\ m.p = c /\ vfs' = vfs \cup {m}
               /\ \A r \in vfs \cup vfs' : r.p # c => (r \in vfs' <=> r \in vfs)
  BY <1>2, AskVfs
<1>5. PICK F : F = (flags[p] \cap {"IN_USE", "DELAY_CALL"}) \cup {"VFS_CALL"}
  OBVIOUS
<1>6. /\ flags' \in [Proc -> SUBSET Flag] /\ flags'[c] = F
      /\ \A q \in Proc \ {c} : flags'[q] = flags[q]
  <2>1. F \in SUBSET Flag
    BY <1>5 DEF Flag
  <2> QED BY <1>0, <1>2, <1>5, <2>1 DEF VarTypes
<1>7. /\ kstate' \in [Proc -> {"none", "running", "sending", "receiving", "cleared"}]
      /\ kstate'[c] = "receiving" /\ kstate'[p] = "receiving"
      /\ \A q \in Proc \ {c, p} : kstate'[q] = kstate[q]
  BY <1>0, <1>2, <1>3 DEF VarTypes
<1>8. /\ delay' \in [Proc -> {"no", "armed", "raised"}]
      /\ delay'[p] = (IF delay[p] = "armed" THEN "raised" ELSE delay[p])
      /\ \A q \in Proc \ {p} : delay'[q] = delay[q]
  BY <1>0, <1>1 DEF VarTypes, SendingEnds
<1>9. VarTypes'
  <2>1. vfs' \subseteq [typ : {"PM_SETUID", "PM_UNPAUSE", "PM_FORK", "PM_EXIT", "PM_DUMPCORE"}, p : Proc]
    BY <1>0, <1>2 DEF VarTypes, tell_vfs
  <2>2. /\ parent' \in [Proc -> Proc] /\ pgrp' \in [Proc -> Proc]
        /\ pending' \in [Proc -> SUBSET Signal] /\ ksigpending' \in [Proc -> SUBSET Signal]
        /\ sigmask' \in [Proc -> SUBSET Signal] /\ ignore' \in [Proc -> SUBSET Signal]
        /\ catch' \in [Proc -> SUBSET Signal]
    BY <1>0, <1>2 DEF VarTypes
  <2>3. /\ call' \in [Proc -> CallType]
        /\ \A q \in Proc : call'[q].typ \in NamesSignal => call'[q].sig \in Signal
    BY <1>0, <1>2 DEF VarTypes
  <2> QED BY <1>0, <1>1, <1>6, <1>7, <1>8, <2>1, <2>2, <2>3, NoPostType DEF VarTypes
<1>10. \A q \in Proc \ {c} : SameAt(q)
  <2> SUFFICES ASSUME NEW q \in Proc \ {c} PROVE SameAt(q)
    OBVIOUS
  <2>1. CASE q = p
    BY <1>0, <1>1, <1>4, <1>6, <1>7, <1>8, <2>1 DEF SameAt, VarTypes
  <2>2. CASE q # p
    <3>1. kstate'[q] = kstate[q] /\ delay'[q] = delay[q]
      BY <1>7, <1>8, <2>2
    <3> QED BY <1>0, <1>1, <1>4, <1>6, <3>1 DEF SameAt, ProcInv, DelayInv
  <2> QED BY <2>1, <2>2
<1>11. ProcInv(c)'
  <2>0. ~Is(c, "VFS_CALL") /\ ~stop[c] /\ c \notin Booted
    BY <1>0, <1>2 DEF ProcInv, LifeInv, Is
  <2>1. \A r \in vfs' : r.p = c => r = m
    BY <1>0, <1>4, <2>0, NoRequest DEF ProcInv
  <2>2. /\ Is(c, "VFS_CALL")' /\ Is(c, "IN_USE")' /\ ~Is(c, "EXITING")' /\ ~Is(c, "ZOMBIE")'
        /\ ~Is(c, "TOLD_PARENT")' /\ ~Is(c, "PM_SIG_PENDING")' /\ ~Is(c, "UNPAUSED")'
    BY <1>1, <1>5, <1>6 DEF Is, Alive
  <2>3. VfsInv(c)'
    BY <1>4, <2>1, <2>2 DEF VfsInv
  <2>4. LifeInv(c)'
    BY <1>7, <2>2 DEF LifeInv, Is
  <2>5. StopInv(c)'
    BY <1>1, <2>0, <2>2 DEF StopInv
  <2>6. DelayInv(c)'
    BY <1>7, <2>0 DEF DelayInv
  <2> QED BY <2>3, <2>4, <2>5, <2>6 DEF ProcInv
<1>12. <<Sendreply>> \in Seq(StackFrame) /\ FramesFit(<<Sendreply>>)
  BY AnswerTypes, PlainFit
<1> QED BY <1>1, <1>9, <1>10, <1>11, <1>12, StartKeeps

\* setuid and its like are passed on to VFS.
LEMMA DoSetuidKeeps ==
    ASSUME PmInv, NEW p \in Proc, do_setuid(p)
    PROVE  PmInv'
<1>0. VarTypes /\ \A q \in Proc : ProcInv(q)
  BY TypesSplit DEF PmInv
<1>1. /\ todo = <<>> /\ kstate[p] = "sending" /\ Alive(p) /\ SendingEnds(p) /\ Received(p)
      /\ mpgrp' \in Proc \cup {NoGroup} /\ post' = NoPost /\ todo' = <<Sendreply>>
      /\ ~Is(p, "VFS_CALL") /\ flags' = [flags EXCEPT ![p] = @ \cup {"VFS_CALL"}]
      /\ tell_vfs("PM_SETUID", p) /\ UNCHANGED <<table, sigs, stop>>
  BY <1>0 DEF do_setuid, Receives, VarTypes
<1>2. PICK m : /\ m.typ = "PM_SETUID" /\ m.p = p /\ vfs' = vfs \cup {m}
               /\ \A r \in vfs \cup vfs' : r.p # p => (r \in vfs' <=> r \in vfs)
  BY <1>1, AskVfs
<1>3. /\ flags' \in [Proc -> SUBSET Flag] /\ flags'[p] = flags[p] \cup {"VFS_CALL"}
      /\ \A q \in Proc \ {p} : flags'[q] = flags[q]
  BY <1>0, <1>1 DEF VarTypes, Flag
<1>4. /\ kstate' \in [Proc -> {"none", "running", "sending", "receiving", "cleared"}]
      /\ kstate'[p] = "receiving" /\ call' = call
      /\ delay' \in [Proc -> {"no", "armed", "raised"}] /\ (delay'[p] = "no" => delay[p] = "no")
      /\ \A q \in Proc \ {p} : kstate'[q] = kstate[q] /\ delay'[q] = delay[q]
  BY <1>0, <1>1 DEF VarTypes, SendingEnds, Received
<1>5. VarTypes'
  <2>1. vfs' \subseteq [typ : {"PM_SETUID", "PM_UNPAUSE", "PM_FORK", "PM_EXIT", "PM_DUMPCORE"}, p : Proc]
    BY <1>0, <1>1 DEF VarTypes, tell_vfs
  <2> QED BY <1>0, <1>1, <1>3, <1>4, <2>1, NoPostType DEF VarTypes, table, sigs
<1>6. \A q \in Proc \ {p} : SameAt(q)
  BY <1>1, <1>2, <1>3, <1>4, SameElsewhere
<1>7. ProcInv(p)'
  <2>0. ~Dying(p) /\ ~Resuming(p)
    BY <1>1, AtRest
  <2>1. \A r \in vfs' : r.p = p => r = m
    BY <1>0, <1>1, <1>2, NoRequest DEF ProcInv
  <2>2. /\ \A f \in CoreFlag \ {"VFS_CALL"} : Is(p, f)' <=> Is(p, f)
        /\ Is(p, "VFS_CALL")' /\ Alive(p)'
    BY <1>1, <1>3 DEF Is, Alive
  <2>3. ~Is(p, "EXITING")'
    BY <2>2 DEF Alive, Is
  <2>4. VfsInv(p)'
    BY <1>2, <2>1, <2>2, <2>3 DEF VfsInv
  <2>5. LifeInv(p)'
    BY <1>0, <1>1, <1>4, <2>2, <2>3, AliveKnown DEF ProcInv, LifeInv, CoreFlag, Is, Alive
  <2>6. StopInv(p)'
    BY <1>0, <1>1, <2>0, <2>2 DEF ProcInv, StopInv, CoreFlag
  <2>7. DelayInv(p)'
    BY <1>0, <1>1, <1>4, <2>2 DEF ProcInv, DelayInv, CoreFlag
  <2> QED BY <2>4, <2>5, <2>6, <2>7 DEF ProcInv
<1>8. <<Sendreply>> \in Seq(StackFrame) /\ FramesFit(<<Sendreply>>)
  BY AnswerTypes, PlainFit
<1> QED BY <1>1, <1>5, <1>6, <1>7, <1>8, StartKeeps

\* A SIGSNDELAY ends the delay call.
LEMMA SignalSendDelayKeeps ==
    ASSUME PmInv, NEW p \in Proc, SignalSendDelay(p)
    PROVE  PmInv'
<1>0. VarTypes /\ ProcInv(p) /\ todo \in Seq(StackFrame)
  BY TypesSplit DEF PmInv
<1>1. /\ todo = <<>> /\ delay[p] = "raised" /\ mpgrp' \in Proc \cup {NoGroup} /\ post' = NoPost
      /\ UNCHANGED <<table, sigs, vfs, kernel, stop>>
  BY <1>0 DEF SignalSendDelay, VarTypes
<1>2. PICK D \in SUBSET {"DELAY_CALL"} :
        /\ flags' = [flags EXCEPT ![p] = @ \ D]
        /\ Alive(p) /\ Is(p, "DELAY_CALL") => D = {"DELAY_CALL"}
  <2>1. CASE Alive(p) /\ Is(p, "DELAY_CALL")
    BY <2>1 DEF SignalSendDelay
  <2>2. CASE ~(Alive(p) /\ Is(p, "DELAY_CALL"))
    <3>1. flags' = flags /\ flags = [flags EXCEPT ![p] = flags[p] \ {}]
      BY <1>0, <2>2 DEF SignalSendDelay, VarTypes
    <3>2. {} \in SUBSET {"DELAY_CALL"}
      OBVIOUS
    <3> QED BY <2>2, <3>1, <3>2, Zenon
  <2> QED BY <2>1, <2>2
<1>3. /\ flags' \in [Proc -> SUBSET Flag] /\ flags'[p] = flags[p] \ D
      /\ \A q \in Proc \ {p} : flags'[q] = flags[q]
  BY <1>0, <1>2 DEF VarTypes
<1>4. UNCHANGED <<kstate, delay>>
  BY <1>1 DEF kernel
<1>5. VarTypes'
  BY <1>0, <1>1, <1>3, NoPostType DEF VarTypes, table, sigs, kernel
<1>6. \A q \in Proc \ {p} : SameAt(q)
  BY <1>1, <1>3, <1>4, SameElsewhere
<1>7. /\ \A f \in CoreFlag \ {"DELAY_CALL"} : Is(p, f)' <=> Is(p, f)
      /\ Alive(p)' <=> Alive(p)
      /\ Alive(p)' => ~Is(p, "DELAY_CALL")'
  BY <1>2, <1>3 DEF Is, Alive
<1>8. ProcInv(p)'
  <2>1. ~Dying(p) /\ ~Resuming(p) /\ ~OnStack("exit_restart_end", p)
    BY <1>1, AtRest
  <2>2. VfsInv(p)'
    BY <1>0, <1>1, <1>7 DEF ProcInv, VfsInv, CoreFlag
  <2>3. LifeInv(p)'
    BY <1>0, <1>1, <1>3, <1>4, <1>7, <2>1 DEF ProcInv, LifeInv, CoreFlag, Is
  <2>4. StopInv(p)'
    BY <1>0, <1>1, <1>7, <2>1 DEF ProcInv, StopInv, CoreFlag
  <2>5. DelayInv(p)'
    BY <1>0, <1>4, <1>7 DEF ProcInv, DelayInv
  <2> QED BY <2>2, <2>3, <2>4, <2>5 DEF ProcInv
<1>9. PICK c, k, s, e : /\ c = check_pendingFrame(p, 0) /\ k = Then("ksig_end", p)
                        /\ s = Sendreply /\ e = Then("sys_endksig", p)
  OBVIOUS
<1>10. /\ c \in StackFrame /\ k \in StackFrame /\ s \in StackFrame /\ Plain(c) /\ Plain(k) /\ Plain(s)
       /\ e \in StackFrame /\ e.op = "sys_endksig" /\ e.p = p
  <2>1. c \in PlainFrame /\ k \in PlainFrame /\ s \in PlainFrame
    BY <1>9, PlainFrameTypes DEF PlainThen
  <2>2. "sys_endksig" \in Function \ {"sig_proc", "check_sig"}
    BY DEF Function
  <2>3. 0 \in Signal \cup {0} /\ TRUE \in BOOLEAN /\ {} \in SUBSET Proc
    OBVIOUS
  <2>4. e \in StackFrame
    BY <1>9, <2>2, <2>3, FrameTypes, Zenon
  <2>5. e.op = "sys_endksig" /\ e.p = p
    BY <1>9 DEF Then, Frame
  <2> QED BY <2>1, <2>4, <2>5 DEF PlainFrame
<1>11. todo' = <<s, e>> \/ todo' = <<c, k>> \o <<s, e>>
  BY <1>9 DEF SignalSendDelay
<1>12. PICK fr \in Seq(StackFrame) : todo' = fr /\ FramesFit(fr)
  <2>1. ASSUME NEW fr, fr = <<s, e>> PROVE fr \in Seq(StackFrame) /\ FramesFit(fr)
    <3>1. fr \in Seq(StackFrame) /\ Len(fr) = 2 /\ fr[1] = s /\ fr[2] = e
      BY <1>10, <2>1
    <3> QED BY <1>1, <1>4, <1>7, <1>10, <3>1 DEF FramesFit, Plain
  <2>2. ASSUME NEW fr, fr = <<c, k>> \o <<s, e>> PROVE fr \in Seq(StackFrame) /\ FramesFit(fr)
    <3>1. fr \in Seq(StackFrame) /\ Len(fr) = 4 /\ fr[1] = c /\ fr[2] = k /\ fr[3] = s /\ fr[4] = e
      <4>1. PICK ck, se : ck = <<c, k>> /\ se = <<s, e>>
        OBVIOUS
      <4>2. /\ ck \in Seq(StackFrame) /\ Len(ck) = 2 /\ ck[1] = c /\ ck[2] = k
            /\ se \in Seq(StackFrame) /\ Len(se) = 2 /\ se[1] = s /\ se[2] = e
        BY <1>10, <4>1
      <4>3. fr = ck \o se
        BY <2>2, <4>1
      <4>4. /\ ck \o se \in Seq(StackFrame) /\ Len(ck \o se) = Len(ck) + Len(se)
            /\ \A i \in 1 .. Len(ck) + Len(se) :
                 (ck \o se)[i] = IF i <= Len(ck) THEN ck[i] ELSE se[i - Len(ck)]
        BY <4>2, ConcatProperties
      <4>5. \A i \in 1 .. 4 : fr[i] = IF i <= 2 THEN ck[i] ELSE se[i - 2]
        BY <4>2, <4>3, <4>4
      <4>6. fr[1] = ck[1] /\ fr[2] = ck[2] /\ fr[3] = se[1] /\ fr[4] = se[2]
        BY <4>5
      <4> QED BY <4>2, <4>3, <4>4, <4>6
    <3> QED BY <1>1, <1>4, <1>7, <1>10, <3>1 DEF FramesFit, Plain
  <2> QED BY <1>11, <2>1, <2>2
<1> QED BY <1>1, <1>5, <1>6, <1>8, <1>12, StartKeeps

-----------------------------------------------------------------------------
(***************************************************************************)
(* The invariant.                                                          *)
(***************************************************************************)
LEMMA InitInvariant == Init => PmInv
<1> SUFFICES ASSUME Init PROVE PmInv
  OBVIOUS
<1>1. VarTypes
  <2>1. flags \in [Proc -> SUBSET Flag]
    BY DEF Init, Flag
  <2>2. call \in [Proc -> CallType] /\ \A p \in Proc : call[p].typ \notin NamesSignal
    BY DEF Init, CallType, NamesSignal
  <2> QED BY <2>1, <2>2, NoPostType, ProcAssumption DEF Init, VarTypes
<1>2. todo \in Seq(StackFrame) /\ Len(todo) = 0
  BY DEF Init
<1>3. TypeInv
  BY <1>1, <1>2, TypesJoin DEF StackTyped
<1>4. StackInv
  BY <1>2 DEF StackInv
<1>5. ASSUME NEW p \in Proc PROVE ProcInv(p)
  <2>1. /\ flags[p] = IF p \in Booted THEN {"IN_USE"} ELSE {}
        /\ kstate[p] = IF p \in Booted THEN "running" ELSE "none"
        /\ ~stop[p] /\ vfs = {} /\ delay[p] = "no"
    BY DEF Init
  <2>2. VfsInv(p)
    BY <2>1 DEF VfsInv, Is
  <2>3. LifeInv(p)
    BY <2>1 DEF LifeInv, Is, Alive
  <2>4. StopInv(p)
    BY <2>1 DEF StopInv, Is
  <2>5. DelayInv(p)
    BY <2>1 DEF DelayInv, Is
  <2> QED BY <2>2, <2>3, <2>4, <2>5 DEF ProcInv
<1> QED BY <1>3, <1>4, <1>5 DEF PmInv

LEMMA StutterInvariant == PmInv /\ UNCHANGED vars => PmInv'
<1> SUFFICES ASSUME PmInv, UNCHANGED vars PROVE PmInv'
  OBVIOUS
<1>1. VarTypes
  BY TypesSplit DEF PmInv
<1>2. VarTypes'
  BY <1>1 DEF vars, VarTypes
<1>3. \A q \in Proc : SameAt(q)
  BY SameWhenQuiet DEF vars
<1> QED BY <1>2, <1>3, OutsideKeeps DEF vars

LEMMA NextInvariant == PmInv /\ [Next]_vars => PmInv'
<1> SUFFICES ASSUME PmInv, [Next]_vars PROVE PmInv'
  OBVIOUS
<1>1. CASE PmStep
  <2>1. CASE SigBlocked \/ SigIgnored \/ UnpauseLater
    BY <2>1, SigKeptKeeps
  <2>2. CASE SigDuringVfsCall
    BY <2>2, SigDuringVfsCallKeeps
  <2>3. CASE SigFatal
    BY <2>3, SigFatalKeeps
  <2>4. CASE UnpauseBusy
    BY <2>4, UnpauseBusyKeeps
  <2>5. CASE UnpauseByVfs
    BY <2>5, UnpauseByVfsKeeps
  <2>6. CASE \E ok \in BOOLEAN : sig_send(ok)
    BY <2>6, SigSendKeeps
  <2>7. CASE check_sig
    BY <2>7, CheckSigKeeps
  <2>8. CASE check_pending
    BY <2>8, CheckPendingKeeps
  <2>9. CASE restart_sigs
    BY <2>9, RestartSigsKeeps
  <2>10. CASE restart_sigs_end
    BY <2>10, RestartSigsEndKeeps
  <2>11. CASE exit_proc
    BY <2>11, ExitProcKeeps
  <2>12. CASE disinherit
    BY <2>12, DisinheritKeeps
  <2>13. CASE check_parent
    BY <2>13, CheckParentKeeps
  <2>14. CASE exit_restart_end
    BY <2>14, ExitRestartEndKeeps
  <2>15. CASE setreply \/ fork_failed \/ kill_result \/ ksig_end
    BY <2>15, ReplyFlagKeeps
  <2>16. CASE sendreply
    BY <2>16, SendreplyKeeps
  <2>17. CASE sys_endksig
    BY <2>17, SysEndksigKeeps
  <2> QED BY <1>1, <2>1, <2>2, <2>3, <2>4, <2>5, <2>6, <2>7, <2>8, <2>9, <2>10, <2>11, <2>12,
             <2>13, <2>14, <2>15, <2>16, <2>17 DEF PmStep
<1>2. ASSUME NEW p \in Proc, PmCall(p) PROVE PmInv'
  <2>1. CASE \/ do_pause(p) \/ do_sigsuspend(p) \/ do_sigprocmask_block(p)
             \/ do_sigprocmask_set(p) \/ do_sigaction(p)
    BY <2>1, SignalCallKeeps
  <2>2. CASE do_kill(p) \/ WaitHangs(p) \/ WaitRefused(p) \/ ForkRefused(p)
    BY <2>2, OtherCallKeeps
  <2>3. CASE DropCall(p)
    BY <2>3, OutsideStepKeeps
  <2>4. CASE do_exit(p)
    BY <2>4, DoExitKeeps
  <2>5. CASE WaitCollects(p)
    BY <2>5, WaitCollectsKeeps
  <2>6. CASE do_fork(p)
    BY <2>6, DoForkKeeps
  <2>7. CASE do_setuid(p)
    BY <2>7, DoSetuidKeeps
  <2> QED BY <1>2, <2>1, <2>2, <2>3, <2>4, <2>5, <2>6, <2>7 DEF PmCall
<1>3. ASSUME NEW p \in Proc, handle_vfs_reply(p) PROVE PmInv'
  BY <1>3, SetuidUnpauseReplyKeeps, ForkReplyKeeps, ClearingKeeps DEF handle_vfs_reply
<1>4. ASSUME NEW p \in Proc, SignalSendDelay(p) PROVE PmInv'
  BY <1>4, SignalSendDelayKeeps
<1>5. ASSUME NEW p \in Proc, \/ ServerReceives(p) \/ ServerAnswers(p) \/ \E c \in Calls[p] : Sends(p, c)
      PROVE  PmInv'
  BY <1>5, OutsideStepKeeps
<1>6. ASSUME NEW p \in Proc, NEW s \in KernelSigs, KernelSignal(p, s) PROVE PmInv'
  BY <1>6, KernelSignalKeeps
<1>7. CASE UNCHANGED vars
  BY <1>7, StutterInvariant
<1> QED BY <1>1, <1>2, <1>3, <1>4, <1>5, <1>6, <1>7 DEF Next

\* PmInv holds throughout: flags, stack, VFS and the kernel agree about every
\* process, whatever the processes call, VFS answers and the kernel signals.
THEOREM PmInvariantHolds == Spec => []PmInv
<1>1. Init => PmInv
  BY InitInvariant
<1>2. PmInv /\ [Next]_vars => PmInv'
  BY NextInvariant
<1> QED BY <1>1, <1>2, PTL DEF Spec

\* Types: signal handling, exits and replies keep every variable in its range,
\* and every frame of PM's stack names a process and a signal.
THEOREM TypesHold == Spec => []TypeOK
<1>1. PmInv => TypeOK
  BY DEF PmInv, TypeInv
<1> QED BY <1>1, PmInvariantHolds, PTL

\* handle_vfs_reply, unpause, exit_proc and do_fork: VFS has one request about a
\* process with VFS_CALL, and none about any other.
THEOREM OneVfsCall == Spec => []VfsCallsMatch
<1>1. PmInv => VfsCallsMatch
  <2> SUFFICES ASSUME PmInv, NEW p \in Proc
               PROVE  Cardinality({r \in vfs : r.p = p}) = (IF Is(p, "VFS_CALL") THEN 1 ELSE 0)
    BY DEF VfsCallsMatch
  <2>1. VfsInv(p)
    BY DEF PmInv, ProcInv
  <2>2. CASE Is(p, "VFS_CALL")
    <3>1. PICK m \in vfs : m.p = p
      BY <2>1, <2>2 DEF VfsInv
    <3>2. {r \in vfs : r.p = p} = {m}
      BY <2>1, <3>1 DEF VfsInv
    <3> QED BY <2>2, <3>2, FS_Singleton
  <2>3. CASE ~Is(p, "VFS_CALL")
    <3>1. {r \in vfs : r.p = p} = {}
      BY <2>1, <2>3 DEF VfsInv
    <3> QED BY <2>3, <3>1, FS_EmptySet
  <2> QED BY <2>2, <2>3
<1> QED BY <1>1, PmInvariantHolds, PTL

\* unpause, sig_send, process_ksig and restart_sigs: between messages a live
\* process is stopped exactly for a signal that waits for VFS.
THEOREM StoppedForVfs == Spec => []StoppedOnlyForVfs
<1>1. PmInv => StoppedOnlyForVfs
  <2> SUFFICES ASSUME PmInv, Rest, NEW p \in Proc, Alive(p)
               PROVE  /\ stop[p] <=> Is(p, "PM_SIG_PENDING")
                      /\ stop[p] => Is(p, "VFS_CALL")
                      /\ ~Is(p, "UNPAUSED")
    BY DEF StoppedOnlyForVfs
  <2>1. StopInv(p)
    BY DEF PmInv, ProcInv
  <2>2. ~Dying(p) /\ ~Resuming(p)
    BY AtRest DEF Rest
  <2> QED BY <2>1, <2>2 DEF StopInv
<1> QED BY <1>1, PmInvariantHolds, PTL

\* cleanup and exit_restart: between messages a slot is free exactly when the
\* kernel has forgotten its process and the parent has been told.
THEOREM SlotsAreGivenBack == Spec => []SlotsGivenBack
<1>1. PmInv => SlotsGivenBack
  <2> SUFFICES ASSUME PmInv, Rest, NEW p \in Proc, kstate[p] # "none"
               PROVE  p \notin InUse <=> kstate[p] = "cleared" /\ ~Is(p, "ZOMBIE")
    BY DEF SlotsGivenBack
  <2>1. LifeInv(p)
    BY DEF PmInv, ProcInv
  <2>2. ~OnStack("exit_restart_end", p)
    BY AtRest DEF Rest
  <2>3. p \in InUse <=> Is(p, "IN_USE")
    BY DEF InUse, Is
  <2> QED BY <2>1, <2>2, <2>3 DEF LifeInv, Is
<1> QED BY <1>1, PmInvariantHolds, PTL

\* unpause and process_ksig: the kernel has a SIGSNDELAY for every booted process
\* in a delay call.
THEOREM DelayCallsEnd == Spec => []DelayCallEnds
<1>1. PmInv => DelayCallEnds
  BY ProcAssumption DEF PmInv, ProcInv, DelayInv, DelayCallEnds
<1> QED BY <1>1, PmInvariantHolds, PTL

-----------------------------------------------------------------------------
(***************************************************************************)
(* Who dies, and what the cv server hears of it.                           *)
(***************************************************************************)

\* Nobody dies, the kernel forgets nobody, and the server is told of no death.
NobodyDies ==
    /\ \A q \in Proc : Alive(q) => Alive(q)'
    /\ \A q \in Proc : kstate'[q] = "cleared" => kstate[q] = "cleared"
    /\ post'.typ # "CS_EXIT"

LEMMA NoDeathPosted ==
    ASSUME NEW q, post' = NoPost \/ post' = [typ |-> "CS_EINTR", p |-> q]
    PROVE  post'.typ # "CS_EXIT"
BY DEF NoPost

\* What a step that changes the flags of x only may do to x.
LEMMA StaysAlive ==
    ASSUME VarTypes, NEW x \in Proc, NEW F, flags' = [flags EXCEPT ![x] = F],
           Alive(x) => "IN_USE" \in F /\ "EXITING" \notin F
    PROVE  \A q \in Proc : Alive(q) => Alive(q)'
BY DEF VarTypes, Alive

\* The telling of a parent frees a dead process's slot, never a live one's.
LEMMA TellingKills ==
    ASSUME PmInv, NEW c \in Proc, Is(c, "ZOMBIE"), NEW clean, flags' = FlagsAfterTelling(c, clean)
    PROVE  \A q \in Proc : Alive(q) => Alive(q)'
<1>0. VarTypes /\ ProcInv(c)
  BY TypesSplit DEF PmInv
<1>1. ~Alive(c)
  BY <1>0 DEF ProcInv, LifeInv, Alive, Is
<1>2. PICK p \in Proc : p = parent[c]
  BY <1>0 DEF VarTypes
<1>3. \A q \in Proc \ {c} : flags'[q] = flags[q] \/ flags'[q] = (flags[q] \ {"WAITING"}) \cup {"REPLY"}
  BY <1>0, <1>2 DEF FlagsAfterTelling, VarTypes
<1> QED BY <1>1, <1>3 DEF Alive

\* The functions of PM, exit_proc apart.
LEMMA PmStepKills ==
    ASSUME PmInv, PmStep, ~exit_proc
    PROVE  NobodyDies
<1>0. VarTypes /\ \A q \in Proc : ProcInv(q)
  BY TypesSplit DEF PmInv
<1>1. PICK op : Top(op)
  BY DEF PmStep, SigDuringVfsCall, SigBlocked, SigIgnored, SigFatal, UnpauseLater, UnpauseBusy,
         UnpauseByVfs, sig_send, Caught, Considered, check_sig, check_pending, restart_sigs,
         restart_sigs_end, disinherit, check_parent, exit_restart_end, setreply, fork_failed,
         kill_result, sendreply, ksig_end, sys_endksig
<1>2. PICK p \in Proc : p = rmp
  BY <1>1, TopOf
<1>3. CASE \/ SigBlocked \/ SigIgnored \/ SigFatal \/ UnpauseLater \/ check_sig \/ check_pending
           \/ restart_sigs \/ disinherit \/ ksig_end \/ sys_endksig
  <2>1. UNCHANGED <<flags, kstate>> /\ post' = NoPost
    BY <1>3 DEF SigBlocked, SigIgnored, SigFatal, UnpauseLater, check_sig, check_pending,
                restart_sigs, disinherit, ksig_end, sys_endksig, OnlyControl, OnlyFlags, kernel
  <2> QED BY <2>1, NoDeathPosted DEF NobodyDies, Alive
<1>4. CASE SigDuringVfsCall \/ UnpauseBusy \/ UnpauseByVfs
  <2>1. PICK S \in SUBSET {"PM_SIG_PENDING", "DELAY_CALL", "VFS_CALL"} :
          flags' = [flags EXCEPT ![p] = flags[p] \cup S]
    <3>1. CASE SigDuringVfsCall
      BY <1>2, <3>1 DEF SigDuringVfsCall
    <3>2. CASE UnpauseBusy
      BY <1>2, <3>2 DEF UnpauseBusy
    <3>3. CASE UnpauseByVfs
      BY <1>2, <3>3 DEF UnpauseByVfs
    <3> QED BY <1>4, <3>1, <3>2, <3>3
  <2>2. Alive(p) => "IN_USE" \in flags[p] \cup S /\ "EXITING" \notin flags[p] \cup S
    BY <2>1 DEF Alive
  <2>3. \A q \in Proc : Alive(q) => Alive(q)'
    BY <1>0, <2>1, <2>2, StaysAlive
  <2>4. kstate' = kstate /\ (post' = NoPost \/ post' = [typ |-> "CS_EINTR", p |-> p])
    BY <1>2, <1>4 DEF SigDuringVfsCall, UnpauseBusy, UnpauseByVfs, tell_cv, kernel
  <2> QED BY <2>3, <2>4, NoDeathPosted DEF NobodyDies
<1>5. ASSUME NEW ok \in BOOLEAN, sig_send(ok) PROVE NobodyDies
  <2>1. PICK F : /\ flags' = [flags EXCEPT ![p] = F]
                 /\ F = IF ok THEN FlagsAfterHandler(p) ELSE flags[p] \cup {"UNPAUSED"}
    BY <1>2, <1>5 DEF sig_send
  <2>2. Alive(p) => "IN_USE" \in F /\ "EXITING" \notin F
    <3>1. CASE ok
      BY <2>1, <3>1 DEF FlagsAfterHandler, Hanging, Alive
    <3>2. CASE ~ok
      BY <2>1, <3>2 DEF Alive
    <3> QED BY <3>1, <3>2
  <2>3. \A q \in Proc : Alive(q) => Alive(q)'
    BY <1>0, <2>1, <2>2, StaysAlive
  <2>4. kstate' = kstate /\ post' = NoPost
    BY <1>5 DEF sig_send, kernel
  <2> QED BY <2>3, <2>4, NoDeathPosted DEF NobodyDies
<1>6. CASE restart_sigs_end
  <2>1. kstate' = kstate /\ post' = NoPost
    BY <1>6 DEF restart_sigs_end, kernel
  <2>2. \A q \in Proc : Alive(q) => Alive(q)'
    <3>1. CASE flags' = flags
      BY <3>1 DEF Alive
    <3>2. CASE flags' = [flags EXCEPT ![p] = flags[p] \ {"PM_SIG_PENDING", "UNPAUSED"}]
      <4>1. PICK F : F = flags[p] \ {"PM_SIG_PENDING", "UNPAUSED"}
        OBVIOUS
      <4> QED BY <1>0, <3>2, <4>1, StaysAlive DEF Alive
    <3> QED BY <1>2, <1>6, <3>1, <3>2 DEF restart_sigs_end
  <2> QED BY <2>1, <2>2, NoDeathPosted DEF NobodyDies
<1>7. CASE setreply \/ fork_failed \/ kill_result
  <2>1. flags' = flags \/ \E q \in Proc : flags' = [flags EXCEPT ![q] = flags[q] \cup {"REPLY"}]
    BY <1>0, <1>2, <1>7 DEF setreply, fork_failed, kill_result, VarTypes
  <2>2. \A q \in Proc : Alive(q) => Alive(q)'
    BY <1>0, <2>1 DEF VarTypes, Alive
  <2>3. kstate' = kstate /\ post' = NoPost
    BY <1>7 DEF setreply, fork_failed, kill_result, OnlyFlags, kernel
  <2> QED BY <2>2, <2>3, NoDeathPosted DEF NobodyDies
<1>8. CASE sendreply
  <2>1. \A q \in Proc : flags'[q] = flags[q] \/ flags'[q] = flags[q] \ {"REPLY"}
    BY <1>8 DEF sendreply, FlagsAfterReplies
  <2>2. \A q \in Proc : Alive(q) => Alive(q)'
    BY <2>1 DEF Alive
  <2>3. post' = NoPost /\ \A q \in Proc : kstate'[q] = "cleared" => kstate[q] = "cleared"
    BY <1>8 DEF sendreply
  <2> QED BY <2>2, <2>3, NoDeathPosted DEF NobodyDies
<1>9. CASE check_parent
  <2>1. kstate' = kstate /\ post' = NoPost
    BY <1>9 DEF check_parent, OnlyFlags, kernel
  <2>2. CASE flags' = flags
    BY <2>1, <2>2, NoDeathPosted DEF NobodyDies, Alive
  <2>3. ASSUME MayTell(p), NEW clean, flags' = FlagsAfterTelling(p, clean) PROVE NobodyDies
    <3>1. \A q \in Proc : Alive(q) => Alive(q)'
      BY <2>3, TellingKills DEF MayTell
    <3> QED BY <2>1, <3>1, NoDeathPosted DEF NobodyDies
  <2> QED BY <1>2, <1>9, <2>2, <2>3 DEF check_parent
<1>10. CASE exit_restart_end
  <2>1. kstate' = kstate /\ post' = NoPost /\ Top("exit_restart_end")
    BY <1>10 DEF exit_restart_end, OnlyFlags, kernel
  <2>2. kstate[p] = "cleared"
    BY <1>2, <2>1, TopOf DEF StackInv
  <2>3. ~Alive(p)
    BY <1>0, <2>2 DEF ProcInv, LifeInv
  <2>4. flags' = flags \/ flags' = [flags EXCEPT ![p] = {}]
    BY <1>2, <1>10 DEF exit_restart_end
  <2>5. \A q \in Proc : Alive(q) => Alive(q)'
    BY <1>0, <2>3, <2>4 DEF VarTypes, Alive
  <2> QED BY <2>1, <2>5, NoDeathPosted DEF NobodyDies
<1> QED BY <1>3, <1>4, <1>5, <1>6, <1>7, <1>8, <1>9, <1>10 DEF PmStep

\* The requests PM receives.
LEMMA PmCallKills ==
    ASSUME PmInv, NEW p \in Proc, PmCall(p)
    PROVE  NobodyDies
<1>0. VarTypes /\ \A q \in Proc : ProcInv(q)
  BY TypesSplit DEF PmInv
<1>1. CASE do_fork(p)
  <2>1. PICK c, F :
          /\ c \in Proc
          /\ kstate[c] = "none" /\ flags' = [flags EXCEPT ![c] = F]
          /\ kstate' = [kstate EXCEPT ![p] = "receiving", ![c] = "receiving"]
    BY <1>1 DEF do_fork
  <2>2. ~Alive(c)
    BY <1>0, <2>1 DEF ProcInv, LifeInv, Alive, Is
  <2>3. \A q \in Proc : Alive(q) => Alive(q)'
    BY <1>0, <2>1, <2>2, StaysAlive
  <2>4. post' = NoPost /\ \A q \in Proc : kstate'[q] = "cleared" => kstate[q] = "cleared"
    BY <1>0, <1>1, <2>1 DEF do_fork, Receives, VarTypes
  <2> QED BY <2>3, <2>4, NoDeathPosted DEF NobodyDies
<1>2. CASE ~do_fork(p)
  <2>1. Received(p) /\ post' = NoPost
    BY <1>2 DEF PmCall, DropCall, do_pause, do_sigsuspend, do_sigprocmask_block, do_sigprocmask_set,
           do_sigaction, do_kill, do_exit, WaitCollects, WaitHangs, WaitRefused, ForkRefused,
           do_setuid, Receives
  <2>2. \A q \in Proc : kstate'[q] = "cleared" => kstate[q] = "cleared"
    BY <1>0, <2>1 DEF Received, VarTypes
  <2>3. CASE WaitCollects(p)
    <3>1. PICK c \in Proc : Is(c, "ZOMBIE") /\ flags' = FlagsAfterTelling(c, ~Is(c, "VFS_CALL"))
      BY <2>3 DEF WaitCollects, Children, InUse
    <3> QED BY <2>1, <2>2, <3>1, TellingKills, NoDeathPosted DEF NobodyDies
  <2>4. CASE ~WaitCollects(p)
    <3>1. \/ flags' = flags
          \/ \E f \in {"PAUSED", "SIGSUSPENDED", "WAITING", "VFS_CALL"} :
                flags' = [flags EXCEPT ![p] = flags[p] \cup {f}]
      BY <1>2, <2>4 DEF PmCall, DropCall, do_pause, do_sigsuspend, do_sigprocmask_block,
             do_sigprocmask_set, do_sigaction, do_kill, do_exit, WaitHangs, WaitRefused,
             ForkRefused, do_setuid
    <3>2. \A q \in Proc : Alive(q) => Alive(q)'
      BY <1>0, <3>1 DEF VarTypes, Alive
    <3> QED BY <2>1, <2>2, <3>2, NoDeathPosted DEF NobodyDies
  <2> QED BY <2>3, <2>4
<1> QED BY <1>1, <1>2

\* The replies of VFS about processes that are not exiting, and everything else.
LEMMA OtherStepKills ==
    ASSUME PmInv, NEW p \in Proc,
           \/ SetuidReply(p) \/ UnpauseReply(p) \/ \E ok \in BOOLEAN : ForkReply(p, ok)
           \/ SignalSendDelay(p) \/ ServerReceives(p) \/ ServerAnswers(p)
           \/ \E s \in KernelSigs : KernelSignal(p, s)
           \/ \E c \in Calls[p] : Sends(p, c)
    PROVE  NobodyDies
<1>0. VarTypes
  BY TypesSplit DEF PmInv
<1>1. post' = NoPost
  BY DEF SetuidReply, UnpauseReply, ForkReply, VfsReply, SignalSendDelay, ServerReceives,
         ServerAnswers, KernelSignal, Sends
<1>2. \A q \in Proc : kstate'[q] = "cleared" => kstate[q] = "cleared"
  BY <1>0 DEF SetuidReply, UnpauseReply, ForkReply, SignalSendDelay, ServerReceives,
         ServerAnswers, KernelSignal, Sends, Received, kernel, VarTypes
<1>3. \A q \in Proc : Alive(q) => Alive(q)'
  <2>1. ASSUME NEW ok \in BOOLEAN, ForkReply(p, ok) PROVE \A q \in Proc : Alive(q) => Alive(q)'
    <3>1. \A q \in Proc : flags'[q] = (flags[q] \ {f \in {"VFS_CALL"} : q = p})
                                        \cup {f \in {"REPLY"} : ok /\ q \in {p, parent[p]}}
      BY <2>1 DEF ForkReply
    <3> QED BY <3>1 DEF Alive
  <2>2. CASE SetuidReply(p) \/ UnpauseReply(p)
    <3>1. \E f \in {"REPLY", "UNPAUSED"} : flags' = [flags EXCEPT ![p] = (flags[p] \ {"VFS_CALL"}) \cup {f}]
      BY <2>2 DEF SetuidReply, UnpauseReply
    <3> QED BY <1>0, <3>1 DEF VarTypes, Alive
  <2>3. CASE SignalSendDelay(p)
    <3>1. flags' = flags \/ flags' = [flags EXCEPT ![p] = flags[p] \ {"DELAY_CALL"}]
      BY <2>3 DEF SignalSendDelay
    <3> QED BY <1>0, <3>1 DEF VarTypes, Alive
  <2>4. CASE \/ ServerReceives(p) \/ ServerAnswers(p) \/ \E s \in KernelSigs : KernelSignal(p, s)
             \/ \E c \in Calls[p] : Sends(p, c)
    <3>1. flags' = flags
      BY <2>4 DEF ServerReceives, ServerAnswers, KernelSignal, Sends
    <3> QED BY <3>1 DEF Alive
  <2> QED BY <2>1, <2>2, <2>3, <2>4
<1> QED BY <1>1, <1>2, <1>3, NoDeathPosted DEF NobodyDies

\* sys_clear: the process is exiting, and nobody dies.
LEMMA ClearingKills ==
    ASSUME PmInv, NEW p \in Proc, ExitReply(p) \/ CoreReply(p)
    PROVE  /\ \A q \in Proc : Alive(q) => Alive(q)'
           /\ \A q \in Proc \ {p} : kstate'[q] = kstate[q]
           /\ Is(p, "EXITING") /\ post' = NoPost
<1>0. VarTypes
  BY TypesSplit DEF PmInv
<1>1. PICK typ \in {"PM_EXIT", "PM_DUMPCORE"} : VfsReply(typ, p)
  BY DEF ExitReply, CoreReply
<1>2. Is(p, "EXITING") /\ post' = NoPost
  BY <1>1, VfsAnswered
<1>3. \A q \in Proc \ {p} : kstate'[q] = kstate[q] /\ flags'[q] = flags[q]
  BY <1>0 DEF ExitReply, CoreReply, Cleared, VarTypes
<1> QED BY <1>2, <1>3 DEF Alive, Is

\* exit_proc kills its process, tells the server, and leaves all others alone.
LEMMA ExitProcKills ==
    ASSUME PmInv, exit_proc
    PROVE  /\ kstate' = kstate
           /\ \E p \in Proc : /\ Alive(p) /\ ~Alive(p)' /\ post' = [typ |-> "CS_EXIT", p |-> p]
                              /\ \A q \in Proc \ {p} : flags'[q] = flags[q]
<1>1. Top("exit_proc") /\ kstate' = kstate
  BY DEF exit_proc, kernel
<1>2. PICK p, F : /\ p \in Proc /\ p = rmp /\ flags' = [flags EXCEPT ![p] = F] /\ "EXITING" \in F
                  /\ post' = [typ |-> "CS_EXIT", p |-> p]
  BY <1>1, TopOf DEF exit_proc, tell_cv
<1>3. VarTypes /\ Alive(p)
  BY <1>1, <1>2, TopOf DEF StackInv
<1>4. ~Alive(p)' /\ \A q \in Proc \ {p} : flags'[q] = flags[q]
  BY <1>2, <1>3 DEF VarTypes, Alive
<1> QED BY <1>1, <1>2, <1>3, <1>4

\* exit_proc, tell_cv and exit_restart: CS_EXIT is posted in the step in which a
\* process dies, for that process, and the kernel forgets a process only later.
THEOREM ExitIsPostedOnce == Spec => ExitPostedOnce
<1> DEFINE Told(p) ==
             /\ (Alive(p) /\ ~Alive(p)') <=> post' = [typ |-> "CS_EXIT", p |-> p]
             /\ (kstate[p] # "cleared" /\ kstate'[p] = "cleared")
                   => Is(p, "EXITING") /\ post' = NoPost
<1>1. ASSUME NobodyDies PROVE \A p \in Proc : Told(p)
  <2>1. \A p : post' # [typ |-> "CS_EXIT", p |-> p]
    BY <1>1 DEF NobodyDies
  <2> QED BY <1>1, <2>1 DEF NobodyDies
<1>2. ASSUME PmInv, NEW r \in Proc, ExitReply(r) \/ CoreReply(r) PROVE \A p \in Proc : Told(p)
  <2>1. /\ \A q \in Proc : Alive(q) => Alive(q)'
        /\ \A q \in Proc \ {r} : kstate'[q] = kstate[q]
        /\ Is(r, "EXITING") /\ post' = NoPost
    BY <1>2, ClearingKills
  <2>2. \A p : post' # [typ |-> "CS_EXIT", p |-> p]
    BY <2>1 DEF NoPost
  <2> QED BY <2>1, <2>2
<1>3. ASSUME PmInv, exit_proc PROVE \A p \in Proc : Told(p)
  <2>1. kstate' = kstate
    BY <1>3, ExitProcKills
  <2>2. PICK r \in Proc : /\ Alive(r) /\ ~Alive(r)' /\ post' = [typ |-> "CS_EXIT", p |-> r]
                          /\ \A q \in Proc \ {r} : flags'[q] = flags[q]
    BY <1>3, ExitProcKills
  <2>3. \A p \in Proc \ {r} : Alive(p)' <=> Alive(p)
    BY <2>2 DEF Alive
  <2>4. \A p : post' = [typ |-> "CS_EXIT", p |-> p] <=> p = r
    BY <2>2
  <2> QED BY <2>1, <2>2, <2>3, <2>4
<1>4. PmInv /\ [Next]_vars => [\A p \in Proc : Told(p)]_vars
  <2> SUFFICES ASSUME PmInv, Next PROVE \A p \in Proc : Told(p)
    OBVIOUS
  <2> HIDE DEF Told
  <2>1. CASE PmStep
    BY <1>1, <1>3, <2>1, PmStepKills
  <2>2. ASSUME NEW p \in Proc, PmCall(p) PROVE NobodyDies
    BY <2>2, PmCallKills
  <2>3. ASSUME NEW p \in Proc, handle_vfs_reply(p) PROVE \A q \in Proc : Told(q)
    BY <1>1, <1>2, <2>3, OtherStepKills DEF handle_vfs_reply
  <2>4. ASSUME NEW p \in Proc,
               \/ SignalSendDelay(p) \/ ServerReceives(p) \/ ServerAnswers(p)
               \/ \E s \in KernelSigs : KernelSignal(p, s)
               \/ \E c \in Calls[p] : Sends(p, c)
        PROVE  NobodyDies
    BY <2>4, OtherStepKills
  <2> QED BY <1>1, <2>1, <2>2, <2>3, <2>4 DEF Next
<1> QED BY <1>4, PmInvariantHolds, PTL DEF Spec, ExitPostedOnce

=============================================================================
