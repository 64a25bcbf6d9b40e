-------------------------------- MODULE Testy -------------------------------
(***************************************************************************)
(* The test programs of testy/src, each with the libc functions and the    *)
(* server underneath: closed systems in which the whole project has to     *)
(* play together.  A program is a sequence of scripts, one for each of its *)
(* processes (process 1 is the one the shell starts), and a script is a    *)
(* sequence of instructions, one for each call of the C code that others   *)
(* can observe.  Init picks the program.                                   *)
(*                                                                         *)
(* A process may stop for any time between two instructions, so a sleep    *)
(* whose length no result depends on is left out.  The sleeps a program    *)
(* does depend on are SLEEP: they last until everybody else has come as    *)
(* far as he can.  printf goes to a buffer that fork copies and exit       *)
(* writes out, as stdio's does when the output is a file.                  *)
(***************************************************************************)
EXTENDS LibCv

CONSTANTS
    TURNS,   \* bound: turns of the programs that take a number of turns
    BSIZE    \* prod_cons: length of the buffer

ASSUME TestAssumption ==
    /\ TURNS \in Nat /\ BSIZE \in Nat \ {0}
    /\ 1 .. 6 \subseteq Proc /\ MAX_MUTEX >= 4

S == INSTANCE SequencesExt

VARIABLES
    prog,     \* the program that runs
    local,    \* what each process of it has for itself
    out,      \* the standard output, in the order of the writes
    pipe,     \* the pipe of prod_cons and tictactac
    pending   \* signals sent and not yet delivered

testVars == <<prog, local, out, pipe, pending>>
tVars    == <<allVars, testVars>>

-----------------------------------------------------------------------------
(***************************************************************************)
(* Instructions.  then says what the code does with the result of a call:  *)
(* nothing, report it, or fail unless it is 0.                             *)
(***************************************************************************)
Ins(op, arg) == [op |-> op, mutex |-> 0, cv |-> 0, then |-> "", arg |-> arg, k |-> 0]

LOCK(m)      == [Ins("cs_lock", 0) EXCEPT !.mutex = m]
UNLOCK(m)    == [Ins("cs_unlock", 0) EXCEPT !.mutex = m]
WAIT(c, m)   == [Ins("cs_wait", 0) EXCEPT !.mutex = m, !.cv = c]
BROADCAST(c) == [Ins("cs_broadcast", 0) EXCEPT !.cv = c]
REPORT(ins)  == [ins EXCEPT !.then = "report"]
STRICT(ins)  == [ins EXCEPT !.then = "fail"]

WRITE(x)      == Ins("write", x)         \* write, or printf and fflush
PRINTF(x)     == Ins("printf", x)        \* test3: got or int, as errno says
PERM(x)       == Ins("perm", x)          \* test3: per, if errno says so
FORK(q)       == Ins("fork", q)
JOIN(n)       == Ins("wait", n)          \* until n children are gone
EXIT          == Ins("exit", 0)
SLEEP         == Ins("sleep", 0)
PAUSE         == Ins("pause", 0)
KILL(Q, sig)  == Ins("kill", {<<q, sig>> : q \in Q})
READ(n)       == Ins("read", n)          \* up to n units of the pipe
SEND          == Ins("send", 0)          \* one unit into the pipe
PUT(x)        == Ins("put", x)
GET           == Ins("get", 0)
SET_END       == Ins("end", 0)
CHECK(cond)   == Ins("check", cond)      \* fail unless cond
JUMP(cond, k) == [Ins("jump", cond) EXCEPT !.k = k]

\* body(1) \o ... \o body(n) for a sequence of bodies.
Flat(bodies) == S!FlattenSeq(bodies)
Loop(n, body) == Flat([i \in 1 .. n |-> body])

-----------------------------------------------------------------------------
(***************************************************************************)
(* The programs.                                                           *)
(***************************************************************************)
lock_unlock ==
    <<<<REPORT(LOCK(1)), REPORT(UNLOCK(2)), REPORT(UNLOCK(1)), REPORT(UNLOCK(1)), EXIT>>>>

\* As many mutexes at once as the table has rows, freed in three orders.
simple_many ==
    LET n == MAX_MUTEX
        Locks(f)   == [i \in 1 .. n |-> STRICT(LOCK(f[i]))]
        Unlocks(f) == [i \in 1 .. n |-> STRICT(UNLOCK(f[i]))]
        up == [i \in 1 .. n |-> i]
    IN  <<Flat(<<Locks(up), Unlocks(up),
                 Locks([i \in 1 .. n |-> n + i]), Unlocks([i \in 1 .. n |-> 2 * n + 1 - i]),
                 Locks(up), Unlocks([i \in 1 .. n |-> ((i * 173) % n) + 1]), <<EXIT>> >>)>>

\* Two writes under the mutex make one line.
many_procs ==
    LET procs == 2
        child(n) == Loop(TURNS, <<STRICT(LOCK(1)), WRITE(<<"line", n, 0>>),
                                  WRITE(<<"line", n, 0>>), STRICT(UNLOCK(1))>>)
                    \o <<EXIT>>
    IN  <<[i \in 1 .. procs |-> FORK(i + 1)] \o <<JOIN(procs), EXIT>>>>
        \o [i \in 1 .. procs |-> child(i - 1)]

\* The same with a mutex for each of hprocs + 1 files.
many_pm ==
    LET hprocs == 1
        turns == 1
        fds == hprocs + 1
        mwrite(n, fd) == <<STRICT(LOCK(1 + fd)), WRITE(<<"line", n, fd>>),
                           WRITE(<<"line", n, fd>>), STRICT(UNLOCK(1 + fd))>>
        child(n) == Loop(turns, Flat([j \in 1 .. fds |-> mwrite(n, ((j - 1) * (n + 1)) % fds)]))
                    \o <<EXIT>>
    IN  <<[i \in 1 .. 2 * hprocs |-> FORK(i + 1)] \o <<JOIN(2 * hprocs), EXIT>>>>
        \o [i \in 1 .. 2 * hprocs |-> child((i - 1) \div 2)]

check_fifo ==
    LET procs == 3
        child(n) == <<STRICT(LOCK(1)), WRITE(<<"line", n, 0>>), STRICT(UNLOCK(1)), EXIT>>
    IN  <<<<STRICT(LOCK(1))>> \o Flat([i \in 1 .. procs |-> <<FORK(i + 1), SLEEP>>])
          \o <<STRICT(UNLOCK(1)), JOIN(procs), EXIT>>>>
        \o [i \in 1 .. procs |-> child(i - 1)]

simple_cv ==
    <<<<REPORT(LOCK(1)), FORK(2), REPORT(WAIT(1, 1)), REPORT(UNLOCK(1)), JOIN(1), EXIT>>,
      <<REPORT(LOCK(1)), REPORT(BROADCAST(1)), REPORT(UNLOCK(1)), EXIT>>>>

tictac ==
    LET Turn(text) == <<WAIT(1, 1), WRITE(<<text, 0, 0>>), WRITE(<<"C", 0, 0>>), BROADCAST(1)>>
    IN  <<<<REPORT(LOCK(1)), FORK(2)>> \o Loop(TURNS, Turn("TI")) \o <<UNLOCK(1), JOIN(1), EXIT>>,
          <<LOCK(1), BROADCAST(1)>> \o Loop(TURNS, Turn("TA")) \o <<UNLOCK(1), EXIT>>>>

\* The parent never has the mutex: its waits are refused at once, and what it
\* waits for is the byte each child puts into the pipe.
tictactac ==
    LET Tic == <<WAIT(1, 1), READ(2), JUMP("got 2", 5), CHECK("got 1"), WAIT(1, 1), READ(2),
                 CHECK("got 1"), WRITE(<<"TI", 0, 0>>), SLEEP, WRITE(<<"C", 0, 0>>), BROADCAST(2)>>
        Tac == <<WAIT(2, 1), WRITE(<<"TA", 0, 0>>), SLEEP, WRITE(<<"C", 0, 0>>), BROADCAST(1), SEND>>
        Child == <<LOCK(1), BROADCAST(1), SEND>> \o Loop(TURNS, Tac) \o <<UNLOCK(1)>>
    IN  <<<<FORK(2)>> \o Loop(TURNS, Tic) \o <<UNLOCK(1), JOIN(1), EXIT>>,
          <<FORK(3)>> \o Child \o <<JOIN(1), EXIT>>,
          Child \o <<EXIT>>>>

many_cv ==
    LET procs == 2
        child(i) == <<LOCK(i), BROADCAST(i), WAIT(i, i), WRITE(<<"c", i - 1, 0>>),
                      BROADCAST(i), UNLOCK(i), EXIT>>
    IN  <<Flat([i \in 1 .. procs |-> <<LOCK(i), FORK(i + 1), WAIT(i, i)>>])
          \o Flat([i \in 1 .. procs |-> LET r == procs + 1 - i IN
                                        <<BROADCAST(r), WAIT(r, r), UNLOCK(r)>>])
          \o <<JOIN(procs), EXIT>>>>
        \o [i \in 1 .. procs |-> child(i)]

\* The numbers of the condition variables are random and may be the same.
many_cv2(cv1, cv2) ==
    LET procs == 2
        child(i) == <<LOCK(1), BROADCAST(cv2), WAIT(cv1, 1), WRITE(<<"c", i - 1, 0>>),
                      UNLOCK(1), EXIT>>
    IN  <<<<LOCK(1)>> \o Flat([i \in 1 .. procs |-> <<FORK(i + 1), WAIT(cv2, 1)>>])
          \o <<BROADCAST(cv1), UNLOCK(1), JOIN(procs), EXIT>>>>
        \o [i \in 1 .. procs |-> child(i)]

\* buf_not_empty is assigned twice and buf_not_full never: it is 0.
buf_not_full  == 0
buf_not_empty == 2

\* Mutant: the buffer goes back after the mutex is given up.
producerLateWrite(d) ==
    <<LOCK(1), READ(1),
      JUMP("not full", 5), SEND, WAIT(buf_not_full, 1), READ(1), JUMP("always", -4),
      PUT(d), JUMP("not 1", 2), BROADCAST(buf_not_empty), UNLOCK(1), SEND>>
\* One turn of a producer.
producer(d) ==
    <<LOCK(1), READ(1),
      JUMP("not full", 5), SEND, WAIT(buf_not_full, 1), READ(1), JUMP("always", -4),
      PUT(d), JUMP("not 1", 2), BROADCAST(buf_not_empty), SEND, UNLOCK(1)>>

\* Mutant: the condition is not looked at again after the wait.
consumerIf ==
    <<LOCK(1), READ(1),
      JUMP("not empty", 8), SEND, JUMP("not ended", 3), UNLOCK(1), EXIT,
      WAIT(buf_not_empty, 1), READ(1), JUMP("always", 1),
      GET, JUMP("not BSIZE - 1", 2), BROADCAST(buf_not_full), SEND, UNLOCK(1), JUMP("always", -15)>>
\* Mutant: the consumers announce the free place one item too early.
consumerOffByOne ==
    <<LOCK(1), READ(1),
      JUMP("not empty", 8), SEND, JUMP("not ended", 3), UNLOCK(1), EXIT,
      WAIT(buf_not_empty, 1), READ(1), JUMP("always", -7),
      GET, JUMP("not full", 2), BROADCAST(buf_not_full), SEND, UNLOCK(1), JUMP("always", -15)>>
consumer ==
    <<LOCK(1), READ(1),
      JUMP("not empty", 8), SEND, JUMP("not ended", 3), UNLOCK(1), EXIT,
      WAIT(buf_not_empty, 1), READ(1), JUMP("always", -7),
      GET, JUMP("not BSIZE - 1", 2), BROADCAST(buf_not_full), SEND, UNLOCK(1), JUMP("always", -15)>>

\* The buffer itself, with count and end_flag, travels through the pipe.
prod_cons(prods, cons, turns) ==
    <<<<SEND>> \o [i \in 1 .. prods + cons |-> FORK(i + 1)]
      \o <<JOIN(prods), LOCK(1), READ(1), SET_END, SEND, BROADCAST(buf_not_empty), UNLOCK(1),
           JOIN(prods + cons), EXIT>>>>
    \o [i \in 1 .. prods |-> Flat([t \in 1 .. turns |-> producer(<<"item", i, t>>)]) \o <<EXIT>>]
    \o [i \in 1 .. cons |-> consumer]

lock_hang ==
    <<<<REPORT(LOCK(1)), FORK(2), SLEEP, KILL({1, 2}, "SIGUSR1"), JOIN(1), REPORT(UNLOCK(1)), EXIT>>,
      <<REPORT(LOCK(1)), EXIT>>>>

sigint ==
    <<<<FORK(2), SLEEP, KILL({2}, "SIGINT"), REPORT(LOCK(1)), REPORT(UNLOCK(1)), EXIT>>,
      <<REPORT(LOCK(1)), PAUSE, EXIT>>>>

\* Three children instead of ten.
test3 ==
    LET child(i) == <<LOCK(1), PRINTF(i), UNLOCK(1), PERM(i), EXIT>> IN
    <<<<LOCK(1)>> \o Flat([i \in 1 .. 3 |-> <<SLEEP, FORK(i + 1)>>])
      \o <<SLEEP, KILL({2}, "SIGUSR1"), KILL({4}, "SIGUSR1"), SLEEP, UNLOCK(1), SLEEP, EXIT>>>>
    \o [i \in 1 .. 3 |-> child(i - 1)]

\* Two rounds of fork instead of four: i is 1, 2, 2 and 3.
test4 ==
    <<<<FORK(2), SLEEP, REPORT(LOCK(1)), REPORT(LOCK(2)), REPORT(LOCK(3)), REPORT(LOCK(4)), EXIT>>,
      <<FORK(3), SLEEP, KILL(2 .. 6, "SIGTERM"), EXIT>>,
      <<FORK(4), FORK(5), LOCK(2), PAUSE, EXIT>>,
      <<FORK(6), LOCK(3), PAUSE, EXIT>>,
      <<LOCK(3), PAUSE, EXIT>>,
      <<LOCK(4), PAUSE, EXIT>>>>

Script ==
    [lock_unlock |-> lock_unlock, simple_many |-> simple_many, many_procs |-> many_procs,
     many_pm |-> many_pm, check_fifo |-> check_fifo, simple_cv |-> simple_cv,
     tictac |-> tictac, tictactac |-> tictactac, many_cv |-> many_cv,
     many_cv2 |-> many_cv2(1, 2), many_cv2_same |-> many_cv2(1, 1),
     prod_cons_1_2 |-> prod_cons(1, 2, TURNS), prod_cons_2_1 |-> prod_cons(2, 1, TURNS),
     lock_hang |-> lock_hang, sigint |-> sigint, test3 |-> test3, test4 |-> test4]

-----------------------------------------------------------------------------
(***************************************************************************)
(* Running a program.  pc 0 is a process that has not been forked.         *)
(***************************************************************************)
Code(p) == Script[prog][p]
Now(p)  == Code(p)[local[p].pc]

At(p, op) ==
    /\ life[p] = "alive" /\ call[p] = NoCall /\ local[p].pc > 0
    /\ Now(p).op = op

NoItem == <<"", 0, 0>>
EmptyBuf == [slot |-> [i \in 1 .. BSIZE |-> NoItem], count |-> 0, ended |-> FALSE]

TestInit ==
    /\ LibInit
    /\ prog \in DOMAIN Script
    /\ local = [p \in Proc |->
          [pc |-> IF p = 1 THEN 1 ELSE 0, parent |-> 0, stdio |-> <<>>, got |-> 0, failed |-> FALSE,
           buf |-> EmptyBuf]]
    /\ out = <<>>
    /\ pipe = <<>>
    /\ pending = {}

\* l after its instruction is done; and after fail(), which ends at exit(2)
\* (tictactac kills its group instead; NeverFails says that neither happens).
Advanced(l) == [l EXCEPT !.pc = @ + 1]
Fail(p, l)  == [l EXCEPT !.failed = TRUE, !.pc = Len(Code(p))]

\* Calls of libc.
Call(p) ==
    /\ \/ At(p, "cs_lock") /\ CallLock(p, Now(p).mutex)
       \/ At(p, "cs_unlock") /\ CallUnlock(p, Now(p).mutex)
       \/ At(p, "cs_wait") /\ CallWait(p, Now(p).cv, Now(p).mutex)
       \/ At(p, "cs_broadcast") /\ CallBroadcast(p, Now(p).cv)
    /\ UNCHANGED testVars

RelockStep(p) == Relock(p) /\ UNCHANGED testVars

ReturnStep(p) ==
    LET v == ret'[p].value
        e == ret'[p].errno
    IN
    /\ Return(p)
    /\ local' = [local EXCEPT ![p] =
          IF Now(p).then = "fail" /\ v # 0 THEN Fail(p, @)
          ELSE IF Now(p).then = "report"
               THEN [Advanced(@) EXCEPT !.stdio = Append(@, <<Now(p).op, v, IF v = 0 THEN 0 ELSE e>>)]
               ELSE Advanced(@)]
    /\ UNCHANGED <<prog, out, pipe, pending>>

-----------------------------------------------------------------------------
(***************************************************************************)
(* Steps of the program alone.                                             *)
(***************************************************************************)
Fork(p) ==
    /\ At(p, "fork")
    /\ local' = [local EXCEPT ![p] = Advanced(@),
                              ![Now(p).arg] = [local[p] EXCEPT !.pc = 1, !.parent = p]]
    /\ ret' = [ret EXCEPT ![Now(p).arg].errno = ret[p].errno]
    /\ UNCHANGED <<vars, call, budget, late, prog, out, pipe, pending>>

Write(p) ==
    /\ At(p, "write")
    /\ out' = Append(out, Now(p).arg)
    /\ local' = [local EXCEPT ![p] = Advanced(@)]
    /\ UNCHANGED <<allVars, prog, pipe, pending>>

Printf(p) ==
    LET e       == ret[p].errno
        Line(x) == [local EXCEPT ![p] = [Advanced(@) EXCEPT !.stdio = Append(@, <<x, Now(p).arg, 0>>)]]
    IN
    /\ \/ At(p, "printf") /\ local' = Line(IF e = -EINTR THEN "int" ELSE "got")
       \/ /\ At(p, "perm")
          /\ local' = IF e = -EPERM THEN Line("per") ELSE [local EXCEPT ![p] = Advanced(@)]
    /\ UNCHANGED <<allVars, prog, out, pipe, pending>>

\* wait(NULL): PM has a child for the parent as soon as it exits.
Gone(p) == {q \in Proc : local[q].parent = p /\ life[q] # "alive"}
Join(p) ==
    /\ At(p, "wait")
    /\ Cardinality(Gone(p)) >= Now(p).arg
    /\ local' = [local EXCEPT ![p] = Advanced(@)]
    /\ UNCHANGED <<allVars, prog, out, pipe, pending>>

Read(p) ==
    LET n == IF Len(pipe) < Now(p).arg THEN Len(pipe) ELSE Now(p).arg IN
    /\ At(p, "read")
    /\ pipe # <<>>
    /\ local' = [local EXCEPT ![p] = [Advanced(@) EXCEPT !.got = n, !.buf = Head(pipe)]]
    /\ pipe' = SubSeq(pipe, n + 1, Len(pipe))
    /\ UNCHANGED <<allVars, prog, out, pending>>

\* Of its own copy a process looks at end_flag only, before it reads the buffer
\* again; the rest is forgotten.
Send(p) ==
    /\ At(p, "send")
    /\ pipe' = Append(pipe, local[p].buf)
    /\ local' = [local EXCEPT ![p] =
          [Advanced(@) EXCEPT !.buf = [EmptyBuf EXCEPT !.ended = local[p].buf.ended]]]
    /\ UNCHANGED <<allVars, prog, out, pending>>

\* The loops over buf: the first free place, the first item.
FirstPlace(p, free) == First({i \in 1 .. BSIZE : (local[p].buf.slot[i] = NoItem) = free})

Put(p) ==
    LET i == FirstPlace(p, TRUE) IN
    /\ At(p, "put")
    /\ local' = [local EXCEPT ![p] =
          IF i = -1 THEN Fail(p, @)
          ELSE [Advanced(@) EXCEPT !.buf.slot[i] = Now(p).arg, !.buf.count = @ + 1]]
    /\ UNCHANGED <<allVars, prog, out, pipe, pending>>

Get(p) ==
    LET i == FirstPlace(p, FALSE) IN
    /\ At(p, "get")
    /\ local' = [local EXCEPT ![p] =
          IF i = -1 THEN Fail(p, @)
          ELSE [Advanced(@) EXCEPT !.buf.slot[i] = NoItem, !.buf.count = @ - 1]]
    /\ out' = IF i = -1 THEN out ELSE Append(out, local[p].buf.slot[i])
    /\ UNCHANGED <<allVars, prog, pipe, pending>>

SetEnd(p) ==
    /\ At(p, "end")
    /\ local' = [local EXCEPT ![p] = [Advanced(@) EXCEPT !.buf.ended = TRUE]]
    /\ UNCHANGED <<allVars, prog, out, pipe, pending>>

Condition(p, cond) ==
    LET l == local[p] IN
    CASE cond = "always"        -> TRUE
      [] cond = "not full"      -> l.buf.count # BSIZE
      [] cond = "not empty"     -> l.buf.count # 0
      [] cond = "not 1"         -> l.buf.count # 1
      [] cond = "not BSIZE - 1" -> l.buf.count # BSIZE - 1
      [] cond = "not ended"     -> ~l.buf.ended
      [] cond = "got 1"         -> l.got = 1
      [] cond = "got 2"         -> l.got = 2

Branch(p) ==
    /\ \/ /\ At(p, "jump")
          /\ local' = [local EXCEPT ![p].pc = @ + (IF Condition(p, Now(p).arg) THEN Now(p).k ELSE 1)]
       \/ /\ At(p, "check")
          /\ local' = [local EXCEPT ![p] = IF Condition(p, Now(p).arg) THEN Advanced(@) ELSE Fail(p, @)]
    /\ UNCHANGED <<allVars, prog, out, pipe, pending>>

\* q does not move until somebody else does.
Rests(q) ==
    \/ local[q].pc = 0 \/ life[q] = "dead"
    \/ call[q] # NoCall /\ client[q].at = "receiving"
    \/ At(q, "sleep") \/ At(q, "pause")
    \/ At(q, "wait") /\ Cardinality(Gone(q)) < Now(q).arg
    \/ At(q, "read") /\ pipe = <<>>

Settled(p) ==
    /\ server.at = "receive" /\ async = <<>> /\ pending = {}
    /\ \A q \in Proc \ {p} : Rests(q)

Sleep(p) ==
    /\ At(p, "sleep")
    /\ Settled(p)
    /\ local' = [local EXCEPT ![p] = Advanced(@)]
    /\ UNCHANGED <<allVars, prog, out, pipe, pending>>

-----------------------------------------------------------------------------
(***************************************************************************)
(* Signals and exits.                                                      *)
(***************************************************************************)
Kill(p) ==
    /\ At(p, "kill")
    /\ pending' = pending \cup Now(p).arg
    /\ local' = [local EXCEPT ![p] = Advanced(@)]
    /\ UNCHANGED <<allVars, prog, out, pipe>>

\* SIGUSR1 is caught, SIGINT and SIGTERM end the process with its buffer
\* unwritten.  A signal for a process that is gone is dropped.  check_sig goes
\* through the process table from its end; who is sending is stopped later.
Deliver(q) ==
    \E sig \in {"SIGUSR1", "SIGINT", "SIGTERM"} :
        /\ <<q, sig>> \in pending
        /\ \A r \in pending : r[1] > q => life[r[1]] = "alive" /\ client[r[1]].at = "sending"
        /\ pending' = pending \ {<<q, sig>>}
        /\ \/ life[q] # "alive" /\ UNCHANGED <<vars, late>>
           \/ sig = "SIGUSR1" /\ PmSignal(q) /\ UNCHANGED late
           \/ /\ sig # "SIGUSR1" /\ PmExit(q)
              /\ late' = IF client[q].at = "sending" THEN late \cup {q} ELSE late
        /\ UNCHANGED <<call, ret, budget, prog, local, out, pipe>>

ExitStep(p) ==
    /\ At(p, "exit")
    /\ PmExit(p)
    /\ out' = out \o local[p].stdio
    /\ UNCHANGED <<libVars, prog, local, pipe, pending>>

SystemStep == ServerLoopStep /\ UNCHANGED testVars

ProgramStep(p) ==
    \/ Call(p) \/ RelockStep(p) \/ ReturnStep(p)
    \/ Fork(p) \/ Write(p) \/ Printf(p) \/ Join(p) \/ Read(p) \/ Send(p)
    \/ Put(p) \/ Get(p) \/ SetEnd(p) \/ Branch(p) \/ Sleep(p) \/ Kill(p) \/ ExitStep(p)

TestNext ==
    \/ SystemStep
    \/ \E p \in Proc : \/ ProgramStep(p)
                       \/ ServerStep(p) /\ UNCHANGED testVars
                       \/ Clear(p) /\ UNCHANGED testVars
                       \/ Deliver(p)

(***************************************************************************)
(* The only fairness the tests need: as long as somebody (a process, the   *)
(* server, PM) can move, somebody does.  No program spins, so none of them *)
(* depends on which.                                                       *)
(***************************************************************************)
TestSpec == TestInit /\ [][TestNext]_tVars /\ WF_tVars(TestNext)

-----------------------------------------------------------------------------
(***************************************************************************)
(* Properties.                                                             *)
(***************************************************************************)
Finished == \A p \in Proc : local[p].pc = 0 \/ life[p] # "alive"

\* s and t have the same elements the same number of times: what a test that
\* sorts its output compares.
SameSorted(s, t) ==
    /\ Len(s) = Len(t)
    /\ \A x \in {s[k] : k \in DOMAIN s} \cup {t[k] : k \in DOMAIN t} :
         Cardinality({k \in DOMAIN s : s[k] = x}) = Cardinality({k \in DOMAIN t : t[k] = x})

\* Lines of two equal halves, none torn apart by another's.
WholeLines(s) == \A k \in DOMAIN s : k % 2 = 1 => k < Len(s) /\ s[k] = s[k + 1]
OfFile(fd) == LET ThisFile(x) == x[3] = fd IN SelectSeq(out, ThisFile)

Items(n) == Flat([i \in 1 .. n |-> [t \in 1 .. TURNS |-> <<"item", i, t>>]])

\* When a program has ended, what it wrote is what the templates of
\* testy/template have (u1t1, u1t3 to u1t7, u2t1 to u2t5, test3, test4): locks
\* are granted in the order they were asked for, lines are not torn, turns
\* alternate, every item is consumed once, a signal is noticed and survived,
\* and killed owners give their mutexes back.  lock_hang, whose name says so,
\* never ends: the signal does not get the child out of its cs_lock.
OutputAsTemplate == Finished =>
    /\ prog # "lock_hang"
    /\ prog = "lock_unlock" =>
         out = <<<<"cs_lock", 0, 0>>, <<"cs_unlock", -1, -EPERM>>, <<"cs_unlock", 0, 0>>,
                 <<"cs_unlock", -1, -EPERM>>>>
    /\ prog = "many_procs" =>
         /\ WholeLines(out)
         /\ SameSorted(out, Loop(2 * TURNS, <<<<"line", 0, 0>>, <<"line", 1, 0>>>>))
    /\ prog = "many_pm" =>
         \A fd \in 0 .. 1 : /\ WholeLines(OfFile(fd))
                            /\ OfFile(fd) = Loop(4, <<<<"line", 0, fd>>>>)
    /\ prog = "check_fifo" => out = [i \in 1 .. 3 |-> <<"line", i - 1, 0>>]
    /\ prog = "simple_cv" =>
         out = <<<<"cs_lock", 0, 0>>, <<"cs_lock", 0, 0>>, <<"cs_broadcast", 0, 0>>,
                 <<"cs_unlock", 0, 0>>, <<"cs_lock", 0, 0>>, <<"cs_wait", 0, 0>>,
                 <<"cs_unlock", 0, 0>>>>
    /\ prog = "tictac" =>
         out = Loop(TURNS, <<<<"TI", 0, 0>>, <<"C", 0, 0>>, <<"TA", 0, 0>>, <<"C", 0, 0>>>>)
               \o Loop(2, <<<<"cs_lock", 0, 0>>>>)
    /\ prog = "tictactac" =>
         out = Loop(TURNS, <<<<"TI", 0, 0>>, <<"C", 0, 0>>>>
                           \o Loop(2, <<<<"TA", 0, 0>>, <<"C", 0, 0>>>>))
    /\ prog = "many_cv" => out = <<<<"c", 1, 0>>, <<"c", 0, 0>>>>
    /\ prog \in {"many_cv2", "many_cv2_same"} => SameSorted(out, <<<<"c", 0, 0>>, <<"c", 1, 0>>>>)
    /\ prog = "prod_cons_1_2" => SameSorted(out, Items(1))
    /\ prog = "prod_cons_2_1" => SameSorted(out, Items(2))
    /\ prog = "sigint" => out = <<<<"cs_lock", 0, 0>>, <<"cs_unlock", 0, 0>>>>
    /\ prog = "test3" => SameSorted(out, <<<<"int", 0, 0>>, <<"got", 1, 0>>, <<"int", 2, 0>>>>)
    /\ prog = "test4" => out = Loop(4, <<<<"cs_lock", 0, 0>>>>)

\* No test ever calls fail(): no lock or unlock of the strict programs is
\* refused, the table has a row for each of simple_many's mutexes, a reader of
\* the pipe never finds the wrong number of bytes, and a producer woken by a
\* broadcast (a consumer likewise) never works on a full (an empty) buffer.
NeverFails == \A p \in Proc : ~local[p].failed

\* prod_cons: the buffer is in the pipe once, or in the hands of one process,
\* and that process is the owner of the mutex; so no read blocks for good and
\* no update of the buffer is lost.
BufferUnderMutex ==
    prog \in {"prod_cons_1_2", "prod_cons_2_1"} =>
        /\ Len(pipe) <= 1
        /\ \A p \in Proc :
             /\ At(p, "read") => 1 \in holds[p] /\ pipe # <<>>
             /\ At(p, "put") \/ At(p, "get") \/ At(p, "end") \/ (At(p, "send") /\ local[p].pc > 1) =>
                  1 \in holds[p] /\ pipe = <<>>

\* Every test ends (lock_hang hangs on purpose), whatever the scheduling: no
\* wakeup is lost between the program, libc and the server, and nobody waits
\* for a mutex of the dead.
Terminates == prog # "lock_hang" ~> Finished

=============================================================================
