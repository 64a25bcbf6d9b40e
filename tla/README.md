# The MINIX mutex and condition variable server in TLA+

This directory holds TLA+ models of the server in `projekt/servers/cv`, of the
libc functions in front of it, of the test programs that use them and of the process
manager (PM) that tells the server of signals and exits, with TLC runs on small
instances and TLAPS proofs for all instances.

## The system

| part | state | operations | talks to |
|---|---|---|---|
| cv server (`servers/cv/main.c`) | `M[1024]`: used, number, owner, queue; `CV[512]`: used, number, list of (process, mutex) | one handler per message: `CS_LOCK`, `CS_UNLOCK`, `CS_WAIT`, `CS_BROADCAST` from clients, `CS_EINTR`, `CS_EXIT` from PM | answers clients with the blocking `send` |
| queue (`servers/cv/queue.h`) | linked list of malloc'ed elements between two sentinels | `utworzKolejke`, `wstaw`, `pierwszyKolejka`, `czyPusto`, `usunElement` | used by the server |
| libc (`lib/libc/sys-minix/cv.c`) | none but the call in progress | `cs_lock`, `cs_unlock`, `cs_wait`, `cs_broadcast`: `_syscall` (a sendrec), retries after `EINTR` | the server |
| PM (`servers/pm`) | process table `mproc[]`: flags, parent, group, signal sets | calls of processes (signals, fork, exit, wait), signals of the kernel, replies of VFS; `unpause` posts `CS_EINTR`, `exit_proc` posts `CS_EXIT`, `exit_restart` clears the process in the kernel | the server and VFS with `asynsend3`, processes with `sendnb`, the kernel (`sys_stop`, `sys_delay_stop`, `sys_resume`, `sys_clear`) |
| test programs (`testy/src`) | their variables, stdio buffers, a pipe | locking in many orders, FIFO checks, turn taking, producers and consumers, signals and kills; their output is compared with `testy/template` | libc, and PM for fork, wait and kill |

The server is a single sequential process. It keeps a client waiting by not
answering it (`EDONTREPLY`) and answers later, from somebody else's unlock,
broadcast, exit, or a signal. What is hard here:

* `send` blocks. One answer to a process that is not waiting for it hangs the
  server, and every client with it.
* PM's messages are asynchronous and the kernel hands them to the server before
  the senders in its caller queue, so a signal or an exit can overtake a request
  of the process it is about.
* `cs_broadcast` wakes processes one at a time, and those run while it goes on.
* The tables are reused without being cleared, searched by number, and written
  past their end when full.
* A signal to a process in `cs_wait` becomes an `EINTR` and a new `cs_lock`,
  which may be interrupted again.
* A queue element is freed by the function its caller is walking with, and the walks
  begin at a sentinel whose `proces` nobody has set.
* The tests depend on all of it at once, and some of them on the length of a sleep.
* PM has one thread and many partners: a process that is sending cannot be stopped at
  once, VFS may have a process while a signal, a fork or a death concerns it, and
  parent and child may die in any order. Flags carry each case over to the message
  that finishes it, and PM panics where they do not fit.

What makes it correct: a mutex has one holder; the holder is the owner in `M`; a
waiter is in one place only and in the right one, and is found there by the next
unlock or broadcast; service is first come first served; a signal is invisible to
the program; a dead process leaves nothing behind; the server never hangs. For PM: it
does not panic; a process is stopped only while an answer is due that resumes it; every
signal is acted on; every death is posted to the server and reported to a parent once;
the server is told to interrupt a process only when its request has arrived.

## Modules

| module | models |
|---|---|
| `CvServer` | the server, with clients, PM and the kernel's message passing around it; invariants and the inductive invariants `IInv` and `JInv` |
| `MutexCv` | what the server promises: mutexes with an owner and a queue, condition variables with sleepers, no tables and no messages |
| `CvServerRefines` | the refinement mapping from `CvServer` to `MutexCv` |
| `LibCv` | the libc functions on top of `CvServer`; an arbitrary program (`LibSpec`) and one that unlocks what it locks (`MonitorSpec`) |
| `Kolejka` | the server with the linked lists of `queue.h` beside the queues of `CvServer` |
| `Testy` | fifteen test programs on top of `LibCv` |
| `Pm` | PM's signals, fork, exit, wait and dialogue with VFS, up to the messages it posts to the server |
| `CvServerProofs` | `IInv` is an invariant of the server, and what follows from it |
| `CvTablesProofs` | `JInv` is one too: owners, leftovers, and the counting behind the table sizes |
| `CvRefinesProofs` | the server implements `MutexCv` |
| `LibCvProofs` | what the libc functions promise, for every program |
| `KolejkaProofs` | the lists of `queue.h` are the queues of `CvServer`: `KInv` is an invariant |
| `PmProofs` | `PmInv` is an invariant of PM, and what follows from it |
| `PmFamilyProofs` | so is `FamilyInv`, for an INIT that only waits: no panic, replies, parents and children |
| `PmPendingProofs` | so is `PendingInv`, if nothing is forwarded to VFS: no signal is forgotten |
| `MCCvServer`, `MCKolejka`, `MCCvRefines`, `MCLibCv` | symmetry and view for TLC |
| `MCPm` | the requests processes make, view for TLC |

### CvServer and the code

The arrays of structs are functions from rows to fields, under the C names:
`uzywany`, `numer`, `wlasciciel`, `kolejka` for `M`; `cvUzywany`, `cvNumer` and
`cvProcesy` for `CV`, where `procesy`, `muteksy` and `size` together are one
sequence of records. A queue is the sequence of its processes.

`server` says where the server's control is: in `sef_receive`, inside the loop of
`cs_broadcast` (with `original` and the row), blocked in a `send` that cannot
complete (`"stuck"`), or past the end of a table. In the last two nothing more of
the server is modelled: a hang lasts for ever, and after a write past an array
nothing can be said. They are states of the model so that properties can be stated
about reaching them.

`client[p]` is the kernel's view of a process: running, sending (in the server's
caller queue) or receiving (its message was taken, no answer yet). `life` is PM's
view, `async` the messages of PM the server has not received. `holds` is the only
ghost variable: the mutexes a process was told it has and has not asked to give up.

Every handler is one action, its answers included, except `cs_broadcast`, which is
one step per woken process: `cs_broadcast`, `BroadcastNext`, `BroadcastEnd`. In the
others all messages go to different processes and the tables are not read again
after the first send, so nobody can tell whether they left at once. Refusals and
overflows are actions of their own (`UnlockRefused`, `WaitRefused`, `BadType`,
`BroadcastNobody`, `HandleLockPastTable`, `WaitPastTable`, `BroadcastPastTable`).

The server is compiled with `_SYSTEM`, so the error constants are negative and the
`-EINVAL` of `cs_wait` is +22; the model keeps the numbers and LibCv turns them into
return value and errno as `_syscall` does.

External, because the kernel and PM's surroundings are not in the repository, and
taken from how this code uses them: sendrec, `send`, the order in which messages are
received, `sys_delay_stop` (refuses a process that is sending, which is why
`PmSignal` excludes it), `sys_stop` (does not take a message back, so an exiting
process may still be in the caller queue) and `sys_clear` (does).

One assumption about the environment: only PM sends `CS_EINTR` and `CS_EXIT`.
`obslugaWiadomosci` (`main.c:57-100`) does not look at the sender of types 5 and 6, and
answers types below 5 only; libc has functions for types 1 to 4, so in the model a client
sends these or an unknown type. What is checked and proved holds for every program that
goes through libc.

### LibCv

`call[p]` is the function a process is in and `ret[p]` what the last one returned, with
the process's `errno`, which a call that succeeds leaves alone: after a retried `cs_lock`
it still says `EINTR`, and `test3` prints it.
`Relock` is the retry of `cs_lock` and the lock after an interrupted `cs_wait`.
`budget` bounds signals and exits, so that liveness is not trivially defeated by a
signal that comes again each time the process queues.
`late` remembers who died with a request on its way, the case `LockEventuallyGranted` excepts.

### Kolejka

`heap` is the memory of the elements: which are allocated, and `nastepny` and `proces`
of each. Rows get their sentinels at start-up, from fresh pages, so that the `proces`
that is never assigned is 0. The functions of `queue.h` are operators on a heap under
their C names (`usunItem` is `usunElement`, which `CvServer` has for sequences); `Walk`
is the order in which `FOR_EACH` visits, `start` included. Every handler is its action
of `CvServer` joined with what its calls do to the heap, row by row (`KLock`, `KUnlock`,
`KBroadcast`, `KEINTR`, `KExit`; the rest is `KOther`), and none of them reads the heap
to decide anything `CvServer` decides from the sequence: what the code reads there is
what `ListsAreQueues` compares, the elements in order, `czyPusto`, and the search for a
process. So `ListsAreQueues` says that the sequences of `CvServer`, and the proofs
about them, are the lists of the code; it is checked by the run `server` and proved for
every size in `KolejkaProofs`. A freed element loses its contents, so a use
after free shows. `malloc` takes the lowest free element and does not fail.

### Testy

A test program is a sequence of scripts, one for each process it will have, and a script
a sequence of instructions, one for each call others can observe: the libc functions,
with what the code does to their result (`report` it, or `fail` unless it is 0),
`write`, `printf`, `fork`, `wait`, `kill`, the pipe of `prod_cons` and `tictactac`, the
loops over its buffer. `Init` picks the program; an action interprets one kind of
instruction. The libc functions and the server below are `LibCv` and `CvServer`
unchanged.

* Numbers are scaled: 2 or 3 children where the scripts of `testy` ask for 3 to 11,
  `TURNS` = 2, a buffer of `BSIZE` = 2 places instead of 100 (small enough that producers
  find it full, and large enough that a `put` or a `get` comes with and without its
  broadcast), 4 rows of `M` and 4 mutexes in `simple_many` instead of 1024 of each, two
  rounds of fork in `test4` instead of four. `prod_cons` runs with one producer and two
  consumers and the other way round, `many_cv2` with different and with equal numbers.
* A process may stop for any time between two instructions, so most sleeps are left out.
  The programs that depend on one (`check_fifo`, `tictactac`, `lock_hang`, `sigint`,
  `test3`, `test4`) have it as `SLEEP`, which lasts until everybody else has come as far as he
  can: what a second is meant to be enough for.
* `printf` goes to a buffer that `fork` copies and `exit` writes out, as it does when the
  output is a file (the templates of `simple_cv` and `tictac` have the copied line);
  `printf` with `fflush` is a `write`.
* `kill` of several processes is delivered from the end of the process table, as
  `check_sig` does. SIGUSR1 is caught; SIGINT and SIGTERM end the process.
* Processes and numbers are integers here, and 0 is a condition variable: `buf_not_full` of
  `prod_cons` is never assigned.

### Pm

The fields of `mproc[]` are functions from processes, `flags[p]` the set of flags in
`mp_flags`. One message can make PM's functions call each other in a long chain (a
signal kills, the parent gets SIGCHLD, its handler cannot be set up, it dies too), so
`todo` is PM's call stack: a step executes the C function on top and pushes the ones it
calls, in their order. `sig_proc` with `unpause` and `sig_send` is a group of actions,
one per outcome: `SigDuringVfsCall`, `SigIgnored`, `SigBlocked`, `SigFatal`,
`UnpauseLater`, `UnpauseBusy`, `UnpauseByVfs`, `sig_send`. A function that goes on after
a call has its second half as an action of its own (`restart_sigs_end`, `ksig_end`,
`exit_restart_end`, `fork_failed`, `kill_result`; `disinherit` is the loop over the
children in `exit_proc`). A message is received only when the stack is empty; the rest
of the system runs on meanwhile. `mpgrp` is the group of the global `mp`, which
`exit_proc` reads. `post` is the message to the cv server, if any, of the last step.

A process is its endpoint and is used once; slots are counted. The panics over the state
of a process are the disjuncts of `Panics`, and no action is taken there. The others are
not: failed calls of the kernel, VM and VFS (they are taken to succeed), endpoints and
numbers out of range (`main.c:71-83`, `331`, `410`, `507`; callers and VFS are taken to
name processes), `do_fork`'s search for a slot (`forkexit.c:72-74`; `procs_in_use` is the
number of processes in use by definition, so it cannot disagree with the table) and
`sig_send: process not unpaused` (`unpause` and `sig_send` are one step).

`exit_restart` zombifies a process that dumped core before it calls `sys_clear`;
`CoreReply` does the two in one step. Nothing that `zombify` calls reads what `sys_clear`
changes and PM receives nothing in between, so no state between messages differs.
`do_sigaction` is without its copies of `struct sigaction`, which may fail and then change
nothing.

Around PM, external: a process that sends, is received and is answered (`kstate`,
`call`), by PM or by another server; `sys_delay_stop`, which refuses a process that is
sending and raises SIGSNDELAY when the message has been taken (`delay`), the process
being held until `sys_endksig`; VFS, which answers each request once, in any order.
SIGSNDELAY is taken to be beyond `_NSIG`, so that `check_sig` does nothing with it.
`setuid` stands for the four calls that PM only forwards to VFS; their handlers are not
in the repository but the replies are. Signal sets and the requests of each process are
bounded by `Signal` and `Calls`. The request of a process that hangs in `waitpid` says
whom it waits for, so `mp_wpid` is read from there (`right_child`).

`CvServer` assumes of PM that a signal is posted only for a process that is not sending
(`PmSignal`), that an exit is posted once (`PmExit`), and that the kernel clears a
process after that (`PmClear`). `InterruptFollowsRequest` and `ExitPostedOnce` say so
of `Pm`.

## Runs

| run | instance | result |
|---|---|---|
| `server` | 3 processes, 2 mutexes, 1 condition variable, `M` of 2 rows, the linked lists beside | the eleven invariants hold (438 000 states up to symmetry) |
| `tables` | 3 processes, 2 mutexes, 2 condition variables, all tables of one row | `CvTableSuffices`, `OwnersAreHolders`; every overflow happens (451 000 states) |
| `refines` | 4 processes, 1 mutex, 1 condition variable | `CvServer` implements `MutexCv` |
| `libc` | 3 processes, 2 signals, 1 exit | `NeverEINTR`, `ReturnsHolding` (1 808 000 states up to symmetry) |
| `monitor` | 3 processes, 1 signal or 1 exit | `LockEventuallyGranted` |
| `tests` | the test programs, up to 6 processes | `OutputAsTemplate`, `NeverFails`, `BufferUnderMutex`, `Terminates` (219 000 states) |
| `pm_signals` | INIT, a process that makes 13 kinds of call, one that signals it and tries to kill INIT; the kernel raises SIGSEGV | the six invariants and `ExitPostedOnce` (367 000 states) |
| `pm_family` | INIT, a process that waits for any child or for one, two that may be its children or child and grandchild; forks, exits, core dumps | the four invariants and `ParentHearsOnce` (1 045 000 states) |
| `pm_pending` | INIT, a process under SIGKILL, SIGSEGV and a caught signal, no call for VFS | `PendingHasOccasion`, `SignalActedOn` |
| `pm_lost_signal` | the same with `setuid` | **violated**, see below |
| `exited` | 2 processes, 1 mutex | **violated**, see below |
| `refused_wait` | 3 processes | **violated**, see below |

Bounds. Three processes give an owner, a waiter and somebody who signals the order:
a queue of two, a queue and a list at once, an exit that hands over to a process that
is itself exiting. Two mutexes let a process hold one while it waits for the other and
let one exit hand over two. Four processes are needed to see the order in a queue of
three change when its middle is removed. One outstanding message of PM (`ASYN_NR`) is
enough to have it overtake a request; PM can post the next as soon as it is received.
The tables have 1024, 512 and 512 entries in the code and one to three in the runs; in
`tables` they are smaller than the demand on purpose. The heap of `server` has room for
the sentinels of two rows and one element a process (`MAX_ELEMENTS`), which is all that
can be in use when nothing leaks; a leak shows in `HeapTidy` at the first element.

In the PM runs one process is the target: PM keeps no state between processes but
parent, group and slots, and the signaller, the parent and INIT are there for those.
Signals are one of each kind: fatal (SIGKILL, SIGHUP), caught (10), dumping core and not
to be ignored (SIGSEGV), ignored by default (SIGCHLD). In `pm_family` four slots let a
process have two children, so that it can wait for the one while the other dies, or a
child and a grandchild, so that INIT adopts; the next fork is refused.

The view of the server runs leaves out the last reply and what is in rows that are not
in use: no action or invariant of `CvServer` reads them. That of the libc run leaves out
errno where the last function has not failed: nothing of `LibCv` reads it there. Symmetry is used for
invariants and the refinement's safety only, not for liveness.

Deadlock is not checked: all processes may exit, and then the system rightly stops;
that no live process is stuck is what `NoLostProcess` and `LockEventuallyGranted` say.
In the test programs the end is a stop, and `Terminates` says that there is no other.
In the PM runs all may hang in `pause`, and the panic states are covered by `NeverPanics`.
The view of the PM runs leaves out the last request of a process that is not in a call.

Fairness (`LibCv!Fairness`). The server and the libc code keep running: weak fairness.
The kernel's caller queue is first come first served, so each caller is eventually
received however many others call: strong fairness of `ServerStep(p)`. The program
reaches its `cs_unlock`, however often it waits or broadcasts before: strong fairness
of `MonitorUnlock`; without it a holder that never unlocks starves everybody, which is
no fault of the server. Nothing else is fair: programs need not call, signals and exits
need not happen.

Fairness of the tests (`TestSpec`): as long as a process, the server or PM can take a step,
one is taken, whichever it is. No program spins, so nothing stronger is needed, and every order
of steps is among the behaviours.

Fairness of PM (`Pm!Fairness`). PM executes the functions it has called: weak fairness
of `PmStep`. It receives again and again, and the kernel's queues of callers and of
signals are first come first served, so no caller, reply of VFS or SIGSNDELAY waits for
ever: strong fairness of each. Servers take their requests. Processes need not call.

### What the runs found

* `exited`. A process killed while its `cs_lock` is still in the server's caller queue:
  `CS_EXIT` is received first and finds nothing, then the request is received and the
  dead process is made owner (or queued). `sys_clear` comes only when VFS has answered,
  and the server is told nothing more: the mutex is never released. The comment at
  `servers/cv/main.c:342` says the tables are cleaned of the process.
  `AtMostOneLeftover` (which holds) bounds the damage: one row, and nothing in the lists
  of condition variables; `LockEventuallyGranted` excepts exactly this case.
* `refused_wait`. `cs_wait` without the mutex returns 22 with errno untouched, because
  `-EINVAL` in the server is positive; the comment at `lib/libc/sys-minix/cv.c:54`
  promises -1 and `EINVAL`. `tictactac` makes such calls all the time and does not look.
* `pm_lost_signal`. A caught signal comes while the process is sending a `setuid` to PM:
  `DELAY_CALL`. PM receives the call and asks VFS; SIGSNDELAY finds `VFS_CALL`, clears
  `DELAY_CALL` and returns, trusting VFS's reply to look at the signal
  (`servers/pm/signal.c:268`). `restart_sigs` does so only under `PM_SIG_PENDING`, which
  nobody has set. The signal stays pending until something else makes PM look.

Read off the models, without a run of their own:

* The parent of `tictactac` never has the mutex, so its `cs_wait`s are refused and it
  waits in `read` alone. The children's byte leaves them before they are back in
  `cs_wait`; only the parent's `sleep(1)` keeps its broadcast from coming too early and
  the program from hanging. With `SLEEP` taken out of its script TLC shows the lost
  wakeup.
* If the caller of `fork` dies before VFS has answered, the child is INIT's by then
  (`servers/pm/forkexit.c:371`), and `handle_vfs_reply`, which reads `mp_parent` at
  that moment (`servers/pm/main.c:490`), sends INIT the result of a fork it did not
  make. `RepliesAwaited` says that no other process is answered unasked.
* `exit_proc` compares the dead process with the group of whoever PM works for
  (`Hangup`), so a session leader killed from another group sends its own group no
  SIGHUP (`servers/pm/forkexit.c:284`).

## Proofs

The theorems hold for all values of the constants. None of the properties is inductive as
it stands; each module of proofs has an inductive invariant, defined at the end of the
module it is about, that TLC checked on the runs' instances before it was proved.

| theorem | states |
|---|---|
| `InvariantHolds`, `TypeCorrect`, `MutualExclusionHolds`, `HoldersOwn`, `WaitsAtMostOnce`, `ServerNeverStuck`, `NobodyLost` (`CvServerProofs`) | `IInv`, `TypeOK`, `MutualExclusion`, `HoldersAreOwners`, `WaitsOnce`, `NeverStuck`, `NoLostProcess` |
| `TablesInvariantHolds`, `OwnersHold`, `TablesAreCoherent`, `OneLeftover`, `TableSuffices` (`CvTablesProofs`) | `IInv /\ JInv`, `OwnersAreHolders`, `TablesCoherent`, `AtMostOneLeftover`, `CvTableSuffices` |
| `ServerImplements` (`CvRefinesProofs`) | `ImplementsMutexCv` |
| `LibInvariantHolds`, `LibUsesServer`, `MonitorIsProgram`, `NothingReturnsEINTR`, `ReturnMeansOwner` (`LibCvProofs`) | `IInv /\ LibInv`, `LibSpec => Spec`, `MonitorSpec => LibSpec`, `NeverEINTR`, `ReturnsHolding` |
| `LayoutHolds`, `ListsImplementQueues`, `ListsAreTheQueues`, `HeapStaysTidy` (`KolejkaProofs`) | `IInv /\ KInv`, `KSpec => Spec`, `ListsAreQueues`, `HeapTidy` |
| `PmInvariantHolds`, `TypesHold`, `OneVfsCall`, `StoppedForVfs`, `SlotsAreGivenBack`, `DelayCallsEnd`, `ExitIsPostedOnce` (`PmProofs`) | `PmInv`, `TypeOK`, `VfsCallsMatch`, `StoppedOnlyForVfs`, `SlotsGivenBack`, `DelayCallEnds`, `ExitPostedOnce` |
| `FamilyInvariantHolds`, `PmNeverPanics`, `RepliesAreAwaited`, `NoChildIsMissed`, `InterruptsFollowRequests`, `ParentIsToldOnce` (`PmFamilyProofs`) | under `InitOnlyWaits`: `PmInv /\ FamilyInv`, `NeverPanics`, `RepliesAwaited`, `NoMissedChild`, `InterruptFollowsRequest`, `ParentHearsOnce` |
| `PendingInvariantHolds`, `NoSignalIsForgotten` (`PmPendingProofs`) | under `NothingForwarded`: `PmInv /\ PendingInv`, `PendingHasOccasion` |

Assumptions. Of the server: tables of positive size (`SizesAssumption`), and 0 is not a
user process (`ZeroAssumption`: endpoint 0 is PM). Of PM: INIT is there from the start,
signals are positive numbers, SIGCHLD is ignored by default and SIGHUP and SIGKILL are
not (`ProcAssumption`); the requests of processes are of the kinds modelled and name
signals in range (`CallsAssumption`: PM answers EINVAL to others). Of the heap: finitely
many processes, and room for two sentinels a row and one element a process
(`HeapAssumption`), since a `malloc` that fails is not modelled. TLC evaluates them in
every run.

Two hypotheses are not assumptions on the constants but part of the theorems that need
them, because the code does not promise them:

* `InitOnlyWaits`: INIT makes no call but a `waitpid` for any child, and no `kill` names
  it. That is INIT once the system is up; while it starts its gettys it also forks. It is
  needed: INIT's death is a panic, and INIT can be sent the result of an orphan's fork (see
  above), after which it runs on while PM has it in a call. The other processes may make
  any calls, as long as they do not signal INIT.
* `NothingForwarded`: no process makes a call that PM forwards to VFS (`fork`, and the
  four that `setuid` stands for). It is needed too: `pm_lost_signal` is the counterexample.

### The server's invariant (`CvServerProofs`)

The properties depend on each other. Mutual exclusion needs that holders are owners and
that a number has one row (`DistinctNumbers`). Holders stay owners because an exiting
process holds nothing (`ExitsAreDead`) and one whose unlock is on its way no longer counts
on the mutex (`GaveUp`). The server never gets stuck because whoever is in a queue or list
is blocked in the very call that put it there (`EntriesBlocked`) and is there once
(`WaitsOnce`), so no two answers go to one process. `FreeRowsEmpty` keeps a reused row
from inheriting a queue, and `BroadcastState` ties the loop of `cs_broadcast` to the
process it will answer.

The proof has one lemma per action (`HandleLockStep`, `UnlockStep`, `WaitStep`,
`BroadcastNextStep`, `EintrStep`, `ExitedStep`, ...). Lemmas about the operators come
first: `FirstProperties` and the searches, `RemovePositionProperties`,
`UsunElementProperties`; `Sending` says what a set of answers does when each target is
receiving and gets one; `UnlockTables`, `UnlockSends` and `QueuesOnce` are shared by
unlock, wait and exit; `QueuesWithout`, `CvWithout` and `RemovalStep` by signal and exit;
`TablesKept` covers the steps that leave the tables alone.

### The tables (`CvTablesProofs`)

`JInv` is inductive together with `IInv`. That owners know what they own
(`OwnersAreHolders`) needs that a queue or list never has the owner of the mutex it waits
for (`OwnersDoNotWait`), or an unlock would hand the mutex to a process that is not
waiting for that answer. `AtMostOneLeftover` is not kept by the last request of a dead
process unless no row names it until that request is received (`LastRequest`).
`ListsInUse` excepts the row a broadcast is at, which is empty in the loop's last round,
and `TablesFull` says how the tables looked when the server left them.

Steps come in few shapes, and each handler is shown to have one: it only takes away from
queues and lists (`Shrinks`), it leaves the tables alone (`Quiet`, or `Outside` the
server), it locks (`Locks`) or it gives mutexes back (`GivesBack`: unlock, wait, exit).
`TableSuffices` is a counting argument: the lists of a full table are nonempty
(`ListsInUse`) and have nobody in common (`WaitsOnce`), so choosing one sleeper from each
row is an injection (`SleepersCounted`); sleepers that have exited cannot be among them by
`AtMostOneLeftover`.

### The refinement (`CvRefinesProofs`)

Each step of the server is matched with one step of `MutexCv`: `HandleLock` with `Lock`,
`cs_unlock` with `Unlock`, `cs_wait` with `Sleep`, the first step of `cs_broadcast` with
`Broadcast`, each `BroadcastNext` with `Wake`, `CS_EINTR` with `Interrupt`, `CS_EXIT` with
`Exit`. A wait that runs past `CV` has given its mutex up by then and is an `Unlock`.
Refusals, the end of a broadcast, overflows, and whatever clients, PM and the kernel do
change nothing (`OthersUnseen`). The mapping finds rows by searching, so the proof first
turns the searches into facts about rows (`AbsRows`), which needs `DistinctNumbers`;
`OwnersAreProcesses` and `ZeroAssumption` keep an owner from looking like nobody,
`OwnersDoNotWait` and `EntriesBlocked` give the abstract guards. A queue that loses its
middle keeps its order: `LeaveQueue` and `LeaveList` show that `usunElement` and the
shifting loop of the lists do what `Leave` says.

### The libc functions (`LibCvProofs`)

`LibInv` says that a message in the server's hands is one the current function sends
(`MessageOfCall`; an interrupted `cs_wait` may be locking), that `EINTR` reaches only a
process in `cs_lock` or `cs_wait` and an OK there has made it a holder (`ReplyOfCall`),
that it still is one when it has returned (`ReturnedHolding`), and that a function that
goes back for the mutex, with `EINTR` in errno, has returned nothing (`NothingYet`). The server's side of this
is one lemma (`ServerServes`): whatever a step of the server does to a process, it leaves
it alone, takes its message, or answers it as its request deserves. `LibUsesServer` then
carries every theorem about the server over to every program.

### The linked lists (`KolejkaProofs`)

`Layout(h, C, Q)` says that heap `h` consists of the sentinels and, for each row `i`, of
the elements `C[i]`, one for each process of the queue `Q[i]`, linked in that order from
`start` to `koniec`, no element in two places. `KInv` is the layout of the heap with the
queues of `CvServer`, the elements being those a walk along `nastepny` visits, and
`WalkOf` says that in a layout the walk visits just `C[i]`. `Unlinked` and `Linked` are
the pointer surgery of `pierwszyKolejka` and `usunElement` and of `wstaw`; `Spare` is the
counting behind `malloc`: a process is queued once (`WaitsOnce`) and the newcomer is not,
so a free element is left. The search (`FoundAt`) reads the `proces` of `start`, which
nobody has set, and does not take it for a process because 0 is none
(`ZeroAssumption`). `unlock` and the removal of a process go through all rows;
the loops are recursive functions of the rows still to do, and an induction over sets of
numbers stated without an operator parameter (`AllNumbers`) shows that they do what they
do row by row (`UnlockRowsLayout`, `RemoveFromRowsLayout`). `ListsImplementQueues` then
carries the theorems about the server over to the server with its lists.

### PM (`PmProofs`)

`PmInv` has a part for each process and one for the call stack. For a process: VFS has
its one request, of the right kind (`VfsInv`); it goes from alive through exiting to
cleared and out of the table (`LifeInv`); it is stopped for its signals and for nothing
else (`StopInv`); and PM and the kernel agree on a delayed stop (`DelayInv`). Between
messages that is what the properties say; in the middle of a message it is true only
together with what PM has still to do, so `StackInv` says which frames promise what: an
`exit_proc` is on top and its process alive, an `exit_restart_end` comes after the kernel
has cleared the process, a parent is told without freeing the slot only if a frame below
or a reply of VFS will free it, and `sys_endksig` is last.

Nearly every step matters to one process, and then that process's part and the frames
pushed are all there is to show (`StepKeeps`); most of PM's functions do not even touch
the flags the invariant looks at (`CalmKeeps`). The three that are different have lemmas
of their own: telling a parent changes parent and child (`Telling`), a fork makes a process
(`DoForkKeeps`, `ForkReplyKeeps`), a death starts the longest chain (`ExitProcKeeps`).
`ExitIsPostedOnce` is an action property: no step but `exit_proc` makes anybody die
(`NobodyDies`, for every other action), and `exit_proc` makes one process die and posts
its `CS_EXIT`. `DelayCallEnds` is for the processes that were not forked, since a forked
child inherits the flag and not the SIGSNDELAY.

### Parents, children and replies (`PmFamilyProofs`)

`FamilyInv` is inductive together with `PmInv`. Its parts:

* `InitInv`: INIT is alive, VFS never has it, it is alone in its group, and no signal
  reaches it but a SIGCHLD, which it ignores.
* `CallsInv`: what a C function may take for granted when it is called. `sig_proc` runs at
  once and on a live process, `check_parent` at once and on a zombie, a loop of
  `check_pending` or `disinherit` goes on only while its process is alive or VFS still has
  it, and at most one function has the answer to the request PM works on.
* `ParentInv`, `ZombieInv`, `DeadInv`: a process in the table has a live parent, or one
  whose children are about to be adopted; a zombie its parent waits for is being reported;
  the dead wait for nothing and are reported once.
* `OwedInv`: a live process awaits whatever PM will send it, and PM will send it one thing.
  The flag `REPLY`, a call PM lets hang, a function on the stack that has the answer and a
  request at VFS exclude each other, and each means that the process is receiving from PM.
  While VFS has it, or it is about to be resumed, it is not sending.

Between messages these are the properties; in the middle of one they hold only with what
the stack has still to do, which is why each part names it. The frames pushed by each
action are compared with `CallsInv` (`CallsStep`), and a step that matters to one process
leaves the others' parts alone (`FamilyStep`). The long ones are a death (`ExitProcFamily`,
which makes orphans, a zombie and perhaps a hangup at once), the adoption of a child by
INIT (`AdoptionFamily`, which may report it), telling a parent (`TellingFamily`) and fork
(`DoForkFamily`, `ForkReplyFamily`: two processes await one answer). `PmNeverPanics` goes
through the panics one by one; `ParentIsToldOnce` is an action property: no step but
`check_parent` and `WaitCollects` makes a child leave its parent's sight, except when a
slot is freed whose parent was told before (`NoNews`).

### Pending signals (`PmPendingProofs`)

`HasOccasion(p, s)` says when signal `s` of `p` will be looked at, at any moment: after the
answer of VFS, after the SIGSNDELAY, by a loop of `check_pending` that has not come to `s`
yet, wherever it is on the stack, or by the one that `restart_sigs`, on top of the stack,
is about to start. A step keeps the frames under the top (`StepKeepsBelow`) and, unless it
is one of the two that look at signals, is `Calm`: no signal of a process comes to be
looked at unless VFS or a SIGSNDELAY is to follow. For `check_pending` the argument is the
order of the loop (`LowestFound`): what it passes over is lower than what it takes.

### Model-checked only

* The properties of `Testy`: about particular programs and their outputs.
* `LockEventuallyGranted`, `Terminates`, `SignalActedOn`: liveness is out of the prover's
  reach.

## Not modelled

* A `malloc` that fails, which `queue.h` does not look at.
* In PM: tracing (its file is not in the repository), system processes and `srv_fork`,
  exec (`do_exec` and `exec_restart` are in a file that is not in the repository),
  alarms and timers, uids and permissions, accounting and scheduling, `waitpid` for a
  process group, `sa_mask` and the `SA_` flags, the mask that `sigsuspend` saves, and
  the search for the server by its name.
* PM's asynsend table, which is libsys's; `CvServer` bounds the messages instead.
* RS and the lookup of the server's endpoint; a restart of the server, which begins with
  empty tables and keeps nothing.
* Of the tests: `bad_prod_cons`, which calls a function that does not exist and is not
  built; `st`, the child of `sigint` alone; several copies of a program at once; what
  they do with bad arguments or a failing fork, pipe or open.
* The build and installation files, the text the programs print.

## Plan

What is left is what the theorems have as hypotheses: an INIT that forks, with the unasked
answer it can get counted as one of the things PM owes it; and `PendingHasOccasion` for
processes that fork, where the child inherits pending signals with `VFS_CALL` set and
without `PM_SIG_PENDING`.
