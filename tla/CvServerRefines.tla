-------------------------- MODULE CvServerRefines ---------------------------
(***************************************************************************)
(* The server implements MutexCv: the row a search by number finds is the  *)
(* abstract mutex or condition variable, and the waiters of the row that   *)
(* a broadcast is at are the ones it has yet to wake.                      *)
(***************************************************************************)
EXTENDS CvServer

absOwner == [m \in Mutex |->
    LET i == indeksUzywanegoMutexa(m) IN IF i = -1 THEN Zero ELSE wlasciciel[i]]

absQueue == [m \in Mutex |->
    LET i == indeksUzywanegoMutexa(m) IN IF i = -1 THEN <<>> ELSE kolejka[i]]

absSleepers(i) == [k \in 1 .. Len(cvProcesy[i]) |-> <<cvProcesy[i][k].proces, cvProcesy[i][k].muteks>>]

absAsleep == [c \in CondVar |->
    LET i == indeksUzywanegoCv(c) IN
    IF i = -1 \/ i = server.i THEN <<>> ELSE absSleepers(i)]

absWaking == IF server.i = -1 THEN <<>> ELSE absSleepers(server.i)

Abstract == INSTANCE MutexCv WITH
    Nobody <- Zero, owner <- absOwner, queue <- absQueue,
    asleep <- absAsleep, waking <- absWaking

\* Every step of the server on its tables is a step of the abstract mutexes
\* and condition variables, or invisible to them: grants are first come first
\* served, also around signals, exits and broadcasts.
ImplementsMutexCv == Abstract!Spec

=============================================================================
