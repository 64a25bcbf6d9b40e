------------------------------ MODULE Kolejka -------------------------------
(***************************************************************************)
(* The waiting queues of the server as queue.h keeps them: singly linked   *)
(* lists of malloc'ed elements between two sentinels, start and koniec.    *)
(*                                                                         *)
(* CvServer has a queue as the sequence of its processes.  Here the same   *)
(* server runs with the lists beside the sequences: every handler does     *)
(* its CvServer action and, to the heap, what its calls of wstaw,          *)
(* pierwszyKolejka and usunElement do.  The properties say that the two    *)
(* never part, so that what holds for the sequences holds for the lists.   *)
(*                                                                         *)
(* heap.zajete is the set of allocated elements.  What a freed element     *)
(* held is gone.  malloc returns the lowest free element (nothing compares *)
(* addresses, so any other choice would be a renaming); that it fails,     *)
(* which the code does not look at, is left out.                           *)
(***************************************************************************)
EXTENDS CvServer

CONSTANT MAX_ELEMENTS   \* bound: elements the heap has room for

\* Room for two sentinels a row and one element a process.
ASSUME HeapAssumption ==
    /\ IsFiniteSet(Proc)
    /\ MAX_ELEMENTS \in Nat
    /\ MAX_ELEMENTS >= 2 * MAX_MUTEX + Cardinality(Proc)

VARIABLE heap

kVars == <<vars, heap>>

NULL == 0
Addr == 1 .. MAX_ELEMENTS

\* The sentinels of row i, in the order main's loop allocates them.
start(i)  == 2 * i + 1
koniec(i) == 2 * i + 2
Sentinel  == {start(i) : i \in Slot} \cup {koniec(i) : i \in Slot}

\* Mutant: start holds what an earlier user of the memory left there.
utworzKolejkeRubbish ==
    [zajete   |-> Sentinel,
     nastepny |-> [a \in Addr \cup {NULL} |->
                     IF \E i \in Slot : a = start(i) THEN a + 1 ELSE NULL],
     proces   |-> [a \in Addr |-> IF a = 1 THEN CHOOSE p \in Proc : TRUE ELSE Zero]]
\* utworzKolejke for every row.  proces of a sentinel is never set: the memory
\* is the first the server asks for, fresh pages of zeros.
utworzKolejke ==
    [zajete   |-> Sentinel,
     nastepny |-> [a \in Addr \cup {NULL} |->
                     IF \E i \in Slot : a = start(i) THEN a + 1 ELSE NULL],
     proces   |-> [a \in Addr |-> Zero]]

-----------------------------------------------------------------------------
(***************************************************************************)
(* The functions of queue.h on heap h and the queue of row i.              *)
(***************************************************************************)

\* The elements FOR_EACH visits: start first, then the list up to koniec (or
\* up to NULL, should it ever leave the list).
Walk(h, i) ==
    LET w[k \in 0 .. MAX_ELEMENTS] ==
            IF k = 0 THEN <<start(i)>>
            ELSE LET s    == w[k - 1]
                     item == h.nastepny[s[Len(s)]]
                 IN  IF item \in {koniec(i), NULL} THEN s ELSE Append(s, item)
    IN  w[MAX_ELEMENTS]

\* free of element a of heap h.
free(h, a) == [zajete   |-> h.zajete \ {a},
               nastepny |-> [h.nastepny EXCEPT ![a] = NULL],
               proces   |-> [h.proces EXCEPT ![a] = Zero]]
malloc(h) == First(Addr \ h.zajete)

czyPusto(h, i) == h.nastepny[start(i)] = koniec(i)

\* Mutant: the new element goes to the front.
wstawFront(h, i, p) ==
    LET nowy == malloc(h) IN
    [zajete   |-> h.zajete \cup {nowy},
     nastepny |-> [h.nastepny EXCEPT ![start(i)] = nowy, ![nowy] = h.nastepny[start(i)]],
     proces   |-> [h.proces EXCEPT ![nowy] = p]]
wstaw(h, i, p) ==
    LET last == Walk(h, i)[Len(Walk(h, i))]
        nowy == malloc(h)
    IN
    [zajete   |-> h.zajete \cup {nowy},
     nastepny |-> [h.nastepny EXCEPT ![last] = nowy, ![nowy] = koniec(i)],
     proces   |-> [h.proces EXCEPT ![nowy] = p]]

\* Mutant: the element is not freed.
pierwszyKeeping(h, i) ==
    [h EXCEPT !.nastepny[start(i)] = h.nastepny[h.nastepny[start(i)]]]
pierwszyKolejka(h, i) ==
    LET first == h.nastepny[start(i)] IN
    free([h EXCEPT !.nastepny[start(i)] = h.nastepny[first]], first)

\* The item FOR_EACH stops at for process p (the walk begins with the sentinel
\* start), or NULL.
FoundItem(h, i, p) ==
    LET w == Walk(h, i)
        k == First({j \in DOMAIN w : h.proces[w[j]] = p})
    IN  IF k = -1 THEN NULL ELSE w[k]

\* usunElement: the element before item is linked to the one after it.
usunItem(h, i, item) ==
    LET w == Walk(h, i)
        k == First({j \in DOMAIN w : h.nastepny[w[j]] = item})
    IN  IF k = -1 THEN h ELSE free([h EXCEPT !.nastepny[w[k]] = h.nastepny[item]], item)

-----------------------------------------------------------------------------
(***************************************************************************)
(* What the handlers do to the heap, row by row from the lowest up.        *)
(***************************************************************************)

\* cs_unlock of the rows in J: the first element of each queue goes.
UnlockRow(h, i, J) == IF i \in J /\ ~czyPusto(h, i) THEN pierwszyKolejka(h, i) ELSE h
UnlockRows(h, J) ==
    LET g[i \in 0 .. MAX_MUTEX] == IF i = 0 THEN h ELSE UnlockRow(g[i - 1], i - 1, J)
    IN  g[MAX_MUTEX]

\* The loops of wyslijEINTR and usunZakonczonyProces over all queues.
RemoveFromRow(h, i, p) ==
    LET item == FoundItem(h, i, p) IN
    IF ~czyPusto(h, i) /\ item # NULL THEN usunItem(h, i, item) ELSE h
RemoveFromRows(h, p) ==
    LET g[i \in 0 .. MAX_MUTEX] == IF i = 0 THEN h ELSE RemoveFromRow(g[i - 1], i - 1, p)
    IN  g[MAX_MUTEX]

\* cs_lock: a mutex of somebody else gets p at the end of its queue.
LockHeap(p, m) ==
    LET i == indeksUzywanegoMutexa(m) IN
    heap' = IF i # -1 /\ wlasciciel[i] # p THEN wstaw(heap, i, p) ELSE heap

KLock(p) == HandleLock(p) /\ LockHeap(p, client[p].req.mutex)

KUnlock(p) ==
    /\ cs_unlock(p) \/ cs_wait(p) \/ WaitPastTable(p)
    /\ heap' = UnlockRows(heap, {indeksUzywanegoMutexa(client[p].req.mutex)})

KBroadcast ==
    /\ BroadcastNext
    /\ LET w == Head(cvProcesy[server.i]) IN LockHeap(w.proces, w.muteks)

KEINTR == wyslijEINTR /\ heap' = RemoveFromRows(heap, Head(async).proces)

KExit ==
    LET p == Head(async).proces
        J == {i \in Slot : uzywany[i] = 1 /\ wlasciciel[i] = p}
    IN  usunZakonczonyProces /\ heap' = RemoveFromRows(UnlockRows(heap, J), p)

\* Handlers that do not touch a queue, user processes, PM and the kernel.
KOther ==
    /\ \/ \E p \in Proc : \/ HandleLockPastTable(p) \/ UnlockRefused(p) \/ WaitRefused(p)
                          \/ BroadcastNobody(p) \/ cs_broadcast(p) \/ BadType(p)
                          \/ \E r \in Request : send_message(p, r)
                          \/ PmSignal(p) \/ PmExit(p) \/ PmClear(p)
       \/ BroadcastPastTable \/ BroadcastEnd
    /\ UNCHANGED heap

KInit == Init /\ heap = utworzKolejke

KNext == \/ \E p \in Proc : KLock(p) \/ KUnlock(p)
         \/ KBroadcast \/ KEINTR \/ KExit \/ KOther

KSpec == KInit /\ [][KNext]_kVars

-----------------------------------------------------------------------------
(***************************************************************************)
(* Properties.                                                             *)
(***************************************************************************)

\* The elements of the list of row i, in order.
Elements(i) == Tail(Walk(heap, i))

\* The list read from start to koniec is the queue: nobody is lost from it,
\* doubled or overtaken by the pointer surgery of wstaw, pierwszyKolejka and
\* usunElement, and the search of FOR_EACH, which reads the uninitialised
\* proces of the sentinel first, finds a process exactly when it is queued.
ListsAreQueues ==
    \A i \in Slot :
        /\ LET e == Elements(i) IN [k \in DOMAIN e |-> heap.proces[e[k]]] = kolejka[i]
        /\ czyPusto(heap, i) <=> kolejka[i] = <<>>
        /\ \A p \in Proc : kolejka[i] # <<>> =>
              (FoundItem(heap, i, p) # NULL <=> Queues(p, i))

\* Every element a list reaches is allocated, is in that list only, and every
\* other allocated element is a sentinel: no element is used after free, freed
\* while linked, or leaked, however long the server runs.
HeapTidy ==
    LET cells == [i \in Slot |-> LET e == Elements(i) IN {e[k] : k \in DOMAIN e}] IN
    /\ heap.zajete = Sentinel \cup UNION {cells[i] : i \in Slot}
    /\ \A i, j \in Slot : i # j => cells[i] \cap cells[j] = {}
    /\ \A i \in Slot : /\ cells[i] \cap Sentinel = {}
                       /\ LET w == Walk(heap, i) IN heap.nastepny[w[Len(w)]] = koniec(i)

-----------------------------------------------------------------------------
(***************************************************************************)
(* The inductive invariant behind the theorems of KolejkaProofs.           *)
(***************************************************************************)
Heap == [zajete   : SUBSET Addr,
         nastepny : [Addr \cup {NULL} -> Addr \cup {NULL}],
         proces   : [Addr -> Proc \cup {Zero}]]

\* The address after the k-th element of row i when C has the rows' elements.
After(C, i, k) == IF k < Len(C[i]) THEN C[i][k + 1] ELSE koniec(i)
Cells(C) == {a \in Addr : \E i \in Slot : \E k \in 1 .. Len(C[i]) : C[i][k] = a}

\* Heap h has the queues Q, row i in the elements C[i], and nothing else.
Layout(h, C, Q) ==
    /\ h \in Heap
    /\ h.zajete = Sentinel \cup Cells(C)
    /\ \A i \in Slot :
         /\ C[i] \in Seq(Addr) /\ Len(C[i]) = Len(Q[i])
         /\ h.proces[start(i)] = Zero /\ h.nastepny[start(i)] = After(C, i, 0)
         /\ \A k \in 1 .. Len(C[i]) :
              /\ C[i][k] \notin Sentinel
              /\ h.proces[C[i][k]] = Q[i][k] /\ h.nastepny[C[i][k]] = After(C, i, k)
    /\ \A i, j \in Slot : \A k \in 1 .. Len(C[i]) : \A l \in 1 .. Len(C[j]) :
         C[i][k] = C[j][l] => i = j /\ k = l

KInv == Layout(heap, [i \in Slot |-> Elements(i)], kolejka)

=============================================================================
