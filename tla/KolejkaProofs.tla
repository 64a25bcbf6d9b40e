--------------------------- MODULE KolejkaProofs ----------------------------
(***************************************************************************)
(* The linked lists of queue.h are the queues of CvServer, for any number  *)
(* of rows, processes and elements: the pointer surgery of wstaw,          *)
(* pierwszyKolejka and usunElement keeps every list in its elements and    *)
(* every element in one list.                                              *)
(***************************************************************************)
EXTENDS Kolejka, CvServerProofs, FiniteSetTheorems

-----------------------------------------------------------------------------
(***************************************************************************)
(* Loops.  A set that has 0 and with n also n + 1 has every number; with   *)
(* that, a loop over the rows has a value after every row.                 *)
(***************************************************************************)
LEMMA AllNumbers ==
    ASSUME NEW T \in SUBSET Nat, 0 \in T, \A n \in T : n + 1 \in T
    PROVE  T = Nat
<1> SUFFICES ASSUME Nat \ T # {} PROVE FALSE
  OBVIOUS
<1>1. PICK n \in Nat \ T : \A m \in Nat \ T : n <= m
  BY MinExists
<1>2. n - 1 \in Nat /\ n - 1 \notin Nat \ T
  BY <1>1
<1> QED BY <1>1, <1>2

\* F[i] is what round i of a loop does to a value of H, f[i] the value after it.
Rounds(N, H, F) == F \in [1 .. N -> [H -> H]]
Loop(N, H, h, F, f) ==
    /\ f \in [0 .. N -> H]
    /\ f[0] = h /\ \A i \in 1 .. N : f[i] = F[i][f[i - 1]]

LEMMA LoopExists ==
    ASSUME NEW N \in Nat, NEW H, NEW h \in H, NEW F, Rounds(N, H, F)
    PROVE  \E f : Loop(N, H, h, F, f)
<1>0. F \in [1 .. N -> [H -> H]]
  BY DEF Rounds
<1> DEFINE Upto(n) == \E f \in [0 .. n -> H] :
                         f[0] = h /\ \A i \in 1 .. n : f[i] = F[i][f[i - 1]]
           T == {n \in Nat : n <= N => Upto(n)}
<1>1. Upto(0)
  <2> DEFINE f == [i \in 0 .. 0 |-> h]
  <2>1. f \in [0 .. 0 -> H] /\ f[0] = h /\ \A i \in 1 .. 0 : f[i] = F[i][f[i - 1]]
    OBVIOUS
  <2> HIDE DEF f
  <2> QED BY <2>1
<1>2. ASSUME NEW n \in Nat, n + 1 <= N, Upto(n) PROVE Upto(n + 1)
  <2>1. PICK f \in [0 .. n -> H] : f[0] = h /\ \A i \in 1 .. n : f[i] = F[i][f[i - 1]]
    BY <1>2
  <2> DEFINE g == [i \in 0 .. n + 1 |-> IF i = n + 1 THEN F[n + 1][f[n]] ELSE f[i]]
  <2>2. F[n + 1] \in [H -> H] /\ f[n] \in H
    BY <1>0, <1>2
  <2>3. g \in [0 .. n + 1 -> H]
    BY <2>1, <2>2
  <2>4. g[0] = h /\ \A i \in 0 .. n : g[i] = f[i]
    BY <1>2, <2>1
  <2>5. g[n + 1] = F[n + 1][f[n]]
    BY <1>2
  <2>6. \A i \in 1 .. n + 1 : i = n + 1 \/ (i \in 1 .. n /\ i \in 0 .. n /\ i - 1 \in 0 .. n)
    BY <1>2
  <2>7. n \in 0 .. n /\ (n + 1) - 1 = n
    BY <1>2
  <2> HIDE DEF g
  <2>8. \A i \in 1 .. n + 1 : g[i] = F[i][g[i - 1]]
    BY <2>1, <2>4, <2>5, <2>6, <2>7
  <2> QED BY <2>3, <2>4, <2>8
<1> HIDE DEF Upto
<1>3. T \in SUBSET Nat /\ 0 \in T /\ \A n \in T : n + 1 \in T
  BY <1>1, <1>2
<1>4. T = Nat
  BY <1>3, AllNumbers
<1>5. Upto(N)
  BY <1>4
<1> QED BY <1>5 DEF Upto, Loop

\* f[i] is the heap h after the first i rounds of the loop of UnlockRows, which
\* stays among the heaps of H.
UnlockRounds(h, J, f) ==
    /\ f[0] = h /\ \A i \in Slot : f[i + 1] = UnlockRow(f[i], i, J)
    /\ UnlockRows(h, J) = f[MAX_MUTEX]
UnlockClosed(H, J) == \A r \in H : \A i \in Slot : UnlockRow(r, i, J) \in H

\* The loop of cs_unlock over the rows has a value after every row.
LEMMA UnlockRowsEquation ==
    ASSUME NEW H, NEW h \in H, NEW J,
           UnlockClosed(H, J)
    PROVE  \E f : UnlockRounds(h, J, f)
<1> DEFINE F == [i \in 1 .. MAX_MUTEX |-> [r \in H |-> UnlockRow(r, i - 1, J)]]
           Body(g) == [i \in 0 .. MAX_MUTEX |-> IF i = 0 THEN h ELSE UnlockRow(g[i - 1], i - 1, J)]
           g == CHOOSE g : g = Body(g)
<1>0. MAX_MUTEX \in Nat /\ \A i \in 1 .. MAX_MUTEX : i - 1 \in Slot
  BY SizesAssumption DEF Slot
<1>1. F \in [1 .. MAX_MUTEX -> [H -> H]]
  BY <1>0 DEF UnlockClosed
<1>2. \A i \in 1 .. MAX_MUTEX : \A r \in H : F[i][r] = UnlockRow(r, i - 1, J)
  BY <1>0
<1> HIDE DEF F
<1>3. PICK f : /\ f \in [0 .. MAX_MUTEX -> H]
               /\ f[0] = h /\ \A i \in 1 .. MAX_MUTEX : f[i] = F[i][f[i - 1]]
  <2>1. MAX_MUTEX \in Nat /\ Rounds(MAX_MUTEX, H, F)
    BY <1>0, <1>1 DEF Rounds
  <2>2. PICK f : Loop(MAX_MUTEX, H, h, F, f)
    BY <2>1, LoopExists
  <2> QED BY <2>2 DEF Loop
<1>4. \A i \in 1 .. MAX_MUTEX : f[i - 1] \in H /\ f[i] = UnlockRow(f[i - 1], i - 1, J)
  BY <1>0, <1>2, <1>3
<1>5. f = Body(f)
  BY <1>0, <1>3, <1>4
<1>6. UnlockRows(h, J) = g[MAX_MUTEX]
  BY DEF UnlockRows
<1>7. g = Body(g)
  BY <1>5
<1> HIDE DEF g
<1>8. g[0] = h /\ \A i \in 1 .. MAX_MUTEX : g[i] = UnlockRow(g[i - 1], i - 1, J)
  BY <1>0, <1>7
<1> DEFINE T == {n \in Nat : n <= MAX_MUTEX => g[n] = f[n]}
<1>9. 0 \in T /\ \A n \in T : n + 1 \in T
  BY <1>0, <1>3, <1>4, <1>8
<1>10. T = Nat
  BY <1>9, AllNumbers
<1>11. g[MAX_MUTEX] = f[MAX_MUTEX]
  BY <1>0, <1>10
<1>12. \A i \in Slot : f[i + 1] = UnlockRow(f[i], i, J)
  BY <1>0, <1>4 DEF Slot
<1> QED BY <1>3, <1>6, <1>11, <1>12 DEF UnlockRounds

\* f[i] is the heap h after the first i rounds of the loop of RemoveFromRows, which
\* stays among the heaps of H.
RemoveRounds(h, p, f) ==
    /\ f[0] = h /\ \A i \in Slot : f[i + 1] = RemoveFromRow(f[i], i, p)
    /\ RemoveFromRows(h, p) = f[MAX_MUTEX]
RemoveClosed(H, p) == \A r \in H : \A i \in Slot : RemoveFromRow(r, i, p) \in H

\* So has the loop that takes a process out of the queues.
LEMMA RemoveFromRowsEquation ==
    ASSUME NEW H, NEW h \in H, NEW p,
           RemoveClosed(H, p)
    PROVE  \E f : RemoveRounds(h, p, f)
<1> DEFINE F == [i \in 1 .. MAX_MUTEX |-> [r \in H |-> RemoveFromRow(r, i - 1, p)]]
           Body(g) == [i \in 0 .. MAX_MUTEX |-> IF i = 0 THEN h ELSE RemoveFromRow(g[i - 1], i - 1, p)]
           g == CHOOSE g : g = Body(g)
<1>0. MAX_MUTEX \in Nat /\ \A i \in 1 .. MAX_MUTEX : i - 1 \in Slot
  BY SizesAssumption DEF Slot
<1>1. F \in [1 .. MAX_MUTEX -> [H -> H]]
  BY <1>0 DEF RemoveClosed
<1>2. \A i \in 1 .. MAX_MUTEX : \A r \in H : F[i][r] = RemoveFromRow(r, i - 1, p)
  BY <1>0
<1> HIDE DEF F
<1>3. PICK f : /\ f \in [0 .. MAX_MUTEX -> H]
               /\ f[0] = h /\ \A i \in 1 .. MAX_MUTEX : f[i] = F[i][f[i - 1]]
  <2>1. MAX_MUTEX \in Nat /\ Rounds(MAX_MUTEX, H, F)
    BY <1>0, <1>1 DEF Rounds
  <2>2. PICK f : Loop(MAX_MUTEX, H, h, F, f)
    BY <2>1, LoopExists
  <2> QED BY <2>2 DEF Loop
<1>4. \A i \in 1 .. MAX_MUTEX : f[i - 1] \in H /\ f[i] = RemoveFromRow(f[i - 1], i - 1, p)
  BY <1>0, <1>2, <1>3
<1>5. f = Body(f)
  BY <1>0, <1>3, <1>4
<1>6. RemoveFromRows(h, p) = g[MAX_MUTEX]
  BY DEF RemoveFromRows
<1>7. g = Body(g)
  BY <1>5
<1> HIDE DEF g
<1>8. g[0] = h /\ \A i \in 1 .. MAX_MUTEX : g[i] = RemoveFromRow(g[i - 1], i - 1, p)
  BY <1>0, <1>7
<1> DEFINE T == {n \in Nat : n <= MAX_MUTEX => g[n] = f[n]}
<1>9. 0 \in T /\ \A n \in T : n + 1 \in T
  BY <1>0, <1>3, <1>4, <1>8
<1>10. T = Nat
  BY <1>9, AllNumbers
<1>11. g[MAX_MUTEX] = f[MAX_MUTEX]
  BY <1>0, <1>10
<1>12. \A i \in Slot : f[i + 1] = RemoveFromRow(f[i], i, p)
  BY <1>0, <1>4 DEF Slot
<1> QED BY <1>3, <1>6, <1>11, <1>12 DEF RemoveRounds

-----------------------------------------------------------------------------
(***************************************************************************)
(* Addresses and the walk along a list.                                    *)
(***************************************************************************)
LEMMA Sentinels ==
    /\ \A i \in Slot : /\ start(i) \in Addr /\ koniec(i) \in Addr
                       /\ start(i) \in Sentinel /\ koniec(i) \in Sentinel
    /\ \A i, j \in Slot : start(i) # koniec(j) /\ (start(i) = start(j) => i = j)
    /\ Sentinel \subseteq Addr /\ NULL \notin Addr
    /\ \A a \in Addr : a \notin Sentinel => a > 2 * MAX_MUTEX
<1>0. MAX_MUTEX \in Nat /\ MAX_ELEMENTS \in Nat /\ MAX_ELEMENTS >= 2 * MAX_MUTEX
  <2>1. Cardinality(Proc) \in Nat
    BY HeapAssumption, FS_CardinalityType
  <2> QED BY <2>1, SizesAssumption, HeapAssumption
<1>1. /\ \A i \in Slot : start(i) \in Addr /\ koniec(i) \in Addr
      /\ \A i, j \in Slot : start(i) # koniec(j) /\ (start(i) = start(j) => i = j)
  BY <1>0 DEF Slot, start, koniec, Addr
<1>2. \A a \in Addr : a \notin Sentinel => a > 2 * MAX_MUTEX
  <2> SUFFICES ASSUME NEW a \in Addr, ~(a > 2 * MAX_MUTEX) PROVE a \in Sentinel
    OBVIOUS
  <2>1. PICK i \in Slot : a = 2 * i + 1 \/ a = 2 * i + 2
    <3>1. a \in Nat /\ a >= 1 /\ a <= 2 * MAX_MUTEX
      BY <1>0 DEF Addr
    <3> DEFINE i == (a - 1) \div 2
    <3>2. i \in Slot /\ (a = 2 * i + 1 \/ a = 2 * i + 2)
      BY <1>0, <3>1 DEF Slot
    <3> QED BY <3>2
  <2> QED BY <2>1 DEF Sentinel, start, koniec
<1> QED BY <1>1, <1>2 DEF Sentinel, NULL, Addr

\* The elements of a list are distinct addresses, so there are no more of them.
LEMMA ListFits ==
    ASSUME NEW h, NEW C, NEW Q, Layout(h, C, Q), NEW i \in Slot
    PROVE  Len(C[i]) \in Nat /\ Len(C[i]) <= MAX_ELEMENTS /\ C[i] \in [1 .. Len(C[i]) -> Addr]
<1>1. C[i] \in Seq(Addr)
  BY DEF Layout
<1> DEFINE n == Len(C[i])
<1>2. n \in Nat /\ C[i] \in [1 .. n -> Addr]
  BY <1>1
<1>3. \A k, l \in 1 .. n : C[i][k] = C[i][l] => k = l
  BY DEF Layout
<1> HIDE DEF n
<1>4. C[i] \in Injection(1 .. n, Addr)
  BY <1>2, <1>3 DEF Injection, IsInjective
<1>5. MAX_ELEMENTS \in Nat
  BY HeapAssumption
<1>6. IsFiniteSet(Addr) /\ Cardinality(Addr) = MAX_ELEMENTS
  <2>1. 1 \in Int /\ MAX_ELEMENTS \in Int
    BY <1>5
  <2>2. IsFiniteSet(1 .. MAX_ELEMENTS)
        /\ Cardinality(1 .. MAX_ELEMENTS) = IF 1 > MAX_ELEMENTS THEN 0 ELSE MAX_ELEMENTS - 1 + 1
    BY <2>1, FS_Interval
  <2> QED BY <1>5, <2>2 DEF Addr
<1>7. Cardinality(1 .. n) = n
  <2>1. 1 \in Int /\ n \in Int
    BY <1>2
  <2>2. Cardinality(1 .. n) = IF 1 > n THEN 0 ELSE n - 1 + 1
    BY <2>1, FS_Interval
  <2> QED BY <1>2, <2>2
<1>8. Cardinality(1 .. n) <= Cardinality(Addr)
  BY <1>4, <1>6, FS_Injection
<1> QED BY <1>2, <1>6, <1>7, <1>8 DEF n

\* start and the first k elements of a row.
Path(C, i, k) == [j \in 1 .. k + 1 |-> IF j = 1 THEN start(i) ELSE C[i][j - 1]]

\* A round of FOR_EACH after the elements s.
WalkStep(h, i, s) ==
    LET item == h.nastepny[s[Len(s)]]
    IN  IF item \in {koniec(i), NULL} THEN s ELSE Append(s, item)

\* A step of the walk goes from the first k elements to the first k + 1, and
\* stays where it is at the end of the list.
LEMMA PathStep ==
    ASSUME NEW h, NEW C, NEW Q, Layout(h, C, Q), NEW i \in Slot, NEW k \in 0 .. Len(C[i])
    PROVE  LET s == Path(C, i, k) IN
           /\ s \in Seq(Addr) /\ Len(s) = k + 1
           /\ s[k + 1] = (IF k = 0 THEN start(i) ELSE C[i][k])
           /\ h.nastepny[s[k + 1]] = After(C, i, k)
           /\ k < Len(C[i]) => WalkStep(h, i, s) = Path(C, i, k + 1)
           /\ k = Len(C[i]) => WalkStep(h, i, s) = s
<1> DEFINE n == Len(C[i])
           s == Path(C, i, k)
           item == h.nastepny[s[Len(s)]]
<1>1. n \in Nat /\ C[i] \in [1 .. n -> Addr]
  BY ListFits
<1>2. start(i) \in Addr /\ koniec(i) \in Sentinel /\ NULL \notin Addr
  BY Sentinels
<1>3. s \in [1 .. k + 1 -> Addr]
  BY <1>1, <1>2 DEF Path
<1>4. s \in Seq(Addr) /\ Len(s) = k + 1
  BY <1>1, <1>3
<1>5. s[k + 1] = IF k = 0 THEN start(i) ELSE C[i][k]
  BY <1>1 DEF Path
<1>6. item = After(C, i, k)
  BY <1>1, <1>4, <1>5 DEF Layout
<1>7. CASE k < n
  <2>1. item = C[i][k + 1] /\ item \in Addr /\ item \notin Sentinel
    BY <1>1, <1>6, <1>7 DEF After, Layout
  <2>2. item \notin {koniec(i), NULL}
    BY <1>2, <2>1
  <2> HIDE DEF item, s
  <2>3. /\ Append(s, item) \in Seq(Addr) /\ Len(Append(s, item)) = k + 2
        /\ \A j \in 1 .. k + 1 : Append(s, item)[j] = s[j]
        /\ Append(s, item)[k + 2] = item
    <3>1. /\ Append(s, item) \in Seq(Addr)
          /\ Len(Append(s, item)) = Len(s)+1
          /\ \A j \in 1.. Len(s) : Append(s, item)[j] = s[j]
          /\ Append(s, item)[Len(s)+1] = item
      BY <1>4, <2>1, AppendProperties
    <3> QED BY <1>1, <1>4, <3>1
  <2>4. /\ Path(C, i, k + 1) \in Seq(Addr) /\ Len(Path(C, i, k + 1)) = k + 2
        /\ \A j \in 1 .. k + 1 : Path(C, i, k + 1)[j] = s[j]
        /\ Path(C, i, k + 1)[k + 2] = C[i][k + 1]
    <3>1. Path(C, i, k + 1) \in [1 .. k + 2 -> Addr]
      BY <1>1, <1>2, <1>7 DEF Path
    <3>2. Path(C, i, k + 1) \in Seq(Addr) /\ Len(Path(C, i, k + 1)) = k + 2
      BY <1>1, <3>1
    <3> QED BY <1>1, <1>7, <3>2 DEF Path, s
  <2>5. \A j \in 1 .. k + 2 : Append(s, item)[j] = Path(C, i, k + 1)[j]
    <3>1. \A j \in 1 .. k + 2 : j \in 1 .. k + 1 \/ j = k + 2
      BY <1>1
    <3> QED BY <2>1, <2>3, <2>4, <3>1
  <2>6. Append(s, item) = Path(C, i, k + 1)
    BY <2>3, <2>4, <2>5, SeqEqual
  <2>7. WalkStep(h, i, s) = Path(C, i, k + 1)
    BY <2>2, <2>6 DEF WalkStep, item
  <2> QED BY <1>4, <1>5, <1>6, <1>7, <2>7 DEF item, s
<1>8. CASE k = n
  BY <1>4, <1>5, <1>6, <1>8 DEF After, WalkStep
<1> QED BY <1>1, <1>7, <1>8

\* FOR_EACH visits start and the elements of its list, in order.
LEMMA WalkOf ==
    ASSUME NEW h, NEW C, NEW Q, Layout(h, C, Q), NEW i \in Slot
    PROVE  Walk(h, i) = Path(C, i, Len(C[i])) /\ Tail(Walk(h, i)) = C[i]
<1> DEFINE n == Len(C[i])
           N == MAX_ELEMENTS
           Body(w) == [k \in 0 .. N |-> IF k = 0 THEN <<start(i)>> ELSE WalkStep(h, i, w[k - 1])]
           w == CHOOSE w : w = Body(w)
           v == [k \in 0 .. N |-> Path(C, i, IF k < n THEN k ELSE n)]
<1>1. n \in Nat /\ n <= N /\ N \in Nat /\ C[i] \in [1 .. n -> Addr]
  BY ListFits, HeapAssumption
<1>2. v[0] = <<start(i)>>
  <2>1. v[0] = Path(C, i, 0)
    BY <1>1
  <2>2. PICK m \in 0 .. Len(C[i]) : m = 0
    BY <1>1
  <2>3. Path(C, i, 0) \in Seq(Addr) /\ Len(Path(C, i, 0)) = 1 /\ Path(C, i, 0)[1] = start(i)
    <3>1. Path(C, i, m) \in Seq(Addr) /\ Len(Path(C, i, m)) = m + 1
          /\ Path(C, i, m)[m + 1] = IF m = 0 THEN start(i) ELSE C[i][m]
      BY PathStep
    <3> QED BY <2>2, <3>1
  <2>4. <<start(i)>> \in Seq(Addr) /\ Len(<<start(i)>>) = 1 /\ <<start(i)>>[1] = start(i)
    BY Sentinels
  <2>5. \A j \in 1 .. Len(Path(C, i, 0)) : j = 1
    <3>1. \A x : x = 1 => \A j \in 1 .. x : j = 1
      OBVIOUS
    <3> QED BY <2>3, <3>1
  <2>6. Path(C, i, 0) = <<start(i)>>
    BY <2>3, <2>4, <2>5, SeqEqual
  <2> QED BY <2>1, <2>6
<1>3. \A k \in 1 .. N : v[k] = WalkStep(h, i, v[k - 1])
  <2> SUFFICES ASSUME NEW k \in 1 .. N PROVE v[k] = WalkStep(h, i, v[k - 1])
    OBVIOUS
  <2>1. CASE k <= n
    <3>1. k - 1 \in 0 .. Len(C[i]) /\ k - 1 < Len(C[i]) /\ (k - 1) + 1 = k
      BY <1>1, <2>1
    <3>2. v[k - 1] = Path(C, i, k - 1) /\ v[k] = Path(C, i, k)
      BY <1>1, <2>1
    <3>3. WalkStep(h, i, Path(C, i, k - 1)) = Path(C, i, k)
      BY <1>1, <3>1, PathStep
    <3> QED BY <3>2, <3>3
  <2>2. CASE k > n
    <3>1. v[k - 1] = Path(C, i, n) /\ v[k] = Path(C, i, n)
      BY <1>1, <2>2
    <3>2. n \in 0 .. Len(C[i])
      BY <1>1
    <3>3. WalkStep(h, i, Path(C, i, n)) = Path(C, i, n)
      BY <3>2, PathStep
    <3> QED BY <3>1, <3>3
  <2> QED BY <1>1, <2>1, <2>2
<1>4. v[N] = Path(C, i, n)
  BY <1>1
<1>5. v = Body(v)
  <2>1. v \in [0 .. N -> {v[k] : k \in 0 .. N}] /\ v = [k \in 0 .. N |-> v[k]]
    OBVIOUS
  <2> HIDE DEF v
  <2>2. \A k \in 0 .. N : v[k] = IF k = 0 THEN <<start(i)>> ELSE WalkStep(h, i, v[k - 1])
    BY <1>1, <1>2, <1>3
  <2>3. \A k \in 0 .. N : v[k] = Body(v)[k]
    BY <2>2
  <2> QED BY <2>1, <2>3
<1>6. Walk(h, i) = w[N]
  BY DEF Walk, WalkStep
<1>7. w = Body(w)
  BY <1>5
<1> HIDE DEF w, v
<1>8. w[0] = <<start(i)>> /\ \A k \in 1 .. N : w[k] = WalkStep(h, i, w[k - 1])
  BY <1>1, <1>7
<1> DEFINE T == {k \in Nat : k <= N => w[k] = v[k]}
<1>9. 0 \in T /\ \A k \in T : k + 1 \in T
  <2>1. 0 \in T
    BY <1>2, <1>8
  <2> SUFFICES ASSUME NEW k \in T, k + 1 <= N PROVE w[k + 1] = v[k + 1]
    BY <1>1, <2>1
  <2>2. k + 1 \in 1 .. N /\ (k + 1) - 1 = k /\ w[k] = v[k]
    BY <1>1
  <2> QED BY <1>3, <1>8, <2>2
<1>10. T = Nat
  BY <1>9, AllNumbers
<1>11. Walk(h, i) = Path(C, i, n)
  BY <1>1, <1>4, <1>6, <1>10
<1>12. Tail(Path(C, i, n)) = C[i]
  <2> DEFINE s == Path(C, i, n)
  <2>1. n \in 0 .. Len(C[i])
    BY <1>1
  <2>2. s \in Seq(Addr) /\ Len(s) = n + 1
    BY <2>1, PathStep
  <2>3. \A j \in 1 .. n : s[j + 1] = C[i][j]
    BY <1>1 DEF Path
  <2> HIDE DEF s
  <2>4. s # <<>>
    BY <1>1, <2>2
  <2>5. /\ Tail(s) \in Seq(Addr) /\ Len(Tail(s)) = Len(s) - 1
        /\ \A j \in 1 .. Len(Tail(s)) : Tail(s)[j] = s[j + 1]
    BY <2>2, <2>4, HeadTailProperties
  <2>6. C[i] \in Seq(Addr) /\ Len(Tail(s)) = Len(C[i])
    BY <1>1, <2>2, <2>5 DEF Layout
  <2>7. \A j \in 1 .. Len(Tail(s)) : Tail(s)[j] = C[i][j]
    BY <2>3, <2>5, <2>6
  <2>8. Tail(s) = C[i]
    BY <2>5, <2>6, <2>7, SeqEqual
  <2> QED BY <2>8 DEF s
<1> QED BY <1>11, <1>12

\* Only the rows' elements and queues matter.
LEMMA SameLayout ==
    ASSUME NEW h, NEW C, NEW Q, Layout(h, C, Q), NEW D, NEW R,
           \A i \in Slot : D[i] = C[i] /\ R[i] = Q[i]
    PROVE  Layout(h, D, R)
<1>1. Cells(D) = Cells(C) /\ \A i \in Slot : \A k : After(D, i, k) = After(C, i, k)
  BY DEF Cells, After
<1> QED BY <1>1 DEF Layout

-----------------------------------------------------------------------------
(***************************************************************************)
(* The pointer surgery.                                                    *)
(***************************************************************************)

\* Row i of S becomes s.
Put(S, i, s) == [j \in Slot |-> IF j = i THEN s ELSE S[j]]

\* The k-th element of row i, start for k = 0.
Before(C, i, k) == IF k = 0 THEN start(i) ELSE C[i][k]

\* No two places of the rows have one address.
LEMMA Places ==
    ASSUME NEW h, NEW C, NEW Q, Layout(h, C, Q)
    PROVE  \A i, j \in Slot : \A k \in 0 .. Len(C[i]) : \A l \in 0 .. Len(C[j]) :
             /\ Before(C, i, k) \in Addr
             /\ h.nastepny[Before(C, i, k)] = After(C, i, k)
             /\ Before(C, i, k) = Before(C, j, l) => i = j /\ k = l
<1> SUFFICES ASSUME NEW i \in Slot, NEW j \in Slot,
                    NEW k \in 0 .. Len(C[i]), NEW l \in 0 .. Len(C[j])
             PROVE  /\ Before(C, i, k) \in Addr
                    /\ h.nastepny[Before(C, i, k)] = After(C, i, k)
                    /\ Before(C, i, k) = Before(C, j, l) => i = j /\ k = l
  OBVIOUS
<1>1. /\ Len(C[i]) \in Nat /\ C[i] \in [1 .. Len(C[i]) -> Addr]
      /\ Len(C[j]) \in Nat /\ C[j] \in [1 .. Len(C[j]) -> Addr]
  BY ListFits
<1>2. k = 0 \/ k \in 1 .. Len(C[i])
  BY <1>1
<1>3. l = 0 \/ l \in 1 .. Len(C[j])
  BY <1>1
<1>4. /\ Before(C, i, k) \in Addr
      /\ h.nastepny[Before(C, i, k)] = After(C, i, k)
  BY <1>1, <1>2, Sentinels DEF Before, Layout
<1>5. ASSUME Before(C, i, k) = Before(C, j, l) PROVE i = j /\ k = l
  <2>1. \A m \in 1 .. Len(C[i]) : C[i][m] \notin Sentinel
    BY DEF Layout
  <2>2. \A m \in 1 .. Len(C[j]) : C[j][m] \notin Sentinel
    BY DEF Layout
  <2>3. start(i) \in Sentinel /\ start(j) \in Sentinel /\ (start(i) = start(j) => i = j)
    BY Sentinels
  <2>4. CASE k = 0
    BY <1>3, <1>5, <2>2, <2>3, <2>4 DEF Before
  <2>5. CASE k \in 1 .. Len(C[i])
    <3>1. k # 0
      BY <2>5
    <3>2. l \in 1 .. Len(C[j]) /\ l # 0
      BY <1>3, <1>5, <2>1, <2>3, <2>5, <3>1 DEF Before
    <3> QED BY <1>5, <2>5, <3>1, <3>2 DEF Before, Layout
  <2> QED BY <1>2, <2>4, <2>5
<1> QED BY <1>4, <1>5

\* free keeps the shape of a heap.
LEMMA Freed ==
    ASSUME NEW h \in Heap, NEW b \in Addr, NEW a \in Addr
    PROVE  LET r == free([h EXCEPT !.nastepny[b] = h.nastepny[a]], a) IN
           /\ r \in Heap /\ r.zajete = h.zajete \ {a}
           /\ \A x \in Addr : /\ x # a /\ x # b => r.nastepny[x] = h.nastepny[x]
                              /\ x # a => r.proces[x] = h.proces[x]
           /\ b # a => r.nastepny[b] = h.nastepny[a]
<1> DEFINE nx == h.nastepny
           nx2 == [nx EXCEPT ![b] = nx[a]]
           nx3 == [nx2 EXCEPT ![a] = NULL]
           pr == [h.proces EXCEPT ![a] = Zero]
           r == [zajete |-> h.zajete \ {a}, nastepny |-> nx3, proces |-> pr]
<1>1. free([h EXCEPT !.nastepny[b] = h.nastepny[a]], a) = r
  BY DEF free, Heap
<1>2. nx \in [Addr \cup {NULL} -> Addr \cup {NULL}] /\ h.proces \in [Addr -> Proc \cup {Zero}]
      /\ h.zajete \in SUBSET Addr
  BY DEF Heap
<1>3. nx2 \in [Addr \cup {NULL} -> Addr \cup {NULL}]
  BY <1>2
<1>4. nx3 \in [Addr \cup {NULL} -> Addr \cup {NULL}]
  BY <1>3
<1>5. pr \in [Addr -> Proc \cup {Zero}]
  BY <1>2
<1>6. r \in Heap
  BY <1>2, <1>4, <1>5 DEF Heap
<1>7. \A x \in Addr : /\ x # a /\ x # b => nx3[x] = nx[x]
                      /\ x # a => pr[x] = h.proces[x]
  BY <1>2, <1>3
<1>8. b # a => nx3[b] = nx[a]
  BY <1>2, <1>3
<1> HIDE DEF nx3, pr, nx
<1> QED BY <1>1, <1>6, <1>7, <1>8 DEF nx

\* The place of the list before the k-th element of row i was unlinked that is
\* now the l-th of row j.
Was(i, k, j, l) == IF j = i /\ l >= k THEN l + 1 ELSE l

\* Linking the element before the k-th to the one after it, and freeing the
\* k-th, takes the k-th process out of the queue and touches nothing else.
LEMMA Unlinked ==
    ASSUME NEW h, NEW C, NEW Q, Layout(h, C, Q), NEW i \in Slot, Q[i] \in Seq(Proc),
           NEW k \in 1 .. Len(C[i])
    PROVE  Layout(free([h EXCEPT !.nastepny[Before(C, i, k - 1)] = h.nastepny[C[i][k]]], C[i][k]),
                  Put(C, i, RemovePosition(C[i], k)), Put(Q, i, RemovePosition(Q[i], k)))
<1> DEFINE n == Len(C[i])
           a == C[i][k]
           b == Before(C, i, k - 1)
           D == Put(C, i, RemovePosition(C[i], k))
           R == Put(Q, i, RemovePosition(Q[i], k))
           r == free([h EXCEPT !.nastepny[b] = h.nastepny[a]], a)
<1>0. /\ h \in Heap /\ h.zajete = Sentinel \cup Cells(C)
      /\ \A j \in Slot : C[j] \in Seq(Addr) /\ Len(C[j]) = Len(Q[j]) /\ Len(C[j]) \in Nat
      /\ \A j \in Slot : h.proces[start(j)] = Zero
      /\ \A j \in Slot : \A l \in 1 .. Len(C[j]) :
           C[j][l] \in Addr /\ C[j][l] \notin Sentinel /\ h.proces[C[j][l]] = Q[j][l]
      /\ \A e, j \in Slot : \A m \in 1 .. Len(C[e]) : \A l \in 1 .. Len(C[j]) :
           C[e][m] = C[j][l] => e = j /\ m = l
  BY DEF Layout
<1>1. n \in Nat /\ k \in 0 .. n /\ k - 1 \in 0 .. n /\ k # 0 /\ k # k - 1
  BY <1>0
<1>2. a = Before(C, i, k) /\ a \in Addr /\ a \notin Sentinel
  BY <1>0, <1>1 DEF Before
<1>3. b \in Addr /\ a # b
  BY <1>1, <1>2, Places
<1>4. /\ r \in Heap /\ r.zajete = h.zajete \ {a}
      /\ \A x \in Addr : /\ x # a /\ x # b => r.nastepny[x] = h.nastepny[x]
                         /\ x # a => r.proces[x] = h.proces[x]
      /\ r.nastepny[b] = h.nastepny[a]
  BY <1>0, <1>2, <1>3, Freed
<1>5. /\ D[i] \in Seq(Addr) /\ Len(D[i]) = n - 1
      /\ \A l \in 1 .. n - 1 : D[i][l] = C[i][Was(i, k, i, l)]
      /\ \A j \in Slot : j # i => D[j] = C[j]
  <2>1. C[i] \in Seq(Addr)
    BY <1>0
  <2>2. RemovePosition(C[i], k) \in Seq(Addr) /\ Len(RemovePosition(C[i], k)) = Len(C[i]) - 1
        /\ \A l \in 1 .. Len(RemovePosition(C[i], k)) :
             RemovePosition(C[i], k)[l] = IF l < k THEN C[i][l] ELSE C[i][l + 1]
    BY <2>1, RemovePositionProperties
  <2> QED BY <1>1, <2>2 DEF Put, Was
<1>6. /\ R[i] \in Seq(Proc) /\ Len(R[i]) = n - 1
      /\ \A l \in 1 .. n - 1 : R[i][l] = Q[i][Was(i, k, i, l)]
      /\ \A j \in Slot : j # i => R[j] = Q[j]
  <2>1. Len(Q[i]) = n /\ k \in 1 .. Len(Q[i])
    BY <1>0
  <2>2. RemovePosition(Q[i], k) \in Seq(Proc) /\ Len(RemovePosition(Q[i], k)) = Len(Q[i]) - 1
        /\ \A l \in 1 .. Len(RemovePosition(Q[i], k)) :
             RemovePosition(Q[i], k)[l] = IF l < k THEN Q[i][l] ELSE Q[i][l + 1]
    BY <2>1, RemovePositionProperties
  <2> QED BY <1>1, <2>1, <2>2 DEF Put, Was
<1> HIDE DEF D, R, r, a, b
<1>7. \A j \in Slot : D[j] \in Seq(Addr) /\ Len(D[j]) = Len(R[j]) /\ Len(D[j]) \in Nat
                      /\ Len(D[j]) = IF j = i THEN n - 1 ELSE Len(C[j])
  BY <1>0, <1>1, <1>5, <1>6
<1>8. \A j \in Slot : \A l \in 1 .. Len(D[j]) :
        /\ Was(i, k, j, l) \in 1 .. Len(C[j]) /\ ~(j = i /\ Was(i, k, j, l) = k)
        /\ D[j][l] = C[j][Was(i, k, j, l)] /\ R[j][l] = Q[j][Was(i, k, j, l)]
  <2> SUFFICES ASSUME NEW j \in Slot, NEW l \in 1 .. Len(D[j])
               PROVE  /\ Was(i, k, j, l) \in 1 .. Len(C[j]) /\ ~(j = i /\ Was(i, k, j, l) = k)
                      /\ D[j][l] = C[j][Was(i, k, j, l)] /\ R[j][l] = Q[j][Was(i, k, j, l)]
    OBVIOUS
  <2>1. CASE j = i
    <3>1. l \in 1 .. n - 1
      BY <1>7, <2>1
    <3>2. Was(i, k, j, l) \in 1 .. Len(C[j]) /\ Was(i, k, j, l) # k
      BY <1>1, <2>1, <3>1 DEF Was
    <3> QED BY <1>5, <1>6, <2>1, <3>1, <3>2
  <2>2. CASE j # i
    BY <1>5, <1>6, <2>2 DEF Was
  <2> QED BY <2>1, <2>2
<1>9. \A j \in Slot : \A l \in 1 .. Len(D[j]) :
        D[j][l] \in Addr /\ D[j][l] \notin Sentinel /\ D[j][l] # a /\ r.proces[D[j][l]] = R[j][l]
  <2> SUFFICES ASSUME NEW j \in Slot, NEW l \in 1 .. Len(D[j])
               PROVE  /\ D[j][l] \in Addr /\ D[j][l] \notin Sentinel /\ D[j][l] # a
                      /\ r.proces[D[j][l]] = R[j][l]
    OBVIOUS
  <2>1. PICK q \in 1 .. Len(C[j]) :
          ~(j = i /\ q = k) /\ D[j][l] = C[j][q] /\ R[j][l] = Q[j][q]
    BY <1>8
  <2>2. C[j][q] \in Addr /\ C[j][q] \notin Sentinel /\ h.proces[C[j][q]] = Q[j][q]
    BY <1>0
  <2>3. C[j][q] # a
    BY <1>0, <2>1 DEF a
  <2> QED BY <1>4, <2>1, <2>2, <2>3
<1>10. \A e, j \in Slot : \A m \in 1 .. Len(D[e]) : \A l \in 1 .. Len(D[j]) :
         D[e][m] = D[j][l] => e = j /\ m = l
  <2> SUFFICES ASSUME NEW e \in Slot, NEW j \in Slot, NEW m \in 1 .. Len(D[e]),
                      NEW l \in 1 .. Len(D[j]), D[e][m] = D[j][l]
               PROVE  e = j /\ m = l
    OBVIOUS
  <2>1. e = j /\ Was(i, k, e, m) = Was(i, k, j, l)
    <3>1. PICK x \in 1 .. Len(C[e]) : x = Was(i, k, e, m) /\ D[e][m] = C[e][x]
      BY <1>8
    <3>2. PICK y \in 1 .. Len(C[j]) : y = Was(i, k, j, l) /\ D[j][l] = C[j][y]
      BY <1>8
    <3>3. e = j /\ x = y
      <4>1. C[e][x] = C[j][y]
        BY <3>1, <3>2
      <4>2. \A u \in 1 .. Len(C[e]) : \A v \in 1 .. Len(C[j]) : C[e][u] = C[j][v] => e = j /\ u = v
        BY <1>0
      <4> QED BY <4>1, <4>2
    <3> QED BY <3>1, <3>2, <3>3
  <2>2. m \in Nat /\ l \in Nat /\ k \in Nat
    BY <1>1, <1>7
  <2> QED BY <2>1, <2>2 DEF Was
<1>11. \A j \in Slot : \A l \in 0 .. Len(D[j]) : r.nastepny[Before(D, j, l)] = After(D, j, l)
  <2> SUFFICES ASSUME NEW j \in Slot, NEW l \in 0 .. Len(D[j])
               PROVE  r.nastepny[Before(D, j, l)] = After(D, j, l)
    OBVIOUS
  <2> DEFINE q == Was(i, k, j, l)
  <2>1. q \in 0 .. Len(C[j]) /\ Before(D, j, l) = Before(C, j, q) /\ ~(j = i /\ q = k)
    <3>1. CASE l = 0
      BY <1>0, <1>1, <3>1 DEF Was, Before
    <3>2. CASE l \in 1 .. Len(D[j])
      <4>1. q \in 1 .. Len(C[j])
        BY <1>8, <3>2
      <4>2. l # 0 /\ q # 0 /\ q \in 0 .. Len(C[j])
        BY <1>0, <3>2, <4>1
      <4> QED BY <1>8, <3>2, <4>2 DEF Before
    <3> QED BY <1>7, <3>1, <3>2
  <2>2. Before(C, j, q) \in Addr /\ Before(C, j, q) # a /\ h.nastepny[Before(C, j, q)] = After(C, j, q)
    BY <1>1, <1>2, <2>1, Places
  <2>3. CASE j = i /\ l = k - 1
    <3>1. q = k - 1
      BY <1>1, <2>3 DEF Was
    <3>2. r.nastepny[Before(D, j, l)] = After(C, i, k)
      <4>1. h.nastepny[a] = After(C, i, k)
        BY <1>1, <1>2, Places
      <4> QED BY <1>4, <2>1, <2>3, <3>1, <4>1 DEF b
    <3>3. After(D, i, k - 1) = After(C, i, k)
      <4>1. CASE k = n
        BY <1>1, <1>5, <4>1 DEF After
      <4>2. CASE k < n
        <5>1. k \in 1 .. n - 1 /\ Was(i, k, i, k) = k + 1 /\ k - 1 < n - 1 /\ (k - 1) + 1 = k
          BY <1>1, <4>2 DEF Was
        <5>2. After(D, i, k - 1) = D[i][k] /\ After(C, i, k) = C[i][k + 1]
          BY <1>5, <4>2, <5>1 DEF After
        <5> QED BY <1>5, <5>1, <5>2
      <4> QED BY <1>1, <4>1, <4>2
    <3> QED BY <2>3, <3>2, <3>3
  <2>4. CASE ~(j = i /\ l = k - 1)
    <3>1. ~(j = i /\ q = k - 1)
      BY <1>1, <1>7, <2>4 DEF Was
    <3>2. Before(C, j, q) # b
      BY <1>1, <2>1, <3>1, Places DEF b
    <3>3. r.nastepny[Before(D, j, l)] = After(C, j, q)
      BY <1>4, <2>1, <2>2, <3>2
    <3>4. After(D, j, l) = After(C, j, q)
      <4>1. CASE j # i
        BY <1>5, <4>1 DEF After, Was
      <4>2. CASE j = i
        <5>1. l \in 0 .. n - 1 /\ l # k - 1
          BY <1>7, <2>4, <4>2
        <5>2. q = IF l >= k THEN l + 1 ELSE l
          BY <4>2 DEF Was
        <5>3. l < n - 1 <=> q < n
          BY <1>1, <5>1, <5>2
        <5>4. CASE l < n - 1
          <6>1. l + 1 \in 1 .. n - 1 /\ Was(i, k, i, l + 1) = q + 1
            BY <1>1, <5>1, <5>2, <5>4 DEF Was
          <6> QED BY <1>5, <4>2, <5>3, <5>4, <6>1 DEF After
        <5>5. CASE ~(l < n - 1)
          BY <1>5, <4>2, <5>3, <5>5 DEF After
        <5> QED BY <5>4, <5>5
      <4> QED BY <4>1, <4>2
    <3> QED BY <3>3, <3>4
  <2> QED BY <2>3, <2>4
<1>12. \A j \in Slot : r.proces[start(j)] = Zero /\ r.nastepny[start(j)] = After(D, j, 0)
  <2> SUFFICES ASSUME NEW j \in Slot
               PROVE  r.proces[start(j)] = Zero /\ r.nastepny[start(j)] = After(D, j, 0)
    OBVIOUS
  <2>1. start(j) \in Addr /\ start(j) \in Sentinel
    BY Sentinels
  <2>2. 0 \in 0 .. Len(D[j])
    BY <1>7
  <2> QED BY <1>0, <1>2, <1>4, <1>11, <2>1, <2>2 DEF Before
<1>13. \A j \in Slot : \A l \in 1 .. Len(D[j]) : r.nastepny[D[j][l]] = After(D, j, l)
  <2> SUFFICES ASSUME NEW j \in Slot, NEW l \in 1 .. Len(D[j])
               PROVE  r.nastepny[D[j][l]] = After(D, j, l)
    OBVIOUS
  <2>1. l \in 0 .. Len(D[j]) /\ l # 0
    BY <1>7
  <2> QED BY <1>11, <2>1 DEF Before
<1>14. r.zajete = Sentinel \cup Cells(D)
  <2>1. ASSUME NEW x \in Cells(D) PROVE x \in Cells(C) /\ x # a
    BY <1>8, <1>9, <2>1 DEF Cells
  <2>2. ASSUME NEW x \in Cells(C), x # a PROVE x \in Cells(D)
    <3>1. PICK j \in Slot : \E l \in 1 .. Len(C[j]) : C[j][l] = x
      BY <2>2 DEF Cells
    <3>2. PICK l \in 1 .. Len(C[j]) : C[j][l] = x
      BY <3>1
    <3>3. ~(j = i /\ l = k)
      BY <2>2, <3>2 DEF a
    <3>4. \E m \in 1 .. Len(D[j]) : Was(i, k, j, m) = l
      <4>1. CASE j = i /\ l > k
        <5>1. l - 1 \in 1 .. Len(D[j]) /\ Was(i, k, j, l - 1) = l
          BY <1>1, <1>7, <4>1 DEF Was
        <5> QED BY <5>1
      <4>2. CASE ~(j = i /\ l > k)
        <5>1. l \in 1 .. Len(D[j]) /\ Was(i, k, j, l) = l
          BY <1>0, <1>1, <1>7, <3>3, <4>2 DEF Was
        <5> QED BY <5>1
      <4> QED BY <4>1, <4>2
    <3>5. x \in Addr
      BY <2>2 DEF Cells
    <3> QED BY <1>8, <3>2, <3>4, <3>5 DEF Cells
  <2> QED BY <1>0, <1>2, <1>4, <2>1, <2>2
<1>15. Layout(r, D, R)
  BY <1>4, <1>7, <1>9, <1>10, <1>12, <1>13, <1>14 DEF Layout
<1> QED BY <1>15 DEF r, D, R, a, b

\* wstaw on a heap with an element to spare puts p at the end of the queue.
LEMMA Linked ==
    ASSUME NEW h, NEW C, NEW Q, Layout(h, C, Q), NEW i \in Slot, Q[i] \in Seq(Proc),
           NEW p \in Proc, Addr \ h.zajete # {}
    PROVE  Layout(wstaw(h, i, p), Put(C, i, Append(C[i], malloc(h))), Put(Q, i, Append(Q[i], p)))
<1> DEFINE n == Len(C[i])
           a == malloc(h)
           b == Before(C, i, n)
           D == Put(C, i, Append(C[i], a))
           R == Put(Q, i, Append(Q[i], p))
           nx2 == [h.nastepny EXCEPT ![b] = a]
           nx3 == [nx2 EXCEPT ![a] = koniec(i)]
           pr == [h.proces EXCEPT ![a] = p]
           r == [zajete |-> h.zajete \cup {a}, nastepny |-> nx3, proces |-> pr]
<1>0. /\ h \in Heap /\ h.zajete = Sentinel \cup Cells(C)
      /\ \A j \in Slot : C[j] \in Seq(Addr) /\ Len(C[j]) = Len(Q[j]) /\ Len(C[j]) \in Nat
      /\ \A j \in Slot : h.proces[start(j)] = Zero
      /\ \A j \in Slot : \A l \in 1 .. Len(C[j]) :
           C[j][l] \in Addr /\ C[j][l] \notin Sentinel /\ h.proces[C[j][l]] = Q[j][l]
      /\ \A e, j \in Slot : \A m \in 1 .. Len(C[e]) : \A l \in 1 .. Len(C[j]) :
           C[e][m] = C[j][l] => e = j /\ m = l
  BY DEF Layout
<1>1. n \in Nat /\ n \in 0 .. n
  BY <1>0
<1>2. a \in Addr /\ a \notin Sentinel /\ \A j \in Slot : \A l \in 1 .. Len(C[j]) : C[j][l] # a
  <2>1. Addr \ h.zajete \in SUBSET Nat
    BY DEF Addr
  <2>2. a \in Addr \ h.zajete
    BY <2>1, FirstProperties DEF malloc
  <2> QED BY <1>0, <2>2 DEF Cells
<1>3. Walk(h, i) = Path(C, i, n) /\ Len(Walk(h, i)) = n + 1 /\ Walk(h, i)[n + 1] = b
  BY <1>1, WalkOf, PathStep DEF Before
<1>4. wstaw(h, i, p) = r
  BY <1>3 DEF wstaw
<1>5. b \in Addr /\ a # b
  <2>1. b \in Addr
    BY <1>1, Places
  <2>2. n = 0 \/ n \in 1 .. Len(C[i])
    BY <1>1
  <2> QED BY <1>2, <2>1, <2>2, Sentinels DEF Before
<1>6. /\ r \in Heap /\ r.zajete = h.zajete \cup {a}
      /\ \A x \in Addr : /\ x # a /\ x # b => r.nastepny[x] = h.nastepny[x]
                         /\ x # a => r.proces[x] = h.proces[x]
      /\ r.nastepny[b] = a /\ r.nastepny[a] = koniec(i) /\ r.proces[a] = p
  <2>1. h.nastepny \in [Addr \cup {NULL} -> Addr \cup {NULL}] /\ h.proces \in [Addr -> Proc \cup {Zero}]
        /\ h.zajete \in SUBSET Addr
    BY <1>0 DEF Heap
  <2>2. nx2 \in [Addr \cup {NULL} -> Addr \cup {NULL}]
    BY <1>2, <2>1
  <2>3. nx3 \in [Addr \cup {NULL} -> Addr \cup {NULL}]
    BY <2>2, Sentinels
  <2>4. pr \in [Addr -> Proc \cup {Zero}]
    BY <2>1
  <2>5. \A x \in Addr : /\ x # a /\ x # b => nx3[x] = h.nastepny[x]
                        /\ x # a => pr[x] = h.proces[x]
    BY <2>1, <2>2
  <2>6. nx3[b] = a /\ nx3[a] = koniec(i) /\ pr[a] = p
    BY <1>2, <1>5, <2>1, <2>2
  <2> HIDE DEF nx3, pr, nx2, a
  <2>7. r \in Heap
    BY <1>2, <2>1, <2>3, <2>4 DEF Heap
  <2> QED BY <2>5, <2>6, <2>7
<1>7. /\ D[i] \in Seq(Addr) /\ Len(D[i]) = n + 1 /\ D[i][n + 1] = a
      /\ \A l \in 1 .. n : D[i][l] = C[i][l]
      /\ \A j \in Slot : j # i => D[j] = C[j]
  <2>1. C[i] \in Seq(Addr)
    BY <1>0
  <2> HIDE DEF a
  <2>2. /\ Append(C[i], a) \in Seq(Addr) /\ Len(Append(C[i], a)) = Len(C[i]) + 1
        /\ \A l \in 1 .. Len(C[i]) : Append(C[i], a)[l] = C[i][l]
        /\ Append(C[i], a)[Len(C[i]) + 1] = a
    BY <1>2, <2>1, AppendProperties
  <2> QED BY <2>2 DEF Put
<1>8. /\ R[i] \in Seq(Proc) /\ Len(R[i]) = n + 1 /\ R[i][n + 1] = p
      /\ \A l \in 1 .. n : R[i][l] = Q[i][l]
      /\ \A j \in Slot : j # i => R[j] = Q[j]
  <2>1. Len(Q[i]) = n
    BY <1>0
  <2>2. /\ Append(Q[i], p) \in Seq(Proc) /\ Len(Append(Q[i], p)) = Len(Q[i]) + 1
        /\ \A l \in 1 .. Len(Q[i]) : Append(Q[i], p)[l] = Q[i][l]
        /\ Append(Q[i], p)[Len(Q[i]) + 1] = p
    BY AppendProperties
  <2> QED BY <2>1, <2>2 DEF Put
<1> HIDE DEF D, R, r, a, b
<1>9. \A j \in Slot : D[j] \in Seq(Addr) /\ Len(D[j]) = Len(R[j]) /\ Len(D[j]) \in Nat
                      /\ Len(D[j]) = IF j = i THEN n + 1 ELSE Len(C[j])
  BY <1>0, <1>1, <1>7, <1>8
<1>10. \A j \in Slot : \A l \in 1 .. Len(D[j]) :
         \/ j = i /\ l = n + 1 /\ D[j][l] = a /\ R[j][l] = p
         \/ l \in 1 .. Len(C[j]) /\ D[j][l] = C[j][l] /\ R[j][l] = Q[j][l]
  <2> SUFFICES ASSUME NEW j \in Slot, NEW l \in 1 .. Len(D[j])
               PROVE  \/ j = i /\ l = n + 1 /\ D[j][l] = a /\ R[j][l] = p
                      \/ l \in 1 .. Len(C[j]) /\ D[j][l] = C[j][l] /\ R[j][l] = Q[j][l]
    OBVIOUS
  <2>1. CASE j = i
    <3>1. l \in 1 .. n \/ l = n + 1
      BY <1>1, <1>9, <2>1
    <3> QED BY <1>7, <1>8, <2>1, <3>1
  <2>2. CASE j # i
    BY <1>7, <1>8, <2>2
  <2> QED BY <2>1, <2>2
<1>11. \A j \in Slot : \A l \in 1 .. Len(D[j]) :
         D[j][l] \in Addr /\ D[j][l] \notin Sentinel /\ r.proces[D[j][l]] = R[j][l]
  <2> SUFFICES ASSUME NEW j \in Slot, NEW l \in 1 .. Len(D[j])
               PROVE  D[j][l] \in Addr /\ D[j][l] \notin Sentinel /\ r.proces[D[j][l]] = R[j][l]
    OBVIOUS
  <2>1. CASE D[j][l] = a /\ R[j][l] = p
    BY <1>2, <1>6, <2>1
  <2>2. CASE l \in 1 .. Len(C[j]) /\ D[j][l] = C[j][l] /\ R[j][l] = Q[j][l]
    BY <1>0, <1>2, <1>6, <2>2
  <2> QED BY <1>10, <2>1, <2>2
<1>12. \A e, j \in Slot : \A m \in 1 .. Len(D[e]) : \A l \in 1 .. Len(D[j]) :
         D[e][m] = D[j][l] => e = j /\ m = l
  <2> SUFFICES ASSUME NEW e \in Slot, NEW j \in Slot, NEW m \in 1 .. Len(D[e]),
                      NEW l \in 1 .. Len(D[j]), D[e][m] = D[j][l]
               PROVE  e = j /\ m = l
    OBVIOUS
  <2>1. (e = i /\ m = n + 1 /\ D[e][m] = a) \/ (m \in 1 .. Len(C[e]) /\ D[e][m] = C[e][m])
    BY <1>10
  <2>2. (j = i /\ l = n + 1 /\ D[j][l] = a) \/ (l \in 1 .. Len(C[j]) /\ D[j][l] = C[j][l])
    BY <1>10
  <2> QED BY <1>0, <1>2, <2>1, <2>2
<1>13. \A j \in Slot : \A l \in 0 .. Len(D[j]) : r.nastepny[Before(D, j, l)] = After(D, j, l)
  <2> SUFFICES ASSUME NEW j \in Slot, NEW l \in 0 .. Len(D[j])
               PROVE  r.nastepny[Before(D, j, l)] = After(D, j, l)
    OBVIOUS
  <2>1. CASE j = i /\ l = n + 1
    <3>1. Before(D, j, l) = a /\ After(D, j, l) = koniec(i)
      BY <1>1, <1>7, <2>1 DEF Before, After
    <3> QED BY <1>6, <3>1
  <2>2. CASE ~(j = i /\ l = n + 1)
    <3>1. l \in 0 .. Len(C[j])
      BY <1>0, <1>1, <1>9, <2>2
    <3>2. Before(D, j, l) = Before(C, j, l)
      <4>1. l = 0 \/ l \in 1 .. Len(C[j])
        BY <1>0, <3>1
      <4> QED BY <1>7, <4>1 DEF Before
    <3>3. Before(C, j, l) \in Addr /\ h.nastepny[Before(C, j, l)] = After(C, j, l)
      BY <3>1, Places
    <3>4. Before(C, j, l) # a
      <4>1. l = 0 \/ l \in 1 .. Len(C[j])
        BY <1>0, <3>1
      <4> QED BY <1>2, <4>1, Sentinels DEF Before
    <3>5. CASE j = i /\ l = n
      <4>1. After(D, j, l) = a
        BY <1>1, <1>7, <3>5 DEF After
      <4> QED BY <1>6, <3>2, <3>5, <4>1 DEF b
    <3>6. CASE ~(j = i /\ l = n)
      <4>1. Before(C, j, l) # b
        BY <1>1, <3>1, <3>6, Places DEF b
      <4>2. r.nastepny[Before(D, j, l)] = After(C, j, l)
        BY <1>6, <3>2, <3>3, <3>4, <4>1
      <4>3. After(D, j, l) = After(C, j, l)
        <5>1. CASE j = i
          <6>1. l < n /\ l < n + 1 /\ l + 1 \in 1 .. n
            BY <1>1, <3>1, <3>6, <5>1
          <6> QED BY <1>7, <5>1, <6>1 DEF After
        <5>2. CASE j # i
          BY <1>7, <5>2 DEF After
        <5> QED BY <5>1, <5>2
      <4> QED BY <4>2, <4>3
    <3> QED BY <3>5, <3>6
  <2> QED BY <2>1, <2>2
<1>14. \A j \in Slot : r.proces[start(j)] = Zero /\ r.nastepny[start(j)] = After(D, j, 0)
  <2> SUFFICES ASSUME NEW j \in Slot
               PROVE  r.proces[start(j)] = Zero /\ r.nastepny[start(j)] = After(D, j, 0)
    OBVIOUS
  <2>1. start(j) \in Addr /\ start(j) \in Sentinel
    BY Sentinels
  <2>2. 0 \in 0 .. Len(D[j])
    BY <1>9
  <2> QED BY <1>0, <1>2, <1>6, <1>13, <2>1, <2>2 DEF Before
<1>15. \A j \in Slot : \A l \in 1 .. Len(D[j]) : r.nastepny[D[j][l]] = After(D, j, l)
  <2> SUFFICES ASSUME NEW j \in Slot, NEW l \in 1 .. Len(D[j])
               PROVE  r.nastepny[D[j][l]] = After(D, j, l)
    OBVIOUS
  <2>1. l \in 0 .. Len(D[j]) /\ l # 0
    BY <1>9
  <2> QED BY <1>13, <2>1 DEF Before
<1>16. r.zajete = Sentinel \cup Cells(D)
  <2>1. ASSUME NEW x \in Cells(D) PROVE x \in Cells(C) \/ x = a
    BY <1>10, <2>1 DEF Cells
  <2>2. ASSUME NEW x \in Cells(C) PROVE x \in Cells(D)
    <3>1. PICK j \in Slot : x \in Addr /\ \E l \in 1 .. Len(C[j]) : C[j][l] = x
      BY <2>2 DEF Cells
    <3>2. PICK l \in 1 .. Len(C[j]) : C[j][l] = x
      BY <3>1
    <3>3. l \in 1 .. Len(D[j]) /\ D[j][l] = x
      BY <1>1, <1>7, <3>2
    <3> QED BY <3>1, <3>3 DEF Cells
  <2>3. a \in Cells(D)
    <3>1. n + 1 \in 1 .. Len(D[i]) /\ D[i][n + 1] = a
      BY <1>1, <1>7
    <3> QED BY <1>2, <3>1 DEF Cells
  <2> QED BY <1>0, <1>6, <2>1, <2>2, <2>3
<1>17. Layout(r, D, R)
  BY <1>6, <1>9, <1>11, <1>12, <1>14, <1>15, <1>16 DEF Layout
<1> QED BY <1>4, <1>17 DEF D, R, a

-----------------------------------------------------------------------------
(***************************************************************************)
(* Room.  Every element that is no sentinel holds a process, and no        *)
(* process is queued twice: while somebody is not queued malloc finds an   *)
(* element.                                                                *)
(***************************************************************************)
LEMMA Spare ==
    ASSUME NEW h, NEW C, NEW Q, Layout(h, C, Q), NEW p \in Proc,
           \A i \in Slot : \A k \in 1 .. Len(Q[i]) : Q[i][k] \in Proc /\ Q[i][k] # p,
           \A i, j \in Slot : \A k \in 1 .. Len(Q[i]) : \A l \in 1 .. Len(Q[j]) :
             Q[i][k] = Q[j][l] => i = j /\ k = l
    PROVE  Addr \ h.zajete # {}
<1> SUFFICES ASSUME Addr \subseteq h.zajete PROVE FALSE
  OBVIOUS
<1>0. /\ h.zajete = Sentinel \cup Cells(C)
      /\ \A i \in Slot : Len(C[i]) = Len(Q[i])
      /\ \A i \in Slot : \A k \in 1 .. Len(C[i]) : h.proces[C[i][k]] = Q[i][k]
  BY DEF Layout
<1>1. MAX_MUTEX \in Nat /\ MAX_ELEMENTS \in Nat /\ IsFiniteSet(Proc)
      /\ MAX_ELEMENTS >= 2 * MAX_MUTEX + Cardinality(Proc)
  BY SizesAssumption, HeapAssumption
<1> DEFINE lo == 2 * MAX_MUTEX + 1
           S == lo .. MAX_ELEMENTS
           f == [a \in S |-> h.proces[a]]
<1>2. \A a \in S : \E i \in Slot : \E k \in 1 .. Len(Q[i]) : a = C[i][k] /\ h.proces[a] = Q[i][k]
  <2> SUFFICES ASSUME NEW a \in S
               PROVE  \E i \in Slot : \E k \in 1 .. Len(Q[i]) : a = C[i][k] /\ h.proces[a] = Q[i][k]
    OBVIOUS
  <2>1. a \in Addr
    BY <1>1 DEF Addr
  <2>2. a \notin Sentinel
    <3>1. \A i \in Slot : a # start(i) /\ a # koniec(i)
      BY <1>1 DEF Slot, start, koniec
    <3> QED BY <3>1 DEF Sentinel
  <2>3. a \in Cells(C)
    BY <1>0, <2>1, <2>2
  <2> QED BY <1>0, <2>3 DEF Cells
<1>3. f \in Injection(S, Proc \ {p})
  <2>1. \A a \in S : f[a] = h.proces[a]
    OBVIOUS
  <2>2. f \in [S -> Proc \ {p}]
    BY <1>2
  <2> HIDE DEF f, S
  <2>3. \A a, c \in S : f[a] = f[c] => a = c
    <3> SUFFICES ASSUME NEW a \in S, NEW c \in S, f[a] = f[c] PROVE a = c
      OBVIOUS
    <3>1. PICK i \in Slot : \E k \in 1 .. Len(Q[i]) : a = C[i][k] /\ h.proces[a] = Q[i][k]
      BY <1>2
    <3>2. PICK k \in 1 .. Len(Q[i]) : a = C[i][k] /\ h.proces[a] = Q[i][k]
      BY <3>1
    <3>3. PICK j \in Slot : \E l \in 1 .. Len(Q[j]) : c = C[j][l] /\ h.proces[c] = Q[j][l]
      BY <1>2
    <3>4. PICK l \in 1 .. Len(Q[j]) : c = C[j][l] /\ h.proces[c] = Q[j][l]
      BY <3>3
    <3>5. Q[i][k] = Q[j][l]
      BY <2>1, <3>2, <3>4
    <3>6. i = j /\ k = l
      BY <3>5
    <3> QED BY <3>2, <3>4, <3>6
  <2> QED BY <2>2, <2>3 DEF Injection, IsInjective
<1> HIDE DEF f
<1>4. IsFiniteSet(Proc \ {p}) /\ Cardinality(Proc \ {p}) = Cardinality(Proc) - 1
  BY <1>1, FS_RemoveElement
<1>5. Cardinality(Proc) \in Nat /\ Cardinality(Proc \ {p}) \in Nat
  BY <1>1, <1>4, FS_CardinalityType
<1>6. lo \in Int /\ MAX_ELEMENTS \in Int
  BY <1>1
<1>7. Cardinality(S) = IF lo > MAX_ELEMENTS THEN 0 ELSE MAX_ELEMENTS - lo + 1
  <2> HIDE DEF lo
  <2> QED BY <1>6, FS_Interval
<1>8. Cardinality(S) <= Cardinality(Proc \ {p})
  <2> HIDE DEF S
  <2> QED BY <1>3, <1>4, FS_Injection
<1> HIDE DEF S
<1> QED BY <1>1, <1>4, <1>5, <1>7, <1>8

-----------------------------------------------------------------------------
(***************************************************************************)
(* Searching and emptying one row.                                         *)
(***************************************************************************)

\* First finds the least element.
LEMMA FirstIsLeast ==
    ASSUME NEW S \in SUBSET Nat, NEW x \in S
    PROVE  First(S) \in S /\ (\A y \in S : First(S) <= y)
           /\ ((\A y \in S : x <= y) => First(S) = x)
<1>1. \E i \in S : \A j \in S : i <= j
  BY MinExists
<1>2. First(S) \in S /\ \A y \in S : First(S) <= y
  BY <1>1 DEF First
<1>3. ASSUME \A y \in S : x <= y PROVE First(S) = x
  <2>1. First(S) \in Nat /\ x \in Nat /\ First(S) <= x /\ x <= First(S)
    BY <1>2, <1>3
  <2> QED BY <2>1
<1> QED BY <1>2, <1>3

\* The list is empty when the queue is.
LEMMA EmptyList ==
    ASSUME NEW h, NEW C, NEW Q, Layout(h, C, Q), NEW i \in Slot, Q[i] \in Seq(Proc)
    PROVE  czyPusto(h, i) <=> Q[i] = <<>>
<1>1. Len(C[i]) \in Nat /\ C[i] \in [1 .. Len(C[i]) -> Addr] /\ Len(C[i]) = Len(Q[i])
  BY ListFits DEF Layout
<1>2. h.nastepny[start(i)] = After(C, i, 0)
  BY DEF Layout
<1>3. CASE Len(C[i]) = 0
  <2>1. czyPusto(h, i)
    BY <1>2, <1>3 DEF After, czyPusto
  <2>2. Q[i] = <<>>
    BY <1>1, <1>3, EmptySeq
  <2> QED BY <2>1, <2>2
<1>4. CASE Len(C[i]) > 0
  <2>1. 1 \in 1 .. Len(C[i]) /\ After(C, i, 0) = C[i][1]
    BY <1>1, <1>4 DEF After
  <2>2. C[i][1] \notin Sentinel
    BY <2>1 DEF Layout
  <2>3. ~czyPusto(h, i)
    BY <1>2, <2>1, <2>2, Sentinels DEF czyPusto
  <2> QED BY <1>1, <1>4, <2>3
<1> QED BY <1>1, <1>3, <1>4

UnlockedQueue(q, i, J) == IF i \in J /\ q # <<>> THEN Tail(q) ELSE q

\* cs_unlock of a row takes the head of its queue out of its list.
LEMMA UnlockRowLayout ==
    ASSUME NEW h, NEW C, NEW Q, Layout(h, C, Q), NEW i \in Slot, Q[i] \in Seq(Proc), NEW J
    PROVE  \E D : Layout(UnlockRow(h, i, J), D, Put(Q, i, UnlockedQueue(Q[i], i, J)))
<1>0. czyPusto(h, i) <=> Q[i] = <<>>
  BY EmptyList
<1>1. CASE i \in J /\ Q[i] # <<>>
  <2>1. Len(C[i]) \in Nat /\ Len(C[i]) = Len(Q[i])
    BY ListFits DEF Layout
  <2>2. Len(Q[i]) > 0
    BY <1>1, <2>1
  <2>3. 1 \in 1 .. Len(C[i]) /\ Before(C, i, 1 - 1) = start(i)
    BY <2>1, <2>2 DEF Before
  <2>4. h.nastepny[start(i)] = C[i][1]
    BY <2>1, <2>2 DEF Layout, After
  <2> DEFINE r == free([h EXCEPT !.nastepny[Before(C, i, 1 - 1)] = h.nastepny[C[i][1]]], C[i][1])
  <2>5. UnlockRow(h, i, J) = r
    BY <1>0, <1>1, <2>3, <2>4 DEF UnlockRow, pierwszyKolejka
  <2>6. Layout(r, Put(C, i, RemovePosition(C[i], 1)), Put(Q, i, RemovePosition(Q[i], 1)))
    BY <2>3, Unlinked
  <2>7. RemovePosition(Q[i], 1) = Tail(Q[i])
    <3>1. 1 \in 1 .. Len(Q[i])
      BY <2>1, <2>3
    <3>2. /\ RemovePosition(Q[i], 1) \in Seq(Proc)
          /\ Len(RemovePosition(Q[i], 1)) = Len(Q[i]) - 1
          /\ \A j \in 1 .. Len(RemovePosition(Q[i], 1)) :
               RemovePosition(Q[i], 1)[j] = IF j < 1 THEN Q[i][j] ELSE Q[i][j + 1]
      BY <3>1, RemovePositionProperties
    <3>3. /\ Tail(Q[i]) \in Seq(Proc) /\ Len(Tail(Q[i])) = Len(Q[i]) - 1
          /\ \A j \in 1 .. Len(Tail(Q[i])) : Tail(Q[i])[j] = Q[i][j + 1]
      BY <1>1, HeadTailProperties
    <3>4. \A j \in 1 .. Len(Tail(Q[i])) : RemovePosition(Q[i], 1)[j] = Tail(Q[i])[j]
      BY <3>2, <3>3
    <3> QED BY <3>2, <3>3, <3>4, SeqEqual
  <2> HIDE DEF r
  <2> QED BY <1>1, <2>5, <2>6, <2>7 DEF UnlockedQueue
<1>2. CASE ~(i \in J /\ Q[i] # <<>>)
  <2>1. UnlockRow(h, i, J) = h
    BY <1>0, <1>2 DEF UnlockRow
  <2>2. \A j \in Slot : Put(Q, i, UnlockedQueue(Q[i], i, J))[j] = Q[j]
    BY <1>2 DEF Put, UnlockedQueue
  <2>3. Layout(h, C, Put(Q, i, UnlockedQueue(Q[i], i, J)))
    BY <2>2, SameLayout
  <2> QED BY <2>1, <2>3
<1> QED BY <1>1, <1>2

\* FOR_EACH stops at the element of the first entry of p in the queue: start,
\* which it visits first, never looks like p.
LEMMA FoundAt ==
    ASSUME NEW h, NEW C, NEW Q, Layout(h, C, Q), NEW i \in Slot, Q[i] \in Seq(Proc),
           NEW p \in Proc
    PROVE  LET k == PositionInQueue(Q[i], p) IN
           /\ k # -1 => k \in 1 .. Len(C[i]) /\ Q[i][k] = p
           /\ FoundItem(h, i, p) = IF k = -1 THEN NULL ELSE C[i][k]
<1> DEFINE n == Len(C[i])
           w == Walk(h, i)
           S == {k \in 1 .. Len(Q[i]) : Q[i][k] = p}
           W == {j \in DOMAIN w : h.proces[w[j]] = p}
<1>1. n \in Nat /\ n = Len(Q[i]) /\ n \in 0 .. Len(C[i])
  BY ListFits DEF Layout
<1>2. w = Path(C, i, n) /\ w \in Seq(Addr) /\ Len(w) = n + 1
  BY <1>1, WalkOf, PathStep
<1>3. DOMAIN w = 1 .. n + 1
  BY <1>2
<1>4. w[1] = start(i) /\ \A k \in 1 .. n : w[k + 1] = C[i][k]
  BY <1>1, <1>2 DEF Path
<1>5. h.proces[start(i)] = Zero /\ \A k \in 1 .. n : h.proces[C[i][k]] = Q[i][k]
  BY DEF Layout
<1> HIDE DEF w
<1>6. 1 \notin W
  BY <1>4, <1>5, ZeroAssumption
<1>7. \A k \in 1 .. n : k + 1 \in W <=> k \in S
  BY <1>1, <1>3, <1>4, <1>5
<1>8. W \in SUBSET Nat /\ S \in SUBSET Nat /\ S \subseteq 1 .. n /\ W \subseteq 1 .. n + 1
  BY <1>1, <1>3
<1>9. FoundItem(h, i, p) = IF First(W) = -1 THEN NULL ELSE w[First(W)]
  BY DEF FoundItem, w
<1>10. PositionInQueue(Q[i], p) = First(S)
  BY DEF PositionInQueue
<1>11. \A k \in S : Q[i][k] = p
  OBVIOUS
<1>12. \A j \in W : j - 1 \in 1 .. n /\ j - 1 \in S /\ (j - 1) + 1 = j
  <2> SUFFICES ASSUME NEW j \in W PROVE j - 1 \in 1 .. n /\ j - 1 \in S /\ (j - 1) + 1 = j
    OBVIOUS
  <2>1. j \in 1 .. n + 1 /\ j # 1
    BY <1>6, <1>8
  <2>2. j - 1 \in 1 .. n /\ (j - 1) + 1 = j
    BY <1>1, <2>1
  <2> HIDE DEF W, S
  <2> QED BY <1>7, <2>2
<1> HIDE DEF W, S
<1>13. CASE S = {}
  <2>1. W = {}
    BY <1>12, <1>13
  <2>2. First(S) = -1 /\ First(W) = -1
    BY <1>13, <2>1 DEF First
  <2> QED BY <1>9, <1>10, <2>2
<1>14. CASE S # {}
  <2> DEFINE k == First(S)
  <2>1. k \in S /\ \A y \in S : k <= y
    BY <1>8, <1>14, FirstIsLeast
  <2> HIDE DEF k
  <2>2. k \in 1 .. n /\ k + 1 \in W /\ k # -1
    BY <1>7, <1>8, <2>1
  <2>3. \A j \in W : k + 1 <= j
    BY <1>1, <1>8, <1>12, <2>1, <2>2
  <2>4. First(W) = k + 1
    BY <1>8, <2>2, <2>3, FirstIsLeast
  <2>5. First(W) # -1
    BY <2>2, <2>4
  <2>6. FoundItem(h, i, p) = C[i][k]
    BY <1>4, <1>9, <2>2, <2>4, <2>5
  <2> QED BY <1>10, <1>11, <2>1, <2>2, <2>6 DEF k
<1> QED BY <1>13, <1>14

\* The loops of wyslijEINTR and usunZakonczonyProces take p out of the list of
\* a row as usunElement takes it out of the queue.
LEMMA RemoveFromRowLayout ==
    ASSUME NEW h, NEW C, NEW Q, Layout(h, C, Q), NEW i \in Slot, Q[i] \in Seq(Proc),
           NEW p \in Proc
    PROVE  \E D : Layout(RemoveFromRow(h, i, p), D, Put(Q, i, usunElement(Q[i], p)))
<1> DEFINE k == PositionInQueue(Q[i], p)
           n == Len(C[i])
<1>1. /\ k # -1 => k \in 1 .. Len(C[i]) /\ Q[i][k] = p
      /\ FoundItem(h, i, p) = IF k = -1 THEN NULL ELSE C[i][k]
  BY FoundAt
<1>2. n \in Nat /\ n = Len(Q[i]) /\ C[i] \in [1 .. n -> Addr] /\ n \in 0 .. Len(C[i])
  BY ListFits DEF Layout
<1>3. usunElement(Q[i], p) = IF k = -1 THEN Q[i] ELSE RemovePosition(Q[i], k)
  BY DEF usunElement
<1> HIDE DEF k
<1>4. CASE k = -1
  <2>1. RemoveFromRow(h, i, p) = h
    BY <1>1, <1>4 DEF RemoveFromRow
  <2>2. \A j \in Slot : Put(Q, i, usunElement(Q[i], p))[j] = Q[j]
    BY <1>3, <1>4 DEF Put
  <2>3. Layout(h, C, Put(Q, i, usunElement(Q[i], p)))
    BY <2>2, SameLayout
  <2> QED BY <2>1, <2>3
<1>5. CASE k # -1
  <2> DEFINE a == C[i][k]
             w == Walk(h, i)
             W == {j \in DOMAIN w : h.nastepny[w[j]] = a}
             r == free([h EXCEPT !.nastepny[Before(C, i, k - 1)] = h.nastepny[C[i][k]]], C[i][k])
  <2>0. k \in 1 .. n /\ FoundItem(h, i, p) = a /\ a \in Addr /\ a # NULL /\ a \notin Sentinel
    BY <1>1, <1>2, <1>5, Sentinels DEF Layout
  <2>1. w = Path(C, i, n) /\ Len(w) = n + 1 /\ w \in Seq(Addr)
    BY <1>2, WalkOf, PathStep
  <2>2. DOMAIN w = 1 .. n + 1
    BY <2>1
  <2>3. \A j \in 1 .. n + 1 : w[j] = Before(C, i, j - 1)
    BY <1>2, <2>1 DEF Path, Before
  <2>4. \A j \in 1 .. n + 1 : h.nastepny[w[j]] = IF j <= n THEN C[i][j] ELSE koniec(i)
    <3> SUFFICES ASSUME NEW j \in 1 .. n + 1
                 PROVE  h.nastepny[w[j]] = IF j <= n THEN C[i][j] ELSE koniec(i)
      OBVIOUS
    <3>1. j - 1 \in 0 .. Len(C[i]) /\ (j - 1) + 1 = j /\ (j - 1 < n <=> j <= n)
      BY <1>2
    <3>2. h.nastepny[Before(C, i, j - 1)] = After(C, i, j - 1)
      BY <3>1, Places
    <3> QED BY <2>3, <3>1, <3>2 DEF After
  <2>5. \A j \in 1 .. n : C[i][j] = a => j = k
    BY <2>0 DEF Layout
  <2> HIDE DEF w
  <2>6. W \in SUBSET Nat /\ k \in W /\ \A j \in W : k <= j
    <3>1. k \in W
      BY <1>2, <2>0, <2>2, <2>4
    <3>2. \A j \in W : j = k
      <4> SUFFICES ASSUME NEW j \in W PROVE j = k
        OBVIOUS
      <4>1. j \in 1 .. n + 1 /\ h.nastepny[w[j]] = a
        BY <2>2
      <4>2. koniec(i) # a
        BY <2>0, Sentinels
      <4>3. j <= n /\ C[i][j] = a
        BY <2>4, <4>1, <4>2
      <4>4. j \in 1 .. n
        BY <1>2, <4>1, <4>3
      <4> QED BY <2>5, <4>3, <4>4
    <3>3. W \in SUBSET Nat
      BY <1>2, <2>2
    <3> HIDE DEF W
    <3> QED BY <2>0, <3>1, <3>2, <3>3
  <2>7. First(W) = k
    <3> HIDE DEF W
    <3> QED BY <2>6, FirstIsLeast
  <2>8. w[k] = Before(C, i, k - 1) /\ k # -1
    BY <1>2, <2>0, <2>3
  <2>9. usunItem(h, i, a) = r
    BY <2>7, <2>8 DEF usunItem, w
  <2>10. ~czyPusto(h, i)
    <3>1. Q[i] # <<>>
      BY <1>2, <2>0
    <3> QED BY <3>1, EmptyList
  <2>11. RemoveFromRow(h, i, p) = r
    BY <2>0, <2>9, <2>10 DEF RemoveFromRow
  <2>12. Layout(r, Put(C, i, RemovePosition(C[i], k)), Put(Q, i, RemovePosition(Q[i], k)))
    BY <2>0, Unlinked
  <2> HIDE DEF r
  <2> QED BY <1>3, <1>5, <2>11, <2>12
<1> QED BY <1>4, <1>5

-----------------------------------------------------------------------------
(***************************************************************************)
(* The loops over the rows.                                                *)
(***************************************************************************)

\* The heaps that have some queues.
ListHeap == {r \in Heap : \E D : \E R \in [Slot -> Seq(Proc)] : Layout(r, D, R)}

LEMMA PutType ==
    ASSUME NEW R \in [Slot -> Seq(Proc)], NEW i \in Slot, NEW q \in Seq(Proc)
    PROVE  Put(R, i, q) \in [Slot -> Seq(Proc)]
BY DEF Put

LEMMA UnlockedQueueType ==
    ASSUME NEW q \in Seq(Proc), NEW i, NEW J
    PROVE  UnlockedQueue(q, i, J) \in Seq(Proc)
BY DEF UnlockedQueue

LEMMA UsunElementType ==
    ASSUME NEW q \in Seq(Proc), NEW p
    PROVE  usunElement(q, p) \in Seq(Proc)
<1> DEFINE S == {k \in 1 .. Len(q) : q[k] = p}
           k == PositionInQueue(q, p)
<1>1. k = First(S) /\ S \in SUBSET Nat
  BY DEF PositionInQueue
<1>2. k = -1 \/ k \in 1 .. Len(q)
  <2>1. First(S) = -1 \/ First(S) \in S
    BY <1>1, FirstProperties
  <2> QED BY <1>1, <2>1
<1>3. usunElement(q, p) = IF k = -1 THEN q ELSE RemovePosition(q, k)
  BY DEF usunElement
<1> HIDE DEF k
<1> QED BY <1>2, <1>3, RemovePositionProperties

\* cs_unlock of the rows J takes the heads of their queues out of their lists.
LEMMA UnlockRowsLayout ==
    ASSUME NEW h, NEW C, NEW Q \in [Slot -> Seq(Proc)], Layout(h, C, Q), NEW J
    PROVE  \E D : Layout(UnlockRows(h, J), D, [i \in Slot |-> UnlockedQueue(Q[i], i, J)])
<1>1. h \in ListHeap
  <2>1. h \in Heap
    BY DEF Layout
  <2> QED BY <2>1 DEF ListHeap
<1>2. \A r \in ListHeap : \A i \in Slot : UnlockRow(r, i, J) \in ListHeap
  <2> SUFFICES ASSUME NEW r \in ListHeap, NEW i \in Slot PROVE UnlockRow(r, i, J) \in ListHeap
    OBVIOUS
  <2>1. PICK D : \E R \in [Slot -> Seq(Proc)] : Layout(r, D, R)
    BY DEF ListHeap
  <2>2. PICK R \in [Slot -> Seq(Proc)] : Layout(r, D, R)
    BY <2>1
  <2>3. R[i] \in Seq(Proc)
    OBVIOUS
  <2>4. PICK E : Layout(UnlockRow(r, i, J), E, Put(R, i, UnlockedQueue(R[i], i, J)))
    BY <2>2, <2>3, UnlockRowLayout
  <2>5. Put(R, i, UnlockedQueue(R[i], i, J)) \in [Slot -> Seq(Proc)]
    BY <2>3, UnlockedQueueType, PutType
  <2>6. UnlockRow(r, i, J) \in Heap
    BY <2>4 DEF Layout
  <2> QED BY <2>4, <2>5, <2>6 DEF ListHeap
<1>3. PICK f : /\ f[0] = h /\ \A i \in Slot : f[i + 1] = UnlockRow(f[i], i, J)
               /\ UnlockRows(h, J) = f[MAX_MUTEX]
  <2>1. UnlockClosed(ListHeap, J)
    BY <1>2 DEF UnlockClosed
  <2>2. PICK f : UnlockRounds(h, J, f)
    BY <1>1, <2>1, UnlockRowsEquation
  <2> QED BY <2>2 DEF UnlockRounds
<1> DEFINE Part(k) == [i \in Slot |-> IF i < k THEN UnlockedQueue(Q[i], i, J) ELSE Q[i]]
           T == {k \in Nat : k <= MAX_MUTEX => \E D : Layout(f[k], D, Part(k))}
<1>4. MAX_MUTEX \in Nat /\ \A i \in Slot : i \in Nat /\ ~(i < 0) /\ i < MAX_MUTEX
  BY SizesAssumption DEF Slot
<1>5. \E D : Layout(f[0], D, Part(0))
  <2>1. \A i \in Slot : Part(0)[i] = Q[i]
    BY <1>4
  <2> HIDE DEF Part
  <2>2. Layout(h, C, Part(0))
    BY <2>1, SameLayout
  <2> QED BY <1>3, <2>2
<1>6. ASSUME NEW k \in Slot, NEW D, Layout(f[k], D, Part(k))
      PROVE  \E E : Layout(f[k + 1], E, Part(k + 1))
  <2>1. Part(k)[k] = Q[k] /\ Q[k] \in Seq(Proc)
    BY <1>4
  <2>2. \A i \in Slot : Part(k + 1)[i] = Put(Part(k), k, UnlockedQueue(Part(k)[k], k, J))[i]
    BY <1>4 DEF Put
  <2> HIDE DEF Part
  <2>3. PICK E : Layout(UnlockRow(f[k], k, J), E, Put(Part(k), k, UnlockedQueue(Part(k)[k], k, J)))
    BY <1>6, <2>1, UnlockRowLayout
  <2>4. Layout(UnlockRow(f[k], k, J), E, Part(k + 1))
    BY <2>2, <2>3, SameLayout
  <2> QED BY <1>3, <2>4
<1> HIDE DEF Part
<1>7. T \in SUBSET Nat /\ 0 \in T /\ \A k \in T : k + 1 \in T
  <2>1. \A k \in Nat : k + 1 <= MAX_MUTEX => k \in Slot /\ k <= MAX_MUTEX
    BY <1>4 DEF Slot
  <2>2. 0 \in T
    BY <1>5
  <2>3. ASSUME NEW k \in T PROVE k + 1 \in T
    <3> SUFFICES ASSUME k + 1 <= MAX_MUTEX PROVE \E D : Layout(f[k + 1], D, Part(k + 1))
      OBVIOUS
    <3>1. k \in Slot /\ k <= MAX_MUTEX
      BY <2>1
    <3>2. PICK D : Layout(f[k], D, Part(k))
      BY <3>1
    <3> QED BY <1>6, <3>1, <3>2
  <2> QED BY <2>2, <2>3
<1>8. T = Nat
  BY <1>7, AllNumbers
<1>9. PICK D : Layout(f[MAX_MUTEX], D, Part(MAX_MUTEX))
  BY <1>4, <1>8
<1>10. \A i \in Slot : [j \in Slot |-> UnlockedQueue(Q[j], j, J)][i] = Part(MAX_MUTEX)[i]
  BY <1>4 DEF Part
<1>11. Layout(f[MAX_MUTEX], D, [j \in Slot |-> UnlockedQueue(Q[j], j, J)])
  BY <1>9, <1>10, SameLayout
<1> QED BY <1>3, <1>11

\* Signals and exits take p out of the lists of all rows.
LEMMA RemoveFromRowsLayout ==
    ASSUME NEW h, NEW C, NEW Q \in [Slot -> Seq(Proc)], Layout(h, C, Q), NEW p \in Proc
    PROVE  \E D : Layout(RemoveFromRows(h, p), D, [i \in Slot |-> usunElement(Q[i], p)])
<1>1. h \in ListHeap
  <2>1. h \in Heap
    BY DEF Layout
  <2> QED BY <2>1 DEF ListHeap
<1>2. \A r \in ListHeap : \A i \in Slot : RemoveFromRow(r, i, p) \in ListHeap
  <2> SUFFICES ASSUME NEW r \in ListHeap, NEW i \in Slot PROVE RemoveFromRow(r, i, p) \in ListHeap
    OBVIOUS
  <2>1. PICK D : \E R \in [Slot -> Seq(Proc)] : Layout(r, D, R)
    BY DEF ListHeap
  <2>2. PICK R \in [Slot -> Seq(Proc)] : Layout(r, D, R)
    BY <2>1
  <2>3. R[i] \in Seq(Proc)
    OBVIOUS
  <2>4. PICK E : Layout(RemoveFromRow(r, i, p), E, Put(R, i, usunElement(R[i], p)))
    BY <2>2, <2>3, RemoveFromRowLayout
  <2>5. Put(R, i, usunElement(R[i], p)) \in [Slot -> Seq(Proc)]
    BY <2>3, UsunElementType, PutType
  <2>6. RemoveFromRow(r, i, p) \in Heap
    BY <2>4 DEF Layout
  <2> QED BY <2>4, <2>5, <2>6 DEF ListHeap
<1>3. PICK f : /\ f[0] = h /\ \A i \in Slot : f[i + 1] = RemoveFromRow(f[i], i, p)
               /\ RemoveFromRows(h, p) = f[MAX_MUTEX]
  <2>1. RemoveClosed(ListHeap, p)
    BY <1>2 DEF RemoveClosed
  <2>2. PICK f : RemoveRounds(h, p, f)
    BY <1>1, <2>1, RemoveFromRowsEquation
  <2> QED BY <2>2 DEF RemoveRounds
<1> DEFINE Part(k) == [i \in Slot |-> IF i < k THEN usunElement(Q[i], p) ELSE Q[i]]
           T == {k \in Nat : k <= MAX_MUTEX => \E D : Layout(f[k], D, Part(k))}
<1>4. MAX_MUTEX \in Nat /\ \A i \in Slot : i \in Nat /\ ~(i < 0) /\ i < MAX_MUTEX
  BY SizesAssumption DEF Slot
<1>5. \E D : Layout(f[0], D, Part(0))
  <2>1. \A i \in Slot : Part(0)[i] = Q[i]
    BY <1>4
  <2> HIDE DEF Part
  <2>2. Layout(h, C, Part(0))
    BY <2>1, SameLayout
  <2> QED BY <1>3, <2>2
<1>6. ASSUME NEW k \in Slot, NEW D, Layout(f[k], D, Part(k))
      PROVE  \E E : Layout(f[k + 1], E, Part(k + 1))
  <2>1. Part(k)[k] = Q[k] /\ Q[k] \in Seq(Proc)
    BY <1>4
  <2>2. \A i \in Slot : Part(k + 1)[i] = Put(Part(k), k, usunElement(Part(k)[k], p))[i]
    BY <1>4 DEF Put
  <2> HIDE DEF Part
  <2>3. PICK E : Layout(RemoveFromRow(f[k], k, p), E, Put(Part(k), k, usunElement(Part(k)[k], p)))
    BY <1>6, <2>1, RemoveFromRowLayout
  <2>4. Layout(RemoveFromRow(f[k], k, p), E, Part(k + 1))
    BY <2>2, <2>3, SameLayout
  <2> QED BY <1>3, <2>4
<1> HIDE DEF Part
<1>7. T \in SUBSET Nat /\ 0 \in T /\ \A k \in T : k + 1 \in T
  <2>1. \A k \in Nat : k + 1 <= MAX_MUTEX => k \in Slot /\ k <= MAX_MUTEX
    BY <1>4 DEF Slot
  <2>2. 0 \in T
    BY <1>5
  <2>3. ASSUME NEW k \in T PROVE k + 1 \in T
    <3> SUFFICES ASSUME k + 1 <= MAX_MUTEX PROVE \E D : Layout(f[k + 1], D, Part(k + 1))
      OBVIOUS
    <3>1. k \in Slot /\ k <= MAX_MUTEX
      BY <2>1
    <3>2. PICK D : Layout(f[k], D, Part(k))
      BY <3>1
    <3> QED BY <1>6, <3>1, <3>2
  <2> QED BY <2>2, <2>3
<1>8. T = Nat
  BY <1>7, AllNumbers
<1>9. PICK D : Layout(f[MAX_MUTEX], D, Part(MAX_MUTEX))
  BY <1>4, <1>8
<1>10. \A i \in Slot : [j \in Slot |-> usunElement(Q[j], p)][i] = Part(MAX_MUTEX)[i]
  BY <1>4 DEF Part
<1>11. Layout(f[MAX_MUTEX], D, [j \in Slot |-> usunElement(Q[j], p)])
  BY <1>9, <1>10, SameLayout
<1> QED BY <1>3, <1>11

-----------------------------------------------------------------------------
(***************************************************************************)
(* The handlers.                                                           *)
(***************************************************************************)

\* The lists that have the queues are the ones FOR_EACH reads.
LEMMA KInvFrom ==
    ASSUME NEW C, Layout(heap', C, kolejka')
    PROVE  KInv'
<1>1. \A i \in Slot : Tail(Walk(heap', i)) = C[i]
  BY WalkOf
<1>2. \A i \in Slot : [j \in Slot |-> Elements(j)'][i] = C[i] /\ kolejka'[i] = kolejka'[i]
  BY <1>1 DEF Elements
<1>3. Layout(heap', [j \in Slot |-> Elements(j)'], kolejka')
  BY <1>2, SameLayout
<1> QED BY <1>3 DEF KInv

\* The lists of a server whose tables have just been cleared are empty.
LEMMA KInitInvariant ==
    ASSUME KInit
    PROVE  IInv /\ KInv
<1>1. IInv
  BY InitInvariant DEF KInit
<1> DEFINE h == utworzKolejke
           C == [i \in Slot |-> <<>>]
           nx == [a \in Addr \cup {NULL} |-> IF \E i \in Slot : a = start(i) THEN a + 1 ELSE NULL]
           pr == [a \in Addr |-> Zero]
<1>2. h = [zajete |-> Sentinel, nastepny |-> nx, proces |-> pr] /\ heap = h
  BY DEF utworzKolejke, KInit
<1>3. \A i \in Slot : start(i) \in Addr /\ koniec(i) \in Addr /\ koniec(i) = start(i) + 1
  BY Sentinels, SizesAssumption DEF start, koniec, Slot
<1>4. nx \in [Addr \cup {NULL} -> Addr \cup {NULL}] /\ pr \in [Addr -> Proc \cup {Zero}]
  BY <1>3
<1>5. \A i \in Slot : nx[start(i)] = koniec(i) /\ pr[start(i)] = Zero
  BY <1>3
<1> HIDE DEF nx, pr
<1>6. h \in Heap
  BY <1>2, <1>4, Sentinels DEF Heap
<1>7. \A i \in Slot : C[i] = <<>> /\ Len(C[i]) = 0 /\ C[i] \in Seq(Addr) /\ kolejka[i] = <<>>
  BY DEF KInit, Init
<1> HIDE DEF C
<1>8. Cells(C) = {} /\ (\A i \in Slot : 1 .. Len(C[i]) = {})
      /\ \A i \in Slot : After(C, i, 0) = koniec(i)
  BY <1>7 DEF Cells, After
<1>9. Layout(h, C, kolejka)
  BY <1>2, <1>5, <1>6, <1>7, <1>8 DEF Layout
<1>10. \A i \in Slot : Tail(Walk(h, i)) = C[i]
  BY <1>9, WalkOf
<1>11. \A i \in Slot : [j \in Slot |-> Elements(j)][i] = C[i] /\ kolejka[i] = kolejka[i]
  BY <1>2, <1>10 DEF Elements
<1>12. Layout(h, [j \in Slot |-> Elements(j)], kolejka)
  BY <1>9, <1>11, SameLayout
<1> QED BY <1>1, <1>2, <1>12 DEF KInv

\* cs_lock, of a request or in a broadcast, keeps list and queue alike.
LEMMA LockKeeps ==
    ASSUME IInv, KInv, NEW p \in Proc, NEW m, cs_lock(p, m), LockHeap(p, m),
           \A i \in Slot : \A k \in 1 .. Len(kolejka[i]) : kolejka[i][k] # p
    PROVE  KInv'
<1> DEFINE i == indeksUzywanegoMutexa(m)
           C == [j \in Slot |-> Elements(j)]
<1>1. TypeOK /\ kolejka \in [Slot -> Seq(Proc)] /\ WaitsOnce
  BY DEF IInv, TypeOK
<1>2. i \in Slot \cup {-1}
  BY <1>1, IndexOfMutex
<1>3. Layout(heap, C, kolejka)
  BY DEF KInv
<1> HIDE DEF i, C
<1>4. CASE i # -1 /\ wlasciciel[i] # p
  <2>1. i \in Slot /\ kolejka[i] \in Seq(Proc)
    BY <1>1, <1>2, <1>4
  <2>2. heap' = wstaw(heap, i, p)
    BY <1>4 DEF LockHeap, i
  <2>3. kolejka' = [kolejka EXCEPT ![i] = Append(kolejka[i], p)]
    BY <1>4 DEF cs_lock, i
  <2>4. Addr \ heap.zajete # {}
    <3>1. \A j \in Slot : \A k \in 1 .. Len(kolejka[j]) : kolejka[j][k] \in Proc /\ kolejka[j][k] # p
      BY <1>1, EntryTypes
    <3>2. \A e, j \in Slot : \A k \in 1 .. Len(kolejka[e]) : \A l \in 1 .. Len(kolejka[j]) :
            kolejka[e][k] = kolejka[j][l] => e = j /\ k = l
      BY <1>1 DEF WaitsOnce
    <3> QED BY <1>3, <3>1, <3>2, Spare
  <2>5. Layout(heap', Put(C, i, Append(C[i], malloc(heap))), Put(kolejka, i, Append(kolejka[i], p)))
    BY <1>3, <2>1, <2>2, <2>4, Linked
  <2>6. Put(kolejka, i, Append(kolejka[i], p)) = kolejka'
    BY <1>1, <2>1, <2>3 DEF Put
  <2> QED BY <2>5, <2>6, KInvFrom
<1>5. CASE ~(i # -1 /\ wlasciciel[i] # p)
  <2>1. heap' = heap
    BY <1>5 DEF LockHeap, i
  <2>2. kolejka' = kolejka
    BY <1>5 DEF cs_lock, i
  <2> QED BY <1>3, <2>1, <2>2, KInvFrom
<1> QED BY <1>4, <1>5

LEMMA KLockStep ==
    ASSUME IInv, KInv, NEW p \in Proc, KLock(p)
    PROVE  KInv'
<1> DEFINE m == client[p].req.mutex
<1>1. Receives(p, "CS_LOCK") /\ cs_lock(p, m) /\ LockHeap(p, m)
  BY DEF KLock, HandleLock
<1>2. \A i \in Slot : \A k \in 1 .. Len(kolejka[i]) : kolejka[i][k] # p
  BY <1>1, ReceivedProperties
<1> HIDE DEF m
<1> QED BY <1>1, <1>2, LockKeeps

LEMMA KBroadcastStep ==
    ASSUME IInv, KInv, KBroadcast
    PROVE  KInv'
<1> DEFINE w == Head(cvProcesy[server.i])
<1>1. /\ server.at = "broadcast" /\ cvProcesy[server.i] # <<>>
      /\ cs_lock(w.proces, w.muteks) /\ LockHeap(w.proces, w.muteks)
  BY DEF KBroadcast, BroadcastNext
<1>2. TypeOK /\ WaitsOnce /\ server.i \in UsedCvSlot /\ server.i \in CvSlot
  BY <1>1 DEF IInv, BroadcastState, UsedCvSlot
<1>3. cvProcesy[server.i] \in Seq(Waiter)
  BY <1>2 DEF TypeOK
<1>4. w = cvProcesy[server.i][1] /\ 1 \in 1 .. Len(cvProcesy[server.i])
  BY <1>1, <1>3
<1>5. w.proces \in Proc
  BY <1>2, <1>4, EntryTypes
<1>6. Sleeps(w.proces, server.i)
  BY <1>4 DEF Sleeps
<1>7. \A i \in Slot : \A k \in 1 .. Len(kolejka[i]) : kolejka[i][k] # w.proces
  BY <1>2, <1>6 DEF WaitsOnce
<1> HIDE DEF w
<1> QED BY <1>1, <1>5, <1>7, LockKeeps

\* The queues after cs_unlock of the rows J, row by row.
LEMMA QueuesAfterUnlockRows ==
    ASSUME NEW J
    PROVE  QueuesAfterUnlock(J) = [i \in Slot |-> UnlockedQueue(kolejka[i], i, J)]
<1>1. \A i \in Slot : i \in HandedOver(J) <=> i \in J /\ kolejka[i] # <<>>
  BY DEF HandedOver
<1> QED BY <1>1 DEF QueuesAfterUnlock, UnlockedQueue

LEMMA KUnlockStep ==
    ASSUME IInv, KInv, NEW p \in Proc, KUnlock(p)
    PROVE  KInv'
<1> DEFINE J == {indeksUzywanegoMutexa(client[p].req.mutex)}
           C == [j \in Slot |-> Elements(j)]
<1>1. kolejka' = QueuesAfterUnlock(J) /\ heap' = UnlockRows(heap, J)
  BY DEF KUnlock, cs_unlock, cs_wait, WaitPastTable
<1>2. kolejka \in [Slot -> Seq(Proc)]
  BY DEF IInv, TypeOK
<1>3. Layout(heap, C, kolejka)
  BY DEF KInv
<1> HIDE DEF J, C
<1>4. PICK D : Layout(heap', D, [i \in Slot |-> UnlockedQueue(kolejka[i], i, J)])
  BY <1>1, <1>2, <1>3, UnlockRowsLayout
<1>5. Layout(heap', D, kolejka')
  BY <1>1, <1>4, QueuesAfterUnlockRows
<1> QED BY <1>5, KInvFrom

LEMMA KEINTRStep ==
    ASSUME IInv, KInv, KEINTR
    PROVE  KInv'
<1> DEFINE p == Head(async).proces
           C == [j \in Slot |-> Elements(j)]
<1>1. /\ async # <<>> /\ kolejka' = [i \in Slot |-> usunElement(kolejka[i], p)]
      /\ heap' = RemoveFromRows(heap, p)
  BY DEF KEINTR, wyslijEINTR, ReceivesAsync
<1>2. TypeOK /\ kolejka \in [Slot -> Seq(Proc)] /\ async \in Seq(Async)
  BY DEF IInv, TypeOK
<1>3. Head(async) = async[1] /\ 1 \in 1 .. Len(async)
  BY <1>1, <1>2
<1>4. p \in Proc
  BY <1>2, <1>3, AsyncTypes
<1>5. Layout(heap, C, kolejka)
  BY DEF KInv
<1> HIDE DEF p, C
<1>6. PICK D : Layout(heap', D, [i \in Slot |-> usunElement(kolejka[i], p)])
  BY <1>1, <1>2, <1>4, <1>5, RemoveFromRowsLayout
<1>7. Layout(heap', D, kolejka')
  BY <1>1, <1>6
<1> QED BY <1>7, KInvFrom

LEMMA KExitStep ==
    ASSUME IInv, KInv, KExit
    PROVE  KInv'
<1> DEFINE p == Head(async).proces
           J == {i \in Slot : uzywany[i] = 1 /\ wlasciciel[i] = p}
           C == [j \in Slot |-> Elements(j)]
           Q == QueuesAfterUnlock(J)
<1>1. /\ async # <<>> /\ kolejka' = [i \in Slot |-> usunElement(Q[i], p)]
      /\ heap' = RemoveFromRows(UnlockRows(heap, J), p)
  BY DEF KExit, usunZakonczonyProces, ReceivesAsync
<1>2. TypeOK /\ kolejka \in [Slot -> Seq(Proc)] /\ async \in Seq(Async)
  BY DEF IInv, TypeOK
<1>3. Head(async) = async[1] /\ 1 \in 1 .. Len(async)
  BY <1>1, <1>2
<1>4. p \in Proc
  BY <1>2, <1>3, AsyncTypes
<1>5. Layout(heap, C, kolejka)
  BY DEF KInv
<1> HIDE DEF p, C, J
<1>6. Q = [i \in Slot |-> UnlockedQueue(kolejka[i], i, J)]
  BY QueuesAfterUnlockRows
<1>7. Q \in [Slot -> Seq(Proc)]
  BY <1>2, <1>6, UnlockedQueueType
<1> HIDE DEF Q
<1>8. PICK E : Layout(UnlockRows(heap, J), E, Q)
  BY <1>2, <1>5, <1>6, UnlockRowsLayout
<1>9. PICK D : Layout(heap', D, [i \in Slot |-> usunElement(Q[i], p)])
  BY <1>1, <1>4, <1>7, <1>8, RemoveFromRowsLayout
<1>10. Layout(heap', D, kolejka')
  BY <1>1, <1>9
<1> QED BY <1>10, KInvFrom

\* The other steps leave the queues alone.
LEMMA KOtherStep ==
    ASSUME KInv, KOther \/ UNCHANGED kVars
    PROVE  KInv'
<1>1. heap' = heap /\ kolejka' = kolejka
  <2>1. CASE KOther
    <3>1. heap' = heap
      BY <2>1 DEF KOther
    <3>2. CASE \E p \in Proc : HandleLockPastTable(p) \/ UnlockRefused(p) \/ WaitRefused(p)
      BY <3>1, <3>2 DEF HandleLockPastTable, UnlockRefused, WaitRefused, tables
    <3>3. CASE \E p \in Proc : BroadcastNobody(p) \/ cs_broadcast(p) \/ BadType(p)
      BY <3>1, <3>3 DEF BroadcastNobody, cs_broadcast, BadType, tables
    <3>4. CASE \E p \in Proc : \E r \in Request : send_message(p, r)
      BY <3>1, <3>4 DEF send_message, tables
    <3>5. CASE \E p \in Proc : PmSignal(p) \/ PmExit(p) \/ PmClear(p)
      BY <3>1, <3>5 DEF PmSignal, PmExit, PmClear, tables
    <3>6. CASE BroadcastPastTable \/ BroadcastEnd
      BY <3>1, <3>6 DEF BroadcastPastTable, BroadcastEnd, tables, mutexVars
    <3> QED BY <2>1, <3>1, <3>2, <3>3, <3>4, <3>5, <3>6 DEF KOther
  <2>2. CASE UNCHANGED kVars
    BY <2>2 DEF kVars, vars
  <2> QED BY <2>1, <2>2
<1>2. Layout(heap, [j \in Slot |-> Elements(j)], kolejka)
  BY DEF KInv
<1> QED BY <1>1, <1>2, KInvFrom

\* A step with the lists is a step of CvServer.
LEMMA KNextIsNext ==
    ASSUME [KNext]_kVars
    PROVE  [Next]_vars
<1>1. CASE \E p \in Proc : KLock(p) \/ KUnlock(p)
  BY <1>1 DEF KLock, KUnlock, Next, obslugaWiadomosci
<1>2. CASE KBroadcast \/ KEINTR \/ KExit
  BY <1>2 DEF KBroadcast, KEINTR, KExit, Next, ServerLoop
<1>3. CASE KOther
  BY <1>3 DEF KOther, Next, ServerLoop, obslugaWiadomosci
<1>4. CASE UNCHANGED kVars
  BY <1>4 DEF kVars
<1> QED BY <1>1, <1>2, <1>3, <1>4 DEF KNext

LEMMA KNextInvariant ==
    ASSUME IInv, KInv, [KNext]_kVars
    PROVE  IInv' /\ KInv'
<1>1. IInv'
  BY KNextIsNext, NextInvariant
<1>2. CASE \E p \in Proc : KLock(p) \/ KUnlock(p)
  BY <1>1, <1>2, KLockStep, KUnlockStep
<1>3. CASE KBroadcast
  BY <1>1, <1>3, KBroadcastStep
<1>4. CASE KEINTR
  BY <1>1, <1>4, KEINTRStep
<1>5. CASE KExit
  BY <1>1, <1>5, KExitStep
<1>6. CASE KOther \/ UNCHANGED kVars
  BY <1>1, <1>6, KOtherStep
<1> QED BY <1>2, <1>3, <1>4, <1>5, <1>6 DEF KNext

-----------------------------------------------------------------------------
(***************************************************************************)
(* The results.                                                            *)
(***************************************************************************)
LEMMA ListsFromLayout ==
    ASSUME IInv, KInv
    PROVE  ListsAreQueues
<1> DEFINE C == [j \in Slot |-> Elements(j)]
<1>1. Layout(heap, C, kolejka) /\ kolejka \in [Slot -> Seq(Proc)]
  BY DEF KInv, IInv, TypeOK
<1> SUFFICES ASSUME NEW i \in Slot
             PROVE  /\ LET e == Elements(i) IN [k \in DOMAIN e |-> heap.proces[e[k]]] = kolejka[i]
                    /\ czyPusto(heap, i) <=> kolejka[i] = <<>>
                    /\ \A p \in Proc : kolejka[i] # <<>> =>
                          (FoundItem(heap, i, p) # NULL <=> Queues(p, i))
  BY DEF ListsAreQueues
<1>2. Elements(i) = C[i] /\ kolejka[i] \in Seq(Proc)
  BY <1>1
<1> HIDE DEF C
<1>3. czyPusto(heap, i) <=> kolejka[i] = <<>>
  BY <1>1, <1>2, EmptyList
<1>4. [k \in DOMAIN C[i] |-> heap.proces[C[i][k]]] = kolejka[i]
  <2>1. C[i] \in Seq(Addr) /\ Len(C[i]) = Len(kolejka[i])
    BY <1>1 DEF Layout
  <2>2. DOMAIN C[i] = 1 .. Len(kolejka[i])
    BY <2>1
  <2>3. \A k \in 1 .. Len(kolejka[i]) : heap.proces[C[i][k]] = kolejka[i][k]
    BY <1>1, <2>1 DEF Layout
  <2>4. kolejka[i] = [k \in 1 .. Len(kolejka[i]) |-> kolejka[i][k]]
    BY <1>2
  <2> QED BY <2>2, <2>3, <2>4
<1>5. ASSUME NEW p \in Proc PROVE FoundItem(heap, i, p) # NULL <=> Queues(p, i)
  <2> DEFINE S == {k \in 1 .. Len(kolejka[i]) : kolejka[i][k] = p}
             k == PositionInQueue(kolejka[i], p)
  <2>1. /\ k # -1 => k \in 1 .. Len(C[i]) /\ kolejka[i][k] = p
        /\ FoundItem(heap, i, p) = IF k = -1 THEN NULL ELSE C[i][k]
    BY <1>1, <1>2, FoundAt
  <2>2. k = -1 <=> S = {}
    <3>1. S \in SUBSET Nat /\ k = First(S)
      BY DEF PositionInQueue
    <3> HIDE DEF S, k
    <3> QED BY <3>1, FirstProperties
  <2>3. S = {} <=> ~Queues(p, i)
    BY DEF Queues
  <2>4. k # -1 => C[i][k] # NULL
    <3>1. C[i] \in [1 .. Len(C[i]) -> Addr]
      BY <1>1, ListFits
    <3> QED BY <2>1, <3>1, Sentinels
  <2> HIDE DEF S, k
  <2> QED BY <2>1, <2>2, <2>3, <2>4
<1> QED BY <1>2, <1>3, <1>4, <1>5

LEMMA TidyFromLayout ==
    ASSUME KInv
    PROVE  HeapTidy
<1> DEFINE C == [j \in Slot |-> Elements(j)]
           cells == [j \in Slot |-> {Elements(j)[k] : k \in DOMAIN Elements(j)}]
<1>1. Layout(heap, C, kolejka)
  BY DEF KInv
<1>2. \A j \in Slot : Elements(j) = C[j]
  OBVIOUS
<1> HIDE DEF C
<1>3. \A j \in Slot : DOMAIN C[j] = 1 .. Len(C[j]) /\ C[j] \in [1 .. Len(C[j]) -> Addr]
  BY <1>1, ListFits
<1>4. \A j \in Slot : cells[j] = {C[j][k] : k \in 1 .. Len(C[j])}
  BY <1>2, <1>3
<1>5. cells = [j \in Slot |-> LET e == Elements(j) IN {e[k] : k \in DOMAIN e}]
  OBVIOUS
<1> HIDE DEF cells
<1>6. heap.zajete = Sentinel \cup UNION {cells[i] : i \in Slot}
  <2>1. \A a : a \in Cells(C) <=> \E i \in Slot : a \in cells[i]
    BY <1>3, <1>4 DEF Cells
  <2>2. Cells(C) = UNION {cells[i] : i \in Slot}
    BY <2>1
  <2> QED BY <1>1, <2>2 DEF Layout
<1>7. \A i, j \in Slot : i # j => cells[i] \cap cells[j] = {}
  BY <1>1, <1>4 DEF Layout
<1>8. \A i \in Slot : cells[i] \cap Sentinel = {}
  BY <1>1, <1>4 DEF Layout
<1>9. \A i \in Slot : heap.nastepny[Walk(heap, i)[Len(Walk(heap, i))]] = koniec(i)
  <2> SUFFICES ASSUME NEW i \in Slot
               PROVE  heap.nastepny[Walk(heap, i)[Len(Walk(heap, i))]] = koniec(i)
    OBVIOUS
  <2>1. PICK n \in 0 .. Len(C[i]) : n = Len(C[i])
    BY <1>1, ListFits
  <2>2. Walk(heap, i) = Path(C, i, n)
    BY <1>1, <2>1, WalkOf
  <2>3. Len(Path(C, i, n)) = n + 1 /\ heap.nastepny[Path(C, i, n)[n + 1]] = After(C, i, n)
    BY <1>1, PathStep
  <2> QED BY <2>1, <2>2, <2>3 DEF After
<1> QED BY <1>5, <1>6, <1>7, <1>8, <1>9 DEF HeapTidy

\* Whatever the handlers do, the heap is the sentinels and, for every row, one
\* element for each process of its queue, linked in its order.
THEOREM LayoutHolds == KSpec => [](IInv /\ KInv)
<1>1. KInit => IInv /\ KInv
  BY KInitInvariant
<1>2. IInv /\ KInv /\ [KNext]_kVars => (IInv /\ KInv)'
  BY KNextInvariant
<1> QED BY <1>1, <1>2, PTL DEF KSpec

\* The server with its lists is the server with sequences: what CvServerProofs
\* and CvTablesProofs prove of the queues holds for the lists of queue.h.
THEOREM ListsImplementQueues == KSpec => Spec
<1>1. KInit => Init
  BY DEF KInit
<1>2. [KNext]_kVars => [Next]_vars
  BY KNextIsNext
<1> QED BY <1>1, <1>2, PTL DEF KSpec, Spec

\* Every list, read by FOR_EACH, is the queue of its row; czyPusto and the
\* search for a process say of the list what is true of the queue.
THEOREM ListsAreTheQueues == KSpec => []ListsAreQueues
<1>1. IInv /\ KInv => ListsAreQueues
  BY ListsFromLayout
<1> QED BY <1>1, LayoutHolds, PTL

\* No element is used after its free, freed while linked, in two lists or
\* leaked, for any number of processes, rows and steps.
THEOREM HeapStaysTidy == KSpec => []HeapTidy
<1>1. IInv /\ KInv => HeapTidy
  BY TidyFromLayout
<1> QED BY <1>1, LayoutHolds, PTL

=============================================================================
