----------------------------- MODULE MCCvServer -----------------------------
(***************************************************************************)
(* CvServer for TLC: processes, mutexes and condition variables are        *)
(* interchangeable model values.                                           *)
(***************************************************************************)
EXTENDS CvServer, TLC

Symmetry == Permutations(Proc) \cup Permutations(Mutex) \cup Permutations(CondVar)

\* No action or invariant of CvServer reads a reply, or the number, the owner
\* or the list of a row that is not in use; states that differ only there are
\* one state.
View == <<uzywany, kolejka, [i \in Slot |-> IF uzywany[i] = 1 THEN <<numer[i], wlasciciel[i]>> ELSE <<>>],
          [i \in CvSlot |-> IF cvUzywany[i] = 1 THEN <<cvNumer[i], cvProcesy[i]>> ELSE <<>>],
          server, [p \in Proc |-> <<client[p].at, client[p].req>>], life, holds, async>>

=============================================================================
