------------------------------ MODULE MCLibCv -------------------------------
(***************************************************************************)
(* LibCv for TLC: processes are interchangeable model values, and errno is *)
(* left out where nothing reads it (for the runs of invariants; the run of *)
(* the liveness property uses neither symmetry nor view).                  *)
(***************************************************************************)
EXTENDS LibCv, TLC

Symmetry == Permutations(Proc)

\* errno matters where a function has failed; otherwise the next failure sets it
\* before anything looks at it.
ErrnoOfFailures ==
    <<vars, call, budget, late,
      [p \in Proc |-> IF ret[p].value = -1 THEN ret[p] ELSE [ret[p] EXCEPT !.errno = 0]]>>

=============================================================================
