SPECIFICATION Spec
CONSTANTS
  Proc = {p1, p2, p3}
  Mutex = {m1, m2}
  CondVar = {c1, c2}
  Zero = Zero
  MAX_MUTEX = 1
  MAX_CV = 1
  MAX_PROCESY = 1
  ASYN_NR = 1
SYMMETRY Symmetry
VIEW View
INVARIANTS CvTableSuffices OwnersAreHolders
CHECK_DEADLOCK FALSE
