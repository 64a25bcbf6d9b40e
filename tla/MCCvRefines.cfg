SPECIFICATION Spec
CONSTANTS
  Proc = {p1, p2, p3, p4}
  Mutex = {m1}
  CondVar = {c1}
  Zero = Zero
  MAX_MUTEX = 1
  MAX_CV = 1
  MAX_PROCESY = 4
  ASYN_NR = 1
SYMMETRY Symmetry
VIEW View
PROPERTY ImplementsMutexCv
CHECK_DEADLOCK FALSE
