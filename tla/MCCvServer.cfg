SPECIFICATION KSpec
CONSTANTS
  Proc = {p1, p2, p3}
  Mutex = {m1, m2}
  CondVar = {c1}
  Zero = Zero
  MAX_MUTEX = 2
  MAX_CV = 1
  MAX_PROCESY = 3
  ASYN_NR = 1
  MAX_ELEMENTS = 7
SYMMETRY Symmetry
VIEW View
INVARIANTS TypeOK MutualExclusion HoldersAreOwners OwnersAreHolders WaitsOnce NeverStuck NoLostProcess TablesCoherent AtMostOneLeftover ListsAreQueues HeapTidy
CHECK_DEADLOCK FALSE
