SPECIFICATION MonitorSpec
CONSTANTS
  Proc = {p1, p2, p3}
  Mutex = {m1}
  CondVar = {c1}
  Zero = Zero
  MAX_MUTEX = 1
  MAX_CV = 1
  MAX_PROCESY = 3
  ASYN_NR = 1
  MAX_SIGNALS = 1
  MAX_EXITS = 1
  MAX_EVENTS = 1
PROPERTIES LockEventuallyGranted
CHECK_DEADLOCK FALSE
