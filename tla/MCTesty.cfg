SPECIFICATION TestSpec
CONSTANTS
  Proc = {1, 2, 3, 4, 5, 6}
  Mutex = {0, 1, 2, 3, 4, 5, 6, 7, 8}
  CondVar = {0, 1, 2}
  Zero = 0
  MAX_MUTEX = 4
  MAX_CV = 3
  MAX_PROCESY = 3
  ASYN_NR = 6
  MAX_SIGNALS = 0
  MAX_EXITS = 0
  MAX_EVENTS = 0
  TURNS = 2
  BSIZE = 2
INVARIANTS OutputAsTemplate NeverFails BufferUnderMutex
PROPERTIES Terminates
CHECK_DEADLOCK FALSE
