SPECIFICATION Spec
CONSTANTS
    INIT_PROC_NR = INIT_PROC_NR
    a = a
    b = b
    c = c
    Proc = {INIT_PROC_NR, a, b}
    Booted = {INIT_PROC_NR, a, b}
    NR_PROCS = 3
    Signal = {1, 9, 10, 11, 20}
    SIGHUP = 1
    SIGKILL = 9
    SIGCHLD = 20
    core_sset = {11}
    ign_sset = {20}
    noign_sset = {11}
    Calls <- SignalCalls
    KernelSigs = {11}
CHECK_DEADLOCK FALSE
INVARIANTS TypeOK NeverPanics StoppedOnlyForVfs VfsCallsMatch InterruptFollowsRequest DelayCallEnds
PROPERTIES ExitPostedOnce
VIEW NoStaleCall
