SPECIFICATION Spec
CONSTANTS
    INIT_PROC_NR = INIT_PROC_NR
    a = a
    b = b
    c = c
    Proc = {INIT_PROC_NR, a}
    Booted = {INIT_PROC_NR, a}
    NR_PROCS = 2
    Signal = {1, 9, 10, 11, 20}
    SIGHUP = 1
    SIGKILL = 9
    SIGCHLD = 20
    core_sset = {11}
    ign_sset = {20}
    noign_sset = {11}
    Calls <- ForwardedCalls
    KernelSigs = {9, 10, 11}
CHECK_DEADLOCK FALSE
INVARIANTS PendingHasOccasion
