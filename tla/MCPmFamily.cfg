SPECIFICATION Spec
CONSTANTS
    INIT_PROC_NR = INIT_PROC_NR
    a = a
    b = b
    c = c
    Proc = {INIT_PROC_NR, a, b, c}
    Booted = {INIT_PROC_NR, a}
    NR_PROCS = 4
    Signal = {1, 9, 11, 20}
    SIGHUP = 1
    SIGKILL = 9
    SIGCHLD = 20
    core_sset = {11}
    ign_sset = {20}
    noign_sset = {}
    Calls <- FamilyCalls
    KernelSigs = {}
CHECK_DEADLOCK FALSE
INVARIANTS NeverPanics RepliesAwaited NoMissedChild SlotsGivenBack
PROPERTIES ParentHearsOnce
VIEW NoStaleCall
