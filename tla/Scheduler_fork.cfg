\* Two threads, of which t1 forks; it does not fork into a longer queue than MaxQueue.
CONSTANTS
    t1 = t1
    t2 = t2
    t3 = t3
    Threads <- TwoThreads
    ExitCodes = {0, 1}
    Forkers = {t1}
    MaxQueue = 5
    AnyChild = AnyChild
    Null = Null
SPECIFICATION Spec
INVARIANTS
    CpuOwnerReady
    WaitReportsExit
CHECK_DEADLOCK FALSE
