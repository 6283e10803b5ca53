\* Three threads, no fork: every interleaving of ticks that keep coming, exits and waits.
CONSTANTS
    t1 = t1
    t2 = t2
    t3 = t3
    Threads <- ThreeThreads
    ExitCodes = {0, 1}
    Forkers = {}
    MaxQueue = 5
    AnyChild = AnyChild
    Null = Null
SPECIFICATION Spec
INVARIANTS
    TypeOK
    Conservation
    CpuOwnerReady
    NoLostWakeup
    NoDanglingListener
    WaitReportsExit
    WaitFailsOnlyForDead
    HaltsOnlyWhenDone
PROPERTIES
    ImplementsProcessLife
    ReadyProcessRuns
    ReleasedWaitReturns
    HaltsWhenDone
\* The kernel really stops: it halts, or its behaviour is undefined.
CHECK_DEADLOCK FALSE
