\* A thread allocates while timer ticks allocate queue nodes.
CONSTANTS
    k = k
    i = i
    Contexts = {k}
    Irq = i
    Requests <- DefaultAlign
    IrqRequests <- Node
    Base = 1
    End = 37
    Preemptive = TRUE
    MaxOwned = 3
SPECIFICATION Spec
INVARIANTS
    NewlyAllocated
CHECK_DEADLOCK FALSE
