\* Calls that do not overlap, one of them with an alignment of its own.
CONSTANTS
    k = k
    i = i
    Contexts = {k}
    Irq = i
    Requests <- MixedAlign
    IrqRequests = {}
    Base = 1
    End = 37
    Preemptive = FALSE
    MaxOwned = 3
SPECIFICATION Spec
INVARIANTS
    AllocatedOrNull
CHECK_DEADLOCK FALSE
