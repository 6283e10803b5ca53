\* Calls that do not overlap, with the default alignment and a larger one.
CONSTANTS
    k = k
    i = i
    Contexts = {k}
    Irq = i
    Requests <- MixedAlign
    IrqRequests = {}
    Base = 1
    End = 37
    Preemptive = FALSE
    MaxOwned = 3
SPECIFICATION Spec
INVARIANTS
    Tiled
    OwnedIsAllocated
    UsedIsOwned
    Coalesced
    OwnedIsAligned
    SearchSkipsNothing
CHECK_DEADLOCK FALSE
