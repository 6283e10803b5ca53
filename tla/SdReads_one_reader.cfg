\* One reading thread, interrupted anywhere.
CONSTANTS
    Null = Null
    init = init
    other = other
    third = third
    Clients <- OneReader
    MaxBlocks = 4
    Preemptive = TRUE
SPECIFICATION Spec
INVARIANTS
    BufferBelongsToActive
    SuccessfulReadIsWhole
PROPERTIES
    CommandWhenIdle
    EveryReadEnds
\* Undefined behaviour ends a run.
CHECK_DEADLOCK FALSE
