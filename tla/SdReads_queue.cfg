\* Three reading threads whose posts are not interrupted.
CONSTANTS
    Null = Null
    init = init
    other = other
    third = third
    Clients <- ThreeReaders
    MaxBlocks = 2
    Preemptive = FALSE
SPECIFICATION Spec
INVARIANTS
    SuccessfulReadIsWhole
PROPERTIES
    EveryReadEnds
\* Undefined behaviour ends a run.
CHECK_DEADLOCK FALSE
