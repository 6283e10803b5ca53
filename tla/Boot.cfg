\* A device array of three elements has to grow for the second partition.
CONSTANTS
    Mbrs <- FourTables
    BootDevices <- TimerAndUart
    Preallocate = 3
SPECIFICATION Spec
INVARIANTS
    DriverNotAhead
    InterruptHasRead
    PartitionsFound

    
\* The model ends with the boot.
CHECK_DEADLOCK FALSE
