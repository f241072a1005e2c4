SPECIFICATION Spec
CONSTANTS
    Capacity = 2
    NumRecords = 5
INVARIANT CloseFlushes
CHECK_DEADLOCK FALSE
