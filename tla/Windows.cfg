SPECIFICATION WindowsSpec
CONSTANTS
    Adders = {a1, a2}
    Capacity = 2
    MaxRecords = 4
    Count = 2
INVARIANTS
    Conserved
    BatchesExact
PROPERTIES
    AddReturns
    EveryRecordArrives
    HaltEnds
CHECK_DEADLOCK FALSE
