SPECIFICATION FairSpec
CONSTANTS
    Capacity = 2
    NumRecords = 5
INVARIANTS
    Conserved
    WholeObject
PROPERTIES
    WriteReturns
    CloseEnds
CHECK_DEADLOCK FALSE
