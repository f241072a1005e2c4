SPECIFICATION FairSpec
CONSTANTS
    MaxRetries = 2
    NumRecords = 3
    Modulus = 16
INVARIANTS
    AckedAreRows
    TableOrNothing
    RowsInOrder
    BackoffCountsFailures
PROPERTIES
    WriteReturns
CHECK_DEADLOCK FALSE
