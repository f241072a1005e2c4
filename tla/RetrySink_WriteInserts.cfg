SPECIFICATION Spec
CONSTANTS
    MaxRetries = 2
    NumRecords = 3
    Modulus = 16
INVARIANT WriteInserts
CHECK_DEADLOCK FALSE
