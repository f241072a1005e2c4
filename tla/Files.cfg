SPECIFICATION Spec
CONSTANTS
    Records <- MCRecords
    Rejections <- MCRejections
    Foreign <- MCForeign
    HeaderLists <- MCHeaderLists
    SortedKeys <- MCSortedKeys
    Trim <- MCTrim
    CellOf <- MCCellOf
    NewLines <- MCNewLines
    Encoded <- MCEncoded
    Long <- MCLong
    Mantissa = 4
    MaxSessions = 2
    MaxLines = 2
INVARIANTS
    CloseVouches
    ReadBack
    QuarantineKeepsEvidence
CHECK_DEADLOCK FALSE
