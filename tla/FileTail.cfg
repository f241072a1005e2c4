SPECIFICATION FairSpec
CONSTANTS
    MaxLine = 3
    MaxUnits = 5
INVARIANTS
    Gapless
    TornIsLast
PROPERTIES
    CancelEndsRead
    CatchesUp
CHECK_DEADLOCK FALSE
