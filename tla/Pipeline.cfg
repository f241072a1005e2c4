SPECIFICATION FairSpec
CONSTANTS
    NumRecords = 2
    MaxTransforms = 2
    MaxValidators = 2
    MaxReruns = 1
    Styles = {"fresh"}
INVARIANTS
    Accounting
    FailedIffFatal
    QuarantineComplete
    Routed
    Lifecycle
    CancelStops
PROPERTIES
    StatsMonotonic
    RunReturns
    ImplementsRecordFlow
CHECK_DEADLOCK FALSE
