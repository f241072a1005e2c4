SPECIFICATION MetricsFairSpec
CONSTANTS
    NumExporters = 2
    MaxRecords = 2
    Modulus = 8
PROPERTIES
    SeriesAreCounters
    FinalStatsExported
    StopEndsCollector
CHECK_DEADLOCK FALSE
