SPECIFICATION Spec
CONSTANTS
    Metrics <- MCMetrics
    Values <- MCValues
    Thresholds <- MCThresholds
    Sustains <- MCSustains
    TicksPerSecond = 2
    MaxSecond = 2
    MaxSamples = 4
INVARIANTS
    TypeOK
    NeverASecondEarly
    FiredOnlyIfSustained
    FiredWhenSustained
    OneReportPerEpisode
    FiredMeansReported
