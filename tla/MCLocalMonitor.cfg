SPECIFICATION FairSpec
CONSTANTS
    Intervals <- MCIntervals
    MIN_INTERVAL = 1
    MAX_INTERVAL = 4
    SortModes <- OneSortMode
    Readings <- MCReadings
    Thresholds <- MCThresholds
    Sustains <- MCSustains
    MaxClock = 3
    MaxSignals = 1
INVARIANTS
    LeavesInOrder
    ScreenFollowsKeys
PROPERTIES
    NoRefreshAfterStop
    SignalEnds
CHECK_DEADLOCK FALSE
