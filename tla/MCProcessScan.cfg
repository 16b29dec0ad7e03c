SPECIFICATION Spec
CONSTANTS
    p1 = p1
    p2 = p2
    NoSample = NoSample
    Pids <- MCPids
    States <- MCStates
    Filters <- MCFilters
    CpuThresholds <- MCLimits
    MaxTicks = 2
    MaxLives = 2
    MaxScans = 3
SYMMETRY MCSymmetry
INVARIANTS
    TypeOK
    NoTickMeasuredTwice
    MatchedTwiceIsExact
