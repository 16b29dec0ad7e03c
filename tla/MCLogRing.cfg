SPECIFICATION Spec
CONSTANTS
    t1 = t1
    t2 = t2
    s1 = s1
    s2 = s2
    Nobody = Nobody
    Threads <- MCThreads
    Sinks <- TwoSinks
    Levels <- MCLevels
    Capacity = 2
    MaxSinks = 2
    MaxWrites = 3
    MaxDepth = 2
SYMMETRY MCSymmetry
INVARIANTS
    ExactlyOnce
    SinkKeepsThreadOrder
PROPERTIES
    ImplementsRecentLog
