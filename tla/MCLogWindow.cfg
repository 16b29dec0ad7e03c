SPECIFICATION WindowFairSpec
CONSTANTS
    ui = ui
    worker = worker
    UI = ui
    bridge = bridge
    Nobody = Nobody
    Threads <- MCThreads
    Sinks <- MCSinks
    Levels <- MCLevels
    Capacity = 2
    MaxSinks = 1
    MaxWrites = 3
    MaxDepth = 2
INVARIANTS
    ViewIsRight
    ReopenedWindowIsComplete
PROPERTIES
    EntriesArrive
    WriteReturns
