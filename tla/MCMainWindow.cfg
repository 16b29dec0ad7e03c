SPECIFICATION FairSpec
CONSTANTS
    SortModes <- MCSortModes
    SORT_CPU = "SORT_CPU"
    MaxDialogs = 2
    MaxRuns = 2
INVARIANTS
    TimersFollowPause
    SignalsStayLocal
    BusyMatchesRun
PROPERTIES
    OverloadIsNoticed
