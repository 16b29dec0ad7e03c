SPECIFICATION Spec
CONSTANTS
    SortModes <- MCSortModes
    SORT_CPU = "SORT_CPU"
    MaxDialogs = 1
    MaxRuns = 1
INVARIANT ViewingShowsRemote
