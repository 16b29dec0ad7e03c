SPECIFICATION Spec
CONSTANTS
    Arguments <- const_Arguments
    Paths = {"default", "other"}
    Names = {"a", "b"}
    FirstFiles <- const_FirstFiles
    Accounts <- const_Accounts
    Numbers <- const_Numbers
    Processes <- const_Processes
    PidModulus = 16
    MaxPatterns = 1
    MaxStates = 2
    NaN = NaN
    NotGiven = NotGiven
    MaxTaken = 3
    MaxRuns = 2
INVARIANTS
    ConnectionIsResolved
    ReusedTargetConnectsAlike
    UserMeansOneThing
    ExitTellsOutcome
PROPERTIES
    OnlyNamedEntryChanges
CHECK_DEADLOCK FALSE
