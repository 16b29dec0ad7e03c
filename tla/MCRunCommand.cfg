SPECIFICATION FairSpec
CONSTANTS
    r1 = r1
    r2 = r2
    Runs <- MCRuns
    Assignments <- MCAssignments
    Texts <- MCTexts
    Descriptors <- MCDescriptors
    ExitCodes = {0, 1}
    MaxOutput = 1
    SigpipeIgnored = FALSE
INVARIANTS
    TableIsSound
    SuccessIsOwn
PROPERTIES
    RunsReturn
CHECK_DEADLOCK FALSE
