SPECIFICATION Spec
CONSTANTS
    Names <- const_Names
    NameSize = 6
    Protocols = {"telnet", "ftp"}
    DefaultPort <- const_DefaultPort
    Ports = {0, 7}
    Passwords = {"", "pw"}
    Runs = {"cli"}
    Dialogs = {"qt"}
    RunTargets <- const_RunTargets
    FirstLists <- const_FirstLists
    BlockSize = 3
    MaxOps = 2
    MaxFaults = 1
INVARIANTS
    FileIsSound
    UnreadableIsKept
    SavingAgainChangesNothing
PROPERTIES
    ImplementsTargetStore
CHECK_DEADLOCK FALSE
