SPECIFICATION Spec
CONSTANTS
    MaxTasks = 2
    MaxSession = 3
    MaxToken = 2
    MaxFaults = 2
    Kinds = {"apply"}
    LongBackoff = FALSE
INVARIANTS
    TypeOK
    ResultsAgree
    HeldWhileWorking
    NeverExecutedAgain
    NoConflict
CHECK_DEADLOCK FALSE
