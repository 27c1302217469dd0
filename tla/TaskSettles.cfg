SPECIFICATION FairSpec
CONSTANTS
    MaxTasks = 2
    MaxSession = 8
    MaxToken = 1
    MaxFaults = 1
    Kinds = {"apply"}
    LongBackoff = TRUE
PROPERTIES
    EveryTaskSettles
CHECK_DEADLOCK FALSE
