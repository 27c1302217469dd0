CONSTANTS
    LastUninstall = 2
    MaxFaults = 3
    Mishaps = {"helper_killed", "handoff_ends", "given_up"}
SPECIFICATION FairSpec
INVARIANTS
    NothingLeftBehind
    KeptUntilKnown
PROPERTIES
    UninstallsSettle
CHECK_DEADLOCK FALSE
