CONSTANTS
    LastUpgrade = 2
    MaxFaults = 2
    Mishaps = {"helper_killed"}
SPECIFICATION FairSpec
INVARIANTS
    VersionIsKnown
PROPERTIES
    SettledBeforeSwitch
    UpgradesSettle
CHECK_DEADLOCK FALSE
