SPECIFICATION FairSpec
CONSTANTS
    Users = {u1}
    Machines = {m1}
    Settings = {s1}
    MaxGeneration = 1
    MaxPolicy = 3
    MaxPreviews = 2
    MaxEpoch = 1
    MaxFaults = 0
PROPERTIES
    ServedUsersAreRemembered
CHECK_DEADLOCK FALSE
