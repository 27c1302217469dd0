SPECIFICATION FairSpec
CONSTANTS
    Users = {u1}
    Machines = {m1}
    Settings = {s1}
    MaxGeneration = 2
    MaxPolicy = 3
    MaxPreviews = 2
    MaxEpoch = 2
    MaxFaults = 1
INVARIANTS
    TypeOK
    PolicyNamesCredentials
    NoUnseenSettings
    AvailableMeansServed
PROPERTIES
    FeedsAuthorization
    NodesCatchUp
CHECK_DEADLOCK FALSE
