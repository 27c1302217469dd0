SPECIFICATION Spec
SYMMETRY Symmetry
CONSTANTS
    Users = {u1, u2}
    MaxSessions = 2
    MaxKeys = 2
    MaxFlows = 2
    MaxVersion = 3
    MaxPassword = 2
    MaxRecoveries = 1
    MaxChallenges = 1
    MaxRequests = 1
INVARIANTS
    TypeOK
    CredentialsAreCurrent
    FirstAccountOnce
PROPERTIES
    PasskeyStandsWhenUsed
    AdministratorRemains
    EditsSeeTheAccount
CHECK_DEADLOCK FALSE
