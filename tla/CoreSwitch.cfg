CONSTANTS
    Users = {u1, u2}
    Tasks = {t1, t2}
    Revisions = {r1, r2}
    MaxPolicy = 2
    None = None
SPECIFICATION Spec
INVARIANTS
    TypeOK
    AppliedMatchesFloor
    HealthNamesRunning
    RevokedAreCutOff
PROPERTIES
    StartsWithFloor
