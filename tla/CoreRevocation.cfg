\* What a failed Apply leaves serving.
CONSTANTS
    Users = {u1}
    Tasks = {t1, t2}
    Revisions = {r1, r2}
    MaxPolicy = 2
    None = None
SPECIFICATION Spec
INVARIANTS
    FailedApplyKeepsFloor
