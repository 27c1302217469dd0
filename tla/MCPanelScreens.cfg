SPECIFICATION Spec
SYMMETRY Symmetry
CONSTANTS
    Tabs = {t1, t2}
    Starts = {{"machines", "machine"}, {"machine", "editor"}, {"users"}, {"account"}}
    MaxVersion = 3
    MaxForms = 2
    MaxLost = 1
INVARIANTS
    DoneOnceAsConfirmed
CHECK_DEADLOCK FALSE
