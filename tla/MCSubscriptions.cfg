SPECIFICATION Spec
SYMMETRY Symmetry
CONSTANTS
    Pages = {g1, g2}
    Nodes = {n1}
    Drafts = {{}, {n1}}
    Limit = 3
    MaxWrites = 3
    MaxPreviews = 1
    MaxForms = 1
    MaxLost = 1
INVARIANTS
    RevokedLinksAreDead
PROPERTIES
    SeenBeforeChanged
CHECK_DEADLOCK FALSE
