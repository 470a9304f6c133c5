SPECIFICATION Spec
CONSTANTS
    Docs = {d1, d2, d3}
    Bases = {"restored", "x"}
    Requests = {r1, r2}
    MaxTries = 1
    MaxBegun = 3
SYMMETRY Symmetry
INVARIANTS
    SiblingSlugsDiffer
PROPERTY Lifecycle
CHECK_DEADLOCK FALSE
