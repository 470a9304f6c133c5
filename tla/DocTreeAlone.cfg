SPECIFICATION Spec
CONSTANTS
    Docs = {d1, d2, d3}
    Bases = {"restored", "x"}
    Requests = {r1}
    MaxTries = 1
    MaxBegun = 4
SYMMETRY Symmetry
INVARIANTS
    TypeOK
    Acyclic
    AliveUnderAlive
CHECK_DEADLOCK FALSE
