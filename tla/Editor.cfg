CONSTANTS
    Docs = {d1, d2}
    None = None
    Saves = {s1, s2}
    MaxCommits = 1
    MaxEdits = 2
    MaxLoads = 3
    MaxFaults = 1
SPECIFICATION Spec
SYMMETRY Symmetry
CHECK_DEADLOCK FALSE
INVARIANTS
    TypeOK
    BaseIsOfDocument
    TextsStayHome
    SavedIsSaved
