CONSTANTS
    Docs = {d1, d2}
    None = None
    Saves = {s1, s2}
    MaxCommits = 2
    MaxEdits = 2
    MaxLoads = 3
    MaxFaults = 0
SPECIFICATION Spec
SYMMETRY Symmetry
CHECK_DEADLOCK FALSE
INVARIANT CommitIsOnWhatWasSeen
