SPECIFICATION Alone
CONSTANTS
    Docs <- MCDocs
    Below <- MCBelow
    Top = d1
    Child = d2
    Saver = r2
    Requests = {r1}
    MaxEdits = 3
    MaxJobs = 2
    MaxFaults = 2
SYMMETRY Symmetry
INVARIANTS
    TypeOK
    SavedIsIndexed
    BinIsOut
CHECK_DEADLOCK FALSE
