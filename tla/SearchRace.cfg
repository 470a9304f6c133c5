SPECIFICATION FairSpec
CONSTANTS
    Docs <- MCDocs
    Below <- MCBelow
    Top = d1
    Child = d2
    Saver = r2
    Requests = {r1, r2}
    MaxEdits = 2
    MaxJobs = 1
    MaxFaults = 1
CONSTRAINT OneSaves
PROPERTIES
    RebuildCatchesUp
    
CHECK_DEADLOCK FALSE
