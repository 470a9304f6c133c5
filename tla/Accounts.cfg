SPECIFICATION Spec
CONSTANTS
    Subjects = {s1, s2}
    AdminSubjects = {s1, s2}
    Requests = {r1, r2}
    Patches <- MCPatches
    MaxCreds = 2
SYMMETRY Symmetry
INVARIANTS
    TypeOK
    AdmittedWasEntitled
    AdminRemains
    RaisedOnce
    CacheIsFreshAlone
PROPERTY
    ChangesAreByAdmins
