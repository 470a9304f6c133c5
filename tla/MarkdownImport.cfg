SPECIFICATION Spec
CONSTANTS
    Names <- MCNames
    Slug <- MCSlug
    Zips <- MCZips
    MaxEntries = 2
    MaxFaults = 1
    MaxActs = 2
INVARIANTS
    TypeOK
    CountsAreTrue
    NothingLeftOfNothing
    EntriesHaveTheirPlace
CHECK_DEADLOCK FALSE
