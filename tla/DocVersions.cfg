SPECIFICATION FocusedSpec
CONSTANTS
    Docs = {d1}
    Users = {author, reviewer}
    Reviewers = {reviewer}
    Contents = {x, y}
    Requests = {r1, r2}
    VersionLimits = {1, 2}
    MaxOvertake = 1
    MaxCommits = 4
    MaxSubs = 1
SYMMETRY Symmetry
INVARIANTS
    TypeOK
    HeadIsNewest
    CommitsHaveContent
    ReaderFindsHead
    RevertFollowsParent
    ApprovedWasPublished
PROPERTIES
    ImplementsRegister
