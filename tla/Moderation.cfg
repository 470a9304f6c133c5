SPECIFICATION FocusedSpec
CONSTANTS
    Users = {u1, u2}
    Docs = {d}
    Comments = {c}
    Revs = {v1, v2, v3}
    Reports = {i1}
    Requests = {q1, q2}
    None = None
SYMMETRY Symmetry
INVARIANTS
    TypeOK
    PendingIsCurrent
    PagesShowPublished
    OnlyApprovedIsShown
    DecidedOnce
    HiddenQueueIsTrue
