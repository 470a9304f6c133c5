--------------------------- MODULE MCDocVersions ---------------------------
EXTENDS DocVersions, TLC

\* Requests differ in nothing but their name; so do texts.
Symmetry == Permutations(Requests) \cup Permutations(Contents)

\* Four commits trim a history, and two are enough beside a submission and its
\* review: a behaviour with a submission has at most CommitsBesideReview commits.
CommitsBesideReview == 2
FocusedSpec ==
    Init /\ [][/\ Next /\ Paced'
               /\ nextSub' > 1 => nextId' <= CommitsBesideReview + 1]_vars
=============================================================================
