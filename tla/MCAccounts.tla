---------------------------- MODULE MCAccounts ------------------------------
EXTENDS Accounts, TLC

\* A promotion, a demotion together with a disabling, and an enabling.
MCPatches == {[role |-> "admin", status |-> Keep],
              [role |-> "viewer", status |-> "disabled"],
              [role |-> Keep, status |-> "active"]}

\* Both subjects are in admin_emails, so they are interchangeable too.
Symmetry == Permutations(Requests) \cup Permutations(Subjects)
=============================================================================
