------------------------------ MODULE MCBackup ------------------------------
EXTENDS Backup, TLC

Symmetry == Permutations(Atts) \cup Permutations(Imports)

JobsRest ==
    /\ \A e \in Exports : exports[e].pc \in {"idle", "ready", "failed", "deleted"}
    /\ \A i \in Imports : imports[i].pc \in {"idle", "over"}
Busy == {a \in Atts : work[a].pc \in {"temp", "placed", "unlink"}}

\* Documents change while no job runs: a job reads them in its snapshot and
\* writes them in its replacement, one step each.  Requests that touch attachments
\* come one after the other, since they meet only in a path they share.  And once
\* rows and files may differ, what runs comes to its end and nothing new begins.
Focus ==
    /\ db'.parent # db.parent => imports' # imports \/ (JobsRest /\ ~ upset)
    /\ Busy' \subseteq Busy \/ (Busy = {} /\ ~ upset)
    /\ upset => \A j \in Exports \cup Imports : jobs[j] = "none" => jobs'[j] = "none"

FocusedSpec == Init /\ [][Next /\ Focus]_vars
=============================================================================
