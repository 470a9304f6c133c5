---------------------------- MODULE MCModeration ----------------------------
EXTENDS Moderation, TLC

Symmetry == Permutations(Users) \cup Permutations(Revs)
            \cup Permutations(Reports) \cup Permutations(Requests)

\* User pages share no row with documents and comments, and no step reads both,
\* so a behaviour is of the one or of the others; and reports go with the others.
TouchesPages == \E r \in Revs : revs[r] # NoRevision
TouchesThreads == \/ \E c \in Comments : comments[c] # NoComment
                  \/ \E d \in Docs : docs[d] # [state |-> "alive", vis |-> "standard"]
                  \/ \E q \in Requests : reqs[q].pc \in {"insert", "visibility", "report"}
                  \/ \E i \in Reports : reports[i].status # "none"
OneKind == ~ (TouchesPages /\ TouchesThreads)

FocusedSpec == Init /\ [][Next /\ OneKind']_vars
=============================================================================
