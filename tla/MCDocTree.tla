----------------------------- MODULE MCDocTree -----------------------------
EXTENDS DocTree, TLC

\* Ids of documents and requests carry no order.
Symmetry == Permutations(Docs) \cup Permutations(Requests)

\* The behaviours that start with all documents alive and visible.
FullTree ==
    /\ status = [d \in Docs |-> "alive"] /\ vis = [d \in Docs |-> "standard"]
    /\ Init
    /\ [][Next]_vars
=============================================================================
