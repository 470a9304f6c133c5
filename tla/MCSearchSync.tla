--------------------------- MODULE MCSearchSync ----------------------------
EXTENDS SearchSync, TLC

CONSTANTS Top, Child, Saver

\* A document and the one below it.
MCDocs == {Top, Child}
MCBelow == (Top :> {Top, Child}) @@ (Child :> {Child})

\* One document, where requests race.
MCOne == {Top}
MCOneBelow == (Top :> {Top})

\* Two requests, of which one may do everything, while the other one saves.
OneSaves == reqs[Saver].then = "get"

Symmetry == Permutations(Requests)
=============================================================================
