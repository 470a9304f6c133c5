---------------------------- MODULE HeadRegister ----------------------------
(***************************************************************************)
(* What the version store promises about the HEAD of a document, with no   *)
(* rows, numbers to reserve or requests in flight: a register per document *)
(* that is published to, one version number after the other, and that goes *)
(* empty only when the document is purged from the recycle bin.            *)
(***************************************************************************)
EXTENDS Naturals

CONSTANTS Docs, Contents, NoText

VARIABLES
    status,     \* alive, trashed or gone
    version,    \* number of the published version, 0 before the first
    text        \* its text, NoText before the first

vars == <<status, version, text>>

Init ==
    /\ status = [d \in Docs |-> "alive"]
    /\ version = [d \in Docs |-> 0]
    /\ text = [d \in Docs |-> NoText]

\* A published version is the next one, and it is there as a whole.
Publish(d) ==
    /\ status[d] # "gone"
    /\ version' = [version EXCEPT ![d] = @ + 1]
    /\ \E t \in Contents : text' = [text EXCEPT ![d] = t]
    /\ UNCHANGED status

SoftDelete(d) ==
    /\ status[d] = "alive"
    /\ status' = [status EXCEPT ![d] = "trashed"]
    /\ UNCHANGED <<version, text>>

Restore(d) ==
    /\ status[d] = "trashed"
    /\ status' = [status EXCEPT ![d] = "alive"]
    /\ UNCHANGED <<version, text>>

Purge(d) ==
    /\ status[d] = "trashed"
    /\ status' = [status EXCEPT ![d] = "gone"]
    /\ version' = [version EXCEPT ![d] = 0]
    /\ text' = [text EXCEPT ![d] = NoText]

Next == \E d \in Docs : Publish(d) \/ SoftDelete(d) \/ Restore(d) \/ Purge(d)

Spec == Init /\ [][Next]_vars
=============================================================================
