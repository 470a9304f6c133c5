------------------------------- MODULE Editor -------------------------------
(***************************************************************************)
(* One visit to the edit page of Element Wiki: EditView with its autosave, *)
(* against the drafts and commits of the server, beside other users who    *)
(* commit.  The page stays mounted while its path changes from document to *)
(* document, and its timer and answers outlive it when it is left.         *)
(*                                                                         *)
(* A text is known by where it comes from: the document, the newest commit *)
(* of it that its writer has seen, and the number of the edit.  A request  *)
(* and its answer are one step, since what the page tells apart is the     *)
(* order of the answers.                                                   *)
(***************************************************************************)
EXTENDS Integers, Sequences

CONSTANTS
    Docs,
    None,       \* no document, no text, no request
    Saves,      \* slots for the draft requests in flight
    MaxCommits, \* commits per document
    MaxEdits,   \* edits the user makes
    MaxLoads,   \* documents the page is turned to
    MaxFaults   \* requests that fail

ASSUME EditorAssumption ==
    /\ None \notin Docs \cup Saves
    /\ MaxCommits \in Nat /\ MaxEdits \in Nat /\ MaxLoads \in Nat \ {0} /\ MaxFaults \in Nat

Text == [doc : Docs \cup {None}, seen : 0 .. MaxCommits, edit : 0 .. MaxEdits, empty : BOOLEAN]
Blank == [doc |-> None, seen |-> 0, edit |-> 0, empty |-> TRUE]
ASSUME NoneIsNoText == None \notin Text
Ids == [doc : Docs, no : 1 .. MaxCommits] \cup {None}       \* of commits; None is ''

VARIABLES
    content,    \* the commits of each document, the last of them its HEAD
    draft,      \* the user's draft of each document
    path,       \* what the page is turned to, None once it is left
    view,       \* docID, baseCommitID, markdown and ready, and the text in the canvas
    loads,      \* the runs of loadDoc; the last one has loadSeq
    pending,    \* text waiting for the timer, which runs as long as there is some
    saves,      \* draft requests in flight; one is latest while its number is seq
    status,     \* what the page says of the draft
    command,    \* commitAndExit, discardAndExit or the guard of a leave, under way
    edits,      \* edits so far
    faults,     \* failed requests so far
    happened    \* history: what a smooth visit is spared, and that a draft was discarded

server == <<content, draft>>
autosave == <<pending, saves, status>>
vars == <<server, path, view, loads, autosave, command, edits, faults, happened>>

View == [doc : Docs \cup {None}, base : Ids, markdown : Text, shown : Text, ready : BOOLEAN]
NoView == [doc |-> None, base |-> None, markdown |-> Blank, shown |-> Blank, ready |-> FALSE]
Load == [pc : {"resolve", "commits", "draft", "content", "over", "failed"}, doc : Docs, base : Ids]
Save == [doc : Docs \cup {None}, text : Text, latest : BOOLEAN]
Command == [pc : {"none", "commit", "leave", "post", "delete"}, save : Saves \cup {None},
            doc : Docs \cup {None}, base : Ids, text : Text]
NoCommand == [pc |-> "none", save |-> None, doc |-> None, base |-> None, text |-> Blank]
Events == {"fault", "late text", "crossed saves", "turned", "discarded"}

HeadId(d) == IF content[d] = <<>> THEN None ELSE [doc |-> d, no |-> Len(content[d])]

\* The text of a commit, as somebody has it who has read that commit.
ContentOf(id) == [content[id.doc][id.no] EXCEPT !.seen = id.no]

InFlight == {s \in Saves : saves[s] # None}
Note(what, if) == happened' = IF if THEN happened \cup {what} ELSE happened
Fails == faults < MaxFaults /\ faults' = faults + 1 /\ Note("fault", TRUE)

Init ==
    /\ content = [d \in Docs |-> <<>>] /\ draft = [d \in Docs |-> None]
    /\ \E d \in Docs : path = d /\ loads = <<[pc |-> "resolve", doc |-> d, base |-> None]>>
    /\ view = NoView
    /\ pending = None /\ saves = [s \in Saves |-> None] /\ status = "idle"
    /\ command = NoCommand
    /\ edits = 0 /\ faults = 0 /\ happened = {}

\* Somebody else commits on the HEAD they have seen.
OtherCommits(d) ==
    LET no == Len(content[d]) IN
    /\ no < MaxCommits
    /\ content' = [content EXCEPT ![d] =
                      Append(@, [doc |-> d, seen |-> no, edit |-> 0, empty |-> FALSE])]
    /\ UNCHANGED <<draft, path, view, loads, autosave, command, edits, faults, happened>>

-----------------------------------------------------------------------------
(* useAutosave *)

\* seq has gone up: what is in flight is no longer the latest.
Overtaken == [s \in Saves |-> IF saves[s] = None THEN None ELSE [saves[s] EXCEPT !.latest = FALSE]]

\* Mutant: what is pending survives a reset.
ResetStatusOnly ==
    /\ saves' = Overtaken /\ status' = "idle"
    /\ UNCHANGED pending

reset ==
    /\ pending' = None /\ saves' = Overtaken /\ status' = "idle"

\* Mutant: nobody asks whether something is pending.
flushAlways(s) ==
    /\ saves[s] = None
    /\ saves' = [Overtaken EXCEPT ![s] = [doc |-> view.doc, text |-> pending, latest |-> TRUE]]
    /\ pending' = None
    /\ status' = "saving"
    /\ Note("crossed saves", InFlight # {})

\* The pending text is sent as the draft of the document that the page has by
\* now; while a document is being loaded it may have none.
flush(s) ==
    /\ pending # None /\ saves[s] = None
    /\ saves' = [Overtaken EXCEPT ![s] = [doc |-> view.doc, text |-> pending, latest |-> TRUE]]
    /\ pending' = None
    /\ status' = "saving"
    /\ Note("crossed saves", InFlight # {})

OnTimer(s) ==
    /\ flush(s)
    /\ UNCHANGED <<server, path, view, loads, command, edits, faults>>

\* commitAndExit after its flush: it takes what the page has at this moment.
Post == [NoCommand EXCEPT !.pc = "post", !.doc = view.doc, !.base = view.base, !.text = view.markdown]

\* A command that has waited for draft request s goes on.  A leave whose draft
\* was refused stays on the page.
Continue(s, refused) ==
    IF command.save # s THEN UNCHANGED <<command, path>>
    ELSE CASE command.pc = "commit" -> command' = Post /\ UNCHANGED path
           [] command.pc = "leave" -> /\ command' = NoCommand
                                      /\ path' = IF refused THEN path ELSE None

\* Mutant: any answer says that the draft is saved.
SavedByAny(s) ==
    /\ saves[s] # None /\ saves[s].doc # None
    /\ draft' = [draft EXCEPT ![saves[s].doc] = saves[s].text]
    /\ saves' = [saves EXCEPT ![s] = None]
    /\ status' = IF pending = None \/ pending.empty THEN "saved" ELSE status
    /\ Continue(s, status' = "error")
    /\ UNCHANGED <<content, view, loads, pending, edits, faults, happened>>

\* Only the latest request says so; `!pending` also holds of an emptied text.
Saved(s) ==
    /\ saves[s] # None /\ saves[s].doc # None
    /\ draft' = [draft EXCEPT ![saves[s].doc] = saves[s].text]
    /\ saves' = [saves EXCEPT ![s] = None]
    /\ status' = IF saves[s].latest /\ (pending = None \/ pending.empty) THEN "saved" ELSE status
    /\ Continue(s, status' = "error")
    /\ UNCHANGED <<content, view, loads, pending, edits, faults, happened>>

\* The request fails, before or after the server has done it; without a document
\* it always does.  The text it carried becomes the pending one, whatever is pending
\* by then.  (The server answers a draft with no 409, so none is a conflict.)
SaveFails(s) ==
    /\ saves[s] # None
    /\ IF saves[s].doc = None
       THEN UNCHANGED <<draft, faults, happened>>
       ELSE Fails /\ draft' \in {draft, [draft EXCEPT ![saves[s].doc] = saves[s].text]}
    /\ pending' = saves[s].text
    /\ saves' = [saves EXCEPT ![s] = None]
    /\ status' = "error"
    /\ Continue(s, TRUE)
    /\ UNCHANGED <<content, view, loads, edits>>

-----------------------------------------------------------------------------
(* loadDoc *)

\* The path has changed, or the user tries again.  A leave that is waiting is off.
LoadDoc(d) ==
    /\ path # None /\ Len(loads) < MaxLoads
    /\ d # path \/ loads[Len(loads)].pc = "failed"
    /\ path' = d
    /\ loads' = Append(loads, [pc |-> "resolve", doc |-> d, base |-> None])
    /\ view' = NoView
    /\ reset
    /\ command' = IF command.pc = "leave" THEN NoCommand ELSE command
    /\ Note("turned", command.pc \notin {"none", "leave"})
    /\ UNCHANGED <<server, edits, faults>>

Current(k) == k = Len(loads)
Reaches(k, pc, base) == loads' = [loads EXCEPT ![k] = [pc |-> pc, doc |-> @.doc, base |-> base]]
Ends(k, pc) == Reaches(k, pc, None)
Goes(k, pc, base) == IF Current(k) THEN Reaches(k, pc, base) ELSE Ends(k, "over")

Resolved(k) ==
    /\ loads[k].pc = "resolve"
    /\ Goes(k, "commits", None)
    /\ view' = IF Current(k) THEN [view EXCEPT !.doc = loads[k].doc] ELSE view
    /\ UNCHANGED <<server, path, autosave, command, edits, faults, happened>>

\* Mutant: the answer is not checked against loadSeq.
AnyCommitsListed(k) ==
    LET id == HeadId(loads[k].doc) IN
    /\ loads[k].pc = "commits"
    /\ Goes(k, "draft", id)
    /\ view' = [view EXCEPT !.base = id]
    /\ UNCHANGED <<server, path, autosave, command, edits, faults, happened>>

CommitsListed(k) ==
    LET id == HeadId(loads[k].doc) IN
    /\ loads[k].pc = "commits"
    /\ Goes(k, "draft", id)
    /\ view' = IF Current(k) THEN [view EXCEPT !.base = id] ELSE view
    /\ UNCHANGED <<server, path, autosave, command, edits, faults, happened>>

Shows(text) == [view EXCEPT !.markdown = text, !.shown = text, !.ready = TRUE]

\* A draft goes before the HEAD, whatever commit it was based on; a document with
\* neither is empty.  Only the HEAD's text is one more request away.
DraftRead(k) ==
    LET d == loads[k].doc
        asks == draft[d] = None /\ loads[k].base # None
    IN
    /\ loads[k].pc = "draft"
    /\ IF asks THEN Goes(k, "content", loads[k].base) ELSE Ends(k, "over")
    /\ view' = IF ~ Current(k) \/ asks THEN view
               ELSE Shows(IF draft[d] # None THEN draft[d] ELSE [Blank EXCEPT !.doc = d])
    /\ UNCHANGED <<server, path, autosave, command, edits, faults, happened>>

\* markdown is assigned before loadSeq is looked at.  A canvas that is shown takes
\* a text over from markdown unless the user is in it.
ContentRead(k) ==
    LET text == ContentOf(loads[k].base) IN
    /\ loads[k].pc = "content"
    /\ Ends(k, "over")
    /\ IF Current(k) THEN view' = Shows(text)
                     ELSE \E shown \in {view.shown, text} :
                              view' = [view EXCEPT !.markdown = text,
                                                   !.shown = IF view.ready THEN shown ELSE @]
    /\ Note("late text", ~ Current(k))
    /\ UNCHANGED <<server, path, autosave, command, edits, faults>>

\* An error ends the load; the page can then be turned to the same document again.
LoadFails(k) ==
    /\ loads[k].pc \notin {"over", "failed"}
    /\ Fails
    /\ Ends(k, "failed")
    /\ UNCHANGED <<server, path, view, autosave, command, edits>>

-----------------------------------------------------------------------------
(* The user *)

Editing == path # None /\ view.ready

onEditorChange(empty) ==
    LET text == [view.shown EXCEPT !.edit = edits + 1, !.empty = empty] IN
    /\ Editing /\ edits < MaxEdits
    /\ edits' = edits + 1
    /\ view' = [view EXCEPT !.markdown = text, !.shown = text]
    /\ pending' = text /\ status' = "dirty"
    /\ UNCHANGED <<server, path, loads, saves, command, faults, happened>>

\* flushNow waits for the draft request it makes itself, and only for that one.
commitAndExit ==
    /\ Editing /\ command.pc = "none"
    /\ IF pending = None
       THEN command' = Post /\ UNCHANGED <<autosave, happened>>
       ELSE \E s \in Saves : flush(s) /\ command' = [NoCommand EXCEPT !.pc = "commit", !.save = s]
    /\ UNCHANGED <<server, path, view, loads, edits, faults>>

\* The guard of the route: a page that is not dirty is left at once, another when
\* the user agrees and its text has been saved.
onBeforeRouteLeave ==
    /\ path # None /\ command.pc = "none"
    /\ IF status \in {"dirty", "saving", "error"} /\ pending # None
       THEN /\ \E s \in Saves : flush(s) /\ command' = [NoCommand EXCEPT !.pc = "leave", !.save = s]
            /\ UNCHANGED path
       ELSE /\ status # "error"
            /\ path' = None
            /\ UNCHANGED <<autosave, command, happened>>
    /\ UNCHANGED <<server, view, loads, edits, faults>>

Refused == command.doc = None \/ command.base # HeadId(command.doc)

\* Commit on the server and its answer: the page is left, or stays with a message.
Committed ==
    LET d == command.doc IN
    /\ command.pc = "post"
    /\ ~ Refused /\ Len(content[d]) < MaxCommits
    /\ content' = [content EXCEPT ![d] = Append(@, command.text)]
    /\ \/ path' = None /\ UNCHANGED <<faults, happened>>
       \/ Fails /\ UNCHANGED path
    /\ command' = NoCommand
    /\ UNCHANGED <<draft, view, loads, autosave, edits>>

CommitFails ==
    /\ command.pc = "post"
    /\ IF Refused THEN UNCHANGED <<faults, happened>> ELSE Fails
    /\ command' = NoCommand
    /\ UNCHANGED <<server, path, view, loads, autosave, edits>>

discardAndExit ==
    /\ Editing /\ command.pc = "none"
    /\ reset
    /\ command' = [NoCommand EXCEPT !.pc = "delete", !.doc = view.doc]
    /\ UNCHANGED <<server, path, view, loads, edits, faults, happened>>

\* The draft is deleted, or that fails, and the page is left.
Discarded ==
    /\ command.pc = "delete"
    /\ \/ /\ draft' = [draft EXCEPT ![command.doc] = None]
          /\ Note("discarded", TRUE) /\ UNCHANGED faults
       \/ Fails /\ UNCHANGED draft
    /\ path' = None /\ command' = NoCommand
    /\ UNCHANGED <<content, view, loads, autosave, edits>>

-----------------------------------------------------------------------------
LoadStep(k) == Resolved(k) \/ CommitsListed(k) \/ DraftRead(k) \/ ContentRead(k) \/ LoadFails(k)
SaveStep(s) == OnTimer(s) \/ Saved(s) \/ SaveFails(s)
UserStep == (\E empty \in BOOLEAN : onEditorChange(empty))
            \/ commitAndExit \/ onBeforeRouteLeave \/ discardAndExit

Next ==
    \/ \E d \in Docs : OtherCommits(d) \/ LoadDoc(d)
    \/ \E k \in DOMAIN loads : LoadStep(k)
    \/ \E s \in Saves : SaveStep(s)
    \/ UserStep
    \/ Committed \/ CommitFails \/ Discarded

Spec == Init /\ [][Next]_vars

-----------------------------------------------------------------------------
TypeOK ==
    /\ content \in [Docs -> Seq(Text)] /\ \A d \in Docs : Len(content[d]) <= MaxCommits
    /\ draft \in [Docs -> Text \cup {None}]
    /\ path \in Docs \cup {None}
    /\ view \in View
    /\ loads \in Seq(Load) /\ Len(loads) \in 1 .. MaxLoads
    /\ pending \in Text \cup {None}
    /\ saves \in [Saves -> Save \cup {None}]
    /\ status \in {"idle", "dirty", "saving", "saved", "error"}
    /\ command \in Command
    /\ edits \in 0 .. MaxEdits /\ faults \in 0 .. MaxFaults
    /\ happened \in SUBSET Events

\* However the answers to several loads are mixed, a page that is ready has the
\* document it was turned to, and a base of that document (EditView.vue 82-93).
BaseIsOfDocument ==
    Editing => view.doc = path /\ (view.base # None => view.base.doc = path)

\* A text is saved and committed only where it was written, when no request has
\* failed, no text came late and the page was not turned during a command: what
\* is pending ends with a change of document (useAutosave.ts 60-67).
TextsStayHome ==
    happened \cap {"fault", "late text", "turned"} = {} =>
        \A d \in Docs : /\ draft[d] # None => draft[d].doc = d
                        /\ \A no \in 1 .. Len(content[d]) : content[d][no].doc = d

\* What the page calls saved is the draft (useAutosave.ts:40), unless a request
\* failed, two were in flight at a time, or a text came late; an emptied text may
\* still be on its way.
SavedIsSaved ==
    happened = {} /\ Editing /\ status = "saved"
        => draft[path] = view.markdown \/ view.markdown.empty

\* A commit goes on what its writer has seen: a newer one is never written over
\* (EditView.vue:233, service.go:448).
CommitIsOnWhatWasSeen ==
    \A d \in Docs : \A no \in 1 .. Len(content[d]) :
        content[d][no].doc = d => content[d][no].seen = no - 1

\* The text of a page is of the document it was turned to (edit-leave.spec.ts:150).
TextIsOfDocument == Editing => view.markdown.doc = path

\* A draft that was discarded does not come back (edit-leave.spec.ts:176).
DiscardedStaysAway ==
    "discarded" \in happened /\ "turned" \notin happened => draft[view.doc] = None
=============================================================================
