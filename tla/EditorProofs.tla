---------------------------- MODULE EditorProofs ----------------------------
(***************************************************************************)
(* Types, and what the edit page shows and saves, for any number of        *)
(* documents, edits, loads, requests in flight and failures.               *)
(***************************************************************************)
EXTENDS Editor, SequenceTheorems, TLAPS

\* The bases that loads carry are commits that exist, a load that asks for a
\* content has one, and a command waits for a request exactly while it flushes.
BasesExist ==
    \A k \in 1 .. Len(loads) :
        /\ loads[k].base # None => loads[k].base.no <= Len(content[loads[k].base.doc])
        /\ loads[k].pc = "content" => loads[k].base # None
CommandWaits == command.save # None <=> command.pc \in {"commit", "leave"}
Typed == TypeOK /\ BasesExist /\ CommandWaits

LEMMA Nothing == Blank \in Text /\ NoView \in View /\ NoCommand \in Command
  BY EditorAssumption DEF Blank, Text, NoView, View, NoCommand, Command, Ids

\* A step of a load changes the place it has reached and the base it carries.
Steps == {"resolve", "commits", "draft", "content", "over", "failed"}

LEMMA LoadChanges ==
  ASSUME loads \in Seq(Load), NEW k \in 1 .. Len(loads), NEW pc \in Steps, NEW base \in Ids,
         Reaches(k, pc, base)
  PROVE  /\ loads' \in Seq(Load) /\ Len(loads') = Len(loads)
         /\ loads'[k] = [pc |-> pc, doc |-> loads[k].doc, base |-> base]
         /\ \A j \in 1 .. Len(loads) : j # k => loads'[j] = loads[j]
<1>. DEFINE e == [pc |-> pc, doc |-> loads[k].doc, base |-> base]
<1>1. loads[k] \in Load
  BY ElementOfSeq
<1>2. e \in Load
  BY <1>1 DEF Load, Steps
<1>3. loads' = [loads EXCEPT ![k] = e]
  BY DEF Reaches
<1>. HIDE DEF e
<1>4. /\ loads' \in Seq(Load) /\ Len(loads') = Len(loads)
      /\ \A j \in 1 .. Len(loads) : loads'[j] = IF j = k THEN e ELSE loads[j]
  BY <1>2, <1>3, ExceptSeq
<1>. QED
  BY <1>4 DEF e

LEMMA HeadIdTyped ==
  ASSUME TypeOK, NEW d \in Docs
  PROVE  /\ HeadId(d) \in Ids
         /\ HeadId(d) # None => HeadId(d).doc = d /\ HeadId(d).no = Len(content[d])
<1>1. content[d] \in Seq(Text) /\ Len(content[d]) <= MaxCommits
  BY DEF TypeOK
<1>2. content[d] # <<>> => Len(content[d]) \in 1 .. MaxCommits
  BY <1>1, EmptySeq, EditorAssumption
<1>. QED
  BY <1>2 DEF HeadId, Ids

LEMMA ContentTyped ==
  ASSUME TypeOK, NEW id \in Ids \ {None}, id.no <= Len(content[id.doc])
  PROVE  /\ ContentOf(id) \in Text
         /\ ContentOf(id).doc = content[id.doc][id.no].doc
<1>1. id.doc \in Docs /\ id.no \in 1 .. MaxCommits
  BY DEF Ids
<1>2. content[id.doc] \in Seq(Text)
  BY <1>1 DEF TypeOK
<1>3. content[id.doc][id.no] \in Text
  BY <1>1, <1>2, ElementOfSeq
<1>. QED
  BY <1>1, <1>3 DEF ContentOf, Text

\* Contents only grow, so that a base stays a commit that exists.
LEMMA ContentGrows ==
  ASSUME TypeOK, NEW d \in Docs, NEW text \in Text, Len(content[d]) < MaxCommits,
         content' = [content EXCEPT ![d] = Append(@, text)]
  PROVE  /\ content' \in [Docs -> Seq(Text)]
         /\ \A e \in Docs : Len(content'[e]) <= MaxCommits /\ Len(content[e]) <= Len(content'[e])
         /\ \A e \in Docs : \A no \in 1 .. Len(content'[e]) :
               content'[e][no] = IF e = d /\ no = Len(content[d]) + 1 THEN text ELSE content[e][no]
<1>1. content \in [Docs -> Seq(Text)] /\ \A e \in Docs : Len(content[e]) \in Nat /\ Len(content[e]) <= MaxCommits
  BY DEF TypeOK
<1>2. content'[d] = Append(content[d], text) /\ \A e \in Docs \ {d} : content'[e] = content[e]
  BY <1>1
<1>3. /\ content'[d] \in Seq(Text) /\ Len(content'[d]) = Len(content[d]) + 1
      /\ \A i \in 1 .. Len(content[d]) : content'[d][i] = content[d][i]
      /\ content'[d][Len(content[d]) + 1] = text
  BY <1>1, <1>2, AppendProperties
<1>. QED
  BY <1>1, <1>2, <1>3, EditorAssumption

LEMMA SameBases ==
  ASSUME TypeOK, BasesExist, loads' = loads,
         \A e \in Docs : Len(content[e]) <= Len(content'[e]) /\ Len(content'[e]) \in Nat
  PROVE  BasesExist'
<1>1. \A k \in 1 .. Len(loads) : loads[k].base \in Ids
  <2>. TAKE k \in 1 .. Len(loads)
  <2>1. loads[k] \in Load
    BY ElementOfSeq DEF TypeOK
  <2>. QED
    BY <2>1 DEF Load
<1>2. \A id \in Ids \ {None} : id.doc \in Docs /\ id.no \in Nat
  BY DEF Ids
<1>3. \A e \in Docs : Len(content[e]) \in Nat
  BY DEF TypeOK
<1>. QED
  BY <1>1, <1>2, <1>3 DEF BasesExist

\* What the steps of a load have in common: one load moves on, with a base that
\* is as good as the one it had.
LEMMA LoadsStayTyped ==
  ASSUME TypeOK, BasesExist, content' = content, NEW k \in 1 .. Len(loads),
         NEW pc \in Steps, NEW base \in Ids, Reaches(k, pc, base),
         base # None => base.no <= Len(content[base.doc]),
         pc = "content" => base # None
  PROVE  loads' \in Seq(Load) /\ Len(loads') \in 1 .. MaxLoads /\ BasesExist'
<1>1. loads \in Seq(Load) /\ Len(loads) \in 1 .. MaxLoads
  BY DEF TypeOK
<1>2. /\ loads' \in Seq(Load) /\ Len(loads') = Len(loads)
      /\ loads'[k] = [pc |-> pc, doc |-> loads[k].doc, base |-> base]
      /\ \A j \in 1 .. Len(loads) : j # k => loads'[j] = loads[j]
  BY <1>1, LoadChanges
<1>. QED
  BY <1>1, <1>2 DEF BasesExist

LEMMA InitTyped == Init => Typed
<1>. SUFFICES ASSUME Init PROVE Typed
  OBVIOUS
<1>1. PICK d \in Docs : path = d /\ loads = <<[pc |-> "resolve", doc |-> d, base |-> None]>>
  BY DEF Init
<1>2. loads \in Seq(Load) /\ Len(loads) = 1 /\ loads[1].base = None /\ loads[1].pc = "resolve"
  BY <1>1 DEF Load, Ids
<1>3. TypeOK
  BY <1>1, <1>2, Nothing, EditorAssumption DEF Init, TypeOK, Events
<1>4. BasesExist
  BY <1>2 DEF BasesExist
<1>5. CommandWaits
  BY DEF Init, CommandWaits, NoCommand
<1>. QED
  BY <1>3, <1>4, <1>5 DEF Typed

LEMMA SavesTyped ==
  ASSUME TypeOK
  PROVE  /\ Overtaken \in [Saves -> Save \cup {None}]
         /\ \A s \in Saves : saves[s] # None =>
               /\ saves[s].text \in Text /\ saves[s].doc \in Docs \cup {None}
               /\ saves[s].latest \in BOOLEAN
  BY DEF TypeOK, Overtaken, Save

LEMMA PostTyped ==
  ASSUME TypeOK
  PROVE  Post \in Command /\ Post.save = None /\ Post.pc = "post"
  BY Nothing DEF TypeOK, Post, View, Command, NoCommand

LEMMA ContinueTyped ==
  ASSUME TypeOK, CommandWaits, NEW s \in Saves, NEW refused \in BOOLEAN, Continue(s, refused)
  PROVE  command' \in Command /\ path' \in Docs \cup {None} /\ CommandWaits'
<1>1. CASE command.save # s
  BY <1>1 DEF Continue, TypeOK, CommandWaits
<1>2. CASE command.save = s
  <2>1. command.pc \in {"commit", "leave"}
    BY <1>2, EditorAssumption DEF CommandWaits
  <2>2. CASE command.pc = "commit"
    BY <1>2, <2>2, PostTyped DEF Continue, TypeOK, CommandWaits
  <2>3. CASE command.pc = "leave"
    BY <1>2, <2>3, Nothing DEF Continue, TypeOK, CommandWaits, NoCommand
  <2>. QED
    BY <2>1, <2>2, <2>3
<1>. QED
  BY <1>1, <1>2

LEMMA FlushTyped ==
  ASSUME TypeOK, NEW s \in Saves, flush(s)
  PROVE  /\ pending' \in Text \cup {None} /\ saves' \in [Saves -> Save \cup {None}]
         /\ status' \in {"idle", "dirty", "saving", "saved", "error"} /\ happened' \in SUBSET Events
<1>1. [doc |-> view.doc, text |-> pending, latest |-> TRUE] \in Save
  BY DEF TypeOK, flush, View, Save
<1>. QED
  BY <1>1, SavesTyped DEF flush, Note, Events, TypeOK

LEMMA FailsTyped ==
  ASSUME TypeOK, Fails
  PROVE  faults' \in 0 .. MaxFaults /\ happened' \in SUBSET Events /\ "fault" \in happened'
<1>1. faults \in 0 .. MaxFaults /\ faults < MaxFaults /\ faults' = faults + 1
  BY DEF Fails, TypeOK
<1>2. happened' = happened \cup {"fault"} /\ happened \in SUBSET Events
  BY DEF Fails, Note, TypeOK
<1>3. faults' \in 0 .. MaxFaults
  BY <1>1, EditorAssumption
<1>4. happened' \in SUBSET Events /\ "fault" \in happened'
  BY <1>2 DEF Events
<1>. QED
  BY <1>3, <1>4

LEMMA LoadTyped ==
  ASSUME Typed, NEW k \in 1 .. Len(loads), LoadStep(k)
  PROVE  Typed'
<1>. USE DEF Typed
<1>0. loads[k] \in Load /\ loads \in Seq(Load)
  BY ElementOfSeq DEF TypeOK
<1>1. /\ UNCHANGED <<server, path, autosave, command, edits>>
      /\ view' \in View /\ faults' \in 0 .. MaxFaults /\ happened' \in SUBSET Events
      /\ loads' \in Seq(Load) /\ Len(loads') \in 1 .. MaxLoads /\ BasesExist'
  <2>1. CASE Resolved(k)
    <3>1. loads' \in Seq(Load) /\ Len(loads') \in 1 .. MaxLoads /\ BasesExist'
      BY <2>1, LoadsStayTyped DEF Resolved, Goes, Ends, Steps, Ids, server
    <3>. QED
      BY <2>1, <3>1, <1>0 DEF Resolved, TypeOK, View, Load
  <2>2. CASE CommitsListed(k)
    <3>. DEFINE id == HeadId(loads[k].doc)
    <3>1. id \in Ids /\ (id # None => id.no = Len(content[id.doc]) /\ id.doc \in Docs)
      BY <1>0, HeadIdTyped DEF Load
    <3>2. id # None => id.no <= Len(content[id.doc])
      BY <3>1 DEF Ids
    <3>3. loads' \in Seq(Load) /\ Len(loads') \in 1 .. MaxLoads /\ BasesExist'
      BY <2>2, <3>1, <3>2, LoadsStayTyped DEF CommitsListed, Goes, Ends, Steps, Ids, server
    <3>. QED
      BY <2>2, <3>1, <3>3 DEF CommitsListed, TypeOK, View
  <2>3. CASE DraftRead(k)
    <3>1. loads' \in Seq(Load) /\ Len(loads') \in 1 .. MaxLoads /\ BasesExist'
      BY <2>3, <1>0, LoadsStayTyped DEF DraftRead, Goes, Ends, Steps, Ids, server, BasesExist, Load
    <3>2. loads[k].doc \in Docs
      BY <1>0 DEF Load
    <3>3. [Blank EXCEPT !.doc = loads[k].doc] \in Text
      BY <3>2, Nothing DEF Text
    <3>4. view' \in View
      BY <2>3, <3>2, <3>3 DEF DraftRead, Shows, TypeOK, View
    <3>. QED
      BY <2>3, <3>1, <3>4 DEF DraftRead, TypeOK
  <2>4. CASE ContentRead(k)
    <3>. DEFINE text == ContentOf(loads[k].base)
    <3>1. loads' \in Seq(Load) /\ Len(loads') \in 1 .. MaxLoads /\ BasesExist'
      BY <2>4, LoadsStayTyped DEF ContentRead, Ends, Steps, Ids, server
    <3>2. loads[k].base \in Ids \ {None} /\ loads[k].base.no <= Len(content[loads[k].base.doc])
      BY <2>4, <1>0 DEF ContentRead, BasesExist, Load
    <3>3. text \in Text
      BY <3>2, ContentTyped
    <3>. HIDE DEF text
    <3>4. view' \in View
      BY <2>4, <3>3 DEF ContentRead, Shows, TypeOK, View, text
    <3>5. happened' \in SUBSET Events
      BY <2>4 DEF ContentRead, Note, Events, TypeOK
    <3>. QED
      BY <2>4, <3>1, <3>4, <3>5 DEF ContentRead, TypeOK
  <2>5. CASE LoadFails(k)
    <3>1. loads' \in Seq(Load) /\ Len(loads') \in 1 .. MaxLoads /\ BasesExist'
      BY <2>5, LoadsStayTyped DEF LoadFails, Ends, Steps, Ids, server
    <3>. QED
      BY <2>5, <3>1, FailsTyped DEF LoadFails, TypeOK
  <2>. QED
    BY <2>1, <2>2, <2>3, <2>4, <2>5 DEF LoadStep
<1>. QED
  BY <1>1 DEF TypeOK, CommandWaits, server, autosave

LEMMA SaveTyped ==
  ASSUME Typed, NEW s \in Saves, SaveStep(s)
  PROVE  Typed'
<1>. USE DEF Typed
<1>1. CASE OnTimer(s)
  BY <1>1, FlushTyped DEF OnTimer, TypeOK, BasesExist, CommandWaits, server
<1>2. CASE Saved(s)
  <2>1. saves[s].text \in Text /\ saves[s].doc \in Docs
    BY <1>2, SavesTyped DEF Saved
  <2>2. command' \in Command /\ path' \in Docs \cup {None} /\ CommandWaits'
    BY <1>2, ContinueTyped DEF Saved
  <2>3. draft' \in [Docs -> Text \cup {None}] /\ saves' \in [Saves -> Save \cup {None}]
    BY <1>2, <2>1 DEF Saved, TypeOK
  <2>4. status' \in {"idle", "dirty", "saving", "saved", "error"}
    BY <1>2 DEF Saved, TypeOK
  <2>. QED
    BY <1>2, <2>2, <2>3, <2>4 DEF Saved, TypeOK, BasesExist
<1>3. CASE SaveFails(s)
  <2>1. saves[s].text \in Text /\ saves[s].doc \in Docs \cup {None}
    BY <1>3, SavesTyped DEF SaveFails
  <2>2. command' \in Command /\ path' \in Docs \cup {None} /\ CommandWaits'
    BY <1>3, ContinueTyped DEF SaveFails
  <2>3. draft' \in [Docs -> Text \cup {None}]
    BY <1>3, <2>1 DEF SaveFails, TypeOK
  <2>4. saves' \in [Saves -> Save \cup {None}] /\ pending' \in Text
    BY <1>3, <2>1 DEF SaveFails, TypeOK
  <2>5. faults' \in 0 .. MaxFaults /\ happened' \in SUBSET Events
    BY <1>3, FailsTyped DEF SaveFails, TypeOK
  <2>. QED
    BY <1>3, <2>2, <2>3, <2>4, <2>5 DEF SaveFails, TypeOK, BasesExist
<1>. QED
  BY <1>1, <1>2, <1>3 DEF SaveStep

LEMMA TurnTyped ==
  ASSUME Typed, NEW d \in Docs, LoadDoc(d)
  PROVE  Typed'
<1>. USE DEF Typed
<1>. DEFINE new == [pc |-> "resolve", doc |-> d, base |-> None]
<1>0. new \in Load /\ loads \in Seq(Load) /\ Len(loads) \in 1 .. MaxLoads
  BY DEF Load, Ids, TypeOK
<1>. HIDE DEF new
<1>1. /\ loads' \in Seq(Load) /\ Len(loads') = Len(loads) + 1
      /\ \A i \in 1 .. Len(loads) : loads'[i] = loads[i]
      /\ loads'[Len(loads) + 1] = new
  BY <1>0, AppendProperties DEF LoadDoc, new
<1>2. Len(loads') \in 1 .. MaxLoads
  BY <1>0, <1>1, EditorAssumption DEF LoadDoc
<1>3. BasesExist'
  BY <1>0, <1>1 DEF BasesExist, LoadDoc, server, new
<1>4. view' \in View /\ command' \in Command /\ CommandWaits'
  BY Nothing DEF LoadDoc, TypeOK, CommandWaits, NoCommand
<1>5. pending' = None /\ saves' \in [Saves -> Save \cup {None}] /\ status' = "idle"
  BY SavesTyped DEF LoadDoc, reset
<1>6. happened' \in SUBSET Events
  BY DEF LoadDoc, Note, TypeOK, Events
<1>. QED
  BY <1>1, <1>2, <1>3, <1>4, <1>5, <1>6 DEF LoadDoc, TypeOK, server

LEMMA UserTyped ==
  ASSUME Typed, UserStep
  PROVE  Typed'
<1>. USE DEF Typed
<1>1. ASSUME NEW empty \in BOOLEAN, onEditorChange(empty)
      PROVE  Typed'
  <2>. DEFINE text == [view.shown EXCEPT !.edit = edits + 1, !.empty = empty]
  <2>1. edits + 1 \in 0 .. MaxEdits
    BY <1>1, EditorAssumption DEF onEditorChange, TypeOK
  <2>2. text \in Text
    BY <2>1 DEF TypeOK, View, Text
  <2>. HIDE DEF text
  <2>3. view' \in View
    BY <1>1, <2>2 DEF onEditorChange, TypeOK, View, text
  <2>. QED
    BY <1>1, <2>1, <2>2, <2>3 DEF onEditorChange, TypeOK, BasesExist, CommandWaits, server, text
<1>2. CASE commitAndExit
  <2>1. CASE pending = None
    BY <1>2, <2>1, PostTyped DEF commitAndExit, TypeOK, BasesExist, CommandWaits, server, autosave
  <2>2. CASE pending # None
    <3>1. PICK s \in Saves : flush(s) /\ command' = [NoCommand EXCEPT !.pc = "commit", !.save = s]
      BY <1>2, <2>2 DEF commitAndExit
    <3>2. command' \in Command /\ CommandWaits'
      BY <3>1, Nothing, EditorAssumption DEF Command, NoCommand, CommandWaits
    <3>. QED
      BY <1>2, <3>1, <3>2, FlushTyped DEF commitAndExit, TypeOK, BasesExist, server
  <2>. QED
    BY <2>1, <2>2
<1>3. CASE onBeforeRouteLeave
  <2>1. CASE status \in {"dirty", "saving", "error"} /\ pending # None
    <3>1. PICK s \in Saves : flush(s) /\ command' = [NoCommand EXCEPT !.pc = "leave", !.save = s]
      BY <1>3, <2>1 DEF onBeforeRouteLeave
    <3>2. command' \in Command /\ CommandWaits'
      BY <3>1, Nothing, EditorAssumption DEF Command, NoCommand, CommandWaits
    <3>. QED
      BY <1>3, <2>1, <3>1, <3>2, FlushTyped DEF onBeforeRouteLeave, TypeOK, BasesExist, server
  <2>2. CASE ~ (status \in {"dirty", "saving", "error"} /\ pending # None)
    BY <1>3, <2>2 DEF onBeforeRouteLeave, TypeOK, BasesExist, CommandWaits, server, autosave
  <2>. QED
    BY <2>1, <2>2
<1>4. CASE discardAndExit
  <2>1. command' \in Command /\ CommandWaits'
    BY <1>4, Nothing DEF discardAndExit, TypeOK, View, Command, NoCommand, CommandWaits
  <2>. QED
    BY <1>4, <2>1, SavesTyped DEF discardAndExit, reset, TypeOK, BasesExist, server
<1>. QED
  BY <1>1, <1>2, <1>3, <1>4 DEF UserStep

LEMMA CommitTyped ==
  ASSUME Typed, Committed \/ CommitFails \/ Discarded \/ \E d \in Docs : OtherCommits(d)
  PROVE  Typed'
<1>. USE DEF Typed
<1>0. \A e \in Docs : Len(content[e]) \in Nat /\ Len(content[e]) <= MaxCommits
  BY DEF TypeOK
<1>1. CASE Committed
  <2>1. command.doc \in Docs /\ command.text \in Text /\ Len(content[command.doc]) < MaxCommits
    BY <1>1 DEF Committed, Refused, TypeOK, Command
  <2>2. /\ content' \in [Docs -> Seq(Text)]
        /\ \A e \in Docs : Len(content'[e]) <= MaxCommits /\ Len(content[e]) <= Len(content'[e])
    BY <1>1, <2>1, ContentGrows DEF Committed
  <2>3. BasesExist'
    BY <1>1, <2>2, SameBases DEF Committed
  <2>4. /\ path' \in Docs \cup {None} /\ faults' \in 0 .. MaxFaults
        /\ happened' \in SUBSET Events
    BY <1>1, FailsTyped DEF Committed, TypeOK
  <2>. QED
    BY <1>1, <2>2, <2>3, <2>4, Nothing DEF Committed, TypeOK, CommandWaits, NoCommand, autosave
<1>2. CASE CommitFails
  <2>1. faults' \in 0 .. MaxFaults /\ happened' \in SUBSET Events
    BY <1>2, FailsTyped DEF CommitFails, TypeOK
  <2>. QED
    BY <1>2, <2>1, Nothing DEF CommitFails, TypeOK, BasesExist, CommandWaits, NoCommand, server, autosave
<1>3. CASE Discarded
  <2>1. faults' \in 0 .. MaxFaults /\ happened' \in SUBSET Events
    BY <1>3, FailsTyped DEF Discarded, Note, TypeOK, Events
  <2>2. draft' \in [Docs -> Text \cup {None}]
    BY <1>3 DEF Discarded, TypeOK
  <2>. QED
    BY <1>3, <2>1, <2>2, Nothing DEF Discarded, TypeOK, BasesExist, CommandWaits, NoCommand, autosave
<1>4. ASSUME NEW d \in Docs, OtherCommits(d)
      PROVE  Typed'
  <2>. DEFINE text == [doc |-> d, seen |-> Len(content[d]), edit |-> 0, empty |-> FALSE]
  <2>1. text \in Text /\ Len(content[d]) < MaxCommits
    BY <1>0, <1>4, EditorAssumption DEF OtherCommits, Text
  <2>. HIDE DEF text
  <2>2. content' = [content EXCEPT ![d] = Append(@, text)]
    BY <1>4 DEF OtherCommits, text
  <2>3. /\ content' \in [Docs -> Seq(Text)]
        /\ \A e \in Docs : Len(content'[e]) <= MaxCommits /\ Len(content[e]) <= Len(content'[e])
    BY <2>1, <2>2, ContentGrows
  <2>4. BasesExist'
    BY <1>4, <2>3, SameBases DEF OtherCommits
  <2>. QED
    BY <1>4, <2>3, <2>4 DEF OtherCommits, TypeOK, CommandWaits, autosave
<1>. QED
  BY <1>1, <1>2, <1>3, <1>4

\* TypeOK, with what it needs of the loads and of the command (EditView.vue, useAutosave.ts).
THEOREM TypesHold == Spec => []Typed
<1>1. Typed /\ [Next]_vars => Typed'
  <2>. SUFFICES ASSUME Typed, [Next]_vars PROVE Typed'
    OBVIOUS
  <2>1. CASE UNCHANGED vars
    BY <2>1 DEF Typed, TypeOK, BasesExist, CommandWaits, vars, server, autosave
  <2>2. DOMAIN loads = 1 .. Len(loads)
    BY DEF Typed, TypeOK
  <2>. QED
    BY <2>1, <2>2, LoadTyped, SaveTyped, TurnTyped, UserTyped, CommitTyped DEF Next
<1>. QED
  BY <1>1, InitTyped, PTL DEF Spec

\* TypeOK alone (EditView.vue, useAutosave.ts).
THEOREM TypeHolds == Spec => []TypeOK
<1>1. Typed => TypeOK
  BY DEF Typed
<1>. QED
  BY <1>1, TypesHold, PTL

-----------------------------------------------------------------------------
(* BaseIsOfDocument: only the run of loadDoc that has loadSeq writes docID and *)
(* the base, each of them after the path has been resolved.                    *)

Last == loads[Len(loads)]
Based ==
    /\ \A k \in 1 .. Len(loads) : loads[k].base # None => loads[k].base.doc = loads[k].doc
    /\ Last.pc \in {"commits", "draft", "content"} => view.doc = Last.doc
    /\ view.ready => Last.pc = "over" /\ view.doc = Last.doc
    /\ view.base # None => view.doc = Last.doc /\ view.base.doc = Last.doc
    /\ path # None => path = Last.doc

(* TextsStayHome: a text that waits, travels or is about to be committed is of *)
(* the document beside it, and one that waits is of the document on the page.  *)

Undisturbed == happened \cap {"fault", "late text", "turned"} = {}
AtHome ==
    /\ view.ready => view.markdown.doc = view.doc /\ view.shown.doc = view.doc
    /\ pending # None => view.ready /\ pending.doc = view.doc
    /\ \A s \in Saves : saves[s] # None => saves[s].doc # None /\ saves[s].text.doc = saves[s].doc
    /\ command.pc = "commit" => view.ready
    /\ command.pc = "post" => command.text.doc = command.doc
    /\ \A d \in Docs : /\ draft[d] # None => draft[d].doc = d
                      /\ \A no \in 1 .. Len(content[d]) : content[d][no].doc = d
Homely == Undisturbed => AtHome

(* SavedIsSaved: one request at a time, which carries what the page shows      *)
(* unless something newer waits, and none once the draft is called saved.      *)

Settled ==
    /\ pending # None => view.ready /\ pending = view.markdown
    /\ \A s, t \in Saves : saves[s] # None /\ saves[t] # None => s = t
    /\ \A s \in Saves : saves[s] # None /\ saves[s].latest =>
          view.ready /\ (pending = None => saves[s].doc = view.doc /\ saves[s].text = view.markdown)
    /\ status = "saved" =>
          /\ view.ready
          /\ \A s \in Saves : saves[s] = None
          /\ draft[view.doc] = view.markdown \/ view.markdown.empty
Calm == happened = {} => Settled

LEMMA InitBased == Init => Based
<1>. SUFFICES ASSUME Init PROVE Based
  OBVIOUS
<1>1. PICK d \in Docs : path = d /\ loads = <<[pc |-> "resolve", doc |-> d, base |-> None]>>
  BY DEF Init
<1>2. Len(loads) = 1 /\ loads[1] = [pc |-> "resolve", doc |-> d, base |-> None]
  BY <1>1
<1>. QED
  BY <1>1, <1>2 DEF Init, Based, Last, NoView

\* Most steps leave the loads and what they write alone.
LEMMA BasedKept ==
  ASSUME Based, loads' = loads, path' \in {path, None},
         view'.doc = view.doc, view'.base = view.base, view'.ready = view.ready
  PROVE  Based'
  BY DEF Based, Last

\* A load that moves keeps its document; only the last one moves Last.
LEMMA LoadMoves ==
  ASSUME Typed, Based, NEW k \in 1 .. Len(loads), NEW pc \in Steps, NEW base \in Ids,
         Reaches(k, pc, base), base # None => base.doc = loads[k].doc
  PROVE  /\ \A j \in 1 .. Len(loads') : loads'[j].base # None => loads'[j].base.doc = loads'[j].doc
         /\ Last'.doc = Last.doc
         /\ Current(k) => Last'.pc = pc /\ Last = loads[k]
         /\ ~ Current(k) => Last' = Last
<1>1. loads \in Seq(Load) /\ Len(loads) \in 1 .. MaxLoads
  BY DEF Typed, TypeOK
<1>2. /\ loads' \in Seq(Load) /\ Len(loads') = Len(loads)
      /\ loads'[k] = [pc |-> pc, doc |-> loads[k].doc, base |-> base]
      /\ \A j \in 1 .. Len(loads) : j # k => loads'[j] = loads[j]
  BY <1>1, LoadChanges
<1>. QED
  BY <1>1, <1>2 DEF Based, Last, Current

LEMMA LoadBased ==
  ASSUME Typed, Based, NEW k \in 1 .. Len(loads), LoadStep(k)
  PROVE  Based'
<1>0. loads[k] \in Load /\ view \in View /\ None \in Ids
  BY ElementOfSeq DEF Typed, TypeOK, Ids
<1>1. CASE Resolved(k)
  <2>1. /\ \A j \in 1 .. Len(loads') : loads'[j].base # None => loads'[j].base.doc = loads'[j].doc
        /\ Last'.doc = Last.doc
        /\ Current(k) => Last'.pc = "commits" /\ Last = loads[k]
        /\ ~ Current(k) => Last' = Last
    BY <1>0, <1>1, LoadMoves DEF Resolved, Goes, Ends, Steps
  <2>2. CASE Current(k)
    BY <1>0, <1>1, <2>1, <2>2 DEF Resolved, Based, View
  <2>3. CASE ~ Current(k)
    BY <1>1, <2>1, <2>3 DEF Resolved, Based
  <2>. QED
    BY <2>2, <2>3
<1>2. CASE CommitsListed(k)
  <2>. DEFINE id == HeadId(loads[k].doc)
  <2>0. id \in Ids /\ (id # None => id.doc = loads[k].doc)
    BY <1>0, HeadIdTyped DEF Typed, Load
  <2>1. /\ \A j \in 1 .. Len(loads') : loads'[j].base # None => loads'[j].base.doc = loads'[j].doc
        /\ Last'.doc = Last.doc
        /\ Current(k) => Last'.pc = "draft" /\ Last = loads[k]
        /\ ~ Current(k) => Last' = Last
    BY <1>0, <1>2, <2>0, LoadMoves DEF CommitsListed, Goes, Ends, Steps
  <2>2. CASE Current(k)
    <3>1. view' = [view EXCEPT !.base = id] /\ loads[k].pc = "commits"
      BY <1>2, <2>2 DEF CommitsListed
    <3>. HIDE DEF id
    <3>2. view'.base = id /\ view'.doc = view.doc /\ view'.ready = view.ready
      BY <1>0, <3>1 DEF View
    <3>. QED
      BY <1>2, <2>0, <2>1, <2>2, <3>1, <3>2 DEF CommitsListed, Based
  <2>3. CASE ~ Current(k)
    BY <1>2, <2>1, <2>3 DEF CommitsListed, Based
  <2>. QED
    BY <2>2, <2>3
<1>3. CASE DraftRead(k)
  <2>. DEFINE asks == draft[loads[k].doc] = None /\ loads[k].base # None
  <2>1. PICK pc \in Steps, base \in Ids :
           /\ Reaches(k, pc, base) /\ (base # None => base.doc = loads[k].doc)
           /\ pc = IF asks /\ Current(k) THEN "content" ELSE "over"
    BY <1>0, <1>3 DEF DraftRead, Goes, Ends, Steps, Load, Based
  <2>2. /\ \A j \in 1 .. Len(loads') : loads'[j].base # None => loads'[j].base.doc = loads'[j].doc
        /\ Last'.doc = Last.doc
        /\ Current(k) => Last'.pc = pc /\ Last = loads[k]
        /\ ~ Current(k) => Last' = Last
    BY <2>1, LoadMoves
  <2>3. /\ path' = path /\ loads[k].pc = "draft"
        /\ view'.doc = view.doc /\ view'.base = view.base
        /\ view'.ready = view.ready \/ (Current(k) /\ ~ asks)
    BY <1>0, <1>3 DEF DraftRead, Shows, View
  <2>4. CASE Current(k)
    BY <2>1, <2>2, <2>3, <2>4 DEF Based
  <2>5. CASE ~ Current(k)
    BY <2>2, <2>3, <2>5 DEF Based
  <2>. QED
    BY <2>4, <2>5
<1>4. CASE ContentRead(k)
  <2>1. /\ \A j \in 1 .. Len(loads') : loads'[j].base # None => loads'[j].base.doc = loads'[j].doc
        /\ Last'.doc = Last.doc
        /\ Current(k) => Last'.pc = "over" /\ Last = loads[k]
        /\ ~ Current(k) => Last' = Last
    BY <1>0, <1>4, LoadMoves DEF ContentRead, Ends, Steps
  <2>2. /\ path' = path /\ loads[k].pc = "content"
        /\ view'.doc = view.doc /\ view'.base = view.base
        /\ view'.ready = view.ready \/ Current(k)
    BY <1>0, <1>4 DEF ContentRead, Shows, View
  <2>. QED
    BY <2>1, <2>2 DEF Based
<1>5. CASE LoadFails(k)
  <2>1. /\ \A j \in 1 .. Len(loads') : loads'[j].base # None => loads'[j].base.doc = loads'[j].doc
        /\ Last'.doc = Last.doc
        /\ Current(k) => Last'.pc = "failed" /\ Last = loads[k]
        /\ ~ Current(k) => Last' = Last
    BY <1>0, <1>5, LoadMoves DEF LoadFails, Ends, Steps
  <2>. QED
    BY <1>5, <2>1 DEF LoadFails, Based
<1>. QED
  BY <1>1, <1>2, <1>3, <1>4, <1>5 DEF LoadStep

LEMMA TurnBased ==
  ASSUME Typed, Based, NEW d \in Docs, LoadDoc(d)
  PROVE  Based'
<1>. DEFINE new == [pc |-> "resolve", doc |-> d, base |-> None]
<1>1. new \in Load /\ loads \in Seq(Load) /\ Len(loads) \in 1 .. MaxLoads
  BY DEF Load, Ids, Typed, TypeOK
<1>2. /\ Len(loads') = Len(loads) + 1
      /\ \A i \in 1 .. Len(loads) : loads'[i] = loads[i]
      /\ loads'[Len(loads) + 1] = new
  BY <1>1, AppendProperties DEF LoadDoc
<1>. QED
  BY <1>1, <1>2 DEF LoadDoc, Based, Last, NoView

LEMMA OthersBased ==
  ASSUME Typed, Based,
         \/ \E s \in Saves : SaveStep(s)
         \/ UserStep \/ Committed \/ CommitFails \/ Discarded
         \/ \E d \in Docs : OtherCommits(d)
  PROVE  Based'
<1>0. view \in View
  BY DEF Typed, TypeOK
<1>1. ASSUME NEW s \in Saves, SaveStep(s) PROVE Based'
  <2>1. ASSUME NEW refused \in BOOLEAN, Continue(s, refused) PROVE path' \in {path, None}
    <3>1. CASE command.save # s
      BY <2>1, <3>1 DEF Continue
    <3>2. CASE command.save = s
      <4>1. command.pc \in {"commit", "leave"}
        BY <3>2, EditorAssumption DEF Typed, CommandWaits
      <4>. QED
        BY <2>1, <3>2, <4>1 DEF Continue
    <3>. QED
      BY <3>1, <3>2
  <2>2. UNCHANGED <<view, loads>> /\ path' \in {path, None}
    BY <1>1, <2>1 DEF SaveStep, OnTimer, Saved, SaveFails
  <2>. QED
    BY <2>2, BasedKept
<1>2. CASE UserStep
  <2>1. /\ loads' = loads /\ path' \in {path, None}
        /\ view'.doc = view.doc /\ view'.base = view.base /\ view'.ready = view.ready
    BY <1>0, <1>2 DEF UserStep, onEditorChange, commitAndExit, onBeforeRouteLeave, discardAndExit, View
  <2>. QED
    BY <2>1, BasedKept
<1>3. CASE Committed \/ CommitFails \/ Discarded \/ \E d \in Docs : OtherCommits(d)
  <2>1. UNCHANGED <<view, loads>> /\ path' \in {path, None}
    BY <1>3 DEF Committed, CommitFails, Discarded, OtherCommits
  <2>. QED
    BY <2>1, BasedKept
<1>. QED
  BY <1>1, <1>2, <1>3

LEMMA StepBased ==
  ASSUME Typed, Based, Next
  PROVE  Based'
<1>1. DOMAIN loads = 1 .. Len(loads)
  BY DEF Typed, TypeOK
<1>. QED
  BY <1>1, LoadBased, TurnBased, OthersBased DEF Next

\* However the answers are mixed, the page's base is of its document (EditView.vue 82-93).
THEOREM BasesHold == Spec => []BaseIsOfDocument
<1>1. Typed /\ Based /\ [Next]_vars => Based'
  <2>. SUFFICES ASSUME Typed, Based, [Next]_vars PROVE Based'
    OBVIOUS
  <2>1. CASE UNCHANGED vars
    BY <2>1, BasedKept DEF vars
  <2>. QED
    BY <2>1, StepBased
<1>2. Based => BaseIsOfDocument
  BY DEF Based, BaseIsOfDocument, Editing
<1>. QED
  BY <1>1, <1>2, InitBased, TypesHold, PTL DEF Spec

-----------------------------------------------------------------------------
(* The steps under AtHome and Settled *)

\* A page that is ready shows a document; one that is not has nothing waiting.
LEMMA ReadyShows ==
  ASSUME Typed, Based
  PROVE  view.ready => view.doc \in Docs
<1>1. Len(loads) \in 1 .. Len(loads) /\ loads \in Seq(Load)
  BY DEF Typed, TypeOK
<1>2. Last \in Load
  BY <1>1, ElementOfSeq DEF Last
<1>. QED
  BY <1>2 DEF Based, Load

LEMMA ShowsText ==
  ASSUME Typed, NEW text \in Text
  PROVE  /\ Shows(text).markdown = text /\ Shows(text).shown = text /\ Shows(text).ready
         /\ Shows(text).doc = view.doc
  BY DEF Typed, TypeOK, View, Shows

\* What an answer of a load can do to the page, unless it comes late or fails:
\* move its document while it is not ready, or make it ready with a text of it.
LEMMA LoadShows ==
  ASSUME Typed, Based, Homely, NEW k \in 1 .. Len(loads), LoadStep(k), Undisturbed'
  PROVE  /\ UNCHANGED <<server, path, autosave, command, happened>>
         /\ \/ view'.ready = view.ready /\ view'.markdown = view.markdown
                /\ view'.shown = view.shown /\ (view.ready => view'.doc = view.doc)
            \/ /\ ~ view.ready /\ view'.ready
               /\ view'.markdown.doc = view'.doc /\ view'.shown.doc = view'.doc
<1>0. loads[k] \in Load /\ view \in View /\ (Current(k) => Last = loads[k])
  BY ElementOfSeq DEF Typed, TypeOK, Current, Last
<1>1. CASE Resolved(k)
  BY <1>0, <1>1 DEF Resolved, Based, View
<1>2. CASE CommitsListed(k)
  <2>. DEFINE id == HeadId(loads[k].doc)
  <2>1. view' = IF Current(k) THEN [view EXCEPT !.base = id] ELSE view
    BY <1>2 DEF CommitsListed
  <2>. HIDE DEF id
  <2>2. /\ view'.ready = view.ready /\ view'.markdown = view.markdown
        /\ view'.shown = view.shown /\ view'.doc = view.doc
    BY <1>0, <2>1 DEF View
  <2>. QED
    BY <1>2, <2>2 DEF CommitsListed
<1>3. CASE DraftRead(k)
  <2>. DEFINE d == loads[k].doc
              text == IF draft[d] # None THEN draft[d] ELSE [Blank EXCEPT !.doc = d]
  <2>1. UNCHANGED <<server, path, autosave, command, happened>> /\ loads[k].pc = "draft"
    BY <1>3 DEF DraftRead
  <2>2. CASE view' = view
    BY <2>1, <2>2
  <2>3. CASE view' # view
    <3>1. Current(k) /\ view' = Shows(text)
      BY <1>3, <2>3 DEF DraftRead
    <3>2. d \in Docs
      BY <1>0 DEF Load
    <3>3. AtHome
      BY <2>1 DEF Homely, Undisturbed
    <3>4. text \in Text /\ text.doc = d
      BY <3>2, <3>3, Nothing DEF Typed, TypeOK, Text, AtHome, Blank
    <3>5. ~ view.ready /\ view.doc = d
      BY <1>0, <2>1, <3>1 DEF Based
    <3>. HIDE DEF text, d
    <3>. QED
      BY <2>1, <3>1, <3>4, <3>5, ShowsText
  <2>. QED
    BY <2>2, <2>3
<1>4. CASE ContentRead(k)
  <2>. DEFINE text == ContentOf(loads[k].base)
  <2>1. Current(k) /\ happened' = happened
    BY <1>4 DEF ContentRead, Note, Undisturbed
  <2>2. UNCHANGED <<server, path, autosave, command>> /\ loads[k].pc = "content" /\ view' = Shows(text)
    BY <1>4, <2>1 DEF ContentRead
  <2>3. AtHome
    BY <2>1 DEF Homely, Undisturbed
  <2>4. /\ loads[k].base \in Ids \ {None} /\ loads[k].base.no <= Len(content[loads[k].base.doc])
        /\ loads[k].base.doc = loads[k].doc
    BY <1>0, <2>2 DEF Typed, BasesExist, Based, Load
  <2>5. loads[k].base.doc \in Docs /\ loads[k].base.no \in 1 .. Len(content[loads[k].base.doc])
    BY <2>4 DEF Ids, Typed, TypeOK
  <2>6. text \in Text /\ text.doc = loads[k].doc
    BY <2>3, <2>4, <2>5, ContentTyped DEF Typed, AtHome
  <2>7. ~ view.ready /\ view.doc = loads[k].doc
    BY <1>0, <2>1, <2>2 DEF Based
  <2>. HIDE DEF text
  <2>. QED
    BY <2>1, <2>2, <2>6, <2>7, ShowsText
<1>5. CASE LoadFails(k)
  BY <1>5, FailsTyped DEF LoadFails, Undisturbed, Typed
<1>. QED
  BY <1>1, <1>2, <1>3, <1>4, <1>5 DEF LoadStep

LEMMA LoadKeeps ==
  ASSUME Typed, Based, Homely, Calm, NEW k \in 1 .. Len(loads), LoadStep(k)
  PROVE  Homely' /\ Calm'
<1>1. CASE Undisturbed'
  <2>1. /\ UNCHANGED <<server, path, autosave, command, happened>>
        /\ \/ view'.ready = view.ready /\ view'.markdown = view.markdown
               /\ view'.shown = view.shown /\ (view.ready => view'.doc = view.doc)
           \/ /\ ~ view.ready /\ view'.ready
              /\ view'.markdown.doc = view'.doc /\ view'.shown.doc = view'.doc
    BY <1>1, LoadShows
  <2>2. AtHome
    BY <1>1, <2>1 DEF Homely, Undisturbed
  <2>3. AtHome'
    BY <2>1, <2>2 DEF AtHome, server, autosave
  <2>4. happened = {} => Settled
    BY DEF Calm
  <2>5. Settled => Settled'
    BY <2>1 DEF Settled, server, autosave
  <2>. QED
    BY <2>1, <2>3, <2>4, <2>5 DEF Homely, Calm
<1>2. CASE ~ Undisturbed'
  BY <1>2 DEF Homely, Calm, Undisturbed
<1>. QED
  BY <1>1, <1>2

LEMMA TurnKeeps ==
  ASSUME Typed, Homely, Calm, NEW d \in Docs, LoadDoc(d)
  PROVE  Homely' /\ Calm'
<1>1. /\ view' = NoView /\ pending' = None /\ status' = "idle" /\ UNCHANGED server
      /\ saves' = Overtaken /\ happened \subseteq happened'
      /\ "turned" \notin happened' => command'.pc \notin {"commit", "post"}
  BY DEF LoadDoc, reset, Note, NoCommand
<1>2. /\ \A s \in Saves : saves'[s] # None =>
           saves[s] # None /\ saves'[s].doc = saves[s].doc /\ saves'[s].text = saves[s].text
             /\ ~ saves'[s].latest
      /\ ~ view'.ready
  BY <1>1, EditorAssumption DEF Overtaken, Typed, TypeOK, Save, NoView
<1>3. AtHome /\ "turned" \notin happened' => AtHome'
  BY <1>1, <1>2 DEF AtHome, server
<1>4. Settled => Settled'
  BY <1>1, <1>2 DEF Settled, server
<1>. QED
  BY <1>1, <1>3, <1>4 DEF Homely, Calm, Undisturbed

\* A flush sends what waits to the document of the page; alone, unless it crosses another.
LEMMA FlushSends ==
  ASSUME Typed, Based, NEW s \in Saves, flush(s)
  PROVE  /\ saves'[s].doc = view.doc /\ saves'[s].text = pending
         /\ \A t \in Saves \ {s} : saves'[t] # None =>
               saves[t] # None /\ saves'[t].doc = saves[t].doc /\ saves'[t].text = saves[t].text
         /\ happened' = {} => happened = {} /\ \A t \in Saves \ {s} : saves'[t] = None
         /\ happened \subseteq happened'
<1>. DEFINE e == [doc |-> view.doc, text |-> pending, latest |-> TRUE]
<1>1. e \in Save
  BY DEF Typed, TypeOK, flush, View, Save
<1>2. saves' = [Overtaken EXCEPT ![s] = e] /\ Overtaken \in [Saves -> Save \cup {None}]
  BY SavesTyped DEF flush, Typed
<1>3. saves'[s] = e /\ \A t \in Saves \ {s} : saves'[t] = Overtaken[t]
  BY <1>2
<1>4. \A t \in Saves \ {s} : saves'[t] # None =>
         saves[t] # None /\ saves'[t].doc = saves[t].doc /\ saves'[t].text = saves[t].text
  BY <1>3 DEF Overtaken, Typed, TypeOK, Save
<1>5. happened' = IF InFlight # {} THEN happened \cup {"crossed saves"} ELSE happened
  BY DEF flush, Note
<1>6. happened' = {} => \A t \in Saves : saves[t] = None
  BY <1>5 DEF InFlight
<1>7. \A t \in Saves \ {s} : saves[t] = None => saves'[t] = None
  BY <1>3 DEF Overtaken
<1>8. saves'[s].doc = view.doc /\ saves'[s].text = pending
  BY <1>3
<1>9. happened' = {} => happened = {} /\ \A t \in Saves \ {s} : saves'[t] = None
  BY <1>5, <1>6, <1>7
<1>. HIDE DEF e
<1>. QED
  BY <1>4, <1>5, <1>8, <1>9

\* A request is made only by a page that is ready, with a text of its document.
LEMMA FlushKeeps ==
  ASSUME Typed, Based, Homely, Calm, NEW s \in Saves, flush(s),
         UNCHANGED <<server, view>>, command'.pc = "commit" => view.ready,
         command'.pc = "post" => command' = command
  PROVE  Homely' /\ Calm'
<1>1. /\ saves'[s].doc = view.doc /\ saves'[s].text = pending
      /\ \A t \in Saves \ {s} : saves'[t] # None =>
            saves[t] # None /\ saves'[t].doc = saves[t].doc /\ saves'[t].text = saves[t].text
      /\ happened' = {} => happened = {} /\ \A t \in Saves \ {s} : saves'[t] = None
      /\ happened \subseteq happened'
  BY FlushSends
<1>2. pending # None /\ pending' = None /\ status' = "saving"
  BY DEF flush
<1>3. Undisturbed' => AtHome'
  <2>. SUFFICES ASSUME Undisturbed' PROVE AtHome'
    OBVIOUS
  <2>1. AtHome
    BY <1>1 DEF Homely, Undisturbed
  <2>2. view.ready /\ view.doc \in Docs /\ pending.doc = view.doc
    BY <1>2, <2>1, ReadyShows DEF AtHome
  <2>3. \A t \in Saves : saves'[t] # None => saves'[t].doc # None /\ saves'[t].text.doc = saves'[t].doc
    BY <1>1, <2>1, <2>2, EditorAssumption DEF AtHome
  <2>. QED
    BY <1>2, <2>1, <2>2, <2>3 DEF AtHome, server
<1>4. happened' = {} => Settled'
  <2>. SUFFICES ASSUME happened' = {} PROVE Settled'
    OBVIOUS
  <2>1. Settled
    BY <1>1 DEF Calm
  <2>. QED
    BY <1>1, <1>2, <2>1 DEF Settled
<1>. QED
  BY <1>3, <1>4 DEF Homely, Calm

\* A command goes on with a text and a document of one page, or with none.
LEMMA ContinueHomely ==
  ASSUME Typed, AtHome, NEW s \in Saves, NEW refused \in BOOLEAN, Continue(s, refused)
  PROVE  /\ command'.pc = "commit" => view.ready
         /\ command'.pc = "post" => command'.text.doc = command'.doc
<1>1. CASE command.save # s
  BY <1>1 DEF Continue, AtHome
<1>2. CASE command.save = s
  <2>1. command.pc \in {"commit", "leave"}
    BY <1>2, EditorAssumption DEF Typed, CommandWaits
  <2>2. CASE command.pc = "commit"
    BY <1>2, <2>2 DEF Continue, Post, NoCommand, AtHome
  <2>3. CASE command.pc = "leave"
    BY <1>2, <2>3 DEF Continue, NoCommand
  <2>. QED
    BY <2>1, <2>2, <2>3
<1>. QED
  BY <1>1, <1>2

LEMMA SaveKeeps ==
  ASSUME Typed, Based, Homely, Calm, NEW s \in Saves, SaveStep(s)
  PROVE  Homely' /\ Calm'
<1>1. CASE OnTimer(s)
  <2>1. command' = command /\ UNCHANGED <<server, view>> /\ flush(s)
    BY <1>1 DEF OnTimer
  <2>2. CASE AtHome
    BY <2>1, <2>2, FlushKeeps DEF AtHome
  <2>3. CASE ~ AtHome
    BY <2>1, <2>3, FlushSends DEF Homely, Calm, Undisturbed
  <2>. QED
    BY <2>2, <2>3
<1>2. CASE Saved(s)
  <2>1. /\ saves[s] # None /\ saves[s].doc \in Docs
        /\ draft' = [draft EXCEPT ![saves[s].doc] = saves[s].text]
        /\ saves' = [saves EXCEPT ![s] = None]
        /\ status' = IF saves[s].latest /\ (pending = None \/ pending.empty) THEN "saved" ELSE status
        /\ UNCHANGED <<content, view, pending, happened>>
    BY <1>2, SavesTyped DEF Saved, Typed
  <2>2. saves \in [Saves -> Save \cup {None}] /\ draft \in [Docs -> Text \cup {None}]
    BY DEF Typed, TypeOK
  <2>3. AtHome => AtHome'
    <3>. SUFFICES ASSUME AtHome PROVE AtHome'
      OBVIOUS
    <3>1. /\ command'.pc = "commit" => view.ready
          /\ command'.pc = "post" => command'.text.doc = command'.doc
      BY <1>2, ContinueHomely DEF Saved
    <3>2. \A d \in Docs : draft'[d] # None => draft'[d].doc = d
      BY <2>1, <2>2 DEF AtHome
    <3>3. \A t \in Saves : saves'[t] # None => saves'[t] = saves[t]
      BY <2>1, <2>2
    <3>. QED
      BY <2>1, <3>1, <3>2, <3>3 DEF AtHome
  <2>4. Settled => Settled'
    <3>. SUFFICES ASSUME Settled PROVE Settled'
      OBVIOUS
    <3>1. \A t \in Saves : saves'[t] = None
      BY <2>1, <2>2 DEF Settled
    <3>2. status # "saved"
      BY <2>1 DEF Settled
    <3>3. status' = "saved" => saves[s].latest /\ (pending = None \/ pending.empty)
      BY <2>1, <3>2
    <3>4. status' = "saved" => view.ready /\ view.doc \in Docs
      BY <2>1, <3>3, ReadyShows DEF Settled
    <3>5. status' = "saved" => draft'[view.doc] = view.markdown \/ view.markdown.empty
      BY <2>1, <2>2, <3>3, <3>4 DEF Settled
    <3>. QED
      BY <2>1, <3>1, <3>4, <3>5 DEF Settled
  <2>. QED
    BY <2>1, <2>3, <2>4 DEF Homely, Calm, Undisturbed
<1>3. CASE SaveFails(s)
  <2>1. CASE saves[s].doc = None
    <3>1. happened' = happened /\ saves[s] # None
      BY <1>3, <2>1 DEF SaveFails
    <3>2. ~ AtHome
      BY <2>1, <3>1 DEF AtHome
    <3>. QED
      BY <3>1, <3>2 DEF Homely, Calm, Undisturbed
  <2>2. CASE saves[s].doc # None
    <3>1. "fault" \in happened'
      BY <1>3, <2>2, FailsTyped DEF SaveFails, Typed
    <3>. QED
      BY <3>1 DEF Homely, Calm, Undisturbed
  <2>. QED
    BY <2>1, <2>2
<1>. QED
  BY <1>1, <1>2, <1>3 DEF SaveStep

LEMMA UserKeeps ==
  ASSUME Typed, Based, Homely, Calm, UserStep
  PROVE  Homely' /\ Calm'
<1>0. view \in View /\ saves \in [Saves -> Save \cup {None}]
  BY DEF Typed, TypeOK
<1>1. ASSUME NEW empty \in BOOLEAN, onEditorChange(empty)
      PROVE  Homely' /\ Calm'
  <2>. DEFINE text == [view.shown EXCEPT !.edit = edits + 1, !.empty = empty]
  <2>0. view.shown \in Text /\ edits + 1 \in 0 .. MaxEdits
    BY <1>0, <1>1, EditorAssumption DEF View, onEditorChange, Typed, TypeOK
  <2>1. text \in Text /\ text.doc = view.shown.doc
    BY <2>0 DEF Text
  <2>2. /\ view' = [view EXCEPT !.markdown = text, !.shown = text] /\ view.ready
        /\ pending' = text /\ status' = "dirty"
        /\ UNCHANGED <<server, saves, command, happened>>
    BY <1>1 DEF onEditorChange, Editing
  <2>. HIDE DEF text
  <2>3. text.doc = view.shown.doc
    BY <2>1
  <2>4. view'.markdown = text /\ view'.shown = text /\ view'.ready /\ view'.doc = view.doc
    BY <1>0, <2>2 DEF View
  <2>5. AtHome => AtHome'
    BY <2>2, <2>3, <2>4 DEF AtHome, server
  <2>6. Settled => Settled'
    <3>. SUFFICES ASSUME Settled PROVE Settled'
      OBVIOUS
    <3>1. pending' # None
      BY <2>1, <2>2, NoneIsNoText
    <3>. QED
      BY <2>2, <2>4, <3>1 DEF Settled
  <2>. QED
    BY <2>2, <2>5, <2>6 DEF Homely, Calm, Undisturbed
<1>2. CASE commitAndExit
  <2>1. CASE pending = None
    <3>1. /\ UNCHANGED <<server, autosave, view, happened>> /\ view.ready
          /\ command'.pc = "post" /\ command'.doc = view.doc /\ command'.text = view.markdown
      BY <1>2, <2>1 DEF commitAndExit, Editing, Post, NoCommand
    <3>2. AtHome => AtHome'
      BY <3>1 DEF AtHome, server, autosave
    <3>3. Settled => Settled'
      BY <3>1 DEF Settled, server, autosave
    <3>. QED
      BY <3>1, <3>2, <3>3 DEF Homely, Calm, Undisturbed
  <2>2. CASE pending # None
    <3>1. PICK s \in Saves : flush(s) /\ command' = [NoCommand EXCEPT !.pc = "commit", !.save = s]
      BY <1>2, <2>2 DEF commitAndExit
    <3>2. UNCHANGED <<server, view>> /\ view.ready /\ command'.pc # "post"
      BY <1>2, <3>1 DEF commitAndExit, Editing, NoCommand
    <3>. QED
      BY <3>1, <3>2, FlushKeeps
  <2>. QED
    BY <2>1, <2>2
<1>3. CASE onBeforeRouteLeave
  <2>1. CASE status \in {"dirty", "saving", "error"} /\ pending # None
    <3>1. PICK s \in Saves : flush(s) /\ command' = [NoCommand EXCEPT !.pc = "leave", !.save = s]
      BY <1>3, <2>1 DEF onBeforeRouteLeave
    <3>2. UNCHANGED <<server, view>> /\ command'.pc \notin {"commit", "post"}
      BY <1>3, <3>1 DEF onBeforeRouteLeave, NoCommand
    <3>. QED
      BY <3>1, <3>2, FlushKeeps
  <2>2. CASE ~ (status \in {"dirty", "saving", "error"} /\ pending # None)
    <3>1. UNCHANGED <<server, autosave, view, command, happened>>
      BY <1>3, <2>2 DEF onBeforeRouteLeave
    <3>. QED
      BY <3>1 DEF Homely, Calm, Undisturbed, AtHome, Settled, server, autosave
  <2>. QED
    BY <2>1, <2>2
<1>4. CASE discardAndExit
  <2>1. /\ UNCHANGED <<server, view, happened>> /\ pending' = None /\ status' = "idle"
        /\ saves' = Overtaken /\ command'.pc = "delete"
    BY <1>4 DEF discardAndExit, reset, NoCommand
  <2>2. \A s \in Saves : saves'[s] # None =>
          saves[s] # None /\ saves'[s].doc = saves[s].doc /\ saves'[s].text = saves[s].text
            /\ ~ saves'[s].latest
    BY <1>0, <2>1 DEF Overtaken, Save
  <2>3. AtHome => AtHome'
    BY <2>1, <2>2 DEF AtHome, server
  <2>4. Settled => Settled'
    BY <2>1, <2>2 DEF Settled, server
  <2>. QED
    BY <2>1, <2>3, <2>4 DEF Homely, Calm, Undisturbed
<1>. QED
  BY <1>1, <1>2, <1>3, <1>4 DEF UserStep

LEMMA CommitKeeps ==
  ASSUME Typed, Homely, Calm, Committed \/ CommitFails \/ Discarded \/ \E d \in Docs : OtherCommits(d)
  PROVE  Homely' /\ Calm'
<1>0. \A e \in Docs : Len(content[e]) \in Nat
  BY DEF Typed, TypeOK
<1>1. CASE Committed
  <2>. DEFINE d == command.doc
  <2>1. d \in Docs /\ command.text \in Text /\ Len(content[d]) < MaxCommits
    BY <1>1 DEF Committed, Refused, Typed, TypeOK, Command
  <2>2. \A e \in Docs : \A no \in 1 .. Len(content'[e]) :
           content'[e][no] = IF e = d /\ no = Len(content[d]) + 1 THEN command.text ELSE content[e][no]
    BY <1>1, <2>1, ContentGrows DEF Committed, Typed
  <2>3. \A e \in Docs : Len(content'[e]) = IF e = d THEN Len(content[e]) + 1 ELSE Len(content[e])
    BY <1>1, <2>1, AppendProperties DEF Committed, Typed, TypeOK
  <2>4. /\ UNCHANGED <<draft, view, autosave>> /\ command' = NoCommand /\ command.pc = "post"
        /\ happened' = happened \/ "fault" \in happened'
    BY <1>1, FailsTyped DEF Committed, Typed
  <2>. HIDE DEF d
  <2>5. AtHome => AtHome'
    <3>. SUFFICES ASSUME AtHome PROVE AtHome'
      OBVIOUS
    <3>1. command.text.doc = d
      BY <2>4 DEF AtHome, d
    <3>2. \A e \in Docs : \A no \in 1 .. Len(content'[e]) : content'[e][no].doc = e
      <4>. TAKE e \in Docs
      <4>. TAKE no \in 1 .. Len(content'[e])
      <4>1. CASE e = d /\ no = Len(content[d]) + 1
        BY <2>2, <3>1, <4>1
      <4>2. CASE ~ (e = d /\ no = Len(content[d]) + 1)
        <5>1. no \in 1 .. Len(content[e])
          BY <1>0, <2>3, <4>2
        <5>. QED
          BY <2>2, <4>2, <5>1 DEF AtHome
      <4>. QED
        BY <4>1, <4>2
    <3>. QED
      BY <2>4, <3>2 DEF AtHome, autosave, NoCommand
  <2>6. Settled => Settled'
    BY <2>4 DEF Settled, autosave
  <2>. QED
    BY <2>4, <2>5, <2>6 DEF Homely, Calm, Undisturbed
<1>2. CASE CommitFails
  <2>1. /\ UNCHANGED <<server, view, autosave>> /\ command'.pc = "none"
        /\ happened' = happened \/ "fault" \in happened'
    BY <1>2, FailsTyped DEF CommitFails, Typed, NoCommand
  <2>2. AtHome => AtHome'
    BY <2>1 DEF AtHome, autosave, server
  <2>3. Settled => Settled'
    BY <2>1 DEF Settled, autosave, server
  <2>. QED
    BY <2>1, <2>2, <2>3 DEF Homely, Calm, Undisturbed
<1>3. CASE Discarded
  <2>1. CASE draft' = draft
    <3>1. /\ UNCHANGED <<server, view, autosave>> /\ command'.pc = "none"
          /\ happened \subseteq happened' /\ happened' # {}
      BY <1>3, <2>1, FailsTyped DEF Discarded, Typed, NoCommand, server, Note, Fails
    <3>2. AtHome => AtHome'
      BY <3>1 DEF AtHome, autosave, server
    <3>. QED
      BY <3>1, <3>2 DEF Homely, Calm, Undisturbed
  <2>2. CASE draft' # draft
    <3>1. /\ UNCHANGED <<content, view, autosave>> /\ command'.pc = "none"
          /\ draft' = [draft EXCEPT ![command.doc] = None]
          /\ happened' = happened \cup {"discarded"}
      BY <1>3, <2>2 DEF Discarded, NoCommand, Note
    <3>2. \A d \in Docs : draft'[d] # None => draft'[d] = draft[d]
      BY <3>1 DEF Typed, TypeOK
    <3>3. AtHome => AtHome'
      BY <3>1, <3>2 DEF AtHome, autosave
    <3>. QED
      BY <3>1, <3>3 DEF Homely, Calm, Undisturbed
  <2>. QED
    BY <2>1, <2>2
<1>4. ASSUME NEW d \in Docs, OtherCommits(d)
      PROVE  Homely' /\ Calm'
  <2>. DEFINE text == [doc |-> d, seen |-> Len(content[d]), edit |-> 0, empty |-> FALSE]
  <2>1. text \in Text /\ Len(content[d]) < MaxCommits /\ text.doc = d
    BY <1>0, <1>4, EditorAssumption DEF OtherCommits, Text
  <2>2. content' = [content EXCEPT ![d] = Append(@, text)] /\ UNCHANGED <<draft, view, autosave, command, happened>>
    BY <1>4 DEF OtherCommits
  <2>. HIDE DEF text
  <2>3. \A e \in Docs : \A no \in 1 .. Len(content'[e]) :
           content'[e][no] = IF e = d /\ no = Len(content[d]) + 1 THEN text ELSE content[e][no]
    BY <2>1, <2>2, ContentGrows DEF Typed
  <2>4. \A e \in Docs : Len(content'[e]) = IF e = d THEN Len(content[e]) + 1 ELSE Len(content[e])
    BY <2>1, <2>2, AppendProperties DEF Typed, TypeOK
  <2>5. AtHome => AtHome'
    BY <1>0, <2>1, <2>2, <2>3, <2>4 DEF AtHome, autosave
  <2>6. Settled => Settled'
    BY <2>2 DEF Settled, autosave
  <2>. QED
    BY <2>2, <2>5, <2>6 DEF Homely, Calm, Undisturbed
<1>. QED
  BY <1>1, <1>2, <1>3, <1>4

\* The whole invariant, which each of the two properties needs a part of.
Kept == Typed /\ Based /\ Homely /\ Calm

LEMMA InitKept == Init => Kept
<1>. SUFFICES ASSUME Init PROVE Kept
  OBVIOUS
<1>1. AtHome
  <2>1. \A d \in Docs : content[d] = <<>> /\ draft[d] = None
    BY DEF Init
  <2>. QED
    BY <2>1 DEF Init, AtHome, NoView, NoCommand
<1>2. Settled
  BY DEF Init, Settled
<1>. QED
  BY <1>1, <1>2, InitTyped, InitBased DEF Kept, Homely, Calm

LEMMA StepKept == Kept /\ [Next]_vars => Kept'
<1>. SUFFICES ASSUME Kept, [Next]_vars PROVE Kept'
  OBVIOUS
<1>1. CASE UNCHANGED vars
  <2>1. Typed'
    BY <1>1 DEF Kept, Typed, TypeOK, BasesExist, CommandWaits, vars, server, autosave
  <2>2. Based'
    BY <1>1, BasedKept DEF Kept, vars
  <2>3. AtHome' <=> AtHome
    BY <1>1 DEF AtHome, vars, server, autosave
  <2>4. Settled' <=> Settled
    BY <1>1 DEF Settled, vars, server, autosave
  <2>. QED
    BY <1>1, <2>1, <2>2, <2>3, <2>4 DEF Kept, Homely, Undisturbed, Calm, vars
<1>2. CASE Next
  <2>1. DOMAIN loads = 1 .. Len(loads)
    BY DEF Kept, Typed, TypeOK
  <2>2. Typed'
    BY <1>2, <2>1, LoadTyped, SaveTyped, TurnTyped, UserTyped, CommitTyped DEF Next, Kept
  <2>3. Based'
    BY <1>2, StepBased DEF Kept
  <2>4. Homely' /\ Calm'
    BY <1>2, <2>1, LoadKeeps, SaveKeeps, TurnKeeps, UserKeeps, CommitKeeps DEF Next, Kept
  <2>. QED
    BY <2>2, <2>3, <2>4 DEF Kept
<1>. QED
  BY <1>1, <1>2

\* A text is saved and committed only where it was written (useAutosave.ts 60-67).
THEOREM TextsHold == Spec => []TextsStayHome
<1>1. Kept => TextsStayHome
  BY DEF Kept, Homely, Undisturbed, AtHome, TextsStayHome
<1>. QED
  BY <1>1, InitKept, StepKept, PTL DEF Spec

\* What the page calls saved is the draft (useAutosave.ts:40).
THEOREM SavedHolds == Spec => []SavedIsSaved
<1>1. Kept => SavedIsSaved
  BY DEF Kept, Based, Calm, Settled, SavedIsSaved, Editing
<1>. QED
  BY <1>1, InitKept, StepKept, PTL DEF Spec
=============================================================================
