--------------------------- MODULE MarkdownImport ---------------------------
(***************************************************************************)
(* The import of a zip of Markdown files under a root document of its own, *)
(* beside users who edit and trash what has been imported so far.          *)
(*                                                                         *)
(* A document's id is its place in "docs", the root's is 1; a text is the  *)
(* entry it came from.  Each call of the document service is split where   *)
(* another request can get between what it reads and what it writes; what  *)
(* users do is one step each.  Trimming and purging are in DocVersions and *)
(* DocTree: a document purged under the import refuses its texts, as a     *)
(* failing call does.                                                      *)
(***************************************************************************)
EXTENDS Naturals, Sequences, FiniteSets

CONSTANTS
    Names,      \* stems of files and names of directories in a zip
    Slug,       \* the slug made of a name; AutoSlug if nothing is left of it
    Zips,       \* the files that may be sent: see ZipFile
    MaxFaults,  \* how many calls fail for a reason of their own
    MaxActs     \* how often users get between

AutoSlug == ""      \* the server makes up a slug that is free
Kinds == {"page", "readme", "asset"}
Entry == [dir : Seq(Names), stem : Names, kind : Kinds]
ZipFile == [entries : Seq(Entry), illegal : Nat]

ASSUME ZipsAssumption ==
    /\ Slug \in [Names -> STRING]
    /\ Zips \subseteq ZipFile
    /\ MaxFaults \in Nat /\ MaxActs \in Nat

VARIABLES
    zip,        \* the file that was sent: pages in the order of their names, then assets
    pc,         \* where the goroutine is
    n,          \* the entry at hand
    doc,        \* the document its text goes to, or 0
    no,         \* the number its commit is to have
    docs,       \* the documents made: see Document
    created,    \* path in the zip -> document: directories and stems
    readmes,    \* directories whose README has been taken
    uploads,    \* attachments made: entries
    imported,   \* entries that went in
    failed,     \* entries that did not
    err,        \* what run returns: whether it had an error
    job,        \* the row of import_jobs
    faults,     \* calls that failed for a reason of their own
    acts,       \* what users have done
    stuck,      \* history: the root could not be trashed in the rollback
    lost        \* history: the last counts or the end could not be written to the job

vars == <<zip, pc, n, doc, no, docs, created, readmes, uploads, imported, failed, err, job, faults, acts, stuck, lost>>
counts == <<imported, failed>>
marks == <<stuck, lost>>
run == <<zip, n, doc, no, created, readmes, uploads, counts, err, marks>>

\* A text that is no entry's: a user's.
Foreign == Len(zip.entries) + 1

Path(e) == Append(e.dir, e.stem)
Cur == zip.entries[n]
RootId == 1
Ids == DOMAIN docs
Alive(d) == d \in Ids /\ docs[d].alive

\* "above" are the documents above it, the root first, the parent last: nothing is
\* moved here.  "texts" is the history of its versions, the HEAD last.  A document is
\* adrift if it was inserted below one that had gone to the bin, or below such a one.
Slugs == {Slug[x] : x \in Names} \cup {AutoSlug}
Document == [above : Seq(Nat), slug : Slugs, alive : BOOLEAN, texts : Seq(Nat), adrift : BOOLEAN]
Parent(d) == IF docs[d].above = <<>> THEN 0 ELSE docs[d].above[Len(docs[d].above)]
Root == [above |-> <<>>, slug |-> AutoSlug, alive |-> TRUE, texts |-> <<>>, adrift |-> FALSE]
NewDoc(parent, slug) ==
    [above |-> Append(docs[parent].above, parent), slug |-> slug, alive |-> TRUE, texts |-> <<>>,
     adrift |-> ~ docs[parent].alive \/ docs[parent].adrift]
Insert(parent, slug) == docs' = Append(docs, NewDoc(parent, slug))
Write(d, text) == docs' = [docs EXCEPT ![d].texts = Append(@, text)]

\* The unique index, and what FindBySlug finds.
At(parent, slug) == {d \in Ids : docs[d].alive /\ Parent(d) = parent /\ docs[d].slug = slug}
Taken(parent, slug) == slug # AutoSlug /\ At(parent, slug) # {}
WithSlug(parent, slug) == CHOOSE d \in At(parent, slug) : TRUE
Register(path, d) == [p \in DOMAIN created \cup {path} |-> IF p = path THEN d ELSE created[p]]

Fault == faults < MaxFaults /\ faults' = faults + 1
NoFault == UNCHANGED faults

\* UpdateImportProgress and FinishImport: one that fails is made good by those at the end.
Progress == job' = [job EXCEPT !.imported = imported', !.failed = failed']
Finish(status) == job' = [job EXCEPT !.status = status]

Init ==
    /\ zip \in Zips
    /\ pc = "open" /\ n = 1 /\ doc = 0 /\ no = 0
    /\ docs = <<>> /\ created = <<>> /\ readmes = {} /\ uploads = {}
    /\ imported = 0 /\ failed = 0 /\ err = FALSE
    /\ job = [status |-> "pending", imported |-> 0, failed |-> 0]
    /\ faults = 0 /\ acts = 0 /\ stuck = FALSE /\ lost = FALSE

-----------------------------------------------------------------------------
\* A file that is no zip is the one error that run returns.
Unreadable ==
    /\ pc = "open" /\ Fault
    /\ pc' = "return" /\ err' = TRUE
    /\ UNCHANGED <<zip, n, doc, no, docs, created, readmes, uploads, counts, job, marks>>

\* Entries with an illegal path count as failed and are left out.
Open ==
    /\ pc = "open" /\ NoFault
    /\ failed' = zip.illegal /\ UNCHANGED imported /\ Progress
    /\ pc' = IF zip.entries = <<>> THEN "empty" ELSE "root"
    /\ UNCHANGED <<zip, n, doc, no, docs, created, readmes, uploads, err, marks>>

NothingToImport ==
    /\ pc = "empty" /\ NoFault
    /\ Finish("failed") /\ pc' = "return"
    /\ UNCHANGED <<run, docs>>

CreateRoot ==
    /\ pc = "root"
    /\ \/ /\ NoFault
          /\ docs' = <<Root>> /\ created' = Register(<<>>, RootId)
          /\ pc' = "dir" /\ UNCHANGED job
       \/ /\ Fault
          /\ Finish("failed") /\ pc' = "return"
          /\ UNCHANGED <<docs, created>>
    /\ UNCHANGED <<zip, n, doc, no, readmes, uploads, counts, err, marks>>

-----------------------------------------------------------------------------
(* The directory of an entry *)

\* The first part of a path that has no document yet.
Missing(path) ==
    LET k == CHOOSE i \in 1 .. Len(path) :
                 /\ SubSeq(path, 1, i) \notin DOMAIN created
                 /\ \A j \in 1 .. i - 1 : SubSeq(path, 1, j) \in DOMAIN created
    IN  SubSeq(path, 1, k)
Outer(path) == SubSeq(path, 1, Len(path) - 1)

\* An asset whose stem is a page goes to that page, whatever its directory.
HasContainer == Cur.dir \in DOMAIN created \/ (Cur.kind = "asset" /\ Path(Cur) \in DOMAIN created)

Found == pc = "dir" /\ HasContainer /\ pc' = "write" /\ NoFault /\ UNCHANGED <<run, docs, job>>

\* ensureDirNode: the directory to make, the document above it and its slug.
NewDir == Missing(Cur.dir)
DirParent == created[Outer(NewDir)]
DirSlug == Slug[NewDir[Len(NewDir)]]

\* Any error but a conflict ends the whole import.
GiveUp == pc' = "rollback" /\ UNCHANGED <<created, docs>>

\* The directory above must be alive.
EnsureDir ==
    /\ pc = "dir" /\ ~ HasContainer
    /\ \/ /\ Alive(DirParent) /\ NoFault
          /\ pc' = "mkdir" /\ UNCHANGED <<created, docs>>
       \/ /\ IF Alive(DirParent) THEN Fault ELSE NoFault
          /\ GiveUp
    /\ UNCHANGED <<zip, n, doc, no, readmes, uploads, counts, err, job, marks>>

\* Mutant: a directory goes below the root, not below the one above it.
MakeDirFlat ==
    /\ pc = "mkdir"
    /\ \/ /\ Taken(RootId, DirSlug) /\ NoFault
          /\ pc' = "lookup" /\ UNCHANGED <<created, docs>>
       \/ /\ ~ Taken(RootId, DirSlug) /\ NoFault
          /\ Insert(RootId, DirSlug) /\ created' = Register(NewDir, Len(docs) + 1)
          /\ pc' = "dir"
       \/ Fault /\ GiveUp
    /\ UNCHANGED <<zip, n, doc, no, readmes, uploads, counts, err, job, marks>>

\* A slug that is taken is a conflict; that the directory above has gone to the bin
\* by now is none.
MakeDir ==
    /\ pc = "mkdir"
    /\ \/ /\ Taken(DirParent, DirSlug) /\ NoFault
          /\ pc' = "lookup" /\ UNCHANGED <<created, docs>>
       \/ /\ ~ Taken(DirParent, DirSlug) /\ NoFault
          /\ Insert(DirParent, DirSlug) /\ created' = Register(NewDir, Len(docs) + 1)
          /\ pc' = "dir"
       \/ Fault /\ GiveUp
    /\ UNCHANGED <<zip, n, doc, no, readmes, uploads, counts, err, job, marks>>

\* FindBySlug: a name taken in the directory above is a directory already.
FindDir ==
    /\ pc = "lookup"
    /\ \/ /\ Taken(DirParent, DirSlug) /\ NoFault
          /\ created' = Register(NewDir, WithSlug(DirParent, DirSlug))
          /\ pc' = "dir" /\ UNCHANGED docs
       \/ /\ IF Taken(DirParent, DirSlug) THEN Fault ELSE NoFault
          /\ GiveUp
    /\ UNCHANGED <<zip, n, doc, no, readmes, uploads, counts, err, job, marks>>

-----------------------------------------------------------------------------
(* The entry itself *)

Advance == n' = n + 1 /\ doc' = 0 /\ no' = 0 /\ pc' = IF n = Len(zip.entries) THEN "end" ELSE "dir"
CountImported == imported' = imported + 1 /\ UNCHANGED failed /\ Progress /\ Advance
CountFailed == failed' = failed + 1 /\ UNCHANGED imported /\ Progress /\ Advance
Fails == CountFailed /\ UNCHANGED <<docs, created, readmes, uploads>>
Goes(place) == pc' = place /\ UNCHANGED <<n, counts, job, created, readmes, uploads>>

\* The document that the page goes below must be alive.
CreatePage ==
    /\ pc = "write" /\ Cur.kind = "page"
    /\ \/ Alive(created[Cur.dir]) /\ NoFault /\ Goes("insert") /\ UNCHANGED <<doc, no, docs>>
       \/ (IF Alive(created[Cur.dir]) THEN Fault ELSE NoFault) /\ Fails
    /\ UNCHANGED <<zip, err, marks>>

\* Mutant: the error of the creation is not looked at.
InsertPageUnchecked ==
    LET free == ~ Taken(created[Cur.dir], Slug[Cur.stem]) IN
    /\ pc = "insert" /\ Goes("commit") /\ UNCHANGED no
    /\ \/ free /\ NoFault /\ Insert(created[Cur.dir], Slug[Cur.stem]) /\ doc' = Len(docs) + 1
       \/ (IF free THEN Fault ELSE NoFault) /\ UNCHANGED <<docs, doc>>
    /\ UNCHANGED <<zip, err, marks>>

\* A slug that is taken is a failure: what is there is not touched.
InsertPage ==
    LET free == ~ Taken(created[Cur.dir], Slug[Cur.stem]) IN
    /\ pc = "insert"
    /\ \/ /\ free /\ NoFault
          /\ Insert(created[Cur.dir], Slug[Cur.stem]) /\ doc' = Len(docs) + 1
          /\ Goes("commit") /\ UNCHANGED no
       \/ (IF free THEN Fault ELSE NoFault) /\ Fails
    /\ UNCHANGED <<zip, err, marks>>

\* A directory's first README that can be committed is its document's text.
TakeReadme ==
    /\ pc = "write" /\ Cur.kind = "readme" /\ NoFault
    /\ IF Cur.dir \in readmes
       THEN Fails
       ELSE doc' = created[Cur.dir] /\ Goes("commit") /\ UNCHANGED <<no, docs>>
    /\ UNCHANGED <<zip, err, marks>>

\* Mutant: a base is not compared with the HEAD.
AnyBase(d) == Alive(d)

\* With no base there must be no HEAD.
Committable(d) == Alive(d) /\ docs[d].texts = <<>>

\* Commit, until the text is stored.
Commit ==
    /\ pc = "commit"
    /\ \/ Committable(doc) /\ NoFault /\ Goes("number") /\ UNCHANGED <<doc, no, docs>>
       \/ (IF Committable(doc) THEN Fault ELSE NoFault) /\ Fails
    /\ UNCHANGED <<zip, err, marks>>

\* nextCommitNo: whatever has become of the document and its HEAD.
TakeNumber ==
    /\ pc = "number"
    /\ \/ /\ NoFault /\ no' = Len(docs[doc].texts) + 1
          /\ Goes("append") /\ UNCHANGED <<doc, docs>>
       \/ Fault /\ Fails
    /\ UNCHANGED <<zip, err, marks>>

\* Mutant: what could not be committed counts as imported all the same.
AppendTextCounted ==
    /\ pc = "append"
    /\ \/ no > Len(docs[doc].texts) /\ NoFault /\ Write(doc, n) /\ created' = Register(Path(Cur), doc)
       \/ (IF no > Len(docs[doc].texts) THEN Fault ELSE NoFault) /\ UNCHANGED <<docs, created>>
    /\ CountImported
    /\ UNCHANGED <<zip, readmes, uploads, err, marks>>

\* AppendCommit: the number must be free; the document may be in the bin by now.
AppendText ==
    /\ pc = "append"
    /\ \/ /\ no > Len(docs[doc].texts) /\ NoFault
          /\ Write(doc, n) /\ created' = Register(Path(Cur), doc)
          /\ readmes' = IF Cur.kind = "readme" THEN readmes \cup {Cur.dir} ELSE readmes
          /\ CountImported /\ UNCHANGED uploads
       \/ (IF no > Len(docs[doc].texts) THEN Fault ELSE NoFault) /\ Fails
    /\ UNCHANGED <<zip, err, marks>>

Upload ==
    LET target == created[IF Path(Cur) \in DOMAIN created THEN Path(Cur) ELSE Cur.dir] IN
    /\ pc = "write" /\ Cur.kind = "asset"
    /\ \/ /\ Alive(target) /\ NoFault
          /\ uploads' = uploads \cup {n} /\ CountImported /\ UNCHANGED <<docs, created, readmes>>
       \/ (IF Alive(target) THEN Fault ELSE NoFault) /\ Fails
    /\ UNCHANGED <<zip, err, marks>>

-----------------------------------------------------------------------------
(* The end *)

\* Mutant: an import is kept unless the directories failed.
KeepAnyway ==
    /\ pc = "end" /\ NoFault
    /\ Finish("done") /\ pc' = "return"
    /\ UNCHANGED <<run, docs>>

Complete ==
    /\ pc = "end" /\ NoFault
    /\ IF imported = 0 /\ failed > 0
       THEN pc' = "rollback" /\ UNCHANGED job
       ELSE Finish("done") /\ pc' = "return"
    /\ UNCHANGED <<run, docs>>

\* A document and what is alive below it by way of what is alive: the recursive query.
Subtree(d) ==
    {x \in Ids :
        /\ docs[x].alive
        /\ LET above == docs[x].above IN
           x = d \/ \E k \in DOMAIN above : above[k] = d /\ \A j \in k .. Len(above) : docs[above[j]].alive}
Trash(d) == docs' = [x \in Ids |-> IF x \in Subtree(d) THEN [docs[x] EXCEPT !.alive = FALSE] ELSE docs[x]]

\* An error of the trash is not looked at, be it only that a user has done it.
Rollback ==
    /\ pc = "rollback"
    /\ \/ NoFault /\ Trash(RootId) /\ UNCHANGED stuck
       \/ Fault /\ stuck' = TRUE /\ UNCHANGED docs
    /\ Finish("failed") /\ pc' = "return"
    /\ UNCHANGED <<zip, n, doc, no, created, readmes, uploads, counts, err, lost>>

\* StartMarkdownImport writes the counts once more, and then the end of the job; it
\* looks at no error.
WriteCounts ==
    /\ pc = "return" /\ pc' = "finish"
    /\ \/ NoFault /\ job' = [job EXCEPT !.imported = imported, !.failed = failed] /\ UNCHANGED lost
       \/ Fault /\ lost' = TRUE /\ UNCHANGED job
    /\ UNCHANGED <<zip, n, doc, no, docs, created, readmes, uploads, counts, err, stuck>>

WriteEnd ==
    /\ pc = "finish" /\ pc' = "over"
    /\ \/ NoFault /\ Finish(IF err THEN "failed" ELSE "done") /\ UNCHANGED lost
       \/ Fault /\ lost' = TRUE /\ UNCHANGED job
    /\ UNCHANGED <<zip, n, doc, no, docs, created, readmes, uploads, counts, err, stuck>>

-----------------------------------------------------------------------------
(* Everybody else *)

Act == acts < MaxActs /\ acts' = acts + 1

CreateDocument(parent, slug) ==
    /\ Alive(parent) /\ ~ Taken(parent, slug)
    /\ Insert(parent, slug)
    /\ Act /\ UNCHANGED <<run, pc, job, faults>>

TrashDocument(d) ==
    /\ Alive(d) /\ Trash(d)
    /\ Act /\ UNCHANGED <<run, pc, job, faults>>

\* A user commits on the HEAD that is there, none or the import's.
WriteDocument(d) ==
    /\ Alive(d)
    /\ Write(d, Foreign)
    /\ Act /\ UNCHANGED <<run, pc, job, faults>>

\* The process ends; nothing takes the import up again.
Crash ==
    /\ pc \notin {"over", "dead"} /\ pc' = "dead"
    /\ UNCHANGED <<run, docs, job, faults, acts>>

Step ==
    \/ Unreadable \/ Open \/ NothingToImport \/ CreateRoot
    \/ Found \/ EnsureDir \/ MakeDir \/ FindDir
    \/ CreatePage \/ InsertPage \/ TakeReadme \/ Commit \/ TakeNumber \/ AppendText \/ Upload
    \/ Complete \/ Rollback \/ WriteCounts \/ WriteEnd

Next ==
    \/ Step /\ UNCHANGED acts
    \/ \E d \in Ids : TrashDocument(d) \/ WriteDocument(d)
    \/ \E d \in Ids, s \in Slugs : CreateDocument(d, s)
    \/ Crash

Spec == Init /\ [][Next]_vars

-----------------------------------------------------------------------------
Places == {"open", "empty", "root", "dir", "mkdir", "lookup", "write", "insert", "commit", "number", "append",
           "end", "rollback", "return", "finish", "over", "dead"}

TypeOK ==
    /\ n \in 1 .. Len(zip.entries) + 1
    /\ pc \in Places
    /\ docs \in Seq(Document)
    /\ \A d \in Ids : Parent(d) \in 0 .. d - 1
    /\ \A p \in DOMAIN created : created[p] \in Ids
    /\ doc \in Ids \cup {0} /\ (pc \in {"commit", "number", "append"} => doc # 0) /\ no \in Nat
    /\ uploads \subseteq 1 .. Len(zip.entries)
    /\ imported \in Nat /\ failed \in Nat
    /\ err \in BOOLEAN /\ stuck \in BOOLEAN /\ lost \in BOOLEAN
    /\ job \in [status : {"pending", "done", "failed"}, imported : Nat, failed : Nat]
    /\ faults \in 0 .. MaxFaults /\ acts \in 0 .. MaxActs

Holds(d, e) == \E i \in DOMAIN docs[d].texts : docs[d].texts[i] = e
WentIn == {e \in 1 .. Len(zip.entries) : \E d \in Ids : Holds(d, e)}

\* The job's counts say what is there (mdimport.go 65-68 and 211-279): what counts as
\* imported is what has become a version or an attachment, in the row as well, unless
\* its last write failed; when the last entry has been dealt with, each entry and each
\* illegal one has been counted once.
CountsAreTrue ==
    /\ imported = Cardinality(WentIn) + Cardinality(uploads)
    /\ pc = "end" => imported + failed = Len(zip.entries) + zip.illegal
    /\ pc = "over" /\ ~ lost => job.imported = imported /\ job.failed = failed

\* An import of which nothing went in leaves nothing behind but the bin
\* (mdimport.go 281-284), unless the bin refused it, and except for what was inserted
\* under a directory that a user had put there since it was checked (service.go:177).
NothingLeftOfNothing ==
    pc = "over" /\ imported = 0 /\ failed > 0 /\ ~ stuck =>
        \A d \in Ids : docs[d].alive => docs[d].adrift

\* A document is where a path says: below the root, one slug for each name.
Placed(path, d) ==
    LET line == Append(docs[d].above, d) IN
    /\ Len(line) = Len(path) + 1
    /\ \A i \in 1 .. Len(path) : docs[line[i + 1]].slug = Slug[path[i]]

\* A README's stem stands for the directory it is in (mdimport.go:237), also as the
\* name of a directory.
Plain(path) ==
    \A e \in DOMAIN zip.entries, i \in 1 .. Len(path) :
        zip.entries[e].kind = "readme" => SubSeq(path, 1, i) # Path(zip.entries[e])

\* The path that an entry's text belongs to: a README's is its directory.
Own(e) == IF zip.entries[e].kind = "readme" THEN zip.entries[e].dir ELSE Path(zip.entries[e])

\* Every entry has a place of its own, whatever names make the same slug, whatever
\* users make, write and trash meanwhile (mdimport.go 172-254): its text is in one
\* document, which has no other entry's, below the documents that its path names.
EntriesHaveTheirPlace ==
    \A d \in Ids, e \in 1 .. Len(zip.entries) : Holds(d, e) =>
        /\ Plain(Own(e)) => Placed(Own(e), d)
        /\ \A x \in Ids, f \in 1 .. Len(zip.entries) : Holds(x, f) => (x = d <=> f = e)

\* The import never writes over what is there (mdimport.go:84).  It does, when a
\* user's first commit comes between its own comparison and its own number.
NothingIsOverwritten ==
    [][\A d \in Ids : pc = "append" /\ docs[d].texts # <<>> =>
          docs'[d].texts \in {docs[d].texts, Append(docs[d].texts, Foreign)}]_vars

\* An import of which nothing went in leaves no document alive (mdimport.go:85),
\* unless the bin refused it.
NothingLeftAtAll ==
    pc = "over" /\ imported = 0 /\ failed > 0 /\ ~ stuck => \A d \in Ids : ~ docs[d].alive

\* A job ends as failed when its import was refused or rolled back
\* (doc/02 section 11, mdimport.go 137, 149 and 169).
JobTellsOutcome ==
    pc = "over" /\ imported = 0 /\ (failed > 0 \/ zip.entries = <<>>) /\ ~ lost => job.status = "failed"
=============================================================================
