------------------------------- MODULE Backup -------------------------------
(***************************************************************************)
(* The two stores of Element Wiki, database and attachment directory, with *)
(* what writes to both: uploads, deletions, the export of a backup and its *)
(* import.                                                                 *)
(*                                                                         *)
(* Of the database there are the documents with their parents, in the      *)
(* order of their rows, and the rows of attachments; of a document tree's  *)
(* operations there is what they leave (DocTree has their steps).  A file  *)
(* is its path and the upload whose bytes it has.                          *)
(***************************************************************************)
EXTENDS Integers, FiniteSets

CONSTANTS
    MaxDocs,    \* how many documents are ever created
    Atts,       \* ids of attachments, each uploaded at most once
    Names,      \* "<second>-<file name>", the name an upload gets in its document's directory
    Exports,    \* ids of export jobs
    Imports,    \* ids of import jobs
    None        \* no file, no id

NoBytes == "no bytes"   \* what an archive has of a file that was gone when it was to be read

ASSUME BackupAssumption ==
    /\ MaxDocs \in Nat
    /\ Exports \cap Imports = {}
    /\ {None, NoBytes} \cap Atts = {} /\ None \notin Names /\ None # NoBytes

Docs == 1 .. MaxDocs    \* a document's id is its place among the rows
Root == 0               \* the parent of a document at the top
NoRow == -1

\* An upload is a file upload-* at the top of the directory, then one in the
\* directory of its document.
Temp(a) == [doc |-> Root, name |-> a]
Temps == {Temp(a) : a \in Atts}
Finals == [doc : Docs, name : Names]
Paths == Temps \cup Finals
NoPath == [doc |-> Root, name |-> None]

Files == [Paths -> Atts \cup {None, NoBytes}]
NoFiles == [p \in Paths |-> None]
Database == [parent : [Docs -> Docs \cup {Root, NoRow}], rows : [Atts -> Finals \cup {NoPath}]]
Empty == [parent |-> [d \in Docs |-> NoRow], rows |-> [a \in Atts |-> NoPath]]

VARIABLES
    db,         \* documents and attachments
    files,      \* the attachment directory
    there,      \* whether that directory exists
    old,        \* the directory beside it with the suffix .pre-import
    kept,       \* whether that one exists
    made,       \* documents created so far
    work,       \* uploads and deletions under way
    jobs,       \* backup_jobs: status
    exports,    \* what an export has gathered
    imports,    \* what an import is about
    crashed,    \* the process has ended once
    upset       \* history: something happened after which rows and files may differ

data == <<db, made>>
disk == <<files, there, old, kept>>
tasks == <<jobs, exports, imports>>
vars == <<data, disk, work, tasks, crashed, upset>>

Statuses == {"none", "pending", "running", "done", "failed", "gone"}
Work == [pc : {"new", "temp", "placed", "rest", "unlink"}, path : Finals \cup {NoPath}]
Export == [pc : {"idle", "begin", "snapshot", "list", "walk", "ready", "failed", "deleted"},
           db : Database, files : Files, dirs : SUBSET Docs, todo : SUBSET Paths, torn : BOOLEAN]
Fits == {"ok", "manifest", "schema"}
Import == [pc : {"idle", "stage", "swapout", "swapin", "replace", "cleanup", "finish", "over"},
           db : Database, files : Files, torn : BOOLEAN,
           fit : Fits, swapped : BOOLEAN, failed : BOOLEAN]

NoExport == [pc |-> "idle", db |-> Empty, files |-> NoFiles, dirs |-> {}, todo |-> {}, torn |-> FALSE]
NoImport == [pc |-> "idle", db |-> Empty, files |-> NoFiles, torn |-> FALSE,
             fit |-> "ok", swapped |-> FALSE, failed |-> FALSE]

Init ==
    /\ db = Empty /\ made = {}
    /\ files = NoFiles /\ there = TRUE /\ old = NoFiles /\ kept = FALSE
    /\ work = [a \in Atts |-> [pc |-> "new", path |-> NoPath]]
    /\ jobs = [j \in Exports \cup Imports |-> "none"]
    /\ exports = [e \in Exports |-> NoExport]
    /\ imports = [i \in Imports |-> NoImport]
    /\ crashed = FALSE /\ upset = FALSE

HasRow(d) == db.parent[d] # NoRow
Present(fs) == {p \in Paths : fs[p] # None}
Whole(base, fs) == \A a \in Atts : base.rows[a] # NoPath => fs[base.rows[a]] = a

Importing == \E i \in Imports : imports[i].pc \in {"swapout", "swapin", "replace", "cleanup"}
Upset(if) == upset' = (upset \/ if)

\* The archives that are being written after their snapshot no longer match it.
Torn(if) == [e \in Exports |->
               IF if /\ exports[e].pc \in {"list", "walk"} THEN [exports[e] EXCEPT !.torn = TRUE]
                                                           ELSE exports[e]]

-----------------------------------------------------------------------------
(* Documents *)

CreateDocument(d, p) ==
    /\ made = 1 .. d - 1 /\ (p # Root => HasRow(p))
    /\ made' = made \cup {d}
    /\ db' = [db EXCEPT !.parent[d] = p]
    /\ UNCHANGED <<disk, work, tasks, crashed, upset>>

\* A document and those it is below.
Line(x) ==
    LET line[n \in 0 .. MaxDocs] ==
            IF n = 0 THEN {x} ELSE line[n - 1] \cup {db.parent[y] : y \in line[n - 1] \cap Docs}
    IN  line[MaxDocs]

Move(d, p) ==
    /\ HasRow(d) /\ db.parent[d] # p
    /\ p # Root => HasRow(p) /\ d \notin Line(p)
    /\ db' = [db EXCEPT !.parent[d] = p]
    /\ UNCHANGED <<made, disk, work, tasks, crashed, upset>>

\* The rows of the attachments go with their documents; the files stay.
Purge(d) ==
    LET dead == {x \in Docs : d \in Line(x)} IN
    /\ HasRow(d)
    /\ db' = [parent |-> [x \in Docs |-> IF x \in dead THEN NoRow ELSE db.parent[x]],
              rows |-> [a \in Atts |-> IF db.rows[a].doc \in dead THEN NoPath ELSE db.rows[a]]]
    /\ UNCHANGED <<made, disk, work, tasks, crashed, upset>>

-----------------------------------------------------------------------------
(* Attachments *)

\* Two uploads of one name to one document in the same second share a path.
Shared(path) == files[path] # None \/ \E b \in Atts : path \in {work[b].path, db.rows[b]}

\* Mutant: the row comes first and the file when it is ready.
BeginUploadWithRow(a, d, n) ==
    /\ work[a].pc = "new" /\ HasRow(d) /\ there
    /\ work' = [work EXCEPT ![a] = [pc |-> "temp", path |-> [doc |-> d, name |-> n]]]
    /\ files' = [files EXCEPT ![Temp(a)] = a]
    /\ db' = [db EXCEPT !.rows[a] = [doc |-> d, name |-> n]]
    /\ Upset(Importing \/ Shared([doc |-> d, name |-> n]))
    /\ UNCHANGED <<made, there, old, kept, tasks, crashed>>

\* The document is there, and the bytes are in a temporary file.
BeginUpload(a, d, n) ==
    /\ work[a].pc = "new" /\ HasRow(d) /\ there
    /\ work' = [work EXCEPT ![a] = [pc |-> "temp", path |-> [doc |-> d, name |-> n]]]
    /\ files' = [files EXCEPT ![Temp(a)] = a]
    /\ Upset(Importing \/ Shared([doc |-> d, name |-> n]))
    /\ UNCHANGED <<data, there, old, kept, tasks, crashed>>

\* The file is too large, or its transfer breaks off.
GiveUp(a) ==
    /\ work[a].pc = "temp"
    /\ work' = [work EXCEPT ![a] = [pc |-> "rest", path |-> NoPath]]
    /\ files' = [files EXCEPT ![Temp(a)] = None]
    /\ UNCHANGED <<data, there, old, kept, tasks, crashed, upset>>

\* The document's directory is made, with the one it is in, and the file is
\* renamed over whatever has its name.
Place(a) ==
    LET path == work[a].path IN
    /\ work[a].pc = "temp"
    /\ there' = TRUE
    /\ IF files[Temp(a)] = None
       THEN /\ work' = [work EXCEPT ![a] = [pc |-> "rest", path |-> NoPath]]
            /\ UNCHANGED <<files, exports, upset>>
       ELSE /\ work' = [work EXCEPT ![a].pc = "placed"]
            /\ files' = [files EXCEPT ![Temp(a)] = None, ![path] = files[Temp(a)]]
            /\ exports' = Torn(files[path] # None)
            /\ Upset(Importing)
    /\ UNCHANGED <<data, old, kept, jobs, imports, crashed>>

\* The foreign key refuses a row for a document that was purged meanwhile, and
\* the statement may fail otherwise (a cancelled request, the disk); then the
\* file at the path goes, whoever put it there.
CreateAttachment(a) ==
    LET path == work[a].path IN
    /\ work[a].pc = "placed"
    /\ work' = [work EXCEPT ![a] = [pc |-> "rest", path |-> NoPath]]
    /\ \/ /\ HasRow(path.doc)
          /\ db' = [db EXCEPT !.rows[a] = path]
          /\ exports' = Torn(FALSE)
          /\ UNCHANGED files
       \/ /\ files' = [files EXCEPT ![path] = None]
          /\ exports' = Torn(TRUE)
          /\ UNCHANGED db
    /\ Upset(Importing)
    /\ UNCHANGED <<made, there, old, kept, jobs, imports, crashed>>

\* The row goes first, then its file.
DeleteAttachment(a) ==
    /\ work[a].pc = "rest" /\ db.rows[a] # NoPath
    /\ work' = [work EXCEPT ![a] = [pc |-> "unlink", path |-> db.rows[a]]]
    /\ db' = [db EXCEPT !.rows[a] = NoPath]
    /\ Upset(Importing)
    /\ UNCHANGED <<made, disk, tasks, crashed>>

Unlink(a) ==
    /\ work[a].pc = "unlink"
    /\ work' = [work EXCEPT ![a] = [pc |-> "rest", path |-> NoPath]]
    /\ files' = [files EXCEPT ![work[a].path] = None]
    /\ exports' = Torn(TRUE)
    /\ Upset(Importing)
    /\ UNCHANGED <<data, there, old, kept, jobs, imports, crashed>>

-----------------------------------------------------------------------------
(* Export *)

StartExport(e) ==
    /\ jobs[e] = "none"
    /\ jobs' = [jobs EXCEPT ![e] = "pending"]
    /\ exports' = [exports EXCEPT ![e].pc = "begin"]
    /\ UNCHANGED <<data, disk, work, imports, crashed, upset>>

\* Mutant: a word of the code's own for a job that is done.
MarkReady(j, status) ==
    jobs' = IF jobs[j] = "gone" THEN jobs
            ELSE [jobs EXCEPT ![j] = IF status = "done" THEN "ready" ELSE status]

\* A job's row that an import has deleted is written no more.
Mark(j, status) == jobs' = IF jobs[j] = "gone" THEN jobs ELSE [jobs EXCEPT ![j] = status]

BeginExport(e) ==
    /\ exports[e].pc = "begin"
    /\ Mark(e, "running")
    /\ exports' = [exports EXCEPT ![e].pc = "snapshot"]
    /\ UNCHANGED <<data, disk, work, imports, crashed, upset>>

\* VACUUM INTO, or its failure.
Snapshot(e) ==
    /\ exports[e].pc = "snapshot"
    /\ \/ /\ exports' = [exports EXCEPT ![e].pc = "list", ![e].db = db, ![e].torn = ~ Whole(db, files)]
          /\ UNCHANGED jobs
       \/ /\ exports' = [exports EXCEPT ![e].pc = "failed"]
          /\ Mark(e, "failed")
    /\ UNCHANGED <<data, disk, work, imports, crashed, upset>>

\* WalkDir reads the names in a directory and then opens the files one by one.
ListRoot(e) ==
    /\ exports[e].pc = "list"
    /\ exports' = [exports EXCEPT ![e].pc = "walk",
                                  ![e].dirs = {p.doc : p \in Present(files) \ Temps},
                                  ![e].todo = Present(files) \cap Temps]
    /\ UNCHANGED <<data, disk, work, jobs, imports, crashed, upset>>

ListDirectory(e, d) ==
    /\ exports[e].pc = "walk" /\ d \in exports[e].dirs
    /\ exports' = [exports EXCEPT ![e].dirs = @ \ {d},
                                  ![e].todo = @ \cup {p \in Present(files) : p.doc = d}]
    /\ UNCHANGED <<data, disk, work, jobs, imports, crashed, upset>>

\* The archive gets an entry and then the bytes.  A file that is no longer there
\* ends the walk, and nobody looks at its error.
AddFile(e, p) ==
    /\ exports[e].pc = "walk" /\ p \in exports[e].todo
    /\ exports' = IF files[p] = None
                  THEN [exports EXCEPT ![e].dirs = {}, ![e].todo = {}, ![e].files[p] = NoBytes,
                                       ![e].torn = TRUE]
                  ELSE [exports EXCEPT ![e].todo = @ \ {p}, ![e].files[p] = files[p]]
    /\ UNCHANGED <<data, disk, work, jobs, imports, crashed, upset>>

WalkIsOver(e) == exports[e].pc = "walk" /\ exports[e].dirs = {} /\ exports[e].todo = {}

\* Mutant: the database is copied after the files.
FinishWithNewSnapshot(e) ==
    /\ WalkIsOver(e)
    /\ exports' = [exports EXCEPT ![e].pc = "ready", ![e].db = db]
    /\ Mark(e, "done")
    /\ UNCHANGED <<data, disk, work, imports, crashed, upset>>

FinishExport(e) ==
    /\ WalkIsOver(e)
    /\ exports' = [exports EXCEPT ![e].pc = "ready"]
    /\ Mark(e, "done")
    /\ UNCHANGED <<data, disk, work, imports, crashed, upset>>

DeleteBackupFile(e) ==
    /\ exports[e].pc \in {"ready", "failed"}
    /\ exports' = [exports EXCEPT ![e] = [NoExport EXCEPT !.pc = "deleted"]]
    /\ UNCHANGED <<data, disk, work, jobs, imports, crashed, upset>>

-----------------------------------------------------------------------------
(* Import *)

\* The archive of an export is uploaded as it is, or spoilt: without a usable
\* manifest, or with a database that lacks a table or a column.
StartImport(i, e, fit) ==
    /\ jobs[i] = "none" /\ exports[e].pc = "ready"
    /\ jobs' = [jobs EXCEPT ![i] = "pending"]
    /\ imports' = [imports EXCEPT ![i] = [NoImport EXCEPT !.pc = "stage", !.fit = fit,
                      !.db = exports[e].db, !.files = exports[e].files, !.torn = exports[e].torn]]
    /\ UNCHANGED <<data, disk, work, exports, crashed, upset>>

Goes(i, pc, failed) == imports' = [imports EXCEPT ![i].pc = pc, ![i].failed = failed]

Stage(i) ==
    /\ imports[i].pc = "stage"
    /\ IF imports[i].fit = "manifest"
       THEN Goes(i, "finish", TRUE) /\ UNCHANGED upset
       ELSE /\ Goes(i, "swapout", FALSE)
            /\ Upset(Importing \/ \E a \in Atts : work[a].pc \in {"temp", "placed", "unlink"})
    /\ UNCHANGED <<data, disk, work, jobs, exports, crashed>>

\* The directory is renamed out of the way.  os.Rename refuses a directory that
\* is there already, even an empty one, and that counts as nothing to move.
SwapOut(i) ==
    /\ imports[i].pc = "swapout"
    /\ IF Present(imports[i].files) # {} /\ there /\ ~ kept
       THEN /\ old' = files /\ kept' = TRUE
            /\ files' = NoFiles /\ there' = FALSE
            /\ Goes(i, "swapin", FALSE)
            /\ UNCHANGED upset
       ELSE /\ Goes(i, "replace", FALSE)
            /\ Upset(Present(imports[i].files) # {})
            /\ UNCHANGED disk
    /\ exports' = Torn(TRUE)
    /\ UNCHANGED <<data, work, jobs, crashed>>

\* Mutant: the old directory is removed as soon as the new one is in its place.
SwapInForGood(i) ==
    /\ imports[i].pc = "swapin" /\ ~ there
    /\ files' = imports[i].files /\ there' = TRUE
    /\ old' = NoFiles /\ kept' = FALSE
    /\ imports' = [imports EXCEPT ![i].pc = "replace"]
    /\ UNCHANGED <<data, work, jobs, exports, crashed, upset>>

\* The unpacked directory takes its place; where that rename is refused (the
\* temporary directory may be on another device), the old one comes back, unless
\* a directory has been made there meanwhile.
SwapIn(i) ==
    /\ imports[i].pc = "swapin"
    /\ \/ /\ ~ there
          /\ files' = imports[i].files /\ there' = TRUE
          /\ imports' = [imports EXCEPT ![i].pc = "replace", ![i].swapped = TRUE]
          /\ UNCHANGED <<old, kept>>
       \/ /\ IF there THEN UNCHANGED disk
                      ELSE files' = old /\ there' = TRUE /\ old' = NoFiles /\ kept' = FALSE
          /\ Goes(i, "finish", TRUE)
    /\ UNCHANGED <<data, work, jobs, exports, crashed, upset>>

\* Rows are inserted in the order the archive has them, and the foreign key is
\* checked row by row: a document whose parent comes later is refused.
ParentsComeFirst(base) == \A d \in Docs : base.parent[d] \in Docs => base.parent[d] < d

\* One transaction: it replaces the tables and deletes the other jobs, or nothing.
ReplaceAll(i) ==
    /\ imports[i].pc = "replace"
    /\ IF imports[i].fit = "schema" \/ ~ ParentsComeFirst(imports[i].db)
       THEN /\ Goes(i, "finish", TRUE)
            /\ UNCHANGED <<db, jobs, upset>>
       ELSE /\ db' = imports[i].db
            /\ jobs' = [j \in Exports \cup Imports |->
                          IF j = i \/ jobs[j] = "none" THEN jobs[j] ELSE "gone"]
            /\ Goes(i, "cleanup", FALSE)
            /\ Upset(imports[i].torn)
    /\ UNCHANGED <<made, disk, work, exports, crashed>>

\* What was moved away is removed.  The rebuild of the index that follows is
\* refused by the table of jobs, for its reason is none of those it knows.
Cleanup(i) ==
    /\ imports[i].pc = "cleanup"
    /\ IF imports[i].swapped THEN old' = NoFiles /\ kept' = FALSE ELSE UNCHANGED <<old, kept>>
    /\ Goes(i, "finish", FALSE)
    /\ UNCHANGED <<data, files, there, work, jobs, exports, crashed, upset>>

FinishImport(i) ==
    /\ imports[i].pc = "finish"
    /\ Mark(i, IF imports[i].failed THEN "failed" ELSE "done")
    /\ imports' = [imports EXCEPT ![i] = [NoImport EXCEPT !.pc = "over"]]
    /\ UNCHANGED <<data, disk, work, exports, crashed, upset>>

-----------------------------------------------------------------------------
\* The process ends: requests and jobs with it.  The next one makes the
\* attachment directory if it is not there, and takes up nothing.
Crash ==
    /\ ~ crashed /\ crashed' = TRUE
    /\ work' = [a \in Atts |-> IF work[a].pc = "new" THEN work[a] ELSE [pc |-> "rest", path |-> NoPath]]
    /\ exports' = [e \in Exports |-> IF exports[e].pc \in {"begin", "snapshot", "list", "walk"}
                                     THEN [NoExport EXCEPT !.pc = "failed"] ELSE exports[e]]
    /\ imports' = [i \in Imports |-> IF imports[i].pc \in {"idle", "over"}
                                     THEN imports[i] ELSE [NoImport EXCEPT !.pc = "over"]]
    /\ there' = TRUE
    /\ UNCHANGED <<data, files, old, kept, jobs, upset>>

ExportStep(e) ==
    \/ BeginExport(e) \/ Snapshot(e) \/ ListRoot(e) \/ FinishExport(e)
    \/ \E d \in Docs : ListDirectory(e, d)
    \/ \E p \in Paths : AddFile(e, p)

ImportStep(i) ==
    \/ Stage(i) \/ SwapOut(i) \/ SwapIn(i) \/ ReplaceAll(i) \/ Cleanup(i) \/ FinishImport(i)

AttachmentStep(a) ==
    \/ \E d \in Docs, n \in Names : BeginUpload(a, d, n)
    \/ GiveUp(a) \/ Place(a) \/ CreateAttachment(a) \/ DeleteAttachment(a) \/ Unlink(a)

Next ==
    \/ \E d \in Docs : Purge(d) \/ \E p \in Docs \cup {Root} : CreateDocument(d, p) \/ Move(d, p)
    \/ \E a \in Atts : AttachmentStep(a)
    \/ \E e \in Exports : StartExport(e) \/ ExportStep(e) \/ DeleteBackupFile(e)
    \/ \E i \in Imports : ImportStep(i) \/ \E e \in Exports, fit \in Fits : StartImport(i, e, fit)
    \/ Crash

Spec == Init /\ [][Next]_vars

-----------------------------------------------------------------------------
TypeOK ==
    /\ db \in Database /\ made \in SUBSET Docs
    /\ files \in Files /\ there \in BOOLEAN /\ old \in Files /\ kept \in BOOLEAN
    /\ work \in [Atts -> Work]
    /\ jobs \in [Exports \cup Imports -> Statuses]
    /\ exports \in [Exports -> Export]
    /\ imports \in [Imports -> Import]
    /\ crashed \in BOOLEAN /\ upset \in BOOLEAN
    /\ ~ kept => old = NoFiles
    /\ ~ there => files = NoFiles

\* The row of an attachment never outlives its file (service.go 279-303 of
\* backupservice, attachments.go 97 and 176 of docservice): the file is in its
\* place, or, once an import has failed or died between its two halves, in the
\* directory that import moved away.  Left out are two uploads under one name, an
\* import beside an upload, a deletion or another import, an import that took the
\* left-over directory for nothing to swap, and the import of a torn archive.
RowsHaveFiles ==
    ~ upset => \A a \in Atts : db.rows[a] # NoPath =>
                   \/ files[db.rows[a]] = a
                   \/ kept /\ old[db.rows[a]] = a

\* An archive that is ready has the file of every attachment its database lists
\* (service.go 92-118), whatever was uploaded during the export, as long as nothing
\* was removed and the walk over the files was not cut short.
ArchivesAreWhole ==
    \A e \in Exports : exports[e].pc = "ready" /\ ~ exports[e].torn => Whole(exports[e].db, exports[e].files)

\* An archive that an export has called done has the file of every attachment
\* that its database lists and that is still where it was (service.go:113).
ArchivesAreComplete ==
    \A e \in Exports : exports[e].pc = "ready" =>
        \A a \in Atts : LET p == exports[e].db.rows[a] IN
            (p # NoPath /\ db.rows[a] = p /\ files[p] = a /\ ~ upset) => exports[e].files[p] = a

\* The database of an export goes back into the tables it came from (store.go 107-146).
ExportsCanBeRestored ==
    [][\A i \in Imports :
         imports[i].pc = "replace" /\ imports[i].fit = "ok" /\ imports'[i].pc = "finish"
             => ~ imports'[i].failed]_vars

\* An import that fails leaves documents, attachments and files as they were
\* (service.go:192, store.go:106).
FailedImportChangesNothing ==
    \A i \in Imports : (jobs[i] = "failed" /\ ~ upset) => Whole(db, files)
=============================================================================
