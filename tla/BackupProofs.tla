---------------------------- MODULE BackupProofs ----------------------------
(***************************************************************************)
(* What the database and the attachment directory keep of one another, for *)
(* any number of documents, attachments, exports and imports, and without  *)
(* the order of events that the model's instance keeps to.                 *)
(***************************************************************************)
EXTENDS Backup, TLAPS

-----------------------------------------------------------------------------
(* The invariant *)

Active(i) == imports[i].pc \in {"swapout", "swapin", "replace", "cleanup"}
Quiet == \A a \in Atts : work[a].pc \in {"new", "rest"}

\* An upload or deletion under way has a path, one that is not has none.
PathsOfWork ==
    \A a \in Atts : /\ work[a].pc \in {"temp", "placed", "unlink"} => work[a].path \in Finals
                    /\ work[a].pc \in {"new", "rest"} => work[a].path = NoPath

Typed == TypeOK /\ PathsOfWork

\* Until something the snapshot lists is removed, the directory has all of it; what
\* the walk has not written to the archive it has still to come to.
Gathers(x) ==
    /\ x.pc \in {"list", "walk"} => Whole(x.db, files)
    /\ x.pc = "walk" => \A a \in Atts : x.db.rows[a] # NoPath =>
          x.db.rows[a] \in x.todo \/ x.db.rows[a].doc \in x.dirs \/ x.files[x.db.rows[a]] = a
    /\ x.pc = "ready" => Whole(x.db, x.files)

Archives ==
    /\ \A e \in Exports : ~ exports[e].torn => Gathers(exports[e])
    /\ \A i \in Imports : ~ imports[i].torn => Whole(imports[i].db, imports[i].files)

\* No path is claimed twice, by rows or by work under way.
Claims ==
    \A a, b \in Atts :
        /\ db.rows[a] # NoPath /\ db.rows[a] = db.rows[b] => a = b
        /\ work[a].path # NoPath => work[a].path # db.rows[b] /\ (work[a].path = work[b].path => a = b)

\* An upload's bytes are where it is.
Bytes ==
    \A a \in Atts : /\ work[a].pc = "temp" => files[Temp(a)] = a
                    /\ work[a].pc = "placed" => files[work[a].path] = a

\* One import at a time, and nothing beside it.  Its files are in place before its
\* rows, unless it has none.
Swaps ==
    /\ \A i, j \in Imports : Active(i) /\ Active(j) => i = j
    /\ \A i \in Imports : Active(i) => Quiet
    /\ \A i \in Imports : imports[i].pc = "replace" =>
          (imports[i].swapped /\ files = imports[i].files) \/ Present(imports[i].files) = {}
    /\ \A i \in Imports : imports[i].pc = "cleanup" => Whole(db, files)

Kept == \A a \in Atts : db.rows[a] # NoPath =>
            \/ files[db.rows[a]] = a
            \/ kept /\ old[db.rows[a]] = a

Steady == Claims /\ Bytes /\ Swaps /\ Kept

Sound == Typed /\ Archives /\ (~ upset => Steady)

-----------------------------------------------------------------------------
(* Paths and files *)

LEMMA PathsAre ==
  /\ NoPath \notin Finals /\ Finals \subseteq Paths
  /\ \A p \in Finals : p.doc \in Docs /\ p.doc # Root
  /\ NoPath.doc \notin Docs
  /\ \A a \in Atts : Temp(a) \in Paths /\ Temp(a) \notin Finals
  /\ \A a, b \in Atts : Temp(a) = Temp(b) => a = b
<1>1. Root \notin Docs
  BY BackupAssumption DEF Docs, Root
<1>2. NoPath.doc = Root /\ \A p \in Finals : p.doc \in Docs
  BY DEF NoPath, Finals
<1>3. \A a \in Atts : Temp(a).doc = Root /\ Temp(a).name = a /\ Temp(a) \in Temps
  BY DEF Temp, Temps
<1>. QED
  BY <1>1, <1>2, <1>3 DEF Paths

LEMMA FilesAre ==
  /\ NoFiles \in Files /\ \A p \in Paths : NoFiles[p] = None
  /\ \A a \in Atts : a # None /\ a # NoBytes
  BY BackupAssumption DEF NoFiles, Files

\* To write or remove one file.
LEMMA FilesWith ==
  ASSUME NEW fs \in Files, NEW p \in Paths, NEW c \in Atts \cup {None, NoBytes}
  PROVE  /\ [fs EXCEPT ![p] = c] \in Files
         /\ [fs EXCEPT ![p] = c][p] = c
         /\ \A q \in Paths : q # p => [fs EXCEPT ![p] = c][q] = fs[q]
  BY DEF Files

LEMMA NothingToRemove ==
  ASSUME NEW p
  PROVE  [NoFiles EXCEPT ![p] = None] = NoFiles
  BY DEF NoFiles

LEMMA EmptyIs == Empty \in Database /\ \A fs : Whole(Empty, fs)
  BY DEF Empty, Database, Whole

LEMMA NoExportIs == NoExport \in Export /\ NoExport.torn = FALSE /\ NoExport.pc = "idle"
  BY EmptyIs, FilesAre DEF NoExport, Export

LEMMA NoImportIs == NoImport \in Import /\ NoImport.torn = FALSE /\ NoImport.pc = "idle" /\ NoImport.db = Empty
  BY EmptyIs, FilesAre DEF NoImport, Import, Fits

LEMMA TornIs ==
  ASSUME exports \in [Exports -> Export], NEW if \in BOOLEAN
  PROVE  /\ Torn(if) \in [Exports -> Export]
         /\ \A e \in Exports :
              /\ Torn(if)[e].pc = exports[e].pc /\ Torn(if)[e].db = exports[e].db
              /\ Torn(if)[e].files = exports[e].files /\ Torn(if)[e].dirs = exports[e].dirs
              /\ Torn(if)[e].todo = exports[e].todo
              /\ Torn(if)[e].torn <=> exports[e].torn \/ (if /\ exports[e].pc \in {"list", "walk"})
<1>. SUFFICES ASSUME NEW e \in Exports
              PROVE  /\ Torn(if)[e] \in Export
                     /\ Torn(if)[e].pc = exports[e].pc /\ Torn(if)[e].db = exports[e].db
                     /\ Torn(if)[e].files = exports[e].files /\ Torn(if)[e].dirs = exports[e].dirs
                     /\ Torn(if)[e].todo = exports[e].todo
                     /\ Torn(if)[e].torn <=> exports[e].torn \/ (if /\ exports[e].pc \in {"list", "walk"})
  BY DEF Torn
<1>1. exports[e] \in Export
  OBVIOUS
<1>2. Torn(if)[e] = IF if /\ exports[e].pc \in {"list", "walk"} THEN [exports[e] EXCEPT !.torn = TRUE] ELSE exports[e]
  BY DEF Torn
<1>. QED
  BY <1>1, <1>2 DEF Export

-----------------------------------------------------------------------------
(* Types *)

DataOK == db \in Database /\ made \in SUBSET Docs
DiskOK ==
    /\ files \in Files /\ there \in BOOLEAN /\ old \in Files /\ kept \in BOOLEAN
    /\ ~ kept => old = NoFiles
    /\ ~ there => files = NoFiles
WorkOK == work \in [Atts -> Work] /\ PathsOfWork
JobsOK == jobs \in [Exports \cup Imports -> Statuses]
ExportsOK == exports \in [Exports -> Export]
ImportsOK == imports \in [Imports -> Import]
FlagsOK == crashed \in BOOLEAN /\ upset \in BOOLEAN

LEMMA Parts == Typed <=> DataOK /\ DiskOK /\ WorkOK /\ JobsOK /\ ExportsOK /\ ImportsOK /\ FlagsOK
  BY DEF Typed, TypeOK, DataOK, DiskOK, WorkOK, JobsOK, ExportsOK, ImportsOK, FlagsOK

LEMMA DatabaseIs ==
  ASSUME DataOK
  PROVE  /\ \A a \in Atts : db.rows[a] \in Finals \cup {NoPath}
         /\ \A d \in Docs : db.parent[d] \in Docs \cup {Root, NoRow}
  BY DEF DataOK, Database

LEMMA WorkIs ==
  ASSUME WorkOK, NEW a \in Atts
  PROVE  /\ work[a].pc \in {"new", "temp", "placed", "rest", "unlink"}
         /\ work[a].path \in Finals \cup {NoPath}
         /\ work[a] = [pc |-> work[a].pc, path |-> work[a].path]
         /\ work[a].pc \in {"temp", "placed", "unlink"} => work[a].path \in Finals
         /\ work[a].pc \in {"new", "rest"} => work[a].path = NoPath
  BY DEF WorkOK, PathsOfWork, Work

LEMMA WorkWith ==
  ASSUME WorkOK, NEW a \in Atts, NEW w \in Work, work' = [work EXCEPT ![a] = w],
         w.pc \in {"temp", "placed", "unlink"} => w.path \in Finals,
         w.pc \in {"new", "rest"} => w.path = NoPath
  PROVE  WorkOK' /\ work'[a] = w /\ \A b \in Atts : b # a => work'[b] = work[b]
  BY DEF WorkOK, PathsOfWork

LEMMA RestIsWork == [pc |-> "rest", path |-> NoPath] \in Work
  BY DEF Work

LEMMA DataStep ==
  ASSUME Typed, [Next]_vars
  PROVE  DataOK'
<1>1. DataOK /\ DiskOK /\ WorkOK /\ ImportsOK
  BY Parts
<1>2. ASSUME NEW d \in Docs, Purge(d)
      PROVE  DataOK'
  <2>. DEFINE dead == {x \in Docs : d \in Line(x)}
  <2>1. /\ db' = [parent |-> [x \in Docs |-> IF x \in dead THEN NoRow ELSE db.parent[x]],
                  rows |-> [a \in Atts |-> IF db.rows[a].doc \in dead THEN NoPath ELSE db.rows[a]]]
        /\ made' = made
    BY <1>2 DEF Purge
  <2>. HIDE DEF dead
  <2>2. [x \in Docs |-> IF x \in dead THEN NoRow ELSE db.parent[x]] \in [Docs -> Docs \cup {Root, NoRow}]
    BY <1>1, DatabaseIs
  <2>3. [a \in Atts |-> IF db.rows[a].doc \in dead THEN NoPath ELSE db.rows[a]] \in [Atts -> Finals \cup {NoPath}]
    BY <1>1, DatabaseIs
  <2>. QED
    BY <1>1, <2>1, <2>2, <2>3 DEF DataOK, Database
<1>3. ASSUME NEW d \in Docs, NEW p \in Docs \cup {Root}, CreateDocument(d, p) \/ Move(d, p)
      PROVE  DataOK'
  BY <1>1, <1>3 DEF CreateDocument, Move, DataOK, Database
<1>4. ASSUME NEW a \in Atts, CreateAttachment(a)
      PROVE  DataOK'
  <2>1. work[a].path \in Finals \cup {NoPath}
    BY <1>1, WorkIs
  <2>. QED
    BY <1>1, <1>4, <2>1 DEF CreateAttachment, DataOK, Database
<1>5. ASSUME NEW a \in Atts, DeleteAttachment(a)
      PROVE  DataOK'
  BY <1>1, <1>5 DEF DeleteAttachment, DataOK, Database
<1>6. ASSUME NEW i \in Imports, ReplaceAll(i)
      PROVE  DataOK'
  BY <1>1, <1>6 DEF ReplaceAll, DataOK, ImportsOK, Import
<1>7. ASSUME NEW a \in Atts,
             (\E d \in Docs, n \in Names : BeginUpload(a, d, n)) \/ GiveUp(a) \/ Place(a) \/ Unlink(a)
      PROVE  DataOK'
  BY <1>1, <1>7 DEF BeginUpload, GiveUp, Place, Unlink, DataOK, data
<1>8. ASSUME NEW e \in Exports, StartExport(e) \/ ExportStep(e) \/ DeleteBackupFile(e)
      PROVE  DataOK'
  BY <1>1, <1>8 DEF StartExport, ExportStep, BeginExport, Snapshot, ListRoot, ListDirectory, AddFile,
                    FinishExport, DeleteBackupFile, DataOK, data
<1>9. ASSUME NEW i \in Imports, \/ Stage(i) \/ SwapOut(i) \/ SwapIn(i) \/ Cleanup(i) \/ FinishImport(i)
                                \/ \E e \in Exports, fit \in Fits : StartImport(i, e, fit)
      PROVE  DataOK'
  BY <1>1, <1>9 DEF Stage, SwapOut, SwapIn, Cleanup, FinishImport, StartImport, DataOK, data
<1>10. CASE Crash \/ UNCHANGED vars
  BY <1>1, <1>10 DEF Crash, DataOK, data, vars
<1>. QED
  BY <1>2, <1>3, <1>4, <1>5, <1>6, <1>7, <1>8, <1>9, <1>10 DEF Next, AttachmentStep, ImportStep

LEMMA DiskStep ==
  ASSUME Typed, [Next]_vars
  PROVE  DiskOK'
<1>1. DataOK /\ DiskOK /\ WorkOK /\ ImportsOK
  BY Parts
<1>2. ASSUME NEW p \in Paths, files' = [files EXCEPT ![p] = None]
      PROVE  files' \in Files /\ (files = NoFiles => files' = NoFiles)
  BY <1>1, <1>2, FilesWith, NothingToRemove DEF DiskOK
<1>3. ASSUME NEW a \in Atts, NEW d \in Docs, NEW n \in Names, BeginUpload(a, d, n)
      PROVE  DiskOK'
  BY <1>1, <1>3, FilesWith, PathsAre DEF BeginUpload, DiskOK
<1>4. ASSUME NEW a \in Atts, GiveUp(a)
      PROVE  DiskOK'
  BY <1>1, <1>2, <1>4, PathsAre DEF GiveUp, DiskOK
<1>5. ASSUME NEW a \in Atts, Place(a)
      PROVE  DiskOK'
  <2>1. work[a].path \in Paths /\ Temp(a) \in Paths
    BY <1>1, <1>5, WorkIs, PathsAre DEF Place
  <2>2. files[Temp(a)] \in Atts \cup {None, NoBytes}
    BY <1>1, <2>1 DEF DiskOK, Files
  <2>3. files' \in Files
    BY <1>1, <1>5, <2>1, <2>2 DEF Place, DiskOK, Files
  <2>. QED
    BY <1>1, <1>5, <2>3 DEF Place, DiskOK
<1>6. ASSUME NEW a \in Atts, CreateAttachment(a)
      PROVE  DiskOK'
  <2>1. work[a].path \in Paths
    BY <1>1, <1>6, WorkIs, PathsAre DEF CreateAttachment
  <2>. QED
    BY <1>1, <1>2, <1>6, <2>1 DEF CreateAttachment, DiskOK
<1>7. ASSUME NEW a \in Atts, Unlink(a)
      PROVE  DiskOK'
  <2>1. work[a].path \in Paths
    BY <1>1, <1>7, WorkIs, PathsAre DEF Unlink
  <2>. QED
    BY <1>1, <1>2, <1>7, <2>1 DEF Unlink, DiskOK
<1>8. ASSUME NEW i \in Imports, SwapOut(i) \/ SwapIn(i) \/ Cleanup(i)
      PROVE  DiskOK'
  <2>1. imports[i].files \in Files
    BY <1>1 DEF ImportsOK, Import
  <2>. QED
    BY <1>1, <1>8, <2>1, FilesAre DEF SwapOut, SwapIn, Cleanup, DiskOK, disk
<1>9. CASE Crash
  BY <1>1, <1>9 DEF Crash, DiskOK
<1>10. CASE UNCHANGED disk
  BY <1>1, <1>10 DEF DiskOK, disk
<1>11. ASSUME NEW d \in Docs, Purge(d) \/ \E p \in Docs \cup {Root} : CreateDocument(d, p) \/ Move(d, p)
       PROVE  UNCHANGED disk
  BY <1>11 DEF Purge, CreateDocument, Move
<1>12. ASSUME NEW e \in Exports, StartExport(e) \/ ExportStep(e) \/ DeleteBackupFile(e)
       PROVE  UNCHANGED disk
  BY <1>12 DEF StartExport, ExportStep, BeginExport, Snapshot, ListRoot, ListDirectory, AddFile,
               FinishExport, DeleteBackupFile
<1>13. ASSUME NEW i \in Imports, \/ Stage(i) \/ ReplaceAll(i) \/ FinishImport(i)
                                 \/ \E e \in Exports, fit \in Fits : StartImport(i, e, fit)
       PROVE  UNCHANGED disk
  BY <1>13 DEF Stage, ReplaceAll, FinishImport, StartImport
<1>14. ASSUME NEW a \in Atts, DeleteAttachment(a)
       PROVE  UNCHANGED disk
  BY <1>14 DEF DeleteAttachment
<1>15. UNCHANGED vars => UNCHANGED disk
  BY DEF vars
<1>. QED
  BY <1>3, <1>4, <1>5, <1>6, <1>7, <1>8, <1>9, <1>10, <1>11, <1>12, <1>13, <1>14, <1>15
     DEF Next, AttachmentStep, ImportStep

LEMMA WorkStep ==
  ASSUME Typed, [Next]_vars
  PROVE  WorkOK'
<1>1. DataOK /\ WorkOK
  BY Parts
<1>2. ASSUME NEW a \in Atts, NEW d \in Docs, NEW n \in Names, BeginUpload(a, d, n)
      PROVE  WorkOK'
  <2>1. [doc |-> d, name |-> n] \in Finals
    BY DEF Finals
  <2>2. [pc |-> "temp", path |-> [doc |-> d, name |-> n]] \in Work
    BY <2>1 DEF Work
  <2>. QED
    BY <1>1, <1>2, <2>1, <2>2, WorkWith DEF BeginUpload
<1>3. ASSUME NEW a \in Atts, GiveUp(a) \/ CreateAttachment(a) \/ Unlink(a)
      PROVE  WorkOK'
  <2>1. work' = [work EXCEPT ![a] = [pc |-> "rest", path |-> NoPath]]
    BY <1>3 DEF GiveUp, CreateAttachment, Unlink
  <2>. QED
    BY <1>1, <2>1, RestIsWork, WorkWith
<1>4. ASSUME NEW a \in Atts, Place(a)
      PROVE  WorkOK'
  <2>1. CASE work' = [work EXCEPT ![a] = [pc |-> "rest", path |-> NoPath]]
    BY <1>1, <2>1, RestIsWork, WorkWith
  <2>2. CASE work' = [work EXCEPT ![a].pc = "placed"]
    <3>. DEFINE w == [pc |-> "placed", path |-> work[a].path]
    <3>1. work[a].path \in Finals
      BY <1>1, <1>4, WorkIs DEF Place
    <3>2. w \in Work
      BY <3>1 DEF Work
    <3>3. [work[a] EXCEPT !.pc = "placed"] = w
      <4>1. work[a] \in Work
        BY <1>1 DEF WorkOK
      <4>. QED
        BY <4>1 DEF Work
    <3>4. work' = [work EXCEPT ![a] = w]
      BY <2>2, <3>3
    <3>. QED
      BY <1>1, <3>1, <3>2, <3>4, WorkWith
  <2>. QED
    BY <1>4, <2>1, <2>2 DEF Place
<1>5. ASSUME NEW a \in Atts, DeleteAttachment(a)
      PROVE  WorkOK'
  <2>1. db.rows[a] \in Finals
    BY <1>1, <1>5, DatabaseIs DEF DeleteAttachment
  <2>2. [pc |-> "unlink", path |-> db.rows[a]] \in Work
    BY <2>1 DEF Work
  <2>. QED
    BY <1>1, <1>5, <2>1, <2>2, WorkWith DEF DeleteAttachment
<1>6. CASE Crash
  <2>1. \A a \in Atts : work'[a] = IF work[a].pc = "new" THEN work[a] ELSE [pc |-> "rest", path |-> NoPath]
    BY <1>6 DEF Crash
  <2>2. work' \in [Atts -> Work]
    BY <1>1, <1>6, RestIsWork DEF Crash, WorkOK
  <2>3. ASSUME NEW a \in Atts
        PROVE  /\ work'[a].pc \in {"new", "rest"}
               /\ work'[a].path = NoPath
    <3>1. CASE work[a].pc = "new"
      BY <1>1, <2>1, <3>1, WorkIs
    <3>2. CASE work[a].pc # "new"
      BY <2>1, <3>2
    <3>. QED
      BY <3>1, <3>2
  <2>. QED
    BY <2>2, <2>3 DEF WorkOK, PathsOfWork
<1>7. CASE UNCHANGED work
  BY <1>1, <1>7 DEF WorkOK, PathsOfWork
<1>8. ASSUME NEW d \in Docs, Purge(d) \/ \E p \in Docs \cup {Root} : CreateDocument(d, p) \/ Move(d, p)
      PROVE  UNCHANGED work
  BY <1>8 DEF Purge, CreateDocument, Move
<1>9. ASSUME NEW e \in Exports, StartExport(e) \/ ExportStep(e) \/ DeleteBackupFile(e)
      PROVE  UNCHANGED work
  BY <1>9 DEF StartExport, ExportStep, BeginExport, Snapshot, ListRoot, ListDirectory, AddFile,
              FinishExport, DeleteBackupFile
<1>10. ASSUME NEW i \in Imports, ImportStep(i) \/ \E e \in Exports, fit \in Fits : StartImport(i, e, fit)
       PROVE  UNCHANGED work
  BY <1>10 DEF ImportStep, Stage, SwapOut, SwapIn, ReplaceAll, Cleanup, FinishImport, StartImport
<1>11. UNCHANGED vars => UNCHANGED work
  BY DEF vars
<1>. QED
  BY <1>2, <1>3, <1>4, <1>5, <1>6, <1>7, <1>8, <1>9, <1>10, <1>11 DEF Next, AttachmentStep

LEMMA MarkKeeps ==
  ASSUME JobsOK, NEW j, NEW status \in Statuses, Mark(j, status)
  PROVE  JobsOK'
  BY DEF JobsOK, Mark

LEMMA JobsStep ==
  ASSUME Typed, [Next]_vars
  PROVE  JobsOK'
<1>1. JobsOK
  BY Parts
<1>2. {"pending", "running", "done", "failed", "gone"} \subseteq Statuses
  BY DEF Statuses
<1>3. ASSUME NEW e \in Exports, StartExport(e) \/ ExportStep(e) \/ DeleteBackupFile(e)
      PROVE  JobsOK'
  <2>1. CASE StartExport(e)
    BY <1>1, <1>2, <2>1 DEF StartExport, JobsOK
  <2>2. CASE BeginExport(e) \/ Snapshot(e) \/ FinishExport(e)
    BY <1>1, <1>2, <2>2, MarkKeeps DEF BeginExport, Snapshot, FinishExport, JobsOK
  <2>3. CASE ListRoot(e) \/ (\E d \in Docs : ListDirectory(e, d)) \/ (\E p \in Paths : AddFile(e, p)) \/ DeleteBackupFile(e)
    BY <1>1, <2>3 DEF ListRoot, ListDirectory, AddFile, DeleteBackupFile, JobsOK
  <2>. QED
    BY <1>3, <2>1, <2>2, <2>3 DEF ExportStep
<1>4. ASSUME NEW i \in Imports, ImportStep(i) \/ \E e \in Exports, fit \in Fits : StartImport(i, e, fit)
      PROVE  JobsOK'
  <2>1. CASE \E e \in Exports, fit \in Fits : StartImport(i, e, fit)
    BY <1>1, <1>2, <2>1 DEF StartImport, JobsOK
  <2>2. CASE ReplaceAll(i)
    BY <1>1, <1>2, <2>2 DEF ReplaceAll, JobsOK
  <2>3. CASE FinishImport(i)
    BY <1>1, <1>2, <2>3, MarkKeeps DEF FinishImport
  <2>4. CASE Stage(i) \/ SwapOut(i) \/ SwapIn(i) \/ Cleanup(i)
    BY <1>1, <2>4 DEF Stage, SwapOut, SwapIn, Cleanup, JobsOK
  <2>. QED
    BY <1>4, <2>1, <2>2, <2>3, <2>4 DEF ImportStep
<1>5. ASSUME NEW a \in Atts, AttachmentStep(a)
      PROVE  UNCHANGED jobs
  BY <1>5 DEF AttachmentStep, BeginUpload, GiveUp, Place, CreateAttachment, DeleteAttachment, Unlink, tasks
<1>6. ASSUME NEW d \in Docs, Purge(d) \/ \E p \in Docs \cup {Root} : CreateDocument(d, p) \/ Move(d, p)
      PROVE  UNCHANGED jobs
  BY <1>6 DEF Purge, CreateDocument, Move, tasks
<1>7. Crash \/ UNCHANGED vars => UNCHANGED jobs
  BY DEF Crash, vars, tasks
<1>8. UNCHANGED jobs => JobsOK'
  BY <1>1 DEF JobsOK
<1>. QED
  BY <1>3, <1>4, <1>5, <1>6, <1>7, <1>8 DEF Next

LEMMA ExportIs ==
  ASSUME ExportsOK, NEW e \in Exports
  PROVE  /\ exports[e] \in Export
         /\ exports[e].db \in Database /\ exports[e].files \in Files
         /\ exports[e].dirs \in SUBSET Docs /\ exports[e].todo \in SUBSET Paths
         /\ exports[e].torn \in BOOLEAN
         /\ \A a \in Atts : exports[e].db.rows[a] \in Finals \cup {NoPath}
  BY DEF ExportsOK, Export, Database

LEMMA ImportIs ==
  ASSUME ImportsOK, NEW i \in Imports
  PROVE  /\ imports[i] \in Import
         /\ imports[i].db \in Database /\ imports[i].files \in Files
         /\ imports[i].torn \in BOOLEAN /\ imports[i].swapped \in BOOLEAN
         /\ imports[i].pc \in {"idle", "stage", "swapout", "swapin", "replace", "cleanup", "finish", "over"}
         /\ \A a \in Atts : imports[i].db.rows[a] \in Finals \cup {NoPath}
  BY DEF ImportsOK, Import, Database

\* An export's own step touches that export alone.
LEMMA ExportStepIs ==
  ASSUME Typed, NEW e \in Exports, StartExport(e) \/ ExportStep(e) \/ DeleteBackupFile(e)
  PROVE  /\ exports'[e] \in Export
         /\ exports' = [exports EXCEPT ![e] = exports'[e]]
         /\ UNCHANGED <<data, disk, work, imports, crashed, upset>>
<1>1. ExportsOK /\ DiskOK /\ DataOK
  BY Parts
<1>2. exports[e] \in Export /\ exports \in [Exports -> Export]
  BY <1>1 DEF ExportsOK
<1>3. db \in Database
  BY <1>1 DEF DataOK
<1>4. CASE StartExport(e)
  BY <1>2, <1>4 DEF StartExport, Export
<1>5. CASE BeginExport(e)
  BY <1>2, <1>5 DEF BeginExport, Export
<1>6. CASE Snapshot(e)
  <2>1. Whole(db, files) \in BOOLEAN
    BY DEF Whole
  <2>2. CASE exports' = [exports EXCEPT ![e].pc = "list", ![e].db = db, ![e].torn = ~ Whole(db, files)]
    <3>1. [exports[e] EXCEPT !.pc = "list", !.db = db, !.torn = ~ Whole(db, files)] \in Export
      BY <1>2, <1>3, <2>1 DEF Export
    <3>. QED
      BY <1>2, <1>6, <2>2, <3>1 DEF Snapshot
  <2>3. CASE exports' = [exports EXCEPT ![e].pc = "failed"]
    BY <1>2, <1>6, <2>3 DEF Snapshot, Export
  <2>. QED
    BY <1>6, <2>2, <2>3 DEF Snapshot
<1>7. CASE ListRoot(e)
  <2>1. {p.doc : p \in Present(files) \ Temps} \in SUBSET Docs
    BY PathsAre DEF Present, Paths
  <2>2. Present(files) \cap Temps \in SUBSET Paths
    BY DEF Present
  <2>3. [exports[e] EXCEPT !.pc = "walk", !.dirs = {p.doc : p \in Present(files) \ Temps},
                           !.todo = Present(files) \cap Temps] \in Export
    BY <1>2, <2>1, <2>2 DEF Export
  <2>. QED
    BY <1>2, <1>7, <2>3 DEF ListRoot
<1>8. ASSUME NEW d \in Docs, ListDirectory(e, d)
      PROVE  /\ exports'[e] \in Export
             /\ exports' = [exports EXCEPT ![e] = exports'[e]]
             /\ UNCHANGED <<data, disk, work, imports, crashed, upset>>
  <2>1. [exports[e] EXCEPT !.dirs = @ \ {d}, !.todo = @ \cup {p \in Present(files) : p.doc = d}] \in Export
    BY <1>2 DEF Export, Present
  <2>. QED
    BY <1>2, <1>8, <2>1 DEF ListDirectory
<1>9. ASSUME NEW p \in Paths, AddFile(e, p)
      PROVE  /\ exports'[e] \in Export
             /\ exports' = [exports EXCEPT ![e] = exports'[e]]
             /\ UNCHANGED <<data, disk, work, imports, crashed, upset>>
  <2>1. ASSUME NEW c \in Atts \cup {None, NoBytes}
        PROVE  [exports[e].files EXCEPT ![p] = c] \in Files
    BY <1>1, FilesWith, ExportIs
  <2>2. files[p] \in Atts \cup {None, NoBytes}
    BY <1>1 DEF DiskOK, Files
  <2>3. [exports[e] EXCEPT !.dirs = {}, !.todo = {}, !.files[p] = NoBytes, !.torn = TRUE] \in Export
    BY <1>2, <2>1 DEF Export
  <2>4. [exports[e] EXCEPT !.todo = @ \ {p}, !.files[p] = files[p]] \in Export
    BY <1>2, <2>1, <2>2 DEF Export
  <2>. QED
    BY <1>2, <1>9, <2>3, <2>4 DEF AddFile
<1>10. CASE FinishExport(e)
  BY <1>2, <1>10 DEF FinishExport, Export
<1>11. CASE DeleteBackupFile(e)
  <2>1. [NoExport EXCEPT !.pc = "deleted"] \in Export
    BY NoExportIs DEF Export
  <2>. QED
    BY <1>2, <1>11, <2>1 DEF DeleteBackupFile
<1>. QED
  BY <1>4, <1>5, <1>6, <1>7, <1>8, <1>9, <1>10, <1>11 DEF ExportStep

\* An import's own step touches that import alone, and tears archives at most.
LEMMA ImportStepIs ==
  ASSUME Typed, NEW i \in Imports, ImportStep(i) \/ \E e \in Exports, fit \in Fits : StartImport(i, e, fit)
  PROVE  /\ imports'[i] \in Import
         /\ imports' = [imports EXCEPT ![i] = imports'[i]]
         /\ exports' = exports \/ exports' = Torn(TRUE)
         /\ upset' \in BOOLEAN /\ (upset => upset')
         /\ UNCHANGED <<made, work, crashed>>
<1>1. ImportsOK /\ ExportsOK /\ FlagsOK
  BY Parts
<1>2. imports[i] \in Import /\ imports \in [Imports -> Import] /\ upset \in BOOLEAN
  BY <1>1 DEF ImportsOK, FlagsOK
<1>3. ASSUME NEW pc \in {"swapout", "swapin", "replace", "cleanup", "finish"}, NEW f \in BOOLEAN, Goes(i, pc, f)
      PROVE  imports'[i] \in Import /\ imports' = [imports EXCEPT ![i] = imports'[i]]
  BY <1>2, <1>3 DEF Goes, Import
<1>4. CASE Stage(i)
  BY <1>2, <1>3, <1>4 DEF Stage, Upset, data
<1>5. CASE SwapOut(i)
  BY <1>2, <1>3, <1>5 DEF SwapOut, Upset, data
<1>6. CASE SwapIn(i)
  <2>1. CASE imports' = [imports EXCEPT ![i].pc = "replace", ![i].swapped = TRUE]
    BY <1>2, <1>6, <2>1 DEF SwapIn, Import, data
  <2>2. CASE Goes(i, "finish", TRUE)
    BY <1>2, <1>3, <1>6, <2>2 DEF SwapIn, data
  <2>. QED
    BY <1>6, <2>1, <2>2 DEF SwapIn
<1>7. CASE ReplaceAll(i)
  BY <1>1, <1>2, <1>3, <1>7, ImportIs DEF ReplaceAll, Upset
<1>8. CASE Cleanup(i)
  BY <1>2, <1>3, <1>8 DEF Cleanup, data
<1>9. CASE FinishImport(i)
  <2>1. [NoImport EXCEPT !.pc = "over"] \in Import
    BY NoImportIs DEF Import
  <2>. QED
    BY <1>2, <1>9, <2>1 DEF FinishImport, data
<1>10. ASSUME NEW e \in Exports, NEW fit \in Fits, StartImport(i, e, fit)
       PROVE  /\ imports'[i] \in Import /\ imports' = [imports EXCEPT ![i] = imports'[i]]
              /\ UNCHANGED <<made, work, crashed, exports, upset>>
  <2>1. [NoImport EXCEPT !.pc = "stage", !.fit = fit, !.db = exports[e].db,
                         !.files = exports[e].files, !.torn = exports[e].torn] \in Import
    BY <1>1, ExportIs, NoImportIs DEF Import
  <2>. QED
    BY <1>2, <1>10, <2>1 DEF StartImport, data
<1>. QED
  BY <1>2, <1>4, <1>5, <1>6, <1>7, <1>8, <1>9, <1>10 DEF ImportStep

\* What others do to the exports: to those under way they remove nothing that was
\* there at the snapshot, or they tear them.
Beside ==
    \E if \in BOOLEAN :
        /\ exports' = Torn(if)
        /\ ~ if => \A base \in Database : Whole(base, files) => Whole(base, files')

LEMMA NotTorn == ASSUME ExportsOK PROVE Torn(FALSE) = exports
  BY DEF ExportsOK, Torn

LEMMA WholeBeside ==
  ASSUME NEW base \in Database, NEW fs, NEW p, p \notin Finals, NEW c, Whole(base, fs), DOMAIN fs = Paths
  PROVE  Whole(base, [fs EXCEPT ![p] = c])
<1>1. \A a \in Atts : base.rows[a] # NoPath => base.rows[a] \in Paths /\ base.rows[a] # p
  BY PathsAre DEF Database
<1>. QED
  BY <1>1 DEF Whole

LEMMA AttachmentStepIs ==
  ASSUME Typed, NEW a \in Atts, AttachmentStep(a)
  PROVE  /\ UNCHANGED <<made, jobs, imports, crashed, old, kept>>
         /\ Beside
         /\ upset' \in BOOLEAN /\ (upset => upset')
<1>1. ExportsOK /\ DiskOK /\ WorkOK /\ FlagsOK
  BY Parts
<1>2. DOMAIN files = Paths
  BY <1>1 DEF DiskOK, Files
<1>z. UNCHANGED <<made, jobs, imports, crashed, old, kept>>
  BY DEF AttachmentStep, BeginUpload, GiveUp, Place, CreateAttachment, DeleteAttachment, Unlink, data, disk, tasks
<1>u. upset' \in BOOLEAN /\ (upset => upset')
  <2>1. upset \in BOOLEAN
    BY <1>1 DEF FlagsOK
  <2>2. UNCHANGED upset \/ \E if \in BOOLEAN : Upset(if)
    BY DEF AttachmentStep, BeginUpload, GiveUp, Place, CreateAttachment, DeleteAttachment, Unlink, Importing, Shared
  <2>. QED
    BY <2>1, <2>2 DEF Upset
<1>. SUFFICES Beside
  BY <1>z, <1>u
<1>3. ASSUME UNCHANGED exports,
             files' = files \/ \E c : files' = [files EXCEPT ![Temp(a)] = c]
      PROVE  Beside
  <2>1. CASE files' = files
    BY <1>1, <1>3, <2>1, NotTorn DEF Beside, Whole
  <2>2. ASSUME NEW c, files' = [files EXCEPT ![Temp(a)] = c]
        PROVE  Beside
    <3>1. Temp(a) \notin Finals
      BY PathsAre
    <3>2. \A base \in Database : Whole(base, files) => Whole(base, files')
      BY <1>2, <2>2, <3>1, WholeBeside
    <3>. QED
      BY <1>1, <1>3, <3>2, NotTorn DEF Beside
  <2>. QED
    BY <1>3, <2>1, <2>2
<1>4. exports' = Torn(TRUE) => Beside
  BY DEF Beside
<1>5. ASSUME NEW d \in Docs, NEW n \in Names, BeginUpload(a, d, n)
      PROVE  Beside
  BY <1>3, <1>5 DEF BeginUpload, tasks
<1>6. CASE GiveUp(a)
  BY <1>3, <1>6 DEF GiveUp, tasks
<1>7. CASE Place(a)
  <2>1. CASE UNCHANGED <<files, exports, upset>>
    BY <1>3, <2>1
  <2>2. CASE /\ files' = [files EXCEPT ![Temp(a)] = None, ![work[a].path] = files[Temp(a)]]
             /\ exports' = Torn(files[work[a].path] # None)
    <3>1. CASE files[work[a].path] # None
      <4>1. (files[work[a].path] # None) = TRUE
        BY <3>1
      <4>. QED
        BY <1>4, <2>2, <4>1
    <3>2. CASE files[work[a].path] = None
      <4>1. (files[work[a].path] # None) = FALSE
        BY <3>2
      <4>2. work[a].path \in Paths
        BY <1>1, <1>7, WorkIs, PathsAre DEF Place
      <4>3. ASSUME NEW base \in Database, Whole(base, files), NEW b \in Atts, base.rows[b] # NoPath
            PROVE  files'[base.rows[b]] = b
        <5>1. base.rows[b] \in Finals /\ files[base.rows[b]] = b
          BY <4>3 DEF Database, Whole
        <5>2. base.rows[b] # Temp(a) /\ base.rows[b] \in Paths
          BY <5>1, PathsAre
        <5>3. base.rows[b] # work[a].path
          BY <3>2, <5>1, FilesAre
        <5>. QED
          BY <1>2, <2>2, <5>1, <5>2, <5>3
      <4>4. \A base \in Database : Whole(base, files) => Whole(base, files')
        BY <4>3 DEF Whole
      <4>. QED
        BY <2>2, <4>1, <4>4 DEF Beside
    <3>. QED
      BY <3>1, <3>2
  <2>. QED
    BY <1>7, <2>1, <2>2 DEF Place
<1>8. CASE CreateAttachment(a)
  <2>1. CASE exports' = Torn(FALSE) /\ UNCHANGED files
    BY <2>1 DEF Beside, Whole
  <2>2. CASE /\ files' = [files EXCEPT ![work[a].path] = None]
             /\ exports' = Torn(TRUE)
    BY <1>4, <1>8, <2>2 DEF CreateAttachment
  <2>. QED
    BY <1>8, <2>1, <2>2 DEF CreateAttachment
<1>9. CASE DeleteAttachment(a)
  BY <1>3, <1>9 DEF DeleteAttachment, tasks, disk
<1>10. CASE Unlink(a)
  BY <1>4, <1>10 DEF Unlink
<1>. QED
  BY <1>5, <1>6, <1>7, <1>8, <1>9, <1>10 DEF AttachmentStep

LEMMA ImportsBeside ==
  ASSUME Typed, NEW i \in Imports, ImportStep(i) \/ \E e \in Exports, fit \in Fits : StartImport(i, e, fit)
  PROVE  Beside
<1>1. ExportsOK /\ DiskOK
  BY Parts
<1>2. UNCHANGED <<files, exports>> => Beside
  BY <1>1, NotTorn DEF Beside, Whole
<1>3. CASE SwapOut(i)
  BY <1>3 DEF SwapOut, Beside
<1>4. CASE SwapIn(i)
  <2>1. exports' = exports
    BY <1>4 DEF SwapIn
  <2>2. CASE UNCHANGED disk
    BY <1>2, <2>1, <2>2 DEF disk
  <2>3. CASE ~ there
    <3>1. ASSUME NEW base \in Database, Whole(base, files)
          PROVE  \A b \in Atts : base.rows[b] = NoPath
      <4>1. files = NoFiles
        BY <1>1, <2>3 DEF DiskOK
      <4>2. \A b \in Atts : base.rows[b] # NoPath => base.rows[b] \in Paths
        BY PathsAre DEF Database
      <4>. QED
        BY <3>1, <4>1, <4>2, FilesAre DEF Whole
    <3>2. \A base \in Database : Whole(base, files) => Whole(base, files')
      BY <3>1 DEF Whole
    <3>. QED
      BY <1>1, <2>1, <3>2, NotTorn DEF Beside
  <2>. QED
    BY <1>4, <2>2, <2>3 DEF SwapIn, disk
<1>5. CASE Stage(i) \/ ReplaceAll(i) \/ Cleanup(i) \/ FinishImport(i)
  BY <1>2, <1>5 DEF Stage, ReplaceAll, Cleanup, FinishImport, disk
<1>6. CASE \E e \in Exports, fit \in Fits : StartImport(i, e, fit)
  BY <1>2, <1>6 DEF StartImport, disk
<1>. QED
  BY <1>3, <1>4, <1>5, <1>6 DEF ImportStep

LEMMA DocsBeside ==
  ASSUME Typed, \/ \E d \in Docs : Purge(d) \/ \E p \in Docs \cup {Root} : CreateDocument(d, p) \/ Move(d, p)
                \/ UNCHANGED vars
  PROVE  Beside /\ UNCHANGED <<disk, work, tasks, crashed, upset>>
<1>1. UNCHANGED <<disk, work, tasks, crashed, upset>>
  BY DEF Purge, CreateDocument, Move, vars, disk, tasks
<1>2. ExportsOK
  BY Parts
<1>. QED
  BY <1>1, <1>2, NotTorn DEF Beside, Whole, disk, tasks

LEMMA CrashIs ==
  ASSUME Typed, Crash
  PROVE  /\ exports' \in [Exports -> Export] /\ imports' \in [Imports -> Import]
         /\ \A e \in Exports : exports'[e].pc \in {"list", "walk", "ready"} => exports'[e] = exports[e] /\ exports[e].pc = "ready"
         /\ \A i \in Imports : ~ Active(i)' /\ imports'[i].pc \notin {"replace", "cleanup"}
         /\ \A i \in Imports : imports'[i] = imports[i] \/ imports'[i].db = Empty
         /\ UNCHANGED <<data, files, old, kept, jobs, upset>>
<1>1. ExportsOK /\ ImportsOK
  BY Parts
<1>2. [NoExport EXCEPT !.pc = "failed"] \in Export /\ [NoExport EXCEPT !.pc = "failed"].pc = "failed"
  BY NoExportIs DEF Export
<1>3. /\ [NoImport EXCEPT !.pc = "over"] \in Import /\ [NoImport EXCEPT !.pc = "over"].pc = "over"
      /\ [NoImport EXCEPT !.pc = "over"].db = Empty
  BY NoImportIs DEF Import
<1>4. exports' \in [Exports -> Export]
  BY <1>1, <1>2 DEF Crash, ExportsOK
<1>5. imports' \in [Imports -> Import]
  BY <1>1, <1>3 DEF Crash, ImportsOK
<1>6. ASSUME NEW e \in Exports, exports'[e].pc \in {"list", "walk", "ready"}
      PROVE  exports'[e] = exports[e] /\ exports[e].pc = "ready"
  BY <1>2, <1>6 DEF Crash
<1>7. ASSUME NEW i \in Imports
      PROVE  /\ imports'[i].pc \in {"idle", "over"}
             /\ imports'[i] = imports[i] \/ imports'[i].db = Empty
  BY <1>3 DEF Crash
<1>. QED
  BY <1>4, <1>5, <1>6, <1>7 DEF Crash, Active

LEMMA TypedStep ==
  ASSUME Typed, [Next]_vars
  PROVE  Typed'
<1>. SUFFICES ExportsOK' /\ ImportsOK' /\ FlagsOK'
  BY DataStep, DiskStep, WorkStep, JobsStep
     DEF Typed, TypeOK, DataOK, DiskOK, WorkOK, JobsOK, ExportsOK, ImportsOK, FlagsOK
<1>1. ExportsOK /\ ImportsOK /\ FlagsOK
  BY Parts
<1>2. Beside => ExportsOK'
  BY <1>1, TornIs DEF Beside, ExportsOK
<1>3. CASE \/ \E d \in Docs : Purge(d) \/ \E p \in Docs \cup {Root} : CreateDocument(d, p) \/ Move(d, p)
           \/ UNCHANGED vars
  BY <1>1, <1>2, <1>3, DocsBeside DEF ImportsOK, FlagsOK, tasks
<1>4. ASSUME NEW a \in Atts, AttachmentStep(a)
      PROVE  ExportsOK' /\ ImportsOK' /\ FlagsOK'
  BY <1>1, <1>2, <1>4, AttachmentStepIs DEF ImportsOK, FlagsOK
<1>5. ASSUME NEW e \in Exports, StartExport(e) \/ ExportStep(e) \/ DeleteBackupFile(e)
      PROVE  ExportsOK' /\ ImportsOK' /\ FlagsOK'
  BY <1>1, <1>5, ExportStepIs DEF ExportsOK, ImportsOK, FlagsOK
<1>6. ASSUME NEW i \in Imports, ImportStep(i) \/ \E e \in Exports, fit \in Fits : StartImport(i, e, fit)
      PROVE  ExportsOK' /\ ImportsOK' /\ FlagsOK'
  BY <1>1, <1>2, <1>6, ImportStepIs, ImportsBeside DEF ImportsOK, FlagsOK
<1>7. CASE Crash
  BY <1>1, <1>7, CrashIs DEF ExportsOK, ImportsOK, FlagsOK, Crash
<1>. QED
  BY <1>3, <1>4, <1>5, <1>6, <1>7 DEF Next

-----------------------------------------------------------------------------
(* Archives *)

ExportsGather == \A e \in Exports : ~ exports[e].torn => Gathers(exports[e])
ImportsWhole == \A i \in Imports : ~ imports[i].torn => Whole(imports[i].db, imports[i].files)

LEMMA BesideKeeps ==
  ASSUME Typed, ExportsGather, Beside
  PROVE  ExportsGather'
<1>1. ExportsOK
  BY Parts
<1>2. PICK if \in BOOLEAN : /\ exports' = Torn(if)
                            /\ ~ if => \A base \in Database : Whole(base, files) => Whole(base, files')
  BY DEF Beside
<1>3. ASSUME NEW e \in Exports, ~ exports'[e].torn
      PROVE  Gathers(exports[e])'
  <2>1. /\ exports'[e].pc = exports[e].pc /\ exports'[e].db = exports[e].db
        /\ exports'[e].files = exports[e].files /\ exports'[e].dirs = exports[e].dirs
        /\ exports'[e].todo = exports[e].todo
        /\ ~ exports[e].torn /\ (exports[e].pc \in {"list", "walk"} => ~ if)
    BY <1>1, <1>2, <1>3, TornIs DEF ExportsOK
  <2>2. Gathers(exports[e])
    BY <2>1 DEF ExportsGather
  <2>3. exports[e].db \in Database
    BY <1>1, ExportIs
  <2>4. exports'[e].pc \in {"list", "walk"} => Whole(exports'[e].db, files')
    BY <1>2, <2>1, <2>2, <2>3 DEF Gathers
  <2>. QED
    BY <2>1, <2>2, <2>4 DEF Gathers, Whole
<1>. QED
  BY <1>3 DEF ExportsGather

LEMMA ExportKeeps ==
  ASSUME Typed, ExportsGather, NEW e \in Exports, StartExport(e) \/ ExportStep(e) \/ DeleteBackupFile(e)
  PROVE  ExportsGather'
<1>. DEFINE x == exports[e]
            y == exports'[e]
<1>1. ExportsOK /\ DiskOK /\ DataOK
  BY Parts
<1>2. /\ x \in Export /\ exports \in [Exports -> Export]
      /\ \A a \in Atts : x.db.rows[a] \in Finals \cup {NoPath}
  BY <1>1, ExportIs DEF ExportsOK
<1>3. y \in Export /\ exports' = [exports EXCEPT ![e] = y] /\ files' = files
  BY ExportStepIs DEF disk
<1>4. \A f \in Exports : f # e => exports'[f] = exports[f]
  BY <1>2, <1>3
<1>5. SUFFICES ASSUME ~ y.torn PROVE Gathers(y)
  BY <1>3, <1>4 DEF ExportsGather, Gathers, Whole
<1>6. ~ x.torn => Gathers(x)
  BY DEF ExportsGather
<1>7. CASE StartExport(e) \/ BeginExport(e) \/ DeleteBackupFile(e)
  <2>1. y.pc \notin {"list", "walk", "ready"}
    BY <1>2, <1>7, NoExportIs DEF StartExport, BeginExport, DeleteBackupFile, Export
  <2>. QED
    BY <2>1 DEF Gathers
<1>8. CASE Snapshot(e)
  <2>1. CASE exports' = [exports EXCEPT ![e].pc = "list", ![e].db = db, ![e].torn = ~ Whole(db, files)]
    <3>1. y.pc = "list" /\ y.db = db /\ y.torn = ~ Whole(db, files)
      BY <1>2, <2>1 DEF Export
    <3>. QED
      BY <1>5, <3>1 DEF Gathers
  <2>2. CASE exports' = [exports EXCEPT ![e].pc = "failed"]
    BY <1>2, <2>2 DEF Export, Gathers
  <2>. QED
    BY <1>8, <2>1, <2>2 DEF Snapshot
<1>9. CASE ListRoot(e)
  <2>1. /\ x.pc = "list" /\ y.pc = "walk" /\ y.db = x.db /\ y.torn = x.torn
        /\ y.dirs = {p.doc : p \in Present(files) \ Temps}
    BY <1>2, <1>9 DEF ListRoot, Export
  <2>2. Whole(x.db, files)
    BY <1>5, <1>6, <2>1 DEF Gathers
  <2>3. ASSUME NEW a \in Atts, x.db.rows[a] # NoPath
        PROVE  x.db.rows[a].doc \in y.dirs
    <3>1. x.db.rows[a] \in Finals /\ files[x.db.rows[a]] = a
      BY <1>2, <2>2, <2>3 DEF Whole
    <3>2. x.db.rows[a] \in Present(files)
      BY <3>1, PathsAre, FilesAre DEF Present
    <3>3. x.db.rows[a] \notin Temps
      BY <3>1, PathsAre DEF Temps
    <3>. QED
      BY <2>1, <3>2, <3>3
  <2>. QED
    BY <2>1, <2>2, <2>3 DEF Gathers
<1>10. ASSUME NEW d \in Docs, ListDirectory(e, d)
       PROVE  Gathers(y)
  <2>1. /\ x.pc = "walk" /\ y.pc = "walk" /\ y.db = x.db /\ y.torn = x.torn /\ y.files = x.files
        /\ y.dirs = x.dirs \ {d}
        /\ y.todo = x.todo \cup {p \in Present(files) : p.doc = d}
    BY <1>2, <1>10 DEF ListDirectory, Export
  <2>2. Gathers(x)
    BY <1>5, <1>6, <2>1
  <2>3. Whole(x.db, files)
    BY <2>1, <2>2 DEF Gathers
  <2>4. ASSUME NEW a \in Atts, x.db.rows[a] # NoPath
        PROVE  y.db.rows[a] \in y.todo \/ y.db.rows[a].doc \in y.dirs \/ y.files[y.db.rows[a]] = a
    <3>1. x.db.rows[a] \in Finals /\ files[x.db.rows[a]] = a
      BY <1>2, <2>3, <2>4 DEF Whole
    <3>2. x.db.rows[a] \in Present(files)
      BY <3>1, PathsAre, FilesAre DEF Present
    <3>3. x.db.rows[a] \in x.todo \/ x.db.rows[a].doc \in x.dirs \/ x.files[x.db.rows[a]] = a
      BY <2>1, <2>2, <2>4 DEF Gathers
    <3>. QED
      BY <2>1, <3>2, <3>3
  <2>. QED
    BY <2>1, <2>3, <2>4 DEF Gathers
<1>11. ASSUME NEW p \in Paths, AddFile(e, p)
       PROVE  Gathers(y)
  <2>1. files[p] # None
    <3>1. CASE files[p] = None
      <4>1. y.torn = TRUE
        BY <1>2, <1>11, <3>1 DEF AddFile, Export
      <4>. QED
        BY <1>5, <4>1
    <3>. QED
      BY <3>1
  <2>2. /\ x.pc = "walk" /\ y.pc = "walk" /\ y.db = x.db /\ y.torn = x.torn
        /\ y.dirs = x.dirs /\ y.todo = x.todo \ {p}
        /\ y.files = [x.files EXCEPT ![p] = files[p]]
    BY <1>2, <1>11, <2>1 DEF AddFile, Export
  <2>3. Gathers(x)
    BY <1>5, <1>6, <2>2
  <2>4. Whole(x.db, files) /\ x.files \in Files
    BY <1>1, <2>2, <2>3, ExportIs DEF Gathers
  <2>5. ASSUME NEW a \in Atts, x.db.rows[a] # NoPath
        PROVE  y.db.rows[a] \in y.todo \/ y.db.rows[a].doc \in y.dirs \/ y.files[y.db.rows[a]] = a
    <3>1. x.db.rows[a] \in Paths /\ files[x.db.rows[a]] = a
      BY <1>2, <2>4, <2>5, PathsAre DEF Whole
    <3>2. x.db.rows[a] \in x.todo \/ x.db.rows[a].doc \in x.dirs \/ x.files[x.db.rows[a]] = a
      BY <2>2, <2>3, <2>5 DEF Gathers
    <3>3. CASE x.db.rows[a] = p
      BY <2>2, <2>4, <3>1, <3>3 DEF Files
    <3>4. CASE x.db.rows[a] # p
      BY <2>2, <2>4, <3>1, <3>2, <3>4 DEF Files
    <3>. QED
      BY <3>3, <3>4
  <2>. QED
    BY <2>2, <2>4, <2>5 DEF Gathers
<1>12. CASE FinishExport(e)
  <2>1. /\ x.pc = "walk" /\ y.pc = "ready" /\ y.db = x.db /\ y.torn = x.torn /\ y.files = x.files
        /\ x.dirs = {} /\ x.todo = {}
    BY <1>2, <1>12 DEF FinishExport, WalkIsOver, Export
  <2>. QED
    BY <1>5, <1>6, <2>1 DEF Gathers, Whole
<1>. QED
  BY <1>7, <1>8, <1>9, <1>10, <1>11, <1>12 DEF ExportStep

\* What an import is about stays what it is until its end.
LEMMA ImportStays ==
  ASSUME Typed, NEW i \in Imports, ImportStep(i)
  PROVE  /\ \/ imports'[i].db = Empty /\ imports'[i].pc = "over"
            \/ /\ imports'[i].db = imports[i].db /\ imports'[i].files = imports[i].files
               /\ imports'[i].torn = imports[i].torn
         /\ \A j \in Imports : j # i => imports'[j] = imports[j]
<1>1. ImportsOK
  BY Parts
<1>2. imports[i] \in Import /\ imports \in [Imports -> Import]
  BY <1>1 DEF ImportsOK
<1>3. CASE FinishImport(i)
  <2>1. [NoImport EXCEPT !.pc = "over"].db = Empty /\ [NoImport EXCEPT !.pc = "over"].pc = "over"
    BY NoImportIs DEF Import
  <2>. QED
    BY <1>2, <1>3, <2>1 DEF FinishImport
<1>4. CASE \E pc, f : Goes(i, pc, f)
  BY <1>2, <1>4 DEF Goes, Import
<1>5. CASE imports' = [imports EXCEPT ![i].pc = "replace", ![i].swapped = TRUE]
  BY <1>2, <1>5 DEF Import
<1>. QED
  BY <1>3, <1>4, <1>5 DEF ImportStep, Stage, SwapOut, SwapIn, ReplaceAll, Cleanup

LEMMA StartImportIs ==
  ASSUME Typed, NEW i \in Imports, NEW e \in Exports, NEW fit \in Fits, StartImport(i, e, fit)
  PROVE  /\ imports'[i].pc = "stage" /\ imports'[i].db = exports[e].db
         /\ imports'[i].files = exports[e].files /\ imports'[i].torn = exports[e].torn
         /\ \A j \in Imports : j # i => imports'[j] = imports[j]
         /\ exports[e].pc = "ready"
         /\ UNCHANGED <<data, disk, work, exports, crashed, upset>>
<1>1. imports \in [Imports -> Import]
  BY Parts DEF ImportsOK
<1>. QED
  BY <1>1, NoImportIs DEF StartImport, Import

LEMMA ArchivesStep ==
  ASSUME Typed, Archives, [Next]_vars
  PROVE  Archives'
<1>1. ExportsGather /\ ImportsWhole
  BY DEF Archives, ExportsGather, ImportsWhole
<1>. SUFFICES ExportsGather' /\ ImportsWhole'
  BY DEF Archives, ExportsGather, ImportsWhole
<1>2. UNCHANGED imports => ImportsWhole'
  BY <1>1 DEF ImportsWhole, Whole
<1>3. CASE \/ \E d \in Docs : Purge(d) \/ \E p \in Docs \cup {Root} : CreateDocument(d, p) \/ Move(d, p)
           \/ UNCHANGED vars
  BY <1>1, <1>2, <1>3, DocsBeside, BesideKeeps DEF tasks
<1>4. ASSUME NEW a \in Atts, AttachmentStep(a)
      PROVE  ExportsGather' /\ ImportsWhole'
  BY <1>1, <1>2, <1>4, AttachmentStepIs, BesideKeeps
<1>5. ASSUME NEW e \in Exports, StartExport(e) \/ ExportStep(e) \/ DeleteBackupFile(e)
      PROVE  ExportsGather' /\ ImportsWhole'
  BY <1>1, <1>2, <1>5, ExportStepIs, ExportKeeps
<1>6. ASSUME NEW i \in Imports, ImportStep(i)
      PROVE  ExportsGather' /\ ImportsWhole'
  <2>1. ExportsGather'
    BY <1>1, <1>6, ImportsBeside, BesideKeeps
  <2>2. ImportsWhole'
    BY <1>1, <1>6, ImportStays, EmptyIs DEF ImportsWhole, Whole
  <2>. QED
    BY <2>1, <2>2
<1>7. ASSUME NEW i \in Imports, NEW e \in Exports, NEW fit \in Fits, StartImport(i, e, fit)
      PROVE  ExportsGather' /\ ImportsWhole'
  <2>1. ExportsGather'
    BY <1>1, <1>7, ImportsBeside, BesideKeeps
  <2>2. ~ exports[e].torn => Whole(exports[e].db, exports[e].files)
    BY <1>1, <1>7, StartImportIs DEF ExportsGather, Gathers
  <2>3. ImportsWhole'
    BY <1>1, <1>7, <2>2, StartImportIs DEF ImportsWhole, Whole
  <2>. QED
    BY <2>1, <2>3
<1>8. CASE Crash
  <2>3. ASSUME NEW i \in Imports, ~ imports'[i].torn
        PROVE  Whole(imports'[i].db, imports'[i].files)
    BY <1>1, <1>8, <2>3, CrashIs, EmptyIs DEF ImportsWhole
  <2>1. ImportsWhole'
    BY <2>3 DEF ImportsWhole, Whole
  <2>2. ASSUME NEW e \in Exports, ~ exports'[e].torn
        PROVE  Gathers(exports[e])'
    <3>1. CASE exports'[e].pc \in {"list", "walk", "ready"}
      BY <1>1, <1>8, <2>2, <3>1, CrashIs DEF ExportsGather, Gathers, Whole
    <3>2. CASE exports'[e].pc \notin {"list", "walk", "ready"}
      BY <3>2 DEF Gathers
    <3>. QED
      BY <3>1, <3>2
  <2>. QED
    BY <2>1, <2>2 DEF ExportsGather
<1>. QED
  BY <1>3, <1>4, <1>5, <1>6, <1>7, <1>8 DEF Next

-----------------------------------------------------------------------------
(* Rows and their files *)

\* Rows may go, and nothing else.
LEMMA RowsGo ==
  ASSUME Typed, Steady, UNCHANGED <<disk, work, imports>>,
         \A a \in Atts : db'.rows[a] = db.rows[a] \/ db'.rows[a] = NoPath
  PROVE  Steady'
<1>1. UNCHANGED <<files, there, old, kept>>
  BY DEF disk
<1>2. Whole(db, files) => Whole(db, files)'
  BY <1>1 DEF Whole
<1>3. Swaps'
  <2>1. \A i \in Imports : Active(i)' <=> Active(i)
    BY DEF Active
  <2>2. Quiet' <=> Quiet
    BY DEF Quiet
  <2>. QED
    BY <1>1, <1>2, <2>1, <2>2 DEF Steady, Swaps, Present
<1>4. Claims'
  BY DEF Steady, Claims
<1>5. Bytes' /\ Kept'
  BY <1>1 DEF Steady, Bytes, Kept
<1>. QED
  BY <1>3, <1>4, <1>5 DEF Steady

\* An import is alone: beside it, uploads and deletions are upsetting.
LEMMA NoneActive ==
  ASSUME Typed, Steady, NEW a \in Atts, AttachmentStep(a), ~ upset'
  PROVE  /\ ~ upset /\ \A i \in Imports : ~ Active(i)
         /\ Swaps'
<1>1. ASSUME NEW i \in Imports, Active(i)
      PROVE  FALSE
  <2>1. work[a].pc \in {"new", "rest"}
    BY <1>1 DEF Steady, Swaps, Quiet
  <2>2. Importing
    BY <1>1 DEF Importing, Active
  <2>. QED
    BY <2>1, <2>2 DEF AttachmentStep, BeginUpload, GiveUp, Place, CreateAttachment, DeleteAttachment, Unlink, Upset
<1>2. UNCHANGED imports /\ (upset => upset')
  BY AttachmentStepIs
<1>3. \A i \in Imports : ~ Active(i)'
  BY <1>1, <1>2 DEF Active
<1>4. \A i \in Imports : imports'[i].pc \notin {"replace", "cleanup"}
  BY <1>3 DEF Active
<1>. QED
  BY <1>1, <1>2, <1>3, <1>4 DEF Swaps

LEMMA BeginUploadSteady ==
  ASSUME Typed, Steady, NEW a \in Atts, NEW d \in Docs, NEW n \in Names, BeginUpload(a, d, n), ~ upset'
  PROVE  Claims' /\ Bytes' /\ Kept'
<1>. DEFINE path == [doc |-> d, name |-> n]
<1>1. DataOK /\ DiskOK /\ WorkOK
  BY Parts
<1>2. path \in Finals
  BY DEF Finals
<1>3. /\ work' = [work EXCEPT ![a] = [pc |-> "temp", path |-> path]]
      /\ files' = [files EXCEPT ![Temp(a)] = a]
      /\ UNCHANGED <<db, old, kept>>
      /\ ~ Shared(path) /\ work[a].pc = "new"
  BY DEF BeginUpload, Upset, data
<1>. HIDE DEF path
<1>4. /\ work'[a].pc = "temp" /\ work'[a].path = path
      /\ \A b \in Atts : b # a => work'[b] = work[b]
  BY <1>1, <1>3 DEF WorkOK
<1>5. /\ files'[Temp(a)] = a
      /\ \A p \in Paths : p # Temp(a) => files'[p] = files[p]
  BY <1>1, <1>3, PathsAre DEF DiskOK, Files
<1>6. \A b \in Atts : path # work[b].path /\ path # db.rows[b]
  BY <1>3 DEF Shared
<1>7. Claims'
  BY <1>3, <1>4, <1>6 DEF Steady, Claims
<1>8. Bytes'
  <2>1. ASSUME NEW b \in Atts, b # a
        PROVE  /\ work[b].pc = "temp" => files'[Temp(b)] = b
               /\ work[b].pc = "placed" => files'[work[b].path] = b
    BY <1>1, <1>5, <2>1, WorkIs, PathsAre DEF Steady, Bytes
  <2>. QED
    BY <1>4, <1>5, <2>1 DEF Bytes
<1>9. Kept'
  <2>1. \A b \in Atts : db.rows[b] # NoPath => files'[db.rows[b]] = files[db.rows[b]]
    BY <1>1, <1>5, DatabaseIs, PathsAre
  <2>. QED
    BY <1>3, <2>1 DEF Steady, Kept
<1>. QED
  BY <1>7, <1>8, <1>9

LEMMA GiveUpSteady ==
  ASSUME Typed, Steady, NEW a \in Atts, GiveUp(a)
  PROVE  Claims' /\ Bytes' /\ Kept'
<1>1. DataOK /\ DiskOK /\ WorkOK
  BY Parts
<1>2. /\ work' = [work EXCEPT ![a] = [pc |-> "rest", path |-> NoPath]]
      /\ files' = [files EXCEPT ![Temp(a)] = None]
      /\ UNCHANGED <<db, old, kept>>
  BY DEF GiveUp, data
<1>3. /\ work'[a].pc = "rest" /\ work'[a].path = NoPath
      /\ \A b \in Atts : b # a => work'[b] = work[b]
  BY <1>1, <1>2 DEF WorkOK
<1>4. \A p \in Paths : p # Temp(a) => files'[p] = files[p]
  BY <1>1, <1>2, PathsAre DEF DiskOK, Files
<1>5. Claims'
  BY <1>2, <1>3 DEF Steady, Claims
<1>6. Bytes'
  <2>1. ASSUME NEW b \in Atts, b # a
        PROVE  /\ work[b].pc = "temp" => files'[Temp(b)] = b
               /\ work[b].pc = "placed" => files'[work[b].path] = b
    BY <1>1, <1>4, <2>1, WorkIs, PathsAre DEF Steady, Bytes
  <2>. QED
    BY <1>3, <2>1 DEF Bytes
<1>7. Kept'
  <2>1. \A b \in Atts : db.rows[b] # NoPath => files'[db.rows[b]] = files[db.rows[b]]
    BY <1>1, <1>4, DatabaseIs, PathsAre
  <2>. QED
    BY <1>2, <2>1 DEF Steady, Kept
<1>. QED
  BY <1>5, <1>6, <1>7

LEMMA PlaceSteady ==
  ASSUME Typed, Steady, NEW a \in Atts, Place(a)
  PROVE  Claims' /\ Bytes' /\ Kept'
<1>. DEFINE path == work[a].path
<1>1. DataOK /\ DiskOK /\ WorkOK
  BY Parts
<1>2. work[a].pc = "temp" /\ path \in Finals /\ files[Temp(a)] = a
  BY <1>1, WorkIs DEF Place, Steady, Bytes
<1>3. files[Temp(a)] # None
  BY <1>2, FilesAre
<1>4. /\ work' = [work EXCEPT ![a].pc = "placed"]
      /\ files' = [files EXCEPT ![Temp(a)] = None, ![path] = files[Temp(a)]]
      /\ UNCHANGED <<db, old, kept>>
  BY <1>3 DEF Place, data
<1>5. /\ work'[a].pc = "placed" /\ work'[a].path = path
      /\ \A b \in Atts : b # a => work'[b] = work[b]
  <2>1. work[a] \in Work
    BY <1>1 DEF WorkOK
  <2>. QED
    BY <1>1, <1>4, <2>1 DEF WorkOK, Work
<1>6. /\ files'[path] = a
      /\ \A p \in Paths : p # Temp(a) /\ p # path => files'[p] = files[p]
  BY <1>1, <1>2, <1>4, PathsAre DEF DiskOK, Files
<1>7. path # NoPath /\ path \in Paths /\ path # Temp(a)
  BY <1>2, PathsAre
<1>8. \A b \in Atts : path # db.rows[b] /\ (path = work[b].path => a = b)
  BY <1>7 DEF Steady, Claims
<1>. HIDE DEF path
<1>9. Claims'
  <2>1. \A b \in Atts : work'[b].path = work[b].path
    BY <1>5 DEF path
  <2>. QED
    BY <1>4, <2>1 DEF Steady, Claims
<1>10. Bytes'
  <2>1. ASSUME NEW b \in Atts, b # a
        PROVE  /\ work[b].pc = "temp" => files'[Temp(b)] = b
               /\ work[b].pc = "placed" => files'[work[b].path] = b
    <3>1. Temp(b) \in Paths /\ Temp(b) # Temp(a) /\ Temp(b) # path
      BY <1>2, <2>1, PathsAre
    <3>2. work[b].pc = "placed" => work[b].path \in Paths /\ work[b].path # Temp(a) /\ work[b].path # path
      BY <1>1, <1>8, <2>1, WorkIs, PathsAre
    <3>. QED
      BY <1>6, <3>1, <3>2 DEF Steady, Bytes
  <2>. QED
    BY <1>5, <1>6, <2>1 DEF Bytes
<1>11. Kept'
  <2>1. \A b \in Atts : db.rows[b] # NoPath => files'[db.rows[b]] = files[db.rows[b]]
    BY <1>1, <1>6, <1>8, DatabaseIs, PathsAre
  <2>. QED
    BY <1>4, <2>1 DEF Steady, Kept
<1>. QED
  BY <1>9, <1>10, <1>11

\* Where a path goes that only this work claims.
LEMMA OnePathGoes ==
  ASSUME Typed, Steady, NEW a \in Atts, work[a].path \in Finals,
         files' = [files EXCEPT ![work[a].path] = None],
         work' = [work EXCEPT ![a] = [pc |-> "rest", path |-> NoPath]],
         UNCHANGED <<db, old, kept>>
  PROVE  Claims' /\ Bytes' /\ Kept'
<1>1. DataOK /\ DiskOK /\ WorkOK
  BY Parts
<1>2. /\ work'[a].pc = "rest" /\ work'[a].path = NoPath
      /\ \A b \in Atts : b # a => work'[b] = work[b]
  BY <1>1 DEF WorkOK
<1>3. work[a].path \in Paths /\ work[a].path # NoPath
  BY PathsAre
<1>4. \A p \in Paths : p # work[a].path => files'[p] = files[p]
  BY <1>1, <1>3 DEF DiskOK, Files
<1>5. \A b \in Atts : work[a].path # db.rows[b] /\ (work[a].path = work[b].path => a = b)
  BY <1>3 DEF Steady, Claims
<1>6. Claims'
  BY <1>2 DEF Steady, Claims
<1>7. Bytes'
  <2>1. ASSUME NEW b \in Atts, b # a
        PROVE  /\ work[b].pc = "temp" => files'[Temp(b)] = b
               /\ work[b].pc = "placed" => files'[work[b].path] = b
    <3>1. Temp(b) \in Paths /\ Temp(b) # work[a].path
      BY PathsAre
    <3>2. work[b].pc = "placed" => work[b].path \in Paths /\ work[b].path # work[a].path
      BY <1>1, <1>5, <2>1, WorkIs, PathsAre
    <3>. QED
      BY <1>4, <3>1, <3>2 DEF Steady, Bytes
  <2>. QED
    BY <1>2, <2>1 DEF Bytes
<1>8. Kept'
  <2>1. \A b \in Atts : db.rows[b] # NoPath => files'[db.rows[b]] = files[db.rows[b]]
    BY <1>1, <1>4, <1>5, DatabaseIs, PathsAre
  <2>. QED
    BY <2>1 DEF Steady, Kept
<1>. QED
  BY <1>6, <1>7, <1>8

LEMMA CreateAttachmentSteady ==
  ASSUME Typed, Steady, NEW a \in Atts, CreateAttachment(a)
  PROVE  Claims' /\ Bytes' /\ Kept'
<1>. DEFINE path == work[a].path
<1>1. DataOK /\ DiskOK /\ WorkOK
  BY Parts
<1>2. work[a].pc = "placed" /\ path \in Finals /\ files[path] = a
  BY <1>1, WorkIs DEF CreateAttachment, Steady, Bytes
<1>3. /\ work' = [work EXCEPT ![a] = [pc |-> "rest", path |-> NoPath]]
      /\ UNCHANGED <<old, kept>>
  BY DEF CreateAttachment
<1>4. CASE files' = [files EXCEPT ![path] = None] /\ UNCHANGED db
  BY <1>2, <1>3, <1>4, OnePathGoes
<1>5. CASE db' = [db EXCEPT !.rows[a] = path] /\ UNCHANGED files
  <2>1. /\ work'[a].pc = "rest" /\ work'[a].path = NoPath
        /\ \A b \in Atts : b # a => work'[b] = work[b]
    BY <1>1, <1>3 DEF WorkOK
  <2>2. db'.rows[a] = path /\ \A b \in Atts : b # a => db'.rows[b] = db.rows[b]
    BY <1>1, <1>5 DEF DataOK, Database
  <2>3. path # NoPath
    BY <1>2, PathsAre
  <2>4. \A b \in Atts : path # db.rows[b] /\ (path = work[b].path => a = b)
    BY <2>3 DEF Steady, Claims
  <2>. HIDE DEF path
  <2>5. Claims'
    <3>1. ASSUME NEW b \in Atts, NEW c \in Atts
          PROVE  /\ db'.rows[b] # NoPath /\ db'.rows[b] = db'.rows[c] => b = c
                 /\ work'[b].path # NoPath => work'[b].path # db'.rows[c] /\ (work'[b].path = work'[c].path => b = c)
      <4>1. db.rows[b] # NoPath /\ db.rows[b] = db.rows[c] => b = c
        BY DEF Steady, Claims
      <4>2. work[b].path # NoPath => work[b].path # db.rows[c] /\ (work[b].path = work[c].path => b = c)
        BY DEF Steady, Claims
      <4>3. db'.rows[b] # NoPath /\ db'.rows[b] = db'.rows[c] => b = c
        BY <2>2, <2>4, <4>1
      <4>4. work'[b].path # NoPath => work'[b].path # db'.rows[c] /\ (work'[b].path = work'[c].path => b = c)
        BY <2>1, <2>2, <2>4, <4>2
      <4>. QED
        BY <4>3, <4>4
    <3>. QED
      BY <3>1 DEF Claims
  <2>6. Bytes'
    BY <1>5, <2>1 DEF Steady, Bytes
  <2>7. Kept'
    BY <1>2, <1>3, <1>5, <2>2 DEF Steady, Kept, path
  <2>. QED
    BY <2>5, <2>6, <2>7
<1>. QED
  BY <1>4, <1>5 DEF CreateAttachment

LEMMA DeleteAttachmentSteady ==
  ASSUME Typed, Steady, NEW a \in Atts, DeleteAttachment(a)
  PROVE  Claims' /\ Bytes' /\ Kept'
<1>1. DataOK /\ WorkOK
  BY Parts
<1>2. /\ work' = [work EXCEPT ![a] = [pc |-> "unlink", path |-> db.rows[a]]]
      /\ db' = [db EXCEPT !.rows[a] = NoPath]
      /\ UNCHANGED <<files, old, kept>>
  BY DEF DeleteAttachment, disk
<1>3. /\ work'[a].pc = "unlink" /\ work'[a].path = db.rows[a]
      /\ \A b \in Atts : b # a => work'[b] = work[b]
  BY <1>1, <1>2 DEF WorkOK
<1>4. db'.rows[a] = NoPath /\ \A b \in Atts : b # a => db'.rows[b] = db.rows[b]
  BY <1>1, <1>2 DEF DataOK, Database
<1>5. Claims'
  <2>1. ASSUME NEW b \in Atts, NEW c \in Atts
        PROVE  /\ db'.rows[b] # NoPath /\ db'.rows[b] = db'.rows[c] => b = c
               /\ work'[b].path # NoPath => work'[b].path # db'.rows[c] /\ (work'[b].path = work'[c].path => b = c)
    <3>1. db.rows[b] # NoPath /\ db.rows[b] = db.rows[c] => b = c
      BY DEF Steady, Claims
    <3>2. work[b].path # NoPath => work[b].path # db.rows[c] /\ (work[b].path = work[c].path => b = c)
      BY DEF Steady, Claims
    <3>3. work[c].path # NoPath => work[c].path # db.rows[b]
      BY DEF Steady, Claims
    <3>4. db'.rows[b] # NoPath /\ db'.rows[b] = db'.rows[c] => b = c
      BY <1>4, <3>1
    <3>5. work'[b].path # NoPath => work'[b].path # db'.rows[c] /\ (work'[b].path = work'[c].path => b = c)
      BY <1>3, <1>4, <3>1, <3>2, <3>3
    <3>. QED
      BY <3>4, <3>5
  <2>. QED
    BY <2>1 DEF Claims
<1>6. Bytes'
  BY <1>2, <1>3 DEF Steady, Bytes
<1>7. Kept'
  BY <1>2, <1>4 DEF Steady, Kept
<1>. QED
  BY <1>5, <1>6, <1>7

LEMMA AttachmentSteady ==
  ASSUME Typed, Steady, NEW a \in Atts, AttachmentStep(a), ~ upset'
  PROVE  Steady'
<1>1. Swaps' /\ WorkOK
  BY NoneActive, Parts
<1>2. CASE Unlink(a)
  <2>1. work[a].path \in Finals
    BY <1>1, <1>2, WorkIs DEF Unlink
  <2>2. Claims' /\ Bytes' /\ Kept'
    BY <1>2, <2>1, OnePathGoes DEF Unlink, data
  <2>. QED
    BY <1>1, <2>2 DEF Steady
<1>. QED
  BY <1>1, <1>2, BeginUploadSteady, GiveUpSteady, PlaceSteady, CreateAttachmentSteady, DeleteAttachmentSteady
     DEF AttachmentStep, Steady

\* An import that is under way stays alone when its own step touches nothing but
\* itself and leaves the others as they are.
LEMMA ImportPlaces ==
  ASSUME Typed, NEW i \in Imports, ImportStep(i)
  PROVE  /\ Stage(i) => imports'[i].pc \in {"swapout", "finish"}
         /\ SwapOut(i) => imports'[i].pc \in {"swapin", "replace"}
         /\ ReplaceAll(i) => imports'[i].pc \in {"cleanup", "finish"}
         /\ Cleanup(i) => imports'[i].pc = "finish"
         /\ FinishImport(i) => imports'[i].pc = "over"
<1>1. imports[i] \in Import /\ imports \in [Imports -> Import]
  BY Parts DEF ImportsOK
<1>2. ASSUME NEW pc, NEW f, Goes(i, pc, f)
      PROVE  imports'[i].pc = pc
  BY <1>1, <1>2 DEF Goes, Import
<1>3. FinishImport(i) => imports'[i].pc = "over"
  BY <1>1, NoImportIs DEF FinishImport, Import
<1>. QED
  BY <1>2, <1>3 DEF Stage, SwapOut, ReplaceAll, Cleanup

LEMMA ImportSteady ==
  ASSUME Typed, Archives, Steady, NEW i \in Imports, ImportStep(i), ~ upset'
  PROVE  Steady'
<1>1. DataOK /\ DiskOK /\ WorkOK /\ ImportsOK
  BY Parts
<1>2. /\ \A j \in Imports : j # i => imports'[j] = imports[j]
      /\ UNCHANGED work /\ ~ upset
  BY ImportStays, ImportStepIs
<1>3. \A j \in Imports : j # i => (Active(j)' <=> Active(j))
  BY <1>2 DEF Active
<1>4. Quiet' <=> Quiet
  BY <1>2 DEF Quiet
\* An import that is active is the only one, and nobody uploads or deletes.
<1>5. ASSUME Active(i)
      PROVE  /\ \A j \in Imports : j # i => ~ Active(j) /\ ~ Active(j)' /\ imports'[j].pc \notin {"replace", "cleanup"}
             /\ Quiet /\ Bytes'
  <2>1. Quiet /\ \A j \in Imports : j # i => ~ Active(j)
    BY <1>5 DEF Steady, Swaps
  <2>2. Bytes'
    BY <1>2, <2>1 DEF Quiet, Bytes
  <2>. QED
    BY <1>2, <1>3, <2>1, <2>2 DEF Active
<1>6. \A b \in Atts : db.rows[b] # NoPath => db.rows[b] \in Paths
  BY <1>1, DatabaseIs, PathsAre
<1>7. UNCHANGED db => Claims'
  BY <1>2 DEF Steady, Claims
<1>8. CASE Stage(i)
  <2>1. UNCHANGED <<db, files, there, old, kept>>
    BY <1>8 DEF Stage, data, disk
  <2>2. Claims' /\ Bytes' /\ Kept'
    BY <1>2, <1>7, <2>1 DEF Steady, Bytes, Kept
  <2>3. imports'[i].pc \in {"swapout", "finish"}
    BY <1>8, ImportPlaces
  <2>4. Active(i)' => Quiet /\ ~ Importing
    <3>1. CASE imports[i].fit = "manifest"
      BY <1>1, <1>8, <3>1 DEF Stage, Goes, Active, ImportsOK, Import
    <3>2. CASE imports[i].fit # "manifest"
      <4>1. ~ Importing /\ \A a \in Atts : work[a].pc \notin {"temp", "placed", "unlink"}
        BY <1>8, <3>2 DEF Stage, Upset
      <4>2. Quiet
        BY <1>1, <4>1, WorkIs DEF Quiet
      <4>. QED
        BY <4>1, <4>2
    <3>. QED
      BY <3>1, <3>2
  <2>5. Swaps'
    <3>1. \A j \in Imports : Active(j) => Importing
      BY DEF Active, Importing
    <3>2. \A j, k \in Imports : Active(j)' /\ Active(k)' => j = k
      BY <1>3, <2>4, <3>1 DEF Steady, Swaps
    <3>3. \A j \in Imports : Active(j)' => Quiet'
      BY <1>3, <1>4, <2>4 DEF Steady, Swaps
    <3>4. \A j \in Imports : j # i => imports'[j] = imports[j]
      BY <1>2
    <3>5. Whole(db, files)' <=> Whole(db, files)
      BY <2>1 DEF Whole
    <3>. QED
      BY <2>1, <2>3, <3>2, <3>3, <3>4, <3>5 DEF Steady, Swaps, Present
  <2>. QED
    BY <2>2, <2>5 DEF Steady
<1>9. CASE SwapOut(i)
  <2>1. Active(i)
    BY <1>9 DEF SwapOut, Active
  <2>2. db' = db /\ imports'[i].pc \in {"swapin", "replace"} /\ imports'[i].files = imports[i].files
    BY <1>9, ImportPlaces, ImportStays DEF SwapOut, data
  <2>3. CASE /\ old' = files /\ kept' = TRUE /\ ~ kept
             /\ files' = NoFiles /\ Goes(i, "swapin", FALSE)
    <3>1. imports'[i].pc = "swapin"
      BY <1>1, <2>3 DEF Goes, ImportsOK, Import
    <3>2. Swaps'
      BY <1>4, <1>5, <2>1, <3>1 DEF Swaps, Active
    <3>3. Kept'
      BY <2>2, <2>3 DEF Steady, Kept
    <3>. QED
      BY <1>5, <1>7, <2>1, <2>2, <3>2, <3>3 DEF Steady
  <2>4. CASE /\ Upset(Present(imports[i].files) # {}) /\ UNCHANGED disk
             /\ Goes(i, "replace", FALSE)
    <3>1. Present(imports[i].files) = {}
      BY <2>4 DEF Upset
    <3>2. imports'[i].pc = "replace" /\ Present(imports'[i].files) = {}
      BY <1>1, <2>2, <2>4, <3>1 DEF Goes, ImportsOK, Import
    <3>3. Swaps'
      BY <1>4, <1>5, <2>1, <3>2 DEF Swaps, Present
    <3>4. Kept'
      BY <2>2, <2>4 DEF Steady, Kept, disk
    <3>. QED
      BY <1>5, <1>7, <2>1, <2>2, <3>3, <3>4 DEF Steady
  <2>. QED
    BY <1>9, <2>3, <2>4 DEF SwapOut
<1>10. CASE SwapIn(i)
  <2>1. Active(i)
    BY <1>10 DEF SwapIn, Active
  <2>2. db' = db
    BY <1>10 DEF SwapIn, data
  <2>3. ~ there => \A b \in Atts : db.rows[b] # NoPath => kept /\ old[db.rows[b]] = b
    <3>1. ~ there => files = NoFiles
      BY <1>1 DEF DiskOK
    <3>. QED
      BY <1>6, <3>1, FilesAre DEF Steady, Kept
  <2>4. CASE /\ ~ there /\ files' = imports[i].files
             /\ imports' = [imports EXCEPT ![i].pc = "replace", ![i].swapped = TRUE]
             /\ UNCHANGED <<old, kept>>
    <3>1. imports'[i].pc = "replace" /\ imports'[i].swapped /\ imports'[i].files = imports[i].files
      BY <1>1, <2>4 DEF ImportsOK, Import
    <3>2. Swaps'
      BY <1>4, <1>5, <2>1, <2>4, <3>1 DEF Swaps
    <3>3. Kept'
      BY <2>2, <2>3, <2>4 DEF Kept
    <3>. QED
      BY <1>5, <1>7, <2>1, <2>2, <3>2, <3>3 DEF Steady
  <2>5. CASE /\ IF there THEN UNCHANGED disk
                         ELSE files' = old /\ there' = TRUE /\ old' = NoFiles /\ kept' = FALSE
             /\ Goes(i, "finish", TRUE)
    <3>1. imports'[i].pc = "finish"
      BY <1>1, <2>5 DEF Goes, ImportsOK, Import
    <3>2. Swaps'
      BY <1>4, <1>5, <2>1, <3>1 DEF Swaps, Active
    <3>3. Kept'
      BY <2>2, <2>3, <2>5 DEF Steady, Kept, disk
    <3>. QED
      BY <1>5, <1>7, <2>1, <2>2, <3>2, <3>3 DEF Steady
  <2>. QED
    BY <1>10, <2>4, <2>5 DEF SwapIn
<1>11. CASE ReplaceAll(i)
  <2>1. Active(i)
    BY <1>11 DEF ReplaceAll, Active
  <2>2. UNCHANGED <<files, old, kept>>
    BY <1>11 DEF ReplaceAll, disk
  <2>3. CASE Goes(i, "finish", TRUE) /\ UNCHANGED db
    <3>1. imports'[i].pc = "finish"
      BY <1>1, <2>3 DEF Goes, ImportsOK, Import
    <3>2. Swaps'
      BY <1>4, <1>5, <2>1, <3>1 DEF Swaps, Active
    <3>3. Kept'
      BY <2>2, <2>3 DEF Steady, Kept
    <3>. QED
      BY <1>5, <1>7, <2>1, <2>3, <3>2, <3>3 DEF Steady
  <2>4. CASE db' = imports[i].db /\ Goes(i, "cleanup", FALSE) /\ Upset(imports[i].torn)
    <3>1. Whole(imports[i].db, imports[i].files)
      BY <2>4 DEF Upset, Archives
    <3>2. \A b \in Atts : db'.rows[b] # NoPath => db'.rows[b] \in Paths /\ imports[i].files[db'.rows[b]] = b
      BY <1>1, <2>4, <3>1, ImportIs, PathsAre DEF Whole
    <3>3. \A b \in Atts : db'.rows[b] # NoPath => files[db'.rows[b]] = b
      <4>1. CASE files = imports[i].files
        BY <3>2, <4>1
      <4>2. CASE Present(imports[i].files) = {}
        BY <3>2, <4>2, FilesAre DEF Present
      <4>. QED
        BY <1>11, <4>1, <4>2 DEF ReplaceAll, Steady, Swaps
    <3>4. Whole(db', files') /\ Whole(db, files)'
      BY <2>2, <3>3 DEF Whole
    <3>5. imports'[i].pc = "cleanup"
      BY <1>1, <2>4 DEF Goes, ImportsOK, Import
    <3>6. Swaps'
      BY <1>4, <1>5, <2>1, <3>4, <3>5 DEF Swaps
    <3>7. Claims'
      <4>1. \A b \in Atts : work'[b].path = NoPath
        BY <1>1, <1>2, <1>5, <2>1, WorkIs DEF Quiet
      <4>2. \A b, c \in Atts : db'.rows[b] # NoPath /\ db'.rows[b] = db'.rows[c] => b = c
        BY <3>3
      <4>. QED
        BY <4>1, <4>2 DEF Claims
    <3>8. Kept'
      BY <2>2, <3>3 DEF Kept
    <3>. QED
      BY <1>5, <2>1, <3>6, <3>7, <3>8 DEF Steady
  <2>. QED
    BY <1>11, <2>3, <2>4 DEF ReplaceAll
<1>12. CASE Cleanup(i)
  <2>1. Active(i) /\ imports[i].pc = "cleanup"
    BY <1>12 DEF Cleanup, Active
  <2>2. UNCHANGED <<db, files>> /\ Whole(db, files)
    BY <1>12, <2>1 DEF Cleanup, data, Steady, Swaps
  <2>3. imports'[i].pc = "finish"
    BY <1>12, ImportPlaces
  <2>4. Swaps'
    BY <1>4, <1>5, <2>1, <2>3 DEF Swaps, Active
  <2>5. Kept'
    BY <2>2 DEF Kept, Whole
  <2>. QED
    BY <1>5, <1>7, <2>1, <2>2, <2>4, <2>5 DEF Steady
<1>13. CASE FinishImport(i)
  <2>1. UNCHANGED <<db, files, old, kept>>
    BY <1>13 DEF FinishImport, data, disk
  <2>2. imports'[i].pc = "over" /\ ~ Active(i)'
    BY <1>13, ImportPlaces DEF Active
  <2>3. Swaps'
    <3>1. Whole(db, files)' <=> Whole(db, files)
      BY <2>1 DEF Whole
    <3>. QED
      BY <1>2, <1>3, <1>4, <2>1, <2>2, <3>1 DEF Steady, Swaps, Present
  <2>. QED
    BY <1>2, <1>7, <2>1, <2>3 DEF Steady, Bytes, Kept
<1>. QED
  BY <1>8, <1>9, <1>10, <1>11, <1>12, <1>13 DEF ImportStep

LEMMA StartImportSteady ==
  ASSUME Typed, Steady, NEW i \in Imports, NEW e \in Exports, NEW fit \in Fits, StartImport(i, e, fit)
  PROVE  Steady'
<1>1. /\ imports'[i].pc = "stage" /\ \A j \in Imports : j # i => imports'[j] = imports[j]
      /\ UNCHANGED <<data, disk, work>>
  BY StartImportIs
<1>2. UNCHANGED <<db, files, old, kept, work>>
  BY <1>1 DEF data, disk
<1>3. ~ Active(i)' /\ \A j \in Imports : j # i => (Active(j)' <=> Active(j))
  BY <1>1 DEF Active
<1>4. (Whole(db, files)' <=> Whole(db, files)) /\ (Quiet' <=> Quiet)
  BY <1>2 DEF Whole, Quiet
<1>5. Swaps'
  BY <1>1, <1>2, <1>3, <1>4 DEF Steady, Swaps, Present
<1>. QED
  BY <1>2, <1>5 DEF Steady, Claims, Bytes, Kept

LEMMA CrashSteady ==
  ASSUME Typed, Steady, Crash
  PROVE  Steady'
<1>1. WorkOK
  BY Parts
<1>2. UNCHANGED <<db, files, old, kept>> /\ \A i \in Imports : ~ Active(i)' /\ imports'[i].pc \notin {"replace", "cleanup"}
  BY CrashIs DEF data
<1>3. \A a \in Atts : work'[a].path = NoPath /\ work'[a].pc \in {"new", "rest"}
  <2>1. \A a \in Atts : work'[a] = IF work[a].pc = "new" THEN work[a] ELSE [pc |-> "rest", path |-> NoPath]
    BY DEF Crash
  <2>2. ASSUME NEW a \in Atts
        PROVE  work'[a].path = NoPath /\ work'[a].pc \in {"new", "rest"}
    <3>1. CASE work[a].pc = "new"
      BY <1>1, <2>1, <3>1, WorkIs
    <3>2. CASE work[a].pc # "new"
      BY <2>1, <3>2
    <3>. QED
      BY <3>1, <3>2
  <2>. QED
    BY <2>2
<1>4. Claims' /\ Bytes' /\ Kept'
  BY <1>2, <1>3 DEF Steady, Claims, Bytes, Kept
<1>5. Swaps'
  BY <1>2 DEF Swaps
<1>. QED
  BY <1>4, <1>5 DEF Steady

LEMMA SteadyStep ==
  ASSUME Typed, Archives, ~ upset => Steady, [Next]_vars, ~ upset'
  PROVE  Steady'
<1>1. ASSUME \/ \E d \in Docs : Purge(d) \/ \E p \in Docs \cup {Root} : CreateDocument(d, p) \/ Move(d, p)
             \/ UNCHANGED vars
      PROVE  Steady'
  <2>1. UNCHANGED <<disk, work, imports>> /\ ~ upset
    BY <1>1, DocsBeside DEF tasks
  <2>2. DataOK
    BY Parts
  <2>3. \A a \in Atts : db'.rows[a] = db.rows[a] \/ db'.rows[a] = NoPath
    BY <1>1, <2>2 DEF Purge, CreateDocument, Move, DataOK, Database, vars, data
  <2>. QED
    BY <2>1, <2>3, RowsGo
<1>2. ASSUME NEW a \in Atts, AttachmentStep(a)
      PROVE  Steady'
  BY <1>2, AttachmentStepIs, AttachmentSteady
<1>3. ASSUME NEW e \in Exports, StartExport(e) \/ ExportStep(e) \/ DeleteBackupFile(e)
      PROVE  Steady'
  <2>1. UNCHANGED <<data, disk, work, imports, upset>>
    BY <1>3, ExportStepIs
  <2>. QED
    BY <2>1, RowsGo DEF data
<1>4. ASSUME NEW i \in Imports, ImportStep(i)
      PROVE  Steady'
  BY <1>4, ImportStepIs, ImportSteady
<1>5. ASSUME NEW i \in Imports, NEW e \in Exports, NEW fit \in Fits, StartImport(i, e, fit)
      PROVE  Steady'
  BY <1>5, StartImportIs, StartImportSteady
<1>6. CASE Crash
  BY <1>6, CrashSteady DEF Crash
<1>. QED
  BY <1>1, <1>2, <1>3, <1>4, <1>5, <1>6 DEF Next

-----------------------------------------------------------------------------
(* The results *)

LEMMA SoundInit == ASSUME Init PROVE Sound
<1>1. work \in [Atts -> Work] /\ PathsOfWork
  BY DEF Init, Work, PathsOfWork
<1>2. jobs \in [Exports \cup Imports -> Statuses]
  BY DEF Init, Statuses
<1>3. TypeOK
  BY <1>1, <1>2, EmptyIs, FilesAre, NoExportIs, NoImportIs DEF Init, TypeOK
<1>4. Archives
  BY EmptyIs, NoExportIs, NoImportIs DEF Init, Archives, Gathers
<1>5. db.rows = [a \in Atts |-> NoPath]
  BY DEF Init, Empty
<1>6. Claims /\ Bytes /\ Kept
  BY <1>5 DEF Init, Claims, Bytes, Kept
<1>7. Swaps
  BY NoImportIs DEF Init, Swaps, Active
<1>. QED
  BY <1>1, <1>3, <1>4, <1>6, <1>7 DEF Sound, Typed, Steady

LEMMA SoundStep == ASSUME Sound, [Next]_vars PROVE Sound'
<1>1. Typed'
  BY TypedStep DEF Sound
<1>2. Archives'
  BY ArchivesStep DEF Sound
<1>3. ~ upset' => Steady'
  BY SteadyStep DEF Sound
<1>. QED
  BY <1>1, <1>2, <1>3 DEF Sound

THEOREM SoundHolds == Spec => []Sound
  BY SoundInit, SoundStep, PTL DEF Spec

\* The types, with what a missing directory and a missing .pre-import hold: nothing.
THEOREM TypeHolds == Spec => []TypeOK
<1>1. Sound => TypeOK
  BY DEF Sound, Typed
<1>. QED
  BY <1>1, SoundHolds, PTL

\* A row of the attachments never outlives its file, whatever crashes, fails, is
\* purged, exported or imported (service.go 279-303, attachments.go 97 and 176).
THEOREM RowsKeepFiles == Spec => []RowsHaveFiles
<1>1. Sound => RowsHaveFiles
  BY DEF Sound, Steady, Kept, RowsHaveFiles
<1>. QED
  BY <1>1, SoundHolds, PTL

\* What is not removed while it is exported is in the archive (service.go 92-118).
THEOREM ArchivesWhole == Spec => []ArchivesAreWhole
<1>1. Sound => ArchivesAreWhole
  BY DEF Sound, Archives, Gathers, ArchivesAreWhole
<1>. QED
  BY <1>1, SoundHolds, PTL
=============================================================================
