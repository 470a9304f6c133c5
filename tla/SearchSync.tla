---------------------------- MODULE SearchSync -----------------------------
(***************************************************************************)
(* How the full-text index of Element Wiki follows the database: requests  *)
(* write the documents, then bring the index up to date themselves; where  *)
(* that fails they leave a job to the rebuild worker.                      *)
(*                                                                         *)
(* A document is its state and the number of times its title or HEAD has   *)
(* changed; the tree is fixed (Below).  Each call of the database or of    *)
(* the index is one action.                                                *)
(***************************************************************************)
EXTENDS Naturals, Sequences, FiniteSets

CONSTANTS
    Docs,       \* document ids
    Below,      \* for each document, the documents of its subtree
    Requests,   \* slots for HTTP requests in flight
    MaxEdits,   \* bound: number of a document's last edit
    MaxJobs,    \* bound: rows of search_reindex_jobs
    MaxFaults   \* bound: failed calls, clients that go away and crashes

All == "every document"
NoEntry == 0
Blank == MaxEdits + 1   \* the empty text, which nobody committed

ASSUME BelowAssumption == Below \in [Docs -> SUBSET Docs]
ASSUME AllAssumption == All \notin Docs
ASSUME LimitsAssumption == MaxEdits \in Nat \ {0} /\ MaxJobs \in Nat /\ MaxFaults \in Nat

VARIABLES
    state,      \* alive, trashed or gone
    text,       \* number of the last edit of title or HEAD
    index,      \* number of the edit that the index holds, or NoEntry
    jobs,       \* search_reindex_jobs in the order of created_at
    reqs,       \* requests in flight
    worker,     \* the rebuild worker
    quiet,      \* documents listed by the last full rebuild, which read them all,
                \* and touched by no request since
    faults      \* how many faults there have been

vars == <<state, text, index, jobs, reqs, worker, quiet, faults>>
rows == <<state, text>>

States == {"alive", "trashed", "gone"}
Job == [doc: Docs \cup {All}, reason: {"update", "delete", "corrupt", "manual"},
        status: {"pending", "running", "done", "failed"}]

In(st) == {d \in Docs : state[d] = st}

\* A request: "then" is the step that starts the next document of todo, or
\* "list" where the rest of a restored subtree is still to be read.
Request == [pc: {"idle", "trash", "purge", "get", "head", "blob", "index", "remove",
                 "enqueue", "list"},
            then: {"get", "remove", "list"}, doc: Docs \cup {All}, snap: Nat,
            todo: SUBSET Docs, reason: {"update", "delete", "corrupt"},
            client: {"there", "away"}]

Start(pc, then, d) == [pc |-> pc, then |-> then, doc |-> d, snap |-> 0, todo |-> {},
                       reason |-> "update", client |-> "there"]

Over == Start("idle", "get", All)

Worker == [pc: {"idle", "look", "load", "head", "put", "delete", "finish"},
           job: Nat, doc: Docs \cup {All}, snap: Nat, todo: SUBSET Docs, ok: BOOLEAN]

Waiting == [pc |-> "idle", job |-> 0, doc |-> All, snap |-> 0, todo |-> {}, ok |-> TRUE]

-----------------------------------------------------------------------------
(* Requests *)

Busy(q) == q.pc # "idle"

\* The context of a request whose client went away stops every call of the
\* database; those of the index do not look at it.
At(q, pc) == q.pc = pc /\ q.client = "there"

\* The states of a request that is done with its document.
Onward(q) ==
    IF q.todo # {}
    THEN {[q EXCEPT !.pc = q.then, !.doc = d, !.todo = @ \ {d}, !.snap = 0] : d \in q.todo}
    ELSE {IF q.then = "list" THEN [q EXCEPT !.pc = "list", !.snap = 0] ELSE Over}

GoOn(r, q) == reqs' = [reqs EXCEPT ![r] = q]
GoOnward(r) == \E q \in Onward(reqs[r]) : GoOn(r, q)

\* Commit, Revert and RenameDocument: the write, then reindexSnapshot.
Edit(r) ==
    /\ ~ Busy(reqs[r])
    /\ \E d \in In("alive") :
          /\ text[d] < MaxEdits
          /\ text' = [text EXCEPT ![d] = @ + 1]
          /\ GoOn(r, Start("get", "get", d))
          /\ quiet' = quiet \ {d}
    /\ UNCHANGED <<state, index, jobs, worker, faults>>

\* Mutant: of the subtree only the root leaves the index.
BeginTrashRoot(r) ==
    /\ ~ Busy(reqs[r])
    /\ \E d \in In("alive") : GoOn(r, [Start("trash", "remove", d) EXCEPT !.todo = {d}])
    /\ UNCHANGED <<rows, index, jobs, worker, quiet, faults>>

\* TrashDocument and PurgeDocument read the ids of the subtree ...
BeginTrash(r) ==
    /\ ~ Busy(reqs[r])
    /\ \E d \in In("alive") :
          GoOn(r, [Start("trash", "remove", d) EXCEPT !.todo = Below[d] \cap In("alive")])
    /\ UNCHANGED <<rows, index, jobs, worker, quiet, faults>>

BeginPurge(r) ==
    /\ ~ Busy(reqs[r])
    /\ \E d \in In("trashed") :
          GoOn(r, [Start("purge", "remove", d) EXCEPT !.todo = Below[d] \cap In("trashed")])
    /\ UNCHANGED <<rows, index, jobs, worker, quiet, faults>>

\* ... and change the rows in a second statement, before removeIndexed.
Trash(r) ==
    /\ At(reqs[r], "trash")
    /\ state' = [d \in Docs |-> IF d \in Below[reqs[r].doc] \cap In("alive")
                                THEN "trashed" ELSE state[d]]
    /\ GoOnward(r)
    /\ quiet' = quiet \ Below[reqs[r].doc]
    /\ UNCHANGED <<text, index, jobs, worker, faults>>

\* A row that stays alive below makes the purge fail.
Purge(r) ==
    /\ At(reqs[r], "purge")
    /\ \/ /\ state[reqs[r].doc] = "trashed"
          /\ Below[reqs[r].doc] \cap In("alive") = {}
          /\ state' = [d \in Docs |-> IF d \in Below[reqs[r].doc] THEN "gone" ELSE state[d]]
          /\ GoOnward(r)
          /\ quiet' = quiet \ Below[reqs[r].doc]
       \/ /\ state[reqs[r].doc] # "trashed" \/ Below[reqs[r].doc] \cap In("alive") # {}
          /\ GoOn(r, Over)
          /\ UNCHANGED <<state, quiet>>
    /\ UNCHANGED <<text, index, jobs, worker, faults>>

\* RestoreDocument: RestoreSubtree, then the root, then the rest of the subtree.
Restore(r) ==
    /\ ~ Busy(reqs[r])
    /\ \E d \in In("trashed") :
          /\ state' = [e \in Docs |-> IF e \in Below[d] \cap In("trashed")
                                      THEN "alive" ELSE state[e]]
          /\ GoOn(r, Start("get", "list", d))
          /\ quiet' = quiet \ Below[d]
    /\ UNCHANGED <<text, index, jobs, worker, faults>>

ListRest(r) ==
    LET q == reqs[r]
        rest == [q EXCEPT !.then = "get",
                          !.todo = (Below[q.doc] \cap In("alive")) \ {q.doc}]
    IN
    /\ At(q, "list")
    /\ \E next \in Onward(rest) : GoOn(r, next)
    /\ UNCHANGED <<rows, index, jobs, worker, quiet, faults>>

-----------------------------------------------------------------------------
(* reindexSnapshot and removeIndexed *)

Get(r) ==
    LET q == reqs[r] IN
    /\ At(q, "get")
    /\ \/ state[q.doc] # "alive" /\ GoOnward(r)
       \/ /\ state[q.doc] = "alive"
          /\ GoOn(r, [q EXCEPT !.pc = "head", !.snap = text[q.doc]])
    /\ UNCHANGED <<rows, index, jobs, worker, quiet, faults>>

\* The commit of a HEAD read earlier is there unless later commits trimmed it or
\* the document was purged.
MayBeTrimmed(d, snap) == text[d] > snap \/ state[d] = "gone"

\* GetCommit: where the commit is missing a job is to be queued.
GetCommit(r) ==
    LET q == reqs[r] IN
    /\ At(q, "head")
    /\ \/ state[q.doc] # "gone" /\ GoOn(r, [q EXCEPT !.pc = "blob"])
       \/ /\ MayBeTrimmed(q.doc, q.snap)
          /\ GoOn(r, [q EXCEPT !.pc = "enqueue", !.reason = "corrupt"])
    /\ UNCHANGED <<rows, index, jobs, worker, quiet, faults>>

\* GetBlob: its error is dropped, and the empty text is indexed.  A blob whose
\* last commit is gone may be collected at any time.
GetBlob(r) ==
    LET q == reqs[r] IN
    /\ At(q, "blob")
    /\ \/ GoOn(r, [q EXCEPT !.pc = "index"])
       \/ /\ MayBeTrimmed(q.doc, q.snap)
          /\ GoOn(r, [q EXCEPT !.pc = "index", !.snap = Blank])
    /\ UNCHANGED <<rows, index, jobs, worker, quiet, faults>>

IndexDoc(r) ==
    LET q == reqs[r] IN
    /\ q.pc = "index"
    /\ index' = [index EXCEPT ![q.doc] = q.snap]
    /\ GoOnward(r)
    /\ quiet' = quiet \ {q.doc}
    /\ UNCHANGED <<rows, jobs, worker, faults>>

DeleteDoc(r) ==
    LET q == reqs[r] IN
    /\ q.pc = "remove"
    /\ index' = [index EXCEPT ![q.doc] = NoEntry]
    /\ GoOnward(r)
    /\ quiet' = quiet \ {q.doc}
    /\ UNCHANGED <<rows, jobs, worker, faults>>

\* Mutant: the failure is logged and no job is left.
IndexFailsSilently(r) ==
    /\ reqs[r].pc \in {"index", "remove"} /\ faults < MaxFaults
    /\ GoOnward(r)
    /\ faults' = faults + 1
    /\ UNCHANGED <<rows, index, jobs, worker, quiet>>

\* The index refuses a write: a job is to be queued.
IndexFails(r) ==
    LET q == reqs[r] IN
    /\ q.pc \in {"index", "remove"} /\ faults < MaxFaults
    /\ GoOn(r, [q EXCEPT !.pc = "enqueue",
                         !.reason = IF q.pc = "index" THEN "update" ELSE "delete"])
    /\ faults' = faults + 1
    /\ UNCHANGED <<rows, index, jobs, worker, quiet>>

Enqueue(r) ==
    LET q == reqs[r] IN
    /\ At(q, "enqueue") /\ Len(jobs) < MaxJobs
    /\ jobs' = Append(jobs, [doc |-> q.doc, reason |-> q.reason, status |-> "pending"])
    /\ GoOnward(r)
    /\ UNCHANGED <<rows, index, worker, quiet, faults>>

\* A client goes away.
Leave(r) ==
    /\ Busy(reqs[r]) /\ reqs[r].client = "there" /\ faults < MaxFaults
    /\ GoOn(r, [reqs[r] EXCEPT !.client = "away"])
    /\ faults' = faults + 1
    /\ UNCHANGED <<rows, index, jobs, worker, quiet>>

\* A call of the database fails, as every one does once the client is away: a
\* request that has not written ends; a row that cannot be read and a job that
\* cannot be queued are passed over; an error of GetBlob is dropped.
CallFails(r) ==
    LET q == reqs[r] IN
    /\ \/ q.client = "away" /\ UNCHANGED faults
       \/ q.client = "there" /\ faults < MaxFaults /\ faults' = faults + 1
    /\ \/ q.pc \in {"trash", "purge", "list"} /\ GoOn(r, Over)
       \/ q.pc \in {"get", "enqueue"} /\ GoOnward(r)
       \/ q.pc = "head" /\ GoOn(r, [q EXCEPT !.pc = "enqueue", !.reason = "corrupt"])
       \/ q.pc = "blob" /\ GoOn(r, [q EXCEPT !.pc = "index", !.snap = Blank])
    /\ UNCHANGED <<rows, index, jobs, worker, quiet>>

\* handleRebuildRequest.
RequestRebuild ==
    /\ Len(jobs) < MaxJobs
    /\ jobs' = Append(jobs, [doc |-> All, reason |-> "manual", status |-> "pending"])
    /\ UNCHANGED <<rows, index, reqs, worker, quiet, faults>>

-----------------------------------------------------------------------------
(* The rebuild worker *)

Pending == {i \in DOMAIN jobs : jobs[i].status = "pending"}
Its(w) == jobs[w.job]

Work(w) == worker' = w /\ UNCHANGED <<rows, reqs, faults>>


\* PopPending: the oldest pending job.
Pop ==
    /\ worker.pc = "idle"
    /\ \E i \in Pending :
          /\ \A j \in Pending : i <= j
          /\ jobs' = [jobs EXCEPT ![i].status = "running"]
          /\ Work([worker EXCEPT !.pc = "look", !.job = i, !.ok = TRUE])
    /\ UNCHANGED <<index, quiet>>

Ended(w, ok) == [Waiting EXCEPT !.pc = "finish", !.job = w.job, !.ok = ok]

\* The states of the worker that is done with its document.
Done(w) ==
    IF w.todo # {}
    THEN {[w EXCEPT !.pc = "load", !.doc = d, !.todo = @ \ {d}, !.snap = 0] : d \in w.todo}
    ELSE {Ended(w, w.ok)}

\* rebuildAll passes over a document it cannot load; another job fails.
Skip(w) == IF Its(w).doc = All THEN Done(w) ELSE {Ended(w, FALSE)}

\* ListAliveIDs for a full rebuild, Get for one document.
Look ==
    LET d == Its(worker).doc IN
    /\ worker.pc = "look"
    /\ \/ /\ d = All
          /\ \E w \in Done([worker EXCEPT !.todo = In("alive")]) : Work(w)
          /\ quiet' = In("alive")
       \/ /\ d # All
          /\ \E w \in {[worker EXCEPT !.doc = d, !.todo = {},
                                      !.pc = IF state[d] = "gone" THEN "delete" ELSE "load"]} :
                Work(w)
          /\ UNCHANGED quiet
    /\ UNCHANGED <<index, jobs>>

\* LoadDoc: the row, trashed or alive, then its commit.
Load ==
    /\ worker.pc = "load"
    /\ \/ state[worker.doc] = "gone" /\ \E w \in Skip(worker) : Work(w)
       \/ /\ state[worker.doc] # "gone"
          /\ Work([worker EXCEPT !.pc = "head", !.snap = text[worker.doc]])
    /\ UNCHANGED <<index, jobs, quiet>>

LoadHead ==
    /\ worker.pc = "head"
    /\ \/ state[worker.doc] # "gone" /\ Work([worker EXCEPT !.pc = "put"])
       \/ MayBeTrimmed(worker.doc, worker.snap) /\ \E w \in Skip(worker) : Work(w)
    /\ UNCHANGED <<index, jobs, quiet>>

\* Mutant: rebuildAll stops after its first document.
PutFirst ==
    /\ worker.pc = "put"
    /\ index' = [index EXCEPT ![worker.doc] = worker.snap]
    /\ Work(Ended(worker, TRUE))
    /\ UNCHANGED <<jobs, quiet>>

Put ==
    /\ worker.pc = "put"
    /\ index' = [index EXCEPT ![worker.doc] = worker.snap]
    /\ \E w \in Done(worker) : Work(w)
    /\ UNCHANGED <<jobs, quiet>>

Delete ==
    /\ worker.pc = "delete"
    /\ index' = [index EXCEPT ![worker.doc] = NoEntry]
    /\ Work(Ended(worker, TRUE))
    /\ UNCHANGED <<jobs, quiet>>

\* An index that refuses the write fails the job, a full rebuild as a whole.
WorkRefused ==
    /\ worker.pc \in {"put", "delete"} /\ faults < MaxFaults
    /\ worker' = Ended(worker, FALSE)
    /\ faults' = faults + 1
    /\ UNCHANGED <<rows, index, jobs, reqs, quiet>>

\* A call of the database fails.  ListAliveIDs: the job fails.  Get, for whatever
\* reason: the document leaves the index.  LoadDoc: the document is passed over.
\* FinishReindexJob: the error is logged and the job stays running.
WorkFails ==
    LET d == Its(worker).doc IN
    /\ faults < MaxFaults /\ faults' = faults + 1
    /\ \/ /\ worker.pc = "look"
          /\ worker' = IF d = All
                       THEN Ended(worker, FALSE)
                       ELSE [worker EXCEPT !.pc = "delete", !.doc = d, !.todo = {}]
          /\ UNCHANGED quiet
       \/ /\ worker.pc \in {"load", "head"}
          /\ worker' \in Skip(worker)
          /\ quiet' = quiet \ {worker.doc}
       \/ /\ worker.pc = "finish"
          /\ worker' = Waiting
          /\ UNCHANGED quiet
    /\ UNCHANGED <<rows, index, jobs, reqs>>

\* Mutant: the status is none that the table allows.
FinishUnlisted ==
    /\ worker.pc = "finish"
    /\ jobs' = [jobs EXCEPT ![worker.job].status = IF worker.ok THEN "finished" ELSE "failed"]
    /\ Work(Waiting)
    /\ UNCHANGED <<index, quiet>>

FinishReindexJob ==
    /\ worker.pc = "finish"
    /\ jobs' = [jobs EXCEPT ![worker.job].status = IF worker.ok THEN "done" ELSE "failed"]
    /\ Work(Waiting)
    /\ UNCHANGED <<index, quiet>>

\* The process dies and starts again: rows, jobs and index are on disk.
Crash ==
    /\ faults < MaxFaults
    /\ reqs' = [r \in Requests |-> Over] /\ worker' = Waiting
    /\ faults' = faults + 1
    /\ UNCHANGED <<rows, index, jobs, quiet>>

-----------------------------------------------------------------------------
Init ==
    /\ state = [d \in Docs |-> "alive"]
    /\ text = [d \in Docs |-> 1] /\ index = text
    /\ jobs = << >>
    /\ reqs = [r \in Requests |-> Over] /\ worker = Waiting
    /\ quiet = {} /\ faults = 0

Step(r) ==
    \/ Edit(r) \/ BeginTrash(r) \/ Trash(r) \/ BeginPurge(r) \/ Purge(r)
    \/ Restore(r) \/ ListRest(r)
    \/ Get(r) \/ GetCommit(r) \/ GetBlob(r) \/ IndexDoc(r) \/ DeleteDoc(r)
    \/ IndexFails(r) \/ Enqueue(r) \/ Leave(r) \/ CallFails(r)

WorkerStep ==
    \/ Pop \/ Look \/ Load \/ LoadHead \/ Put \/ Delete \/ FinishReindexJob

Next ==
    \/ \E r \in Requests : Step(r)
    \/ RequestRebuild \/ WorkerStep \/ WorkRefused \/ WorkFails \/ Crash

Spec == Init /\ [][Next]_vars

\* RunRebuildWorker takes jobs on every tick until none is left.
FairSpec == Spec /\ WF_vars(WorkerStep)

\* The behaviours in which one request or one job is at work at a time, the
\* database fails no call, no client goes away and the process does not die; the
\* index may refuse what a request writes, and serves the worker.
NextAlone ==
    \/ \E r \in Requests :
          /\ Step(r) /\ ~ Leave(r) /\ ~ CallFails(r)
          /\ worker.pc = "idle"
          /\ \A s \in Requests \ {r} : ~ Busy(reqs[s])
    \/ RequestRebuild
    \/ /\ WorkerStep
       /\ \A r \in Requests : ~ Busy(reqs[r])

Alone == Init /\ [][NextAlone]_vars

\* The same, where the index may refuse the worker too.
Refusing == Init /\ [][NextAlone \/ WorkRefused]_vars

-----------------------------------------------------------------------------
(* Properties *)

TypeOK ==
    /\ state \in [Docs -> States]
    /\ text \in [Docs -> Nat] /\ index \in [Docs -> Nat]
    /\ jobs \in Seq(Job)
    /\ reqs \in [Requests -> Request]
    /\ \A r \in Requests : Busy(reqs[r]) => reqs[r].doc \in Docs
    /\ worker \in Worker
    /\ worker.pc # "idle" => worker.job \in DOMAIN jobs
    /\ worker.pc \in {"load", "head", "put", "delete"} => worker.doc \in Docs
    /\ quiet \in SUBSET Docs /\ faults \in Nat

\* The index holds nothing but what was committed (AR-03, doc/00:40: it can be rebuilt
\* from the database).  The code breaks it, for indexer.go:44 drops the error of
\* GetBlob: the empty text is indexed and no job is queued.
IndexHasCommitted == \A d \in Docs : index[d] <= text[d]

\* A full rebuild that ends as done leaves every document it listed in the index as
\* it is (doc/ROADMAP.md:80), whatever requests do to the others meanwhile, but for
\* those that it could not read or that a request touched since it began.
RebuildCatchesUp ==
    [][FinishReindexJob /\ Its(worker).doc = All /\ worker.ok
       => \A d \in quiet : state[d] = "alive" /\ index[d] = text[d]]_vars


\* Every job ends as done or failed: a job that was queued compensates the failed
\* update in the background (doc/00:92), also when the process restarts.
JobsEnd ==
    \A i \in 1..MaxJobs :
        i \in Pending ~> i \in DOMAIN jobs /\ jobs[i].status \in {"done", "failed"}

Resting == worker.pc = "idle" /\ \A r \in Requests : ~ Busy(reqs[r])

\* A job for d is in the queue: the worker takes no other.
HasJob(d) == \E i \in Pending : jobs[i].doc = d

\* SE-02 (doc/00:92): a save updates the index, and where that fails a job makes
\* up for it.  Under Alone: a job that fails in its turn is not tried again, and
\* then the code loses the update.
SavedIsIndexed ==
    Resting => \A d \in In("alive") : index[d] = text[d] \/ HasJob(d) \/ HasJob(All)

\* trash.go:36: as long as the index refuses nothing, what a request took out of the
\* tree, the whole subtree, is out of the index when the request is over, and no
\* job or rebuild brings it back.
BinIsOut ==
    Resting /\ faults = 0 => \A d \in Docs : state[d] # "alive" => index[d] = NoEntry

\* trash.go:36: what leaves the tree leaves the index, at the latest when the
\* delete job has run.
BinIsNotIndexed ==
    Resting => \A d \in Docs : state[d] # "alive" => index[d] = NoEntry \/ HasJob(d)
=============================================================================
