-------------------------- MODULE SearchSyncProofs -------------------------
(***************************************************************************)
(* What holds of the index and its jobs for every number of documents,     *)
(* requests, edits, jobs and faults.                                       *)
(***************************************************************************)
EXTENDS SearchSync, SequenceTheorems, TLAPS

(***************************************************************************)
(* Types.  What a request or the worker becomes after a document is typed  *)
(* whatever comes next.                                                    *)
(***************************************************************************)

LEMMA OverTyped == Over \in Request /\ Over.pc = "idle"
BY DEF Over, Start, Request

LEMMA OnwardTyped ==
    ASSUME NEW q \in Request, q.doc \in Docs, NEW p \in Onward(q)
    PROVE  p \in Request /\ (Busy(p) => p.doc \in Docs)
<1>1. CASE q.todo # {}
  <2>1. PICK d \in q.todo :
            p = [q EXCEPT !.pc = q.then, !.doc = d, !.todo = @ \ {d}, !.snap = 0]
    BY <1>1 DEF Onward
  <2>2. d \in Docs /\ q.todo \ {d} \in SUBSET Docs
    BY <2>1 DEF Request
  <2> QED
    BY <2>1, <2>2 DEF Request
<1>2. CASE q.todo = {}
  <2>1. p = [q EXCEPT !.pc = "list", !.snap = 0] \/ p = Over
    BY <1>2 DEF Onward
  <2>2. [q EXCEPT !.pc = "list", !.snap = 0] \in Request
        /\ [q EXCEPT !.pc = "list", !.snap = 0].doc = q.doc
    BY DEF Request
  <2> QED
    BY <2>1, <2>2, OverTyped DEF Busy
<1> QED
  BY <1>1, <1>2

LEMMA BlankTyped == Blank \in Nat
BY LimitsAssumption DEF Blank

LEMMA StartTyped ==
    ASSUME NEW d \in Docs, NEW pc \in {"trash", "purge", "get", "list"},
           NEW then \in {"get", "remove", "list"}
    PROVE  Start(pc, then, d) \in Request /\ Start(pc, then, d).doc = d
BY DEF Start, Request

LEMMA WaitingTyped == Waiting \in Worker /\ Waiting.pc = "idle"
BY DEF Waiting, Worker

LEMMA EndedTyped ==
    ASSUME NEW w \in Worker, NEW ok \in BOOLEAN
    PROVE  /\ Ended(w, ok) \in Worker
           /\ Ended(w, ok).job = w.job /\ Ended(w, ok).pc = "finish"
           /\ Ended(w, ok).ok <=> ok
BY DEF Ended, Waiting, Worker

LEMMA DoneTyped ==
    ASSUME NEW w \in Worker, NEW v \in Done(w)
    PROVE  v \in Worker /\ v.job = w.job /\ (v.ok <=> w.ok) /\ v.pc \in {"load", "finish"}
           /\ (v.pc = "load" => v.doc \in Docs)
<1>1. CASE w.todo # {}
  <2>1. PICK d \in w.todo :
            v = [w EXCEPT !.pc = "load", !.doc = d, !.todo = @ \ {d}, !.snap = 0]
    BY <1>1 DEF Done
  <2>2. d \in Docs /\ w.todo \ {d} \in SUBSET Docs
    BY <2>1 DEF Worker
  <2> QED
    BY <2>1, <2>2 DEF Worker
<1>2. CASE w.todo = {}
  <2>1. v = Ended(w, w.ok) /\ w.ok \in BOOLEAN
    BY <1>2 DEF Done, Worker
  <2> QED
    BY <2>1, EndedTyped
<1> QED
  BY <1>1, <1>2

LEMMA SkipTyped ==
    ASSUME NEW w \in Worker, NEW v \in Skip(w)
    PROVE  v \in Worker /\ v.job = w.job /\ v.pc \in {"load", "finish"}
           /\ (v.pc = "load" => v.doc \in Docs)
<1>1. CASE Its(w).doc = All
  BY <1>1, DoneTyped DEF Skip
<1>2. CASE Its(w).doc # All
  BY <1>2, EndedTyped DEF Skip
<1> QED
  BY <1>1, <1>2

\* The types of the parts, each of its own.
RowsOK == state \in [Docs -> States] /\ text \in [Docs -> Nat] /\ index \in [Docs -> Nat]
ReqsOK == reqs \in [Requests -> Request]
          /\ \A r \in Requests : Busy(reqs[r]) => reqs[r].doc \in Docs
WorkerOK == /\ jobs \in Seq(Job)
            /\ worker \in Worker
            /\ worker.pc # "idle" => worker.job \in DOMAIN jobs
            /\ worker.pc \in {"load", "head", "put", "delete"} => worker.doc \in Docs

LEMMA TypeParts ==
    TypeOK <=> RowsOK /\ ReqsOK /\ WorkerOK /\ quiet \in SUBSET Docs /\ faults \in Nat
BY DEF TypeOK, RowsOK, ReqsOK, WorkerOK

LEMMA GoOnTyped ==
    ASSUME ReqsOK, NEW r \in Requests, NEW q \in Request, Busy(q) => q.doc \in Docs,
           GoOn(r, q)
    PROVE  ReqsOK'
BY DEF ReqsOK, GoOn

LEMMA GoOnwardTyped ==
    ASSUME ReqsOK, NEW r \in Requests, Busy(reqs[r]), GoOnward(r)
    PROVE  ReqsOK'
BY OnwardTyped, GoOnTyped DEF GoOnward, ReqsOK

LEMMA EnqueueTyped ==
    ASSUME WorkerOK, NEW j \in Job, jobs' = Append(jobs, j), UNCHANGED worker
    PROVE  WorkerOK'
<1>1. jobs' \in Seq(Job) /\ Len(jobs') = Len(jobs) + 1
  BY DEF WorkerOK
<1>2. DOMAIN jobs = 1..Len(jobs) /\ DOMAIN jobs' = 1..(Len(jobs) + 1) /\ Len(jobs) \in Nat
  BY <1>1 DEF WorkerOK
<1> QED
  BY <1>1, <1>2 DEF WorkerOK

\* The status of one job changes.
LEMMA StatusTyped ==
    ASSUME jobs \in Seq(Job), NEW i \in DOMAIN jobs, NEW st,
           st \in {"pending", "running", "done", "failed"},
           jobs' = [jobs EXCEPT ![i].status = st]
    PROVE  /\ jobs' \in Seq(Job) /\ DOMAIN jobs' = DOMAIN jobs
           /\ \A k \in DOMAIN jobs : jobs'[k].doc = jobs[k].doc
<1>1. jobs \in [1..Len(jobs) -> Job] /\ Len(jobs) \in Nat /\ DOMAIN jobs = 1..Len(jobs)
  OBVIOUS
<1>2. [jobs[i] EXCEPT !.status = st] \in Job
  BY <1>1 DEF Job
<1>3. jobs' \in [1..Len(jobs) -> Job]
  BY <1>1, <1>2
<1>4. jobs' \in Seq(Job)
  BY <1>1, <1>3, IsASeq
<1>5. ASSUME NEW k \in DOMAIN jobs PROVE jobs'[k].doc = jobs[k].doc
  BY <1>1, <1>5 DEF Job
<1> QED
  BY <1>1, <1>3, <1>4, <1>5

-----------------------------------------------------------------------------
LEMMA TypeInit == Init => TypeOK
<1> SUFFICES ASSUME Init PROVE TypeOK
  OBVIOUS
<1>1. Over \in Request /\ Over.pc = "idle"
  BY OverTyped
<1>2. worker \in Worker /\ worker.pc = "idle"
  BY WaitingTyped DEF Init
<1>3. jobs \in Seq(Job)
  BY DEF Init
<1>4. RowsOK
  BY DEF Init, RowsOK, States
<1>5. ReqsOK
  BY <1>1 DEF Init, ReqsOK, Busy
<1>6. WorkerOK
  BY <1>2, <1>3 DEF WorkerOK
<1> QED
  BY <1>4, <1>5, <1>6, TypeParts DEF Init

\* Steps of a request that leave the worker and the jobs.
LEMMA RequestTypes ==
    ASSUME TypeOK, NEW r \in Requests, Step(r)
    PROVE  TypeOK'
<1> SUFFICES RowsOK' /\ ReqsOK' /\ WorkerOK' /\ quiet' \in SUBSET Docs /\ faults' \in Nat
  BY DEF TypeOK, RowsOK, ReqsOK, WorkerOK
<1>1. ReqsOK /\ RowsOK /\ WorkerOK /\ quiet \in SUBSET Docs /\ faults \in Nat
  BY TypeParts
<1>2. reqs[r] \in Request /\ (Busy(reqs[r]) => reqs[r].doc \in Docs)
  BY <1>1 DEF ReqsOK
<1>3. In("alive") \subseteq Docs /\ In("trashed") \subseteq Docs
  BY DEF In
<1>4. CASE Edit(r)
  <2>1. PICK d \in In("alive") : /\ text' = [text EXCEPT ![d] = @ + 1]
                                 /\ GoOn(r, Start("get", "get", d))
    BY <1>4 DEF Edit
  <2>2. ReqsOK'
    BY <1>1, <1>3, <2>1, StartTyped, GoOnTyped
  <2>3. RowsOK'
    BY <1>1, <1>3, <1>4, <2>1 DEF RowsOK, Edit
  <2> QED
    BY <1>1, <1>4, <2>2, <2>3 DEF Edit, WorkerOK
<1>5. CASE BeginTrash(r) \/ BeginPurge(r)
  <2>1. PICK d \in Docs, pc \in {"trash", "purge"}, S \in SUBSET Docs :
            GoOn(r, [Start(pc, "remove", d) EXCEPT !.todo = S])
    BY <1>3, <1>5 DEF BeginTrash, BeginPurge
  <2>2. ReqsOK'
    BY <1>1, <2>1, StartTyped, GoOnTyped DEF Start, Request, Busy
  <2> QED
    BY <1>1, <1>5, <2>2 DEF BeginTrash, BeginPurge, rows, RowsOK, WorkerOK
<1>6. CASE Trash(r)
  <2>1. ReqsOK'
    BY <1>1, <1>6, GoOnwardTyped DEF At, Trash, Busy
  <2>2. RowsOK'
    BY <1>1, <1>6 DEF Trash, RowsOK, States
  <2> QED
    BY <1>1, <1>6, <2>1, <2>2 DEF Trash, WorkerOK
<1>7. CASE Purge(r)
  <2>1. At(reqs[r], "purge") /\ (GoOnward(r) \/ GoOn(r, Over))
    BY <1>7 DEF Purge
  <2>2. ReqsOK'
    BY <1>1, <2>1, OverTyped, GoOnTyped, GoOnwardTyped DEF At, Busy
  <2>3. RowsOK'
    BY <1>1, <1>7 DEF Purge, RowsOK, States
  <2> QED
    BY <1>1, <1>7, <2>2, <2>3 DEF Purge, WorkerOK
<1>8. CASE Restore(r)
  <2>1. PICK d \in Docs :
            /\ state' = [e \in Docs |-> IF e \in Below[d] \cap In("trashed")
                                        THEN "alive" ELSE state[e]]
            /\ GoOn(r, Start("get", "list", d))
    BY <1>3, <1>8 DEF Restore
  <2>2. ReqsOK'
    BY <1>1, <2>1, StartTyped, GoOnTyped
  <2>3. RowsOK'
    BY <1>1, <1>8, <2>1 DEF Restore, RowsOK, States
  <2> QED
    BY <1>1, <1>8, <2>2, <2>3 DEF Restore, WorkerOK
<1>9. CASE ListRest(r)
  <2> DEFINE rest == [reqs[r] EXCEPT !.then = "get",
                          !.todo = (Below[reqs[r].doc] \cap In("alive")) \ {reqs[r].doc}]
  <2>1. rest \in Request /\ rest.doc \in Docs
    BY <1>2, <1>3, <1>9 DEF At, ListRest, Request, Busy
  <2>2. PICK next \in Onward(rest) : GoOn(r, next)
    BY <1>9 DEF ListRest
  <2> HIDE DEF rest
  <2>3. ReqsOK'
    BY <1>1, <2>1, <2>2, OnwardTyped, GoOnTyped
  <2> QED
    BY <1>1, <1>9, <2>3 DEF ListRest, rows, RowsOK, WorkerOK
<1>10. CASE Get(r)
  <2>1. [reqs[r] EXCEPT !.pc = "head", !.snap = text[reqs[r].doc]] \in Request
    BY <1>1, <1>2, <1>10 DEF At, Get, Request, Busy, RowsOK
  <2>2. ReqsOK'
    BY <1>1, <1>2, <1>10, <2>1, GoOnTyped, GoOnwardTyped DEF At, Get, Busy, Request
  <2> QED
    BY <1>1, <1>10, <2>2 DEF Get, rows, RowsOK, WorkerOK
<1>11. CASE GetCommit(r) \/ GetBlob(r)
  <2>1. /\ [reqs[r] EXCEPT !.pc = "blob"] \in Request
        /\ [reqs[r] EXCEPT !.pc = "index"] \in Request
        /\ [reqs[r] EXCEPT !.pc = "index", !.snap = Blank] \in Request
        /\ [reqs[r] EXCEPT !.pc = "enqueue", !.reason = "corrupt"] \in Request
    BY <1>2, BlankTyped DEF Request
  <2>2. ReqsOK'
    BY <1>1, <1>2, <1>11, <2>1, GoOnTyped DEF GetCommit, GetBlob, At, Busy, Request
  <2> QED
    BY <1>1, <1>11, <2>2 DEF GetCommit, GetBlob, rows, RowsOK, WorkerOK
<1>12. CASE IndexDoc(r) \/ DeleteDoc(r)
  <2>1. ReqsOK'
    BY <1>1, <1>12, GoOnwardTyped DEF IndexDoc, DeleteDoc, Busy
  <2>2. RowsOK'
    BY <1>1, <1>2, <1>12 DEF IndexDoc, DeleteDoc, RowsOK, rows, NoEntry, Request, Busy
  <2> QED
    BY <1>1, <1>12, <2>1, <2>2 DEF IndexDoc, DeleteDoc, WorkerOK
<1>13. CASE IndexFails(r)
  <2>1. \A why \in {"update", "delete"} :
            [reqs[r] EXCEPT !.pc = "enqueue", !.reason = why] \in Request
    BY <1>2 DEF Request
  <2>2. PICK why \in {"update", "delete"} :
            GoOn(r, [reqs[r] EXCEPT !.pc = "enqueue", !.reason = why])
    BY <1>13 DEF IndexFails
  <2>3. ReqsOK'
    BY <1>1, <1>2, <1>13, <2>1, <2>2, GoOnTyped DEF IndexFails, Busy, Request
  <2> QED
    BY <1>1, <1>13, <2>3 DEF IndexFails, rows, RowsOK, WorkerOK
<1>14. CASE Enqueue(r)
  <2>1. ReqsOK'
    BY <1>1, <1>14, GoOnwardTyped DEF At, Enqueue, Busy
  <2>2. [doc |-> reqs[r].doc, reason |-> reqs[r].reason, status |-> "pending"] \in Job
    BY <1>2, <1>14 DEF At, Enqueue, Busy, Request, Job
  <2>3. WorkerOK'
    BY <1>1, <1>14, <2>2, EnqueueTyped DEF Enqueue
  <2> QED
    BY <1>1, <1>14, <2>1, <2>3 DEF Enqueue, rows, RowsOK
<1>15. CASE Leave(r)
  <2>1. [reqs[r] EXCEPT !.client = "away"] \in Request
    BY <1>2 DEF Request
  <2>2. ReqsOK'
    BY <1>1, <1>2, <1>15, <2>1, GoOnTyped DEF Leave, Busy, Request
  <2> QED
    BY <1>1, <1>15, <2>2 DEF Leave, rows, RowsOK, WorkerOK
<1>16. CASE CallFails(r)
  <2>1. /\ [reqs[r] EXCEPT !.pc = "enqueue", !.reason = "corrupt"] \in Request
        /\ [reqs[r] EXCEPT !.pc = "index", !.snap = Blank] \in Request
    BY <1>2, BlankTyped DEF Request
  <2>2. ReqsOK'
    BY <1>1, <1>2, <1>16, <2>1, OverTyped, GoOnTyped, GoOnwardTyped DEF CallFails, Busy, Request
  <2>3. faults' \in Nat
    BY <1>1, <1>16 DEF CallFails
  <2> QED
    BY <1>1, <1>16, <2>2, <2>3 DEF CallFails, rows, RowsOK, WorkerOK
<1> QED
  BY <1>4, <1>5, <1>6, <1>7, <1>8, <1>9, <1>10, <1>11, <1>12, <1>13, <1>14, <1>15, <1>16
  DEF Step

LEMMA WorkTyped ==
    ASSUME WorkerOK, NEW w \in Worker, w.job \in DOMAIN jobs,
           w.pc \in {"load", "head", "put", "delete"} => w.doc \in Docs,
           Work(w), UNCHANGED jobs
    PROVE  WorkerOK'
BY DEF WorkerOK, Work

\* Steps of the worker that leave the jobs.
LEMMA WorkerTypes ==
    ASSUME RowsOK, WorkerOK, Look \/ Load \/ LoadHead \/ Put \/ Delete
    PROVE  WorkerOK'
<1>1. worker \in Worker /\ (worker.pc # "idle" => worker.job \in DOMAIN jobs)
      /\ (worker.pc \in {"load", "head", "put", "delete"} => worker.doc \in Docs)
  BY DEF WorkerOK
<1>2. worker.job \in DOMAIN jobs /\ UNCHANGED jobs
  BY <1>1 DEF Look, Load, LoadHead, Put, Delete
<1>3. ASSUME NEW w \in Worker, NEW v \in Done(w) \cup Skip(w), Work(v), w.job = worker.job
      PROVE  WorkerOK'
  <2>1. v \in Worker /\ v.job = worker.job /\ v.pc \in {"load", "finish"}
        /\ (v.pc = "load" => v.doc \in Docs)
    BY <1>3, DoneTyped, SkipTyped
  <2> QED
    BY <1>2, <1>3, <2>1, WorkTyped
<1>4. CASE Look
  <2>1. CASE Its(worker).doc = All
    <3> DEFINE w == [worker EXCEPT !.todo = In("alive")]
    <3>1. w \in Worker /\ w.job = worker.job
      BY <1>1 DEF Worker, In
    <3>2. PICK v \in Done(w) : Work(v)
      BY <1>4, <2>1 DEF Look
    <3> HIDE DEF w
    <3> QED
      BY <1>3, <3>1, <3>2
  <2>2. CASE Its(worker).doc # All
    <3> DEFINE d == Its(worker).doc
    <3>1. d \in Docs
      <4>1. Its(worker) \in Job
        BY <1>2 DEF WorkerOK, Its
      <4> QED
        BY <2>2, <4>1 DEF Job
    <3>2. PICK pc \in {"delete", "load"} :
              Work([worker EXCEPT !.doc = d, !.todo = {}, !.pc = pc])
      BY <1>4, <2>2 DEF Look
    <3> DEFINE w == [worker EXCEPT !.doc = d, !.todo = {}, !.pc = pc]
    <3>3. w \in Worker /\ w.job = worker.job /\ w.doc = d
      BY <1>1, <3>1 DEF Worker
    <3>4. Work(w)
      BY <3>2
    <3> HIDE DEF w, d
    <3> QED
      BY <1>2, <3>1, <3>3, <3>4, WorkTyped
  <2> QED
    BY <2>1, <2>2
<1>5. CASE Load
  <2>1. CASE state[worker.doc] = "gone"
    BY <1>1, <1>3, <1>5, <2>1 DEF Load
  <2>2. CASE state[worker.doc] # "gone"
    <3>1. [worker EXCEPT !.pc = "head", !.snap = text[worker.doc]] \in Worker
      BY <1>1, <1>5 DEF Load, Worker, RowsOK
    <3> QED
      BY <1>1, <1>2, <1>5, <2>2, <3>1, WorkTyped DEF Load, Worker
  <2> QED
    BY <2>1, <2>2
<1>6. CASE LoadHead
  <2>1. CASE Work([worker EXCEPT !.pc = "put"])
    <3>1. [worker EXCEPT !.pc = "put"] \in Worker
      BY <1>1 DEF Worker
    <3> QED
      BY <1>1, <1>2, <1>6, <2>1, <3>1, WorkTyped DEF LoadHead, Worker
  <2>2. CASE \E w \in Skip(worker) : Work(w)
    BY <1>1, <1>3, <2>2
  <2> QED
    BY <1>6, <2>1, <2>2 DEF LoadHead
<1>7. CASE Put
  BY <1>1, <1>3, <1>7 DEF Put
<1>8. CASE Delete
  BY <1>1, <1>2, <1>8, EndedTyped, WorkTyped DEF Delete
<1> QED
  BY <1>4, <1>5, <1>6, <1>7, <1>8

\* The calls of the worker that fail.
LEMMA FailureTypes ==
    ASSUME WorkerOK, quiet \in SUBSET Docs, WorkRefused \/ WorkFails
    PROVE  WorkerOK' /\ quiet' \in SUBSET Docs
<1>1. /\ worker \in Worker /\ worker.pc # "idle" /\ worker.job \in DOMAIN jobs
      /\ UNCHANGED jobs
  BY DEF WorkerOK, WorkRefused, WorkFails
<1>2. quiet' \in SUBSET Docs
  BY DEF WorkRefused, WorkFails
<1>3. ASSUME worker' \in Worker, worker'.job = worker.job,
             worker'.pc \in {"load", "delete"} => worker'.doc \in Docs,
             worker'.pc \in {"load", "delete", "finish"}
      PROVE  WorkerOK'
  BY <1>1, <1>3 DEF WorkerOK
<1>4. ASSUME worker' = Ended(worker, FALSE) PROVE WorkerOK'
  BY <1>1, <1>3, <1>4, EndedTyped
<1>5. CASE worker' \in Skip(worker)
  BY <1>1, <1>2, <1>3, <1>5, SkipTyped
<1>6. CASE worker' = Waiting
  BY <1>1, <1>2, <1>6, WaitingTyped DEF WorkerOK
<1>7. ASSUME NEW d, d = Its(worker).doc, d # All,
             worker' = [worker EXCEPT !.pc = "delete", !.doc = d, !.todo = {}]
      PROVE  WorkerOK'
  <2>1. Its(worker) \in Job
    BY <1>1 DEF WorkerOK, Its
  <2>2. d \in Docs
    BY <1>7, <2>1 DEF Job
  <2> QED
    BY <1>1, <1>3, <1>7, <2>2 DEF Worker
<1>8. CASE WorkRefused
  BY <1>4, <1>8 DEF WorkRefused
<1>9. CASE WorkFails
  <2>1. CASE worker.pc = "look"
    BY <1>2, <1>4, <1>7, <1>9, <2>1 DEF WorkFails
  <2>2. CASE worker.pc # "look"
    BY <1>2, <1>5, <1>6, <1>9, <2>2 DEF WorkFails
  <2> QED
    BY <2>1, <2>2
<1> QED
  BY <1>2, <1>8, <1>9

LEMMA TypeStep == TypeOK /\ [Next]_vars => TypeOK'
<1> SUFFICES ASSUME TypeOK, [Next]_vars PROVE TypeOK'
  OBVIOUS
<1>1. CASE \E r \in Requests : Step(r)
  BY <1>1, RequestTypes
<1>2. RowsOK /\ ReqsOK /\ WorkerOK /\ quiet \in SUBSET Docs /\ faults \in Nat
  BY TypeParts
<1>3. ASSUME RowsOK', ReqsOK', WorkerOK', quiet' \in SUBSET Docs, faults' \in Nat
      PROVE  TypeOK'
  BY <1>3 DEF TypeOK, RowsOK, ReqsOK, WorkerOK
<1>4. CASE RequestRebuild
  <2>1. [doc |-> All, reason |-> "manual", status |-> "pending"] \in Job
    BY DEF Job
  <2>2. WorkerOK'
    BY <1>2, <1>4, <2>1, EnqueueTyped DEF RequestRebuild
  <2> QED
    BY <1>2, <1>3, <1>4, <2>2 DEF RequestRebuild, RowsOK, ReqsOK, rows
<1>5. CASE Pop
  <2>1. PICK i \in Pending :
            /\ jobs' = [jobs EXCEPT ![i].status = "running"]
            /\ Work([worker EXCEPT !.pc = "look", !.job = i, !.ok = TRUE])
    BY <1>5 DEF Pop
  <2>2. i \in DOMAIN jobs /\ i \in Nat
    BY <1>2 DEF Pending, WorkerOK
  <2>3. jobs' \in Seq(Job) /\ DOMAIN jobs' = DOMAIN jobs
    BY <1>2, <2>1, <2>2, StatusTyped DEF WorkerOK
  <2>4. [worker EXCEPT !.pc = "look", !.job = i, !.ok = TRUE] \in Worker
    BY <1>2, <2>2 DEF WorkerOK, Worker
  <2>5. WorkerOK'
    BY <1>2, <2>1, <2>2, <2>3, <2>4 DEF WorkerOK, Work, Worker
  <2> QED
    BY <1>2, <1>3, <1>5, <2>1, <2>5 DEF Pop, Work, RowsOK, ReqsOK, rows
<1>6. CASE Look \/ Load \/ LoadHead \/ Put \/ Delete
  <2>1. WorkerOK'
    BY <1>2, <1>6, WorkerTypes
  <2>2. UNCHANGED <<rows, reqs>> /\ quiet' \in SUBSET Docs /\ faults' \in Nat
        /\ index' \in [Docs -> Nat]
    <3>1. CASE Look
      BY <1>2, <3>1 DEF Look, Work, RowsOK, In
    <3>2. CASE Load
      BY <1>2, <3>2 DEF Load, Work, RowsOK
    <3>3. CASE LoadHead
      BY <1>2, <3>3 DEF LoadHead, Work, RowsOK
    <3>4. CASE Put
      <4>1. worker.snap \in Nat
        BY <1>2 DEF WorkerOK, Worker
      <4> QED
        BY <1>2, <3>4, <4>1 DEF Put, Work, RowsOK
    <3>5. CASE Delete
      BY <1>2, <3>5 DEF Delete, Work, RowsOK, NoEntry
    <3> QED
      BY <1>6, <3>1, <3>2, <3>3, <3>4, <3>5
  <2> QED
    BY <1>2, <1>3, <2>1, <2>2 DEF RowsOK, ReqsOK, rows
<1>7. CASE FinishReindexJob
  <2>1. PICK st \in {"done", "failed"} : jobs' = [jobs EXCEPT ![worker.job].status = st]
    BY <1>7 DEF FinishReindexJob
  <2>2. worker.job \in DOMAIN jobs
    BY <1>2, <1>7 DEF FinishReindexJob, WorkerOK
  <2>3. jobs' \in Seq(Job)
    BY <1>2, <2>1, <2>2, StatusTyped DEF WorkerOK
  <2>4. worker' \in Worker /\ worker'.pc = "idle"
    BY <1>7, WaitingTyped DEF FinishReindexJob, Work
  <2>5. WorkerOK'
    BY <2>3, <2>4 DEF WorkerOK
  <2> QED
    BY <1>2, <1>3, <1>7, <2>5 DEF FinishReindexJob, Work, RowsOK, ReqsOK, rows
<1>8. CASE Crash
  <2>1. ReqsOK'
    BY <1>2, <1>8, OverTyped DEF Crash, ReqsOK, Busy
  <2>2. WorkerOK'
    BY <1>2, <1>8, WaitingTyped DEF Crash, WorkerOK
  <2> QED
    BY <1>2, <1>3, <1>8, <2>1, <2>2 DEF Crash, RowsOK, rows
<1>9. CASE UNCHANGED vars
  BY <1>2, <1>3, <1>9 DEF vars, rows, RowsOK, ReqsOK, WorkerOK
<1>10. CASE WorkRefused \/ WorkFails
  <2>1. WorkerOK' /\ quiet' \in SUBSET Docs
    BY <1>2, <1>10, FailureTypes
  <2>2. UNCHANGED <<state, text, index, reqs>> /\ faults' = faults + 1
    BY <1>10 DEF WorkRefused, WorkFails, rows
  <2> QED
    BY <1>2, <1>3, <2>1, <2>2 DEF RowsOK, ReqsOK
<1>11. CASE WorkerStep
  BY <1>5, <1>6, <1>7, <1>11 DEF WorkerStep
<1> QED
  BY <1>1, <1>4, <1>8, <1>9, <1>10, <1>11 DEF Next

\* Documents, index, jobs, requests and worker stay well typed.
THEOREM TypeCorrect == Spec => []TypeOK
BY TypeInit, TypeStep, PTL DEF Spec

-----------------------------------------------------------------------------
(***************************************************************************)
(* A full rebuild: every document it listed that it could read and nobody  *)
(* touched since is alive, and in the index as it is, or still to be       *)
(* taken, or the one in hand, which was read as it is.                     *)
(***************************************************************************)

FullRebuild == /\ worker.pc \in {"load", "head", "put", "finish"}
               /\ Its(worker).doc = All /\ worker.ok

ReadAsIs(d) == d = worker.doc /\ worker.pc \in {"head", "put"} => worker.snap = text[d]
Covered(d) == /\ state[d] = "alive" /\ ReadAsIs(d)
              /\ \/ index[d] = text[d]
                 \/ worker.pc # "finish" /\ (d \in worker.todo \/ d = worker.doc)

OneDocumentDeletes == worker.pc = "delete" => Its(worker).doc # All
AllCovered == FullRebuild => \A d \in quiet : Covered(d)
Rebuilding == OneDocumentDeletes /\ AllCovered

\* A request writes nothing of the documents it leaves quiet.
Unwritten == /\ quiet' \subseteq quiet
             /\ \A d \in quiet' : UNCHANGED <<state[d], text[d], index[d]>>

LEMMA QuietMeansUnwritten ==
    ASSUME TypeOK, NEW r \in Requests, Step(r)
    PROVE  UNCHANGED worker /\ Unwritten
<1>1. RowsOK /\ quiet \in SUBSET Docs
  BY TypeParts
<1>2. CASE Edit(r) \/ Restore(r)
  BY <1>1, <1>2 DEF Edit, Restore, Unwritten, RowsOK, In
<1>3. CASE Trash(r) \/ Purge(r)
  BY <1>1, <1>3 DEF Trash, Purge, Unwritten, RowsOK
<1>4. CASE IndexDoc(r) \/ DeleteDoc(r)
  BY <1>1, <1>4 DEF IndexDoc, DeleteDoc, Unwritten, RowsOK, rows
<1>5. CASE ~ (Edit(r) \/ Restore(r) \/ Trash(r) \/ Purge(r) \/ IndexDoc(r) \/ DeleteDoc(r))
  BY <1>5 DEF Step, BeginTrash, BeginPurge, ListRest, Get, GetCommit, GetBlob,
       IndexFails, Enqueue, Leave, CallFails, rows, Unwritten
<1> QED
  BY <1>2, <1>3, <1>4, <1>5 DEF Edit, Restore, Trash, Purge, IndexDoc, DeleteDoc

\* The job in hand keeps its document, whatever is queued.
LEMMA JobKeepsDoc ==
    ASSUME WorkerOK, worker.pc # "idle", UNCHANGED worker,
           jobs' = jobs \/ \E j \in Job : jobs' = Append(jobs, j)
    PROVE  Its(worker)' = Its(worker)
<1>1. worker.job \in 1..Len(jobs) /\ jobs \in Seq(Job)
  BY DEF WorkerOK
<1>2. ASSUME NEW j \in Job PROVE Append(jobs, j)[worker.job] = jobs[worker.job]
  BY <1>1
<1> QED
  BY <1>2 DEF Its

\* Nothing changed that the invariant speaks of.
LEMMA SameRebuild ==
    ASSUME TypeOK, Rebuilding, UNCHANGED worker,
           jobs' = jobs \/ \E j \in Job : jobs' = Append(jobs, j),
           Unwritten
    PROVE  Rebuilding'
<1>1. WorkerOK
  BY TypeParts
<1>2. worker.pc # "idle" => Its(worker)' = Its(worker)
  BY <1>1, JobKeepsDoc
<1>3. OneDocumentDeletes'
  BY <1>2 DEF Rebuilding, OneDocumentDeletes
<1>4. ASSUME FullRebuild' PROVE \A d \in quiet' : Covered(d)'
  <2>1. FullRebuild
    BY <1>2, <1>4 DEF FullRebuild
  <2> QED
    BY <1>4, <2>1 DEF Rebuilding, AllCovered, Covered, ReadAsIs, Unwritten
<1> QED
  BY <1>3, <1>4 DEF Rebuilding, AllCovered

LEMMA RequestJobs ==
    ASSUME TypeOK, NEW r \in Requests, Step(r)
    PROVE  jobs' = jobs \/ \E j \in Job : jobs' = Append(jobs, j)
<1>1. CASE Enqueue(r)
  <2>1. reqs[r] \in Request /\ reqs[r].doc \in Docs
    BY <1>1, TypeParts DEF Enqueue, At, ReqsOK, Busy
  <2>2. [doc |-> reqs[r].doc, reason |-> reqs[r].reason, status |-> "pending"] \in Job
    BY <2>1 DEF Request, Job
  <2> QED
    BY <1>1, <2>2 DEF Enqueue
<1>2. CASE ~ Enqueue(r)
  BY <1>2 DEF Step, Edit, BeginTrash, BeginPurge, Trash, Purge, Restore, ListRest, Get,
       GetCommit, GetBlob, IndexDoc, DeleteDoc, IndexFails, Leave, CallFails
<1> QED
  BY <1>1, <1>2

\* What a step of the worker that keeps its job has to show.
LEMMA WorkerCovers ==
    ASSUME worker'.job = worker.job, UNCHANGED jobs, worker'.pc # "delete",
           FullRebuild' => \A d \in quiet' : Covered(d)'
    PROVE  Rebuilding'
BY DEF Rebuilding, OneDocumentDeletes, AllCovered

\* After Done every document that was to be taken is still to be taken.
LEMMA DoneCovers ==
    ASSUME NEW w \in Worker, NEW v \in Done(w), NEW d \in w.todo
    PROVE  v.pc = "load" /\ (d \in v.todo \/ d = v.doc)
<1>1. PICK e \in w.todo :
          v = [w EXCEPT !.pc = "load", !.doc = e, !.todo = @ \ {e}, !.snap = 0]
  BY DEF Done
<1> QED
  BY <1>1 DEF Worker

LEMMA WorkerRebuilds ==
    ASSUME TypeOK, Rebuilding, WorkerStep \/ WorkRefused \/ WorkFails
    PROVE  Rebuilding'
<1>1. RowsOK /\ WorkerOK /\ quiet \in SUBSET Docs
  BY TypeParts
<1>2. worker \in Worker /\ (worker.pc \in {"load", "head", "put", "delete"} => worker.doc \in Docs)
  BY <1>1 DEF WorkerOK
<1>3. In("alive") \subseteq Docs
  BY DEF In
<1>4. ASSUME worker'.pc \in {"idle", "look"} PROVE Rebuilding'
  BY <1>4 DEF Rebuilding, OneDocumentDeletes, AllCovered, FullRebuild
<1>5. CASE Pop \/ FinishReindexJob
  <2>1. worker'.pc \in {"idle", "look"}
    BY <1>2, <1>5, WaitingTyped DEF Pop, FinishReindexJob, Work, Worker
  <2> QED
    BY <1>4, <2>1
\* A failed job has nothing to show, nor has that of one document.
<1>6. ASSUME worker' = Ended(worker, FALSE) PROVE Rebuilding'
  <2>1. worker'.pc = "finish" /\ ~ worker'.ok
    BY <1>2, <1>6, EndedTyped
  <2> QED
    BY <2>1 DEF Rebuilding, OneDocumentDeletes, AllCovered, FullRebuild
<1>7. ASSUME Its(worker).doc # All, worker'.job = worker.job, UNCHANGED jobs
      PROVE  Rebuilding'
  BY <1>7 DEF Rebuilding, OneDocumentDeletes, AllCovered, FullRebuild, Its
<1>8. CASE WorkRefused
  BY <1>6, <1>8 DEF WorkRefused
\* Of a full rebuild that goes on, nothing but the worker changes.
<1>9. ASSUME NEW w \in Worker, worker' = w, w.job = worker.job, UNCHANGED jobs,
             worker.pc \in {"load", "head", "put"}, FullRebuild', w.ok <=> worker.ok
      PROVE  FullRebuild /\ \A d \in quiet : Covered(d)
  <2>1. FullRebuild
    BY <1>9 DEF FullRebuild, Its
  <2> QED
    BY <2>1 DEF Rebuilding, AllCovered
\* The document in hand is done with: it is not quiet, or in the index as it is.
<1>10. ASSUME NEW v \in Done(worker), worker' = v, UNCHANGED <<rows, jobs>>,
              worker.pc \in {"load", "head", "put"}, quiet' \subseteq quiet,
              \A d \in quiet' : Covered(d) /\ (index[d] = text[d] \/ d = worker.doc)
                                => index'[d] = text[d]
       PROVE  Rebuilding'
  <2>1. v \in Worker /\ v.job = worker.job /\ (v.ok <=> worker.ok) /\ v.pc \in {"load", "finish"}
        /\ UNCHANGED <<state, text>>
    BY <1>2, <1>10, DoneTyped DEF rows
  <2>2. ASSUME FullRebuild', NEW d \in quiet' PROVE Covered(d)'
    <3>1. Covered(d)
      BY <1>9, <1>10, <2>1, <2>2
    <3>2. CASE d \in worker.todo
      BY <1>2, <1>10, <2>1, <3>1, <3>2, DoneCovers DEF Covered, ReadAsIs
    <3> QED
      BY <1>10, <2>1, <2>2, <3>1, <3>2 DEF Covered, ReadAsIs
  <2> QED
    BY <1>10, <2>1, <2>2, WorkerCovers
\* The document in hand is passed over: it is not quiet any more.
<1>11. ASSUME NEW v \in Skip(worker), worker' = v, UNCHANGED <<rows, jobs, index>>,
              worker.pc \in {"load", "head"}, quiet' \subseteq quiet,
              \A d \in quiet' : Covered(d) => d # worker.doc
       PROVE  Rebuilding'
  <2>1. CASE Its(worker).doc = All
    <3>1. v \in Done(worker)
      BY <1>11, <2>1 DEF Skip
    <3> QED
      BY <1>10, <1>11, <3>1
  <2>2. CASE Its(worker).doc # All
    BY <1>2, <1>7, <1>11, <2>2, SkipTyped
  <2> QED
    BY <2>1, <2>2
<1>12. CASE WorkFails
  <2>1. CASE worker.pc = "look"
    BY <1>2, <1>6, <1>7, <1>12, <2>1 DEF WorkFails, Worker
  <2>2. CASE worker.pc \in {"load", "head"}
    BY <1>11, <1>12, <2>2 DEF WorkFails
  <2>3. CASE worker.pc = "finish"
    BY <1>4, <1>12, <2>3, WaitingTyped DEF WorkFails
  <2> QED
    BY <1>12, <2>1, <2>2, <2>3 DEF WorkFails
<1>13. CASE Look
  <2>1. CASE Its(worker).doc = All
    <3> DEFINE w == [worker EXCEPT !.todo = In("alive")]
    <3>1. w \in Worker /\ w.job = worker.job /\ w.todo = In("alive")
      BY <1>2, <1>3 DEF Worker
    <3>2. PICK v \in Done(w) : Work(v)
      BY <1>13, <2>1 DEF Look
    <3> HIDE DEF w
    <3>3. v \in Worker /\ v.job = worker.job /\ v.pc # "delete" /\ v.pc # "head" /\ v.pc # "put"
          /\ worker' = v /\ quiet' = In("alive") /\ UNCHANGED <<state, jobs>>
      BY <1>13, <2>1, <3>1, <3>2, DoneTyped DEF Work, Look, rows
    <3>4. ASSUME NEW d \in In("alive") PROVE Covered(d)'
      BY <3>1, <3>2, <3>3, DoneCovers DEF Covered, ReadAsIs, In
    <3> QED
      BY <3>3, <3>4, WorkerCovers
  <2>2. CASE Its(worker).doc # All
    <3>1. PICK pc \in {"delete", "load"} :
              Work([worker EXCEPT !.doc = Its(worker).doc, !.todo = {}, !.pc = pc])
      BY <1>13, <2>2 DEF Look
    <3>2. worker'.job = worker.job /\ UNCHANGED jobs
      BY <1>2, <1>13, <3>1 DEF Look, Work, Worker
    <3> QED
      BY <1>7, <2>2, <3>2
  <2> QED
    BY <2>1, <2>2
<1>14. CASE Load
  <2>1. CASE state[worker.doc] = "gone"
    <3>1. \A d : Covered(d) => d # worker.doc
      BY <2>1 DEF Covered
    <3> QED
      BY <1>11, <1>14, <2>1, <3>1 DEF Load, Work
  <2>2. CASE state[worker.doc] # "gone"
    <3> DEFINE w == [worker EXCEPT !.pc = "head", !.snap = text[worker.doc]]
    <3>1. /\ w \in Worker /\ w.job = worker.job /\ (w.ok <=> worker.ok) /\ w.pc = "head"
          /\ w.snap = text[worker.doc] /\ w.todo = worker.todo /\ w.doc = worker.doc
      BY <1>1, <1>2, <1>14 DEF Load, Worker, RowsOK
    <3>2. worker' = w /\ UNCHANGED <<state, text, index, jobs, quiet>>
      BY <1>14, <2>2 DEF Load, Work, rows
    <3> HIDE DEF w
    <3>3. ASSUME FullRebuild', NEW d \in quiet PROVE Covered(d)'
      <4>1. Covered(d)
        BY <1>9, <1>14, <3>1, <3>2, <3>3 DEF Load
      <4> QED
        BY <1>14, <3>1, <3>2, <4>1 DEF Covered, ReadAsIs, Load
    <3> QED
      BY <3>1, <3>2, <3>3, WorkerCovers
  <2> QED
    BY <2>1, <2>2
<1>15. CASE LoadHead
  <2>1. CASE Work([worker EXCEPT !.pc = "put"])
    <3> DEFINE w == [worker EXCEPT !.pc = "put"]
    <3>1. /\ w \in Worker /\ w.job = worker.job /\ (w.ok <=> worker.ok) /\ w.pc = "put"
          /\ w.snap = worker.snap /\ w.todo = worker.todo /\ w.doc = worker.doc
      BY <1>2 DEF Worker
    <3>2. worker' = w /\ UNCHANGED <<state, text, index, jobs, quiet>>
      BY <1>15, <2>1 DEF LoadHead, Work, rows
    <3> HIDE DEF w
    <3>3. ASSUME FullRebuild', NEW d \in quiet PROVE Covered(d)'
      <4>1. Covered(d)
        BY <1>9, <1>15, <3>1, <3>2, <3>3 DEF LoadHead
      <4> QED
        BY <1>15, <3>1, <3>2, <4>1 DEF Covered, ReadAsIs, LoadHead
    <3> QED
      BY <3>1, <3>2, <3>3, WorkerCovers
  <2>2. CASE MayBeTrimmed(worker.doc, worker.snap) /\ \E w \in Skip(worker) : Work(w)
    <3>1. ASSUME NEW d \in quiet, Covered(d), d = worker.doc PROVE FALSE
      <4>1. d \in Docs /\ state[d] = "alive" /\ worker.snap = text[d]
        BY <1>1, <1>15, <3>1 DEF Covered, ReadAsIs, LoadHead
      <4>2. text[d] \in Nat
        BY <1>1, <4>1 DEF RowsOK
      <4> QED
        BY <2>2, <3>1, <4>1, <4>2 DEF MayBeTrimmed
    <3> QED
      BY <1>11, <1>15, <2>2, <3>1 DEF LoadHead, Work
  <2> QED
    BY <1>15, <2>1, <2>2 DEF LoadHead
<1>16. CASE Put
  <2>1. PICK v \in Done(worker) : Work(v)
    BY <1>16 DEF Put
  <2>2. index' = [index EXCEPT ![worker.doc] = worker.snap] /\ UNCHANGED <<jobs, quiet>>
        /\ worker.pc = "put" /\ worker.doc \in Docs
    BY <1>2, <1>16 DEF Put
  <2>3. ASSUME NEW d \in quiet, Covered(d), index[d] = text[d] \/ d = worker.doc
        PROVE  index'[d] = text[d]
    BY <1>1, <2>2, <2>3 DEF Covered, ReadAsIs, RowsOK
  <2> QED
    BY <1>10, <2>1, <2>2, <2>3 DEF Work
<1>17. CASE Delete
  <2>1. worker'.job = worker.job /\ UNCHANGED jobs
    BY <1>2, <1>17, EndedTyped DEF Delete, Work
  <2> QED
    BY <1>7, <1>17, <2>1 DEF Delete, Rebuilding, OneDocumentDeletes
<1> QED
  BY <1>5, <1>8, <1>12, <1>13, <1>14, <1>15, <1>16, <1>17 DEF WorkerStep

\* A full rebuild that ends as done leaves every document it listed in the index
\* as it is, but for those it could not read or a request touched meanwhile.
THEOREM RebuildsAreComplete == Spec => RebuildCatchesUp
<1>1. Init => Rebuilding
  BY WaitingTyped DEF Init, Rebuilding, OneDocumentDeletes, AllCovered, FullRebuild
<1>2. TypeOK /\ Rebuilding /\ [Next]_vars => Rebuilding'
  <2> SUFFICES ASSUME TypeOK, Rebuilding, [Next]_vars PROVE Rebuilding'
    OBVIOUS
  <2>1. CASE \E r \in Requests : Step(r)
    BY <2>1, QuietMeansUnwritten, RequestJobs, SameRebuild
  <2>2. CASE WorkerStep \/ WorkRefused \/ WorkFails
    BY <2>2, WorkerRebuilds
  <2>3. CASE RequestRebuild
    <3>1. [doc |-> All, reason |-> "manual", status |-> "pending"] \in Job
      BY DEF Job
    <3> QED
      BY <2>3, <3>1, SameRebuild DEF RequestRebuild, rows, Unwritten
  <2>4. CASE Crash
    <3>1. worker'.pc = "idle"
      BY <2>4, WaitingTyped DEF Crash
    <3> QED
      BY <3>1 DEF Rebuilding, OneDocumentDeletes, AllCovered, FullRebuild
  <2>5. CASE UNCHANGED vars
    BY <2>5, SameRebuild DEF vars, rows, Unwritten
  <2> QED
    BY <2>1, <2>2, <2>3, <2>4, <2>5 DEF Next
<1>3. Rebuilding => (FinishReindexJob /\ Its(worker).doc = All /\ worker.ok
                     => \A d \in quiet : state[d] = "alive" /\ index[d] = text[d])
  BY DEF Rebuilding, AllCovered, FullRebuild, FinishReindexJob, Covered
<1> QED
  BY <1>1, <1>2, <1>3, TypeCorrect, PTL DEF Spec, RebuildCatchesUp
-----------------------------------------------------------------------------
(***************************************************************************)
(* What is saved is indexed.  Where requests and jobs come one at a time,  *)
(* every alive document is in the index as it is, or a job for it waits,   *)
(* or what is at work has it still before it.                              *)
(***************************************************************************)

\* A job in the queue has the document.
Queued(d) == HasJob(d) \/ HasJob(All)

\* A request still has the document to bring to the index.
Refreshing(q) == q.pc \in {"get", "head", "blob", "index", "enqueue"}
InHand(q, d) ==
    \/ Refreshing(q) /\ q.then # "remove" /\ d \in {q.doc} \cup q.todo
    \/ (Refreshing(q) \/ q.pc = "list") /\ q.then = "list" /\ d \in Below[q.doc] \ {q.doc}

\* The worker has: its job is not begun, at the document or before it.
Rebuilt(d) ==
    \/ worker.pc = "look" /\ Its(worker).doc \in {d, All}
    \/ worker.pc \in {"load", "head", "put"} /\ d \in {worker.doc} \cup worker.todo

Kept(d) == \/ index[d] = text[d]
           \/ Queued(d)
           \/ \E r \in Requests : InHand(reqs[r], d)
           \/ Rebuilt(d)

\* What a request has read is still so, and what it takes out is not alive.
Minds(q) ==
    /\ q.pc \in {"head", "blob", "index"} => q.snap = text[q.doc] /\ state[q.doc] = "alive"
    /\ q.pc \in {"get", "head", "blob", "index", "list"} => q.then # "remove"
    /\ q.pc \in {"trash", "purge"} => q.then = "remove" /\ q.todo \subseteq Below[q.doc]
    /\ q.pc = "remove" => q.then = "remove"
    /\ q.pc \in {"remove", "enqueue"} /\ q.then = "remove" =>
          \A d \in {q.doc} \cup q.todo : state[d] # "alive"
    /\ Refreshing(q) /\ q.then = "list" => q.todo = {}

\* The worker's job is the running one, and its document the job's.
Attends ==
    /\ worker.pc # "idle" => jobs[worker.job].status = "running"
    /\ worker.pc \in {"load", "head", "put"} /\ Its(worker).doc # All =>
          worker.doc = Its(worker).doc /\ worker.todo = {}
    /\ worker.pc \in {"head", "put"} => worker.snap = text[worker.doc]
    /\ worker.pc = "delete" => state[worker.doc] = "gone"

AllKept == \A d \in In("alive") : Kept(d)
Pledged == (\A r \in Requests : Minds(reqs[r])) /\ Attends /\ AllKept

\* A job in the queue stays there when another is put behind it.
LEMMA QueuedStays ==
    ASSUME jobs \in Seq(Job), jobs' = jobs \/ \E j \in Job : jobs' = Append(jobs, j),
           NEW d, Queued(d)
    PROVE  Queued(d)'
<1>1. PICK i \in 1..Len(jobs) : jobs[i].doc \in {d, All} /\ jobs[i].status = "pending"
  BY DEF Queued, HasJob, Pending
<1>2. i \in DOMAIN jobs' /\ jobs'[i] = jobs[i]
  <2>1. ASSUME NEW j \in Job PROVE i \in DOMAIN Append(jobs, j) /\ Append(jobs, j)[i] = jobs[i]
    OBVIOUS
  <2> QED
    BY <2>1
<1> QED
  BY <1>1, <1>2 DEF Queued, HasJob, Pending

\* What a request is about to do when it has done with a document.
LEMMA OnwardForms ==
    ASSUME NEW q \in Request, NEW p \in Onward(q)
    PROVE  \/ p.pc = "idle" /\ q.todo = {} /\ q.then # "list"
           \/ p.pc = "list" /\ q.todo = {} /\ q.then = "list" /\ p.then = "list" /\ p.doc = q.doc
           \/ /\ p.pc = q.then /\ p.then = q.then
              /\ p.doc \in q.todo /\ p.todo = q.todo \ {p.doc}
<1>1. CASE q.todo # {}
  BY <1>1 DEF Onward, Request
<1>2. CASE q.todo = {}
  BY <1>2, OverTyped DEF Onward, Request
<1> QED
  BY <1>1, <1>2

\* ... the document it has done with is the only one it lets go of.
LEMMA OnwardHolds ==
    ASSUME NEW q \in Request, NEW p \in Onward(q), NEW d, InHand(q, d), d # q.doc,
           q.then = "list" => q.todo = {}
    PROVE  InHand(p, d)
<1>1. p.pc \in {"get", "list", "idle", "remove"}
  BY OnwardForms DEF Request
<1>2. CASE Refreshing(q) /\ q.then = "get" /\ d \in q.todo
  BY <1>2, OnwardForms DEF InHand, Refreshing
<1>3. CASE q.then = "list" /\ d \in Below[q.doc] \ {q.doc}
  BY <1>3, OnwardForms DEF InHand, Refreshing
<1> QED
  BY <1>2, <1>3 DEF InHand, Request, Refreshing

LEMMA OnwardMinds ==
    ASSUME NEW q \in Request, NEW p \in Onward(q), q.then = "list" => q.todo = {},
           q.then = "remove" => \A d \in q.todo : state'[d] # "alive"
    PROVE  Minds(p)'
<1>1. CASE p.pc \in {"idle", "list"}
  BY <1>1, OnwardForms DEF Minds, Refreshing
<1>2. CASE p.pc = q.then /\ p.then = q.then /\ p.doc \in q.todo /\ p.todo = q.todo \ {p.doc}
  <2>1. q.then \in {"get", "remove"}
    BY <1>2 DEF Request
  <2> QED
    BY <1>2, <2>1 DEF Minds, Refreshing
<1> QED
  BY <1>1, <1>2, OnwardForms

\* Where one request is at work alone, it is the one that has the documents ...
LEMMA AloneHolds ==
    ASSUME Pledged, NEW r \in Requests, worker.pc = "idle",
           \A s \in Requests \ {r} : ~ Busy(reqs[s]), NEW d \in In("alive")
    PROVE  index[d] = text[d] \/ Queued(d) \/ InHand(reqs[r], d)
<1>1. ~ Rebuilt(d)
  BY DEF Rebuilt
<1>2. \A s \in Requests \ {r} : ~ InHand(reqs[s], d)
  BY DEF InHand, Busy, Refreshing
<1> QED
  BY <1>1, <1>2 DEF Pledged, AllKept, Kept

\* ... and it suffices to see what becomes of it.
LEMMA AlonePledges ==
    ASSUME TypeOK, NEW r \in Requests, worker.pc = "idle", UNCHANGED worker,
           \A s \in Requests \ {r} : ~ Busy(reqs[s]),
           NEW p, GoOn(r, p), Minds(p)',
           \A d \in In("alive")' : index'[d] = text'[d] \/ Queued(d)' \/ InHand(p, d)
    PROVE  Pledged'
<1>1. reqs' = [reqs EXCEPT ![r] = p] /\ reqs'[r] = p
  BY TypeParts DEF GoOn, ReqsOK
<1>2. ASSUME NEW s \in Requests PROVE Minds(reqs[s])'
  <2>1. CASE s = r
    BY <1>1, <2>1 DEF Minds
  <2>2. CASE s # r
    <3>1. reqs'[s].pc = "idle"
      BY <1>1, <2>2, TypeParts DEF ReqsOK, Busy
    <3> QED
      BY <3>1 DEF Minds, Refreshing
  <2> QED
    BY <2>1, <2>2
<1>3. Attends'
  BY DEF Attends
<1>4. AllKept'
  BY <1>1 DEF AllKept, Kept, InHand, Refreshing
<1> QED
  BY <1>2, <1>3, <1>4 DEF Pledged

\* A request alone at work keeps the promise, unless its client goes away or the
\* database fails it.
LEMMA RequestPledges ==
    ASSUME TypeOK, Pledged, NEW r \in Requests, Step(r), ~ Leave(r), ~ CallFails(r),
           worker.pc = "idle", \A s \in Requests \ {r} : ~ Busy(reqs[s])
    PROVE  Pledged'
<1> DEFINE q == reqs[r]
<1>1. RowsOK /\ ReqsOK /\ WorkerOK
  BY TypeParts
<1>2. q \in Request /\ (Busy(q) => q.doc \in Docs) /\ Minds(q)
  BY <1>1 DEF ReqsOK, Pledged
<1>3. UNCHANGED worker
  BY QuietMeansUnwritten
<1>4. \A d : Queued(d) => Queued(d)'
  BY <1>1, RequestJobs, QueuedStays DEF WorkerOK
<1>5. \A d \in In("alive") : index[d] = text[d] \/ Queued(d) \/ InHand(q, d)
  BY AloneHolds
<1>6. In("alive") = {d \in Docs : state[d] = "alive"} /\ In("alive")' = {d \in Docs : state'[d] = "alive"}
  BY DEF In
<1>7. ASSUME NEW p, GoOn(r, p), Minds(p)',
             \A d \in In("alive")' : index'[d] = text'[d] \/ Queued(d)' \/ InHand(p, d)
      PROVE  Pledged'
  BY <1>3, <1>7, AlonePledges
<1>8. ASSUME NEW p \in Onward(q), GoOn(r, p), q.then = "list" => q.todo = {},
             q.then = "remove" => \A d \in q.todo : state'[d] # "alive",
             \A d \in In("alive")' : \/ index'[d] = text'[d] \/ Queued(d)'
                                     \/ d # q.doc /\ InHand(q, d)
      PROVE  Pledged'
  <2>1. Minds(p)'
    BY <1>2, <1>8, OnwardMinds
  <2>2. \A d \in In("alive")' : index'[d] = text'[d] \/ Queued(d)' \/ InHand(p, d)
    BY <1>2, <1>8, OnwardHolds
  <2> QED
    BY <1>7, <1>8, <2>1, <2>2
<1>9. CASE Edit(r)
  <2>1. PICK d \in In("alive") : /\ text' = [text EXCEPT ![d] = @ + 1]
                                 /\ GoOn(r, Start("get", "get", d))
    BY <1>9 DEF Edit
  <2>2. Minds(Start("get", "get", d))'
    BY DEF Minds, Start, Refreshing
  <2>3. InHand(Start("get", "get", d), d) /\ \A e : ~ InHand(q, e)
    BY <1>9 DEF Edit, Busy, InHand, Start, Refreshing
  <2>4. \A e \in In("alive")' : index'[e] = text'[e] \/ Queued(e)' \/ InHand(Start("get", "get", d), e)
    BY <1>1, <1>4, <1>5, <1>6, <1>9, <2>1, <2>3 DEF Edit, RowsOK
  <2> QED
    BY <1>7, <2>1, <2>2, <2>4
<1>10. CASE BeginTrash(r) \/ BeginPurge(r)
  <2>1. PICK d \in Docs, pc \in {"trash", "purge"}, S \in SUBSET Docs :
            S \subseteq Below[d] /\ GoOn(r, [Start(pc, "remove", d) EXCEPT !.todo = S])
    BY <1>6, <1>10 DEF BeginTrash, BeginPurge, In
  <2> DEFINE p == [Start(pc, "remove", d) EXCEPT !.todo = S]
  <2>2. Minds(p)'
    BY <2>1 DEF Minds, Start, Refreshing
  <2>3. \A e : ~ InHand(q, e)
    BY <1>10 DEF BeginTrash, BeginPurge, Busy, InHand, Refreshing
  <2>4. \A e \in In("alive")' : index'[e] = text'[e] \/ Queued(e)'
    BY <1>4, <1>5, <1>6, <1>10, <2>3 DEF BeginTrash, BeginPurge, rows
  <2> HIDE DEF p
  <2> QED
    BY <1>7, <2>1, <2>2, <2>4 DEF p
<1> DEFINE Purgeable == state[q.doc] = "trashed" /\ Below[q.doc] \cap In("alive") = {}
<1>11. CASE Trash(r) \/ (Purge(r) /\ Purgeable)
  <2>1. q.then = "remove" /\ q.todo \subseteq Below[q.doc] /\ \A e : ~ InHand(q, e)
    BY <1>2, <1>11 DEF At, Trash, Purge, Minds, InHand, Refreshing
  <2>2. PICK p \in Onward(q) : GoOn(r, p)
    BY <1>11 DEF At, Trash, Purge, GoOnward
  <2>3. UNCHANGED <<text, index>> /\ In("alive")' \subseteq In("alive")
    BY <1>1, <1>6, <1>11 DEF At, Trash, Purge, RowsOK
  <2>4. \A d \in q.todo : state'[d] # "alive"
    <3>1. q.todo \subseteq Docs
      BY <1>2 DEF Request
    <3>2. CASE Trash(r)
      BY <1>6, <2>1, <3>1, <3>2 DEF At, Trash
    <3>3. CASE Purge(r) /\ Purgeable
      BY <1>6, <2>1, <3>1, <3>3 DEF At, Purge
    <3> QED
      BY <1>11, <3>2, <3>3
  <2> QED
    BY <1>4, <1>5, <1>8, <2>1, <2>2, <2>3, <2>4
<1>12. CASE Purge(r) /\ ~ Purgeable
  <2>1. PICK p : p = Over /\ GoOn(r, p) /\ UNCHANGED <<rows, index, jobs>>
    BY <1>12 DEF At, Purge, rows
  <2>2. Minds(p)'
    BY <2>1, OverTyped DEF Minds, Refreshing
  <2>3. \A e : ~ InHand(q, e)
    BY <1>12 DEF At, Purge, InHand, Refreshing
  <2> QED
    BY <1>4, <1>5, <1>6, <1>7, <2>1, <2>2, <2>3 DEF rows
<1>13. CASE Restore(r)
  <2>1. PICK d \in In("trashed") :
            /\ state' = [e \in Docs |-> IF e \in Below[d] \cap In("trashed")
                                        THEN "alive" ELSE state[e]]
            /\ GoOn(r, Start("get", "list", d))
    BY <1>13 DEF Restore
  <2>2. Minds(Start("get", "list", d))'
    BY DEF Minds, Start, Refreshing
  <2>3. /\ \A e : ~ InHand(q, e)
        /\ \A e \in Below[d] : InHand(Start("get", "list", d), e)
    BY <1>13 DEF Restore, Busy, InHand, Start, Refreshing
  <2>4. \A e \in In("alive")' : e \in Below[d] \/ e \in In("alive")
    BY <1>6, <2>1
  <2> QED
    BY <1>4, <1>5, <1>7, <1>13, <2>1, <2>2, <2>3, <2>4 DEF Restore
<1>14. CASE ListRest(r)
  <2> DEFINE rest == [q EXCEPT !.then = "get",
                          !.todo = (Below[q.doc] \cap In("alive")) \ {q.doc}]
  <2>1. rest \in Request /\ rest.then = "get" /\ rest.doc = q.doc /\ rest.pc = "list"
        /\ rest.todo = (Below[q.doc] \cap In("alive")) \ {q.doc}
    BY <1>2, <1>6, <1>14 DEF At, ListRest, Request
  <2>2. PICK p \in Onward(rest) : GoOn(r, p)
    BY <1>14 DEF At, ListRest
  <2> HIDE DEF rest
  <2>3. Minds(p)'
    BY <2>1, <2>2, OnwardMinds
  <2>4. ASSUME NEW d \in In("alive"), InHand(q, d) PROVE InHand(p, d)
    <3>1. d \in rest.todo
      BY <1>14, <2>1, <2>4 DEF At, ListRest, InHand, Refreshing
    <3> QED
      BY <2>1, <2>2, <3>1, OnwardForms DEF InHand, Refreshing
  <2>5. \A e \in In("alive")' : index'[e] = text'[e] \/ Queued(e)' \/ InHand(p, e)
    BY <1>4, <1>5, <1>6, <1>14, <2>4 DEF At, ListRest, rows
  <2> QED
    BY <1>7, <2>2, <2>3, <2>5
<1>15. CASE Get(r)
  <2>1. UNCHANGED <<state, text, index, jobs>> /\ q.pc = "get" /\ Refreshing(q)
        /\ q.then # "remove" /\ (q.then = "list" => q.todo = {})
    BY <1>2, <1>15 DEF At, Get, rows, Minds, Refreshing
  <2>2. CASE state[q.doc] # "alive" /\ GoOnward(r)
    BY <1>4, <1>5, <1>6, <1>8, <2>1, <2>2 DEF GoOnward
  <2>3. CASE state[q.doc] = "alive" /\ GoOn(r, [q EXCEPT !.pc = "head", !.snap = text[q.doc]])
    <3>1. PICK p : p = [q EXCEPT !.pc = "head", !.snap = text[q.doc]] /\ GoOn(r, p)
      BY <2>3
    <3>2. p.pc = "head" /\ p.then = q.then /\ p.doc = q.doc /\ p.todo = q.todo /\ p.snap = text[q.doc]
      BY <1>2, <3>1 DEF Request
    <3>3. Minds(p)'
      BY <2>1, <2>3, <3>2 DEF Minds, Refreshing
    <3>4. \A d : InHand(q, d) => InHand(p, d)
      BY <3>2 DEF InHand, Refreshing
    <3> QED
      BY <1>4, <1>5, <1>6, <1>7, <2>1, <3>1, <3>3, <3>4
  <2> QED
    BY <1>15, <2>2, <2>3 DEF At, Get
<1>16. CASE GetCommit(r) \/ GetBlob(r) \/ (IndexFails(r) /\ q.pc = "index")
  <2>1. UNCHANGED <<state, text, index, jobs>> /\ q.pc \in {"head", "blob", "index"} /\ Refreshing(q)
        /\ q.then # "remove" /\ (q.then = "list" => q.todo = {}) /\ q.snap = text[q.doc]
        /\ state[q.doc] = "alive" /\ q.doc \in Docs
    BY <1>2, <1>16 DEF GetCommit, GetBlob, IndexFails, At, rows, Minds, Refreshing, Busy
  <2>2. PICK pc \in {"blob", "index", "enqueue"}, why \in {"update", q.reason} :
            GoOn(r, [q EXCEPT !.pc = pc, !.reason = why])
    <3>1. \A pc : [q EXCEPT !.pc = pc, !.reason = q.reason] = [q EXCEPT !.pc = pc]
      BY <1>2 DEF Request
    <3>2. ~ MayBeTrimmed(q.doc, q.snap)
      BY <1>1, <2>1 DEF MayBeTrimmed, RowsOK
    <3>3. CASE GetCommit(r)
      BY <3>1, <3>2, <3>3 DEF GetCommit
    <3>4. CASE GetBlob(r)
      BY <3>1, <3>2, <3>4 DEF GetBlob
    <3>5. CASE IndexFails(r) /\ q.pc = "index"
      BY <3>5 DEF IndexFails
    <3> QED
      BY <1>16, <3>3, <3>4, <3>5
  <2>3. PICK p : p = [q EXCEPT !.pc = pc, !.reason = why] /\ GoOn(r, p)
    BY <2>2
  <2>4. p.pc = pc /\ p.then = q.then /\ p.doc = q.doc /\ p.todo = q.todo /\ p.snap = q.snap
    BY <1>2, <2>3 DEF Request
  <2>5. Minds(p)'
    BY <2>1, <2>4 DEF Minds, Refreshing
  <2>6. \A d : InHand(q, d) => InHand(p, d)
    BY <2>1, <2>4 DEF InHand, Refreshing
  <2> QED
    BY <1>4, <1>5, <1>6, <1>7, <2>1, <2>3, <2>5, <2>6
<1>17. CASE IndexFails(r) /\ q.pc = "remove"
  <2>1. PICK p : /\ p = [q EXCEPT !.pc = "enqueue", !.reason = "delete"]
                 /\ GoOn(r, p) /\ UNCHANGED <<state, text, index, jobs>>
    BY <1>17 DEF IndexFails, rows
  <2>2. p.pc = "enqueue" /\ p.then = q.then /\ p.doc = q.doc /\ p.todo = q.todo
    BY <1>2, <2>1 DEF Request
  <2>3. Minds(p)'
    BY <1>2, <1>17, <2>1, <2>2 DEF Minds, Refreshing
  <2>4. \A d : ~ InHand(q, d)
    BY <1>17 DEF InHand, Refreshing
  <2> QED
    BY <1>4, <1>5, <1>6, <1>7, <2>1, <2>3, <2>4
<1>18. CASE IndexDoc(r)
  <2>1. q.then # "remove" /\ (q.then = "list" => q.todo = {}) /\ q.snap = text[q.doc] /\ q.doc \in Docs
    BY <1>2, <1>18 DEF IndexDoc, Minds, Refreshing, Busy
  <2>2. index' = [index EXCEPT ![q.doc] = text[q.doc]] /\ UNCHANGED <<state, text, jobs>>
    BY <1>18, <2>1 DEF IndexDoc, rows
  <2>3. \A d \in In("alive")' : index'[d] = text'[d] \/ Queued(d)' \/ (d # q.doc /\ InHand(q, d))
    BY <1>1, <1>4, <1>5, <1>6, <2>1, <2>2 DEF RowsOK
  <2> QED
    BY <1>8, <1>18, <2>1, <2>3 DEF IndexDoc, GoOnward
<1>19. CASE DeleteDoc(r)
  <2>1. q.then = "remove" /\ \A d \in {q.doc} \cup q.todo : state[d] # "alive"
    BY <1>2, <1>19 DEF DeleteDoc, Minds
  <2>2. index' = [index EXCEPT ![q.doc] = NoEntry] /\ UNCHANGED <<state, text, jobs>>
    BY <1>19 DEF DeleteDoc, rows
  <2>3. \A d : ~ InHand(q, d)
    BY <1>19 DEF DeleteDoc, InHand, Refreshing
  <2>4. \A d \in In("alive")' : index'[d] = text'[d] \/ Queued(d)'
    BY <1>1, <1>4, <1>5, <1>6, <2>1, <2>2, <2>3 DEF RowsOK
  <2> QED
    BY <1>8, <1>19, <2>1, <2>2, <2>4 DEF DeleteDoc, GoOnward
<1>20. CASE Enqueue(r)
  <2>1. (q.then = "list" => q.todo = {})
        /\ (q.then = "remove" => \A d \in q.todo : state[d] # "alive")
    BY <1>2, <1>20 DEF At, Enqueue, Minds, Refreshing
  <2>2. jobs' = Append(jobs, [doc |-> q.doc, reason |-> q.reason, status |-> "pending"])
        /\ UNCHANGED <<state, text, index>>
    BY <1>20 DEF At, Enqueue, rows
  <2>3. \A d : d = q.doc => Queued(d)'
    <3>1. Len(jobs) + 1 \in DOMAIN jobs' /\ jobs'[Len(jobs) + 1].doc = q.doc
          /\ jobs'[Len(jobs) + 1].status = "pending"
      BY <1>1, <2>2 DEF WorkerOK
    <3> QED
      BY <3>1 DEF Queued, HasJob, Pending
  <2>4. \A d \in In("alive")' : index'[d] = text'[d] \/ Queued(d)' \/ (d # q.doc /\ InHand(q, d))
    BY <1>4, <1>5, <1>6, <2>2, <2>3
  <2> QED
    BY <1>8, <1>20, <2>1, <2>2, <2>4 DEF At, Enqueue, GoOnward
<1> QED
  BY <1>9, <1>10, <1>11, <1>12, <1>13, <1>14, <1>15, <1>16, <1>17, <1>18, <1>19, <1>20
  DEF Step, IndexFails

\* What the worker is about to do when it has done with a document.
LEMMA DoneForms ==
    ASSUME NEW w \in Worker, NEW v \in Done(w)
    PROVE  \/ v.pc = "finish" /\ w.todo = {}
           \/ v.pc = "load" /\ v.doc \in w.todo /\ v.todo = w.todo \ {v.doc}
<1>1. CASE w.todo # {}
  <2>1. PICK d \in w.todo :
            v = [w EXCEPT !.pc = "load", !.doc = d, !.todo = @ \ {d}, !.snap = 0]
    BY <1>1 DEF Done
  <2>2. v.pc = "load" /\ v.doc = d /\ v.todo = w.todo \ {d}
    BY <2>1 DEF Worker
  <2> QED
    BY <2>2
<1>2. CASE w.todo = {}
  <2>1. v = Ended(w, w.ok) /\ w.ok \in BOOLEAN
    BY <1>2 DEF Done, Worker
  <2> QED
    BY <1>2, <2>1, EndedTyped
<1> QED
  BY <1>1, <1>2

\* A step of the worker that keeps its job: what it has to show.
LEMMA WorkPledges ==
    ASSUME Pledged, \A r \in Requests : ~ Busy(reqs[r]),
           NEW w \in Worker, worker' = w, UNCHANGED <<state, text, reqs, jobs>>, w.job = worker.job,
           worker.pc # "idle",
           w.pc \in {"load", "head", "put"} /\ Its(worker).doc # All =>
              w.doc = Its(worker).doc /\ w.todo = {},
           w.pc \in {"head", "put"} => w.snap = text[w.doc],
           w.pc = "delete" => state[w.doc] = "gone",
           \A d \in In("alive") : (index[d] = text[d] \/ Rebuilt(d)) /\ ~ Queued(d) =>
              \/ index'[d] = text[d]
              \/ w.pc \in {"load", "head", "put"} /\ d \in {w.doc} \cup w.todo
    PROVE  Pledged'
<1>1. Its(worker)' = Its(worker)
  BY DEF Its
<1>2. Attends'
  BY <1>1 DEF Pledged, Attends
<1>3. \A r \in Requests : Minds(reqs[r])'
  BY DEF Minds, Busy, Refreshing
<1>4. ASSUME NEW d \in In("alive")' PROVE Kept(d)'
  <2>1. d \in In("alive")
    BY <1>4 DEF In
  <2>2. \A r \in Requests : ~ InHand(reqs[r], d)
    BY DEF InHand, Busy, Refreshing
  <2>3. (index[d] = text[d] \/ Rebuilt(d)) \/ Queued(d)
    BY <2>1, <2>2 DEF Pledged, AllKept, Kept
  <2>4. Queued(d) => Queued(d)'
    BY DEF Queued, HasJob, Pending
  <2> QED
    BY <1>1, <2>1, <2>3, <2>4 DEF Kept, Rebuilt
<1> QED
  BY <1>2, <1>3, <1>4 DEF Pledged, AllKept

\* The worker keeps the promise, where nothing fails it: a job it takes out of the
\* queue is done for every document it has.
LEMMA WorkerPledges ==
    ASSUME TypeOK, Pledged, WorkerStep, \A r \in Requests : ~ Busy(reqs[r])
    PROVE  Pledged'
<1>1. RowsOK /\ WorkerOK
  BY TypeParts
<1>2. worker \in Worker /\ (worker.pc \in {"load", "head", "put", "delete"} => worker.doc \in Docs)
      /\ (worker.pc # "idle" => worker.job \in DOMAIN jobs)
  BY <1>1 DEF WorkerOK
<1>3. In("alive") = {d \in Docs : state[d] = "alive"}
  BY DEF In
<1>4. Attends
  BY DEF Pledged
<1>5. \A r \in Requests : \A d : ~ InHand(reqs[r], d)
  BY DEF InHand, Busy, Refreshing
<1>6. UNCHANGED <<state, text, reqs>>
  BY DEF WorkerStep, Pop, Look, Load, LoadHead, Put, Delete, FinishReindexJob, Work, rows
<1>7. \A r \in Requests : Minds(reqs[r])'
  BY <1>6 DEF Minds, Busy, Refreshing
<1>8. \A d \in In("alive") : index[d] = text[d] \/ Queued(d) \/ Rebuilt(d)
  BY <1>5 DEF Pledged, AllKept, Kept
<1>9. CASE Pop
  <2>1. PICK i \in Pending :
            /\ jobs' = [jobs EXCEPT ![i].status = "running"]
            /\ Work([worker EXCEPT !.pc = "look", !.job = i, !.ok = TRUE])
    BY <1>9 DEF Pop
  <2>2. i \in DOMAIN jobs /\ worker.pc = "idle" /\ UNCHANGED index
    BY <1>9 DEF Pending, Pop
  <2>3. worker'.pc = "look" /\ worker'.job = i
    BY <1>2, <2>1 DEF Work, Worker
  <2>4. /\ DOMAIN jobs' = DOMAIN jobs
        /\ \A k \in DOMAIN jobs : jobs'[k].doc = jobs[k].doc /\ (k # i => jobs'[k] = jobs[k])
        /\ jobs'[i].status = "running"
    <3>1. DOMAIN jobs' = DOMAIN jobs /\ \A k \in DOMAIN jobs : jobs'[k].doc = jobs[k].doc
      BY <1>1, <2>1, <2>2, StatusTyped DEF WorkerOK
    <3>2. jobs[i] \in Job
      BY <1>1, <2>2 DEF WorkerOK
    <3> QED
      BY <2>1, <2>2, <3>1, <3>2 DEF Job
  <2>5. Attends'
    BY <2>3, <2>4 DEF Attends
  <2>6. ASSUME NEW d \in In("alive") PROVE Kept(d)'
    <3>1. ~ Rebuilt(d)
      BY <2>2 DEF Rebuilt
    <3>2. CASE index[d] = text[d]
      BY <1>6, <2>2, <3>2 DEF Kept
    <3>3. CASE Queued(d)
      <4>1. PICK k \in DOMAIN jobs : jobs[k].doc \in {d, All} /\ jobs[k].status = "pending"
        BY <3>3 DEF Queued, HasJob, Pending
      <4>2. CASE k = i
        BY <2>3, <2>4, <4>1, <4>2 DEF Kept, Rebuilt, Its
      <4>3. CASE k # i
        BY <2>4, <4>1, <4>3 DEF Kept, Queued, HasJob, Pending
      <4> QED
        BY <4>2, <4>3
    <3> QED
      BY <1>8, <3>1, <3>2, <3>3
  <2> QED
    BY <1>3, <1>6, <1>7, <2>5, <2>6 DEF Pledged, AllKept, In
<1>10. CASE FinishReindexJob
  <2> DEFINE st == IF worker.ok THEN "done" ELSE "failed"
  <2>1. jobs' = [jobs EXCEPT ![worker.job].status = st] /\ UNCHANGED index
        /\ worker.pc = "finish" /\ worker' = Waiting
    BY <1>10 DEF FinishReindexJob, Work
  <2>2. worker.job \in DOMAIN jobs /\ jobs[worker.job].status = "running" /\ worker'.pc = "idle"
    BY <1>2, <1>4, <2>1, WaitingTyped DEF Attends
  <2>3. /\ DOMAIN jobs' = DOMAIN jobs
        /\ \A k \in DOMAIN jobs : jobs'[k].doc = jobs[k].doc /\ (k # worker.job => jobs'[k] = jobs[k])
        /\ jobs'[worker.job].status = st
    <3>1. DOMAIN jobs' = DOMAIN jobs /\ \A k \in DOMAIN jobs : jobs'[k].doc = jobs[k].doc
      BY <1>1, <2>1, <2>2, StatusTyped DEF WorkerOK
    <3>2. jobs[worker.job] \in Job
      BY <1>1, <2>2 DEF WorkerOK
    <3> QED
      BY <2>1, <2>2, <3>1, <3>2 DEF Job
  <2>4. Attends'
    BY <2>2 DEF Attends
  <2>5. ASSUME NEW d \in In("alive") PROVE Kept(d)'
    <3>1. CASE index[d] = text[d]
      BY <1>6, <2>1, <3>1 DEF Kept
    <3>2. CASE Queued(d)
      BY <2>2, <2>3, <3>2 DEF Kept, Queued, HasJob, Pending
    <3>3. ~ Rebuilt(d)
      BY <2>1 DEF Rebuilt
    <3> QED
      BY <1>8, <3>1, <3>2, <3>3
  <2> QED
    BY <1>3, <1>6, <1>7, <2>4, <2>5 DEF Pledged, AllKept, In
<1>11. CASE Look
  <2>1. worker.pc = "look" /\ UNCHANGED <<index, jobs>>
    BY <1>11 DEF Look
  <2>2. CASE Its(worker).doc = All
    <3> DEFINE w == [worker EXCEPT !.todo = In("alive")]
    <3>1. w \in Worker /\ w.job = worker.job /\ w.todo = In("alive")
      BY <1>2, <1>3 DEF Worker
    <3>2. PICK v \in Done(w) : Work(v)
      BY <1>11, <2>2 DEF Look
    <3> HIDE DEF w
    <3>3. v \in Worker /\ v.job = worker.job /\ v.pc \in {"load", "finish"}
      BY <3>1, <3>2, DoneTyped
    <3>4. \A d \in In("alive") : v.pc = "load" /\ d \in {v.doc} \cup v.todo
      BY <3>1, <3>2, DoneForms
    <3> QED
      BY <1>6, <2>1, <2>2, <3>2, <3>3, <3>4, WorkPledges DEF Work
  <2>3. CASE Its(worker).doc # All
    <3> DEFINE d == Its(worker).doc
    <3>1. PICK w : /\ w = [worker EXCEPT !.doc = d, !.todo = {},
                                         !.pc = IF state[d] = "gone" THEN "delete" ELSE "load"]
                   /\ Work(w)
      BY <1>11, <2>3 DEF Look
    <3>2. d \in Docs
      <4>1. Its(worker) \in Job
        BY <1>1, <1>2, <2>1 DEF WorkerOK, Its
      <4> QED
        BY <2>3, <4>1 DEF Job
    <3>3. /\ w \in Worker /\ w.job = worker.job /\ w.doc = d /\ w.todo = {}
          /\ w.pc = IF state[d] = "gone" THEN "delete" ELSE "load"
      BY <1>2, <3>1, <3>2 DEF Worker
    <3>4. \A e \in In("alive") : Rebuilt(e) => w.pc = "load" /\ e = w.doc
      BY <1>3, <2>1, <2>3, <3>3 DEF Rebuilt
    <3> HIDE DEF d
    <3>5. CASE state[d] = "gone"
      <4>1. w.pc = "delete" /\ state[w.doc] = "gone" /\ \A e \in In("alive") : ~ Rebuilt(e)
        BY <3>3, <3>4, <3>5
      <4> QED
        BY <1>6, <2>1, <3>1, <3>3, <4>1, WorkPledges DEF Work
    <3>6. CASE state[d] # "gone"
      <4>1. w.pc = "load"
        BY <3>3, <3>6
      <4> QED
        BY <1>6, <2>1, <3>1, <3>3, <3>4, <4>1, WorkPledges DEF Work, d
    <3> QED
      BY <3>5, <3>6
  <2> QED
    BY <2>2, <2>3
\* The worker lets go of a document that is not alive.
<1>12. ASSUME worker.pc \in {"load", "head"}, UNCHANGED <<index, jobs>>, state[worker.doc] = "gone",
              NEW v \in Skip(worker), Work(v)
       PROVE  Pledged'
  <2>1. v \in Worker /\ v.job = worker.job /\ v.pc \in {"load", "finish"}
    BY <1>2, <1>12, SkipTyped
  <2>2. \A d \in In("alive") : Rebuilt(d) => d \in worker.todo
    BY <1>3, <1>12 DEF Rebuilt
  <2>3. CASE Its(worker).doc = All
    <3>1. \A d \in worker.todo : v.pc = "load" /\ d \in {v.doc} \cup v.todo
      BY <1>2, <1>12, <2>3, DoneForms DEF Skip
    <3> QED
      BY <1>6, <1>12, <2>1, <2>2, <2>3, <3>1, WorkPledges DEF Work
  <2>4. CASE Its(worker).doc # All
    <3>1. v.pc = "finish" /\ worker.todo = {}
      BY <1>2, <1>4, <1>12, <2>4, EndedTyped DEF Skip, Attends
    <3> QED
      BY <1>6, <1>12, <2>1, <2>2, <3>1, WorkPledges DEF Work
  <2> QED
    BY <2>3, <2>4
\* The worker goes on with the document it has.
<1>13. ASSUME worker.pc \in {"load", "head"}, UNCHANGED <<index, jobs>>,
              NEW w \in Worker, Work(w), w.pc \in {"head", "put"}, w.job = worker.job,
              w.doc = worker.doc, w.todo = worker.todo, w.snap = text[worker.doc]
       PROVE  Pledged'
  <2>1. Its(worker).doc # All => w.doc = Its(worker).doc /\ w.todo = {}
    BY <1>4, <1>13 DEF Attends
  <2>2. \A d : Rebuilt(d) => d \in {w.doc} \cup w.todo
    BY <1>13 DEF Rebuilt
  <2> QED
    BY <1>6, <1>13, <2>1, <2>2, WorkPledges DEF Work
<1>14. CASE Load
  <2>1. CASE state[worker.doc] = "gone"
    BY <1>12, <1>14, <2>1 DEF Load
  <2>2. CASE state[worker.doc] # "gone"
    <3>1. PICK w : w = [worker EXCEPT !.pc = "head", !.snap = text[worker.doc]] /\ Work(w)
      BY <1>14, <2>2 DEF Load
    <3>2. text[worker.doc] \in Nat
      BY <1>1, <1>2, <1>14 DEF Load, RowsOK
    <3>3. w \in Worker /\ w.pc = "head" /\ w.job = worker.job /\ w.doc = worker.doc
          /\ w.todo = worker.todo /\ w.snap = text[worker.doc]
      BY <1>2, <3>1, <3>2 DEF Worker
    <3> QED
      BY <1>13, <1>14, <3>1, <3>3 DEF Load
  <2> QED
    BY <2>1, <2>2
<1>15. CASE LoadHead
  <2>1. worker.pc = "head" /\ worker.snap = text[worker.doc] /\ text[worker.doc] \in Nat
    BY <1>1, <1>2, <1>4, <1>15 DEF LoadHead, Attends, RowsOK
  <2>2. CASE Work([worker EXCEPT !.pc = "put"])
    <3>1. PICK w : w = [worker EXCEPT !.pc = "put"] /\ Work(w)
      BY <2>2
    <3>2. w \in Worker /\ w.pc = "put" /\ w.job = worker.job /\ w.doc = worker.doc
          /\ w.todo = worker.todo /\ w.snap = worker.snap
      BY <1>2, <3>1 DEF Worker
    <3> QED
      BY <1>13, <1>15, <2>1, <3>1, <3>2 DEF LoadHead
  <2>3. CASE MayBeTrimmed(worker.doc, worker.snap) /\ \E w \in Skip(worker) : Work(w)
    <3>1. state[worker.doc] = "gone"
      BY <2>1, <2>3 DEF MayBeTrimmed
    <3> QED
      BY <1>12, <1>15, <2>1, <2>3, <3>1 DEF LoadHead
  <2> QED
    BY <1>15, <2>2, <2>3 DEF LoadHead
<1>16. CASE Put
  <2>1. worker.pc = "put" /\ worker.doc \in Docs /\ index' = [index EXCEPT ![worker.doc] = text[worker.doc]]
        /\ UNCHANGED jobs
    BY <1>2, <1>4, <1>16 DEF Put, Attends
  <2>2. PICK v \in Done(worker) : Work(v)
    BY <1>16 DEF Put
  <2>3. v \in Worker /\ v.job = worker.job /\ v.pc \in {"load", "finish"}
    BY <1>2, <2>2, DoneTyped
  <2>4. Its(worker).doc # All => v.pc = "finish"
    BY <1>2, <1>4, <2>1, <2>2, DoneForms DEF Attends
  <2>5. \A d \in worker.todo : v.pc = "load" /\ d \in {v.doc} \cup v.todo
    BY <1>2, <2>2, DoneForms
  <2>6. \A d \in In("alive") : index[d] = text[d] \/ Rebuilt(d) => index'[d] = text[d] \/ d \in worker.todo
    BY <1>1, <1>3, <2>1 DEF RowsOK, Rebuilt
  <2> QED
    BY <1>6, <2>1, <2>2, <2>3, <2>4, <2>5, <2>6, WorkPledges DEF Work
<1>17. CASE Delete
  <2>1. worker.pc = "delete" /\ worker.doc \in Docs /\ state[worker.doc] = "gone"
        /\ index' = [index EXCEPT ![worker.doc] = NoEntry] /\ UNCHANGED jobs
    BY <1>2, <1>4, <1>17 DEF Delete, Attends
  <2>2. PICK w : w = Ended(worker, TRUE) /\ Work(w)
    BY <1>17 DEF Delete
  <2>3. w \in Worker /\ w.pc = "finish" /\ w.job = worker.job
    BY <1>2, <2>2, EndedTyped
  <2>4. \A d \in In("alive") : index'[d] = index[d] /\ ~ Rebuilt(d)
    BY <1>1, <1>3, <2>1 DEF RowsOK, Rebuilt
  <2> QED
    BY <1>6, <2>1, <2>2, <2>3, <2>4, WorkPledges DEF Work
<1> QED
  BY <1>9, <1>10, <1>11, <1>14, <1>15, <1>16, <1>17 DEF WorkerStep

\* A rebuild that is asked for changes nothing of it.
LEMMA RequestRebuildPledges ==
    ASSUME TypeOK, Pledged, RequestRebuild PROVE Pledged'
<1>1. UNCHANGED <<state, text, index, reqs, worker>> /\ jobs \in Seq(Job)
      /\ \E j \in Job : jobs' = Append(jobs, j)
  <2>1. [doc |-> All, reason |-> "manual", status |-> "pending"] \in Job
    BY DEF Job
  <2> QED
    BY <2>1, TypeParts DEF RequestRebuild, rows, WorkerOK
<1>2. worker.pc # "idle" => Its(worker)' = Its(worker)
  BY <1>1, TypeParts, JobKeepsDoc
<1>3. Attends'
  BY <1>1, <1>2 DEF Pledged, Attends, Its
<1>4. \A d : Rebuilt(d) => Rebuilt(d)'
  BY <1>1, <1>2 DEF Rebuilt
<1>5. \A d : Queued(d) => Queued(d)'
  BY <1>1, QueuedStays
<1>6. AllKept'
  BY <1>1, <1>4, <1>5 DEF Pledged, AllKept, Kept, In
<1> QED
  BY <1>1, <1>3, <1>6 DEF Pledged, Minds

LEMMA PledgedInit == Init => Pledged
<1> SUFFICES ASSUME Init PROVE Pledged
  OBVIOUS
<1>1. ASSUME NEW r \in Requests PROVE Minds(reqs[r])
  BY OverTyped DEF Init, Minds, Refreshing
<1> QED
  BY <1>1, WaitingTyped DEF Init, Pledged, Attends, AllKept, Kept

LEMMA PledgedStep == TypeOK /\ Pledged /\ [NextAlone]_vars => TypeOK' /\ Pledged'
<1> SUFFICES ASSUME TypeOK, Pledged, [NextAlone]_vars PROVE TypeOK' /\ Pledged'
  OBVIOUS
<1>1. TypeOK'
  BY TypeStep DEF NextAlone, Next
<1>2. CASE UNCHANGED vars
  <2>1. (\A r \in Requests : Minds(reqs[r])') /\ Attends'
    BY <1>2 DEF vars, Pledged, Minds, Attends, Its
  <2>2. AllKept'
    BY <1>2 DEF vars, Pledged, AllKept, Kept, In, Its, Rebuilt, Queued, HasJob, Pending
  <2> QED
    BY <1>1, <2>1, <2>2 DEF Pledged
<1>3. CASE NextAlone
  BY <1>1, <1>3, RequestPledges, RequestRebuildPledges, WorkerPledges DEF NextAlone
<1> QED
  BY <1>1, <1>2, <1>3

-----------------------------------------------------------------------------
\* What is saved is in the index, or a job in the queue makes up for it, where
\* requests and jobs come one at a time and only requests are refused: SE-02 for any
\* number of documents and jobs and any refusals of what requests write.
THEOREM SavesAreIndexed == Alone => []SavedIsIndexed
<1>1. Pledged => SavedIsIndexed
  <2> SUFFICES ASSUME Pledged, Resting, NEW d \in In("alive")
               PROVE  index[d] = text[d] \/ HasJob(d) \/ HasJob(All)
    BY DEF SavedIsIndexed
  <2>1. ~ Rebuilt(d) /\ \A r \in Requests : ~ InHand(reqs[r], d)
    BY DEF Resting, Rebuilt, InHand, Busy, Refreshing
  <2> QED
    BY <2>1 DEF Queued, Pledged, AllKept, Kept
<1> QED
  BY <1>1, TypeInit, PledgedInit, PledgedStep, PTL DEF Alone

-----------------------------------------------------------------------------
(***************************************************************************)
(* What leaves the tree leaves the index, as long as the index refuses     *)
(* nothing: then no job is for one document, and a full rebuild puts only  *)
(* what is alive there.                                                    *)
(***************************************************************************)

\* A request still takes the document out.
TakesOut(q, d) == q.pc = "remove" /\ d \in {q.doc} \cup q.todo

IsOut(d) == index[d] = NoEntry \/ \E r \in Requests : TakesOut(reqs[r], d)

\* What a request is about to trash is what it has listed, and none leaves a job.
Careful(q) ==
    /\ q.pc # "enqueue"
    /\ q.pc = "trash" => q.todo = Below[q.doc] \cap In("alive")

\* The worker rebuilds all, from what is alive.
Rebuilds ==
    /\ \A i \in DOMAIN jobs : jobs[i].doc = All
    /\ worker.pc # "delete"
    /\ worker.pc \in {"load", "head", "put"} =>
          \A d \in {worker.doc} \cup worker.todo : state[d] = "alive"

Cleared ==
    /\ \A r \in Requests : Careful(reqs[r])
    /\ Rebuilds
    /\ \A d \in Docs : state[d] # "alive" => IsOut(d)

LEMMA OnwardCareful ==
    ASSUME NEW q \in Request, NEW p \in Onward(q)
    PROVE  Careful(p)' /\ \A d \in q.todo : q.then = "remove" => TakesOut(p, d)
<1>1. p.pc \in {"get", "list", "idle", "remove"}
  BY OnwardForms DEF Request
<1>2. ASSUME NEW d \in q.todo, q.then = "remove" PROVE TakesOut(p, d)
  BY <1>2, OnwardForms DEF TakesOut
<1> QED
  BY <1>1, <1>2 DEF Careful

\* A request that is alone at work keeps it, where nothing fails.
LEMMA RequestClears ==
    ASSUME TypeOK, Pledged, Cleared, NEW r \in Requests, Step(r), faults = 0, faults' = 0,
           ~ Leave(r), ~ CallFails(r), worker.pc = "idle", \A s \in Requests \ {r} : ~ Busy(reqs[s])
    PROVE  Cleared'
<1> DEFINE q == reqs[r]
<1>1. RowsOK /\ ReqsOK
  BY TypeParts
<1>2. q \in Request /\ (Busy(q) => q.doc \in Docs) /\ Minds(q) /\ Careful(q)
  BY <1>1 DEF ReqsOK, Pledged, Cleared
<1>3. ~ IndexFails(r)
  BY DEF IndexFails
<1>4. ~ Enqueue(r)
  BY <1>2 DEF At, Enqueue, Careful
<1>5. UNCHANGED <<worker, jobs>>
  BY <1>3, <1>4 DEF At, Step, Edit, BeginTrash, BeginPurge, Trash, Purge, Restore, ListRest, Get,
       GetCommit, GetBlob, IndexDoc, DeleteDoc
<1>6. Rebuilds'
  BY <1>5 DEF Cleared, Rebuilds
<1>7. \A d \in Docs : state[d] # "alive" => index[d] = NoEntry \/ TakesOut(q, d)
  BY DEF Cleared, IsOut, TakesOut, Busy
<1>8. ASSUME NEW p, GoOn(r, p), Careful(p)',
             \A d \in Docs : state'[d] # "alive" => index'[d] = NoEntry \/ TakesOut(p, d)
      PROVE  Cleared'
  <2>1. reqs' = [reqs EXCEPT ![r] = p] /\ reqs'[r] = p
    BY <1>1, <1>8 DEF GoOn, ReqsOK
  <2>2. ASSUME NEW s \in Requests PROVE Careful(reqs[s])'
    <3>1. CASE s = r
      BY <1>8, <2>1, <3>1 DEF Careful
    <3>2. CASE s # r
      <4>1. reqs'[s].pc = "idle"
        BY <1>1, <2>1, <3>2 DEF Busy, ReqsOK
      <4> QED
        BY <4>1 DEF Careful
    <3> QED
      BY <3>1, <3>2
  <2>3. \A d \in Docs : state'[d] # "alive" => IsOut(d)'
    BY <1>8, <2>1 DEF IsOut, TakesOut
  <2> QED
    BY <1>6, <2>2, <2>3 DEF Cleared
<1>9. In("alive") = {d \in Docs : state[d] = "alive"}
  BY DEF In
<1>10. CASE Edit(r)
  <2>1. PICK d \in In("alive") : GoOn(r, Start("get", "get", d))
    BY <1>10 DEF Edit
  <2>2. PICK p : p = Start("get", "get", d) /\ GoOn(r, p)
    BY <2>1
  <2>3. Careful(p)'
    BY <2>2 DEF Careful, Start
  <2>4. UNCHANGED <<state, index>> /\ \A e : ~ TakesOut(q, e)
    BY <1>10 DEF Edit, TakesOut, Busy
  <2> QED
    BY <1>7, <1>8, <2>2, <2>3, <2>4
<1>11. CASE BeginTrash(r) \/ BeginPurge(r)
  <2>1. PICK p : /\ GoOn(r, p) /\ p.pc \in {"trash", "purge"}
                 /\ p.pc = "trash" => p.todo = Below[p.doc] \cap In("alive")
    <3>1. PICK d \in Docs, pc \in {"trash", "purge"}, S \in SUBSET Docs :
              /\ GoOn(r, [Start(pc, "remove", d) EXCEPT !.todo = S])
              /\ pc = "trash" => S = Below[d] \cap In("alive")
      <4>1. In("alive") \subseteq Docs /\ In("trashed") \subseteq Docs
        BY DEF In
      <4>2. CASE BeginTrash(r)
        BY <4>1, <4>2 DEF BeginTrash
      <4>3. CASE BeginPurge(r)
        BY <4>1, <4>3 DEF BeginPurge
      <4> QED
        BY <1>11, <4>2, <4>3
    <3>2. PICK p : p = [Start(pc, "remove", d) EXCEPT !.todo = S] /\ GoOn(r, p)
      BY <3>1
    <3>3. p.pc = pc /\ p.doc = d /\ p.todo = S
      BY <3>2 DEF Start
    <3> QED
      BY <3>1, <3>2, <3>3
  <2>2. UNCHANGED <<state, index>> /\ \A e : ~ TakesOut(q, e)
    BY <1>11 DEF BeginTrash, BeginPurge, rows, TakesOut, Busy
  <2>3. Careful(p)'
    BY <2>1, <2>2 DEF Careful, In
  <2> QED
    BY <1>7, <1>8, <2>1, <2>2, <2>3
<1>12. CASE Trash(r)
  <2>1. PICK p \in Onward(q) : GoOn(r, p)
    BY <1>12 DEF At, Trash, GoOnward
  <2>2. q.then = "remove" /\ q.todo = Below[q.doc] \cap In("alive") /\ \A e : ~ TakesOut(q, e)
    BY <1>2, <1>12 DEF At, Trash, Minds, Careful, TakesOut
  <2>3. \A d \in Docs : state'[d] # "alive" => state[d] # "alive" \/ d \in q.todo
    BY <1>12, <2>2 DEF At, Trash
  <2> QED
    BY <1>2, <1>7, <1>8, <1>12, <2>1, <2>2, <2>3, OnwardCareful DEF At, Trash
<1>13. CASE Purge(r)
  <2>1. PICK p : GoOn(r, p) /\ Careful(p)'
    <3>1. CASE GoOnward(r)
      BY <1>2, <3>1, OnwardCareful DEF GoOnward
    <3>2. CASE GoOn(r, Over)
      <4>1. Careful(Over)'
        BY OverTyped DEF Careful
      <4> QED
        BY <3>2, <4>1
    <3> QED
      BY <1>13, <3>1, <3>2 DEF At, Purge
  <2>2. UNCHANGED index /\ \A e : ~ TakesOut(q, e)
    BY <1>13 DEF At, Purge, TakesOut
  <2>3. \A d \in Docs : state'[d] # "alive" => state[d] # "alive"
    BY <1>9, <1>13 DEF At, Purge
  <2> QED
    BY <1>7, <1>8, <2>1, <2>2, <2>3
<1>14. CASE Restore(r)
  <2>1. PICK d \in In("trashed") :
            /\ state' = [e \in Docs |-> IF e \in Below[d] \cap In("trashed")
                                        THEN "alive" ELSE state[e]]
            /\ GoOn(r, Start("get", "list", d))
    BY <1>14 DEF Restore
  <2>2. PICK p : p = Start("get", "list", d) /\ GoOn(r, p)
    BY <2>1
  <2>3. Careful(p)'
    BY <2>2 DEF Careful, Start
  <2>4. UNCHANGED index /\ \A e : ~ TakesOut(q, e)
    BY <1>14 DEF Restore, TakesOut, Busy
  <2> QED
    BY <1>7, <1>8, <2>1, <2>2, <2>3, <2>4
<1>15. CASE ListRest(r)
  <2> DEFINE rest == [q EXCEPT !.then = "get",
                          !.todo = (Below[q.doc] \cap In("alive")) \ {q.doc}]
  <2>1. rest \in Request
    BY <1>2, <1>9, <1>15 DEF At, ListRest, Request
  <2>2. PICK p \in Onward(rest) : GoOn(r, p)
    BY <1>15 DEF At, ListRest
  <2> HIDE DEF rest
  <2>3. Careful(p)'
    BY <2>1, <2>2, OnwardCareful
  <2> QED
    BY <1>7, <1>8, <1>15, <2>2, <2>3 DEF At, ListRest, rows, TakesOut
<1>16. CASE Get(r)
  <2>1. UNCHANGED <<state, text, index>> /\ \A e : ~ TakesOut(q, e)
    BY <1>16 DEF At, Get, rows, TakesOut
  <2>2. CASE GoOnward(r)
    BY <1>2, <1>7, <1>8, <2>1, <2>2, OnwardCareful DEF GoOnward
  <2>3. CASE state[q.doc] = "alive" /\ GoOn(r, [q EXCEPT !.pc = "head", !.snap = text[q.doc]])
    <3>1. PICK p : p = [q EXCEPT !.pc = "head", !.snap = text[q.doc]] /\ GoOn(r, p)
      BY <2>3
    <3>2. p.pc = "head" /\ p.doc = q.doc
      BY <1>2, <3>1 DEF Request
    <3>3. Careful(p)'
      BY <2>1, <2>3, <3>2 DEF Careful
    <3> QED
      BY <1>7, <1>8, <2>1, <3>1, <3>3
  <2> QED
    BY <1>16, <2>2, <2>3 DEF At, Get
<1>17. CASE GetCommit(r) \/ GetBlob(r)
  <2>1. state[q.doc] = "alive" /\ q.snap = text[q.doc] /\ q.doc \in Docs
    BY <1>2, <1>17 DEF GetCommit, GetBlob, At, Minds, Busy
  <2>2. ~ MayBeTrimmed(q.doc, q.snap)
    BY <1>1, <2>1 DEF MayBeTrimmed, RowsOK
  <2>3. PICK p : p.pc \in {"blob", "index"} /\ GoOn(r, p)
    <3>1. PICK pc \in {"blob", "index"} : GoOn(r, [q EXCEPT !.pc = pc])
      BY <1>17, <2>2 DEF GetCommit, GetBlob
    <3>2. [q EXCEPT !.pc = pc].pc = pc
      BY <1>2 DEF Request
    <3>3. PICK p : p = [q EXCEPT !.pc = pc]
      OBVIOUS
    <3>4. p.pc \in {"blob", "index"} /\ GoOn(r, p)
      BY <3>1, <3>2, <3>3
    <3> QED
      BY <3>4
  <2>5. UNCHANGED <<state, index>> /\ \A e : ~ TakesOut(q, e)
    BY <1>17 DEF GetCommit, GetBlob, At, rows, TakesOut
  <2>6. Careful(p)'
    BY <2>3 DEF Careful
  <2> QED
    BY <1>7, <1>8, <2>3, <2>5, <2>6
<1>18. CASE IndexDoc(r)
  <2>1. state[q.doc] = "alive" /\ \A e : ~ TakesOut(q, e)
    BY <1>2, <1>18 DEF IndexDoc, Minds, TakesOut
  <2>2. PICK p \in Onward(q) : GoOn(r, p)
    BY <1>18 DEF IndexDoc, GoOnward
  <2>3. \A d \in Docs : state'[d] # "alive" => state[d] # "alive" /\ index'[d] = index[d]
    BY <1>1, <1>18, <2>1 DEF IndexDoc, rows, RowsOK
  <2> QED
    BY <1>2, <1>7, <1>8, <2>1, <2>2, <2>3, OnwardCareful
<1>19. CASE DeleteDoc(r)
  <2>1. q.then = "remove"
    BY <1>2, <1>19 DEF DeleteDoc, Minds
  <2>2. PICK p \in Onward(q) : GoOn(r, p)
    BY <1>19 DEF DeleteDoc, GoOnward
  <2>3. index' = [index EXCEPT ![q.doc] = NoEntry] /\ UNCHANGED state
    BY <1>19 DEF DeleteDoc, rows
  <2>4. \A d \in Docs : state'[d] # "alive" => index'[d] = NoEntry \/ d \in q.todo
    BY <1>1, <1>7, <2>3 DEF RowsOK, TakesOut
  <2> QED
    BY <1>2, <1>8, <2>1, <2>2, <2>4, OnwardCareful
<1> QED
  BY <1>3, <1>4, <1>10, <1>11, <1>12, <1>13, <1>14, <1>15, <1>16, <1>17, <1>18, <1>19 DEF Step

\* A step of the worker: what it has to show.
LEMMA WorkClears ==
    ASSUME Cleared, \A r \in Requests : ~ Busy(reqs[r]), UNCHANGED <<state, reqs>>,
           \A i \in DOMAIN jobs' : jobs'[i].doc = All,
           NEW w, worker' = w, w.pc # "delete",
           w.pc \in {"load", "head", "put"} => \A d \in {w.doc} \cup w.todo : state[d] = "alive",
           \A d \in Docs : state[d] # "alive" => index'[d] = index[d]
    PROVE  Cleared'
<1>1. Rebuilds'
  BY DEF Rebuilds
<1>2. \A r \in Requests : Careful(reqs[r])'
  BY DEF Careful, Busy
<1>3. \A d \in Docs : state[d] # "alive" => index[d] = NoEntry
  BY DEF Cleared, IsOut, TakesOut, Busy
<1>4. \A d \in Docs : state'[d] # "alive" => IsOut(d)'
  BY <1>3 DEF IsOut
<1> QED
  BY <1>1, <1>2, <1>4 DEF Cleared

LEMMA WorkerClears ==
    ASSUME TypeOK, Pledged, Cleared, WorkerStep, \A r \in Requests : ~ Busy(reqs[r])
    PROVE  Cleared'
<1>1. RowsOK /\ WorkerOK
  BY TypeParts
<1>2. worker \in Worker /\ (worker.pc \in {"load", "head", "put"} => worker.doc \in Docs)
      /\ (worker.pc # "idle" => worker.job \in DOMAIN jobs)
  BY <1>1 DEF WorkerOK
<1>3. Rebuilds /\ Attends
  BY DEF Cleared, Pledged
<1>4. UNCHANGED <<state, reqs>>
  BY DEF WorkerStep, Pop, Look, Load, LoadHead, Put, Delete, FinishReindexJob, Work, rows
<1>5. In("alive") = {d \in Docs : state[d] = "alive"}
  BY DEF In
<1>6. CASE Pop
  <2>1. PICK i \in DOMAIN jobs :
            /\ jobs' = [jobs EXCEPT ![i].status = "running"]
            /\ worker' = [worker EXCEPT !.pc = "look", !.job = i, !.ok = TRUE]
    BY <1>6 DEF Pop, Pending, Work
  <2>2. \A k \in DOMAIN jobs' : jobs'[k].doc = All
    BY <1>1, <1>3, <2>1, StatusTyped DEF Rebuilds, WorkerOK
  <2>3. PICK w : w = [worker EXCEPT !.pc = "look", !.job = i, !.ok = TRUE] /\ worker' = w
    BY <2>1
  <2>4. w.pc = "look"
    BY <1>2, <2>3 DEF Worker
  <2> QED
    BY <1>4, <1>6, <2>2, <2>3, <2>4, WorkClears DEF Pop
<1>7. CASE FinishReindexJob
  <2>1. PICK st \in {"done", "failed"} :
            /\ jobs' = [jobs EXCEPT ![worker.job].status = st] /\ worker.job \in DOMAIN jobs
    BY <1>2, <1>7 DEF FinishReindexJob
  <2>2. \A k \in DOMAIN jobs' : jobs'[k].doc = All
    BY <1>1, <1>3, <2>1, StatusTyped DEF Rebuilds, WorkerOK
  <2>3. worker' = Waiting
    BY <1>7 DEF FinishReindexJob, Work
  <2>4. Waiting.pc = "idle"
    BY WaitingTyped
  <2> QED
    BY <1>4, <1>7, <2>2, <2>3, <2>4, WorkClears DEF FinishReindexJob
<1>8. CASE Look
  <2>1. Its(worker).doc = All /\ UNCHANGED <<index, jobs>>
    BY <1>2, <1>3, <1>8 DEF Look, Its, Rebuilds
  <2> DEFINE w == [worker EXCEPT !.todo = In("alive")]
  <2>2. w \in Worker /\ w.todo = In("alive")
    BY <1>2, <1>5 DEF Worker
  <2>3. PICK v \in Done(w) : Work(v)
    BY <1>8, <2>1 DEF Look
  <2> HIDE DEF w
  <2>4. v.pc \in {"load", "finish"} /\ (v.pc = "load" => {v.doc} \cup v.todo \subseteq In("alive"))
    BY <2>2, <2>3, DoneForms
  <2> QED
    BY <1>3, <1>4, <1>5, <2>1, <2>3, <2>4, WorkClears DEF Work, Rebuilds
<1>9. CASE Load \/ LoadHead
  <2>1. worker.pc \in {"load", "head"} /\ state[worker.doc] = "alive" /\ UNCHANGED <<index, jobs>>
    BY <1>3, <1>9 DEF Load, LoadHead, Rebuilds
  <2>2. PICK w : /\ worker' = w /\ w.pc \in {"head", "put"}
                 /\ w.doc = worker.doc /\ w.todo = worker.todo
    <3>1. CASE Load
      BY <1>2, <2>1, <3>1 DEF Load, Work, Worker
    <3>2. CASE LoadHead
      <4>1. ~ MayBeTrimmed(worker.doc, worker.snap)
        BY <1>1, <1>2, <1>3, <2>1, <3>2 DEF LoadHead, Attends, MayBeTrimmed, RowsOK
      <4> QED
        BY <1>2, <3>2, <4>1 DEF LoadHead, Work, Worker
    <3> QED
      BY <1>9, <3>1, <3>2
  <2> QED
    BY <1>3, <1>4, <2>1, <2>2, WorkClears DEF Rebuilds
<1>10. CASE Put
  <2>1. /\ index' = [index EXCEPT ![worker.doc] = worker.snap] /\ UNCHANGED jobs
        /\ \A d \in {worker.doc} \cup worker.todo : state[d] = "alive"
    BY <1>3, <1>10 DEF Put, Rebuilds
  <2>2. PICK v \in Done(worker) : Work(v)
    BY <1>10 DEF Put
  <2>3. v.pc \in {"load", "finish"}
        /\ (v.pc = "load" => \A d \in {v.doc} \cup v.todo : state[d] = "alive")
    BY <1>2, <2>1, <2>2, DoneForms
  <2>4. \A d \in Docs : state[d] # "alive" => index'[d] = index[d]
    BY <1>1, <2>1 DEF RowsOK
  <2> QED
    BY <1>3, <1>4, <2>1, <2>2, <2>3, <2>4, WorkClears DEF Work, Rebuilds
<1>11. ~ Delete
  BY <1>3 DEF Delete, Rebuilds
<1> QED
  BY <1>6, <1>7, <1>8, <1>9, <1>10, <1>11 DEF WorkerStep

\* What is trashed or purged is out of the index when its request is over, as long as
\* requests and jobs come one at a time and the index has refused nothing: only a
\* refusal, and the job it leaves, can bring an entry of the bin back (trash.go:36).
THEOREM BinStaysOut == Alone => []BinIsOut
<1> DEFINE Inv == TypeOK /\ Pledged /\ (faults = 0 => Cleared)
<1>1. Init => Inv
  <2> SUFFICES ASSUME Init PROVE Cleared
    BY PledgedInit, TypeInit
  <2> QED
    BY OverTyped, WaitingTyped DEF Init, Cleared, Careful, Rebuilds
<1>2. Inv /\ [NextAlone]_vars => Inv'
  <2> SUFFICES ASSUME TypeOK, Pledged, faults = 0 => Cleared, [NextAlone]_vars, faults' = 0
               PROVE  Cleared'
    BY PledgedStep
  <2>1. faults = 0 /\ Cleared
    <3>1. faults' = faults \/ faults' = faults + 1
      BY DEF At, NextAlone, Step, Edit, BeginTrash, BeginPurge, Trash, Purge, Restore, ListRest,
           Get, GetCommit, GetBlob, IndexDoc, DeleteDoc, IndexFails, Enqueue,
           RequestRebuild, WorkerStep, Pop, Look, Load, LoadHead, Put, Delete,
           FinishReindexJob, Work, vars
    <3> QED
      BY <3>1, TypeParts
  <2>2. CASE RequestRebuild
    <3>1. UNCHANGED <<state, index, reqs, worker>> /\ \A i \in DOMAIN jobs' : jobs'[i].doc = All
      BY <2>1, <2>2, TypeParts DEF RequestRebuild, rows, Cleared, Rebuilds, WorkerOK
    <3> QED
      BY <2>1, <3>1 DEF Cleared, Careful, Rebuilds, IsOut, TakesOut, In
  <2>3. CASE UNCHANGED vars
    BY <2>1, <2>3 DEF vars, Cleared, Careful, Rebuilds, IsOut, TakesOut, In
  <2> QED
    BY <2>1, <2>2, <2>3, RequestClears, WorkerClears DEF NextAlone
<1>3. Inv => BinIsOut
  BY DEF BinIsOut, Resting, Cleared, IsOut, TakesOut, Busy
<1> QED
  BY <1>1, <1>2, <1>3, PTL DEF Alone

-----------------------------------------------------------------------------
(***************************************************************************)
(* The safety half of QueueDrains: what leaves the queue never comes back. *)
(***************************************************************************)

JobsAdvance ==
    \A i \in DOMAIN jobs :
        /\ i \in DOMAIN jobs'
        /\ jobs'[i].doc = jobs[i].doc /\ jobs'[i].reason = jobs[i].reason
        /\ jobs[i].status # "pending" => jobs'[i].status # "pending"

\* No row of search_reindex_jobs is lost or given to another document, and none that
\* the worker has taken becomes pending again, whatever fails or crashes: this is
\* also why a job that a crash cut short is never run (searchjobs.go 39-74).
THEOREM JobsOnlyAdvance == Spec => [][JobsAdvance]_vars
<1>1. TypeOK /\ [Next]_vars => [JobsAdvance]_vars
  <2> SUFFICES ASSUME TypeOK, Next PROVE JobsAdvance
    OBVIOUS
  <2>1. WorkerOK
    BY TypeParts
  <2>2. jobs \in Seq(Job) /\ \A i \in DOMAIN jobs : jobs[i] \in Job
    BY <2>1 DEF WorkerOK
  <2>3. CASE jobs' = jobs
    BY <2>3 DEF JobsAdvance
  <2>4. CASE \E j \in Job : jobs' = Append(jobs, j)
    <3>1. PICK j \in Job : jobs' = Append(jobs, j)
      BY <2>4
    <3>2. \A i \in DOMAIN jobs : i \in DOMAIN jobs' /\ jobs'[i] = jobs[i]
      BY <2>2, <3>1
    <3> QED
      BY <3>2 DEF JobsAdvance
  <2>5. CASE \E i \in DOMAIN jobs, st \in {"running", "done", "failed"} :
                jobs' = [jobs EXCEPT ![i].status = st]
    BY <2>2, <2>5 DEF JobsAdvance, Job
  <2>6. CASE \E r \in Requests : Step(r)
    BY <2>3, <2>4, <2>6, RequestJobs
  <2>7. CASE RequestRebuild
    <3>1. [doc |-> All, reason |-> "manual", status |-> "pending"] \in Job
      BY DEF Job
    <3> QED
      BY <2>4, <2>7, <3>1 DEF RequestRebuild
  <2>8. CASE Pop
    BY <2>5, <2>8 DEF Pop, Pending
  <2>9. CASE FinishReindexJob
    <3>1. worker.job \in DOMAIN jobs
      BY <2>1, <2>9 DEF FinishReindexJob, WorkerOK
    <3> QED
      BY <2>5, <2>9, <3>1 DEF FinishReindexJob
  <2>10. CASE Look \/ Load \/ LoadHead \/ Put \/ Delete \/ WorkRefused \/ WorkFails \/ Crash
    BY <2>3, <2>10 DEF Look, Load, LoadHead, Put, Delete, WorkRefused, WorkFails, Crash
  <2> QED
    BY <2>6, <2>7, <2>8, <2>9, <2>10 DEF Next, WorkerStep
<1> QED
  BY <1>1, TypeCorrect, PTL DEF Spec
=============================================================================
