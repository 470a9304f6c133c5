---------------------------- MODULE DocVersions ----------------------------
(***************************************************************************)
(* Document versions of Element Wiki: commits, HEAD, content blobs, review *)
(* submissions, revert and the reads of HEAD.                              *)
(*                                                                         *)
(* The database executes one statement or transaction at a time (the pool  *)
(* holds one connection), so a store call is one action here.  A service   *)
(* method is several store calls, and calls of other requests run between  *)
(* them: every request is a record of `reqs' whose "pc" says which store   *)
(* call comes next.                                                        *)
(***************************************************************************)
EXTENDS Naturals, FiniteSets

CONSTANTS
    Docs,           \* documents
    Users,          \* users that may edit
    Reviewers,      \* those of them with the permission review.manage
    Contents,       \* Markdown texts; a blob's key is the hash of its text
    Requests,       \* slots for HTTP requests in flight
    VersionLimits,  \* values the setting max_versions takes
    MaxOvertake,    \* how often a request is overtaken in PacedSpec
    MaxCommits,     \* bound: commits ever appended
    MaxSubs         \* bound: submissions ever created

ASSUME ReviewersAssumption == Reviewers \subseteq Users
\* intMin(1) for max_versions.
ASSUME LimitsAssumption == VersionLimits \subseteq Nat \ {0}
ASSUME BoundsAssumption ==
    MaxOvertake \in Nat /\ MaxCommits \in Nat /\ MaxSubs \in Nat

VARIABLES
    docs,       \* status of the document row: alive, trashed or gone
    head,       \* head_commit_id of the row, 0 for ''
    history,    \* history[d][n]: the row of document_commits with commit_no n
    blobs,      \* rows of document_blobs
    subs,       \* rows of document_submissions
    nextId,     \* next commit id
    nextSub,    \* next submission id
    reqs,       \* requests in flight
    published   \* history: submissions whose text became a commit

vars == <<docs, head, history, blobs, subs, nextId, nextSub, reqs, published>>

NoText == "no text"
NoUser == "no user"
NoDoc == "no document"

Kinds == {"commit", "approve", "revert"}
Commit == [id: Nat \ {0}, parent: Nat, text: Contents, via: Kinds]
Submission == [id: Nat \ {0}, doc: Docs, base: Nat, text: Contents,
               author: Users, status: {"pending", "approved", "rejected"}]

Waiting == {"check", "submit", "put", "number", "reparent", "append",
            "loadCommit", "loadBlob", "finish"}
Failures == {"conflict", "missing", "invalid"}

\* "ref" is the commit id a request works from: the base sent by the client,
\* the version to revert to, or the HEAD a read saw.  "overtaken" and "limits"
\* are history: how many commits were appended while the request held a number
\* or a HEAD id of the document, and the limits they trimmed with.
Request == [pc: {"idle"} \cup Waiting \cup Failures,
            kind: {"none", "read", "reject"} \cup Kinds,
            user: Users \cup {NoUser}, doc: Docs \cup {NoDoc}, ref: Nat,
            text: Contents \cup {NoText}, no: Nat, parent: Nat, sub: Nat,
            overtaken: Nat, limits: SUBSET VersionLimits]

Idle == [pc |-> "idle", kind |-> "none", user |-> NoUser, doc |-> NoDoc,
         ref |-> 0, text |-> NoText, no |-> 0, parent |-> 0, sub |-> 0,
         overtaken |-> 0, limits |-> {}]

\* Nothing of a document's history yet.
NoHistory == [n \in {} |-> 0]

Init ==
    /\ docs = [d \in Docs |-> "alive"]
    /\ head = [d \in Docs |-> 0]
    /\ history = [d \in Docs |-> NoHistory]
    /\ blobs = {}
    /\ subs = {}
    /\ nextId = 1
    /\ nextSub = 1
    /\ reqs = [r \in Requests |-> Idle]
    /\ published = {}

-----------------------------------------------------------------------------
(* Store queries *)

\* SELECT MAX(commit_no), 0 when there is no row.
MaxNo(S) == IF S = {} THEN 0 ELSE CHOOSE n \in S : \A m \in S : m <= n

\* Mutants of Trim: the oldest commits are kept; one commit too few is kept.
TrimNewest(h, limit) ==
    LET kept == {n \in DOMAIN h :
                    Cardinality({m \in DOMAIN h : m < n}) < limit}
    IN  [n \in kept |-> h[n]]
TrimOneMore(h, limit) ==
    LET kept == {n \in DOMAIN h :
                    Cardinality({m \in DOMAIN h : m > n}) + 1 < limit}
    IN  [n \in kept |-> h[n]]

\* The newest `limit' commits by commit_no.
Trim(h, limit) ==
    LET kept == {n \in DOMAIN h :
                    Cardinality({m \in DOMAIN h : m > n}) < limit}
    IN  [n \in kept |-> h[n]]

\* h with the row n added; the caller checked that n is free.
Insert(h, n, row) == [m \in DOMAIN h \cup {n} |-> IF m = n THEN row ELSE h[m]]

\* Mutant: only the blob of the newest version counts as referenced.
ReferencedByHead == {history[d][MaxNo(DOMAIN history[d])].text :
                        d \in {e \in Docs : DOMAIN history[e] # {}}}

\* The blobs some version refers to.
Referenced == UNION {{history[d][n].text : n \in DOMAIN history[d]} : d \in Docs}

-----------------------------------------------------------------------------
(* How a request moves on and ends *)

Free(r) == reqs[r].pc \in {"idle"} \cup Failures

\* The request goes on with the fields of `rec'.
GoOn(r, rec) == reqs' = [reqs EXCEPT ![r] = rec]

\* Mutant: an approval goes on to Finish although its Commit failed.
FailedIgnored(q, answer) ==
    IF q.kind = "approve" THEN [q EXCEPT !.pc = "finish"]
    ELSE [Idle EXCEPT !.pc = answer, !.kind = q.kind, !.doc = q.doc,
                      !.overtaken = q.overtaken, !.limits = q.limits]

\* What is kept of a request q that fails, and of one that succeeds.
Failed(q, answer) == [Idle EXCEPT !.pc = answer, !.kind = q.kind, !.doc = q.doc,
                                  !.overtaken = q.overtaken, !.limits = q.limits]
Succeeded == Idle

Database == <<docs, head, history, blobs, subs, nextId, nextSub, published>>

-----------------------------------------------------------------------------
(* Commit *)

\* With document_review_required on, the edit of a user without review.manage
\* goes to review.  The author of a version is not modelled: only a submission
\* and a review remember their user.
Routed(q) ==
    {[q EXCEPT !.pc = "put", !.user = IF q.kind = "approve" THEN @ ELSE NoUser]}
    \cup IF q.kind = "commit" /\ q.user \notin Reviewers
         THEN {[q EXCEPT !.pc = "submit"]} ELSE {}

\* aliveDoc reads the row once; the base is compared with the HEAD of that
\* copy.  What may become of request q then:
Checked(q) ==
    IF docs[q.doc] # "alive" THEN {Failed(q, "missing")}
    ELSE IF head[q.doc] # q.ref THEN {Failed(q, "conflict")}
    ELSE Routed(q)

BeginCommit(r) ==
    /\ Free(r)
    /\ \E u \in Users, d \in Docs, base \in 0..(nextId - 1), t \in Contents :
          \E q \in Checked([Idle EXCEPT !.kind = "commit", !.user = u, !.doc = d,
                                        !.ref = base, !.text = t]) : GoOn(r, q)
    /\ UNCHANGED Database

\* The check of a Commit made by an approving reviewer.
CheckBase(r) ==
    /\ reqs[r].pc = "check"
    /\ \E q \in Checked(reqs[r]) : GoOn(r, q)
    /\ UNCHANGED Database

\* The edit becomes a pending submission.
SubmitForReview(r) ==
    LET q == reqs[r] IN
    /\ q.pc = "submit" /\ nextSub <= MaxSubs
    /\ IF docs[q.doc] = "gone"
       THEN GoOn(r, Failed(q, "invalid")) /\ UNCHANGED <<subs, nextSub>>
       ELSE /\ subs' = subs \cup {[id |-> nextSub, doc |-> q.doc, base |-> q.ref,
                text |-> q.text, author |-> q.user, status |-> "pending"]}
            /\ nextSub' = nextSub + 1
            /\ GoOn(r, Succeeded)
    /\ UNCHANGED <<docs, head, history, blobs, nextId, published>>

\* INSERT OR IGNORE of the blob, a statement of its own.
PutBlob(r) ==
    LET q == reqs[r] IN
    /\ q.pc = "put"
    /\ blobs' = blobs \cup {q.text}
    /\ GoOn(r, [q EXCEPT !.pc = "number"])
    /\ UNCHANGED <<docs, head, history, subs, nextId, nextSub, published>>

\* Mutant: the highest number itself, not the one after it.
TakeHighest(r) ==
    LET q == reqs[r]
        n == MaxNo(DOMAIN history[q.doc])
    IN
    /\ q.pc = "number"
    /\ GoOn(r, [q EXCEPT !.no = n, !.overtaken = 0, !.limits = {},
                         !.parent = q.ref, !.pc = "append"])
    /\ UNCHANGED Database

\* nextCommitNo; a commit's parent is the base it was checked against.
TakeNumber(r) ==
    LET q == reqs[r]
        n == MaxNo(DOMAIN history[q.doc]) + 1
    IN
    /\ q.pc = "number"
    /\ GoOn(r, [q EXCEPT !.no = n, !.overtaken = 0, !.limits = {},
                    !.parent = IF n > 1 THEN q.ref ELSE 0,
                    !.pc = IF q.kind = "revert" /\ n > 1
                           THEN "reparent" ELSE "append"])
    /\ UNCHANGED Database

\* Mutant: the parent of a revert is the version it goes back to.
KeepOldParent(r) ==
    LET q == reqs[r] IN
    /\ q.pc = "reparent"
    /\ GoOn(r, [q EXCEPT !.pc = "append"])
    /\ UNCHANGED Database

\* commitLocked reads the row again for the parent of a revert.
ReadFreshHead(r) ==
    LET q == reqs[r] IN
    /\ q.pc = "reparent"
    /\ IF docs[q.doc] = "gone"
       THEN GoOn(r, Failed(q, "missing"))
       ELSE GoOn(r, [q EXCEPT !.pc = "append", !.parent = head[q.doc]])
    /\ UNCHANGED Database

\* The requests that hold a commit number or a HEAD id of d.
Holding(d) == {q \in Requests : /\ reqs[q].doc = d
                                /\ \/ reqs[q].pc \in {"reparent", "append"}
                                   \/ /\ reqs[q].kind = "read"
                                      /\ reqs[q].pc \in {"loadCommit", "loadBlob"}}

\* Mutant: no unique index on (document_id, commit_no).
NumberNeverTaken(q) == FALSE

\* UNIQUE(document_id, commit_no).
NumberTaken(q) == q.no \in DOMAIN history[q.doc]

\* The foreign keys of a commit on its document and on its blob.
Dangling(q) == docs[q.doc] = "gone" \/ q.text \notin blobs

\* Where an appended commit leaves its request.
AfterAppend(r) ==
    IF reqs[r].kind = "approve"
    THEN [reqs[r] EXCEPT !.pc = "finish"] ELSE Succeeded

\* A request that an append with this limit overtakes.
Overtaken(q, limit) ==
    [q EXCEPT !.overtaken = @ + 1, !.limits = @ \cup {limit}]

\* AppendCommit is one transaction: the row, the HEAD, the trimming.
AppendCommit(r) ==
    LET q == reqs[r]
        d == q.doc
        row == [id |-> nextId, parent |-> q.parent, text |-> q.text, via |-> q.kind]
    IN
    /\ q.pc = "append" /\ ~ NumberTaken(q) /\ ~ Dangling(q)
    /\ nextId <= MaxCommits
    /\ \E limit \in VersionLimits :
          /\ history' = [history EXCEPT ![d] = Trim(Insert(@, q.no, row), limit)]
          /\ reqs' = [p \in Requests |->
                        IF p = r THEN AfterAppend(r)
                        ELSE IF p \in Holding(d) THEN Overtaken(reqs[p], limit)
                        ELSE reqs[p]]
    /\ head' = [head EXCEPT ![d] = nextId]
    /\ nextId' = nextId + 1
    /\ published' = IF q.kind = "approve" THEN published \cup {q.sub} ELSE published
    /\ UNCHANGED <<docs, blobs, subs, nextSub>>

\* A taken number answers 409, a dangling key 422; the transaction rolls back.
AppendFails(r) ==
    LET q == reqs[r] IN
    /\ q.pc = "append"
    /\ \/ NumberTaken(q) /\ GoOn(r, Failed(q, "conflict"))
       \/ ~ NumberTaken(q) /\ Dangling(q) /\ GoOn(r, Failed(q, "invalid"))
    /\ UNCHANGED Database

-----------------------------------------------------------------------------
(* Review of submissions *)

\* GetDocumentSubmission finds pending rows only; nobody reviews his own.
\* Approving runs Commit with the submission's base, rejecting skips it.
BeginReview(r) ==
    /\ Free(r)
    /\ \E s \in subs, u \in Reviewers, action \in {"approve", "reject"} :
          /\ s.status = "pending" /\ s.author # u
          /\ GoOn(r, [Idle EXCEPT !.kind = action, !.user = u, !.doc = s.doc,
                          !.ref = s.base, !.text = s.text, !.sub = s.id,
                          !.pc = IF action = "approve" THEN "check" ELSE "finish"])
    /\ UNCHANGED Database

\* The row that `WHERE id=? AND status='pending'' finds, if any.
PendingSubmission(id) == {s \in subs : s.id = id /\ s.status = "pending"}

\* FinishDocumentSubmission, one transaction.
FinishReview(r) ==
    LET q == reqs[r]
        verdict == IF q.kind = "approve" THEN "approved" ELSE "rejected"
    IN
    /\ q.pc = "finish"
    /\ \/ \E s \in PendingSubmission(q.sub) :
            /\ s.author # q.user
            /\ subs' = (subs \ {s}) \cup {[s EXCEPT !.status = verdict]}
            /\ GoOn(r, Succeeded)
       \/ /\ PendingSubmission(q.sub) = {}
          /\ GoOn(r, Failed(q, "missing"))
          /\ UNCHANGED subs
    /\ UNCHANGED <<docs, head, history, blobs, nextId, nextSub, published>>

-----------------------------------------------------------------------------
(* Revert, and reading HEAD *)

BeginRevert(r) ==
    /\ Free(r)
    /\ \E d \in Docs, c \in 1..(nextId - 1) :
          /\ docs[d] = "alive"
          /\ GoOn(r, [Idle EXCEPT !.pc = "loadCommit", !.kind = "revert",
                                  !.doc = d, !.ref = c])
    /\ UNCHANGED Database

\* HeadContent: aliveDoc reads the row, its HEAD is looked up afterwards.
BeginRead(r) ==
    /\ Free(r)
    /\ \E d \in Docs :
          /\ docs[d] = "alive" /\ head[d] # 0
          /\ GoOn(r, [Idle EXCEPT !.pc = "loadCommit", !.kind = "read",
                                  !.doc = d, !.ref = head[d]])
    /\ UNCHANGED Database

LoadCommit(r) ==
    LET q == reqs[r] IN
    /\ q.pc = "loadCommit"
    /\ \/ \E n \in DOMAIN history[q.doc] :
            /\ history[q.doc][n].id = q.ref
            /\ GoOn(r, [q EXCEPT !.pc = "loadBlob", !.text = history[q.doc][n].text])
       \/ /\ \A n \in DOMAIN history[q.doc] : history[q.doc][n].id # q.ref
          /\ GoOn(r, Failed(q, "missing"))
    /\ UNCHANGED Database

LoadBlob(r) ==
    LET q == reqs[r] IN
    /\ q.pc = "loadBlob"
    /\ IF q.text \notin blobs THEN GoOn(r, Failed(q, "missing"))
       ELSE IF q.kind = "read" THEN GoOn(r, Succeeded)
       ELSE GoOn(r, [q EXCEPT !.pc = "put", !.overtaken = 0, !.limits = {}])
    /\ UNCHANGED Database

-----------------------------------------------------------------------------
(* A request that stops: its context is cancelled when the client goes     *)
(* away, or the process dies.  What its store calls wrote stays.           *)

Stop(r) ==
    /\ reqs[r].pc \in Waiting
    /\ GoOn(r, Idle)
    /\ UNCHANGED Database

-----------------------------------------------------------------------------
(* The recycle bin and blob collection, as far as versions see them *)

SoftDelete(d) ==
    /\ docs[d] = "alive"
    /\ docs' = [docs EXCEPT ![d] = "trashed"]
    /\ UNCHANGED <<head, history, blobs, subs, nextId, nextSub, reqs, published>>

Restore(d) ==
    /\ docs[d] = "trashed"
    /\ docs' = [docs EXCEPT ![d] = "alive"]
    /\ UNCHANGED <<head, history, blobs, subs, nextId, nextSub, reqs, published>>

\* The row goes; commits and submissions go with it (ON DELETE CASCADE).
Purge(d) ==
    /\ docs[d] = "trashed"
    /\ docs' = [docs EXCEPT ![d] = "gone"]
    /\ head' = [head EXCEPT ![d] = 0]
    /\ history' = [history EXCEPT ![d] = NoHistory]
    /\ subs' = {s \in subs : s.doc # d}
    /\ UNCHANGED <<blobs, nextId, nextSub, reqs, published>>

\* GCDereferencedBlobs, one statement.
GCBlobs ==
    /\ blobs' = blobs \cap Referenced
    /\ UNCHANGED <<docs, head, history, subs, nextId, nextSub, reqs, published>>

-----------------------------------------------------------------------------
Step(r) ==
    \/ BeginCommit(r) \/ CheckBase(r) \/ SubmitForReview(r) \/ PutBlob(r)
    \/ TakeNumber(r) \/ ReadFreshHead(r) \/ AppendCommit(r) \/ AppendFails(r)
    \/ BeginReview(r) \/ FinishReview(r)
    \/ BeginRevert(r) \/ BeginRead(r) \/ LoadCommit(r) \/ LoadBlob(r)
    \/ Stop(r)

Next ==
    \/ \E r \in Requests : Step(r)
    \/ \E d \in Docs : SoftDelete(d) \/ Restore(d) \/ Purge(d)
    \/ GCBlobs

Spec == Init /\ [][Next]_vars

\* No request is overtaken by more than MaxOvertake commits.  The code does not
\* see to that; what holds only then is stated of PacedSpec.
Paced == \A r \in Requests : reqs[r].overtaken <= MaxOvertake
PacedSpec == Init /\ [][Next /\ Paced']_vars

-----------------------------------------------------------------------------
(* Properties *)

\* Every variable keeps its type; history rows are keyed by a positive
\* commit_no.
TypeOK ==
    /\ docs \in [Docs -> {"alive", "trashed", "gone"}]
    /\ head \in [Docs -> Nat]
    /\ DOMAIN history = Docs
    /\ \A d \in Docs :
          /\ DOMAIN history[d] \subseteq Nat \ {0}
          /\ history[d] = [n \in DOMAIN history[d] |-> history[d][n]]
          /\ \A n \in DOMAIN history[d] : history[d][n] \in Commit
    /\ blobs \subseteq Contents
    /\ subs \subseteq Submission
    /\ nextId \in Nat \ {0}
    /\ nextSub \in Nat \ {0}
    /\ reqs \in [Requests -> Request]
    /\ published \subseteq Nat

\* The HEAD of a document is the row with its highest commit_no, and is empty
\* exactly when there is no row.  head_commit_id carries no foreign key: only
\* AppendCommit's transaction and the numbering keep it true, and they do as long
\* as no limit is below MaxOvertake in PacedSpec.
HeadIsNewest ==
    \A d \in Docs :
        \/ head[d] = 0 /\ DOMAIN history[d] = {}
        \/ \E n \in DOMAIN history[d] :
              /\ history[d][n].id = head[d]
              /\ \A m \in DOMAIN history[d] : m <= n

\* The text of every version can be read, whatever blob collection did between
\* a request's PutBlob and its AppendCommit.
CommitsHaveContent ==
    \A d \in Docs : \A n \in DOMAIN history[d] : history[d][n].text \in blobs

\* HeadContent reads the row, the commit and the blob in three statements.  A
\* reader that found the document alive gets the text of that HEAD, unless the
\* document was purged meanwhile or as many commits overtook the reader as one
\* of them was told to keep: with max_versions at 1 a single commit is enough.
ReaderFindsHead ==
    \A r \in Requests :
        reqs[r].kind = "read" /\ reqs[r].pc = "missing"
        => \/ docs[reqs[r].doc] = "gone"
           \/ \E limit \in reqs[r].limits : reqs[r].overtaken >= limit

\* The parent of a revert is the version it follows, as long as that one is
\* kept, although the number and the parent are read in two statements.
RevertFollowsParent ==
    \A d \in Docs : \A n \in DOMAIN history[d] :
        history[d][n].via = "revert" /\ n - 1 \in DOMAIN history[d]
            => history[d][n].parent = history[d][n - 1].id

\* A submission marked approved has been published.
ApprovedWasPublished ==
    \A s \in subs : s.status = "approved" => s.id \in published

\* Two reviewers deciding on one submission at once: the first verdict stays as
\* long as the document does.
VerdictIsFinal ==
    [][\A s \in subs : s.status # "pending" =>
          s \in subs' \/ docs'[s.doc] = "gone"]_vars

\* service.go:434 says of Commit that a base that is not the current HEAD
\* gives a VersionConflictError and writes nothing: a version made by Commit
\* replaces the HEAD its author had seen.
CommitReplacesItsBase ==
    [][\A r \in Requests :
          /\ reqs[r].pc = "append" /\ reqs[r].kind \in {"commit", "approve"}
          /\ reqs'[r].pc # "append" /\ head[reqs[r].doc] # head'[reqs[r].doc]
          => head[reqs[r].doc] = reqs[r].ref]_vars

\* doc/02:112: a submission does not replace the published HEAD before its
\* approval; a rejected one was never published.
RejectedWasNotPublished ==
    \A s \in subs : s.status = "rejected" => s.id \notin published

-----------------------------------------------------------------------------
(* What a reader of HEAD is promised: module HeadRegister *)

HeadNo(d) ==
    IF head[d] = 0 THEN 0
    ELSE CHOOSE n \in DOMAIN history[d] : history[d][n].id = head[d]

HeadText(d) == IF head[d] = 0 THEN NoText ELSE history[d][HeadNo(d)].text

Register == INSTANCE HeadRegister WITH
                status <- docs,
                version <- [d \in Docs |-> HeadNo(d)],
                text <- [d \in Docs |-> HeadText(d)]

\* Every step of the versions is a step of the register: a document's HEAD
\* changes only by publishing the next version number with a whole text.
ImplementsRegister == Register!Spec
=============================================================================
