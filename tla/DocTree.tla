------------------------------ MODULE DocTree ------------------------------
(***************************************************************************)
(* The document tree of Element Wiki and its recycle bin: create, rename,  *)
(* set visibility, move, trash, restore, purge and the sweep of the bin.   *)
(*                                                                         *)
(* A store call (one statement or transaction) is one action; requests     *)
(* interleave between store calls.  A request that its first store call    *)
(* refuses changes nothing and is not a step here.                         *)
(***************************************************************************)
EXTENDS Naturals, FiniteSets, Sequences

CONSTANTS
    Docs,       \* document ids
    Bases,      \* slugs that users ask for or that titles give
    Requests,   \* slots for HTTP requests in flight
    MaxTries,   \* restoredSlugTries, and the tries of generateSlug
    MaxBegun    \* bound: requests ever begun

Root == "root level"
NoDoc == "no document"

ASSUME DocsAssumption == Root \notin Docs /\ NoDoc \notin Docs
ASSUME TriesAssumption == MaxTries \in Nat
ASSUME BegunAssumption == MaxBegun \in Nat

VARIABLES
    status,     \* new (no row yet), alive, trashed or gone (row deleted)
    parent,     \* parent_id, Root for NULL
    slug,       \* the slug: a base and the numbers put behind it
    vis,        \* the row's own visibility
    reqs,       \* requests in flight
    begun       \* how many there have been

vars == <<status, parent, slug, vis, reqs, begun>>
rows == <<status, parent, slug, vis>>

Plain(b) == [base |-> b, tail |-> << >>]
NoSlug == Plain("none")
RestoredSlug == Plain("restored")

\* Candidate n of a slug: the slug itself, then slug-2, slug-3, ...
Candidate(s, n) == IF n = 1 THEN s ELSE [s EXCEPT !.tail = Append(@, n)]

Slugs == [base: Bases \cup {"restored", "none"}, tail: Seq(Nat)]
Visibilities == {"standard", "restricted"}

Ops == {"none", "create", "rename", "set", "move", "trash", "restore", "purge", "sweep"}
Waiting == {"try", "insert", "update", "target", "walk", "move", "softDelete",
            "root", "readRoot", "hideRoot", "reslug", "bring", "walkBin", "purge"}
Failures == {"missing", "conflict", "invalid"}

\* "name" is the slug a request wants, or the one of the copy it restores;
\* "to" the parent it puts a document under; "old" the parent in that copy.
Request == [op: Ops, pc: {"idle"} \cup Waiting \cup Failures,
            doc: Docs \cup {NoDoc}, to: Docs \cup {Root}, old: Docs \cup {Root},
            name: Slugs, n: Nat, vis: Visibilities, todo: SUBSET Docs]

Idle == [op |-> "none", pc |-> "idle", doc |-> NoDoc, to |-> Root, old |-> Root,
         name |-> NoSlug, n |-> 1, vis |-> "standard", todo |-> {}]

-----------------------------------------------------------------------------
(* Store queries *)

Rows == {d \in Docs : status[d] \in {"alive", "trashed"}}

\* Mutant: an UPDATE of the root row of the subtree only.
RootRowOnly(d, st) == {x \in {d} : status[x] = st}

\* The sets that hold every child, among rows of X, of a row they hold.
Closed(X) == {S \in SUBSET Docs : \A e \in X : parent[e] \in S => e \in S}

\* Mutant: the query forgets the state of the rows.
AnyState(d, st) == {e \in Docs : \A S \in Closed(Docs) : d \in S => e \in S}

\* The recursive queries: d and the rows below it, through rows in state st.
Subtree(d, st) ==
    LET X == {e \in Docs : status[e] = st}
    IN  {e \in X : d \in X /\ \A S \in Closed(X) : d \in S => e \in S}

\* They join with UNION ALL: on a cycle they have no last row, and the query
\* never answers.
Endless(d, st) == parent[d] \in Subtree(d, st)

\* d and the documents above it.
Above(d) ==
    {e \in Docs : \A S \in SUBSET Docs :
        (d \in S /\ \A f \in S : parent[f] # Root => parent[f] \in S) => e \in S}

\* EffectiveVisibility is restricted.
Hidden(d) == \E e \in Above(d) : vis[e] = "restricted"

\* Mutant: the unique index on (parent, slug) sees the first row only.
NeverTaken(p, s, d) == FALSE

\* An alive row other than d has slug s under p.
Taken(p, s, d) ==
    \E e \in Docs \ {d} : status[e] = "alive" /\ parent[e] = p /\ slug[e] = s

\* The foreign key on the parent.
NoParent(p) == p # Root /\ p \notin Rows

\* Deleting the rows of S breaks the foreign key of a row that stays.
Held(S) == \E e \in Rows \ S : parent[e] \in S

\* Mutant: a move refuses the document itself, not its descendants.
OnlyItself(q) == q.to = q.doc

\* ErrSelfChild.
SelfChild(q) == q.to \in Subtree(q.doc, "alive")

\* Nobody is above itself: some document of every set S of them hangs outside S.
Forest(X) == \A S \in SUBSET X : S # {} => \E d \in S : parent[d] \notin S

\* Making the rows of S alive breaks the unique index.
Clash(S) ==
    \E d \in S : \E e \in Docs \ {d} :
        /\ e \in S \/ status[e] = "alive"
        /\ parent[e] = parent[d] /\ slug[e] = slug[d]

-----------------------------------------------------------------------------
(* How a request begins, moves on and ends *)

Free(r) == reqs[r].pc \in {"idle"} \cup Failures /\ begun < MaxBegun

Begin(r, rec) ==
    /\ reqs' = [reqs EXCEPT ![r] = rec]
    /\ begun' = begun + 1
    /\ UNCHANGED rows

GoOn(r, rec) == reqs' = [reqs EXCEPT ![r] = rec] /\ UNCHANGED begun

\* A request that is answered with an error keeps its kind.
Failed(q, answer) == [Idle EXCEPT !.pc = answer, !.op = q.op]

\* Mutant: a sweep that runs past the end of its list.
EndedLate(q, rec) ==
    IF q.op = "sweep"
    THEN {[q EXCEPT !.doc = d, !.todo = @ \ {d}, !.pc = "walkBin"] :
             d \in IF q.todo = {} THEN {NoDoc} ELSE q.todo}
    ELSE {rec}

\* A sweep goes on with the next due document, whatever became of this one.
Ended(q, rec) ==
    IF q.op = "sweep" /\ q.todo # {}
    THEN {[q EXCEPT !.doc = d, !.todo = @ \ {d}, !.pc = "walkBin"] : d \in q.todo}
    ELSE {rec}

\* Statement of request r that fails with an answer and writes nothing.
Fails(r, answer) ==
    /\ \E p \in Ended(reqs[r], Failed(reqs[r], answer)) : GoOn(r, p)
    /\ UNCHANGED rows

-----------------------------------------------------------------------------
(* Create: CreateDocument, generateSlug *)

BeginCreate(r) ==
    /\ Free(r)
    /\ \E p \in {Root} \cup {d \in Docs : status[d] = "alive"},
          b \in Bases, pc \in {"try", "insert"} :
             Begin(r, [Idle EXCEPT !.op = "create", !.pc = pc, !.to = p,
                                   !.name = Plain(b)])

\* Where a restore goes once its slug is free under the container.
Place(q) == [q EXCEPT !.pc = IF q.old = q.to THEN "bring" ELSE "move"]

\* One GetBySlug of generateSlug, or of RestoreDocument under the container.
TrySlug(r) ==
    LET q == reqs[r]
        s == Candidate(q.name, q.n)
    IN
    /\ q.pc = "try"
    /\ \/ /\ Taken(q.to, s, NoDoc) /\ q.n <= MaxTries
          /\ GoOn(r, [q EXCEPT !.n = @ + 1]) /\ UNCHANGED rows
       \/ /\ Taken(q.to, s, NoDoc) /\ q.n > MaxTries
          /\ Fails(r, "conflict")
       \/ /\ ~ Taken(q.to, s, NoDoc) /\ q.op = "create"
          /\ GoOn(r, [q EXCEPT !.pc = "insert", !.name = s]) /\ UNCHANGED rows
       \/ /\ ~ Taken(q.to, s, NoDoc) /\ q.op = "restore"
          /\ GoOn(r, IF q.n = 1 THEN Place(q)
                     ELSE [q EXCEPT !.pc = "reslug", !.name = s])
          /\ UNCHANGED rows

\* INSERT of a document, or of the container of restored documents.
Insert(r) ==
    LET q == reqs[r]
        p == IF q.op = "create" THEN q.to ELSE Root
        s == IF q.op = "create" THEN q.name ELSE RestoredSlug
    IN
    /\ q.pc = "insert"
    /\ \/ NoParent(p) /\ Fails(r, "invalid")
       \/ ~ NoParent(p) /\ Taken(p, s, NoDoc) /\ Fails(r, "conflict")
       \/ /\ ~ NoParent(p) /\ ~ Taken(p, s, NoDoc)
          /\ \E d \in Docs :
                /\ status[d] = "new"
                /\ status' = [status EXCEPT ![d] = "alive"]
                /\ parent' = [parent EXCEPT ![d] = p]
                /\ slug' = [slug EXCEPT ![d] = s]
                /\ GoOn(r, IF q.op = "create" THEN Idle
                           ELSE [q EXCEPT !.pc = "readRoot", !.to = d])
          /\ UNCHANGED vis

-----------------------------------------------------------------------------
(* RenameDocument and SetVisibility: aliveDoc, then UpdateMeta *)

BeginRename(r) ==
    /\ Free(r)
    /\ \E d \in Docs, b \in Bases :
          /\ status[d] = "alive"
          /\ Begin(r, [Idle EXCEPT !.op = "rename", !.pc = "update", !.doc = d,
                                   !.name = Plain(b)])

BeginSet(r) ==
    /\ Free(r)
    /\ \E d \in Docs, v \in Visibilities :
          /\ status[d] = "alive"
          /\ Begin(r, [Idle EXCEPT !.op = "set", !.pc = "update", !.doc = d,
                                   !.vis = v])

\* UPDATE ... WHERE id=?, whatever state the row is in by now.
UpdateMeta(r) ==
    LET q == reqs[r] IN
    /\ q.pc = "update"
    /\ \/ q.doc \notin Rows /\ Fails(r, "missing")
       \/ /\ q.doc \in Rows /\ q.op = "set"
          /\ vis' = [vis EXCEPT ![q.doc] = q.vis]
          /\ GoOn(r, Idle) /\ UNCHANGED <<status, parent, slug>>
       \/ /\ q.doc \in Rows /\ q.op = "rename"
          /\ status[q.doc] = "alive" /\ Taken(parent[q.doc], q.name, q.doc)
          /\ Fails(r, "conflict")
       \/ /\ q.doc \in Rows /\ q.op = "rename"
          /\ ~ (status[q.doc] = "alive" /\ Taken(parent[q.doc], q.name, q.doc))
          /\ slug' = [slug EXCEPT ![q.doc] = q.name]
          /\ GoOn(r, Idle) /\ UNCHANGED <<status, parent, vis>>

-----------------------------------------------------------------------------
(* MoveDocument *)

BeginMove(r) ==
    /\ Free(r)
    /\ \E d \in Docs, p \in Docs \cup {Root} :
          /\ status[d] = "alive"
          /\ Begin(r, [Idle EXCEPT !.op = "move", !.doc = d, !.to = p,
                                   !.pc = IF p = Root THEN "move" ELSE "target"])

\* aliveDoc of the new parent.
ReadTarget(r) ==
    LET q == reqs[r] IN
    /\ q.pc = "target"
    /\ IF status[q.to] = "alive"
       THEN GoOn(r, [q EXCEPT !.pc = "walk"]) /\ UNCHANGED rows
       ELSE Fails(r, "missing")

\* SubtreeIDs: for a move, its new parent must not be below it.
Walk(r) ==
    LET q == reqs[r] IN
    /\ q.pc = "walk" /\ ~ Endless(q.doc, "alive")
    /\ \/ status[q.doc] # "alive" /\ Fails(r, "missing")
       \/ /\ q.op = "move" /\ status[q.doc] = "alive" /\ SelfChild(q)
          /\ Fails(r, "invalid")
       \/ /\ q.op = "move" /\ status[q.doc] = "alive" /\ ~ SelfChild(q)
          /\ GoOn(r, [q EXCEPT !.pc = "move"]) /\ UNCHANGED rows
       \/ /\ q.op = "trash" /\ status[q.doc] = "alive"
          /\ GoOn(r, [q EXCEPT !.pc = "softDelete"]) /\ UNCHANGED rows

\* UPDATE parent_id, of a move or a restore, whatever state the row is in.
Move(r) ==
    LET q == reqs[r]
        taken == status[q.doc] = "alive" /\ Taken(q.to, slug[q.doc], q.doc)
    IN
    /\ q.pc = "move"
    /\ \/ q.doc \notin Rows /\ Fails(r, "missing")
       \/ q.doc \in Rows /\ taken /\ Fails(r, "conflict")
       \/ q.doc \in Rows /\ ~ taken /\ NoParent(q.to) /\ Fails(r, "invalid")
       \/ /\ q.doc \in Rows /\ ~ taken /\ ~ NoParent(q.to)
          /\ parent' = [parent EXCEPT ![q.doc] = q.to]
          /\ GoOn(r, IF q.op = "move" THEN Idle ELSE [q EXCEPT !.pc = "bring"])
          /\ UNCHANGED <<status, slug, vis>>

-----------------------------------------------------------------------------
(* TrashDocument *)

BeginTrash(r) ==
    /\ Free(r)
    /\ \E d \in Docs :
          /\ status[d] = "alive"
          /\ Begin(r, [Idle EXCEPT !.op = "trash", !.pc = "walk", !.doc = d])

\* SoftDeleteSubtree; no row is no error.
SoftDelete(r) ==
    LET q == reqs[r] IN
    /\ q.pc = "softDelete" /\ ~ Endless(q.doc, "alive")
    /\ status' = [d \in Docs |-> IF d \in Subtree(q.doc, "alive")
                                 THEN "trashed" ELSE status[d]]
    /\ GoOn(r, Idle)
    /\ UNCHANGED <<parent, slug, vis>>

-----------------------------------------------------------------------------
(* RestoreDocument *)

BeginRestore(r) ==
    /\ Free(r)
    /\ \E d \in Docs :
          /\ status[d] = "trashed"
          /\ Begin(r, [Idle EXCEPT !.op = "restore", !.pc = "root", !.doc = d,
                                   !.name = slug[d], !.old = parent[d]])

\* ensureRestoredRoot takes any alive document at the root level with the slug.
FindRoot(r) ==
    LET q == reqs[r]
        found == {c \in Docs : /\ status[c] = "alive" /\ parent[c] = Root
                               /\ slug[c] = RestoredSlug}
    IN
    /\ q.pc = "root"
    /\ \/ \E c \in found : GoOn(r, [q EXCEPT !.pc = "try", !.to = c])
       \/ found = {} /\ GoOn(r, [q EXCEPT !.pc = "insert"])
    /\ UNCHANGED rows

\* SetVisibility of a container just made: aliveDoc, then UpdateMeta.
ReadRoot(r) ==
    LET q == reqs[r] IN
    /\ q.pc = "readRoot"
    /\ IF status[q.to] = "alive"
       THEN GoOn(r, [q EXCEPT !.pc = "hideRoot"]) /\ UNCHANGED rows
       ELSE Fails(r, "missing")

HideRoot(r) ==
    LET q == reqs[r] IN
    /\ q.pc = "hideRoot"
    /\ \/ q.to \notin Rows /\ Fails(r, "missing")
       \/ /\ q.to \in Rows
          /\ vis' = [vis EXCEPT ![q.to] = "restricted"]
          /\ GoOn(r, [q EXCEPT !.pc = "try"])
          /\ UNCHANGED <<status, parent, slug>>

\* UpdateTrashedSlug.
Reslug(r) ==
    LET q == reqs[r] IN
    /\ q.pc = "reslug"
    /\ \/ status[q.doc] # "trashed" /\ Fails(r, "missing")
       \/ /\ status[q.doc] = "trashed"
          /\ slug' = [slug EXCEPT ![q.doc] = q.name]
          /\ GoOn(r, Place(q))
          /\ UNCHANGED <<status, parent, vis>>

\* RestoreSubtree, one statement: all rows of the subtree or none.
Bring(r) ==
    LET q == reqs[r]
        S == Subtree(q.doc, "trashed")
    IN
    /\ q.pc = "bring" /\ ~ Endless(q.doc, "trashed")
    /\ \/ S = {} /\ Fails(r, "missing")
       \/ Clash(S) /\ Fails(r, "conflict")
       \/ /\ S # {} /\ ~ Clash(S)
          /\ status' = [d \in Docs |-> IF d \in S THEN "alive" ELSE status[d]]
          /\ GoOn(r, Idle)
          /\ UNCHANGED <<parent, slug, vis>>

-----------------------------------------------------------------------------
(* PurgeDocument and SweepPurgeDue *)

BeginPurge(r) ==
    /\ Free(r)
    /\ \E d \in Docs :
          /\ status[d] = "trashed"
          /\ Begin(r, [Idle EXCEPT !.op = "purge", !.pc = "walkBin", !.doc = d])

\* DuePurgeIDs: trashed rows whose parent is not trashed.  Which of them are past
\* their purge_at depends on the clock and on the retention when each was trashed.
BeginSweep(r) ==
    /\ Free(r)
    /\ \E due \in SUBSET {d \in Docs : status[d] = "trashed" /\
                            (parent[d] = Root \/ status[parent[d]] # "trashed")} :
          \E d \in due :
             Begin(r, [Idle EXCEPT !.op = "sweep", !.pc = "walkBin", !.doc = d,
                                   !.todo = due \ {d}])

\* SubtreeIDsOfTrashed.
WalkBin(r) ==
    LET q == reqs[r] IN
    /\ q.pc = "walkBin" /\ ~ Endless(q.doc, "trashed")
    /\ IF status[q.doc] = "trashed"
       THEN GoOn(r, [q EXCEPT !.pc = "purge"]) /\ UNCHANGED rows
       ELSE Fails(r, "missing")

\* PurgeSubtree, one transaction; a row that stays below a deleted one is an
\* error of the foreign key.
Purge(r) ==
    LET q == reqs[r]
        S == Subtree(q.doc, "trashed")
    IN
    /\ q.pc = "purge" /\ ~ Endless(q.doc, "trashed")
    /\ \/ S = {} /\ Fails(r, "missing")
       \/ Held(S) /\ Fails(r, "invalid")
       \/ /\ S # {} /\ ~ Held(S)
          /\ status' = [d \in Docs |-> IF d \in S THEN "gone" ELSE status[d]]
          /\ parent' = [d \in Docs |-> IF d \in S THEN Root ELSE parent[d]]
          /\ slug' = [d \in Docs |-> IF d \in S THEN NoSlug ELSE slug[d]]
          /\ vis' = [d \in Docs |-> IF d \in S THEN "standard" ELSE vis[d]]
          /\ \E p \in Ended(q, Idle) : GoOn(r, p)

-----------------------------------------------------------------------------
(* A request that stops: its client goes away or the process dies *)

Stop(r) ==
    /\ reqs[r].pc \in Waiting
    /\ GoOn(r, Idle)
    /\ UNCHANGED rows

-----------------------------------------------------------------------------
\* A forest of alive documents, as a sequence of creates, renames and changes of
\* visibility leaves it.
Init ==
    /\ status \in [Docs -> {"new", "alive"}]
    /\ parent \in [Docs -> Docs \cup {Root}]
    /\ slug \in [Docs -> {NoSlug} \cup {Plain(b) : b \in Bases}]
    /\ vis \in [Docs -> Visibilities]
    /\ \A d \in Docs :
          IF status[d] = "new"
          THEN parent[d] = Root /\ slug[d] = NoSlug /\ vis[d] = "standard"
          ELSE /\ parent[d] # Root => status[parent[d]] = "alive"
               /\ slug[d] # NoSlug /\ ~ Taken(parent[d], slug[d], d)
    /\ Forest(Docs)
    /\ reqs = [r \in Requests |-> Idle]
    /\ begun = 0

Step(r) ==
    \/ BeginCreate(r) \/ TrySlug(r) \/ Insert(r)
    \/ BeginRename(r) \/ BeginSet(r) \/ UpdateMeta(r)
    \/ BeginMove(r) \/ ReadTarget(r) \/ Walk(r) \/ Move(r)
    \/ BeginTrash(r) \/ SoftDelete(r)
    \/ BeginRestore(r) \/ FindRoot(r) \/ ReadRoot(r) \/ HideRoot(r) \/ Reslug(r)
    \/ Bring(r)
    \/ BeginPurge(r) \/ BeginSweep(r) \/ WalkBin(r) \/ Purge(r)
    \/ Stop(r)

Next == \E r \in Requests : Step(r)

Spec == Init /\ [][Next]_vars

-----------------------------------------------------------------------------
(* Properties *)

TypeOK ==
    /\ status \in [Docs -> {"new", "alive", "trashed", "gone"}]
    /\ parent \in [Docs -> Docs \cup {Root}]
    /\ slug \in [Docs -> Slugs]
    /\ vis \in [Docs -> Visibilities]
    /\ reqs \in [Requests -> Request]
    /\ \A r \in Requests :
          reqs[r].pc \in Waiting /\ reqs[r].op # "create" => reqs[r].doc \in Docs
    /\ begun \in Nat

\* Two alive documents under one parent have different slugs, so that a path
\* names one document.
SiblingSlugsDiffer ==
    \A d, e \in Docs :
        /\ d # e /\ status[d] = "alive" /\ status[e] = "alive"
        /\ parent[d] = parent[e]
        => slug[d] # slug[e]

\* No row refers to a parent that was deleted, whatever was purged.
ParentsExist == \A d \in Rows : parent[d] = Root \/ parent[d] \in Rows

\* MoveDocument forbids a move into the document's own subtree
\* (service.go:299): no document is above itself.
Acyclic == Forest(Rows)

\* CreateDocument and MoveDocument want an alive parent (service.go:166), and
\* trashing takes the whole subtree: an alive document hangs under alive ones.
AliveUnderAlive ==
    \A d \in Docs :
        status[d] = "alive" /\ parent[d] # Root => status[parent[d]] = "alive"

\* A document becomes alive once, can be trashed and brought back, and is
\* deleted from the bin only; a deleted one does not return.
Lifecycle ==
    [][\A d \in Docs :
          status'[d] # status[d] =>
              <<status[d], status'[d]>> \in
                  {<<"new", "alive">>, <<"alive", "trashed">>,
                   <<"trashed", "alive">>, <<"trashed", "gone">>}]_vars

\* trash.go:94 and doc/02:212: what leaves the bin is not visible to readers
\* without document.read.restricted until somebody moves it.
RestoredIsHidden ==
    [][\A d \in Docs :
          status[d] = "trashed" /\ status'[d] = "alive" => Hidden(d)']_vars

\* trash.go:133: a restore answers with a conflict only after all candidates for
\* the slug under the container are taken.
RestoreFindsAPlace ==
    [][\A r \in Requests :
          reqs[r].op = "restore" /\ reqs[r].pc = "bring"
          => reqs'[r].pc # "conflict"]_vars
=============================================================================
