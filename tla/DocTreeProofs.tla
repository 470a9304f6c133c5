--------------------------- MODULE DocTreeProofs ---------------------------
(***************************************************************************)
(* What the tree of documents guarantees however requests interleave: the  *)
(* constraints of the database hold it together, not the checks of the     *)
(* service.                                                                *)
(***************************************************************************)
EXTENDS DocTree, TLAPS

-----------------------------------------------------------------------------
(* Subtrees *)

\* A subtree holds rows of its state only.
LEMMA SubtreeHasState ==
    ASSUME NEW d, NEW st
    PROVE  \A e \in Subtree(d, st) : e \in Docs /\ status[e] = st
BY DEF Subtree

-----------------------------------------------------------------------------
(* How the rows change, action by action *)

\* What a step does to the rows, the requests left out: the disjuncts are the
\* statements that write.
Inserts(d, p, s) ==
    /\ status[d] = "new"
    /\ ~ NoParent(p) /\ ~ Taken(p, s, NoDoc)
    /\ status' = [status EXCEPT ![d] = "alive"]
    /\ parent' = [parent EXCEPT ![d] = p]
    /\ slug' = [slug EXCEPT ![d] = s]

Renames(d, s) ==
    /\ ~ (status[d] = "alive" /\ Taken(parent[d], s, d))
    /\ slug' = [slug EXCEPT ![d] = s]
    /\ UNCHANGED <<status, parent>>

Moves(d, p) ==
    /\ ~ (status[d] = "alive" /\ Taken(p, slug[d], d)) /\ ~ NoParent(p)
    /\ parent' = [parent EXCEPT ![d] = p]
    /\ UNCHANGED <<status, slug>>

Trashes(S) ==
    /\ \A d \in S : status[d] = "alive"
    /\ status' = [d \in Docs |-> IF d \in S THEN "trashed" ELSE status[d]]
    /\ UNCHANGED <<parent, slug>>

Brings(S) ==
    /\ \A d \in S : status[d] = "trashed"
    /\ ~ Clash(S)
    /\ status' = [d \in Docs |-> IF d \in S THEN "alive" ELSE status[d]]
    /\ UNCHANGED <<parent, slug>>

Purges(S) ==
    /\ \A d \in S : status[d] = "trashed"
    /\ ~ Held(S)
    /\ status' = [d \in Docs |-> IF d \in S THEN "gone" ELSE status[d]]
    /\ parent' = [d \in Docs |-> IF d \in S THEN Root ELSE parent[d]]
    /\ slug' = [d \in Docs |-> IF d \in S THEN NoSlug ELSE slug[d]]

Writes ==
    \/ \E d \in Docs, p \in Docs \cup {Root}, s \in Slugs : Inserts(d, p, s)
    \/ \E d \in Docs, s \in Slugs : Renames(d, s)
    \/ \E d \in Docs, p \in Docs \cup {Root} : Moves(d, p)
    \/ \E S \in SUBSET Docs : Trashes(S)
    \/ \E S \in SUBSET Docs : Brings(S)
    \/ \E S \in SUBSET Docs : Purges(S)
    \/ UNCHANGED <<status, parent, slug>>

-----------------------------------------------------------------------------
(* Type correctness *)

\* The slugs that requests and the service come with are slugs.
LEMMA PlainIsSlug ==
    /\ \A b \in Bases : Plain(b) \in Slugs
    /\ RestoredSlug \in Slugs /\ NoSlug \in Slugs
BY DEF Plain, Slugs, RestoredSlug, NoSlug

\* So is every candidate of one.
LEMMA CandidateIsSlug ==
    ASSUME NEW s \in Slugs, NEW n \in Nat
    PROVE  Candidate(s, n) \in Slugs
<1>1. s.tail \in Seq(Nat) /\ Append(s.tail, n) \in Seq(Nat)
  BY DEF Slugs
<1>2. [s EXCEPT !.tail = Append(@, n)] \in Slugs
  <2> DEFINE t == Append(s.tail, n)
  <2>1. t \in Seq(Nat)
    BY <1>1
  <2> HIDE DEF t
  <2>2. [s EXCEPT !.tail = t] \in Slugs
    BY <2>1 DEF Slugs
  <2>3. [s EXCEPT !.tail = Append(@, n)] = [s EXCEPT !.tail = t]
    BY DEF t
  <2> QED BY <2>2, <2>3
<1> QED BY <1>2 DEF Candidate

\* The record of a free slot.
LEMMA IdleIsRequest == Idle \in Request
BY PlainIsSlug DEF Idle, Request, Ops, Visibilities

\* A request record that is right for TypeOK.
Right(q) ==
    /\ q \in Request
    /\ q.pc \in Waiting /\ q.op # "create" => q.doc \in Docs

\* A request that ends leaves a right record,
LEMMA RestsRight ==
    /\ Right(Idle)
    /\ \A q \in Request : \A answer \in Failures : Right(Failed(q, answer))
<1>1. Right(Idle)
  BY IdleIsRequest DEF Right, Idle, Waiting
<1>2. ASSUME NEW q \in Request, NEW answer \in Failures
      PROVE  Right(Failed(q, answer))
  <2>1. Failed(q, answer) \in Request
    BY IdleIsRequest DEF Failed, Request
  <2>2. Failed(q, answer).pc = answer
    BY IdleIsRequest DEF Failed, Request
  <2>3. answer \notin Waiting
    BY DEF Failures, Waiting
  <2> QED BY <2>1, <2>2, <2>3 DEF Right
<1> QED BY <1>1, <1>2

\* also when it is a sweep that goes on.
LEMMA EndedRight ==
    ASSUME NEW q, Right(q), NEW rec, Right(rec), NEW p \in Ended(q, rec)
    PROVE  Right(p)
<1>1. CASE q.op = "sweep" /\ q.todo # {}
  <2>1. PICK d \in q.todo : p = [q EXCEPT !.doc = d, !.todo = q.todo \ {d},
                                         !.pc = "walkBin"]
    BY <1>1 DEF Ended
  <2>2. d \in Docs /\ q.todo \ {d} \in SUBSET Docs
    BY DEF Right, Request
  <2>3. q \in Request /\ "walkBin" \in Waiting
    BY DEF Right, Waiting
  <2>4. p \in Request /\ p.doc = d
    BY <2>1, <2>2, <2>3 DEF Request
  <2> QED BY <2>2, <2>4 DEF Right
<1>2. CASE ~ (q.op = "sweep" /\ q.todo # {})
  BY <1>2 DEF Ended
<1> QED BY <1>1, <1>2

\* Writing a right record keeps the requests right, in the three ways steps do.
LEMMA GoesOnRight ==
    ASSUME TypeOK, NEW r \in Requests, NEW rec, Right(rec), GoOn(r, rec)
    PROVE  /\ reqs' \in [Requests -> Request] /\ begun' \in Nat
           /\ \A x \in Requests : Right(reqs'[x])
BY DEF TypeOK, GoOn, Right

LEMMA BeginsRight ==
    ASSUME TypeOK, NEW r \in Requests, NEW rec, Right(rec), Begin(r, rec)
    PROVE  TypeOK'
BY DEF TypeOK, Begin, Right, rows

LEMMA FailsRight ==
    ASSUME TypeOK, NEW r \in Requests, NEW answer \in Failures, Fails(r, answer)
    PROVE  TypeOK'
<1>1. Right(reqs[r])
  BY DEF TypeOK, Right
<1>2. PICK p \in Ended(reqs[r], Failed(reqs[r], answer)) : GoOn(r, p)
  BY DEF Fails
<1>3. Right(p)
  <2>1. Right(Failed(reqs[r], answer))
    BY RestsRight DEF TypeOK
  <2> QED BY <1>1, <2>1, EndedRight
<1>4. UNCHANGED rows
  BY DEF Fails
<1> QED BY <1>2, <1>3, <1>4, GoesOnRight DEF TypeOK, Right, rows

\* The rows in their types.
RowsTyped ==
    /\ status \in [Docs -> {"new", "alive", "trashed", "gone"}]
    /\ parent \in [Docs -> Docs \cup {Root}]
    /\ slug \in [Docs -> Slugs]
    /\ vis \in [Docs -> Visibilities]

LEMMA StepRight ==
    ASSUME TypeOK, NEW r \in Requests, NEW rec, Right(rec), GoOn(r, rec),
           RowsTyped'
    PROVE  TypeOK'
BY GoesOnRight DEF TypeOK, RowsTyped, Right

\* Every reachable state is well typed, and a waiting request names the document it
\* works on.
THEOREM TypeCorrect == Spec => []TypeOK
<1>1. Init => TypeOK
  BY PlainIsSlug, IdleIsRequest DEF Init, TypeOK, Idle, Waiting
<1>2. ASSUME TypeOK, [Next]_vars PROVE TypeOK'
  <2> DEFINE q(r) == reqs[r]
  <2>0. RowsTyped /\ \A r \in Requests : Right(reqs[r])
    BY <1>2 DEF TypeOK, RowsTyped, Right
  <2>u. ASSUME UNCHANGED rows PROVE RowsTyped'
    BY <2>0, <2>u DEF RowsTyped, rows
  <2>1. CASE UNCHANGED vars
    BY <1>2, <2>1 DEF vars, TypeOK
  <2>2. ASSUME NEW r \in Requests, BeginCreate(r) PROVE TypeOK'
    <3>1. PICK p \in {Root} \cup {d \in Docs : status[d] = "alive"},
               b \in Bases, pc \in {"try", "insert"} :
             Begin(r, [Idle EXCEPT !.op = "create", !.pc = pc, !.to = p,
                                   !.name = Plain(b)])
      BY <2>2 DEF BeginCreate
    <3>2. Right([Idle EXCEPT !.op = "create", !.pc = pc, !.to = p, !.name = Plain(b)])
      BY IdleIsRequest, PlainIsSlug DEF Right, Request, Idle, Waiting, Ops
    <3> QED BY <1>2, <3>1, <3>2, BeginsRight
  <2>3. ASSUME NEW r \in Requests, TrySlug(r) PROVE TypeOK'
    <3>1. CASE Fails(r, "conflict")
      BY <1>2, <3>1, FailsRight DEF Failures
    <3>2. CASE UNCHANGED rows /\ GoOn(r, [reqs[r] EXCEPT !.n = @ + 1])
      <4>1. Right([reqs[r] EXCEPT !.n = @ + 1])
        BY <2>0 DEF Right, Request
      <4> QED BY <1>2, <3>2, <4>1, <2>u, StepRight
    <3>3. ASSUME UNCHANGED rows, NEW s, s = Candidate(reqs[r].name, reqs[r].n),
                 reqs[r].op = "create",
                 GoOn(r, [reqs[r] EXCEPT !.pc = "insert", !.name = s])
          PROVE  TypeOK'
      <4>1. s \in Slugs
        BY <2>0, <3>3, CandidateIsSlug DEF Right, Request
      <4>2. Right([reqs[r] EXCEPT !.pc = "insert", !.name = s])
        BY <2>0, <3>3, <4>1 DEF Right, Request, Waiting
      <4> QED BY <1>2, <3>3, <4>2, <2>u, StepRight
    <3>4. ASSUME UNCHANGED rows, NEW s, s = Candidate(reqs[r].name, reqs[r].n),
                 reqs[r].op = "restore", reqs[r].pc = "try",
                 GoOn(r, IF reqs[r].n = 1 THEN Place(reqs[r])
                         ELSE [reqs[r] EXCEPT !.pc = "reslug", !.name = s])
          PROVE  TypeOK'
      <4>1. s \in Slugs
        BY <2>0, <3>4, CandidateIsSlug DEF Right, Request
      <4>2. Right(Place(reqs[r]))
        BY <2>0, <3>4 DEF Right, Request, Waiting, Place
      <4>3. Right([reqs[r] EXCEPT !.pc = "reslug", !.name = s])
        BY <2>0, <3>4, <4>1 DEF Right, Request, Waiting
      <4>4. Right(IF reqs[r].n = 1 THEN Place(reqs[r])
                  ELSE [reqs[r] EXCEPT !.pc = "reslug", !.name = s])
        BY <4>2, <4>3
      <4> QED BY <1>2, <3>4, <4>4, <2>u, StepRight
    <3> QED BY <2>3, <3>1, <3>2, <3>3, <3>4 DEF TrySlug
  <2>4. ASSUME NEW r \in Requests, Insert(r) PROVE TypeOK'
    <3> DEFINE p == IF reqs[r].op = "create" THEN reqs[r].to ELSE Root
               s == IF reqs[r].op = "create" THEN reqs[r].name ELSE RestoredSlug
    <3>1. CASE Fails(r, "conflict") \/ Fails(r, "invalid")
      BY <1>2, <3>1, FailsRight DEF Failures
    <3>2. ASSUME NEW d \in Docs,
                 status' = [status EXCEPT ![d] = "alive"],
                 parent' = [parent EXCEPT ![d] = p],
                 slug' = [slug EXCEPT ![d] = s],
                 GoOn(r, IF reqs[r].op = "create" THEN Idle
                         ELSE [reqs[r] EXCEPT !.pc = "readRoot", !.to = d]),
                 UNCHANGED vis, reqs[r].pc = "insert"
          PROVE  TypeOK'
      <4>1. Right(IF reqs[r].op = "create" THEN Idle
                  ELSE [reqs[r] EXCEPT !.pc = "readRoot", !.to = d])
        BY <2>0, <3>2, RestsRight DEF Right, Request, Waiting
      <4>2. p \in Docs \cup {Root} /\ s \in Slugs
        BY <2>0, PlainIsSlug DEF Right, Request
      <4>3. RowsTyped'
        BY <2>0, <3>2, <4>2 DEF RowsTyped
      <4> QED BY <1>2, <3>2, <4>1, <4>3, StepRight
    <3> QED BY <2>4, <3>1, <3>2 DEF Insert
  <2>5. ASSUME NEW r \in Requests, BeginRename(r) PROVE TypeOK'
    <3>1. PICK d \in Docs, b \in Bases :
             Begin(r, [Idle EXCEPT !.op = "rename", !.pc = "update", !.doc = d,
                                   !.name = Plain(b)])
      BY <2>5 DEF BeginRename
    <3>2. Right([Idle EXCEPT !.op = "rename", !.pc = "update", !.doc = d,
                             !.name = Plain(b)])
      BY IdleIsRequest, PlainIsSlug DEF Right, Request, Idle, Waiting, Ops
    <3> QED BY <1>2, <3>1, <3>2, BeginsRight
  <2>6. ASSUME NEW r \in Requests, BeginSet(r) PROVE TypeOK'
    <3>1. PICK d \in Docs, v \in Visibilities :
             Begin(r, [Idle EXCEPT !.op = "set", !.pc = "update", !.doc = d,
                                   !.vis = v])
      BY <2>6 DEF BeginSet
    <3>2. Right([Idle EXCEPT !.op = "set", !.pc = "update", !.doc = d, !.vis = v])
      BY IdleIsRequest DEF Right, Request, Idle, Waiting, Ops
    <3> QED BY <1>2, <3>1, <3>2, BeginsRight
  <2>7. ASSUME NEW r \in Requests, UpdateMeta(r) PROVE TypeOK'
    <3>1. CASE Fails(r, "missing") \/ Fails(r, "conflict")
      BY <1>2, <3>1, FailsRight DEF Failures
    <3>2. CASE vis' = [vis EXCEPT ![reqs[r].doc] = reqs[r].vis]
               /\ GoOn(r, Idle) /\ UNCHANGED <<status, parent, slug>>
      <4>1. RowsTyped'
        BY <2>0, <3>2 DEF RowsTyped, Right, Request
      <4> QED BY <1>2, <3>2, <4>1, RestsRight, StepRight
    <3>3. CASE slug' = [slug EXCEPT ![reqs[r].doc] = reqs[r].name]
               /\ GoOn(r, Idle) /\ UNCHANGED <<status, parent, vis>>
      <4>1. RowsTyped'
        BY <2>0, <3>3 DEF RowsTyped, Right, Request
      <4> QED BY <1>2, <3>3, <4>1, RestsRight, StepRight
    <3> QED BY <2>7, <3>1, <3>2, <3>3 DEF UpdateMeta
  <2>8. ASSUME NEW r \in Requests, BeginMove(r) PROVE TypeOK'
    <3>1. PICK d \in Docs, p \in Docs \cup {Root} :
             Begin(r, [Idle EXCEPT !.op = "move", !.doc = d, !.to = p,
                                   !.pc = IF p = Root THEN "move" ELSE "target"])
      BY <2>8 DEF BeginMove
    <3>2. Right([Idle EXCEPT !.op = "move", !.doc = d, !.to = p,
                             !.pc = IF p = Root THEN "move" ELSE "target"])
      BY IdleIsRequest DEF Right, Request, Idle, Waiting, Ops
    <3> QED BY <1>2, <3>1, <3>2, BeginsRight
  <2>9. ASSUME NEW r \in Requests, ReadTarget(r) PROVE TypeOK'
    <3>1. CASE Fails(r, "missing")
      BY <1>2, <3>1, FailsRight DEF Failures
    <3>2. CASE reqs[r].pc = "target" /\ GoOn(r, [reqs[r] EXCEPT !.pc = "walk"])
               /\ UNCHANGED rows
      <4>1. Right([reqs[r] EXCEPT !.pc = "walk"])
        BY <2>0, <3>2 DEF Right, Request, Waiting
      <4> QED BY <1>2, <3>2, <4>1, <2>u, StepRight
    <3> QED BY <2>9, <3>1, <3>2 DEF ReadTarget
  <2>10. ASSUME NEW r \in Requests, Walk(r) PROVE TypeOK'
    <3>1. CASE Fails(r, "missing") \/ Fails(r, "invalid")
      BY <1>2, <3>1, FailsRight DEF Failures
    <3>2. ASSUME NEW pc \in {"move", "softDelete"}, reqs[r].pc = "walk",
                 GoOn(r, [reqs[r] EXCEPT !.pc = pc]), UNCHANGED rows
          PROVE  TypeOK'
      <4>1. Right([reqs[r] EXCEPT !.pc = pc])
        BY <2>0, <3>2 DEF Right, Request, Waiting
      <4> QED BY <1>2, <3>2, <4>1, <2>u, StepRight
    <3> QED BY <2>10, <3>1, <3>2 DEF Walk
  <2>11. ASSUME NEW r \in Requests, Move(r) PROVE TypeOK'
    <3>1. CASE \E answer \in Failures : Fails(r, answer)
      BY <1>2, <3>1, FailsRight
    <3>2. CASE /\ reqs[r].pc = "move"
               /\ parent' = [parent EXCEPT ![reqs[r].doc] = reqs[r].to]
               /\ GoOn(r, IF reqs[r].op = "move" THEN Idle
                          ELSE [reqs[r] EXCEPT !.pc = "bring"])
               /\ UNCHANGED <<status, slug, vis>>
      <4>1. Right(IF reqs[r].op = "move" THEN Idle
                  ELSE [reqs[r] EXCEPT !.pc = "bring"])
        BY <2>0, <3>2, RestsRight DEF Right, Request, Waiting
      <4>2. RowsTyped'
        BY <2>0, <3>2 DEF RowsTyped, Right, Request
      <4> QED BY <1>2, <3>2, <4>1, <4>2, StepRight
    <3> QED BY <2>11, <3>1, <3>2 DEF Move, Failures
  <2>12. ASSUME NEW r \in Requests, BeginTrash(r) PROVE TypeOK'
    <3>1. PICK d \in Docs :
             Begin(r, [Idle EXCEPT !.op = "trash", !.pc = "walk", !.doc = d])
      BY <2>12 DEF BeginTrash
    <3>2. Right([Idle EXCEPT !.op = "trash", !.pc = "walk", !.doc = d])
      BY IdleIsRequest DEF Right, Request, Idle, Waiting, Ops
    <3> QED BY <1>2, <3>1, <3>2, BeginsRight
  <2>13. ASSUME NEW r \in Requests, SoftDelete(r) PROVE TypeOK'
    <3>1. RowsTyped'
      BY <2>0, <2>13 DEF SoftDelete, RowsTyped
    <3> QED BY <1>2, <2>13, <3>1, RestsRight, StepRight DEF SoftDelete
  <2>14. ASSUME NEW r \in Requests, BeginRestore(r) PROVE TypeOK'
    <3>1. PICK d \in Docs :
             Begin(r, [Idle EXCEPT !.op = "restore", !.pc = "root", !.doc = d,
                                   !.name = slug[d], !.old = parent[d]])
      BY <2>14 DEF BeginRestore
    <3>2. Right([Idle EXCEPT !.op = "restore", !.pc = "root", !.doc = d,
                             !.name = slug[d], !.old = parent[d]])
      BY <2>0, IdleIsRequest DEF Right, Request, Idle, Waiting, Ops, RowsTyped
    <3> QED BY <1>2, <3>1, <3>2, BeginsRight
  <2>15. ASSUME NEW r \in Requests, FindRoot(r) PROVE TypeOK'
    <3>0. UNCHANGED rows /\ reqs[r].pc = "root"
      BY <2>15 DEF FindRoot
    <3>1. ASSUME NEW c \in Docs, GoOn(r, [reqs[r] EXCEPT !.pc = "try", !.to = c])
          PROVE  TypeOK'
      <4>1. Right([reqs[r] EXCEPT !.pc = "try", !.to = c])
        BY <2>0, <3>0 DEF Right, Request, Waiting
      <4> QED BY <1>2, <3>0, <3>1, <4>1, <2>u, StepRight
    <3>2. CASE GoOn(r, [reqs[r] EXCEPT !.pc = "insert"])
      <4>1. Right([reqs[r] EXCEPT !.pc = "insert"])
        BY <2>0, <3>0 DEF Right, Request, Waiting
      <4> QED BY <1>2, <3>0, <3>2, <4>1, <2>u, StepRight
    <3> QED BY <2>15, <3>1, <3>2 DEF FindRoot
  <2>16. ASSUME NEW r \in Requests, ReadRoot(r) PROVE TypeOK'
    <3>1. CASE Fails(r, "missing")
      BY <1>2, <3>1, FailsRight DEF Failures
    <3>2. CASE reqs[r].pc = "readRoot"
               /\ GoOn(r, [reqs[r] EXCEPT !.pc = "hideRoot"]) /\ UNCHANGED rows
      <4>1. Right([reqs[r] EXCEPT !.pc = "hideRoot"])
        BY <2>0, <3>2 DEF Right, Request, Waiting
      <4> QED BY <1>2, <3>2, <4>1, <2>u, StepRight
    <3> QED BY <2>16, <3>1, <3>2 DEF ReadRoot
  <2>17. ASSUME NEW r \in Requests, HideRoot(r) PROVE TypeOK'
    <3>1. CASE Fails(r, "missing")
      BY <1>2, <3>1, FailsRight DEF Failures
    <3>2. CASE /\ reqs[r].pc = "hideRoot"
               /\ vis' = [vis EXCEPT ![reqs[r].to] = "restricted"]
               /\ GoOn(r, [reqs[r] EXCEPT !.pc = "try"])
               /\ UNCHANGED <<status, parent, slug>>
      <4>1. Right([reqs[r] EXCEPT !.pc = "try"])
        BY <2>0, <3>2 DEF Right, Request, Waiting
      <4>2. RowsTyped'
        BY <2>0, <3>2 DEF RowsTyped, Visibilities
      <4> QED BY <1>2, <3>2, <4>1, <4>2, StepRight
    <3> QED BY <2>17, <3>1, <3>2 DEF HideRoot
  <2>18. ASSUME NEW r \in Requests, Reslug(r) PROVE TypeOK'
    <3>1. CASE Fails(r, "missing")
      BY <1>2, <3>1, FailsRight DEF Failures
    <3>2. CASE /\ reqs[r].pc = "reslug"
               /\ slug' = [slug EXCEPT ![reqs[r].doc] = reqs[r].name]
               /\ GoOn(r, Place(reqs[r]))
               /\ UNCHANGED <<status, parent, vis>>
      <4>1. Right(Place(reqs[r]))
        BY <2>0, <3>2 DEF Right, Request, Waiting, Place
      <4>2. RowsTyped'
        BY <2>0, <3>2 DEF RowsTyped, Right, Request
      <4> QED BY <1>2, <3>2, <4>1, <4>2, StepRight
    <3> QED BY <2>18, <3>1, <3>2 DEF Reslug
  <2>19. ASSUME NEW r \in Requests, Bring(r) PROVE TypeOK'
    <3>1. CASE Fails(r, "missing") \/ Fails(r, "conflict")
      BY <1>2, <3>1, FailsRight DEF Failures
    <3>2. ASSUME NEW S,
                 status' = [d \in Docs |-> IF d \in S THEN "alive" ELSE status[d]],
                 GoOn(r, Idle), UNCHANGED <<parent, slug, vis>>
          PROVE  TypeOK'
      <4>1. RowsTyped'
        BY <2>0, <3>2 DEF RowsTyped
      <4> QED BY <1>2, <3>2, <4>1, RestsRight, StepRight
    <3> QED BY <2>19, <3>1, <3>2 DEF Bring
  <2>20. ASSUME NEW r \in Requests, BeginPurge(r) PROVE TypeOK'
    <3>1. PICK d \in Docs :
             Begin(r, [Idle EXCEPT !.op = "purge", !.pc = "walkBin", !.doc = d])
      BY <2>20 DEF BeginPurge
    <3>2. Right([Idle EXCEPT !.op = "purge", !.pc = "walkBin", !.doc = d])
      BY IdleIsRequest DEF Right, Request, Idle, Waiting, Ops
    <3> QED BY <1>2, <3>1, <3>2, BeginsRight
  <2>21. ASSUME NEW r \in Requests, BeginSweep(r) PROVE TypeOK'
    <3>1. PICK due \in SUBSET Docs, d \in Docs :
             Begin(r, [Idle EXCEPT !.op = "sweep", !.pc = "walkBin", !.doc = d,
                                   !.todo = due \ {d}])
      BY <2>21 DEF BeginSweep
    <3>2. Right([Idle EXCEPT !.op = "sweep", !.pc = "walkBin", !.doc = d,
                             !.todo = due \ {d}])
      BY IdleIsRequest DEF Right, Request, Idle, Waiting, Ops
    <3> QED BY <1>2, <3>1, <3>2, BeginsRight
  <2>22. ASSUME NEW r \in Requests, WalkBin(r) PROVE TypeOK'
    <3>1. CASE Fails(r, "missing")
      BY <1>2, <3>1, FailsRight DEF Failures
    <3>2. CASE reqs[r].pc = "walkBin"
               /\ GoOn(r, [reqs[r] EXCEPT !.pc = "purge"]) /\ UNCHANGED rows
      <4>1. Right([reqs[r] EXCEPT !.pc = "purge"])
        BY <2>0, <3>2 DEF Right, Request, Waiting
      <4> QED BY <1>2, <3>2, <4>1, <2>u, StepRight
    <3> QED BY <2>22, <3>1, <3>2 DEF WalkBin
  <2>23. ASSUME NEW r \in Requests, Purge(r) PROVE TypeOK'
    <3>1. CASE Fails(r, "missing") \/ Fails(r, "invalid")
      BY <1>2, <3>1, FailsRight DEF Failures
    <3>2. ASSUME NEW S,
                 status' = [d \in Docs |-> IF d \in S THEN "gone" ELSE status[d]],
                 parent' = [d \in Docs |-> IF d \in S THEN Root ELSE parent[d]],
                 slug' = [d \in Docs |-> IF d \in S THEN NoSlug ELSE slug[d]],
                 vis' = [d \in Docs |-> IF d \in S THEN "standard" ELSE vis[d]],
                 NEW p \in Ended(reqs[r], Idle), GoOn(r, p)
          PROVE  TypeOK'
      <4>1. RowsTyped'
        BY <2>0, <3>2, PlainIsSlug DEF RowsTyped, Visibilities
      <4>2. Right(p)
        BY <2>0, <3>2, RestsRight, EndedRight
      <4> QED BY <1>2, <3>2, <4>1, <4>2, StepRight
    <3> QED BY <2>23, <3>1, <3>2 DEF Purge
  <2>24. ASSUME NEW r \in Requests, Stop(r) PROVE TypeOK'
    <3>1. GoOn(r, Idle) /\ UNCHANGED rows
      BY <2>24 DEF Stop
    <3> QED BY <1>2, <3>1, <2>u, RestsRight, StepRight
  <2> QED
    BY <1>2, <2>1, <2>2, <2>3, <2>4, <2>5, <2>6, <2>7, <2>8, <2>9, <2>10, <2>11,
       <2>12, <2>13, <2>14, <2>15, <2>16, <2>17, <2>18, <2>19, <2>20, <2>21,
       <2>22, <2>23, <2>24 DEF Next, Step
<1> QED BY <1>1, <1>2, PTL DEF Spec

-----------------------------------------------------------------------------
(* Every step writes the rows in one of these ways *)

\* A step with any action of any request is one of the writes above.
LEMMA StepWrites ==
    ASSUME TypeOK, [Next]_vars
    PROVE  Writes
<1>0. \A r \in Requests : Right(reqs[r])
  BY DEF TypeOK, Right
<1>u. UNCHANGED rows => Writes
  BY DEF rows, Writes
<1>1. CASE UNCHANGED vars
  BY <1>1 DEF vars, Writes
<1>2. ASSUME NEW r \in Requests,
             \/ BeginCreate(r) \/ BeginRename(r) \/ BeginSet(r) \/ BeginMove(r)
             \/ BeginTrash(r) \/ BeginRestore(r) \/ BeginPurge(r) \/ BeginSweep(r)
      PROVE  UNCHANGED rows
  BY <1>2 DEF BeginCreate, BeginRename, BeginSet, BeginMove, BeginTrash,
              BeginRestore, BeginPurge, BeginSweep, Begin
<1>3. ASSUME NEW r \in Requests,
             \/ TrySlug(r) \/ ReadTarget(r) \/ Walk(r) \/ FindRoot(r)
             \/ ReadRoot(r) \/ WalkBin(r) \/ Stop(r)
      PROVE  UNCHANGED rows
  BY <1>3 DEF TrySlug, ReadTarget, Walk, FindRoot, ReadRoot, WalkBin, Stop, Fails
<1>4. ASSUME NEW r \in Requests, Insert(r) PROVE Writes
  <2> DEFINE p == IF reqs[r].op = "create" THEN reqs[r].to ELSE Root
             s == IF reqs[r].op = "create" THEN reqs[r].name ELSE RestoredSlug
  <2>1. p \in Docs \cup {Root} /\ s \in Slugs
    BY <1>0, PlainIsSlug DEF Right, Request
  <2>2. UNCHANGED rows \/ \E d \in Docs : Inserts(d, p, s)
    BY <1>4 DEF Insert, Fails, Inserts
  <2> QED BY <2>1, <2>2, <1>u DEF Writes
<1>5. ASSUME NEW r \in Requests, UpdateMeta(r) PROVE Writes
  <2>1. \/ UNCHANGED rows
        \/ UNCHANGED <<status, parent, slug>>
        \/ reqs[r].doc \in Rows /\ Renames(reqs[r].doc, reqs[r].name)
    BY <1>5 DEF UpdateMeta, Fails, Renames
  <2>2. reqs[r].name \in Slugs
    BY <1>0 DEF Right, Request
  <2> QED BY <2>1, <2>2, <1>u DEF Writes, Rows
<1>6. ASSUME NEW r \in Requests, Move(r) PROVE Writes
  <2>1. \/ UNCHANGED rows
        \/ reqs[r].doc \in Rows /\ Moves(reqs[r].doc, reqs[r].to)
    BY <1>6 DEF Move, Fails, Moves
  <2>2. reqs[r].to \in Docs \cup {Root}
    BY <1>0 DEF Right, Request
  <2> QED BY <2>1, <2>2, <1>u DEF Writes, Rows
<1>7. ASSUME NEW r \in Requests, SoftDelete(r) PROVE Writes
  <2>1. Trashes(Subtree(reqs[r].doc, "alive"))
    BY <1>7, SubtreeHasState DEF SoftDelete, Trashes
  <2>2. Subtree(reqs[r].doc, "alive") \in SUBSET Docs
    BY SubtreeHasState
  <2> QED BY <2>1, <2>2 DEF Writes
<1>8. ASSUME NEW r \in Requests, HideRoot(r) PROVE Writes
  BY <1>8, <1>u DEF HideRoot, Fails, Writes
<1>9. ASSUME NEW r \in Requests, Reslug(r) PROVE Writes
  <2>1. \/ UNCHANGED rows
        \/ Renames(reqs[r].doc, reqs[r].name)
    BY <1>9 DEF Reslug, Fails, Renames
  <2>2. reqs[r].name \in Slugs
    BY <1>0 DEF Right, Request
  <2>3. CASE reqs[r].doc \in Docs
    BY <2>1, <2>2, <2>3, <1>u DEF Writes
  <2>4. CASE reqs[r].doc \notin Docs
    \* Assigning outside the domain of a function changes nothing.
    <3>1. [slug EXCEPT ![reqs[r].doc] = reqs[r].name] = slug
      BY <2>4 DEF TypeOK
    <3> QED BY <2>1, <3>1, <1>u DEF Writes, Renames
  <2> QED BY <2>3, <2>4
<1>10. ASSUME NEW r \in Requests, Bring(r) PROVE Writes
  <2>1. UNCHANGED rows \/ Brings(Subtree(reqs[r].doc, "trashed"))
    BY <1>10, SubtreeHasState DEF Bring, Fails, Brings
  <2>2. Subtree(reqs[r].doc, "trashed") \in SUBSET Docs
    BY SubtreeHasState
  <2> QED BY <2>1, <2>2, <1>u DEF Writes
<1>11. ASSUME NEW r \in Requests, Purge(r) PROVE Writes
  <2>1. UNCHANGED rows \/ Purges(Subtree(reqs[r].doc, "trashed"))
    BY <1>11, SubtreeHasState DEF Purge, Fails, Purges
  <2>2. Subtree(reqs[r].doc, "trashed") \in SUBSET Docs
    BY SubtreeHasState
  <2> QED BY <2>1, <2>2, <1>u DEF Writes
<1> QED
  BY <1>u, <1>1, <1>2, <1>3, <1>4, <1>5, <1>6, <1>7, <1>8, <1>9, <1>10, <1>11
  DEF Next, Step

-----------------------------------------------------------------------------
(* What no step of any request can break *)

\* SiblingSlugsDiffer: the partial unique index on (parent, slug) of alive rows
\* (0002_v1_schema.sql) keeps paths unambiguous under every interleaving of
\* creates, renames, moves and restores.
THEOREM SiblingsStayApart == Spec => []SiblingSlugsDiffer
<1>1. Init => SiblingSlugsDiffer
  BY DEF Init, SiblingSlugsDiffer, Taken
<1>2. ASSUME TypeOK, SiblingSlugsDiffer, [Next]_vars PROVE SiblingSlugsDiffer'
  <2>0. RowsTyped /\ Writes
    BY <1>2, StepWrites DEF TypeOK, RowsTyped
  <2>1. ASSUME NEW d \in Docs, NEW p \in Docs \cup {Root}, NEW s \in Slugs,
               Inserts(d, p, s)
        PROVE  SiblingSlugsDiffer'
    BY <1>2, <2>0, <2>1, DocsAssumption
    DEF Inserts, Taken, SiblingSlugsDiffer, RowsTyped
  <2>2. ASSUME NEW d \in Docs, NEW s \in Slugs, Renames(d, s)
        PROVE  SiblingSlugsDiffer'
    BY <1>2, <2>0, <2>2 DEF Renames, Taken, SiblingSlugsDiffer, RowsTyped
  <2>3. ASSUME NEW d \in Docs, NEW p \in Docs \cup {Root}, Moves(d, p)
        PROVE  SiblingSlugsDiffer'
    BY <1>2, <2>0, <2>3 DEF Moves, Taken, SiblingSlugsDiffer, RowsTyped
  <2>4. ASSUME NEW S \in SUBSET Docs, Trashes(S) \/ Purges(S)
        PROVE  SiblingSlugsDiffer'
    <3>1. \A d \in Docs : status'[d] = "alive" =>
             status[d] = "alive" /\ parent'[d] = parent[d] /\ slug'[d] = slug[d]
      BY <2>0, <2>4 DEF Trashes, Purges, RowsTyped
    <3> QED BY <1>2, <3>1 DEF SiblingSlugsDiffer
  <2>5. ASSUME NEW S \in SUBSET Docs, Brings(S)
        PROVE  SiblingSlugsDiffer'
    <3>1. \A d \in Docs : status'[d] = "alive" => d \in S \/ status[d] = "alive"
      BY <2>0, <2>5 DEF Brings, RowsTyped
    <3> QED BY <1>2, <2>5, <3>1 DEF SiblingSlugsDiffer, Brings, Clash
  <2>6. CASE UNCHANGED <<status, parent, slug>>
    BY <1>2, <2>6 DEF SiblingSlugsDiffer
  <2> QED BY <2>0, <2>1, <2>2, <2>3, <2>4, <2>5, <2>6 DEF Writes
<1> QED BY <1>1, <1>2, TypeCorrect, PTL DEF Spec

\* ParentsExist: the foreign key on the parent, with a purge that takes a whole
\* subtree of the bin or nothing, leaves no row without its parent.
THEOREM ParentsStay == Spec => []ParentsExist
<1>1. Init => ParentsExist
  BY DEF Init, ParentsExist, Rows
<1>2. ASSUME TypeOK, ParentsExist, [Next]_vars PROVE ParentsExist'
  <2>0. RowsTyped /\ Writes
    BY <1>2, StepWrites DEF TypeOK, RowsTyped
  <2>1. ASSUME NEW d \in Docs, NEW p \in Docs \cup {Root}, NEW s \in Slugs,
               Inserts(d, p, s)
        PROVE  ParentsExist'
    BY <1>2, <2>0, <2>1 DEF Inserts, NoParent, ParentsExist, Rows, RowsTyped
  <2>2. ASSUME NEW d \in Docs, NEW p \in Docs \cup {Root}, Moves(d, p)
        PROVE  ParentsExist'
    BY <1>2, <2>0, <2>2 DEF Moves, NoParent, ParentsExist, Rows, RowsTyped
  <2>3. ASSUME NEW S \in SUBSET Docs, Trashes(S) \/ Brings(S)
        PROVE  ParentsExist'
    <3>1. Rows' = Rows /\ UNCHANGED parent
      BY <2>0, <2>3 DEF Trashes, Brings, Rows, RowsTyped
    <3> QED BY <1>2, <3>1 DEF ParentsExist
  <2>4. ASSUME NEW S \in SUBSET Docs, Purges(S)
        PROVE  ParentsExist'
    <3>1. Rows' = Rows \ S
      BY <2>0, <2>4 DEF Purges, Rows, RowsTyped
    <3>2. \A e \in Rows \ S : parent'[e] = parent[e]
      BY <2>4 DEF Purges, Rows
    <3> QED BY <1>2, <2>4, <3>1, <3>2 DEF ParentsExist, Purges, Held
  <2>5. CASE UNCHANGED <<status, parent>>
    BY <1>2, <2>5 DEF ParentsExist, Rows
  <2> QED BY <2>0, <2>1, <2>2, <2>3, <2>4, <2>5 DEF Writes, Renames
<1> QED BY <1>1, <1>2, TypeCorrect, PTL DEF Spec

\* Lifecycle: an alive document is never deleted without going through the bin
\* and a deleted one never returns, although every statement runs on ids that
\* were looked up earlier.
THEOREM LifecycleHolds == Spec => Lifecycle
<1>1. ASSUME TypeOK, [Next]_vars
      PROVE  \A d \in Docs :
                status'[d] # status[d] =>
                    <<status[d], status'[d]>> \in
                        {<<"new", "alive">>, <<"alive", "trashed">>,
                         <<"trashed", "alive">>, <<"trashed", "gone">>}
  <2>1. RowsTyped /\ Writes
    BY <1>1, StepWrites DEF TypeOK, RowsTyped
  <2> QED
    BY <2>1 DEF Writes, Inserts, Renames, Moves, Trashes, Brings, Purges, RowsTyped
<1>2. TypeOK /\ [Next]_vars
      => [\A d \in Docs :
             status'[d] # status[d] =>
                 <<status[d], status'[d]>> \in
                     {<<"new", "alive">>, <<"alive", "trashed">>,
                      <<"trashed", "alive">>, <<"trashed", "gone">>}]_vars
  BY <1>1
<1> QED BY <1>2, TypeCorrect, PTL DEF Spec, Lifecycle

-----------------------------------------------------------------------------
(***************************************************************************)
(* One request at a time.  Two requests in flight can tie the tree into a  *)
(* cycle or leave an alive document under a trashed one (DocTreeCycle.cfg, *)
(* DocTreeOrphan.cfg).  Here it is proved that only their interleaving     *)
(* does that: what the service checks is enough when nothing happens       *)
(* between its store calls, even if a request stops halfway.               *)
(***************************************************************************)

OneRequest == \A r, s \in Requests : r = s

-----------------------------------------------------------------------------
(* What the request in flight knows of the rows *)

OpOfPc(q) ==
    /\ q.pc = "target" => q.op = "move"
    /\ q.pc = "walk" => q.op \in {"move", "trash"}
    /\ q.pc = "move" => q.op \in {"move", "restore"}
    /\ q.pc \in {"try", "insert"} => q.op \in {"create", "restore"}
    /\ q.pc \in {"root", "readRoot", "hideRoot", "reslug", "bring"} => q.op = "restore"

KnowsParent(q) ==
    q.op = "create" /\ q.pc \in {"try", "insert"} /\ q.to # Root
    => q.to \in Docs /\ status[q.to] = "alive"

KnowsTarget(q) ==
    q.op = "move" /\ q.pc \in {"target", "walk", "move"} =>
        /\ status[q.doc] = "alive"
        /\ q.pc = "target" => q.to \in Docs
        /\ q.pc = "walk" => q.to \in Docs /\ status[q.to] = "alive"
        /\ q.pc = "move" /\ q.to # Root =>
              /\ q.to \in Docs /\ status[q.to] = "alive"
              /\ q.to \notin Subtree(q.doc, "alive")

KnowsPlace(q) ==
    q.op = "restore" /\ q.pc \in Waiting =>
        /\ status[q.doc] = "trashed"
        /\ q.pc \in {"readRoot", "hideRoot", "try", "reslug", "move"} =>
              q.to \in Docs /\ status[q.to] = "alive" /\ parent[q.to] = Root
        /\ q.pc \in {"root", "insert", "readRoot", "hideRoot", "try", "reslug"} =>
              q.old = parent[q.doc]
        /\ q.pc = "bring" =>
              parent[q.doc] \in Docs /\ status[parent[q.doc]] = "alive"

Knows(q) == OpOfPc(q) /\ KnowsParent(q) /\ KnowsTarget(q) /\ KnowsPlace(q)

SInv ==
    /\ OneRequest /\ TypeOK /\ ParentsExist
    /\ Acyclic /\ AliveUnderAlive
    /\ \A r \in Requests : Knows(reqs[r])

-----------------------------------------------------------------------------
(* Subtrees are closed and hang together *)

\* A row in the right state below a row of a subtree is in it.
LEMMA SubtreeIsClosed ==
    ASSUME NEW d, NEW st, NEW e \in Docs, status[e] = st,
           parent[e] \in Subtree(d, st)
    PROVE  e \in Subtree(d, st)
BY DEF Subtree, Closed

\* A row is in its own subtree.
LEMMA SubtreeHasRoot ==
    ASSUME NEW d \in Docs
    PROVE  d \in Subtree(d, status[d])
BY DEF Subtree

\* Every other row of a subtree hangs under a row of it.
LEMMA SubtreeHangs ==
    ASSUME NEW d, NEW st, NEW e \in Subtree(d, st), e # d
    PROVE  parent[e] \in Subtree(d, st)
<1> DEFINE X == {x \in Docs : status[x] = st}
           S == Subtree(d, st) \ {e}
<1> SUFFICES ASSUME parent[e] \notin Subtree(d, st) PROVE FALSE
  OBVIOUS
<1>1. S \in SUBSET Docs
  BY SubtreeHasState
<1>2. ASSUME NEW x \in X, parent[x] \in S PROVE x \in S
  BY <1>2, SubtreeIsClosed
<1>3. d \in Subtree(d, st)
  BY DEF Subtree
<1>4. S \in Closed(X)
  BY <1>1, <1>2 DEF Closed
<1> QED BY <1>3, <1>4 DEF Subtree

-----------------------------------------------------------------------------
(* What keeps the tree a forest *)

\* A new row has no rows below it.
LEMMA InsertKeepsForest ==
    ASSUME RowsTyped, ParentsExist, Acyclic,
           NEW d \in Docs, NEW p \in Docs \cup {Root}, NEW s \in Slugs, Inserts(d, p, s)
    PROVE  Acyclic'
<1>1. Rows' = Rows \cup {d} /\ d \notin Rows /\ p # d
  BY DocsAssumption DEF Inserts, Rows, RowsTyped, NoParent
<1>2. \A e \in Rows : parent'[e] = parent[e] /\ parent[e] # d
  BY <1>1, DocsAssumption DEF Inserts, RowsTyped, ParentsExist
<1>3. parent'[d] = p
  BY DEF Inserts, RowsTyped
<1>4. ASSUME NEW S \in SUBSET (Rows'), S # {}
      PROVE  \E e \in S : parent'[e] \notin S
  <2>1. CASE S \ {d} = {}
    BY <1>1, <1>3, <1>4, <2>1
  <2>2. CASE S \ {d} # {}
    <3>1. PICK e \in S \ {d} : parent[e] \notin S \ {d}
      BY <1>1, <2>2 DEF Acyclic, Forest
    <3> QED BY <1>1, <1>2, <3>1
  <2> QED BY <2>1, <2>2
<1> QED BY <1>4 DEF Acyclic, Forest

\* A document moved to the root level, or under an alive document at the root
\* level as a restore does, closes no cycle.
LEMMA MoveUpKeepsForest ==
    ASSUME RowsTyped, Acyclic, NEW d \in Rows, NEW p \in Docs \cup {Root}, p # d,
           p # Root => parent[p] = Root, parent' = [parent EXCEPT ![d] = p],
           UNCHANGED status
    PROVE  Acyclic'
<1>1. Rows' = Rows /\ parent'[d] = p /\ \A e \in Rows \ {d} : parent'[e] = parent[e]
  BY DEF Rows, RowsTyped
<1>2. ASSUME NEW S \in SUBSET Rows, S # {}, \A e \in S : parent'[e] \in S
      PROVE  FALSE
  <2>1. d \notin S
    BY <1>1, <1>2, DocsAssumption DEF Rows
  <2> QED BY <1>1, <1>2, <2>1 DEF Acyclic, Forest
<1> QED BY <1>1, <1>2 DEF Acyclic, Forest

\* Nor does one moved under an alive document outside its own subtree.
LEMMA MoveAsideKeepsForest ==
    ASSUME RowsTyped, Acyclic, AliveUnderAlive, NEW d \in Docs, NEW p \in Docs,
           status[d] = "alive", status[p] = "alive", p \notin Subtree(d, "alive"),
           parent' = [parent EXCEPT ![d] = p], UNCHANGED status
    PROVE  Acyclic'
<1> DEFINE Sub == Subtree(d, "alive")
<1>1. Rows' = Rows /\ parent'[d] = p /\ d \in Rows
      /\ \A e \in Rows \ {d} : parent'[e] = parent[e]
  BY DEF Rows, RowsTyped
<1>2. ASSUME NEW S \in SUBSET Rows, S # {}, \A e \in S : parent'[e] \in S
      PROVE  FALSE
  <2> DEFINE T == {e \in S : status[e] = "alive" /\ e \notin Sub}
  <2>1. d \in S
    BY <1>1, <1>2 DEF Acyclic, Forest
  <2>2. p \in T
    BY <1>1, <1>2, <2>1
  <2>3. ASSUME NEW e \in T PROVE parent[e] \in T
    <3>1. e # d /\ e \in Rows
      BY <2>3, SubtreeHasRoot
    <3>2. parent[e] \in S
      BY <1>1, <1>2, <3>1
    <3>3. parent[e] # Root /\ parent[e] \in Docs
      BY <3>2, DocsAssumption DEF Rows
    <3>4. status[parent[e]] = "alive"
      BY <2>3, <3>1, <3>3 DEF AliveUnderAlive, Rows
    <3>5. parent[e] \notin Sub
      BY <2>3, <3>1, SubtreeIsClosed DEF Rows
    <3> QED BY <3>2, <3>4, <3>5
  <2> QED BY <2>2, <2>3 DEF Acyclic, Forest
<1> QED BY <1>1, <1>2 DEF Acyclic, Forest

\* Rows that leave take no support from the others.
LEMMA FewerRowsKeepForest ==
    ASSUME Acyclic, Rows' \subseteq Rows, \A e \in Rows' : parent'[e] = parent[e]
    PROVE  Acyclic'
BY DEF Acyclic, Forest

-----------------------------------------------------------------------------
(* One request, step by step *)

\* A request that waits for nothing, and a sweep, know nothing.
LEMMA RestKnows ==
    /\ Knows(Idle)
    /\ \A q \in Request : \A answer \in Failures : Knows(Failed(q, answer))
<1>1. Knows(Idle)
  BY DEF Idle, Knows, OpOfPc, KnowsParent, KnowsTarget, KnowsPlace
<1>2. ASSUME NEW q \in Request, NEW answer \in Failures
      PROVE  Knows(Failed(q, answer))
  <2> DEFINE f == Failed(q, answer)
  <2>1. f.pc = answer
    BY IdleIsRequest DEF Failed, Request
  <2> HIDE DEF f
  <2>2. Knows(f)
    BY <2>1 DEF Knows, OpOfPc, KnowsParent, KnowsTarget, KnowsPlace, Failures, Waiting
  <2> QED BY <2>2 DEF f
<1> QED BY <1>1, <1>2

\* Ending a request, or going on with the next document of a sweep.
LEMMA EndedKnows ==
    ASSUME NEW q, Right(q), NEW rec, Knows(rec), NEW p \in Ended(q, rec)
    PROVE  Knows(p)
<1>1. CASE q.op = "sweep" /\ q.todo # {}
  <2>1. PICK d \in q.todo : p = [q EXCEPT !.doc = d, !.todo = q.todo \ {d},
                                         !.pc = "walkBin"]
    BY <1>1 DEF Ended
  <2>2. p.op = "sweep" /\ p.pc = "walkBin"
    BY <1>1, <2>1 DEF Right, Request
  <2> QED BY <2>2 DEF Knows, OpOfPc, KnowsParent, KnowsTarget, KnowsPlace
<1>2. CASE ~ (q.op = "sweep" /\ q.todo # {})
  BY <1>2 DEF Ended
<1> QED BY <1>1, <1>2

\* The tree facts are about the rows only.
TreeInv == Acyclic /\ AliveUnderAlive

\* They stay when the rows do.
LEMMA SameRowsSameTree ==
    ASSUME TreeInv, UNCHANGED <<status, parent>>
    PROVE  TreeInv'
BY DEF TreeInv, Acyclic, Forest, AliveUnderAlive, Rows

\* With one slot, what the next record knows is all there is to know.
LEMMA NextKnows ==
    ASSUME OneRequest, TypeOK, NEW r \in Requests, NEW rec,
           reqs' = [reqs EXCEPT ![r] = rec], Knows(rec)'
    PROVE  \A x \in Requests : Knows(reqs[x])'
<1>1. \A x \in Requests : reqs'[x] = rec
  BY DEF OneRequest, TypeOK
<1> QED BY <1>1 DEF Knows, OpOfPc, KnowsParent, KnowsTarget, KnowsPlace

\* Knows looks at the rows only, besides the record.
LEMMA SameRowsSameKnowledge ==
    ASSUME NEW rec, Knows(rec), UNCHANGED <<status, parent>>
    PROVE  Knows(rec)'
BY DEF Knows, OpOfPc, KnowsParent, KnowsTarget, KnowsPlace, Subtree, Closed

\* What a step has to keep.
Kept == TreeInv' /\ \A x \in Requests : Knows(reqs[x])'

\* An answer with an error.
LEMMA FailsKeeps ==
    ASSUME SInv, NEW r \in Requests, NEW answer \in Failures,
           Fails(r, answer)
    PROVE  Kept
<1>1. Right(reqs[r]) /\ TreeInv
  BY DEF SInv, TypeOK, Right, TreeInv
<1>2. PICK p \in Ended(reqs[r], Failed(reqs[r], answer)) : GoOn(r, p)
  BY DEF Fails
<1>3. Knows(Failed(reqs[r], answer))
  BY <1>1, RestKnows DEF Right
<1>4. Knows(p)
  BY <1>1, <1>2, <1>3, EndedKnows
<1>5. UNCHANGED <<status, parent>>
  BY DEF Fails, rows
<1>6. Knows(p)'
  BY <1>4, <1>5, SameRowsSameKnowledge
<1> QED BY <1>1, <1>2, <1>5, <1>6, NextKnows, SameRowsSameTree DEF Kept, SInv, GoOn

\* A step that leaves the rows alone and writes a record that knows enough.
LEMMA LookKeeps ==
    ASSUME SInv, NEW r \in Requests, NEW rec, Knows(rec),
           reqs' = [reqs EXCEPT ![r] = rec], UNCHANGED <<status, parent>>
    PROVE  Kept
<1>1. Knows(rec)'
  BY SameRowsSameKnowledge
<1>2. TreeInv
  BY DEF SInv, TreeInv
<1> QED BY <1>1, <1>2, NextKnows, SameRowsSameTree DEF Kept, SInv

\* The steps that begin a request check what they know.
LEMMA BeginKeeps ==
    ASSUME SInv, NEW r \in Requests,
           \/ BeginCreate(r) \/ BeginRename(r) \/ BeginSet(r) \/ BeginMove(r)
           \/ BeginTrash(r) \/ BeginRestore(r) \/ BeginPurge(r) \/ BeginSweep(r)
    PROVE  Kept
<1>0. ASSUME NEW rec, Knows(rec), Begin(r, rec) PROVE Kept
  BY <1>0, LookKeeps DEF Begin, rows
<1>1. CASE BeginCreate(r)
  <2>1. PICK p \in {Root} \cup {d \in Docs : status[d] = "alive"},
             b \in Bases, pc \in {"try", "insert"} :
           Begin(r, [Idle EXCEPT !.op = "create", !.pc = pc, !.to = p,
                                 !.name = Plain(b)])
    BY <1>1 DEF BeginCreate
  <2>2. Knows([Idle EXCEPT !.op = "create", !.pc = pc, !.to = p, !.name = Plain(b)])
    BY DEF Idle, Knows, OpOfPc, KnowsParent, KnowsTarget, KnowsPlace
  <2> QED BY <2>1, <2>2, <1>0
<1>2. CASE BeginRename(r)
  <2>1. PICK d \in Docs, b \in Bases :
           Begin(r, [Idle EXCEPT !.op = "rename", !.pc = "update", !.doc = d,
                                 !.name = Plain(b)])
    BY <1>2 DEF BeginRename
  <2>2. Knows([Idle EXCEPT !.op = "rename", !.pc = "update", !.doc = d,
                           !.name = Plain(b)])
    BY DEF Idle, Knows, OpOfPc, KnowsParent, KnowsTarget, KnowsPlace
  <2> QED BY <2>1, <2>2, <1>0
<1>3. CASE BeginSet(r)
  <2>1. PICK d \in Docs, v \in Visibilities :
           Begin(r, [Idle EXCEPT !.op = "set", !.pc = "update", !.doc = d, !.vis = v])
    BY <1>3 DEF BeginSet
  <2>2. Knows([Idle EXCEPT !.op = "set", !.pc = "update", !.doc = d, !.vis = v])
    BY DEF Idle, Knows, OpOfPc, KnowsParent, KnowsTarget, KnowsPlace
  <2> QED BY <2>1, <2>2, <1>0
<1>4. CASE BeginMove(r)
  <2>1. PICK d \in Docs, p \in Docs \cup {Root} :
           /\ status[d] = "alive"
           /\ Begin(r, [Idle EXCEPT !.op = "move", !.doc = d, !.to = p,
                                    !.pc = IF p = Root THEN "move" ELSE "target"])
    BY <1>4 DEF BeginMove
  <2>2. Knows([Idle EXCEPT !.op = "move", !.doc = d, !.to = p,
                           !.pc = IF p = Root THEN "move" ELSE "target"])
    BY <2>1 DEF Idle, Knows, OpOfPc, KnowsParent, KnowsTarget, KnowsPlace
  <2> QED BY <2>1, <2>2, <1>0
<1>5. CASE BeginTrash(r)
  <2>1. PICK d \in Docs :
           Begin(r, [Idle EXCEPT !.op = "trash", !.pc = "walk", !.doc = d])
    BY <1>5 DEF BeginTrash
  <2>2. Knows([Idle EXCEPT !.op = "trash", !.pc = "walk", !.doc = d])
    BY DEF Idle, Knows, OpOfPc, KnowsParent, KnowsTarget, KnowsPlace
  <2> QED BY <2>1, <2>2, <1>0
<1>6. CASE BeginRestore(r)
  <2>1. PICK d \in Docs :
           /\ status[d] = "trashed"
           /\ Begin(r, [Idle EXCEPT !.op = "restore", !.pc = "root", !.doc = d,
                                    !.name = slug[d], !.old = parent[d]])
    BY <1>6 DEF BeginRestore
  <2>2. Knows([Idle EXCEPT !.op = "restore", !.pc = "root", !.doc = d,
                           !.name = slug[d], !.old = parent[d]])
    BY <2>1 DEF Idle, Knows, OpOfPc, KnowsParent, KnowsTarget, KnowsPlace
  <2> QED BY <2>1, <2>2, <1>0
<1>7. CASE BeginPurge(r)
  <2>1. PICK d \in Docs :
           Begin(r, [Idle EXCEPT !.op = "purge", !.pc = "walkBin", !.doc = d])
    BY <1>7 DEF BeginPurge
  <2>2. Knows([Idle EXCEPT !.op = "purge", !.pc = "walkBin", !.doc = d])
    BY DEF Idle, Knows, OpOfPc, KnowsParent, KnowsTarget, KnowsPlace
  <2> QED BY <2>1, <2>2, <1>0
<1>8. CASE BeginSweep(r)
  <2>1. PICK due \in SUBSET Docs, d \in Docs :
           Begin(r, [Idle EXCEPT !.op = "sweep", !.pc = "walkBin", !.doc = d,
                                 !.todo = due \ {d}])
    BY <1>8 DEF BeginSweep
  <2>2. Knows([Idle EXCEPT !.op = "sweep", !.pc = "walkBin", !.doc = d,
                           !.todo = due \ {d}])
    BY DEF Idle, Knows, OpOfPc, KnowsParent, KnowsTarget, KnowsPlace
  <2> QED BY <2>1, <2>2, <1>0
<1> QED BY <1>1, <1>2, <1>3, <1>4, <1>5, <1>6, <1>7, <1>8

\* The steps that only read hand on what they know and what they read.
LEMMA ReadKeeps ==
    ASSUME SInv, NEW r \in Requests,
           \/ TrySlug(r) \/ ReadTarget(r) \/ Walk(r) \/ FindRoot(r)
           \/ ReadRoot(r) \/ WalkBin(r) \/ Stop(r)
    PROVE  Kept
<1> DEFINE q == reqs[r]
<1>f. ASSUME NEW answer \in Failures, Fails(r, answer) PROVE Kept
  BY <1>f, FailsKeeps
<1>g. ASSUME NEW rec, Knows(rec), GoOn(r, rec), UNCHANGED rows PROVE Kept
  BY <1>g, LookKeeps DEF GoOn, rows
<1>k. Knows(q) /\ q \in Request /\ Right(q)
  BY DEF SInv, TypeOK, Right
<1>1. CASE TrySlug(r)
  <2>p. q.pc = "try"
    BY <1>1 DEF TrySlug
  <2>1. ASSUME GoOn(r, [q EXCEPT !.n = @ + 1]), UNCHANGED rows PROVE Kept
    <3>1. Knows([q EXCEPT !.n = @ + 1])
      BY <1>k DEF Request, Knows, OpOfPc, KnowsParent, KnowsTarget, KnowsPlace
    <3> QED BY <2>1, <3>1, <1>g
  <2>2. ASSUME NEW s, GoOn(r, [q EXCEPT !.pc = "insert", !.name = s]),
               q.op = "create", UNCHANGED rows
        PROVE  Kept
    <3>1. Knows([q EXCEPT !.pc = "insert", !.name = s])
      BY <1>k, <2>p, <2>2 DEF Request, Knows, OpOfPc, KnowsParent, KnowsTarget, KnowsPlace
    <3> QED BY <2>2, <3>1, <1>g
  <2>3. ASSUME NEW s, UNCHANGED rows, q.op = "restore",
               GoOn(r, IF q.n = 1 THEN Place(q)
                       ELSE [q EXCEPT !.pc = "reslug", !.name = s])
        PROVE  Kept
    <3>0. /\ status[q.doc] = "trashed" /\ q.old = parent[q.doc]
          /\ q.to \in Docs /\ status[q.to] = "alive" /\ parent[q.to] = Root
      BY <1>k, <2>p, <2>3 DEF Knows, KnowsPlace, Waiting
    <3>1. Knows(Place(q))
      BY <1>k, <2>3, <3>0
      DEF Place, Request, Knows, OpOfPc, KnowsParent, KnowsTarget, KnowsPlace
    <3>2. Knows([q EXCEPT !.pc = "reslug", !.name = s])
      BY <1>k, <2>3, <3>0
      DEF Request, Knows, OpOfPc, KnowsParent, KnowsTarget, KnowsPlace
    <3>3. Knows(IF q.n = 1 THEN Place(q) ELSE [q EXCEPT !.pc = "reslug", !.name = s])
      BY <3>1, <3>2
    <3> QED BY <2>3, <3>3, <1>g
  <2> QED BY <1>1, <1>f, <2>1, <2>2, <2>3 DEF TrySlug, Failures
<1>2. CASE ReadTarget(r)
  <2>1. ASSUME q.pc = "target", status[q.to] = "alive",
               GoOn(r, [q EXCEPT !.pc = "walk"]), UNCHANGED rows
        PROVE  Kept
    <3>1. Knows([q EXCEPT !.pc = "walk"])
      BY <1>k, <2>1 DEF Request, Knows, OpOfPc, KnowsParent, KnowsTarget, KnowsPlace
    <3> QED BY <2>1, <3>1, <1>g
  <2> QED BY <1>2, <1>f, <2>1 DEF ReadTarget, Failures
<1>3. CASE Walk(r)
  <2>1. ASSUME q.pc = "walk", q.op = "move", ~ SelfChild(q),
               GoOn(r, [q EXCEPT !.pc = "move"]), UNCHANGED rows
        PROVE  Kept
    <3>1. Knows([q EXCEPT !.pc = "move"])
      BY <1>k, <2>1
      DEF SelfChild, Request, Knows, OpOfPc, KnowsParent, KnowsTarget, KnowsPlace
    <3> QED BY <2>1, <3>1, <1>g
  <2>2. ASSUME q.op = "trash", GoOn(r, [q EXCEPT !.pc = "softDelete"]), UNCHANGED rows
        PROVE  Kept
    <3>1. Knows([q EXCEPT !.pc = "softDelete"])
      BY <1>k, <2>2 DEF Request, Knows, OpOfPc, KnowsParent, KnowsTarget, KnowsPlace
    <3> QED BY <2>2, <3>1, <1>g
  <2> QED BY <1>3, <1>f, <2>1, <2>2 DEF Walk, Failures
<1>4. CASE FindRoot(r)
  <2>0. UNCHANGED rows /\ q.pc = "root"
    BY <1>4 DEF FindRoot
  <2>1. ASSUME NEW c \in Docs, status[c] = "alive", parent[c] = Root,
               GoOn(r, [q EXCEPT !.pc = "try", !.to = c])
        PROVE  Kept
    <3>1. Knows([q EXCEPT !.pc = "try", !.to = c])
      BY <1>k, <2>0, <2>1
      DEF Request, Knows, OpOfPc, KnowsParent, KnowsTarget, KnowsPlace, Waiting
    <3> QED BY <2>0, <2>1, <3>1, <1>g
  <2>2. ASSUME GoOn(r, [q EXCEPT !.pc = "insert"]) PROVE Kept
    <3>1. Knows([q EXCEPT !.pc = "insert"])
      BY <1>k, <2>0
      DEF Request, Knows, OpOfPc, KnowsParent, KnowsTarget, KnowsPlace, Waiting
    <3> QED BY <2>0, <2>2, <3>1, <1>g
  <2> QED BY <1>4, <2>1, <2>2 DEF FindRoot
<1>5. CASE ReadRoot(r)
  <2>1. ASSUME q.pc = "readRoot", GoOn(r, [q EXCEPT !.pc = "hideRoot"]), UNCHANGED rows
        PROVE  Kept
    <3>1. Knows([q EXCEPT !.pc = "hideRoot"])
      BY <1>k, <2>1
      DEF Request, Knows, OpOfPc, KnowsParent, KnowsTarget, KnowsPlace, Waiting
    <3> QED BY <2>1, <3>1, <1>g
  <2> QED BY <1>5, <1>f, <2>1 DEF ReadRoot, Failures
<1>6. CASE WalkBin(r)
  <2>1. ASSUME q.pc = "walkBin", GoOn(r, [q EXCEPT !.pc = "purge"]), UNCHANGED rows
        PROVE  Kept
    <3>1. Knows([q EXCEPT !.pc = "purge"])
      BY <1>k, <2>1
      DEF Request, Knows, OpOfPc, KnowsParent, KnowsTarget, KnowsPlace, Waiting
    <3> QED BY <2>1, <3>1, <1>g
  <2> QED BY <1>6, <1>f, <2>1 DEF WalkBin, Failures
<1>7. CASE Stop(r)
  BY <1>7, <1>g, RestKnows DEF Stop
<1> QED BY <1>1, <1>2, <1>3, <1>4, <1>5, <1>6, <1>7

\* The steps that write.
LEMMA InsertKeeps ==
    ASSUME SInv, NEW r \in Requests, Insert(r)
    PROVE  Kept
<1> DEFINE q == reqs[r]
           p == IF q.op = "create" THEN q.to ELSE Root
           s == IF q.op = "create" THEN q.name ELSE RestoredSlug
<1>0. RowsTyped /\ Knows(q) /\ q \in Request /\ q.pc = "insert"
  BY DEF SInv, TypeOK, RowsTyped, Insert
<1>1. CASE \E answer \in Failures : Fails(r, answer)
  BY <1>1, FailsKeeps
<1>2. ASSUME NEW d \in Docs, Inserts(d, p, s),
             GoOn(r, IF q.op = "create" THEN Idle
                     ELSE [q EXCEPT !.pc = "readRoot", !.to = d])
      PROVE  Kept
  <2>1. p \in Docs \cup {Root} /\ s \in Slugs
    BY <1>0, PlainIsSlug DEF Request
  <2>2. Acyclic'
    BY <1>0, <1>2, <2>1, InsertKeepsForest DEF SInv
  <2>3. p # Root => p \in Docs /\ status[p] = "alive"
    BY <1>0 DEF Knows, KnowsParent
  <2>4. /\ status[d] = "new" /\ status'[d] = "alive" /\ parent'[d] = p
        /\ \A e \in Docs \ {d} : status'[e] = status[e] /\ parent'[e] = parent[e]
    BY <1>0, <1>2 DEF Inserts, RowsTyped
  <2>5. AliveUnderAlive'
    BY <2>3, <2>4, <1>0 DEF SInv, AliveUnderAlive, RowsTyped
  <2>6. PICK rec : rec = IF q.op = "create" THEN Idle
                         ELSE [q EXCEPT !.pc = "readRoot", !.to = d]
    OBVIOUS
  <2>7. Knows(rec)'
    <3>1. CASE q.op = "create"
      BY <2>6, <3>1 DEF Idle, Knows, OpOfPc, KnowsParent, KnowsTarget, KnowsPlace
    <3>2. CASE q.op # "create"
      <4>1. /\ q.op = "restore" /\ status[q.doc] = "trashed"
            /\ q.old = parent[q.doc] /\ q.doc \in Docs
        BY <1>0, <3>2 DEF Knows, OpOfPc, KnowsPlace, Waiting, SInv, TypeOK
      <4>2. /\ status'[q.doc] = "trashed" /\ q.old = parent'[q.doc]
            /\ parent'[d] = Root
        BY <2>4, <4>1
      <4>3. /\ rec.pc = "readRoot" /\ rec.op = "restore" /\ rec.to = d
            /\ rec.doc = q.doc /\ rec.old = q.old
        BY <1>0, <2>6, <3>2, <4>1 DEF Request
      <4> QED BY <2>4, <4>2, <4>3 DEF Knows, OpOfPc, KnowsParent, KnowsTarget, KnowsPlace
    <3> QED BY <3>1, <3>2
  <2> QED BY <1>2, <2>2, <2>5, <2>6, <2>7, NextKnows DEF Kept, TreeInv, SInv, GoOn
<1> QED BY <1>1, <1>2 DEF Insert, Inserts, Failures

\* Slugs and visibilities do not matter to the tree.
LEMMA LabelKeeps ==
    ASSUME SInv, NEW r \in Requests,
           UpdateMeta(r) \/ HideRoot(r) \/ Reslug(r)
    PROVE  Kept
<1> DEFINE q == reqs[r]
<1>k. Knows(q) /\ q \in Request
  BY DEF SInv, TypeOK
<1>1. CASE \E answer \in Failures : Fails(r, answer)
  BY <1>1, FailsKeeps
<1>2. CASE UNCHANGED <<status, parent>> /\ GoOn(r, Idle)
  BY <1>2, RestKnows, LookKeeps DEF GoOn
<1>3. CASE /\ q.pc = "hideRoot" /\ UNCHANGED <<status, parent>>
           /\ GoOn(r, [q EXCEPT !.pc = "try"])
  <2>1. Knows([q EXCEPT !.pc = "try"])
    BY <1>k, <1>3
    DEF Request, Knows, OpOfPc, KnowsParent, KnowsTarget, KnowsPlace, Waiting
  <2> QED BY <1>3, <2>1, LookKeeps DEF GoOn
<1>4. CASE q.pc = "reslug" /\ UNCHANGED <<status, parent>> /\ GoOn(r, Place(q))
  <2>0. /\ q.op = "restore" /\ status[q.doc] = "trashed" /\ q.old = parent[q.doc]
        /\ q.to \in Docs /\ status[q.to] = "alive" /\ parent[q.to] = Root
    BY <1>k, <1>4 DEF Knows, OpOfPc, KnowsPlace, Waiting
  <2>1. Knows(Place(q))
    BY <1>k, <2>0 DEF Place, Request, Knows, OpOfPc, KnowsParent, KnowsTarget, KnowsPlace
  <2> QED BY <1>4, <2>1, LookKeeps DEF GoOn
<1> QED BY <1>1, <1>2, <1>3, <1>4 DEF UpdateMeta, HideRoot, Reslug, Failures

\* UPDATE parent_id, by a move and by a restore.
LEMMA MoveKeeps ==
    ASSUME SInv, NEW r \in Requests, Move(r)
    PROVE  Kept
<1> DEFINE q == reqs[r]
<1>0. RowsTyped /\ Knows(q) /\ q \in Request /\ q.pc = "move"
  BY DEF SInv, TypeOK, RowsTyped, Move
<1>1. CASE \E answer \in Failures : Fails(r, answer)
  BY <1>1, FailsKeeps
<1>2. ASSUME q.doc \in Rows, parent' = [parent EXCEPT ![q.doc] = q.to],
             UNCHANGED status,
             GoOn(r, IF q.op = "move" THEN Idle ELSE [q EXCEPT !.pc = "bring"])
      PROVE  Kept
  <2>0. /\ q.doc \in Docs /\ q.to \in Docs \cup {Root} /\ parent'[q.doc] = q.to
        /\ \A e \in Docs \ {q.doc} : parent'[e] = parent[e]
    BY <1>0, <1>2 DEF Rows, Request, RowsTyped
  <2>1. CASE q.op = "move"
    <3>1. /\ status[q.doc] = "alive"
          /\ q.to # Root => /\ q.to \in Docs /\ status[q.to] = "alive"
                            /\ q.to \notin Subtree(q.doc, "alive")
      BY <1>0, <2>1 DEF Knows, KnowsTarget
    <3>2. q.doc \in Rows /\ RowsTyped /\ Acyclic /\ AliveUnderAlive
      BY <1>0, <1>2 DEF SInv
    <3>3. Acyclic'
      <4>1. CASE q.to = Root
        <5>1. q.to # q.doc
          BY <2>0, <4>1, DocsAssumption
        <5> QED BY <1>2, <2>0, <3>2, <4>1, <5>1, MoveUpKeepsForest
      <4>2. CASE q.to # Root
        BY <1>2, <2>0, <3>1, <3>2, <4>2, MoveAsideKeepsForest
      <4> QED BY <4>1, <4>2
    <3>4. AliveUnderAlive'
      BY <1>0, <1>2, <2>0, <3>1 DEF SInv, AliveUnderAlive
    <3>5. Knows(Idle)'
      BY DEF Idle, Knows, OpOfPc, KnowsParent, KnowsTarget, KnowsPlace
    <3> QED BY <1>2, <2>1, <3>3, <3>4, <3>5, NextKnows DEF Kept, TreeInv, SInv, GoOn
  <2>2. CASE q.op # "move"
    <3>1. /\ q.op = "restore" /\ status[q.doc] = "trashed" /\ q.to \in Docs
          /\ status[q.to] = "alive" /\ parent[q.to] = Root
      BY <1>0, <2>2 DEF Knows, OpOfPc, KnowsPlace, Waiting
    <3>2. Acyclic'
      BY <1>0, <1>2, <2>0, <3>1, MoveUpKeepsForest DEF SInv
    <3>3. AliveUnderAlive'
      BY <1>0, <1>2, <2>0, <3>1 DEF SInv, AliveUnderAlive
    <3>4. PICK rec : rec = [q EXCEPT !.pc = "bring"]
      OBVIOUS
    <3>5. Knows(rec)'
      <4>1. rec.pc = "bring" /\ rec.op = "restore" /\ rec.doc = q.doc
        BY <1>0, <3>1, <3>4 DEF Request
      <4> QED BY <1>2, <2>0, <3>1, <4>1
              DEF Knows, OpOfPc, KnowsParent, KnowsTarget, KnowsPlace
    <3> QED BY <1>2, <2>2, <3>2, <3>3, <3>4, <3>5, NextKnows
            DEF Kept, TreeInv, SInv, GoOn
  <2> QED BY <2>1, <2>2
<1> QED BY <1>1, <1>2 DEF Move, Failures

\* Trashing takes everything alive below the document.
LEMMA SoftDeleteKeeps ==
    ASSUME SInv, NEW r \in Requests, SoftDelete(r)
    PROVE  Kept
<1> DEFINE S == Subtree(reqs[r].doc, "alive")
<1>0. RowsTyped /\ S \in SUBSET Docs /\ \A e \in S : status[e] = "alive"
  BY SubtreeHasState DEF SInv, TypeOK, RowsTyped
<1>1. /\ UNCHANGED parent /\ GoOn(r, Idle)
      /\ \A e \in Docs : status'[e] = IF e \in S THEN "trashed" ELSE status[e]
  BY DEF SoftDelete
<1>2. Acyclic'
  BY <1>0, <1>1, FewerRowsKeepForest DEF SInv, Rows
<1>3. AliveUnderAlive'
  <2>1. ASSUME NEW e \in Docs, status'[e] = "alive", parent'[e] # Root
        PROVE  status'[parent'[e]] = "alive"
    <3>1. e \notin S /\ status[e] = "alive"
      BY <1>1, <2>1
    <3>2. parent[e] \in Docs /\ status[parent[e]] = "alive"
      BY <1>0, <1>1, <2>1, <3>1 DEF SInv, AliveUnderAlive, RowsTyped
    <3>3. parent[e] \notin S
      BY <3>1, SubtreeIsClosed
    <3> QED BY <1>1, <3>2, <3>3
  <2> QED BY <2>1 DEF AliveUnderAlive
<1>4. Knows(Idle)'
  BY DEF Idle, Knows, OpOfPc, KnowsParent, KnowsTarget, KnowsPlace
<1> QED BY <1>1, <1>2, <1>3, <1>4, NextKnows DEF Kept, TreeInv, SInv, GoOn

\* What leaves the bin hangs under an alive container.
LEMMA BringKeeps ==
    ASSUME SInv, NEW r \in Requests, Bring(r)
    PROVE  Kept
<1> DEFINE q == reqs[r]
           S == Subtree(q.doc, "trashed")
<1>0. /\ RowsTyped /\ S \in SUBSET Docs /\ \A e \in S : status[e] = "trashed"
      /\ Knows(q) /\ q.pc = "bring"
  BY SubtreeHasState DEF SInv, TypeOK, RowsTyped, Bring
<1>1. CASE \E answer \in Failures : Fails(r, answer)
  BY <1>1, FailsKeeps
<1>2. ASSUME UNCHANGED parent, GoOn(r, Idle),
             status' = [e \in Docs |-> IF e \in S THEN "alive" ELSE status[e]]
      PROVE  Kept
  <2>1. Acyclic'
    BY <1>0, <1>2, FewerRowsKeepForest DEF SInv, Rows
  <2>2. parent[q.doc] \in Docs /\ status[parent[q.doc]] = "alive"
    BY <1>0 DEF Knows, OpOfPc, KnowsPlace, Waiting
  <2>3. AliveUnderAlive'
    <3>1. ASSUME NEW e \in Docs, status'[e] = "alive", parent'[e] # Root
          PROVE  status'[parent'[e]] = "alive"
      <4>1. CASE e = q.doc
        BY <1>2, <2>2, <4>1
      <4>2. CASE e \in S /\ e # q.doc
        BY <1>0, <1>2, <4>2, SubtreeHangs
      <4>3. CASE e \notin S
        BY <1>0, <1>2, <3>1, <4>3 DEF SInv, AliveUnderAlive, RowsTyped
      <4> QED BY <4>1, <4>2, <4>3
    <3> QED BY <3>1 DEF AliveUnderAlive
  <2>4. Knows(Idle)'
    BY DEF Idle, Knows, OpOfPc, KnowsParent, KnowsTarget, KnowsPlace
  <2> QED BY <1>2, <2>1, <2>3, <2>4, NextKnows DEF Kept, TreeInv, SInv, GoOn
<1> QED BY <1>1, <1>2 DEF Bring, Failures

\* A purge takes trashed rows only.
LEMMA PurgeKeeps ==
    ASSUME SInv, NEW r \in Requests, Purge(r)
    PROVE  Kept
<1> DEFINE q == reqs[r]
           S == Subtree(q.doc, "trashed")
<1>0. /\ RowsTyped /\ S \in SUBSET Docs /\ \A e \in S : status[e] = "trashed"
      /\ Right(q)
  BY SubtreeHasState DEF SInv, TypeOK, RowsTyped, Right
<1>1. CASE \E answer \in Failures : Fails(r, answer)
  BY <1>1, FailsKeeps
<1>2. ASSUME NEW p \in Ended(q, Idle), GoOn(r, p),
             status' = [e \in Docs |-> IF e \in S THEN "gone" ELSE status[e]],
             parent' = [e \in Docs |-> IF e \in S THEN Root ELSE parent[e]]
      PROVE  Kept
  <2>1. Acyclic'
    BY <1>0, <1>2, FewerRowsKeepForest DEF SInv, Rows
  <2>2. AliveUnderAlive'
    <3>1. ASSUME NEW e \in Docs, status'[e] = "alive", parent'[e] # Root
          PROVE  status'[parent'[e]] = "alive"
      <4>1. status[e] = "alive" /\ parent'[e] = parent[e]
        BY <1>0, <1>2, <3>1
      <4>2. parent[e] \in Docs /\ status[parent[e]] = "alive"
        BY <1>0, <3>1, <4>1 DEF SInv, AliveUnderAlive, RowsTyped
      <4> QED BY <1>0, <1>2, <4>1, <4>2
    <3> QED BY <3>1 DEF AliveUnderAlive
  <2>3. (p.op = "sweep" /\ p.pc = "walkBin") \/ p = Idle
    <3>1. CASE q.op = "sweep" /\ q.todo # {}
      <4>1. PICK d \in q.todo : p = [q EXCEPT !.doc = d, !.todo = q.todo \ {d},
                                             !.pc = "walkBin"]
        BY <1>2, <3>1 DEF Ended
      <4> QED BY <1>0, <3>1, <4>1 DEF Right, Request
    <3>2. CASE ~ (q.op = "sweep" /\ q.todo # {})
      BY <1>2, <3>2 DEF Ended
    <3> QED BY <3>1, <3>2
  <2>4. Knows(p)'
    BY <2>3 DEF Idle, Knows, OpOfPc, KnowsParent, KnowsTarget, KnowsPlace
  <2> QED BY <1>2, <2>1, <2>2, <2>4, NextKnows DEF Kept, TreeInv, SInv, GoOn
<1> QED BY <1>1, <1>2 DEF Purge, Failures

-----------------------------------------------------------------------------
\* A first state, with one slot.
LEMMA InitTree == OneRequest /\ Init => SInv
<1> SUFFICES ASSUME OneRequest, Init PROVE SInv
  OBVIOUS
<1>1. TypeOK /\ ParentsExist
  BY TypeCorrect, PlainIsSlug, IdleIsRequest
  DEF Init, TypeOK, Idle, Waiting, ParentsExist, Rows
<1>2. Acyclic
  BY DEF Init, Acyclic, Forest, Rows
<1>3. AliveUnderAlive
  BY DEF Init, AliveUnderAlive
<1>4. \A r \in Requests : Knows(reqs[r])
  BY RestKnows DEF Init
<1> QED BY <1>1, <1>2, <1>3, <1>4 DEF SInv

\* SInv is inductive as long as requests do not overlap.
THEOREM SequentialInvariant == OneRequest /\ Spec => []SInv
<1>1. SInv /\ TypeOK' /\ ParentsExist' /\ [Next]_vars => SInv'
  <2> SUFFICES ASSUME SInv, TypeOK' /\ ParentsExist', [Next]_vars
               PROVE  SInv'
    OBVIOUS
  <2>1. Kept
    <3>1. CASE UNCHANGED vars
      <4>1. \A r \in Requests : Knows(reqs[r])'
        BY <3>1
        DEF SInv, vars, Knows, OpOfPc, KnowsParent, KnowsTarget, KnowsPlace,
            Subtree, Closed
      <4> QED BY <3>1, <4>1, SameRowsSameTree DEF Kept, SInv, TreeInv, vars
    <3>2. CASE Next
      BY <3>2, BeginKeeps, ReadKeeps, InsertKeeps, LabelKeeps, MoveKeeps,
         SoftDeleteKeeps, BringKeeps, PurgeKeeps DEF Next, Step
    <3> QED BY <3>1, <3>2
  <2>2. OneRequest'
    BY DEF SInv, OneRequest
  <2> QED BY <2>1, <2>2 DEF Kept, TreeInv, SInv
<1> QED BY <1>1, InitTree, TypeCorrect, ParentsStay, PTL DEF Spec

\* Acyclic: MoveDocument alone never ties the tree into a cycle; service.go:299.
THEOREM SequentialForest == OneRequest /\ Spec => []Acyclic
BY SequentialInvariant, PTL DEF SInv

\* AliveUnderAlive: one request at a time never leaves an alive document under a
\* trashed or deleted one; service.go:166.
THEOREM SequentialLife == OneRequest /\ Spec => []AliveUnderAlive
BY SequentialInvariant, PTL DEF SInv
=============================================================================
