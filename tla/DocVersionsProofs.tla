------------------------- MODULE DocVersionsProofs -------------------------
(***************************************************************************)
(* Proofs about DocVersions.  First what MaxNo and Trim return, and type   *)
(* correctness; nothing is assumed of the limits on versions here.         *)
(***************************************************************************)
EXTENDS DocVersions, FiniteSetTheorems, TLAPS

Rows(d) == DOMAIN history[d]
Top(d) == MaxNo(Rows(d))

\* A history is empty or has a newest row.
HasTop(h) ==
    DOMAIN h = {} \/ \E k \in DOMAIN h : \A m \in DOMAIN h : m <= k

HistoriesHaveTop == \A d \in Docs : HasTop(history[d])

\* What a request carries in each of its states.
Carries(q) ==
    /\ q.pc \in Waiting => q.doc \in Docs
    /\ q.pc \in {"check", "submit", "put", "number", "reparent", "append"}
          => q.text \in Contents
    /\ q.pc \in {"put", "number", "reparent", "append"} => q.kind \in Kinds
    /\ q.pc = "loadCommit" => q.kind \in {"read", "revert"}
    /\ q.pc = "loadBlob" => q.kind \in {"read", "revert"} /\ q.text \in Contents
    /\ q.pc = "check" => q.kind = "approve" /\ q.user \in Users
    /\ q.pc = "submit" => q.kind = "commit" /\ q.user \in Users
    /\ q.pc = "finish" => q.kind \in {"approve", "reject"}
    /\ q.pc \in {"reparent", "append"} => q.no >= 1

RequestsCarry == \A r \in Requests : Carries(reqs[r])

-----------------------------------------------------------------------------
(* The highest number of a history *)

\* A greatest element is what MaxNo returns.
LEMMA MaxNoIs ==
  ASSUME NEW S \in SUBSET Nat, NEW k \in S, \A m \in S : m <= k
  PROVE  MaxNo(S) = k
<1>1. \A c \in S : (\A m \in S : m <= c) => c = k
  OBVIOUS
<1>2. QED
  BY <1>1 DEF MaxNo

LEMMA MaxNoEmpty == MaxNo({}) = 0
  BY DEF MaxNo

\* An append keeps a greatest row: trimming never drops it.
LEMMA AppendHasTop ==
  ASSUME NEW h, DOMAIN h \in SUBSET Nat, HasTop(h), NEW n \in Nat, NEW row,
         NEW limit \in Nat \ {0}
  PROVE  HasTop(Trim(Insert(h, n, row), limit))
<1> DEFINE g == Insert(h, n, row)
           above(k) == {m \in DOMAIN g : m > k}
<1>1. DOMAIN g = DOMAIN h \cup {n}
  BY DEF Insert
<1>2. PICK k \in DOMAIN g : \A m \in DOMAIN g : m <= k
  <2>1. CASE DOMAIN h = {}
    BY <2>1, <1>1
  <2>2. CASE \E k \in DOMAIN h : \A m \in DOMAIN h : m <= k
    <3>1. PICK k \in DOMAIN h : \A m \in DOMAIN h : m <= k
      BY <2>2
    <3>2. CASE n <= k
      BY <3>1, <3>2, <1>1
    <3>3. CASE k < n
      BY <3>1, <3>3, <1>1
    <3>4. QED
      BY <3>2, <3>3
  <2>3. QED
    BY <2>1, <2>2 DEF HasTop
<1>3. above(k) = {}
  BY <1>1, <1>2
<1>4. Cardinality(above(k)) < limit
  BY <1>3, FS_EmptySet
<1>5. k \in DOMAIN Trim(g, limit)
  BY <1>2, <1>4 DEF Trim
<1>6. DOMAIN Trim(g, limit) \subseteq DOMAIN g
  BY DEF Trim
<1>7. QED
  BY <1>2, <1>5, <1>6 DEF HasTop

-----------------------------------------------------------------------------
(* Types *)

TInv == TypeOK /\ RequestsCarry /\ HistoriesHaveTop

\* MAX(commit_no) of a typed history is a number.
LEMMA TopIsNat ==
  ASSUME TInv, NEW d \in Docs
  PROVE  Top(d) \in Nat
<1>1. CASE Rows(d) = {}
  BY <1>1, MaxNoEmpty DEF Top
<1>2. CASE \E k \in Rows(d) : \A m \in Rows(d) : m <= k
  <2>1. Rows(d) \in SUBSET Nat
    BY DEF TInv, TypeOK, Rows
  <2>2. QED
    BY <1>2, <2>1, MaxNoIs DEF Top
<1>3. QED
  BY <1>1, <1>2 DEF TInv, HistoriesHaveTop, HasTop, Rows

LEMMA IdleTyped == Idle \in Request /\ Carries(Idle)
  BY DEF Idle, Request, Carries, Waiting

LEMMA FailedTyped ==
  ASSUME NEW q \in Request, NEW answer \in Failures
  PROVE  Failed(q, answer) \in Request /\ Carries(Failed(q, answer))
  BY DEF Failed, Idle, Request, Carries, Waiting, Failures

\* A step that only moves a request on.
LEMMA GoOnTyped ==
  ASSUME TInv, NEW r \in Requests, NEW rec \in Request, Carries(rec),
         GoOn(r, rec)
  PROVE  reqs' \in [Requests -> Request] /\ RequestsCarry'
  BY DEF TInv, TypeOK, RequestsCarry, GoOn, HistoriesHaveTop

LEMMA DatabaseTyped ==
  ASSUME TInv, UNCHANGED Database, reqs' \in [Requests -> Request], RequestsCarry'
  PROVE  TInv'
  BY DEF TInv, TypeOK, Database, HistoriesHaveTop

\* A revert or a read that has its document and its version.
LEMMA LoadTyped ==
  ASSUME NEW kind \in {"read", "revert"}, NEW d \in Docs, NEW c \in Nat
  PROVE  LET rec == [Idle EXCEPT !.pc = "loadCommit", !.kind = kind,
                                 !.doc = d, !.ref = c]
         IN  rec \in Request /\ Carries(rec)
  BY DEF Idle, Request, Carries, Waiting, Kinds

\* What Commit and an approval do with a request after the check of the base.
LEMMA CheckedTyped ==
  ASSUME NEW q \in Request, q.doc \in Docs, q.text \in Contents,
         q.user \in Users, q.kind \in {"commit", "approve"},
         NEW p \in Checked(q)
  PROVE  p \in Request /\ Carries(p)
<1>1. CASE p \in Routed(q)
  <2>1. CASE p = [q EXCEPT !.pc = "put",
                           !.user = IF q.kind = "approve" THEN @ ELSE NoUser]
    BY <2>1 DEF Request, Carries, Kinds, Waiting
  <2>2. CASE q.kind = "commit" /\ p = [q EXCEPT !.pc = "submit"]
    BY <2>2 DEF Request, Carries, Kinds, Waiting
  <2>3. QED
    BY <1>1, <2>1, <2>2 DEF Routed
<1>2. CASE p \in {Failed(q, "missing"), Failed(q, "conflict")}
  BY <1>2, FailedTyped DEF Failures
<1>3. QED
  BY <1>1, <1>2 DEF Checked

LEMMA InitTyped == Init => TInv
<1> SUFFICES ASSUME Init PROVE TInv
  OBVIOUS
<1>1. reqs \in [Requests -> Request] /\ RequestsCarry
  BY IdleTyped DEF Init, RequestsCarry
<1>2. QED
  BY <1>1 DEF Init, TInv, TypeOK, NoHistory, HistoriesHaveTop, HasTop

\* Steps of a request that leave the database alone.
LEMMA LocalStepTyped ==
  ASSUME TInv, NEW r \in Requests,
         \/ BeginCommit(r) \/ CheckBase(r) \/ TakeNumber(r) \/ ReadFreshHead(r)
         \/ AppendFails(r) \/ BeginReview(r) \/ BeginRevert(r) \/ BeginRead(r)
         \/ LoadCommit(r) \/ LoadBlob(r) \/ Stop(r)
  PROVE  TInv'
<1> DEFINE q == reqs[r]
<1>q. q \in Request /\ Carries(q) /\ Idle \in Request
  BY IdleTyped DEF TInv, TypeOK, RequestsCarry
<1>d. UNCHANGED Database
  BY DEF BeginCommit, CheckBase, TakeNumber, ReadFreshHead, AppendFails,
         BeginReview, BeginRevert, BeginRead, LoadCommit, LoadBlob, Stop
<1> SUFFICES \E rec \in Request : Carries(rec) /\ GoOn(r, rec)
  BY <1>d, GoOnTyped, DatabaseTyped
<1>1. CASE BeginCommit(r)
  <2>1. PICK u \in Users, d \in Docs, base \in 0..(nextId - 1), t \in Contents :
          \E p \in Checked([Idle EXCEPT !.kind = "commit", !.user = u, !.doc = d,
                                        !.ref = base, !.text = t]) : GoOn(r, p)
    BY <1>1 DEF BeginCommit
  <2> DEFINE c == [Idle EXCEPT !.kind = "commit", !.user = u, !.doc = d,
                               !.ref = base, !.text = t]
  <2>2. c \in Request /\ c.doc \in Docs /\ c.text \in Contents /\ c.user \in Users
        /\ c.kind \in {"commit", "approve"}
    <3>1. base \in Nat
      BY DEF TInv, TypeOK
    <3>2. QED
      BY <3>1 DEF Idle, Request, Kinds
  <2>3. PICK p \in Checked(c) : GoOn(r, p)
    BY <2>1
  <2>4. p \in Request /\ Carries(p)
    BY <2>2, <2>3, CheckedTyped
  <2>5. QED
    BY <2>3, <2>4
<1>2. CASE CheckBase(r)
  <2>1. PICK p \in Checked(q) : GoOn(r, p)
    BY <1>2 DEF CheckBase
  <2>2. q.doc \in Docs /\ q.text \in Contents /\ q.kind = "approve" /\ q.user \in Users
    BY <1>q, <1>2 DEF CheckBase, Carries, Waiting
  <2>3. p \in Request /\ Carries(p)
    BY <1>q, <2>1, <2>2, CheckedTyped
  <2>4. QED
    BY <2>1, <2>3
<1>3. CASE TakeNumber(r)
  <2> DEFINE n == MaxNo(DOMAIN history[q.doc]) + 1
  <2>1. GoOn(r, [q EXCEPT !.no = n, !.overtaken = 0, !.limits = {},
                    !.parent = IF n > 1 THEN q.ref ELSE 0,
                    !.pc = IF q.kind = "revert" /\ n > 1
                           THEN "reparent" ELSE "append"])
    BY <1>3 DEF TakeNumber
  <2>2. n \in Nat /\ n >= 1
    BY <1>q, <1>3, TopIsNat DEF TakeNumber, Carries, Waiting, Top, Rows, TInv
  <2>3. q.pc = "number"
    BY <1>3 DEF TakeNumber
  <2> HIDE DEF n
  <2>4. QED
    BY <1>q, <2>1, <2>2, <2>3 DEF Request, Carries, Waiting, Kinds
<1>4. CASE ReadFreshHead(r)
  <2>1. q.pc = "reparent" /\ q.doc \in Docs
    BY <1>4, <1>q DEF ReadFreshHead, Carries, Waiting
  <2>2. CASE GoOn(r, Failed(q, "missing"))
    BY <1>q, <2>2, FailedTyped DEF Failures
  <2>3. CASE GoOn(r, [q EXCEPT !.pc = "append", !.parent = head[q.doc]])
    <3>1. head[q.doc] \in Nat
      BY <2>1 DEF TInv, TypeOK
    <3>2. QED
      BY <1>q, <2>1, <2>3, <3>1 DEF Request, Carries, Waiting
  <2>4. QED
    BY <1>4, <2>2, <2>3 DEF ReadFreshHead
<1>5. CASE AppendFails(r)
  BY <1>5, <1>q, FailedTyped DEF AppendFails, Failures
<1>6. CASE BeginReview(r)
  <2>1. PICK s \in subs, u \in Reviewers, action \in {"approve", "reject"} :
          GoOn(r, [Idle EXCEPT !.kind = action, !.user = u, !.doc = s.doc,
                          !.ref = s.base, !.text = s.text, !.sub = s.id,
                          !.pc = IF action = "approve" THEN "check" ELSE "finish"])
    BY <1>6 DEF BeginReview
  <2>2. s \in Submission /\ u \in Users
    BY ReviewersAssumption DEF TInv, TypeOK
  <2>3. QED
    BY <1>q, <2>1, <2>2 DEF Idle, Request, Carries, Waiting, Kinds, Submission
<1>7. CASE BeginRevert(r)
  <2>1. PICK d \in Docs, c \in 1..(nextId - 1) :
          GoOn(r, [Idle EXCEPT !.pc = "loadCommit", !.kind = "revert",
                               !.doc = d, !.ref = c])
    BY <1>7 DEF BeginRevert
  <2>2. c \in Nat
    BY DEF TInv, TypeOK
  <2>3. QED
    BY <2>1, <2>2, LoadTyped
<1>8. CASE BeginRead(r)
  <2>1. PICK d \in Docs :
          GoOn(r, [Idle EXCEPT !.pc = "loadCommit", !.kind = "read",
                               !.doc = d, !.ref = head[d]])
    BY <1>8 DEF BeginRead
  <2>2. head[d] \in Nat
    BY DEF TInv, TypeOK
  <2>3. QED
    BY <2>1, <2>2, LoadTyped
<1>9. CASE LoadCommit(r)
  <2>1. q.pc = "loadCommit" /\ q.doc \in Docs /\ q.kind \in {"read", "revert"}
    BY <1>9, <1>q DEF LoadCommit, Carries, Waiting
  <2>2. CASE \E n \in DOMAIN history[q.doc] :
               GoOn(r, [q EXCEPT !.pc = "loadBlob", !.text = history[q.doc][n].text])
    <3>1. PICK n \in DOMAIN history[q.doc] :
               GoOn(r, [q EXCEPT !.pc = "loadBlob", !.text = history[q.doc][n].text])
      BY <2>2
    <3>2. history[q.doc][n].text \in Contents
      BY <2>1 DEF TInv, TypeOK, Commit
    <3>3. QED
      BY <1>q, <2>1, <3>1, <3>2 DEF Request, Carries, Waiting, Kinds
  <2>3. CASE GoOn(r, Failed(q, "missing"))
    BY <1>q, <2>3, FailedTyped DEF Failures
  <2>4. QED
    BY <1>9, <2>2, <2>3 DEF LoadCommit
<1>10. CASE LoadBlob(r)
  <2>1. q.pc = "loadBlob"
    BY <1>10 DEF LoadBlob
  <2>2. CASE GoOn(r, Failed(q, "missing"))
    BY <1>q, <2>2, FailedTyped DEF Failures
  <2>3. CASE GoOn(r, Succeeded)
    BY <1>q, <2>3, IdleTyped DEF Succeeded
  <2>4. CASE q.kind # "read" /\ GoOn(r, [q EXCEPT !.pc = "put", !.overtaken = 0, !.limits = {}])
    BY <1>q, <2>1, <2>4 DEF Request, Carries, Waiting, Kinds
  <2>5. QED
    BY <1>10, <2>2, <2>3, <2>4 DEF LoadBlob
<1>11. CASE Stop(r)
  BY <1>11, IdleTyped DEF Stop
<1>12. QED
  BY <1>1, <1>2, <1>3, <1>4, <1>5, <1>6, <1>7, <1>8, <1>9, <1>10, <1>11

LEMMA SubmitTyped ==
  ASSUME TInv, NEW r \in Requests, SubmitForReview(r)
  PROVE  TInv'
<1> DEFINE q == reqs[r]
<1>1. q \in Request /\ Carries(q) /\ q.pc = "submit"
  BY DEF SubmitForReview, TInv, TypeOK, RequestsCarry
<1>2. q.doc \in Docs /\ q.text \in Contents /\ q.user \in Users /\ q.ref \in Nat
  BY <1>1 DEF Carries, Waiting, Request
<1>3. reqs' \in [Requests -> Request] /\ RequestsCarry'
  <2>1. \E rec \in Request : Carries(rec) /\ GoOn(r, rec)
    BY <1>1, FailedTyped, IdleTyped DEF SubmitForReview, Failures, Succeeded
  <2>2. QED
    BY <2>1, GoOnTyped
<1>4. nextSub' \in Nat \ {0}
  BY DEF SubmitForReview, TInv, TypeOK
<1>5. subs' \subseteq Submission
  BY <1>2 DEF SubmitForReview, TInv, TypeOK, Submission
<1>6. UNCHANGED <<docs, head, history, blobs, nextId, published>>
  BY DEF SubmitForReview
<1>7. QED
  BY <1>3, <1>4, <1>5, <1>6 DEF TInv, TypeOK, HistoriesHaveTop

LEMMA PutBlobTyped ==
  ASSUME TInv, NEW r \in Requests, PutBlob(r)
  PROVE  TInv'
<1> DEFINE q == reqs[r]
           p == [q EXCEPT !.pc = "number"]
<1>1. q \in Request /\ Carries(q) /\ q.pc = "put" /\ GoOn(r, p)
  BY DEF PutBlob, TInv, TypeOK, RequestsCarry
<1>2. p \in Request /\ Carries(p) /\ q.text \in Contents
  BY <1>1 DEF Carries, Waiting, Request
<1>3. reqs' \in [Requests -> Request] /\ RequestsCarry'
  BY <1>1, <1>2, GoOnTyped
<1>4. blobs' \subseteq Contents
  BY <1>2 DEF PutBlob, TInv, TypeOK
<1>5. UNCHANGED <<docs, head, history, subs, nextId, nextSub, published>>
  BY DEF PutBlob
<1>6. QED
  BY <1>3, <1>4, <1>5 DEF TInv, TypeOK, HistoriesHaveTop

LEMMA FinishTyped ==
  ASSUME TInv, NEW r \in Requests, FinishReview(r)
  PROVE  TInv'
<1> DEFINE q == reqs[r]
<1>1. q \in Request
  BY DEF TInv, TypeOK
<1>2. \E rec \in Request : Carries(rec) /\ GoOn(r, rec)
  BY <1>1, FailedTyped, IdleTyped DEF FinishReview, Failures, Succeeded
<1>3. reqs' \in [Requests -> Request] /\ RequestsCarry'
  BY <1>2, GoOnTyped
<1>4. subs' \subseteq Submission
  BY DEF FinishReview, PendingSubmission, TInv, TypeOK, Submission
<1>5. UNCHANGED <<docs, head, history, blobs, nextId, nextSub, published>>
  BY DEF FinishReview
<1>6. QED
  BY <1>3, <1>4, <1>5 DEF TInv, TypeOK, HistoriesHaveTop

\* What AppendCommit puts into a history, for some limit.
Appended(d, q, limit) ==
    Trim(Insert(history[d], q.no,
           [id |-> nextId, parent |-> q.parent, text |-> q.text, via |-> q.kind]),
         limit)

LEMMA AppendTyped ==
  ASSUME TInv, NEW r \in Requests, AppendCommit(r)
  PROVE  TInv'
<1> DEFINE q == reqs[r]
           d == q.doc
           row == [id |-> nextId, parent |-> q.parent, text |-> q.text, via |-> q.kind]
<1>1. q \in Request /\ Carries(q) /\ q.pc = "append"
  BY DEF AppendCommit, TInv, TypeOK, RequestsCarry
<1>2. d \in Docs /\ q.kind \in Kinds /\ q.text \in Contents
      /\ q.no \in Nat \ {0} /\ q.parent \in Nat /\ q.sub \in Nat
  BY <1>1 DEF Carries, Waiting, Request
<1>3. PICK limit \in VersionLimits :
        /\ history' = [history EXCEPT ![d] = Appended(d, q, limit)]
        /\ reqs' = [p \in Requests |->
                      IF p = r THEN AfterAppend(r)
                      ELSE IF p \in Holding(d) THEN Overtaken(reqs[p], limit)
                      ELSE reqs[p]]
  BY DEF AppendCommit, Appended
<1>4. limit \in Nat \ {0}
  BY LimitsAssumption
<1>5. row \in Commit
  BY <1>2 DEF Commit, TInv, TypeOK
<1> DEFINE h == Appended(d, q, limit)
<1>6. /\ DOMAIN h \subseteq Nat \ {0}
      /\ h = [n \in DOMAIN h |-> h[n]]
      /\ \A n \in DOMAIN h : h[n] \in Commit
  <2>1. /\ DOMAIN history[d] \subseteq Nat \ {0}
        /\ \A n \in DOMAIN history[d] : history[d][n] \in Commit
    BY <1>2 DEF TInv, TypeOK
  <2>2. QED
    BY <1>2, <1>5, <2>1 DEF Appended, Trim, Insert
<1>7. HasTop(h)
  <2>1. DOMAIN history[d] \in SUBSET Nat /\ HasTop(history[d])
    BY <1>2 DEF TInv, TypeOK, HistoriesHaveTop
  <2>2. QED
    BY <2>1, <1>2, <1>4, AppendHasTop DEF Appended
<1>8. /\ DOMAIN history' = Docs
      /\ \A e \in Docs : history'[e] = IF e = d THEN h ELSE history[e]
  BY <1>2, <1>3 DEF TInv, TypeOK
<1> HIDE DEF h
<1>9. \A e \in Docs :
        /\ DOMAIN history'[e] \subseteq Nat \ {0}
        /\ history'[e] = [n \in DOMAIN history'[e] |-> history'[e][n]]
        /\ \A n \in DOMAIN history'[e] : history'[e][n] \in Commit
        /\ HasTop(history'[e])
  BY <1>6, <1>7, <1>8 DEF TInv, TypeOK, HistoriesHaveTop
<1>10. \A p \in Requests : reqs'[p] \in Request /\ Carries(reqs'[p])
  <2> SUFFICES ASSUME NEW p \in Requests
               PROVE  reqs'[p] \in Request /\ Carries(reqs'[p])
    OBVIOUS
  <2>1. reqs[p] \in Request /\ Carries(reqs[p])
    BY DEF TInv, TypeOK, RequestsCarry
  <2>2. CASE reqs'[p] = AfterAppend(r)
    BY <1>1, <2>2, IdleTyped DEF AfterAppend, Succeeded, Request, Carries, Waiting
  <2>3. CASE reqs'[p] = Overtaken(reqs[p], limit)
    <3>1. Overtaken(reqs[p], limit) \in Request
      <4>1. /\ reqs[p].overtaken + 1 \in Nat
            /\ reqs[p].limits \cup {limit} \in SUBSET VersionLimits
        BY <2>1 DEF Request
      <4>2. QED
        BY <2>1, <4>1 DEF Request, Overtaken
    <3>2. Carries(Overtaken(reqs[p], limit))
      BY <2>1 DEF Request, Carries, Overtaken
    <3>3. QED
      BY <2>3, <3>1, <3>2
  <2>4. CASE reqs'[p] = reqs[p]
    BY <2>1, <2>4
  <2>5. QED
    BY <1>3, <2>2, <2>3, <2>4
<1>11. reqs' \in [Requests -> Request] /\ RequestsCarry'
  BY <1>3, <1>10 DEF RequestsCarry
<1>12. /\ head' \in [Docs -> Nat]
       /\ nextId' \in Nat \ {0}
       /\ published' \subseteq Nat
  BY <1>2 DEF AppendCommit, TInv, TypeOK
<1>13. UNCHANGED <<docs, blobs, subs, nextSub>>
  BY DEF AppendCommit
<1>14. QED
  BY <1>8, <1>9, <1>11, <1>12, <1>13 DEF TInv, TypeOK, HistoriesHaveTop

LEMMA BinTyped ==
  ASSUME TInv, NEW d \in Docs, SoftDelete(d) \/ Restore(d) \/ Purge(d)
  PROVE  TInv'
<1>1. CASE SoftDelete(d)
  BY <1>1 DEF SoftDelete, TInv, TypeOK, RequestsCarry, HistoriesHaveTop
<1>2. CASE Restore(d)
  BY <1>2 DEF Restore, TInv, TypeOK, RequestsCarry, HistoriesHaveTop
<1>3. CASE Purge(d)
  <2>1. DOMAIN NoHistory = {} /\ NoHistory = [n \in DOMAIN NoHistory |-> NoHistory[n]]
    BY DEF NoHistory
  <2>2. \A e \in Docs : history'[e] = IF e = d THEN NoHistory ELSE history[e]
    BY <1>3 DEF Purge, TInv, TypeOK
  <2>3. DOMAIN history' = Docs
    BY <1>3 DEF Purge, TInv, TypeOK
  <2>4. \A e \in Docs :
          /\ DOMAIN history'[e] \subseteq Nat \ {0}
          /\ history'[e] = [n \in DOMAIN history'[e] |-> history'[e][n]]
          /\ \A n \in DOMAIN history'[e] : history'[e][n] \in Commit
          /\ HasTop(history'[e])
    BY <2>1, <2>2 DEF TInv, TypeOK, HistoriesHaveTop, HasTop
  <2>5. /\ docs' \in [Docs -> {"alive", "trashed", "gone"}]
        /\ head' \in [Docs -> Nat]
        /\ subs' \subseteq Submission
        /\ UNCHANGED <<blobs, nextId, nextSub, reqs, published>>
    BY <1>3 DEF Purge, TInv, TypeOK
  <2>6. QED
    BY <2>3, <2>4, <2>5 DEF TInv, TypeOK, RequestsCarry, HistoriesHaveTop
<1>4. QED
  BY <1>1, <1>2, <1>3

LEMMA GCTyped ==
  ASSUME TInv, GCBlobs
  PROVE  TInv'
  BY DEF GCBlobs, TInv, TypeOK, RequestsCarry, HistoriesHaveTop

LEMMA NextTyped == TInv /\ [Next]_vars => TInv'
<1> SUFFICES ASSUME TInv, [Next]_vars PROVE TInv'
  OBVIOUS
<1>1. CASE \E r \in Requests : Step(r)
  <2>1. PICK r \in Requests : Step(r)
    BY <1>1
  <2>2. CASE SubmitForReview(r)
    BY <2>2, SubmitTyped
  <2>3. CASE PutBlob(r)
    BY <2>3, PutBlobTyped
  <2>4. CASE AppendCommit(r)
    BY <2>4, AppendTyped
  <2>5. CASE FinishReview(r)
    BY <2>5, FinishTyped
  <2>6. CASE ~(SubmitForReview(r) \/ PutBlob(r) \/ AppendCommit(r) \/ FinishReview(r))
    BY <2>1, <2>6, LocalStepTyped DEF Step
  <2>7. QED
    BY <2>2, <2>3, <2>4, <2>5, <2>6
<1>2. CASE \E d \in Docs : SoftDelete(d) \/ Restore(d) \/ Purge(d)
  BY <1>2, BinTyped
<1>3. CASE GCBlobs
  BY <1>3, GCTyped
<1>4. CASE UNCHANGED vars
  BY <1>4 DEF vars, TInv, TypeOK, RequestsCarry, HistoriesHaveTop
<1>5. QED
  BY <1>1, <1>2, <1>3, <1>4 DEF Next

\* Type correctness, for every value of the constants (and for any limit on
\* versions).
THEOREM TypeCorrect == Spec => []TypeOK
<1>1. TInv => TypeOK
  BY DEF TInv
<1>2. QED
  BY InitTyped, NextTyped, <1>1, PTL DEF Spec

-----------------------------------------------------------------------------
(***************************************************************************)
(* Then HEAD, contents, readers, reverts,                                  *)
(* verdicts, and the abstract register.                                    *)
(*                                                                         *)
(* The argument for HEAD: as long as no request is overtaken by more       *)
(* commits (PacedSpec) than every limit on versions keeps (SafeLimits), a  *)
(* number that a request holds is either still free or still taken, never  *)
(* trimmed in between.  So an append that succeeds takes the number right  *)
(* after that of HEAD.                                                     *)
(***************************************************************************)

\* The condition on the setting max_versions under which the store is safe.
SafeLimits == \A limit \in VersionLimits : MaxOvertake <= limit

\* No gap above a row that is kept, and the newest rows are all kept.
Shape(h) ==
    \A n \in 1..MaxNo(DOMAIN h) :
        n + MaxOvertake > MaxNo(DOMAIN h) \/ (\E m \in DOMAIN h : m < n)
            => n \in DOMAIN h

HistoryShape == \A d \in Docs : Shape(history[d])

\* Commit ids are handed out once.
FreshIds ==
    \A d \in Docs : \A n \in Rows(d) :
        /\ history[d][n].id < nextId
        /\ \A e \in Docs : \A m \in Rows(e) :
              history[d][n].id = history[e][m].id => d = e /\ n = m

\* A number in hand lies as many rows behind the next one as commits have
\* overtaken the request.
HoldsNumber(q) ==
    q.pc \in {"reparent", "append"} /\ docs[q.doc] # "gone"
    => /\ q.overtaken <= MaxOvertake
       /\ q.no + q.overtaken = Top(q.doc) + 1

\* A revert that is not overtaken has the HEAD as its parent.
HoldsParent(q) ==
    /\ q.pc = "append" /\ q.kind = "revert" /\ docs[q.doc] # "gone"
    /\ q.overtaken = 0 /\ q.no > 1
    => q.parent = head[q.doc]

\* As many commits overtook q as one of them was told to keep.
Outrun(q) == \E limit \in q.limits : q.overtaken >= limit

\* A read that is not outrun holds a version that is kept.
HoldsVersion(q) ==
    q.kind = "read"
    => /\ q.doc \in Docs
       /\ docs[q.doc] # "gone" =>
            /\ q.pc = "missing" => Outrun(q)
            /\ q.pc \in {"loadCommit", "loadBlob"} /\ ~ Outrun(q) =>
                 \E n \in Rows(q.doc) :
                    /\ history[q.doc][n].id = q.ref
                    /\ n + q.overtaken = Top(q.doc)
                    /\ q.pc = "loadBlob" => history[q.doc][n].text = q.text

Holds(q) == HoldsNumber(q) /\ HoldsParent(q) /\ HoldsVersion(q)
RequestsHold == \A r \in Requests : Holds(reqs[r])

\* The inductive invariant of part two.
IInv ==
    /\ SafeLimits
    /\ TInv
    /\ HeadIsNewest
    /\ CommitsHaveContent
    /\ RevertFollowsParent
    /\ HistoryShape
    /\ FreshIds
    /\ RequestsHold

-----------------------------------------------------------------------------
(* Trimming a history to which the next row is appended *)

LEMMA TopIs ==
  ASSUME TInv, NEW d \in Docs, NEW k \in Rows(d), \A m \in Rows(d) : m <= k
  PROVE  Top(d) = k
<1>1. Rows(d) \in SUBSET Nat
  BY DEF TInv, TypeOK, Rows
<1>2. QED
  BY <1>1, MaxNoIs DEF Top

\* The rows of a history lie between 1 and its highest number, which is one of
\* them unless there is none.
LEMMA RowsBelowTop ==
  ASSUME NEW h, DOMAIN h \in SUBSET (Nat \ {0}), HasTop(h)
  PROVE  /\ MaxNo(DOMAIN h) \in Nat
         /\ \A m \in DOMAIN h : m \in 1..MaxNo(DOMAIN h)
         /\ DOMAIN h # {} => MaxNo(DOMAIN h) \in DOMAIN h
<1>1. CASE DOMAIN h = {}
  BY <1>1, MaxNoEmpty
<1>2. CASE \E k \in DOMAIN h : \A m \in DOMAIN h : m <= k
  <2>1. PICK k \in DOMAIN h : \A m \in DOMAIN h : m <= k
    BY <1>2
  <2>2. MaxNo(DOMAIN h) = k
    BY <2>1, MaxNoIs
  <2>3. QED
    BY <2>1, <2>2
<1>3. QED
  BY <1>1, <1>2 DEF HasTop

\* The set of rows above k, inside an interval.
LEMMA AboveIsSmall ==
  ASSUME NEW S, NEW k \in Nat, NEW top \in Nat, k <= top,
         \A m \in S : m \in Nat /\ m <= top
  PROVE  LET above == {m \in S : m > k}
         IN  /\ IsFiniteSet(above)
             /\ Cardinality(above) \in Nat
             /\ Cardinality(above) <= top - k
<1> DEFINE above == {m \in S : m > k}
           between == (k + 1)..top
<1>1. above \in SUBSET between
  OBVIOUS
<1>2. IsFiniteSet(between)
      /\ Cardinality(between) = IF k + 1 > top THEN 0 ELSE top - (k + 1) + 1
  <2>1. k + 1 \in Int /\ top \in Int
    OBVIOUS
  <2> HIDE DEF between
  <2>2. QED
    BY <2>1, FS_Interval DEF between
<1>3. Cardinality(between) <= top - k
  BY <1>2
<1> HIDE DEF above, between
<1>4. IsFiniteSet(above) /\ Cardinality(above) <= Cardinality(between)
  BY <1>1, <1>2, FS_Subset
<1>5. Cardinality(above) \in Nat /\ Cardinality(between) \in Nat
  BY <1>2, <1>4, FS_CardinalityType
<1>6. QED
  BY <1>3, <1>4, <1>5 DEF above

\* What is left of a history after the row past its top is appended and the
\* history trimmed: the new row on top, the rows close to it, and with a row
\* every newer one.
LEMMA AppendShape ==
  ASSUME NEW h, DOMAIN h \in SUBSET (Nat \ {0}), HasTop(h), Shape(h),
         NEW row, NEW limit \in Nat \ {0}, MaxOvertake <= limit
  PROVE  LET top == MaxNo(DOMAIN h) + 1
             t == Trim(Insert(h, top, row), limit)
         IN  /\ top \in Nat
             /\ top \in DOMAIN t /\ t[top] = row
             /\ \A m \in DOMAIN t : m <= top
             /\ \A m \in DOMAIN t \ {top} : m \in DOMAIN h /\ t[m] = h[m]
             /\ \A m \in DOMAIN h : m + limit > top => m \in DOMAIN t
             /\ MaxNo(DOMAIN t) = top
             /\ Shape(t)
<1> DEFINE top == MaxNo(DOMAIN h) + 1
           g == Insert(h, top, row)
           t == Trim(g, limit)
           above(k) == {m \in DOMAIN g : m > k}
<1>1. /\ MaxNo(DOMAIN h) \in Nat
      /\ \A m \in DOMAIN h : m \in 1..MaxNo(DOMAIN h)
  BY RowsBelowTop
<1>2. top \in Nat \ {0} /\ \A m \in DOMAIN h : m \in Nat /\ 1 <= m /\ m < top
  BY <1>1
<1>3. /\ DOMAIN g = DOMAIN h \cup {top}
      /\ g[top] = row
      /\ \A m \in DOMAIN h : g[m] = h[m]
  BY <1>2 DEF Insert
<1> HIDE DEF top, g
<1>4. /\ DOMAIN t = {m \in DOMAIN g : Cardinality(above(m)) < limit}
      /\ \A m \in DOMAIN t : t[m] = g[m]
  BY DEF Trim
<1>5. ASSUME NEW k \in DOMAIN g
      PROVE  /\ IsFiniteSet(above(k))
             /\ Cardinality(above(k)) \in Nat
             /\ Cardinality(above(k)) <= top - k
  <2>1. k \in Nat /\ k <= top /\ \A m \in DOMAIN g : m \in Nat /\ m <= top
    BY <1>2, <1>3
  <2>2. QED
    BY <1>2, <2>1, AboveIsSmall
<1>6. ASSUME NEW k \in DOMAIN g, k + limit > top
      PROVE  k \in DOMAIN t
  <2>1. k \in Nat
    BY <1>2, <1>3
  <2>2. top - k < limit
    BY <1>2, <1>6, <2>1
  <2>3. Cardinality(above(k)) \in Nat /\ Cardinality(above(k)) <= top - k
    BY <1>5
  <2> HIDE DEF above
  <2>4. Cardinality(above(k)) < limit
    BY <1>2, <2>1, <2>2, <2>3
  <2>5. QED
    BY <1>4, <2>4
<1>7. ASSUME NEW m \in DOMAIN t, NEW k \in DOMAIN g, m < k
      PROVE  k \in DOMAIN t
  <2>1. m \in DOMAIN g /\ Cardinality(above(m)) < limit
    BY <1>4
  <2>2. above(k) \in SUBSET above(m)
    BY <1>2, <1>3, <1>7, <2>1
  <2>3. /\ IsFiniteSet(above(m)) /\ Cardinality(above(m)) \in Nat
        /\ Cardinality(above(k)) \in Nat
    BY <1>5, <2>1
  <2> HIDE DEF above
  <2>4. Cardinality(above(k)) <= Cardinality(above(m))
    BY <2>2, <2>3, FS_Subset
  <2>5. Cardinality(above(k)) < limit
    BY <2>1, <2>3, <2>4
  <2>6. QED
    BY <1>4, <2>5
<1>8. top \in DOMAIN t
  BY <1>2, <1>3, <1>6
<1>9. \A m \in DOMAIN t : m \in Nat /\ m <= top
  BY <1>2, <1>3, <1>4
<1>10. MaxNo(DOMAIN t) = top
  <2>1. DOMAIN t \in SUBSET Nat
    BY <1>9
  <2> HIDE DEF t
  <2>2. QED
    BY <1>8, <1>9, <2>1, MaxNoIs
<1>11. Shape(t)
  <2> SUFFICES ASSUME NEW n \in 1..top,
                      n + MaxOvertake > top \/ \E m \in DOMAIN t : m < n
               PROVE  n \in DOMAIN t
    BY <1>10 DEF Shape
  <2>1. n \in DOMAIN g
    <3>1. CASE n = top
      BY <1>3, <3>1
    <3>2. CASE n # top
      <4>1. n \in 1..MaxNo(DOMAIN h)
        BY <1>1, <1>2, <3>2 DEF top
      <4>2. n + MaxOvertake > MaxNo(DOMAIN h) \/ \E m \in DOMAIN h : m < n
        <5>1. CASE n + MaxOvertake > top
          BY <1>1, <4>1, <5>1, BoundsAssumption DEF top
        <5>2. CASE \E m \in DOMAIN t : m < n
          <6>1. PICK m \in DOMAIN t : m < n
            BY <5>2
          <6>2. m # top /\ m \in DOMAIN g
            BY <1>2, <1>4, <6>1
          <6>3. QED
            BY <1>3, <6>1, <6>2
        <5>3. QED
          BY <5>1, <5>2
      <4>3. n \in DOMAIN h
        BY <4>1, <4>2 DEF Shape
      <4>4. QED
        BY <1>3, <4>3
    <3>3. QED
      BY <3>1, <3>2
  <2>2. CASE n + MaxOvertake > top
    <3>1. n + limit > top
      BY <1>2, <2>2, BoundsAssumption
    <3>2. QED
      BY <1>6, <2>1, <3>1
  <2>3. CASE \E m \in DOMAIN t : m < n
    BY <1>7, <2>1, <2>3
  <2>4. QED
    BY <2>2, <2>3
<1> HIDE DEF t, above
<1>12. \A m \in DOMAIN t \ {top} : m \in DOMAIN h /\ t[m] = h[m]
  BY <1>3, <1>4
<1>13. \A m \in DOMAIN h : m + limit > top => m \in DOMAIN t
  BY <1>3, <1>6
<1>14. t[top] = row
  BY <1>3, <1>4, <1>8
<1>15. QED
  BY <1>2, <1>8, <1>9, <1>10, <1>11, <1>12, <1>13, <1>14 DEF t, g, top

-----------------------------------------------------------------------------
(* The first state, and steps that move one request on *)

LEMMA EmptyShape ==
  ASSUME NEW h, DOMAIN h = {}
  PROVE  Shape(h)
  BY MaxNoEmpty DEF Shape

LEMMA IdleHolds == Holds(Idle)
  BY DEF Holds, HoldsNumber, HoldsParent, HoldsVersion, Idle

LEMMA InitHolds == SafeLimits /\ Init => IInv
<1> SUFFICES ASSUME SafeLimits, Init PROVE IInv
  OBVIOUS
<1>1. \A d \in Docs : DOMAIN history[d] = {} /\ head[d] = 0
  BY DEF Init, NoHistory
<1>2. HistoryShape
  BY <1>1, EmptyShape DEF HistoryShape
<1>3. RequestsHold
  BY IdleHolds DEF Init, RequestsHold
<1>4. HeadIsNewest /\ CommitsHaveContent /\ RevertFollowsParent /\ FreshIds
  BY <1>1 DEF HeadIsNewest, CommitsHaveContent, RevertFollowsParent, FreshIds, Rows
<1>5. QED
  BY <1>2, <1>3, <1>4, InitTyped DEF IInv

\* A failed request holds nothing, unless it is a read that missed.
LEMMA FailedHolds ==
  ASSUME NEW q, NEW answer \in Failures,
         q.kind # "read" \/ (q.doc \in Docs /\ (docs[q.doc] = "gone" \/ Outrun(q)))
  PROVE  Holds(Failed(q, answer))
<1>1. Outrun(Failed(q, answer)) <=> Outrun(q)
  BY DEF Outrun, Failed, Idle
<1>2. /\ Failed(q, answer).pc = answer /\ Failed(q, answer).kind = q.kind
      /\ Failed(q, answer).doc = q.doc
  BY DEF Failed, Idle
<1>3. QED
  BY <1>1, <1>2 DEF Holds, HoldsNumber, HoldsParent, HoldsVersion, Failures

\* A step that moves request r on to a record that holds what it should, and
\* that changes no document, HEAD or history.
LEMMA GoOnHolds ==
  ASSUME IInv, NEW r \in Requests, NEW rec, GoOn(r, rec), Holds(rec),
         UNCHANGED <<docs, head, history, nextId>>, TInv',
         blobs \subseteq blobs'
  PROVE  IInv'
<1>1. HeadIsNewest' /\ RevertFollowsParent' /\ HistoryShape' /\ FreshIds' /\ SafeLimits'
  BY DEF IInv, HeadIsNewest, RevertFollowsParent, HistoryShape, FreshIds, Rows, SafeLimits
<1>2. CommitsHaveContent'
  BY DEF IInv, CommitsHaveContent
<1>3. ASSUME NEW p \in Requests PROVE Holds(reqs'[p])
  <2>1. CASE p = r
    BY <2>1 DEF GoOn, IInv, TInv, TypeOK
  <2>2. CASE p # r
    BY <2>2 DEF GoOn, IInv, TInv, TypeOK, RequestsHold
  <2>3. QED
    BY <2>1, <2>2
<1>4. RequestsHold'
  BY <1>3 DEF RequestsHold, Holds, HoldsNumber, HoldsParent, HoldsVersion, Rows, Top
<1>5. QED
  BY <1>1, <1>2, <1>4 DEF IInv

LEMMA CheckedHolds ==
  ASSUME NEW q, q \in Request, q.kind \in {"commit", "approve"}, NEW p \in Checked(q)
  PROVE  Holds(p)
<1>1. CASE p \in Routed(q)
  BY <1>1 DEF Routed, Holds, HoldsNumber, HoldsParent, HoldsVersion, Request
<1>2. CASE p \in {Failed(q, "missing"), Failed(q, "conflict")}
  BY <1>2, FailedHolds DEF Failures
<1>3. QED
  BY <1>1, <1>2 DEF Checked

\* HEAD of an invariant state, by number.
LEMMA HeadRow ==
  ASSUME TInv, HeadIsNewest, NEW d \in Docs
  PROVE  \/ head[d] = 0 /\ Rows(d) = {} /\ Top(d) = 0
         \/ /\ Top(d) \in Rows(d) /\ history[d][Top(d)].id = head[d]
            /\ head[d] # 0 /\ Top(d) \in Nat \ {0}
<1>1. CASE head[d] = 0 /\ Rows(d) = {}
  BY <1>1, MaxNoEmpty DEF Top
<1>2. CASE \E n \in Rows(d) : history[d][n].id = head[d] /\ \A m \in Rows(d) : m <= n
  <2>1. PICK n \in Rows(d) : history[d][n].id = head[d] /\ \A m \in Rows(d) : m <= n
    BY <1>2
  <2>2. Top(d) = n
    BY <2>1, TopIs
  <2>3. history[d][n] \in Commit /\ n \in Nat \ {0}
    BY <2>1 DEF TInv, TypeOK, Rows
  <2>4. QED
    BY <2>1, <2>2, <2>3 DEF Commit
<1>3. QED
  BY <1>1, <1>2 DEF HeadIsNewest, Rows

\* The request of a step, as the invariant sees it.
LEMMA RequestFacts ==
  ASSUME IInv, NEW r \in Requests
  PROVE  reqs[r] \in Request /\ Carries(reqs[r]) /\ Holds(reqs[r])
  BY DEF IInv, TInv, TypeOK, RequestsCarry, RequestsHold

\* Every step of a request but AppendCommit moves it on to a record that holds
\* what it should.
LEMMA StepGoesOn ==
  ASSUME IInv, NEW r \in Requests, Step(r), ~ AppendCommit(r)
  PROVE  \E rec : GoOn(r, rec) /\ Holds(rec)
<1> DEFINE q == reqs[r]
<1>q. q \in Request /\ Carries(q) /\ Holds(q)
  BY RequestFacts
<1>1. CASE BeginCommit(r)
  <2>1. PICK u \in Users, d \in Docs, base \in 0..(nextId - 1), t \in Contents :
          \E p \in Checked([Idle EXCEPT !.kind = "commit", !.user = u, !.doc = d,
                                        !.ref = base, !.text = t]) : GoOn(r, p)
    BY <1>1 DEF BeginCommit
  <2> DEFINE c == [Idle EXCEPT !.kind = "commit", !.user = u, !.doc = d,
                               !.ref = base, !.text = t]
  <2>2. c \in Request /\ c.kind \in {"commit", "approve"}
    <3>1. base \in Nat
      BY DEF IInv, TInv, TypeOK
    <3>2. QED
      BY <3>1 DEF Idle, Request, Kinds
  <2>3. PICK p \in Checked(c) : GoOn(r, p)
    BY <2>1
  <2>4. QED
    BY <2>2, <2>3, CheckedHolds
<1>2. CASE CheckBase(r)
  <2>1. q.kind = "approve"
    BY <1>q, <1>2 DEF CheckBase, Carries
  <2>2. QED
    BY <1>q, <1>2, <2>1, CheckedHolds DEF CheckBase
<1>3. CASE SubmitForReview(r)
  <2>1. q.kind # "read"
    BY <1>q, <1>3 DEF SubmitForReview, Carries
  <2>2. QED
    BY <1>3, <2>1, IdleHolds, FailedHolds DEF SubmitForReview, Succeeded, Failures
<1>4. CASE PutBlob(r)
  <2>1. q.kind # "read" /\ q.pc = "put" /\ GoOn(r, [q EXCEPT !.pc = "number"])
    BY <1>q, <1>4 DEF PutBlob, Carries, Kinds
  <2>2. Holds([q EXCEPT !.pc = "number"])
    BY <1>q, <2>1 DEF Holds, HoldsNumber, HoldsParent, HoldsVersion, Request
  <2>3. QED
    BY <2>1, <2>2
<1>5. CASE TakeNumber(r)
  <2> DEFINE n == Top(q.doc) + 1
             p == [q EXCEPT !.no = n, !.overtaken = 0, !.limits = {},
                    !.parent = IF n > 1 THEN q.ref ELSE 0,
                    !.pc = IF q.kind = "revert" /\ n > 1
                           THEN "reparent" ELSE "append"]
  <2>1. q.pc = "number" /\ GoOn(r, p)
    BY <1>5 DEF TakeNumber, Top, Rows
  <2>2. q.doc \in Docs /\ q.kind # "read"
    BY <1>q, <2>1 DEF Carries, Waiting, Kinds
  <2>3. Top(q.doc) \in Nat /\ n \in Nat
    BY <2>2, TopIsNat DEF IInv
  <2>4. /\ p.kind = q.kind /\ p.doc = q.doc /\ p.overtaken = 0 /\ p.no = n
        /\ p.pc = IF q.kind = "revert" /\ n > 1 THEN "reparent" ELSE "append"
    BY <1>q DEF Request
  <2> HIDE DEF p
  <2>5. HoldsNumber(p)
    BY <2>3, <2>4, BoundsAssumption DEF HoldsNumber
  <2>6. HoldsParent(p) /\ HoldsVersion(p)
    BY <2>2, <2>4 DEF HoldsParent, HoldsVersion
  <2>7. QED
    BY <2>1, <2>5, <2>6 DEF Holds
<1>6. CASE ReadFreshHead(r)
  <2>1. q.pc = "reparent" /\ q.kind # "read"
    BY <1>q, <1>6 DEF ReadFreshHead, Carries, Kinds
  <2>2. CASE GoOn(r, Failed(q, "missing"))
    BY <2>1, <2>2, FailedHolds DEF Failures
  <2>3. CASE GoOn(r, [q EXCEPT !.pc = "append", !.parent = head[q.doc]])
    <3> DEFINE p == [q EXCEPT !.pc = "append", !.parent = head[q.doc]]
    <3>1. /\ p.kind = q.kind /\ p.doc = q.doc /\ p.overtaken = q.overtaken
          /\ p.no = q.no /\ p.pc = "append" /\ p.parent = head[q.doc]
      BY <1>q DEF Request
    <3> HIDE DEF p
    <3>2. Holds(p)
      BY <1>q, <2>1, <3>1 DEF Holds, HoldsNumber, HoldsParent, HoldsVersion
    <3>3. QED
      BY <2>3, <3>2 DEF p
  <2>4. QED
    BY <1>6, <2>2, <2>3 DEF ReadFreshHead
<1>7. CASE AppendFails(r)
  <2>1. q.kind # "read"
    BY <1>q, <1>7 DEF AppendFails, Carries, Kinds
  <2>2. QED
    BY <1>7, <2>1, FailedHolds DEF AppendFails, Failures
<1>8. CASE BeginReview(r)
  <2>1. PICK s \in subs, u \in Reviewers, action \in {"approve", "reject"} :
          GoOn(r, [Idle EXCEPT !.kind = action, !.user = u, !.doc = s.doc,
                          !.ref = s.base, !.text = s.text, !.sub = s.id,
                          !.pc = IF action = "approve" THEN "check" ELSE "finish"])
    BY <1>8 DEF BeginReview
  <2> DEFINE p == [Idle EXCEPT !.kind = action, !.user = u, !.doc = s.doc,
                          !.ref = s.base, !.text = s.text, !.sub = s.id,
                          !.pc = IF action = "approve" THEN "check" ELSE "finish"]
  <2>2. p.kind # "read" /\ p.pc \in {"check", "finish"}
    BY DEF Idle
  <2> HIDE DEF p
  <2>3. Holds(p)
    BY <2>2 DEF Holds, HoldsNumber, HoldsParent, HoldsVersion
  <2>4. QED
    BY <2>1, <2>3 DEF p
<1>9. CASE FinishReview(r)
  <2>1. CASE GoOn(r, Succeeded)
    BY <2>1, IdleHolds DEF Succeeded
  <2>2. CASE GoOn(r, Failed(q, "missing"))
    <3>1. q.kind # "read"
      BY <1>q, <1>9 DEF FinishReview, Carries
    <3>2. QED
      BY <2>2, <3>1, FailedHolds DEF Failures
  <2>3. QED
    BY <1>9, <2>1, <2>2 DEF FinishReview
<1>10. CASE BeginRevert(r)
  <2>1. PICK d \in Docs, c \in 1..(nextId - 1) :
          GoOn(r, [Idle EXCEPT !.pc = "loadCommit", !.kind = "revert",
                               !.doc = d, !.ref = c])
    BY <1>10 DEF BeginRevert
  <2> DEFINE p == [Idle EXCEPT !.pc = "loadCommit", !.kind = "revert",
                               !.doc = d, !.ref = c]
  <2>2. p.kind = "revert" /\ p.pc = "loadCommit"
    BY DEF Idle
  <2> HIDE DEF p
  <2>3. Holds(p)
    BY <2>2 DEF Holds, HoldsNumber, HoldsParent, HoldsVersion
  <2>4. QED
    BY <2>1, <2>3 DEF p
<1>11. CASE BeginRead(r)
  <2>1. PICK d \in Docs : head[d] # 0 /\
          GoOn(r, [Idle EXCEPT !.pc = "loadCommit", !.kind = "read",
                               !.doc = d, !.ref = head[d]])
    BY <1>11 DEF BeginRead
  <2> DEFINE p == [Idle EXCEPT !.pc = "loadCommit", !.kind = "read",
                               !.doc = d, !.ref = head[d]]
  <2>2. /\ p.pc = "loadCommit" /\ p.kind = "read" /\ p.doc = d
        /\ p.ref = head[d] /\ p.overtaken = 0
    BY DEF Idle
  <2> HIDE DEF p
  <2>3. /\ Top(d) \in Rows(d) /\ history[d][Top(d)].id = head[d] /\ Top(d) \in Nat
    BY <2>1, HeadRow DEF IInv
  <2>4. \E n \in Rows(d) : history[d][n].id = p.ref /\ n + p.overtaken = Top(d)
    BY <2>2, <2>3
  <2>5. Holds(p)
    BY <2>2, <2>4 DEF Holds, HoldsNumber, HoldsParent, HoldsVersion
  <2>6. QED
    BY <2>1, <2>5 DEF p
<1>12. CASE LoadCommit(r)
  <2>1. q.pc = "loadCommit" /\ q.doc \in Docs
    BY <1>q, <1>12 DEF LoadCommit, Carries, Waiting
  <2>2. CASE \E n \in DOMAIN history[q.doc] :
            /\ history[q.doc][n].id = q.ref
            /\ GoOn(r, [q EXCEPT !.pc = "loadBlob", !.text = history[q.doc][n].text])
    <3>1. PICK n \in Rows(q.doc) :
            /\ history[q.doc][n].id = q.ref
            /\ GoOn(r, [q EXCEPT !.pc = "loadBlob", !.text = history[q.doc][n].text])
      BY <2>2 DEF Rows
    <3> DEFINE p == [q EXCEPT !.pc = "loadBlob", !.text = history[q.doc][n].text]
    <3>2. /\ p.kind = q.kind /\ p.doc = q.doc /\ p.overtaken = q.overtaken
          /\ p.limits = q.limits
          /\ p.pc = "loadBlob" /\ p.text = history[q.doc][n].text /\ p.ref = q.ref
      BY <1>q DEF Request
    <3> HIDE DEF p
    <3>3. \A m \in Rows(q.doc) : history[q.doc][m].id = q.ref => m = n
      BY <2>1, <3>1 DEF IInv, FreshIds
    <3>4. HoldsVersion(p)
      BY <1>q, <2>1, <3>2, <3>3 DEF Holds, HoldsVersion, Outrun
    <3>5. Holds(p)
      BY <3>2, <3>4 DEF Holds, HoldsNumber, HoldsParent
    <3>6. QED
      BY <3>1, <3>5 DEF p
  <2>3. CASE /\ \A n \in DOMAIN history[q.doc] : history[q.doc][n].id # q.ref
             /\ GoOn(r, Failed(q, "missing"))
    <3>1. q.kind # "read" \/ docs[q.doc] = "gone" \/ Outrun(q)
      BY <1>q, <2>1, <2>3 DEF Holds, HoldsVersion, Rows
    <3>2. QED
      BY <2>1, <2>3, <3>1, FailedHolds DEF Failures
  <2>4. QED
    BY <1>12, <2>2, <2>3 DEF LoadCommit
<1>13. CASE LoadBlob(r)
  <2>1. q.pc = "loadBlob" /\ q.doc \in Docs
    BY <1>q, <1>13 DEF LoadBlob, Carries, Waiting
  <2>2. CASE q.text \notin blobs /\ GoOn(r, Failed(q, "missing"))
    <3>1. q.kind # "read" \/ docs[q.doc] = "gone" \/ Outrun(q)
      BY <1>q, <2>1, <2>2 DEF IInv, CommitsHaveContent, Holds, HoldsVersion, Rows
    <3>2. QED
      BY <2>1, <2>2, <3>1, FailedHolds DEF Failures
  <2>3. CASE GoOn(r, Succeeded)
    BY <2>3, IdleHolds DEF Succeeded
  <2>4. CASE q.kind # "read" /\ GoOn(r, [q EXCEPT !.pc = "put", !.overtaken = 0, !.limits = {}])
    <3>1. Holds([q EXCEPT !.pc = "put", !.overtaken = 0, !.limits = {}])
      BY <1>q, <2>4 DEF Holds, HoldsNumber, HoldsParent, HoldsVersion, Request
    <3>2. QED
      BY <2>4, <3>1
  <2>5. QED
    BY <1>13, <2>2, <2>3, <2>4 DEF LoadBlob
<1>14. CASE Stop(r)
  BY <1>14, IdleHolds DEF Stop
<1>15. QED
  BY <1>1, <1>2, <1>3, <1>4, <1>5, <1>6, <1>7, <1>8, <1>9, <1>10, <1>11, <1>12,
     <1>13, <1>14 DEF Step

-----------------------------------------------------------------------------
(* AppendCommit *)

\* A successful append takes the number after the highest one.
LEMMA AppendIsNext ==
  ASSUME IInv, NEW r \in Requests, AppendCommit(r)
  PROVE  LET q == reqs[r]
         IN  /\ q.doc \in Docs /\ docs[q.doc] # "gone" /\ q.kind \in Kinds
             /\ q.overtaken = 0 /\ q.no = Top(q.doc) + 1 /\ Top(q.doc) \in Nat
             /\ q.text \in blobs
<1> DEFINE q == reqs[r]
           d == q.doc
<1>1. /\ q.pc = "append" /\ docs[d] # "gone" /\ q.text \in blobs
      /\ q.no \notin Rows(d)
  BY DEF AppendCommit, NumberTaken, Dangling, Rows
<1>2. q \in Request /\ Carries(q) /\ Holds(q)
  BY RequestFacts
<1>3. d \in Docs /\ q.kind \in Kinds /\ q.no >= 1 /\ q.no \in Nat /\ q.overtaken \in Nat
  BY <1>1, <1>2 DEF Carries, Waiting, Request
<1>4. q.overtaken <= MaxOvertake /\ q.no + q.overtaken = Top(d) + 1
  BY <1>1, <1>2 DEF Holds, HoldsNumber
<1>5. Top(d) \in Nat
  BY <1>3, TopIsNat DEF IInv
<1>6. Shape(history[d])
  BY <1>3 DEF IInv, HistoryShape
<1>7. ASSUME q.overtaken # 0 PROVE FALSE
  <2>1. q.no \in 1..Top(d) /\ q.no + MaxOvertake > Top(d)
    BY <1>3, <1>4, <1>5, <1>7, BoundsAssumption
  <2>2. q.no \in Rows(d)
    BY <1>6, <2>1 DEF Shape, Top, Rows
  <2>3. QED
    BY <1>1, <2>2
<1>8. QED
  BY <1>1, <1>3, <1>4, <1>5, <1>7

\* The histories after an append to d: only d's changes, and it has the new row
\* on top of rows it had before.
LEMMA AppendHistory ==
  ASSUME IInv, NEW r \in Requests, AppendCommit(r)
  PROVE  LET q   == reqs[r]
             d   == q.doc
             top == Top(d) + 1
             h   == history'[d]
         IN  /\ \A e \in Docs \ {d} : history'[e] = history[e]
             /\ top \in DOMAIN h
             /\ h[top] = [id |-> nextId, parent |-> q.parent, text |-> q.text,
                          via |-> q.kind]
             /\ \A m \in DOMAIN h : m <= top
             /\ \A m \in DOMAIN h \ {top} : m \in Rows(d) /\ h[m] = history[d][m]
             /\ MaxNo(DOMAIN h) = top
             /\ Shape(h)
<1> DEFINE q   == reqs[r]
           d   == q.doc
           top == Top(d) + 1
           row == [id |-> nextId, parent |-> q.parent, text |-> q.text, via |-> q.kind]
<1>1. d \in Docs /\ q.no = top
  BY AppendIsNext
<1>2. PICK limit \in VersionLimits :
        history' = [history EXCEPT ![d] = Trim(Insert(@, top, row), limit)]
  BY <1>1 DEF AppendCommit
<1>3. DOMAIN history = Docs
  BY DEF IInv, TInv, TypeOK
<1>4. /\ history'[d] = Trim(Insert(history[d], top, row), limit)
      /\ \A e \in Docs \ {d} : history'[e] = history[e]
  BY <1>1, <1>2, <1>3
<1>5. limit \in Nat \ {0} /\ MaxOvertake <= limit
  BY LimitsAssumption DEF IInv, SafeLimits
<1>6. /\ DOMAIN history[d] \in SUBSET (Nat \ {0}) /\ HasTop(history[d])
      /\ Shape(history[d])
  BY <1>1 DEF IInv, TInv, TypeOK, HistoriesHaveTop, HistoryShape
<1> HIDE DEF row
<1>7. LET t == Trim(Insert(history[d], top, row), limit)
      IN  /\ top \in DOMAIN t /\ t[top] = row
          /\ \A m \in DOMAIN t : m <= top
          /\ \A m \in DOMAIN t \ {top} : m \in DOMAIN history[d] /\ t[m] = history[d][m]
          /\ MaxNo(DOMAIN t) = top
          /\ Shape(t)
  BY <1>5, <1>6, AppendShape DEF Top, Rows
<1>8. QED
  BY <1>4, <1>7 DEF row, Rows

\* What an append does to its own request.
LEMMA AppendGoesOn ==
  ASSUME NEW r \in Requests, AppendCommit(r)
  PROVE  reqs'[r] \in {Succeeded, [reqs[r] EXCEPT !.pc = "finish"]}
  BY DEF AppendCommit, AfterAppend

\* What it does to the others, and the rows it keeps for them.
LEMMA AppendKeeps ==
  ASSUME IInv, NEW r \in Requests, AppendCommit(r)
  PROVE  LET q   == reqs[r]
             d   == q.doc
             top == Top(d) + 1
         IN  \E limit \in VersionLimits :
                /\ \A m \in Rows(d) : m + limit > top => m \in DOMAIN history'[d]
                /\ \A p \in Requests \ {r} :
                      reqs'[p] = IF p \in Holding(d)
                                 THEN Overtaken(reqs[p], limit) ELSE reqs[p]
<1> DEFINE q   == reqs[r]
           d   == q.doc
           top == Top(d) + 1
           row == [id |-> nextId, parent |-> q.parent, text |-> q.text, via |-> q.kind]
<1>1. d \in Docs /\ q.no = top
  BY AppendIsNext
<1>2. PICK limit \in VersionLimits :
        /\ history' = [history EXCEPT ![d] = Trim(Insert(@, top, row), limit)]
        /\ reqs' = [p \in Requests |->
                      IF p = r THEN AfterAppend(r)
                      ELSE IF p \in Holding(d) THEN Overtaken(reqs[p], limit)
                      ELSE reqs[p]]
  BY <1>1 DEF AppendCommit
<1>3. history'[d] = Trim(Insert(history[d], top, row), limit)
  BY <1>1, <1>2 DEF IInv, TInv, TypeOK
<1>4. limit \in Nat \ {0} /\ MaxOvertake <= limit
  BY LimitsAssumption DEF IInv, SafeLimits
<1>5. /\ DOMAIN history[d] \in SUBSET (Nat \ {0}) /\ HasTop(history[d])
      /\ Shape(history[d])
  BY <1>1 DEF IInv, TInv, TypeOK, HistoriesHaveTop, HistoryShape
<1> HIDE DEF row
<1>6. \A m \in DOMAIN history[d] : m + limit > top
         => m \in DOMAIN Trim(Insert(history[d], top, row), limit)
  BY <1>4, <1>5, AppendShape DEF Top, Rows
<1>7. \A m \in Rows(d) : m + limit > top => m \in DOMAIN history'[d]
  BY <1>3, <1>6 DEF Rows
<1>8. \A p \in Requests \ {r} :
        reqs'[p] = IF p \in Holding(d) THEN Overtaken(reqs[p], limit) ELSE reqs[p]
  BY <1>2
<1>9. QED
  BY <1>7, <1>8

LEMMA AppendKeepsRequests ==
  ASSUME IInv, NEW r \in Requests, AppendCommit(r), Paced', NEW p \in Requests
  PROVE  Holds(reqs[p])'
<1> DEFINE q   == reqs[r]
           d   == q.doc
           o   == reqs[p]
           top == Top(d) + 1
<1>1. /\ d \in Docs /\ q.kind \in Kinds /\ q.overtaken = 0 /\ q.no = top
      /\ Top(d) \in Nat
  BY AppendIsNext
<1>2. q \in Request /\ o \in Request /\ Carries(o) /\ Holds(o)
  BY RequestFacts
<1>3. UNCHANGED docs /\ \A e \in Docs : head'[e] = IF e = d THEN nextId ELSE head[e]
  BY <1>1 DEF AppendCommit, IInv, TInv, TypeOK
<1>4. /\ \A e \in Docs \ {d} : history'[e] = history[e]
      /\ \A m \in Rows(d) : m \in DOMAIN history'[d]
            => history'[d][m] = history[d][m]
      /\ MaxNo(DOMAIN history'[d]) = top
  <2>1. \A m \in Rows(d) : m # top
    <3>1. \A m \in Rows(d) : m <= Top(d)
      BY <1>1, RowsBelowTop DEF IInv, TInv, TypeOK, HistoriesHaveTop, Rows, Top
    <3>2. QED
      BY <1>1, <3>1 DEF IInv, TInv, TypeOK, Rows
  <2>2. QED
    BY <2>1, AppendHistory
<1>k. PICK limit \in VersionLimits :
        /\ \A m \in Rows(d) : m + limit > top => m \in DOMAIN history'[d]
        /\ \A o_ \in Requests \ {r} :
              reqs'[o_] = IF o_ \in Holding(d)
                          THEN Overtaken(reqs[o_], limit) ELSE reqs[o_]
  BY AppendKeeps
<1>5. CASE p = r
  <2>1. CASE reqs'[p] = Succeeded
    BY <2>1 DEF Holds, HoldsNumber, HoldsParent, HoldsVersion, Succeeded, Idle
  <2>2. CASE reqs'[p] = [q EXCEPT !.pc = "finish"]
    <3>1. reqs'[p].pc = "finish" /\ reqs'[p].kind # "read"
      BY <1>1, <1>2, <2>2 DEF Request, Kinds
    <3>2. QED
      BY <3>1 DEF Holds, HoldsNumber, HoldsParent, HoldsVersion
  <2>3. QED
    BY <1>5, <2>1, <2>2, AppendGoesOn
<1>6. CASE p # r /\ p \in Holding(d)
  <2>1. reqs'[p] = Overtaken(o, limit) /\ reqs'[p].overtaken <= MaxOvertake
    BY <1>k, <1>6 DEF Paced
  <2> DEFINE n == reqs'[p]
  <2>2. /\ n.overtaken = o.overtaken + 1 /\ o.overtaken \in Nat
        /\ n.limits = o.limits \cup {limit} /\ o.limits \subseteq Nat
        /\ n.pc = o.pc /\ n.kind = o.kind /\ n.doc = o.doc /\ n.ref = o.ref
        /\ n.text = o.text /\ n.no = o.no /\ n.parent = o.parent
    BY <1>2, <2>1, LimitsAssumption DEF Request, Overtaken
  <2>3. o.doc = d /\ o.no \in Nat
    BY <1>2, <1>6 DEF Holding, Request
  <2> HIDE DEF n
  <2>4. HoldsNumber(reqs[p])'
    <3> SUFFICES ASSUME n.pc \in {"reparent", "append"}, docs'[d] # "gone"
                 PROVE  /\ n.overtaken <= MaxOvertake
                        /\ n.no + n.overtaken = MaxNo(DOMAIN history'[d]) + 1
      BY <2>2, <2>3 DEF HoldsNumber, Top, Rows, n
    <3>1. o.no + o.overtaken = Top(d) + 1
      BY <1>2, <1>3, <2>2, <2>3 DEF Holds, HoldsNumber
    <3>2. QED
      BY <1>1, <1>4, <2>1, <2>2, <2>3, <3>1, BoundsAssumption DEF n
  <2>5. HoldsParent(reqs[p])'
    BY <2>2 DEF HoldsParent, n
  <2>6. HoldsVersion(reqs[p])'
    <3> SUFFICES ASSUME n.kind = "read", docs'[d] # "gone"
                 PROVE  /\ n.pc # "missing"
                        /\ n.pc \in {"loadCommit", "loadBlob"} /\ ~ Outrun(n) =>
                             \E k \in DOMAIN history'[d] :
                                /\ history'[d][k].id = n.ref
                                /\ k + n.overtaken = MaxNo(DOMAIN history'[d])
                                /\ n.pc = "loadBlob" => history'[d][k].text = n.text
      BY <1>1, <2>2, <2>3 DEF HoldsVersion, Outrun, Top, Rows, n
    <3>1. n.pc # "missing"
      BY <1>6, <2>2 DEF Holding
    <3>2. ASSUME n.pc \in {"loadCommit", "loadBlob"}, ~ Outrun(n)
          PROVE  \E k \in DOMAIN history'[d] :
                    /\ history'[d][k].id = n.ref
                    /\ k + n.overtaken = MaxNo(DOMAIN history'[d])
                    /\ n.pc = "loadBlob" => history'[d][k].text = n.text
      <4>1. ~ Outrun(o) /\ n.overtaken < limit /\ limit \in Nat
        <5>1. /\ limit \in Nat /\ limit \in n.limits
              /\ \A l \in n.limits : l \in Nat /\ ~ (n.overtaken >= l)
          BY <2>2, <3>2, LimitsAssumption DEF Outrun
        <5>2. n.overtaken < limit
          BY <2>2, <5>1
        <5>3. \A l \in o.limits : l \in Nat /\ ~ (o.overtaken >= l)
          BY <2>2, <5>1
        <5>4. QED
          BY <5>1, <5>2, <5>3 DEF Outrun
      <4>2. PICK k \in Rows(d) :
               /\ history[d][k].id = o.ref
               /\ k + o.overtaken = Top(d)
               /\ o.pc = "loadBlob" => history[d][k].text = o.text
        BY <1>2, <1>3, <2>2, <2>3, <3>2, <4>1 DEF Holds, HoldsVersion
      <4>3. k \in Nat
        BY <1>1 DEF IInv, TInv, TypeOK, Rows
      <4>4. k + n.overtaken = top
        BY <1>1, <2>2, <4>2, <4>3
      <4>5. k + limit > top
        BY <1>1, <2>2, <4>1, <4>3, <4>4
      <4>6. k \in DOMAIN history'[d] /\ history'[d][k] = history[d][k]
        BY <1>k, <1>4, <4>5
      <4>7. QED
        BY <1>4, <2>2, <4>2, <4>4, <4>6
    <3>3. QED
      BY <3>1, <3>2
  <2>7. QED
    BY <2>4, <2>5, <2>6 DEF Holds
<1>7. CASE p # r /\ p \notin Holding(d)
  <2>1. reqs'[p] = o
    BY <1>k, <1>7
  <2>2. CASE o.doc = d
    <3>1. ~ (o.pc \in {"reparent", "append"})
          /\ ~ (o.kind = "read" /\ o.pc \in {"loadCommit", "loadBlob"})
      BY <1>7, <2>2 DEF Holding
    <3>2. QED
      BY <1>1, <1>2, <1>3, <2>1, <2>2, <3>1 DEF Holds, HoldsNumber, HoldsParent, HoldsVersion
  <2>3. CASE o.doc # d
    <3>1. HoldsNumber(reqs[p])' /\ HoldsParent(reqs[p])'
      <4>1. o.pc \in {"reparent", "append"} => o.doc \in Docs \ {d}
        BY <1>2, <2>3 DEF Carries, Waiting
      <4>2. QED
        BY <1>2, <1>3, <1>4, <2>1, <4>1 DEF Holds, HoldsNumber, HoldsParent, Top, Rows
    <3>2. HoldsVersion(reqs[p])'
      BY <1>2, <1>3, <1>4, <2>1, <2>3 DEF Holds, HoldsVersion, Outrun, Top, Rows
    <3>3. QED
      BY <3>1, <3>2 DEF Holds
  <2>4. QED
    BY <2>2, <2>3
<1>8. QED
  BY <1>5, <1>6, <1>7

LEMMA AppendHolds ==
  ASSUME IInv, NEW r \in Requests, AppendCommit(r), Paced', TInv'
  PROVE  IInv'
<1> DEFINE q   == reqs[r]
           d   == q.doc
           top == Top(d) + 1
           h   == history'[d]
<1>1. /\ d \in Docs /\ q.overtaken = 0 /\ q.no = top /\ Top(d) \in Nat
      /\ q.text \in blobs /\ docs[d] # "gone"
  BY AppendIsNext
<1>2. /\ \A e \in Docs \ {d} : history'[e] = history[e]
      /\ top \in DOMAIN h
      /\ h[top] = [id |-> nextId, parent |-> q.parent, text |-> q.text, via |-> q.kind]
      /\ \A m \in DOMAIN h : m <= top
      /\ \A m \in DOMAIN h \ {top} : m \in Rows(d) /\ h[m] = history[d][m]
      /\ Shape(h)
  BY AppendHistory
<1> HIDE DEF h
<1>3. /\ \A e \in Docs : head'[e] = IF e = d THEN nextId ELSE head[e]
      /\ nextId' = nextId + 1 /\ nextId \in Nat
      /\ UNCHANGED blobs
  BY <1>1 DEF AppendCommit, IInv, TInv, TypeOK
<1>4. HeadIsNewest'
  <2> SUFFICES ASSUME NEW e \in Docs
               PROVE  \/ head'[e] = 0 /\ DOMAIN history'[e] = {}
                      \/ \E n \in DOMAIN history'[e] :
                            /\ history'[e][n].id = head'[e]
                            /\ \A m \in DOMAIN history'[e] : m <= n
    BY DEF HeadIsNewest
  <2>1. CASE e = d
    BY <1>2, <1>3, <2>1 DEF h
  <2>2. CASE e # d
    BY <1>2, <1>3, <2>2 DEF IInv, HeadIsNewest
  <2>3. QED
    BY <2>1, <2>2
<1>5. CommitsHaveContent'
  <2> SUFFICES ASSUME NEW e \in Docs, NEW n \in DOMAIN history'[e]
               PROVE  history'[e][n].text \in blobs
    BY <1>3 DEF CommitsHaveContent
  <2>1. CASE e = d /\ n = top
    BY <1>1, <1>2, <2>1 DEF h
  <2>2. CASE e = d /\ n # top
    BY <1>1, <1>2, <2>2 DEF h, IInv, CommitsHaveContent, Rows
  <2>3. CASE e # d
    BY <1>2, <2>3 DEF IInv, CommitsHaveContent
  <2>4. QED
    BY <2>1, <2>2, <2>3
<1>6. \A m \in Rows(d) : m \in Nat \ {0} /\ m < top
  <2>1. \A m \in Rows(d) : m \in 1..Top(d)
    BY <1>1, RowsBelowTop DEF IInv, TInv, TypeOK, HistoriesHaveTop, Rows, Top
  <2>2. QED
    BY <1>1, <2>1
<1>7. RevertFollowsParent'
  <2> SUFFICES ASSUME NEW e \in Docs, NEW n \in DOMAIN history'[e],
                      history'[e][n].via = "revert", n - 1 \in DOMAIN history'[e]
               PROVE  history'[e][n].parent = history'[e][n - 1].id
    BY DEF RevertFollowsParent
  <2>1. CASE e = d /\ n = top
    <3>1. Top(d) \in DOMAIN h /\ Top(d) # top
      BY <1>1, <2>1 DEF h
    <3>2. Top(d) \in Rows(d) /\ h[Top(d)] = history[d][Top(d)]
      BY <1>2, <3>1
    <3>3. history[d][Top(d)].id = head[d]
      BY <1>1, <3>2, HeadRow DEF IInv
    <3>4. q.pc = "append" /\ q.kind = "revert" /\ Holds(q)
      BY <1>2, <2>1, RequestFacts DEF h, AppendCommit
    <3>5. q.no > 1
      BY <1>1, <1>6, <3>2
    <3>6. q.parent = head[d]
      BY <1>1, <3>4, <3>5 DEF Holds, HoldsParent
    <3>7. QED
      BY <1>1, <1>2, <2>1, <3>2, <3>3, <3>6 DEF h
  <2>2. CASE e = d /\ n # top
    <3>1. n \in Rows(d) /\ h[n] = history[d][n]
      BY <1>2, <2>2 DEF h
    <3>2. n - 1 # top
      BY <1>1, <1>6, <3>1
    <3>3. n - 1 \in Rows(d) /\ h[n - 1] = history[d][n - 1]
      BY <1>2, <2>2, <3>2 DEF h
    <3>4. QED
      BY <1>1, <2>2, <3>1, <3>3 DEF h, IInv, RevertFollowsParent, Rows
  <2>3. CASE e # d
    BY <1>2, <2>3 DEF IInv, RevertFollowsParent
  <2>4. QED
    BY <2>1, <2>2, <2>3
<1>8. HistoryShape'
  <2>1. \A e \in Docs : Shape(history'[e])
    BY <1>2 DEF h, IInv, HistoryShape
  <2>2. QED
    BY <2>1 DEF HistoryShape, Shape
<1>9. FreshIds'
  <2>1. ASSUME NEW e \in Docs, NEW n \in DOMAIN history'[e], ~ (e = d /\ n = top)
        PROVE  n \in Rows(e) /\ history'[e][n] = history[e][n]
               /\ history[e][n].id < nextId /\ history[e][n].id \in Nat
    <3>1. n \in Rows(e) /\ history'[e][n] = history[e][n]
      BY <1>2, <2>1 DEF h, Rows
    <3>2. QED
      BY <3>1 DEF IInv, FreshIds, TInv, TypeOK, Commit, Rows
  <2>2. history'[d][top].id = nextId
    BY <1>2 DEF h
  <2> SUFFICES ASSUME NEW e \in Docs, NEW n \in DOMAIN history'[e]
               PROVE  /\ history'[e][n].id < nextId'
                      /\ \A f \in Docs : \A m \in DOMAIN history'[f] :
                            history'[e][n].id = history'[f][m].id => e = f /\ n = m
    BY DEF FreshIds, Rows
  <2>3. history'[e][n].id < nextId'
    BY <1>3, <2>1, <2>2
  <2>4. ASSUME NEW f \in Docs, NEW m \in DOMAIN history'[f],
               history'[e][n].id = history'[f][m].id
        PROVE  e = f /\ n = m
    <3>1. CASE (e = d /\ n = top) /\ (f = d /\ m = top)
      BY <3>1
    <3>2. CASE (e = d /\ n = top) /\ ~ (f = d /\ m = top)
      BY <1>3, <2>1, <2>2, <2>4, <3>2
    <3>3. CASE ~ (e = d /\ n = top) /\ (f = d /\ m = top)
      BY <1>3, <2>1, <2>2, <2>4, <3>3
    <3>4. CASE ~ (e = d /\ n = top) /\ ~ (f = d /\ m = top)
      BY <2>1, <2>4, <3>4 DEF IInv, FreshIds
    <3>5. QED
      BY <3>1, <3>2, <3>3, <3>4
  <2>5. QED
    BY <2>3, <2>4
<1>10. RequestsHold'
  BY AppendKeepsRequests DEF RequestsHold
<1>11. SafeLimits'
  BY DEF IInv, SafeLimits
<1>12. QED
  BY <1>4, <1>5, <1>7, <1>8, <1>9, <1>10, <1>11 DEF IInv

-----------------------------------------------------------------------------
(* The recycle bin and blob collection *)

\* Trashing and restoring a document, and collecting blobs, leave every history
\* alone and make no document gone.
LEMMA KeptHistoriesHold ==
  ASSUME IInv, TInv', UNCHANGED <<head, history, nextId, reqs>>,
         \A d \in Docs : docs[d] = "gone" <=> docs'[d] = "gone",
         CommitsHaveContent'
  PROVE  IInv'
<1>1. HeadIsNewest' /\ RevertFollowsParent' /\ HistoryShape' /\ FreshIds' /\ SafeLimits'
  BY DEF IInv, HeadIsNewest, RevertFollowsParent, HistoryShape, FreshIds, Rows, SafeLimits
<1>2. ASSUME NEW p \in Requests PROVE Holds(reqs[p])'
  <2>1. Carries(reqs[p]) /\ Holds(reqs[p])
    BY RequestFacts
  <2>2. reqs[p].pc \in {"reparent", "append"} => reqs[p].doc \in Docs
    BY <2>1 DEF Carries, Waiting
  <2>3. HoldsNumber(reqs[p])' /\ HoldsParent(reqs[p])'
    BY <2>1, <2>2 DEF Holds, HoldsNumber, HoldsParent, Top, Rows
  <2>4. HoldsVersion(reqs[p])'
    BY <2>1 DEF Holds, HoldsVersion, Top, Rows
  <2>5. QED
    BY <2>3, <2>4 DEF Holds
<1>3. RequestsHold'
  BY <1>2 DEF RequestsHold
<1>4. QED
  BY <1>1, <1>3 DEF IInv

LEMMA PurgeHolds ==
  ASSUME IInv, NEW d \in Docs, Purge(d), TInv'
  PROVE  IInv'
<1>1. /\ \A e \in Docs \ {d} : history'[e] = history[e] /\ head'[e] = head[e]
                               /\ docs'[e] = docs[e]
      /\ DOMAIN history'[d] = {} /\ head'[d] = 0 /\ docs'[d] = "gone"
      /\ UNCHANGED <<blobs, nextId, reqs>>
  BY DEF Purge, IInv, TInv, TypeOK, NoHistory
<1>2. HeadIsNewest'
  BY <1>1 DEF IInv, HeadIsNewest
<1>3. CommitsHaveContent' /\ RevertFollowsParent'
  BY <1>1 DEF IInv, CommitsHaveContent, RevertFollowsParent
<1>4. FreshIds'
  BY <1>1 DEF IInv, FreshIds, Rows
<1>5. HistoryShape'
  <2>1. \A e \in Docs : Shape(history'[e])
    BY <1>1, EmptyShape DEF IInv, HistoryShape
  <2>2. QED
    BY <2>1 DEF HistoryShape, Shape
<1>6. ASSUME NEW p \in Requests PROVE Holds(reqs[p])'
  <2>1. Carries(reqs[p]) /\ Holds(reqs[p])
    BY RequestFacts
  <2>2. reqs[p].pc \in {"reparent", "append"} => reqs[p].doc \in Docs
    BY <2>1 DEF Carries, Waiting
  <2>3. HoldsNumber(reqs[p])' /\ HoldsParent(reqs[p])'
    BY <1>1, <2>1, <2>2 DEF Holds, HoldsNumber, HoldsParent, Top, Rows
  <2>4. HoldsVersion(reqs[p])'
    BY <1>1, <2>1 DEF Holds, HoldsVersion, Top, Rows
  <2>5. QED
    BY <2>3, <2>4 DEF Holds
<1>7. RequestsHold'
  BY <1>6 DEF RequestsHold
<1>8. SafeLimits'
  BY DEF IInv, SafeLimits
<1>9. QED
  BY <1>2, <1>3, <1>4, <1>5, <1>7, <1>8 DEF IInv

\* Blob collection spares every blob a version refers to.
LEMMA GCKeepsContent ==
  ASSUME CommitsHaveContent, GCBlobs
  PROVE  CommitsHaveContent'
<1> SUFFICES ASSUME NEW d \in Docs, NEW n \in DOMAIN history[d]
             PROVE  history[d][n].text \in blobs'
  BY DEF CommitsHaveContent, GCBlobs
<1>1. history[d][n].text \in blobs
  BY DEF CommitsHaveContent
<1>2. history[d][n].text \in Referenced
  BY DEF Referenced
<1>3. QED
  BY <1>1, <1>2 DEF GCBlobs

LEMMA NextHolds == IInv /\ [Next /\ Paced']_vars => IInv'
<1> SUFFICES ASSUME IInv, [Next /\ Paced']_vars PROVE IInv'
  OBVIOUS
<1>0. TInv'
  BY NextTyped DEF IInv
<1>1. CASE (\E r \in Requests : Step(r)) /\ Paced'
  <2>1. PICK r \in Requests : Step(r)
    BY <1>1
  <2>2. CASE AppendCommit(r)
    BY <1>0, <1>1, <2>2, AppendHolds
  <2>3. CASE ~ AppendCommit(r)
    <3>1. PICK rec : GoOn(r, rec) /\ Holds(rec)
      BY <2>1, <2>3, StepGoesOn
    <3>2. UNCHANGED <<docs, head, history, nextId>> /\ blobs \subseteq blobs'
      BY <2>1, <2>3 DEF Step, Database, BeginCommit, CheckBase, SubmitForReview,
         PutBlob, TakeNumber, ReadFreshHead, AppendFails, BeginReview, FinishReview,
         BeginRevert, BeginRead, LoadCommit, LoadBlob, Stop
    <3>3. QED
      BY <1>0, <3>1, <3>2, GoOnHolds
  <2>4. QED
    BY <2>2, <2>3
<1>2. CASE \E d \in Docs : SoftDelete(d) \/ Restore(d)
  <2>1. PICK d \in Docs : SoftDelete(d) \/ Restore(d)
    BY <1>2
  <2>2. UNCHANGED <<head, history, blobs, nextId, reqs>>
    BY <2>1 DEF SoftDelete, Restore
  <2>3. \A e \in Docs : docs[e] = "gone" <=> docs'[e] = "gone"
    BY <2>1 DEF SoftDelete, Restore, IInv, TInv, TypeOK
  <2>4. CommitsHaveContent'
    BY <2>2 DEF IInv, CommitsHaveContent
  <2>5. QED
    BY <1>0, <2>2, <2>3, <2>4, KeptHistoriesHold
<1>3. CASE \E d \in Docs : Purge(d)
  BY <1>0, <1>3, PurgeHolds
<1>4. CASE GCBlobs
  <2>1. CommitsHaveContent'
    BY <1>4, GCKeepsContent DEF IInv
  <2>2. UNCHANGED <<docs, head, history, nextId, reqs>>
    BY <1>4 DEF GCBlobs
  <2>3. QED
    BY <1>0, <2>1, <2>2, KeptHistoriesHold
<1>5. CASE UNCHANGED vars
  <2>1. UNCHANGED <<docs, head, history, blobs, nextId, reqs>>
    BY <1>5 DEF vars
  <2>2. CommitsHaveContent'
    BY <2>1 DEF IInv, CommitsHaveContent
  <2>3. QED
    BY <1>0, <2>1, <2>2, KeptHistoriesHold
<1>6. QED
  BY <1>1, <1>2, <1>3, <1>4, <1>5 DEF Next

\* HEAD is the newest row and names it, whatever requests race, as long as none
\* is overtaken by more commits than every limit on versions keeps.
THEOREM HeadStaysNewest == SafeLimits /\ PacedSpec => []HeadIsNewest
<1>1. IInv => HeadIsNewest
  BY DEF IInv
<1>2. QED
  BY InitHolds, NextHolds, <1>1, PTL DEF PacedSpec

\* Under the same condition a reader of HEAD gets its text, unless the document
\* is purged or as many commits overtake the reader as one of them was to keep.
THEOREM ReadersFindHead == SafeLimits /\ PacedSpec => []ReaderFindsHead
<1>1. IInv => ReaderFindsHead
  BY DEF IInv, ReaderFindsHead, RequestsHold, Holds, HoldsVersion, Outrun
<1>2. QED
  BY InitHolds, NextHolds, <1>1, PTL DEF PacedSpec

\* Under the same condition the parent of a revert is the version before it.
THEOREM RevertsFollowParent == SafeLimits /\ PacedSpec => []RevertFollowsParent
<1>1. IInv => RevertFollowsParent
  BY DEF IInv
<1>2. QED
  BY InitHolds, NextHolds, <1>1, PTL DEF PacedSpec

-----------------------------------------------------------------------------
(* Contents, without a condition on the limits *)

LEMMA NextKeepsContent ==
  TInv /\ CommitsHaveContent /\ [Next]_vars => CommitsHaveContent'
<1> SUFFICES ASSUME TInv, CommitsHaveContent, [Next]_vars PROVE CommitsHaveContent'
  OBVIOUS
<1>1. CASE UNCHANGED history /\ blobs \subseteq blobs'
  BY <1>1 DEF CommitsHaveContent
<1>2. ASSUME NEW r \in Requests, AppendCommit(r) PROVE CommitsHaveContent'
  <2> DEFINE q == reqs[r]
             row == [id |-> nextId, parent |-> q.parent, text |-> q.text, via |-> q.kind]
  <2>1. q.text \in blobs /\ UNCHANGED blobs
    BY <1>2 DEF AppendCommit, Dangling
  <2>2. PICK limit \in VersionLimits :
          history' = [history EXCEPT ![q.doc] = Trim(Insert(@, q.no, row), limit)]
    BY <1>2 DEF AppendCommit
  <2>3. ASSUME NEW h, NEW m \in DOMAIN Trim(Insert(h, q.no, row), limit)
        PROVE  \/ Trim(Insert(h, q.no, row), limit)[m] = row
               \/ m \in DOMAIN h /\ Trim(Insert(h, q.no, row), limit)[m] = h[m]
    BY DEF Trim, Insert
  <2>4. ASSUME NEW e \in Docs, NEW n \in DOMAIN history'[e]
        PROVE  history'[e][n].text \in blobs
    <3>1. CASE e = q.doc
      <4>1. history'[e] = Trim(Insert(history[e], q.no, row), limit)
        BY <2>2, <3>1 DEF TInv, TypeOK
      <4>2. n \in DOMAIN Trim(Insert(history[e], q.no, row), limit)
        BY <4>1
      <4>3. \/ Trim(Insert(history[e], q.no, row), limit)[n] = row
            \/ /\ n \in DOMAIN history[e]
               /\ Trim(Insert(history[e], q.no, row), limit)[n] = history[e][n]
        BY <2>3, <4>2
      <4>4. \/ history'[e][n] = row
            \/ n \in DOMAIN history[e] /\ history'[e][n] = history[e][n]
        BY <4>1, <4>3
      <4>5. QED
        BY <2>1, <4>4 DEF CommitsHaveContent
    <3>2. CASE e # q.doc
      BY <2>2, <3>2 DEF CommitsHaveContent, TInv, TypeOK
    <3>3. QED
      BY <3>1, <3>2
  <2>5. QED
    BY <2>1, <2>4 DEF CommitsHaveContent
<1>3. ASSUME NEW d \in Docs, Purge(d) PROVE CommitsHaveContent'
  <2>1. \A e \in Docs : history'[e] = history[e] \/ DOMAIN history'[e] = {}
    BY <1>3 DEF Purge, NoHistory, TInv, TypeOK
  <2>2. UNCHANGED blobs
    BY <1>3 DEF Purge
  <2>3. QED
    BY <2>1, <2>2 DEF CommitsHaveContent
<1>4. CASE GCBlobs
  BY <1>4, GCKeepsContent
<1>5. ASSUME NEW r \in Requests, Step(r), ~ AppendCommit(r)
      PROVE  UNCHANGED history /\ blobs \subseteq blobs'
  BY <1>5 DEF Step, Database, BeginCommit, CheckBase, SubmitForReview,
     PutBlob, TakeNumber, ReadFreshHead, AppendFails, BeginReview, FinishReview,
     BeginRevert, BeginRead, LoadCommit, LoadBlob, Stop
<1>6. CASE (\E d \in Docs : SoftDelete(d) \/ Restore(d)) \/ UNCHANGED vars
  BY <1>1, <1>6 DEF SoftDelete, Restore, vars
<1>7. QED
  BY <1>1, <1>2, <1>3, <1>4, <1>5, <1>6 DEF Next

\* The text of every version can be read, for any limits: the foreign key on the
\* blob refuses an append whose blob was collected.
THEOREM ContentStays == Spec => []CommitsHaveContent
<1>1. Init => CommitsHaveContent
  BY DEF Init, NoHistory, CommitsHaveContent
<1>2. QED
  BY InitTyped, NextTyped, NextKeepsContent, <1>1, PTL DEF Spec

-----------------------------------------------------------------------------
(* Review *)

\* An approval that reached its verdict has published its submission.
ApprovalsPublished ==
    /\ ApprovedWasPublished
    /\ \A r \in Requests :
          reqs[r].pc = "finish" /\ reqs[r].kind = "approve"
          => reqs[r].sub \in published

LEMMA NextKeepsApprovals ==
  TInv /\ ApprovalsPublished /\ [Next]_vars => ApprovalsPublished'
<1> SUFFICES ASSUME TInv, ApprovalsPublished, [Next]_vars PROVE ApprovalsPublished'
  OBVIOUS
<1>1. CASE /\ published \subseteq published'
           /\ \A s \in subs' : s.status = "approved" => s \in subs
           /\ \A p \in Requests :
                reqs'[p].pc = "finish" /\ reqs'[p].kind = "approve"
                => reqs'[p].sub \in published'
  BY <1>1 DEF ApprovalsPublished, ApprovedWasPublished
<1>2. ASSUME NEW r \in Requests, NEW rec, GoOn(r, rec), rec.pc # "finish" \/ rec.kind # "approve",
             published \subseteq published'
      PROVE  \A p \in Requests :
                reqs'[p].pc = "finish" /\ reqs'[p].kind = "approve"
                => reqs'[p].sub \in published'
  BY <1>2 DEF GoOn, ApprovalsPublished, TInv, TypeOK
<1>3. ASSUME NEW r \in Requests, AppendCommit(r) PROVE ApprovalsPublished'
  <2>1. published \subseteq published' /\ UNCHANGED subs
    BY <1>3 DEF AppendCommit
  <2>2. ASSUME NEW p \in Requests, reqs'[p].pc = "finish", reqs'[p].kind = "approve"
        PROVE  reqs'[p].sub \in published'
    <3>1. reqs[r] \in Request /\ reqs[p] \in Request
      BY DEF TInv, TypeOK
    <3>2. CASE p = r
      <4>1. reqs'[p] = AfterAppend(r)
        BY <1>3, <3>2 DEF AppendCommit
      <4>2. reqs[r].kind = "approve" /\ reqs'[p].sub = reqs[r].sub
        BY <2>2, <3>1, <4>1 DEF AfterAppend, Succeeded, Idle, Request
      <4>3. QED
        BY <1>3, <4>2 DEF AppendCommit
    <3>3. CASE p # r
      <4>1. reqs'[p] = reqs[p] \/ \E limit : reqs'[p] = Overtaken(reqs[p], limit)
        BY <1>3, <3>3 DEF AppendCommit
      <4>2. /\ reqs'[p].pc = reqs[p].pc /\ reqs'[p].kind = reqs[p].kind
            /\ reqs'[p].sub = reqs[p].sub
        BY <3>1, <4>1 DEF Request, Overtaken
      <4>3. QED
        BY <2>1, <2>2, <4>2 DEF ApprovalsPublished
    <3>4. QED
      BY <3>2, <3>3
  <2>3. QED
    BY <2>1, <2>2 DEF ApprovalsPublished, ApprovedWasPublished
<1>4. ASSUME NEW r \in Requests, FinishReview(r) PROVE ApprovalsPublished'
  <2> DEFINE q == reqs[r]
  <2>1. UNCHANGED published /\ q.pc = "finish" /\ q \in Request
    BY <1>4 DEF FinishReview, TInv, TypeOK
  <2>2. GoOn(r, Succeeded) \/ GoOn(r, Failed(q, "missing"))
    BY <1>4 DEF FinishReview
  <2>3. \A p \in Requests : reqs'[p].pc = "finish" /\ reqs'[p].kind = "approve"
                            => reqs'[p].sub \in published'
    BY <1>2, <2>1, <2>2 DEF Succeeded, Failed, Idle
  <2>4. ASSUME NEW s \in subs', s.status = "approved" PROVE s.id \in published
    <3>1. CASE s \in subs
      BY <2>4, <3>1 DEF ApprovalsPublished, ApprovedWasPublished
    <3>2. CASE s \notin subs
      <4>1. PICK t \in PendingSubmission(q.sub) :
              s = [t EXCEPT !.status = IF q.kind = "approve" THEN "approved"
                                       ELSE "rejected"]
        BY <1>4, <3>2 DEF FinishReview
      <4>2. t \in Submission /\ t.id = q.sub
        BY DEF PendingSubmission, TInv, TypeOK
      <4>3. q.kind = "approve" /\ s.id = q.sub
        BY <2>4, <4>1, <4>2 DEF Submission
      <4>4. QED
        BY <2>1, <4>3 DEF ApprovalsPublished
    <3>3. QED
      BY <3>1, <3>2
  <2>5. QED
    BY <2>1, <2>3, <2>4 DEF ApprovalsPublished, ApprovedWasPublished
<1>5. ASSUME NEW r \in Requests, SubmitForReview(r) PROVE ApprovalsPublished'
  <2>1. UNCHANGED published
    BY <1>5 DEF SubmitForReview
  <2>2. GoOn(r, Succeeded) \/ GoOn(r, Failed(reqs[r], "invalid"))
    BY <1>5 DEF SubmitForReview
  <2>3. \A s \in subs' : s.status = "approved" => s \in subs
    BY <1>5 DEF SubmitForReview
  <2>4. \A p \in Requests : reqs'[p].pc = "finish" /\ reqs'[p].kind = "approve"
                            => reqs'[p].sub \in published'
    BY <1>2, <2>1, <2>2 DEF Succeeded, Failed, Idle
  <2>5. QED
    BY <1>1, <2>1, <2>3, <2>4
<1>6. ASSUME NEW r \in Requests, Step(r), ~ AppendCommit(r), ~ FinishReview(r),
             ~ SubmitForReview(r)
      PROVE  ApprovalsPublished'
  <2> DEFINE q == reqs[r]
  <2>q. q \in Request
    BY DEF TInv, TypeOK
  <2>1. UNCHANGED <<published, subs>>
    BY <1>6 DEF Step, Database, BeginCommit, CheckBase, PutBlob, TakeNumber,
       ReadFreshHead, AppendFails, BeginReview, BeginRevert, BeginRead, LoadCommit,
       LoadBlob, Stop
  <2>2. \E rec : GoOn(r, rec) /\ (rec.pc # "finish" \/ rec.kind # "approve")
    <3>1. ASSUME NEW c, c \in Request, NEW p \in Checked(c) PROVE p.pc # "finish"
      <4>1. CASE p \in Routed(c)
        BY <3>1, <4>1 DEF Routed, Request
      <4>2. CASE p \in {Failed(c, "missing"), Failed(c, "conflict")}
        BY <4>2 DEF Failed, Idle
      <4>3. QED
        BY <3>1, <4>1, <4>2 DEF Checked
    <3>2. CASE BeginCommit(r)
      <4>1. PICK u \in Users, d \in Docs, base \in 0..(nextId - 1), t \in Contents :
              \E p \in Checked([Idle EXCEPT !.kind = "commit", !.user = u, !.doc = d,
                                            !.ref = base, !.text = t]) : GoOn(r, p)
        BY <3>2 DEF BeginCommit
      <4>2. [Idle EXCEPT !.kind = "commit", !.user = u, !.doc = d,
                         !.ref = base, !.text = t] \in Request
        <5>1. base \in Nat
          BY DEF TInv, TypeOK
        <5>2. QED
          BY <5>1 DEF Idle, Request, Kinds
      <4>3. QED
        BY <3>1, <4>1, <4>2
    <3>3. CASE CheckBase(r)
      BY <2>q, <3>1, <3>3 DEF CheckBase
    <3>4. CASE PutBlob(r)
      <4>1. [q EXCEPT !.pc = "number"].pc = "number"
        BY <2>q DEF Request
      <4>2. QED
        BY <3>4, <4>1 DEF PutBlob
    <3>5. CASE TakeNumber(r)
      <4> DEFINE n == MaxNo(DOMAIN history[q.doc]) + 1
                 p == [q EXCEPT !.no = n, !.overtaken = 0, !.limits = {},
                    !.parent = IF n > 1 THEN q.ref ELSE 0,
                    !.pc = IF q.kind = "revert" /\ n > 1
                           THEN "reparent" ELSE "append"]
      <4>1. GoOn(r, p)
        BY <3>5 DEF TakeNumber
      <4>2. p.pc \in {"reparent", "append"}
        BY <2>q DEF Request
      <4> HIDE DEF p
      <4>3. QED
        BY <4>1, <4>2
    <3>6. CASE ReadFreshHead(r)
      <4>1. [q EXCEPT !.pc = "append", !.parent = head[q.doc]].pc = "append"
        BY <2>q DEF Request
      <4>2. Failed(q, "missing").pc = "missing"
        BY DEF Failed, Idle
      <4>3. QED
        BY <3>6, <4>1, <4>2 DEF ReadFreshHead
    <3>7. CASE AppendFails(r)
      <4>1. Failed(q, "conflict").pc = "conflict" /\ Failed(q, "invalid").pc = "invalid"
        BY DEF Failed, Idle
      <4>2. QED
        BY <3>7, <4>1 DEF AppendFails
    <3>8. CASE LoadCommit(r)
      <4>1. ASSUME NEW t PROVE [q EXCEPT !.pc = "loadBlob", !.text = t].pc = "loadBlob"
        BY <2>q DEF Request
      <4>2. Failed(q, "missing").pc = "missing"
        BY DEF Failed, Idle
      <4>3. CASE GoOn(r, Failed(q, "missing"))
        BY <4>2, <4>3
      <4>4. CASE \E n \in DOMAIN history[q.doc] :
              GoOn(r, [q EXCEPT !.pc = "loadBlob", !.text = history[q.doc][n].text])
        BY <4>1, <4>4
      <4>5. QED
        BY <3>8, <4>3, <4>4 DEF LoadCommit
    <3>9. CASE LoadBlob(r)
      <4>1. [q EXCEPT !.pc = "put", !.overtaken = 0, !.limits = {}].pc = "put"
        BY <2>q DEF Request
      <4>2. Failed(q, "missing").pc = "missing" /\ Succeeded.pc = "idle"
        BY DEF Failed, Idle, Succeeded
      <4>3. QED
        BY <3>9, <4>1, <4>2 DEF LoadBlob
    <3>10. CASE BeginReview(r)
      <4>1. PICK s \in subs, u \in Reviewers, action \in {"approve", "reject"} :
              GoOn(r, [Idle EXCEPT !.kind = action, !.user = u, !.doc = s.doc,
                         !.ref = s.base, !.text = s.text, !.sub = s.id,
                         !.pc = IF action = "approve" THEN "check" ELSE "finish"])
        BY <3>10 DEF BeginReview
      <4> DEFINE p == [Idle EXCEPT !.kind = action, !.user = u, !.doc = s.doc,
                         !.ref = s.base, !.text = s.text, !.sub = s.id,
                         !.pc = IF action = "approve" THEN "check" ELSE "finish"]
      <4>2. p.pc # "finish" \/ p.kind # "approve"
        BY DEF Idle
      <4> HIDE DEF p
      <4>3. QED
        BY <4>1, <4>2 DEF p
    <3>11. CASE BeginRevert(r) \/ BeginRead(r) \/ Stop(r)
      <4>1. ASSUME NEW kind, NEW d, NEW c
            PROVE  [Idle EXCEPT !.pc = "loadCommit", !.kind = kind,
                                !.doc = d, !.ref = c].pc = "loadCommit"
        BY DEF Idle
      <4>2. Idle.pc = "idle"
        BY DEF Idle
      <4>3. CASE BeginRevert(r)
        BY <4>1, <4>3 DEF BeginRevert
      <4>4. CASE BeginRead(r)
        BY <4>1, <4>4 DEF BeginRead
      <4>5. CASE Stop(r)
        BY <4>2, <4>5 DEF Stop
      <4>6. QED
        BY <3>11, <4>3, <4>4, <4>5
    <3>12. QED
      BY <1>6, <3>2, <3>3, <3>4, <3>5, <3>6, <3>7, <3>8, <3>9, <3>10, <3>11 DEF Step
  <2>3. QED
    BY <1>1, <1>2, <2>1, <2>2
<1>7. ASSUME NEW d \in Docs, SoftDelete(d) \/ Restore(d) \/ Purge(d)
      PROVE  ApprovalsPublished'
  <2>1. subs' \subseteq subs /\ UNCHANGED <<reqs, published>>
    BY <1>7 DEF SoftDelete, Restore, Purge
  <2>2. QED
    BY <2>1 DEF ApprovalsPublished, ApprovedWasPublished
<1>8. CASE GCBlobs \/ UNCHANGED vars
  BY <1>8 DEF GCBlobs, vars, ApprovalsPublished, ApprovedWasPublished
<1>9. QED
  BY <1>3, <1>4, <1>5, <1>6, <1>7, <1>8 DEF Next

\* An approved submission was published, for any limits on versions.
THEOREM ApprovalsAreTrue == Spec => []ApprovedWasPublished
<1>1. Init => ApprovalsPublished
  BY DEF Init, Idle, ApprovalsPublished, ApprovedWasPublished
<1>2. ApprovalsPublished => ApprovedWasPublished
  BY DEF ApprovalsPublished
<1>3. QED
  BY InitTyped, NextTyped, NextKeepsApprovals, <1>1, <1>2, PTL DEF Spec

\* A verdict stays as long as its document does, whoever decides at once.
THEOREM VerdictsStay == Spec => VerdictIsFinal
<1>1. ASSUME TInv, [Next]_vars
      PROVE  \A s \in subs : s.status # "pending" => s \in subs' \/ docs'[s.doc] = "gone"
  <2> SUFFICES ASSUME NEW s \in subs, s.status # "pending", s \notin subs'
               PROVE  docs'[s.doc] = "gone"
    OBVIOUS
  <2>1. s.doc \in Docs
    BY <1>1 DEF TInv, TypeOK, Submission
  <2>2. ASSUME NEW d \in Docs, Purge(d) PROVE docs'[s.doc] = "gone"
    <3>1. s.doc = d
      BY <2>2 DEF Purge
    <3>2. QED
      BY <1>1, <2>1, <2>2, <3>1 DEF Purge, TInv, TypeOK
  <2>3. ASSUME NEW r \in Requests, FinishReview(r) PROVE FALSE
    BY <2>3 DEF FinishReview, PendingSubmission
  <2>4. ASSUME NEW r \in Requests, SubmitForReview(r) PROVE FALSE
    BY <2>4 DEF SubmitForReview
  <2>5. ASSUME NEW r \in Requests, Step(r), ~ FinishReview(r), ~ SubmitForReview(r)
        PROVE  FALSE
    BY <2>5 DEF Step, Database, BeginCommit, CheckBase, PutBlob, TakeNumber,
       ReadFreshHead, AppendCommit, AppendFails, BeginReview, BeginRevert, BeginRead,
       LoadCommit, LoadBlob, Stop
  <2>6. CASE \/ \E d \in Docs : SoftDelete(d) \/ Restore(d)
             \/ GCBlobs \/ UNCHANGED vars
    BY <2>6 DEF SoftDelete, Restore, GCBlobs, vars
  <2>7. QED
    BY <1>1, <2>2, <2>3, <2>4, <2>5, <2>6 DEF Next
<1>2. TInv /\ [Next]_vars =>
        [\A s \in subs : s.status # "pending" =>
            s \in subs' \/ docs'[s.doc] = "gone"]_vars
  BY <1>1
<1>3. QED
  BY InitTyped, NextTyped, <1>2, PTL DEF Spec, VerdictIsFinal

-----------------------------------------------------------------------------
(* The versions implement the register *)

\* The register's version and text of a document are those of its newest row.
LEMMA HeadIsTop ==
  IInv => \A d \in Docs :
            /\ HeadNo(d) = Top(d)
            /\ HeadText(d) = IF Top(d) = 0 THEN NoText ELSE history[d][Top(d)].text
<1> SUFFICES ASSUME IInv, NEW d \in Docs
             PROVE  /\ HeadNo(d) = Top(d)
                    /\ HeadText(d) = IF Top(d) = 0 THEN NoText
                                     ELSE history[d][Top(d)].text
  OBVIOUS
<1>1. CASE head[d] = 0 /\ Top(d) = 0
  BY <1>1 DEF HeadNo, HeadText
<1>2. CASE /\ Top(d) \in Rows(d) /\ history[d][Top(d)].id = head[d]
           /\ head[d] # 0 /\ Top(d) \in Nat \ {0}
  <2>1. \A n \in Rows(d) : history[d][n].id = head[d] => n = Top(d)
    BY <1>2 DEF IInv, FreshIds
  <2>2. HeadNo(d) = Top(d)
    BY <1>2, <2>1 DEF HeadNo, Rows
  <2>3. QED
    BY <1>2, <2>2 DEF HeadText
<1>3. QED
  BY <1>1, <1>2, HeadRow DEF IInv

\* The same before and after a step.
LEMMA HeadIsTopAfter ==
  IInv' => \A d \in Docs :
             /\ HeadNo(d)' = MaxNo(DOMAIN history'[d])
             /\ HeadText(d)' = IF MaxNo(DOMAIN history'[d]) = 0 THEN NoText
                               ELSE history'[d][MaxNo(DOMAIN history'[d])].text
<1>1. IInv' => (\A d \in Docs :
            /\ HeadNo(d) = Top(d)
            /\ HeadText(d) = IF Top(d) = 0 THEN NoText ELSE history[d][Top(d)].text)'
  BY HeadIsTop, PTL
<1>2. QED
  BY <1>1 DEF Top, Rows

LEMMA InitImplements == Init => Register!Init
  BY DEF Init, Register!Init, HeadNo, HeadText

LEMMA AppendPublishes ==
  ASSUME IInv, IInv', NEW r \in Requests, AppendCommit(r)
  PROVE  Register!Publish(reqs[r].doc)
<1> DEFINE q == reqs[r]
           d == q.doc
           top == Top(d) + 1
<1>1. d \in Docs /\ docs[d] # "gone" /\ Top(d) \in Nat /\ UNCHANGED docs
  BY AppendIsNext DEF AppendCommit
<1>2. /\ \A e \in Docs \ {d} : history'[e] = history[e] /\ head'[e] = head[e]
      /\ MaxNo(DOMAIN history'[d]) = top
      /\ history'[d][top].text = q.text
  <2>1. \A e \in Docs \ {d} : head'[e] = head[e]
    BY <1>1 DEF AppendCommit, IInv, TInv, TypeOK
  <2>2. \A e \in Docs \ {d} : history'[e] = history[e]
    BY AppendHistory
  <2>3. /\ MaxNo(DOMAIN history'[d]) = top
        /\ history'[d][top] = [id |-> nextId, parent |-> q.parent, text |-> q.text,
                               via |-> q.kind]
    BY AppendHistory
  <2>4. history'[d][top].text = q.text
    BY <2>3
  <2>5. QED
    BY <2>1, <2>2, <2>3, <2>4
<1>3. q.text \in Contents
  BY RequestFacts DEF AppendCommit, Carries
<1>4. \A e \in Docs : /\ HeadNo(e)' = IF e = d THEN HeadNo(e) + 1 ELSE HeadNo(e)
                      /\ HeadText(e)' = IF e = d THEN q.text ELSE HeadText(e)
  <2> SUFFICES ASSUME NEW e \in Docs
               PROVE  /\ HeadNo(e)' = IF e = d THEN HeadNo(e) + 1 ELSE HeadNo(e)
                      /\ HeadText(e)' = IF e = d THEN q.text ELSE HeadText(e)
    OBVIOUS
  <2>1. /\ HeadNo(e) = MaxNo(DOMAIN history[e])
        /\ HeadText(e) = IF MaxNo(DOMAIN history[e]) = 0 THEN NoText
                         ELSE history[e][MaxNo(DOMAIN history[e])].text
        /\ HeadNo(e)' = MaxNo(DOMAIN history'[e])
        /\ HeadText(e)' = IF MaxNo(DOMAIN history'[e]) = 0 THEN NoText
                          ELSE history'[e][MaxNo(DOMAIN history'[e])].text
    BY HeadIsTop, HeadIsTopAfter DEF Top, Rows
  <2>2. CASE e = d
    BY <1>1, <1>2, <2>1, <2>2 DEF Top, Rows
  <2>3. CASE e # d
    BY <1>2, <2>1, <2>3
  <2>4. QED
    BY <2>2, <2>3
<1> HIDE DEF d, q, top
<1>5. \E t \in Contents :
        [e \in Docs |-> HeadText(e)]' = [[e \in Docs |-> HeadText(e)] EXCEPT ![d] = t]
  BY <1>1, <1>3, <1>4
<1>6. [e \in Docs |-> HeadNo(e)]' = [[e \in Docs |-> HeadNo(e)] EXCEPT ![d] = @ + 1]
  BY <1>1, <1>4
<1>7. QED
  BY <1>1, <1>5, <1>6 DEF Register!Publish, d, q

LEMMA StepImplements ==
  IInv /\ IInv' /\ [Next]_vars => [Register!Next]_Register!vars
<1> SUFFICES ASSUME IInv, IInv', [Next]_vars
             PROVE  [Register!Next]_Register!vars
  OBVIOUS
<1>1. ASSUME NEW r \in Requests, AppendCommit(r)
      PROVE  Register!Next
  <2>1. reqs[r].doc \in Docs
    BY <1>1, AppendIsNext
  <2>2. QED
    BY <1>1, <2>1, AppendPublishes DEF Register!Next
<1>2. CASE UNCHANGED <<docs, head, history>>
  BY <1>2 DEF Register!vars, HeadNo, HeadText
<1>3. ASSUME NEW r \in Requests, Step(r), ~ AppendCommit(r)
      PROVE  UNCHANGED <<docs, head, history>>
  BY <1>3 DEF Step, Database, BeginCommit, CheckBase, SubmitForReview,
     PutBlob, TakeNumber, ReadFreshHead, AppendFails, BeginReview, FinishReview,
     BeginRevert, BeginRead, LoadCommit, LoadBlob, Stop
<1>4. ASSUME NEW d \in Docs, SoftDelete(d) \/ Restore(d)
      PROVE  Register!Next
  <2>1. UNCHANGED <<head, history>>
    BY <1>4 DEF SoftDelete, Restore
  <2>2. /\ [e \in Docs |-> HeadNo(e)]' = [e \in Docs |-> HeadNo(e)]
        /\ [e \in Docs |-> HeadText(e)]' = [e \in Docs |-> HeadText(e)]
    BY <2>1 DEF HeadNo, HeadText
  <2>3. Register!SoftDelete(d) \/ Register!Restore(d)
    BY <1>4, <2>2 DEF SoftDelete, Restore, Register!SoftDelete, Register!Restore
  <2>4. QED
    BY <2>3 DEF Register!Next
<1>5. ASSUME NEW d \in Docs, Purge(d)
      PROVE  Register!Next
  <2>1. /\ \A e \in Docs \ {d} : history'[e] = history[e] /\ head'[e] = head[e]
        /\ head'[d] = 0
    BY <1>5 DEF Purge, IInv, TInv, TypeOK
  <2>2. \A e \in Docs : /\ HeadNo(e)' = IF e = d THEN 0 ELSE HeadNo(e)
                        /\ HeadText(e)' = IF e = d THEN NoText ELSE HeadText(e)
    <3> SUFFICES ASSUME NEW e \in Docs
                 PROVE  /\ HeadNo(e)' = IF e = d THEN 0 ELSE HeadNo(e)
                        /\ HeadText(e)' = IF e = d THEN NoText ELSE HeadText(e)
      OBVIOUS
    <3>1. CASE e = d
      BY <2>1, <3>1 DEF HeadNo, HeadText
    <3>2. CASE e # d
      BY <2>1, <3>2, HeadIsTop, HeadIsTopAfter DEF Top, Rows
    <3>3. QED
      BY <3>1, <3>2
  <2>3. /\ [e \in Docs |-> HeadNo(e)]' = [[e \in Docs |-> HeadNo(e)] EXCEPT ![d] = 0]
        /\ [e \in Docs |-> HeadText(e)]' =
              [[e \in Docs |-> HeadText(e)] EXCEPT ![d] = NoText]
    BY <2>2
  <2>4. Register!Purge(d)
    BY <1>5, <2>3 DEF Purge, Register!Purge
  <2>5. QED
    BY <2>4 DEF Register!Next
<1>6. CASE GCBlobs \/ UNCHANGED vars
  BY <1>2, <1>6 DEF GCBlobs, vars
<1>7. QED
  BY <1>1, <1>2, <1>3, <1>4, <1>5, <1>6 DEF Next

\* Seen through HEAD, the versions of a document are a register: version numbers
\* go up by one, a text appears as a whole, and only a purge empties it.
THEOREM VersionsImplementRegister == SafeLimits /\ PacedSpec => ImplementsRegister
<1>1. SafeLimits /\ PacedSpec => []IInv
  BY InitHolds, NextHolds, PTL DEF PacedSpec
<1>2. QED
  BY <1>1, InitImplements, StepImplements, PTL
     DEF PacedSpec, ImplementsRegister, Register!Spec
=============================================================================
