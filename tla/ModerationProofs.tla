-------------------------- MODULE ModerationProofs --------------------------
(***************************************************************************)
(* What is shown has been approved, what is decided is decided once, and   *)
(* the queues are true: for any number of users, documents, comments,      *)
(* revisions, reports and requests.                                        *)
(***************************************************************************)
EXTENDS Moderation, TLAPS

\* What a request in flight is about.  One that will insert a comment is the only
\* one that knows the comment's id.
Fits ==
    \A q \in Requests : LET r == reqs[q] IN
        /\ r.pc = "insert" =>
              /\ r.on \in Comments /\ r.user \in Users /\ r.doc \in Docs
              /\ r.arg \in {"pending", "published"} /\ comments[r.on] = NoComment
              /\ \A p \in Requests : reqs[p].on = r.on => p = q
        /\ r.pc = "review" => r.on \in Comments /\ r.user \in Users /\ r.arg \in Verdicts
        /\ r.pc = "delete" => r.on \in Comments
        /\ r.pc = "page" => r.on \in Revs /\ r.user \in Users /\ r.arg \in Verdicts
        /\ r.pc = "visibility" => r.on \in Docs /\ r.arg \in Visibilities
        /\ r.pc = "report" => r.on \in Contents /\ r.user \in Users

\* What is remembered of hidden content, and what its row says meanwhile.
Remembered ==
    /\ \A d \in Docs : /\ hidden[d] \in Visibilities \cup {NoState}
                       /\ hidden[d] # NoState => docs[d].state # "gone"
    /\ \A c \in Comments : /\ hidden[c] \in {"pending", "published", NoState}
                           /\ hidden[c] # NoState => comments[c].status = "rejected"
    /\ \A u \in Users : hidden[u] \in Revs \cup {NoState}

Typed == TypeOK /\ Fits /\ Remembered

\* A page's pending revision is a revision of that page.
Owned == \A u \in Users : pages[u].pend # None => revs[pages[u].pend].page = u
PagesAgree == Owned /\ PendingIsCurrent /\ PagesShowPublished

\* What came in for review is not new any more, and is published, or will be when
\* it is brought back, only with an approval.
Approved(x) == \E v \in verdicts : v.on = x /\ v.action = "approve" /\ v.by # Author(x)
CommentsVetted ==
    \A c \in Comments \cap queued :
        /\ comments[c] # NoComment
        /\ comments[c].status = "published" \/ hidden[c] = "published" => Approved(c)
RevisionsVetted ==
    \A r \in Revs \cap queued : revs[r] # NoRevision /\ (revs[r].status = "published" => Approved(r))

\* What has a verdict is neither new nor pending, and will not be.
Decided ==
    /\ DecidedOnce
    /\ \A v \in verdicts :
          /\ v.on \in Comments => comments[v.on].status \notin {"none", "pending"} /\ hidden[v.on] # "pending"
          /\ v.on \in Revs => revs[v.on].status \notin {"none", "pending"}
          /\ v.on \in Reports => reports[v.on].status \notin {"none", "pending"}

Sound == Typed /\ PagesAgree /\ CommentsVetted /\ RevisionsVetted /\ Decided

-----------------------------------------------------------------------------
(* What leaves the parts of the invariant as they are *)

LEMMA InitSound == Init => Sound
<1>. SUFFICES ASSUME Init PROVE Sound
  OBVIOUS
<1>1. TypeOK
  BY DEF Init, TypeOK, Doc, Comment, Page, Rev, Report, Request, Idle, NoComment, NoRevision, EmptyPage,
         Visibilities, Statuses, Verdicts
<1>2. Fits /\ Remembered
  BY DEF Init, Fits, Remembered, Idle, Contents
<1>3. PagesAgree
  BY IdsAssumption DEF Init, PagesAgree, Owned, PendingIsCurrent, PendingRevisions, PagesShowPublished,
                       EmptyPage, NoRevision, Contents
<1>4. CommentsVetted /\ RevisionsVetted /\ Decided
  BY DEF Init, CommentsVetted, RevisionsVetted, Decided, DecidedOnce
<1>. QED
  BY <1>1, <1>2, <1>3, <1>4 DEF Sound, Typed

\* Requests end, and the row of a comment that is still to be inserted is not there.
LEMMA FitsKept ==
  ASSUME TypeOK, Fits, \A p \in Requests : reqs'[p] \in {reqs[p], Idle},
         \A p \in Requests : reqs'[p].pc = "insert" => comments'[reqs[p].on] = comments[reqs[p].on]
  PROVE  Fits'
<1>1. Idle.pc = "idle" /\ Idle.on = None
  BY DEF Idle
<1>2. None \notin Comments
  BY IdsAssumption DEF Contents
<1>. QED
  BY <1>1, <1>2 DEF Fits

LEMMA PagesKept ==
  ASSUME PagesAgree, pages' = pages, revs' = revs, \A u \in Users : hidden'[u] = hidden[u]
  PROVE  PagesAgree'
  BY DEF PagesAgree, Owned, PendingIsCurrent, PendingRevisions, PagesShowPublished

LEMMA RevisionsKept ==
  ASSUME RevisionsVetted, revs' = revs, queued' \cap Revs \subseteq queued, verdicts \subseteq verdicts'
  PROVE  RevisionsVetted'
<1>1. \A r \in Revs : Approved(r) => Approved(r)'
  BY IdsAssumption DEF Approved, Author
<1>. QED
  BY <1>1 DEF RevisionsVetted

LEMMA CommentsKept ==
  ASSUME CommentsVetted, verdicts \subseteq verdicts', queued' \cap Comments \subseteq queued,
         \A c \in Comments \cap queued : comments'[c] = comments[c] /\ hidden'[c] = hidden[c]
  PROVE  CommentsVetted'
<1>1. \A c \in Comments \cap queued : Approved(c) => Approved(c)'
  BY DEF Approved, Author
<1>. QED
  BY <1>1 DEF CommentsVetted

LEMMA DecidedKept ==
  ASSUME Decided, verdicts' = verdicts,
         \A c \in Comments : comments[c].status \notin {"none", "pending"} /\ hidden[c] # "pending"
             => comments'[c].status \notin {"none", "pending"} /\ hidden'[c] # "pending",
         \A r \in Revs : revs[r].status \notin {"none", "pending"} => revs'[r].status \notin {"none", "pending"},
         \A i \in Reports : reports[i].status \notin {"none", "pending"}
             => reports'[i].status \notin {"none", "pending"}
  PROVE  Decided'
  BY DEF Decided, DecidedOnce

\* What a reviewer decides was pending until now.
LEMMA VerdictDecides ==
  ASSUME Decided, NEW x, NEW action, NEW by, Record(x, action, by),
         x \in Comments => comments[x].status = "pending",
         x \in Revs => revs[x].status = "pending",
         x \in Reports => reports[x].status = "pending",
         x \in Comments \cup Revs \cup Reports,
         x \in Comments => comments'[x].status \notin {"none", "pending"} /\ hidden'[x] # "pending",
         x \in Revs => revs'[x].status \notin {"none", "pending"},
         x \in Reports => reports'[x].status \notin {"none", "pending"},
         \A c \in Comments \ {x} : comments'[c] = comments[c] /\ hidden'[c] = hidden[c],
         \A r \in Revs \ {x} : revs'[r] = revs[r],
         \A i \in Reports \ {x} : reports'[i] = reports[i]
  PROVE  Decided'
<1>1. verdicts' = verdicts \cup {[on |-> x, action |-> action, by |-> by]}
  BY DEF Record
<1>2. \A v \in verdicts : v.on # x
  BY DEF Decided
<1>3. DecidedOnce'
  BY <1>1, <1>2 DEF Decided, DecidedOnce
<1>4. ASSUME NEW v \in verdicts'
      PROVE  /\ v.on \in Comments => comments'[v.on].status \notin {"none", "pending"} /\ hidden'[v.on] # "pending"
             /\ v.on \in Revs => revs'[v.on].status \notin {"none", "pending"}
             /\ v.on \in Reports => reports'[v.on].status \notin {"none", "pending"}
  <2>1. CASE v.on = x
    BY <2>1
  <2>2. CASE v.on # x
    <3>1. v \in verdicts
      BY <1>1, <2>2
    <3>. QED
      BY <2>2, <3>1 DEF Decided
  <2>. QED
    BY <2>1, <2>2
<1>. QED
  BY <1>3, <1>4 DEF Decided

\* A request that has read comes as far as its write.
LEMMA BeginKeeps ==
  ASSUME Sound, NEW q \in Requests, NEW u, NEW pc, NEW on, NEW arg, NEW d, Begin(q, u, pc, on, arg, d),
         [pc |-> pc, user |-> u, on |-> on, arg |-> arg, doc |-> d] \in Request,
         pc = "insert" =>
            /\ on \in Comments /\ u \in Users /\ d \in Docs /\ arg \in {"pending", "published"}
            /\ comments[on] = NoComment /\ \A p \in Requests : reqs[p].on # on,
         pc # "insert" => (on \in Comments => comments[on] # NoComment),
         pc = "review" => on \in Comments /\ u \in Users /\ arg \in Verdicts,
         pc = "delete" => on \in Comments,
         pc = "page" => on \in Revs /\ u \in Users /\ arg \in Verdicts,
         pc = "visibility" => on \in Docs /\ arg \in Visibilities,
         pc = "report" => on \in Contents /\ u \in Users
  PROVE  Sound'
<1>. DEFINE e == [pc |-> pc, user |-> u, on |-> on, arg |-> arg, doc |-> d]
<1>1. reqs' = [reqs EXCEPT ![q] = e] /\ reqs \in [Requests -> Request]
  BY DEF Begin, Sound, Typed, TypeOK
<1>2. UNCHANGED <<admins, docs, comments, pages, revs, hidden, reports, verdicts, queued>>
  BY DEF Begin
<1>3. reqs'[q] = e /\ \A p \in Requests \ {q} : reqs'[p] = reqs[p]
  BY <1>1
<1>4. TypeOK'
  BY <1>1, <1>2 DEF Sound, Typed, TypeOK
<1>5. ASSUME NEW p \in Requests
      PROVE  LET r == reqs'[p] IN
        /\ r.pc = "insert" =>
              /\ r.on \in Comments /\ r.user \in Users /\ r.doc \in Docs
              /\ r.arg \in {"pending", "published"} /\ comments'[r.on] = NoComment
              /\ \A o \in Requests : reqs'[o].on = r.on => o = p
        /\ r.pc = "review" => r.on \in Comments /\ r.user \in Users /\ r.arg \in Verdicts
        /\ r.pc = "delete" => r.on \in Comments
        /\ r.pc = "page" => r.on \in Revs /\ r.user \in Users /\ r.arg \in Verdicts
        /\ r.pc = "visibility" => r.on \in Docs /\ r.arg \in Visibilities
        /\ r.pc = "report" => r.on \in Contents /\ r.user \in Users
  <2>1. CASE p = q
    BY <1>2, <1>3, <2>1
  <2>2. CASE p # q
    <3>1. reqs'[p] = reqs[p] /\ (reqs[p].pc = "insert" => on # reqs[p].on)
      BY <1>3, <2>2 DEF Sound, Typed, Fits
    <3>. QED
      BY <1>2, <1>3, <2>2, <3>1 DEF Sound, Typed, Fits
  <2>. QED
    BY <2>1, <2>2
<1>6. Fits'
  BY <1>5 DEF Fits
<1>7. Remembered'
  BY <1>2 DEF Sound, Typed, Remembered
<1>8. PagesAgree' /\ RevisionsVetted' /\ CommentsVetted' /\ Decided'
  BY <1>2, PagesKept, RevisionsKept, CommentsKept, DecidedKept DEF Sound
<1>. QED
  BY <1>4, <1>6, <1>7, <1>8 DEF Sound, Typed

-----------------------------------------------------------------------------
(* Comments and what happens to documents *)

LEMMA BeginsKeep ==
  ASSUME Sound, NEW q \in Requests, NEW u \in Users
  PROVE  /\ \A c \in Comments, d \in Docs, s \in {"pending", "published"} : AddComment(q, u, c, d, s) => Sound'
         /\ \A c \in Comments, a \in Verdicts : BeginReviewComment(q, u, c, a) => Sound'
         /\ \A c \in Comments : BeginDeleteComment(q, u, c) => Sound'
         /\ \A r \in Revs, a \in Verdicts : BeginReviewPage(q, u, r, a) => Sound'
         /\ \A c \in Contents : BeginReport(q, u, c) => Sound'
<1>. USE DEF Request
<1>0. NoComment.status = "none" /\ "none" \notin Statuses
  BY DEF NoComment, Statuses
<1>1. ASSUME NEW c \in Comments, NEW d \in Docs, NEW s \in {"pending", "published"}, AddComment(q, u, c, d, s)
      PROVE  Sound'
  <2>1. [pc |-> "insert", user |-> u, on |-> c, arg |-> s, doc |-> d] \in Request
    BY DEF Contents, Statuses
  <2>2. Begin(q, u, "insert", c, s, d) /\ comments[c] = NoComment /\ \A p \in Requests : reqs[p].on # c
    BY <1>1 DEF AddComment
  <2>. QED
    BY <2>1, <2>2, BeginKeeps
<1>2. ASSUME NEW c \in Comments, NEW a \in Verdicts, BeginReviewComment(q, u, c, a)
      PROVE  Sound'
  <2>1. [pc |-> "review", user |-> u, on |-> c, arg |-> a, doc |-> None] \in Request
    BY DEF Contents
  <2>2. Begin(q, u, "review", c, a, None) /\ comments[c] # NoComment
    BY <1>0, <1>2 DEF BeginReviewComment, Exists
  <2>. QED
    BY <2>1, <2>2, BeginKeeps
<1>3. ASSUME NEW c \in Comments, BeginDeleteComment(q, u, c)
      PROVE  Sound'
  <2>1. [pc |-> "delete", user |-> u, on |-> c, arg |-> "none", doc |-> None] \in Request
    BY DEF Contents
  <2>2. Begin(q, u, "delete", c, "none", None) /\ comments[c] # NoComment
    BY <1>0, <1>3 DEF BeginDeleteComment, Exists
  <2>. QED
    BY <2>1, <2>2, BeginKeeps
<1>4. ASSUME NEW r \in Revs, NEW a \in Verdicts, BeginReviewPage(q, u, r, a)
      PROVE  Sound'
  <2>1. [pc |-> "page", user |-> u, on |-> r, arg |-> a, doc |-> None] \in Request
    OBVIOUS
  <2>2. Begin(q, u, "page", r, a, None) /\ r \notin Comments
    BY <1>4, IdsAssumption DEF BeginReviewPage
  <2>. QED
    BY <2>1, <2>2, BeginKeeps
<1>5. ASSUME NEW c \in Contents, BeginReport(q, u, c)
      PROVE  Sound'
  <2>1. [pc |-> "report", user |-> u, on |-> c, arg |-> "none", doc |-> None] \in Request
    OBVIOUS
  <2>2. Begin(q, u, "report", c, "none", None)
    BY <1>5 DEF BeginReport
  <2>3. c \in Comments => comments[c] # NoComment
    BY <1>5, IdsAssumption DEF BeginReport, NoComment
  <2>. QED
    BY <2>1, <2>2, <2>3, BeginKeeps
<1>. QED
  BY <1>1, <1>2, <1>3, <1>4, <1>5

LEMMA BeginVisibilityKeeps ==
  ASSUME Sound, NEW q \in Requests, NEW d \in Docs, NEW v \in Visibilities, BeginSetVisibility(q, d, v)
  PROVE  Sound'
<1>1. [pc |-> "visibility", user |-> None, on |-> d, arg |-> v, doc |-> None] \in Request
  BY DEF Contents, Request
<1>2. Begin(q, None, "visibility", d, v, None) /\ d \notin Comments
  BY IdsAssumption DEF BeginSetVisibility
<1>. QED
  BY <1>1, <1>2, BeginKeeps

LEMMA EndTyped ==
  ASSUME TypeOK, NEW q \in Requests, End(q)
  PROVE  /\ reqs' \in [Requests -> Request]
         /\ \A p \in Requests : reqs'[p] = IF p = q THEN Idle ELSE reqs[p]
<1>1. Idle \in Request
  BY DEF Idle, Request
<1>. QED
  BY <1>1 DEF TypeOK, End

LEMMA CreateKeeps ==
  ASSUME Sound, NEW q \in Requests, CreateComment(q)
  PROVE  Sound'
<1>. DEFINE r == reqs[q]
            row == [status |-> r.arg, by |-> r.user, doc |-> r.doc]
<1>1. /\ UNCHANGED <<admins, docs, pages, revs, hidden, reports, verdicts>> /\ End(q) /\ r.pc = "insert"
      /\ \/ UNCHANGED <<comments, queued>>
         \/ /\ comments' = [comments EXCEPT ![r.on] = row]
            /\ queued' = IF r.arg = "pending" THEN queued \cup {r.on} ELSE queued
  BY DEF CreateComment, userPages, At
<1>2. /\ r.on \in Comments /\ r.user \in Users /\ r.doc \in Docs
      /\ r.arg \in {"pending", "published"} /\ comments[r.on] = NoComment
      /\ \A p \in Requests : reqs[p].on = r.on => p = q
  BY <1>1 DEF Sound, Typed, Fits
<1>3. /\ reqs' \in [Requests -> Request]
      /\ \A p \in Requests : reqs'[p] = IF p = q THEN Idle ELSE reqs[p]
  BY <1>1, EndTyped DEF Sound, Typed
<1>4. row \in Comment /\ comments \in [Comments -> Comment]
  BY <1>2 DEF Comment, Statuses, Sound, Typed, TypeOK
<1>5. TypeOK'
  BY <1>1, <1>2, <1>3, <1>4 DEF Sound, Typed, TypeOK
<1>6. \A c \in Comments \ {r.on} : comments'[c] = comments[c]
  BY <1>1, <1>4
<1>7. Fits'
  <2>1. \A p \in Requests : reqs'[p].pc = "insert" => comments'[reqs[p].on] = comments[reqs[p].on]
    <3>1. Idle.pc # "insert"
      BY DEF Idle
    <3>2. \A p \in Requests : reqs[p].pc = "insert" => reqs[p].on \in Comments
      BY DEF Sound, Typed, Fits
    <3>. QED
      BY <1>2, <1>3, <1>6, <3>1, <3>2
  <2>. QED
    BY <1>3, <2>1, FitsKept DEF Sound, Typed
<1>8. hidden[r.on] = NoState
  BY <1>2 DEF Sound, Typed, Remembered, NoComment
<1>9. Remembered'
  BY <1>1, <1>6, <1>8 DEF Sound, Typed, Remembered
<1>10. PagesAgree' /\ RevisionsVetted'
  <2>1. queued' \cap Revs \subseteq queued
    BY <1>1, <1>2, IdsAssumption
  <2>. QED
    BY <1>1, <2>1, PagesKept, RevisionsKept DEF Sound
<1>11. r.on \notin queued /\ \A v \in verdicts : v.on # r.on
  BY <1>2 DEF Sound, CommentsVetted, Decided, NoComment
<1>12. CommentsVetted'
  <2>1. \A c \in Comments \ {r.on} : Approved(c) => Approved(c)'
    BY <1>1, <1>6 DEF Approved, Author
  <2>2. r.on \in queued' => comments'[r.on] # NoComment /\ comments'[r.on].status = "pending"
    BY <1>1, <1>2, <1>4, <1>11 DEF NoComment
  <2>3. queued' \subseteq queued \cup {r.on}
    BY <1>1
  <2>. QED
    BY <1>1, <1>6, <1>8, <2>1, <2>2, <2>3 DEF Sound, CommentsVetted, NoState
<1>13. Decided'
  <2>1. \A v \in verdicts : v.on # r.on
    BY <1>11
  <2>. QED
    BY <1>1, <1>6, <2>1 DEF Sound, Decided, DecidedOnce
<1>. QED
  BY <1>5, <1>7, <1>9, <1>10, <1>12, <1>13 DEF Sound, Typed

LEMMA ReviewKeeps ==
  ASSUME Sound, NEW q \in Requests, ReviewComment(q), NEW c, c = reqs[q].on
  PROVE  Sound'
<1>. DEFINE r == reqs[q]
            status == IF r.arg = "approve" THEN "published" ELSE "rejected"
<1>1. /\ UNCHANGED <<admins, docs, pages, revs, hidden, reports, queued>> /\ End(q) /\ r.pc = "review"
      /\ \/ UNCHANGED <<comments, verdicts>>
         \/ /\ comments' = [comments EXCEPT ![c].status = status] /\ Record(c, r.arg, r.user)
            /\ comments[c].status = "pending" /\ comments[c].by # r.user
  BY DEF ReviewComment, userPages, At
<1>2. c \in Comments /\ r.user \in Users /\ r.arg \in Verdicts
  BY <1>1 DEF Sound, Typed, Fits
<1>3. /\ reqs' \in [Requests -> Request]
      /\ \A p \in Requests : reqs'[p] = IF p = q THEN Idle ELSE reqs[p]
  BY <1>1, EndTyped DEF Sound, Typed
<1>4. CASE UNCHANGED <<comments, verdicts>>
  <2>1. Fits'
    BY <1>3, <1>4, FitsKept DEF Sound, Typed
  <2>2. TypeOK' /\ Remembered'
    BY <1>1, <1>3, <1>4 DEF Sound, Typed, TypeOK, Remembered
  <2>. QED
    BY <1>1, <1>4, <2>1, <2>2, PagesKept, RevisionsKept, CommentsKept, DecidedKept DEF Sound, Typed
<1>5. CASE ~ UNCHANGED <<comments, verdicts>>
  <2>1. /\ comments' = [comments EXCEPT ![c].status = status] /\ Record(c, r.arg, r.user)
        /\ comments[c].status = "pending" /\ comments[c].by # r.user
    BY <1>1, <1>5
  <2>2. comments \in [Comments -> Comment] /\ verdicts \subseteq Verdict
    BY DEF Sound, Typed, TypeOK
  <2>3. /\ comments'[c].status = status /\ comments'[c].by = comments[c].by
        /\ \A x \in Comments \ {c} : comments'[x] = comments[x]
        /\ comments' \in [Comments -> Comment]
    BY <1>2, <2>1, <2>2 DEF Comment, Statuses
  <2>4. verdicts' = verdicts \cup {[on |-> c, action |-> r.arg, by |-> r.user]}
    BY <2>1 DEF Record
  <2>5. [on |-> c, action |-> r.arg, by |-> r.user] \in Verdict
    BY <1>2 DEF Verdict
  <2>6. TypeOK'
    BY <1>1, <1>3, <2>2, <2>3, <2>4, <2>5 DEF Sound, Typed, TypeOK
  <2>7. Fits'
    <3>1. \A p \in Requests : reqs[p].pc = "insert" => reqs[p].on \in Comments \ {c}
      BY <2>1 DEF Sound, Typed, Fits, NoComment
    <3>2. Idle.pc # "insert"
      BY DEF Idle
    <3>. QED
      BY <1>3, <2>3, <3>1, <3>2, FitsKept DEF Sound, Typed
  <2>8. hidden[c] = NoState
    BY <1>2, <2>1 DEF Sound, Typed, Remembered
  <2>9. Remembered'
    BY <1>1, <2>3, <2>8 DEF Sound, Typed, Remembered
  <2>10. PagesAgree' /\ RevisionsVetted'
    BY <1>1, <2>4, PagesKept, RevisionsKept DEF Sound
  <2>11. CommentsVetted'
    <3>1. \A x \in Comments \ {c} : Approved(x) => Approved(x)'
      BY <2>3, <2>4 DEF Approved, Author
    <3>2. CASE status = "published"
      <4>. DEFINE v == [on |-> c, action |-> r.arg, by |-> r.user]
      <4>1. v \in verdicts' /\ v.on = c /\ v.action = "approve" /\ v.by # comments'[c].by
        BY <2>1, <2>3, <2>4, <3>2
      <4>2. Author(c)' = comments'[c].by
        BY <1>2 DEF Author
      <4>. HIDE DEF v
      <4>3. Approved(c)'
        BY <4>1, <4>2 DEF Approved
      <4>4. comments'[c] # NoComment
        BY <2>3, <3>2 DEF NoComment
      <4>. QED
        BY <1>1, <2>3, <3>1, <4>3, <4>4 DEF Sound, CommentsVetted
    <3>3. CASE status # "published"
      <4>1. comments'[c].status = "rejected" /\ comments'[c] # NoComment
        BY <2>3, <3>3 DEF NoComment
      <4>2. hidden'[c] # "published"
        BY <1>1, <2>8 DEF NoState
      <4>. QED
        BY <1>1, <2>3, <3>1, <4>1, <4>2 DEF Sound, CommentsVetted
    <3>. QED
      BY <3>2, <3>3
  <2>12. Decided'
    BY <1>1, <1>2, <2>1, <2>3, <2>8, VerdictDecides, IdsAssumption DEF Sound, NoState
  <2>. QED
    BY <2>6, <2>7, <2>9, <2>10, <2>11, <2>12 DEF Sound, Typed
<1>. QED
  BY <1>4, <1>5

\* Comments may go with what was remembered of them, documents change, requests
\* end and reports be added: nothing more is shown than before.
LEMMA GoneKeeps ==
  ASSUME Sound, NEW gone \in SUBSET Comments, TypeOK',
         UNCHANGED <<pages, revs, verdicts, queued>>,
         \A c \in Comments : IF c \in gone
             THEN comments'[c] = [comments[c] EXCEPT !.status = "gone"] /\ hidden'[c] = NoState
             ELSE comments'[c] = comments[c] /\ hidden'[c] = hidden[c],
         \A u \in Users : hidden'[u] = hidden[u],
         \A d \in Docs : /\ hidden'[d] \in Visibilities \cup {NoState}
                         /\ hidden'[d] # NoState => docs'[d].state # "gone",
         \A i \in Reports : reports[i].status # "none" => reports'[i] = reports[i],
         \A p \in Requests : reqs'[p] \in {reqs[p], Idle},
         \A p \in Requests : reqs'[p].pc = "insert" => reqs[p].on \notin gone
  PROVE  Sound'
<1>0. comments \in [Comments -> Comment]
  BY DEF Sound, Typed, TypeOK
<1>1. \A c \in gone : /\ comments'[c].status = "gone" /\ comments'[c].by = comments[c].by
                      /\ comments'[c] # NoComment /\ hidden'[c] = NoState
  <2>. TAKE c \in gone
  <2>1. comments[c] \in Comment /\ hidden'[c] = NoState
    BY <1>0
  <2>2. comments'[c] = [comments[c] EXCEPT !.status = "gone"]
    OBVIOUS
  <2>3. comments'[c].status = "gone" /\ comments'[c].by = comments[c].by
    BY <2>1, <2>2 DEF Comment
  <2>4. comments'[c] # NoComment
    BY <2>3 DEF NoComment
  <2>. QED
    BY <2>1, <2>3, <2>4
<1>2. Fits'
  <2>1. \A p \in Requests : reqs'[p].pc = "insert" => comments'[reqs[p].on] = comments[reqs[p].on]
    <3>1. Idle.pc # "insert"
      BY DEF Idle
    <3>2. \A p \in Requests : reqs[p].pc = "insert" => reqs[p].on \in Comments
      BY DEF Sound, Typed, Fits
    <3>. QED
      BY <3>1, <3>2
  <2>. QED
    BY <2>1, FitsKept DEF Sound, Typed
<1>3. Remembered'
  BY DEF Sound, Typed, Remembered
<1>4. PagesAgree' /\ RevisionsVetted'
  BY PagesKept, RevisionsKept DEF Sound
<1>5. CommentsVetted'
  <2>1. \A c \in Comments : Approved(c) => Approved(c)'
    BY <1>1 DEF Approved, Author
  <2>2. NoState # "published"
    BY DEF NoState
  <2>. QED
    BY <1>1, <2>1, <2>2 DEF Sound, CommentsVetted
<1>6. Decided'
  <2>1. NoState # "pending"
    BY DEF NoState
  <2>. QED
    BY <1>1, <2>1, DecidedKept DEF Sound
<1>. QED
  BY <1>2, <1>3, <1>4, <1>5, <1>6 DEF Sound, Typed

LEMMA DeleteKeeps ==
  ASSUME Sound, NEW q \in Requests, DeleteComment(q)
  PROVE  Sound'
<1>. DEFINE c == reqs[q].on
<1>1. /\ End(q) /\ reqs[q].pc = "delete"
      /\ comments' = [comments EXCEPT ![c].status = "gone"] /\ hidden' = [hidden EXCEPT ![c] = NoState]
      /\ UNCHANGED <<admins, docs, pages, revs, reports, verdicts, queued>>
  BY DEF DeleteComment, userPages, At
<1>2. c \in Comments /\ c \notin Docs \cup Users /\ c \in Contents
  BY <1>1, IdsAssumption DEF Sound, Typed, Fits, Contents
<1>3. /\ reqs' \in [Requests -> Request]
      /\ \A p \in Requests : reqs'[p] = IF p = q THEN Idle ELSE reqs[p]
  BY <1>1, EndTyped DEF Sound, Typed
<1>4. comments \in [Comments -> Comment] /\ hidden \in [Contents -> Visibilities \cup Statuses \cup Revs \cup {NoState}]
  BY DEF Sound, Typed, TypeOK
<1>5. /\ comments' \in [Comments -> Comment] /\ comments'[c] = [comments[c] EXCEPT !.status = "gone"]
      /\ \A x \in Comments \ {c} : comments'[x] = comments[x]
  BY <1>1, <1>2, <1>4 DEF Comment
<1>6. /\ hidden' \in [Contents -> Visibilities \cup Statuses \cup Revs \cup {NoState}]
      /\ hidden'[c] = NoState /\ \A x \in Contents \ {c} : hidden'[x] = hidden[x]
  BY <1>1, <1>2, <1>4
<1>7. TypeOK'
  BY <1>1, <1>3, <1>5, <1>6 DEF Sound, Typed, TypeOK
<1>8. \A p \in Requests : reqs'[p].pc = "insert" => reqs[p].on # c
  <2>1. Idle.pc # "insert"
    BY DEF Idle
  <2>. QED
    BY <1>1, <1>3, <2>1 DEF Sound, Typed, Fits
<1>9. \A d \in Docs : /\ hidden'[d] \in Visibilities \cup {NoState}
                      /\ hidden'[d] # NoState => docs'[d].state # "gone"
  BY <1>1, <1>2, <1>6 DEF Sound, Typed, Remembered, Contents
<1>10. \A u \in Users : hidden'[u] = hidden[u]
  BY <1>2, <1>6 DEF Contents
<1>11. \A x \in Comments : IF x \in {c}
           THEN comments'[x] = [comments[x] EXCEPT !.status = "gone"] /\ hidden'[x] = NoState
           ELSE comments'[x] = comments[x] /\ hidden'[x] = hidden[x]
  BY <1>5, <1>6 DEF Contents
<1>. HIDE DEF c
<1>12. PICK gone \in SUBSET Comments : gone = {c}
  BY <1>2
<1>. QED
  BY <1>1, <1>3, <1>7, <1>8, <1>9, <1>10, <1>11, <1>12, GoneKeeps

LEMMA PurgeKeeps ==
  ASSUME Sound, NEW d \in Docs, PurgeSubtree(d)
  PROVE  Sound'
<1>0. PICK under \in SUBSET Comments : under = {c \in Comments : comments[c].doc = d /\ Exists(comments[c])}
  OBVIOUS
<1>1. /\ docs' = [docs EXCEPT ![d].state = "gone"]
      /\ comments' = [c \in Comments |-> IF c \in under THEN [comments[c] EXCEPT !.status = "gone"]
                                         ELSE comments[c]]
      /\ hidden' = [c \in Contents |-> IF c \in under \cup {d} THEN NoState ELSE hidden[c]]
      /\ UNCHANGED <<admins, pages, revs, reports, verdicts, reqs, queued>>
  BY <1>0 DEF PurgeSubtree, userPages
<1>2. /\ docs \in [Docs -> Doc] /\ comments \in [Comments -> Comment]
      /\ hidden \in [Contents -> Visibilities \cup Statuses \cup Revs \cup {NoState}]
  BY DEF Sound, Typed, TypeOK
<1>3. docs' \in [Docs -> Doc] /\ \A x \in Docs \ {d} : docs'[x] = docs[x]
  BY <1>1, <1>2 DEF Doc
<1>4. comments' \in [Comments -> Comment]
  BY <1>1, <1>2 DEF Comment
<1>5. hidden' \in [Contents -> Visibilities \cup Statuses \cup Revs \cup {NoState}]
  BY <1>1, <1>2
<1>6. TypeOK'
  BY <1>1, <1>3, <1>4, <1>5 DEF Sound, Typed, TypeOK
<1>7. /\ hidden'[d] = NoState /\ \A x \in Docs \ {d} : hidden'[x] = hidden[x]
      /\ \A u \in Users : hidden'[u] = hidden[u]
      /\ \A c \in Comments : hidden'[c] = IF c \in under THEN NoState ELSE hidden[c]
  BY <1>1, IdsAssumption DEF Contents
<1>8. \A x \in Docs : /\ hidden'[x] \in Visibilities \cup {NoState}
                      /\ hidden'[x] # NoState => docs'[x].state # "gone"
  BY <1>3, <1>7 DEF Sound, Typed, Remembered
<1>9. \A p \in Requests : reqs'[p].pc = "insert" => reqs[p].on \notin under
  BY <1>0, <1>1 DEF Sound, Typed, Fits, Exists, NoComment, Statuses
<1>. QED
  BY <1>1, <1>6, <1>7, <1>8, <1>9, GoneKeeps

\* Steps on documents, on requests and on roles alone.
LEMMA OutsideKeeps ==
  ASSUME Sound, TypeOK', UNCHANGED <<comments, pages, revs, hidden, verdicts, queued>>,
         \A d \in Docs : docs'[d].state = "gone" => docs[d].state = "gone" \/ hidden[d] = NoState,
         \A i \in Reports : reports[i].status # "none" => reports'[i] = reports[i],
         \A p \in Requests : reqs'[p] \in {reqs[p], Idle}
  PROVE  Sound'
<1>1. \A d \in Docs : /\ hidden'[d] \in Visibilities \cup {NoState}
                      /\ hidden'[d] # NoState => docs'[d].state # "gone"
  BY DEF Sound, Typed, Remembered
<1>2. PICK gone \in SUBSET Comments : gone = {}
  OBVIOUS
<1>. QED
  BY <1>1, <1>2, GoneKeeps

LEMMA DocumentsKeep ==
  ASSUME Sound,
         \/ \E q \in Requests : SetVisibility(q) \/ Stop(q)
         \/ \E d \in Docs : TrashOrRecover(d)
         \/ \E u \in Users : ChangeRole(u)
  PROVE  Sound'
<1>0. docs \in [Docs -> Doc] /\ admins \subseteq Users
  BY DEF Sound, Typed, TypeOK
<1>1. ASSUME NEW q \in Requests, SetVisibility(q) PROVE Sound'
  <2>. DEFINE d == reqs[q].on
  <2>1. d \in Docs /\ reqs[q].arg \in Visibilities
    BY <1>1 DEF SetVisibility, At, Sound, Typed, Fits
  <2>2. /\ reqs' \in [Requests -> Request]
        /\ \A p \in Requests : reqs'[p] = IF p = q THEN Idle ELSE reqs[p]
    BY <1>1, EndTyped DEF SetVisibility, Sound, Typed
  <2>3. docs' \in [Docs -> Doc] /\ \A x \in Docs : docs'[x].state = docs[x].state
    BY <1>0, <1>1, <2>1 DEF SetVisibility, Doc
  <2>4. TypeOK'
    BY <1>1, <2>2, <2>3 DEF SetVisibility, userPages, Sound, Typed, TypeOK
  <2>. QED
    BY <1>1, <2>2, <2>3, <2>4, OutsideKeeps DEF SetVisibility, userPages
<1>2. ASSUME NEW q \in Requests, Stop(q) PROVE Sound'
  <2>1. /\ reqs' \in [Requests -> Request]
        /\ \A p \in Requests : reqs'[p] = IF p = q THEN Idle ELSE reqs[p]
    BY <1>2, EndTyped DEF Stop, Sound, Typed
  <2>2. TypeOK'
    BY <1>2, <2>1 DEF Stop, threads, userPages, Sound, Typed, TypeOK
  <2>. QED
    BY <1>2, <2>1, <2>2, OutsideKeeps DEF Stop, threads, userPages
<1>3. ASSUME NEW d \in Docs, TrashOrRecover(d) PROVE Sound'
  <2>1. docs' \in [Docs -> Doc] /\ \A x \in Docs : docs'[x].state = "gone" => docs[x].state = "gone"
    BY <1>0, <1>3 DEF TrashOrRecover, Doc
  <2>2. TypeOK'
    BY <1>3, <2>1 DEF TrashOrRecover, userPages, Sound, Typed, TypeOK
  <2>. QED
    BY <1>3, <2>1, <2>2, OutsideKeeps DEF TrashOrRecover, userPages
<1>4. ASSUME NEW u \in Users, ChangeRole(u) PROVE Sound'
  <2>1. TypeOK'
    BY <1>0, <1>4 DEF ChangeRole, threads, userPages, Sound, Typed, TypeOK
  <2>. QED
    BY <1>4, <2>1, OutsideKeeps DEF ChangeRole, threads, userPages
<1>. QED
  BY <1>1, <1>2, <1>3, <1>4

LEMMA ReportsKeep ==
  ASSUME Sound, NEW i \in Reports,
         \/ \E q \in Requests : CreateContentReport(q, i)
         \/ \E u \in Users, a \in Closings : ReviewContentReport(u, i, a)
  PROVE  Sound'
<1>0. reports \in [Reports -> Report] /\ verdicts \subseteq Verdict
  BY DEF Sound, Typed, TypeOK
<1>1. ASSUME NEW q \in Requests, CreateContentReport(q, i) PROVE Sound'
  <2>. DEFINE row == [status |-> "pending", by |-> reqs[q].user, on |-> reqs[q].on]
  <2>1. row \in Report
    BY <1>1 DEF CreateContentReport, At, Sound, Typed, Fits, Report
  <2>2. /\ reqs' \in [Requests -> Request]
        /\ \A p \in Requests : reqs'[p] = IF p = q THEN Idle ELSE reqs[p]
    BY <1>1, EndTyped DEF CreateContentReport, Sound, Typed
  <2>3. reports' = reports \/ reports' = [reports EXCEPT ![i] = row]
    BY <1>1 DEF CreateContentReport
  <2>4. reports' \in [Reports -> Report] /\ \A j \in Reports \ {i} : reports'[j] = reports[j]
    BY <1>0, <2>1, <2>3
  <2>5. TypeOK'
    BY <1>1, <2>2, <2>4 DEF CreateContentReport, threads, userPages, Sound, Typed, TypeOK
  <2>6. reports[i].status = "none"
    BY <1>1 DEF CreateContentReport
  <2>. HIDE DEF row
  <2>. QED
    BY <1>1, <2>2, <2>4, <2>5, <2>6, OutsideKeeps DEF CreateContentReport, threads, userPages, Sound, Typed, Remembered
<1>2. ASSUME NEW u \in Users, NEW a \in Closings, ReviewContentReport(u, i, a) PROVE Sound'
  <2>. DEFINE status == IF a = "resolve" THEN "resolved" ELSE "dismissed"
  <2>1. /\ reports' = [reports EXCEPT ![i].status = status] /\ Record(i, a, u)
        /\ reports[i].status = "pending"
        /\ UNCHANGED <<admins, docs, comments, pages, revs, hidden, reqs, queued>>
    BY <1>2 DEF ReviewContentReport, threads, userPages
  <2>2. /\ reports' \in [Reports -> Report] /\ reports'[i].status = status
        /\ \A j \in Reports \ {i} : reports'[j] = reports[j]
    BY <1>0, <2>1 DEF Report
  <2>3. verdicts' = verdicts \cup {[on |-> i, action |-> a, by |-> u]}
    BY <2>1 DEF Record
  <2>4. [on |-> i, action |-> a, by |-> u] \in Verdict
    BY DEF Verdict
  <2>5. TypeOK' /\ Fits' /\ Remembered'
    BY <1>0, <2>1, <2>2, <2>3, <2>4 DEF Sound, Typed, TypeOK, Fits, Remembered
  <2>6. PagesAgree' /\ RevisionsVetted' /\ CommentsVetted'
    BY <2>1, <2>3, PagesKept, RevisionsKept, CommentsKept DEF Sound
  <2>7. Decided'
    BY <2>1, <2>2, VerdictDecides, IdsAssumption DEF Sound
  <2>. QED
    BY <2>5, <2>6, <2>7 DEF Sound, Typed
<1>. QED
  BY <1>1, <1>2

-----------------------------------------------------------------------------
(* Hiding and bringing back *)

\* A column takes one of the states it may have, and what is remembered one of its own.
LEMMA ShowTyped ==
  ASSUME TypeOK, NEW c \in Contents, NEW state, Show(c, state),
         hidden' \in [Contents -> Visibilities \cup Statuses \cup Revs \cup {NoState}],
         UNCHANGED <<admins, revs, reports, verdicts, reqs, queued>>,
         c \in Docs => state \in Visibilities, c \in Comments => state \in Statuses,
         c \in Users => state \in Revs \cup {None}
  PROVE  /\ TypeOK'
         /\ \A d \in Docs : docs'[d].state = docs[d].state
         /\ \A x \in Comments \ {c} : comments'[x] = comments[x]
         /\ c \in Comments => comments'[c].status = state /\ comments'[c].by = comments[c].by
         /\ \A u \in Users : /\ pages'[u].pend = pages[u].pend
                             /\ pages'[u].pub = IF u = c THEN state ELSE pages[u].pub
<1>0. /\ docs \in [Docs -> Doc] /\ comments \in [Comments -> Comment] /\ pages \in [Users -> Page]
      /\ hidden \in [Contents -> Visibilities \cup Statuses \cup Revs \cup {NoState}]
  BY DEF TypeOK
<1>1. docs' \in [Docs -> Doc] /\ \A d \in Docs : docs'[d].state = docs[d].state
  BY <1>0 DEF Show, Doc
<1>2. /\ comments' \in [Comments -> Comment]
      /\ \A x \in Comments \ {c} : comments'[x] = comments[x]
      /\ c \in Comments => comments'[c].status = state /\ comments'[c].by = comments[c].by
  BY <1>0 DEF Show, Comment
<1>3. /\ pages' \in [Users -> Page]
      /\ \A u \in Users : /\ pages'[u].pend = pages[u].pend
                          /\ pages'[u].pub = IF u = c THEN state ELSE pages[u].pub
  BY <1>0 DEF Show, Page
<1>4. TypeOK'
  BY <1>0, <1>1, <1>2, <1>3 DEF TypeOK
<1>. QED
  BY <1>1, <1>2, <1>3, <1>4

\* What of the content that is hidden or brought back is the same for all kinds.
LEMMA HideFrame ==
  ASSUME Sound, NEW c \in Contents, NEW before, TypeOK',
         UNCHANGED <<admins, revs, reports, verdicts, reqs, queued>>,
         hidden'[c] = before, \A x \in Contents \ {c} : hidden'[x] = hidden[x],
         \A d \in Docs : docs'[d].state = docs[d].state,
         c \in Docs => before \in Visibilities \cup {NoState} /\ docs[c].state # "gone",
         c \notin Comments => \A x \in Comments : comments'[x] = comments[x],
         c \notin Users => \A u \in Users : pages'[u] = pages[u]
  PROVE  /\ RevisionsVetted'
         /\ \A d \in Docs : /\ hidden'[d] \in Visibilities \cup {NoState}
                            /\ hidden'[d] # NoState => docs'[d].state # "gone"
         /\ c \notin Comments => Fits' /\ CommentsVetted' /\ Decided'
         /\ c \notin Users => PagesAgree'
<1>1. RevisionsVetted'
  BY RevisionsKept DEF Sound
<1>2. \A d \in Docs : /\ hidden'[d] \in Visibilities \cup {NoState}
                      /\ hidden'[d] # NoState => docs'[d].state # "gone"
  BY DEF Sound, Typed, Remembered, Contents
<1>3. ASSUME c \notin Comments PROVE Fits' /\ CommentsVetted' /\ Decided'
  <2>1. \A x \in Comments : hidden'[x] = hidden[x] /\ comments'[x] = comments[x]
    BY <1>3 DEF Contents
  <2>2. CommentsVetted' /\ Decided'
    BY <2>1, CommentsKept, DecidedKept DEF Sound
  <2>3. Fits'
    <3>1. \A p \in Requests : reqs[p].pc = "insert" => reqs[p].on \in Comments
      BY DEF Sound, Typed, Fits
    <3>. QED
      BY <2>1, <3>1, FitsKept DEF Sound, Typed
  <2>. QED
    BY <2>2, <2>3
<1>4. ASSUME c \notin Users PROVE PagesAgree'
  <2>1. \A u \in Users : hidden'[u] = hidden[u] /\ pages'[u] = pages[u]
    BY <1>4 DEF Contents
  <2>2. Owned' /\ PagesShowPublished'
    BY <2>1 DEF Sound, PagesAgree, Owned, PagesShowPublished
  <2>3. PendingIsCurrent'
    BY <2>1 DEF Sound, PagesAgree, PendingIsCurrent, PendingRevisions
  <2>. QED
    BY <2>2, <2>3 DEF PagesAgree
<1>. QED
  BY <1>1, <1>2, <1>3, <1>4

LEMMA HideKeeps ==
  ASSUME Sound, NEW c \in Contents, Unpublish(c) \/ Restore(c)
  PROVE  Sound'
<1>0. /\ comments \in [Comments -> Comment] /\ docs \in [Docs -> Doc] /\ pages \in [Users -> Page]
      /\ hidden \in [Contents -> Visibilities \cup Statuses \cup Revs \cup {NoState}]
  BY DEF Sound, Typed, TypeOK
<1>1. PICK state, before :
        /\ Show(c, state) /\ hidden' = [hidden EXCEPT ![c] = before]
        /\ UNCHANGED <<admins, revs, reports, verdicts, reqs, queued>> /\ Found(c)
        /\ \/ /\ hidden[c] = NoState /\ Public(Current(c)) /\ state = HiddenState(c) /\ before = Current(c)
           \/ /\ hidden[c] # NoState /\ state = hidden[c] /\ before = NoState
  BY DEF Unpublish, Restore
<1>2. CASE c \in Docs
  <2>1. c \notin Comments /\ c \notin Users
    BY <1>2, IdsAssumption
  <2>2. state \in Visibilities /\ before \in Visibilities \cup {NoState} /\ docs[c].state = "alive"
    <3>1. Current(c) = docs[c].vis /\ HiddenState(c) = "restricted" /\ docs[c].state = "alive"
      BY <1>1, <1>2, <2>1 DEF Found, Alive, Current, HiddenState
    <3>2. docs[c].vis \in Visibilities /\ hidden[c] \in Visibilities \cup {NoState}
      BY <1>0, <1>2 DEF Doc, Sound, Typed, Remembered
    <3>3. "restricted" \in Visibilities
      BY DEF Visibilities
    <3>. QED
      BY <1>1, <3>1, <3>2, <3>3
  <2>3. /\ TypeOK'
        /\ hidden'[c] = before /\ \A x \in Contents \ {c} : hidden'[x] = hidden[x]
        /\ \A d \in Docs : docs'[d].state = docs[d].state
        /\ comments' = comments /\ pages' = pages
    <3>0. TypeOK /\ before \in Visibilities \cup Statuses \cup Revs \cup {NoState}
      BY <2>2 DEF Sound, Typed
    <3>1. /\ hidden' \in [Contents -> Visibilities \cup Statuses \cup Revs \cup {NoState}]
          /\ hidden'[c] = before /\ \A x \in Contents \ {c} : hidden'[x] = hidden[x]
      BY <1>0, <1>1, <3>0
    <3>2. comments' = comments /\ pages' = pages
      BY <1>1, <2>1 DEF Show
    <3>. QED
      BY <1>1, <2>1, <2>2, <3>0, <3>1, <3>2, ShowTyped
  <2>4. /\ RevisionsVetted' /\ Fits' /\ CommentsVetted' /\ Decided' /\ PagesAgree'
        /\ \A d \in Docs : /\ hidden'[d] \in Visibilities \cup {NoState}
                           /\ hidden'[d] # NoState => docs'[d].state # "gone"
    BY <1>1, <2>1, <2>2, <2>3, HideFrame
  <2>5. \A x \in Comments \cup Users : hidden'[x] = hidden[x]
    BY <2>1, <2>3 DEF Contents
  <2>6. Remembered'
    BY <2>3, <2>4, <2>5 DEF Sound, Typed, Remembered
  <2>. QED
    BY <2>3, <2>4, <2>6 DEF Sound, Typed
<1>3. CASE c \in Comments
  <2>1. c \notin Docs /\ c \notin Users
    BY <1>3, IdsAssumption
  <2>2. \/ /\ hidden[c] = NoState /\ comments[c].status \in {"pending", "published"}
           /\ state = "rejected" /\ before = comments[c].status
        \/ /\ hidden[c] \in {"pending", "published"} /\ state = hidden[c] /\ before = NoState
    <3>1. Found(c) <=> Exists(comments[c])
      BY <1>3, <2>1 DEF Found
    <3>2. Current(c) = comments[c].status /\ HiddenState(c) = "rejected"
      BY <1>3, <2>1 DEF Current, HiddenState
    <3>. QED
      BY <1>1, <1>3, <3>1, <3>2 DEF Exists, Public, Statuses, Sound, Typed, Remembered
  <2>3. comments[c].status \in Statuses
    BY <1>1, <1>3, <2>1 DEF Found, Exists
  <2>4. /\ TypeOK'
        /\ hidden'[c] = before /\ \A x \in Contents \ {c} : hidden'[x] = hidden[x]
        /\ \A d \in Docs : docs'[d].state = docs[d].state
        /\ \A x \in Comments \ {c} : comments'[x] = comments[x]
        /\ comments'[c].status = state /\ comments'[c].by = comments[c].by
        /\ pages' = pages
    <3>1. state \in Statuses /\ before \in Statuses \cup {NoState}
      BY <2>2 DEF Statuses
    <3>2. /\ TypeOK
          /\ hidden' \in [Contents -> Visibilities \cup Statuses \cup Revs \cup {NoState}]
          /\ hidden'[c] = before /\ \A x \in Contents \ {c} : hidden'[x] = hidden[x]
      BY <1>0, <1>1, <3>1 DEF Sound, Typed
    <3>3. pages' = pages
      BY <1>1, <2>1 DEF Show
    <3>. QED
      BY <1>1, <1>3, <2>1, <3>1, <3>2, <3>3, ShowTyped
  <2>6. /\ RevisionsVetted' /\ PagesAgree'
        /\ \A d \in Docs : /\ hidden'[d] \in Visibilities \cup {NoState}
                           /\ hidden'[d] # NoState => docs'[d].state # "gone"
    BY <1>1, <2>1, <2>4, <1>3, HideFrame
  <2>7. /\ \A x \in Comments \ {c} : hidden'[x] = hidden[x]
        /\ \A u \in Users : hidden'[u] = hidden[u]
    BY <2>1, <2>4 DEF Contents
  <2>8. comments[c] # NoComment /\ comments'[c] # NoComment
    BY <2>2, <2>3, <2>4 DEF NoComment, Statuses
  <2>9. Fits'
    <3>1. \A p \in Requests : reqs[p].pc = "insert" => reqs[p].on \in Comments \ {c}
      BY <2>8 DEF Sound, Typed, Fits
    <3>. QED
      BY <1>1, <2>4, <3>1, FitsKept DEF Sound, Typed
  <2>10. Remembered'
    <3>1. /\ hidden'[c] \in {"pending", "published", NoState}
          /\ hidden'[c] # NoState => comments'[c].status = "rejected"
      BY <2>2, <2>4
    <3>2. \A x \in Comments : /\ hidden'[x] \in {"pending", "published", NoState}
                              /\ hidden'[x] # NoState => comments'[x].status = "rejected"
      BY <2>4, <2>7, <3>1 DEF Sound, Typed, Remembered
    <3>. QED
      BY <2>6, <2>7, <3>2 DEF Sound, Typed, Remembered
  <2>11. CommentsVetted'
    <3>1. \A x \in Comments : Approved(x) => Approved(x)'
      BY <1>1, <2>4 DEF Approved, Author
    <3>2. comments'[c].status = "published" \/ hidden'[c] = "published"
            => comments[c].status = "published" \/ hidden[c] = "published"
      BY <2>2, <2>4 DEF NoState
    <3>. QED
      BY <1>1, <1>3, <2>4, <2>7, <2>8, <3>1, <3>2 DEF Sound, CommentsVetted
  <2>12. Decided'
    <3>1. comments[c].status \notin {"none", "pending"} /\ hidden[c] # "pending"
             => comments'[c].status \notin {"none", "pending"} /\ hidden'[c] # "pending"
      BY <2>2, <2>4 DEF NoState
    <3>. QED
      BY <1>1, <2>4, <2>7, <3>1, DecidedKept DEF Sound
  <2>. QED
    BY <2>4, <2>6, <2>9, <2>10, <2>11, <2>12 DEF Sound, Typed
<1>4. CASE c \in Users
  <2>1. c \notin Docs /\ c \notin Comments
    BY <1>4, IdsAssumption
  <2>2. \/ hidden[c] = NoState /\ pages[c].pub \in Revs /\ state = None /\ before = pages[c].pub
        \/ hidden[c] \in Revs /\ state = hidden[c] /\ before = NoState
    <3>1. Current(c) = pages[c].pub /\ HiddenState(c) = None
      BY <2>1 DEF Current, HiddenState
    <3>2. pages[c].pub \in Revs \cup {None}
      BY <1>0, <1>4 DEF Page
    <3>. QED
      BY <1>1, <1>4, <3>1, <3>2 DEF Public, Sound, Typed, Remembered
  <2>3. /\ TypeOK'
        /\ hidden'[c] = before /\ \A x \in Contents \ {c} : hidden'[x] = hidden[x]
        /\ \A d \in Docs : docs'[d].state = docs[d].state
        /\ comments' = comments
        /\ \A u \in Users : /\ pages'[u].pend = pages[u].pend
                            /\ pages'[u].pub = IF u = c THEN state ELSE pages[u].pub
    <3>0. TypeOK /\ before \in Visibilities \cup Statuses \cup Revs \cup {NoState}
      BY <2>2 DEF Sound, Typed
    <3>1. /\ hidden' \in [Contents -> Visibilities \cup Statuses \cup Revs \cup {NoState}]
          /\ hidden'[c] = before /\ \A x \in Contents \ {c} : hidden'[x] = hidden[x]
      BY <1>0, <1>1, <3>0
    <3>2. comments' = comments
      BY <1>1, <2>1 DEF Show
    <3>3. state \in Revs \cup {None}
      BY <2>2
    <3>. QED
      BY <1>1, <2>1, <3>0, <3>1, <3>2, <3>3, ShowTyped
  <2>4. /\ RevisionsVetted' /\ Fits' /\ CommentsVetted' /\ Decided'
        /\ \A d \in Docs : /\ hidden'[d] \in Visibilities \cup {NoState}
                           /\ hidden'[d] # NoState => docs'[d].state # "gone"
    BY <1>1, <1>4, <2>1, <2>3, HideFrame
  <2>5. /\ \A x \in Comments : hidden'[x] = hidden[x]
        /\ \A u \in Users \ {c} : hidden'[u] = hidden[u]
    BY <2>1, <2>3 DEF Contents
  <2>6. Remembered'
    BY <2>2, <2>3, <2>4, <2>5 DEF Sound, Typed, Remembered
  <2>7. Owned' /\ PendingIsCurrent'
    BY <1>1, <2>3 DEF Sound, PagesAgree, Owned, PendingIsCurrent, PendingRevisions
  <2>8. PagesShowPublished'
    BY <1>1, <1>4, <2>2, <2>3, <2>5, IdsAssumption DEF Sound, PagesAgree, PagesShowPublished
  <2>. QED
    BY <2>3, <2>4, <2>6, <2>7, <2>8 DEF Sound, Typed, PagesAgree
<1>. QED
  BY <1>2, <1>3, <1>4 DEF Contents

-----------------------------------------------------------------------------
(* User pages *)

\* What happens to pages and revisions is nothing to documents and comments.
LEMMA ThreadsKept ==
  ASSUME Sound, UNCHANGED <<docs, comments>>, \A p \in Requests : reqs'[p] \in {reqs[p], Idle},
         \A x \in Docs \cup Comments : hidden'[x] = hidden[x],
         \A u \in Users : hidden'[u] \in Revs \cup {NoState},
         verdicts \subseteq verdicts', queued' \cap Comments \subseteq queued
  PROVE  Fits' /\ Remembered' /\ CommentsVetted'
<1>1. Fits'
  BY FitsKept DEF Sound, Typed
<1>2. Remembered'
  BY DEF Sound, Typed, Remembered
<1>3. CommentsVetted'
  BY CommentsKept DEF Sound
<1>. QED
  BY <1>1, <1>2, <1>3

LEMMA SubmitKeeps ==
  ASSUME Sound, NEW u \in Users, NEW by \in Users, NEW r \in Revs, NEW review \in BOOLEAN,
         SubmitUserPageRevision(u, by, r, review)
  PROVE  Sound'
<1>. DEFINE row == [status |-> IF review THEN "pending" ELSE "published", by |-> by, page |-> u]
<1>0. /\ revs \in [Revs -> Rev] /\ pages \in [Users -> Page]
      /\ hidden \in [Contents -> Visibilities \cup Statuses \cup Revs \cup {NoState}]
      /\ queued \subseteq Comments \cup Revs
  BY DEF Sound, Typed, TypeOK
<1>1. PICK old : old = pages[u].pend
  OBVIOUS
<1>2. /\ revs[r] = NoRevision /\ UNCHANGED <<admins, docs, comments, reports, verdicts, reqs>>
      /\ revs' = [x \in Revs |->
                  CASE x = r -> row
                    [] x = old /\ revs[x].status = "pending" -> [revs[x] EXCEPT !.status = "rejected"]
                    [] OTHER -> revs[x]]
  BY <1>1 DEF SubmitUserPageRevision, threads
<1>3. old # r
  BY <1>1, <1>2, IdsAssumption DEF Sound, PagesAgree, Owned, NoRevision, Contents
<1>4. /\ revs'[r] = row /\ revs' \in [Revs -> Rev]
      /\ \A x \in Revs \ {r} : /\ revs'[x].page = revs[x].page /\ revs'[x].by = revs[x].by
                               /\ x = old /\ revs[x].status = "pending" => revs'[x].status = "rejected"
                               /\ ~ (x = old /\ revs[x].status = "pending") => revs'[x] = revs[x]
  <2>1. row \in Rev
    BY DEF Rev, Statuses
  <2>2. \A x \in Revs \ {r} : revs'[x] = IF x = old /\ revs[x].status = "pending"
                                        THEN [revs[x] EXCEPT !.status = "rejected"] ELSE revs[x]
    BY <1>2, <1>3
  <2>3. revs'[r] = row
    BY <1>2, <1>3
  <2>4. \A x \in Revs : revs'[x] \in Rev
    <3>1. \A x \in Revs : [revs[x] EXCEPT !.status = "rejected"] \in Rev
      BY <1>0 DEF Rev, Statuses
    <3>. HIDE DEF row
    <3>. QED
      BY <1>0, <2>1, <2>2, <2>3, <3>1
  <2>5. revs' \in [Revs -> Rev]
    BY <1>2, <2>4
  <2>6. \A x \in Revs \ {r} : revs'[x].page = revs[x].page /\ revs'[x].by = revs[x].by
    BY <1>0, <2>2 DEF Rev
  <2>7. \A x \in Revs \ {r} : x = old /\ revs[x].status = "pending" => revs'[x].status = "rejected"
    BY <1>0, <2>2 DEF Rev
  <2>. QED
    BY <2>2, <2>3, <2>5, <2>6, <2>7
<1>5. /\ \A p \in Users \ {u} : pages'[p] = pages[p]
      /\ pages' \in [Users -> Page]
      /\ review => pages'[u].pub = pages[u].pub /\ pages'[u].pend = r
      /\ ~ review => pages'[u].pub = r /\ pages'[u].pend = None
  BY <1>0 DEF SubmitUserPageRevision, Page
<1>6. /\ \A x \in Contents \ {u} : hidden'[x] = hidden[x]
      /\ hidden'[u] = IF ~ review /\ hidden[u] # NoState THEN r ELSE hidden[u]
      /\ hidden' \in [Contents -> Visibilities \cup Statuses \cup Revs \cup {NoState}]
  BY <1>0 DEF SubmitUserPageRevision, Contents
<1>7. queued' = IF review THEN queued \cup {r} ELSE queued
  BY DEF SubmitUserPageRevision
<1>8. TypeOK'
  BY <1>0, <1>2, <1>4, <1>5, <1>6, <1>7 DEF Sound, Typed, TypeOK
<1>9. Fits' /\ Remembered' /\ CommentsVetted'
  <2>1. \A x \in Docs \cup Comments : hidden'[x] = hidden[x]
    BY <1>6, IdsAssumption DEF Contents
  <2>2. \A p \in Users : hidden'[p] \in Revs \cup {NoState}
    BY <1>6 DEF Sound, Typed, Remembered, Contents
  <2>3. queued' \cap Comments \subseteq queued
    BY <1>7, IdsAssumption
  <2>. QED
    BY <1>2, <2>1, <2>2, <2>3, ThreadsKept
<1>10. Owned'
  <2>1. \A p \in Users \ {u} : pages[p].pend # None => pages[p].pend \in Revs \ {r}
    BY <1>0, <1>2, IdsAssumption DEF Page, Sound, PagesAgree, Owned, NoRevision, Contents
  <2>. QED
    BY <1>4, <1>5, <2>1 DEF Sound, PagesAgree, Owned
<1>11. PendingIsCurrent'
  <2>. SUFFICES ASSUME NEW x \in Revs
                PROVE  revs'[x].status = "pending" <=> \E p \in Users : pages'[p].pend = x /\ revs'[x].page = p
    BY DEF PendingIsCurrent, PendingRevisions
  <2>1. CASE x = r
    BY <1>4, <1>5, <2>1, IdsAssumption
  <2>2. CASE x # r /\ x = old
    <3>1. revs[x].page = u
      BY <1>1, <2>2, IdsAssumption DEF Sound, PagesAgree, Owned
    <3>2. revs'[x].status # "pending"
      BY <1>4, <2>2
    <3>. QED
      BY <1>4, <1>5, <2>2, <3>1, <3>2, IdsAssumption
  <2>3. CASE x # r /\ x # old
    <3>1. revs[x].status = "pending" <=> \E p \in Users : pages[p].pend = x /\ revs[x].page = p
      BY DEF Sound, PagesAgree, PendingIsCurrent, PendingRevisions
    <3>2. \A p \in Users : pages'[p].pend = x <=> pages[p].pend = x
      BY <1>1, <1>5, <2>3, IdsAssumption
    <3>. QED
      BY <1>4, <2>3, <3>1, <3>2
  <2>. QED
    BY <2>1, <2>2, <2>3
<1>12. PagesShowPublished'
  <2>. SUFFICES ASSUME NEW p \in Users, NEW x \in {pages'[p].pub, hidden'[p]} \cap Revs
                PROVE  revs'[x].page = p /\ revs'[x].status = "published"
    BY DEF PagesShowPublished
  <2>1. CASE x = r
    <3>1. \A o \in Users : pages[o].pub # r /\ hidden[o] # r
      BY <1>2 DEF Sound, PagesAgree, PagesShowPublished, NoRevision
    <3>2. p = u /\ ~ review
      BY <1>5, <1>6, <2>1, <3>1 DEF Contents
    <3>. QED
      BY <1>4, <2>1, <3>2
  <2>2. CASE x # r
    <3>1. x \in {pages[p].pub, hidden[p]} \cap Revs
      BY <1>5, <1>6, <2>2 DEF Contents
    <3>2. revs[x].page = p /\ revs[x].status = "published"
      BY <3>1 DEF Sound, PagesAgree, PagesShowPublished
    <3>. QED
      BY <1>4, <2>2, <3>2
  <2>. QED
    BY <2>1, <2>2
<1>13. RevisionsVetted'
  <2>1. \A x \in Revs \ {r} : Approved(x) => Approved(x)'
    BY <1>2, <1>4, IdsAssumption DEF Approved, Author
  <2>2. \A x \in Revs \ {r} : /\ revs[x] # NoRevision => revs'[x] # NoRevision
                              /\ revs'[x].status = "published" => revs[x].status = "published"
    BY <1>4 DEF NoRevision
  <2>3. r \notin queued
    BY <1>2 DEF Sound, RevisionsVetted
  <2>4. review => revs'[r] # NoRevision /\ revs'[r].status # "published"
    BY <1>4 DEF NoRevision
  <2>. QED
    BY <1>7, <2>1, <2>2, <2>3, <2>4 DEF Sound, RevisionsVetted
<1>14. Decided'
  <2>1. \A x \in Revs : revs[x].status \notin {"none", "pending"} => revs'[x].status \notin {"none", "pending"}
    BY <1>2, <1>4 DEF NoRevision
  <2>2. \A c \in Comments : hidden'[c] = hidden[c]
    BY <1>6, IdsAssumption DEF Contents
  <2>. QED
    BY <1>2, <2>1, <2>2, DecidedKept DEF Sound
<1>. QED
  BY <1>8, <1>9, <1>10, <1>11, <1>12, <1>13, <1>14 DEF Sound, Typed, PagesAgree

LEMMA DeletePageKeeps ==
  ASSUME Sound, NEW u \in Users, DeleteUserPage(u)
  PROVE  Sound'
<1>0. /\ revs \in [Revs -> Rev] /\ pages \in [Users -> Page]
      /\ hidden \in [Contents -> Visibilities \cup Statuses \cup Revs \cup {NoState}]
  BY DEF Sound, Typed, TypeOK
<1>1. /\ hidden' = [hidden EXCEPT ![u] = NoState]
      /\ revs' = [r \in Revs |-> IF revs[r].page = u THEN [revs[r] EXCEPT !.status = "gone"] ELSE revs[r]]
      /\ pages' = [pages EXCEPT ![u] = EmptyPage]
      /\ UNCHANGED <<admins, docs, comments, reports, verdicts, reqs, queued>>
  BY DEF DeleteUserPage, threads
<1>2. /\ revs' \in [Revs -> Rev]
      /\ \A r \in Revs : /\ revs'[r].page = revs[r].page /\ revs'[r].by = revs[r].by
                         /\ revs[r].page = u => revs'[r].status = "gone"
                         /\ revs[r].page # u => revs'[r] = revs[r]
  BY <1>0, <1>1 DEF Rev
<1>3. /\ pages' \in [Users -> Page] /\ pages'[u].pub = None /\ pages'[u].pend = None
      /\ \A p \in Users \ {u} : pages'[p] = pages[p]
  BY <1>0, <1>1 DEF Page, EmptyPage
<1>4. /\ hidden' \in [Contents -> Visibilities \cup Statuses \cup Revs \cup {NoState}]
      /\ hidden'[u] = NoState /\ \A x \in Contents \ {u} : hidden'[x] = hidden[x]
  BY <1>0, <1>1 DEF Contents
<1>5. TypeOK'
  BY <1>1, <1>2, <1>3, <1>4 DEF Sound, Typed, TypeOK
<1>6. Fits' /\ Remembered' /\ CommentsVetted'
  <2>1. \A x \in Docs \cup Comments : hidden'[x] = hidden[x]
    BY <1>4, IdsAssumption DEF Contents
  <2>2. \A p \in Users : hidden'[p] \in Revs \cup {NoState}
    BY <1>4 DEF Sound, Typed, Remembered, Contents
  <2>. QED
    BY <1>1, <2>1, <2>2, ThreadsKept
<1>7. Owned'
  BY <1>2, <1>3 DEF Sound, PagesAgree, Owned, TypeOK, Page, Typed
<1>8. PendingIsCurrent'
  <2>. SUFFICES ASSUME NEW x \in Revs
                PROVE  revs'[x].status = "pending" <=> \E p \in Users : pages'[p].pend = x /\ revs'[x].page = p
    BY DEF PendingIsCurrent, PendingRevisions
  <2>1. revs[x].status = "pending" <=> \E p \in Users : pages[p].pend = x /\ revs[x].page = p
    BY DEF Sound, PagesAgree, PendingIsCurrent, PendingRevisions
  <2>2. CASE revs[x].page = u
    BY <1>2, <1>3, <2>2, IdsAssumption
  <2>3. CASE revs[x].page # u
    BY <1>2, <1>3, <2>1, <2>3
  <2>. QED
    BY <2>2, <2>3
<1>9. PagesShowPublished'
  <2>. SUFFICES ASSUME NEW p \in Users, NEW x \in {pages'[p].pub, hidden'[p]} \cap Revs
                PROVE  revs'[x].page = p /\ revs'[x].status = "published"
    BY DEF PagesShowPublished
  <2>1. p # u
    BY <1>3, <1>4, IdsAssumption
  <2>2. revs[x].page = p /\ revs[x].status = "published"
    BY <1>3, <1>4, <2>1 DEF Sound, PagesAgree, PagesShowPublished, Contents
  <2>. QED
    BY <1>2, <2>1, <2>2
<1>10. RevisionsVetted'
  <2>1. \A x \in Revs : Approved(x) => Approved(x)'
    BY <1>1, <1>2, IdsAssumption DEF Approved, Author
  <2>2. \A x \in Revs : /\ revs[x] # NoRevision => revs'[x] # NoRevision
                        /\ revs'[x].status = "published" => revs[x].status = "published"
    BY <1>2 DEF NoRevision
  <2>. QED
    BY <1>1, <2>1, <2>2 DEF Sound, RevisionsVetted
<1>11. Decided'
  <2>1. \A x \in Revs : revs[x].status \notin {"none", "pending"} => revs'[x].status \notin {"none", "pending"}
    BY <1>2
  <2>2. \A c \in Comments : hidden'[c] = hidden[c]
    BY <1>4, IdsAssumption DEF Contents
  <2>. QED
    BY <1>1, <2>1, <2>2, DecidedKept DEF Sound
<1>. QED
  BY <1>5, <1>6, <1>7, <1>8, <1>9, <1>10, <1>11 DEF Sound, Typed, PagesAgree

LEMMA ReviewPageKeeps ==
  ASSUME Sound, NEW q \in Requests, ReviewUserPageRevision(q)
  PROVE  Sound'
<1>0. /\ revs \in [Revs -> Rev] /\ pages \in [Users -> Page]
      /\ hidden \in [Contents -> Visibilities \cup Statuses \cup Revs \cup {NoState}]
  BY DEF Sound, Typed, TypeOK
<1>1. PICK r, by, action : r = reqs[q].on /\ by = reqs[q].user /\ action = reqs[q].arg
  OBVIOUS
<1>2. PICK u : u = revs[r].page
  OBVIOUS
<1>3. /\ UNCHANGED <<admins, docs, comments, reports, queued>> /\ End(q)
      /\ r \in Revs /\ by \in Users /\ action \in Verdicts
  BY <1>1 DEF ReviewUserPageRevision, threads, At, Sound, Typed, Fits
<1>4. /\ reqs' \in [Requests -> Request]
      /\ \A p \in Requests : reqs'[p] = IF p = q THEN Idle ELSE reqs[p]
  BY <1>3, EndTyped DEF Sound, Typed
<1>5. CASE ~ (revs[r].status = "pending" /\ revs[r].by # by)
  <2>1. UNCHANGED <<revs, pages, hidden, verdicts>>
    BY <1>1, <1>5 DEF ReviewUserPageRevision
  <2>2. TypeOK'
    BY <1>3, <1>4, <2>1 DEF Sound, Typed, TypeOK
  <2>. QED
    BY <1>3, <1>4, <2>1, <2>2, OutsideKeeps DEF Sound, Typed, Remembered
<1>6. CASE revs[r].status = "pending" /\ revs[r].by # by
  <2>. DEFINE status == IF action = "approve" THEN "published" ELSE "rejected"
  <2>1. u \in Users /\ pages[u].pend = r
    BY <1>2, <1>3, <1>6 DEF Sound, PagesAgree, PendingIsCurrent, PendingRevisions
  <2>2. /\ revs' = [revs EXCEPT ![r].status = status]
        /\ pages' = [pages EXCEPT ![u] = IF action = "approve" THEN [pub |-> r, pend |-> None]
                                                              ELSE [pages[u] EXCEPT !.pend = None]]
        /\ hidden' = IF action = "approve" /\ hidden[u] # NoState THEN [hidden EXCEPT ![u] = r] ELSE hidden
        /\ Record(r, action, by)
    BY <1>0, <1>1, <1>2, <1>6, <2>1 DEF ReviewUserPageRevision
  <2>3. /\ revs' \in [Revs -> Rev] /\ \A x \in Revs \ {r} : revs'[x] = revs[x]
        /\ revs'[r].status = status /\ revs'[r].by = revs[r].by /\ revs'[r].page = u
    BY <1>0, <1>2, <1>3, <2>2 DEF Rev, Statuses
  <2>4. /\ pages' \in [Users -> Page] /\ \A p \in Users \ {u} : pages'[p] = pages[p]
        /\ pages'[u].pend = None
        /\ pages'[u].pub = IF action = "approve" THEN r ELSE pages[u].pub
    BY <1>0, <1>3, <2>1, <2>2 DEF Page
  <2>5. /\ hidden' \in [Contents -> Visibilities \cup Statuses \cup Revs \cup {NoState}]
        /\ \A x \in Contents \ {u} : hidden'[x] = hidden[x]
        /\ hidden'[u] = IF action = "approve" /\ hidden[u] # NoState THEN r ELSE hidden[u]
    BY <1>0, <1>3, <2>1, <2>2 DEF Contents
  <2>6. verdicts' = verdicts \cup {[on |-> r, action |-> action, by |-> by]}
    BY <2>2 DEF Record
  <2>7. [on |-> r, action |-> action, by |-> by] \in Verdict
    BY <1>3 DEF Verdict
  <2>8. TypeOK'
    BY <1>3, <1>4, <2>3, <2>4, <2>5, <2>6, <2>7 DEF Sound, Typed, TypeOK
  <2>9. Fits' /\ Remembered' /\ CommentsVetted'
    <3>1. \A x \in Docs \cup Comments : hidden'[x] = hidden[x]
      BY <2>1, <2>5, IdsAssumption DEF Contents
    <3>2. \A p \in Users : hidden'[p] \in Revs \cup {NoState}
      BY <1>3, <2>5 DEF Sound, Typed, Remembered, Contents
    <3>. QED
      BY <1>3, <1>4, <2>6, <3>1, <3>2, ThreadsKept
  <2>10. Owned'
    <3>1. \A x \in Revs : revs'[x].page = revs[x].page
      BY <1>2, <2>3
    <3>2. \A p \in Users : pages[p].pend # None => pages[p].pend \in Revs
      BY <1>0 DEF Page
    <3>. QED
      BY <2>4, <3>1, <3>2 DEF Sound, PagesAgree, Owned
  <2>11. PendingIsCurrent'
    <3>. SUFFICES ASSUME NEW x \in Revs
                  PROVE  revs'[x].status = "pending" <=> \E p \in Users : pages'[p].pend = x /\ revs'[x].page = p
      BY DEF PendingIsCurrent, PendingRevisions
    <3>1. revs[x].status = "pending" <=> \E p \in Users : pages[p].pend = x /\ revs[x].page = p
      BY DEF Sound, PagesAgree, PendingIsCurrent, PendingRevisions
    <3>2. CASE x = r
      BY <2>3, <2>4, <3>2, IdsAssumption
    <3>3. CASE x # r
      BY <2>1, <2>3, <2>4, <3>1, <3>3, IdsAssumption
    <3>. QED
      BY <3>2, <3>3
  <2>12. PagesShowPublished'
    <3>. SUFFICES ASSUME NEW p \in Users, NEW x \in {pages'[p].pub, hidden'[p]} \cap Revs
                  PROVE  revs'[x].page = p /\ revs'[x].status = "published"
      BY DEF PagesShowPublished
    <3>1. \A o \in Users : pages[o].pub # r /\ hidden[o] # r
      BY <1>3, <1>6 DEF Sound, PagesAgree, PagesShowPublished
    <3>2. CASE x = r
      BY <2>3, <2>4, <2>5, <3>1, <3>2 DEF Contents
    <3>3. CASE x # r
      <4>1. x \in {pages[p].pub, hidden[p]} \cap Revs
        BY <2>4, <2>5, <3>3 DEF Contents
      <4>. QED
        BY <2>3, <3>3, <4>1 DEF Sound, PagesAgree, PagesShowPublished
    <3>. QED
      BY <3>2, <3>3
  <2>13. RevisionsVetted'
    <3>1. \A x \in Revs \ {r} : Approved(x) => Approved(x)'
      BY <2>3, <2>6, IdsAssumption DEF Approved, Author
    <3>2. revs'[r] # NoRevision
      BY <2>3 DEF NoRevision
    <3>3. revs'[r].status = "published" => Approved(r)'
      <4>. SUFFICES ASSUME revs'[r].status = "published" PROVE Approved(r)'
        OBVIOUS
      <4>1. action = "approve"
        BY <2>3
      <4>2. Author(r)' = revs'[r].by
        BY <1>3, IdsAssumption DEF Author
      <4>. DEFINE v == [on |-> r, action |-> action, by |-> by]
      <4>3. v \in verdicts' /\ v.on = r /\ v.action = "approve" /\ v.by # revs'[r].by
        BY <1>6, <2>3, <2>6, <4>1
      <4>. HIDE DEF v
      <4>. QED
        BY <4>2, <4>3 DEF Approved
    <3>. QED
      BY <1>3, <2>3, <3>1, <3>2, <3>3 DEF Sound, RevisionsVetted
  <2>14. Decided'
    <3>1. \A c \in Comments : hidden'[c] = hidden[c]
      BY <2>1, <2>5, IdsAssumption DEF Contents
    <3>2. r \notin Comments /\ r \notin Reports
      BY <1>3, IdsAssumption
    <3>. QED
      BY <1>3, <1>6, <2>2, <2>3, <3>1, <3>2, VerdictDecides DEF Sound
  <2>. QED
    BY <2>8, <2>9, <2>10, <2>11, <2>12, <2>13, <2>14 DEF Sound, Typed, PagesAgree
<1>. QED
  BY <1>5, <1>6

-----------------------------------------------------------------------------
LEMMA StepSound == Sound /\ [Next]_vars => Sound'
<1>. SUFFICES ASSUME Sound, [Next]_vars PROVE Sound'
  OBVIOUS
<1>1. CASE UNCHANGED vars
  <2>1. TypeOK'
    BY <1>1 DEF vars, threads, userPages, Sound, Typed, TypeOK
  <2>. QED
    BY <1>1, <2>1, OutsideKeeps DEF vars, Sound, Typed, Remembered
<1>2. CASE ThreadStep
  BY <1>2, BeginsKeep, BeginVisibilityKeeps, CreateKeeps, ReviewKeeps, DeleteKeeps, DocumentsKeep, PurgeKeeps DEF ThreadStep
<1>3. CASE PageStep
  BY <1>3, BeginsKeep, SubmitKeeps, ReviewPageKeeps, DeletePageKeeps DEF PageStep
<1>4. CASE ReportStep
  BY <1>4, BeginsKeep, ReportsKeep DEF ReportStep
<1>5. CASE \E c \in Contents : Unpublish(c) \/ Restore(c)
  BY <1>5, HideKeeps
<1>6. CASE (\E u \in Users : ChangeRole(u)) \/ (\E q \in Requests : Stop(q))
  BY <1>6, DocumentsKeep
<1>. QED
  BY <1>1, <1>2, <1>3, <1>4, <1>5, <1>6 DEF Next

LEMMA SpecSound == Spec => []Sound
  BY InitSound, StepSound, PTL DEF Spec

\* The state keeps the shape of the tables and of the locals of the code.
THEOREM TypeHolds == Spec => []TypeOK
<1>1. Sound => TypeOK
  BY DEF Sound, Typed
<1>. QED
  BY <1>1, SpecSound, PTL

\* The reviewers' queue and the pages agree (SubmitUserPageRevision,
\* ReviewUserPageRevision, DeleteUserPage).
THEOREM PendingHolds == Spec => []PendingIsCurrent
<1>1. Sound => PendingIsCurrent
  BY DEF Sound, PagesAgree
<1>. QED
  BY <1>1, SpecSound, PTL

\* What a page shows, or will show, is a published revision of it (GetUserPage).
THEOREM PagesHold == Spec => []PagesShowPublished
<1>1. Sound => PagesShowPublished
  BY DEF Sound, PagesAgree
<1>. QED
  BY <1>1, SpecSound, PTL

\* Nothing that came in for review is shown without somebody else's approval.
THEOREM ShownIsApproved == Spec => []OnlyApprovedIsShown
<1>1. Sound => OnlyApprovedIsShown
  <2>. SUFFICES ASSUME Sound, NEW x \in queued \cap Shown PROVE Approved(x)
    BY DEF OnlyApprovedIsShown, Approved
  <2>1. CASE x \in ListedComments
    BY <2>1 DEF ListedComments, Sound, CommentsVetted
  <2>2. CASE x \notin ListedComments
    <3>1. PICK u \in Users : x \in PublicHistory(u) \cup ({pages[u].pub} \ {None})
      BY <2>2 DEF Shown
    <3>2. pages[u].pub \in Revs \cup {None}
      BY DEF Sound, Typed, TypeOK, Page
    <3>3. x \in Revs /\ revs[x].status = "published"
      BY <3>1, <3>2 DEF PublicHistory, Sound, PagesAgree, PagesShowPublished
    <3>. QED
      BY <3>3 DEF Sound, RevisionsVetted
  <2>. QED
    BY <2>1, <2>2
<1>. QED
  BY <1>1, SpecSound, PTL

\* Of two reviewers who decide on the same thing, one does.
THEOREM OneVerdict == Spec => []DecidedOnce
<1>1. Sound => DecidedOnce
  BY DEF Sound, Decided
<1>. QED
  BY <1>1, SpecSound, PTL

\* What the queue of hidden content names is there and out of sight.
THEOREM QueueIsTrue == Spec => []HiddenQueueIsTrue
<1>1. Sound => HiddenQueueIsTrue
  <2>. SUFFICES ASSUME Sound, NEW c \in HiddenContent
                PROVE  /\ c \in Docs => docs[c].state # "gone"
                       /\ c \in Comments => comments[c].status = "rejected" /\ hidden[c] \in {"pending", "published"}
                       /\ c \in Users => \E r \in Revs : revs[r].page = c /\ Exists(revs[r])
    BY DEF HiddenQueueIsTrue
  <2>1. hidden[c] # NoState
    BY DEF HiddenContent
  <2>2. ASSUME c \in Users PROVE \E r \in Revs : revs[r].page = c /\ Exists(revs[r])
    <3>1. hidden[c] \in Revs
      BY <2>1, <2>2 DEF Sound, Typed, Remembered
    <3>2. revs[hidden[c]].page = c /\ revs[hidden[c]].status = "published"
      BY <2>2, <3>1 DEF Sound, PagesAgree, PagesShowPublished
    <3>. QED
      BY <3>1, <3>2 DEF Exists, Statuses
  <2>. QED
    BY <2>1, <2>2 DEF Sound, Typed, Remembered
<1>. QED
  BY <1>1, SpecSound, PTL
=============================================================================
