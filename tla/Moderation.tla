----------------------------- MODULE Moderation -----------------------------
(***************************************************************************)
(* What Element Wiki shows and what it holds back: comments and user pages *)
(* that wait for a review, reports, and content that a moderator hides and *)
(* brings back.                                                            *)
(*                                                                         *)
(* A request that reads before it writes holds what it read in its slot.   *)
(* Ids are used once, as util.NewID makes them: a row that was deleted     *)
(* stays "gone".  The documents' tree is DocTree's; here a document is its *)
(* state and its own visibility.  The rows of moderation_actions are kept  *)
(* for verdicts only.                                                      *)
(***************************************************************************)
EXTENDS Naturals, FiniteSets

CONSTANTS
    Users,      \* accounts; each may have a page of its own
    Docs,       \* ids of documents
    Comments,   \* ids of comments
    Revs,       \* ids of revisions of user pages
    Reports,    \* ids of reports
    Requests,   \* slots for HTTP requests in flight
    None        \* no id: '' or NULL in the tables

Contents == Docs \cup Comments \cup Users
NoState == "none"

Visibilities == {"standard", "restricted"}
Verdicts == {"approve", "reject"}
Closings == {"resolve", "dismiss"}

ASSUME IdsAssumption ==
    /\ None \notin Contents \cup Revs \cup Reports /\ NoState \notin Revs
    /\ Users \cap (Docs \cup Comments) = {} /\ Docs \cap Comments = {}
    /\ Revs \cap (Comments \cup Reports) = {} /\ Comments \cap Reports = {}

VARIABLES
    admins,     \* users whose role carries review.manage and user.manage
    docs,       \* documents: deleted_at and visibility
    comments,   \* rows of comments
    pages,      \* user_pages: the published and the pending revision
    revs,       \* rows of user_page_revisions
    hidden,     \* content_moderation_state: previous_state, or NoState
    reports,    \* rows of content_reports
    verdicts,   \* rows of moderation_actions that close a review or a report
    reqs,       \* requests in flight
    queued      \* history: comments and revisions that came in as pending

vars == <<admins, docs, comments, pages, revs, hidden, reports, verdicts, reqs, queued>>
threads == <<docs, comments>>
userPages == <<pages, revs>>

Statuses == {"pending", "published", "rejected"}
Doc == [state: {"alive", "trashed", "gone"}, vis: Visibilities]
Comment == [status: Statuses \cup {"none", "gone"}, by: Users \cup {None}, doc: Docs \cup {None}]
Page == [pub: Revs \cup {None}, pend: Revs \cup {None}]
Rev == [status: Statuses \cup {"none", "gone"}, by: Users \cup {None}, page: Users \cup {None}]
Report == [status: {"none", "pending", "resolved", "dismissed"},
           by: Users \cup {None}, on: Contents \cup {None}]
Verdict == [on: Comments \cup Revs \cup Reports, action: Verdicts \cup Closings, by: Users]

\* "on" is what the request is about and "arg" what it asks for it.
Request == [pc: {"idle", "insert", "review", "delete", "page", "visibility", "report"},
            user: Users \cup {None}, on: Contents \cup Revs \cup {None},
            arg: Statuses \cup Verdicts \cup Visibilities \cup {"none"}, doc: Docs \cup {None}]
Idle == [pc |-> "idle", user |-> None, on |-> None, arg |-> "none", doc |-> None]

NoComment == [status |-> "none", by |-> None, doc |-> None]
NoRevision == [status |-> "none", by |-> None, page |-> None]
EmptyPage == [pub |-> None, pend |-> None]

Init ==
    /\ admins \in SUBSET Users
    /\ docs = [d \in Docs |-> [state |-> "alive", vis |-> "standard"]]
    /\ comments = [c \in Comments |-> NoComment]
    /\ pages = [u \in Users |-> EmptyPage]
    /\ revs = [r \in Revs |-> NoRevision]
    /\ hidden = [c \in Contents |-> NoState]
    /\ reports = [i \in Reports |-> [status |-> "none", by |-> None, on |-> None]]
    /\ verdicts = {}
    /\ reqs = [q \in Requests |-> Idle]
    /\ queued = {}

Exists(row) == row.status \in Statuses
At(q, pc) == reqs[q].pc = pc
Alive(d) == docs[d].state = "alive"

\* A request that only reads comes as far as its write.
Begin(q, u, pc, on, arg, d) ==
    /\ At(q, "idle")
    /\ reqs' = [reqs EXCEPT ![q] = [pc |-> pc, user |-> u, on |-> on, arg |-> arg, doc |-> d]]
    /\ UNCHANGED <<admins, docs, comments, pages, revs, hidden, reports, verdicts, queued>>

End(q) == reqs' = [reqs EXCEPT ![q] = Idle]

Record(on, action, by) == verdicts' = verdicts \cup {[on |-> on, action |-> action, by |-> by]}

-----------------------------------------------------------------------------
(* Comments *)

\* Whether a review is required is a setting; a reviewer's own needs none.  Who
\* is no administrator may be an editor, and editors read restricted documents.
AddComment(q, u, c, d, status) ==
    /\ comments[c] = NoComment /\ \A p \in Requests : reqs[p].on # c
    /\ Alive(d)
    /\ status \in {"pending", "published"} /\ (u \in admins => status = "published")
    /\ Begin(q, u, "insert", c, status, d)

\* The foreign key refuses a comment on a document that was purged meanwhile.
CreateComment(q) ==
    LET r == reqs[q] IN
    /\ At(q, "insert") /\ End(q)
    /\ IF docs[r.doc].state = "gone"
       THEN UNCHANGED <<comments, queued>>
       ELSE /\ comments' = [comments EXCEPT ![r.on] = [status |-> r.arg, by |-> r.user, doc |-> r.doc]]
            /\ queued' = IF r.arg = "pending" THEN queued \cup {r.on} ELSE queued
    /\ UNCHANGED <<admins, docs, userPages, hidden, reports, verdicts>>

BeginReviewComment(q, u, c, action) ==
    /\ u \in admins
    /\ Exists(comments[c]) /\ comments[c].by # u
    /\ Begin(q, u, "review", c, action, None)

\* Mutant: the store takes the service's word that the comment is pending.
ReviewAnyComment(q) ==
    LET r == reqs[q] IN
    /\ At(q, "review") /\ End(q)
    /\ IF Exists(comments[r.on])
       THEN /\ comments' = [comments EXCEPT ![r.on].status =
                              IF r.arg = "approve" THEN "published" ELSE "rejected"]
            /\ Record(r.on, r.arg, r.user)
       ELSE UNCHANGED <<comments, verdicts>>
    /\ UNCHANGED <<admins, docs, userPages, hidden, reports, queued>>

\* The store's transaction looks again for a pending comment of somebody else.
ReviewComment(q) ==
    LET r == reqs[q] IN
    /\ At(q, "review") /\ End(q)
    /\ IF comments[r.on].status = "pending" /\ comments[r.on].by # r.user
       THEN /\ comments' = [comments EXCEPT ![r.on].status =
                              IF r.arg = "approve" THEN "published" ELSE "rejected"]
            /\ Record(r.on, r.arg, r.user)
       ELSE UNCHANGED <<comments, verdicts>>
    /\ UNCHANGED <<admins, docs, userPages, hidden, reports, queued>>

BeginDeleteComment(q, u, c) ==
    /\ Exists(comments[c]) /\ (u \in admins \/ comments[c].by = u)
    /\ Begin(q, u, "delete", c, "none", None)

\* Mutant: the row goes and what was remembered of it stays.
DeleteRowOnly(q) ==
    /\ At(q, "delete") /\ End(q)
    /\ comments' = [comments EXCEPT ![reqs[q].on].status = "gone"]
    /\ UNCHANGED <<admins, docs, userPages, hidden, reports, verdicts, queued>>

DeleteComment(q) ==
    LET c == reqs[q].on IN
    /\ At(q, "delete") /\ End(q)
    /\ comments' = [comments EXCEPT ![c].status = "gone"]
    /\ hidden' = [hidden EXCEPT ![c] = NoState]
    /\ UNCHANGED <<admins, docs, userPages, reports, verdicts, queued>>

-----------------------------------------------------------------------------
(* User pages *)

\* Mutant: the revision that a newer one replaces is left pending.
SubmitBeside(u, by, r, review) ==
    /\ revs[r] = NoRevision
    /\ by \in {u} \cup admins /\ (by \in admins => ~ review)
    /\ revs' = [revs EXCEPT ![r] = [status |-> IF review THEN "pending" ELSE "published",
                                    by |-> by, page |-> u]]
    /\ IF review
       THEN /\ pages' = [pages EXCEPT ![u].pend = r]
            /\ queued' = queued \cup {r}
            /\ UNCHANGED hidden
       ELSE /\ pages' = [pages EXCEPT ![u] = [pub |-> r, pend |-> None]]
            /\ hidden' = IF hidden[u] = NoState THEN hidden ELSE [hidden EXCEPT ![u] = r]
            /\ UNCHANGED queued
    /\ UNCHANGED <<admins, threads, reports, verdicts, reqs>>

\* Save: the page's owner or an administrator writes a revision, which replaces
\* a pending one.  Whether it needs a review is a setting read before; a hidden
\* page's remembered revision follows one that needs none.
SubmitUserPageRevision(u, by, r, review) ==
    LET old == pages[u].pend IN
    /\ revs[r] = NoRevision
    /\ by \in {u} \cup admins /\ (by \in admins => ~ review)
    /\ revs' = [x \in Revs |->
                  CASE x = r -> [status |-> IF review THEN "pending" ELSE "published",
                                 by |-> by, page |-> u]
                    [] x = old /\ revs[x].status = "pending" -> [revs[x] EXCEPT !.status = "rejected"]
                    [] OTHER -> revs[x]]
    /\ IF review
       THEN /\ pages' = [pages EXCEPT ![u].pend = r]
            /\ queued' = queued \cup {r}
            /\ UNCHANGED hidden
       ELSE /\ pages' = [pages EXCEPT ![u] = [pub |-> r, pend |-> None]]
            /\ hidden' = IF hidden[u] = NoState THEN hidden ELSE [hidden EXCEPT ![u] = r]
            /\ UNCHANGED queued
    /\ UNCHANGED <<admins, threads, reports, verdicts, reqs>>

BeginReviewPage(q, u, r, action) ==
    /\ u \in admins
    /\ \E p \in Users : pages[p].pend = r
    /\ revs[r].by # u
    /\ Begin(q, u, "page", r, action, None)

\* Mutant: an approval does not look whether the revision is still pending.
ApproveAnyRevision(q) ==
    LET r == reqs[q].on  p == revs[r].page  approve == reqs[q].arg = "approve" IN
    /\ At(q, "page") /\ End(q)
    /\ IF Exists(revs[r])
       THEN /\ revs' = [revs EXCEPT ![r].status = IF approve THEN "published" ELSE "rejected"]
            /\ pages' = [pages EXCEPT ![p] =
                           CASE @.pend # r -> @
                             [] approve -> [pub |-> r, pend |-> None]
                             [] OTHER -> [@ EXCEPT !.pend = None]]
            /\ hidden' = IF approve /\ hidden[p] # NoState THEN [hidden EXCEPT ![p] = r] ELSE hidden
            /\ Record(r, reqs[q].arg, reqs[q].user)
       ELSE UNCHANGED <<revs, pages, hidden, verdicts>>
    /\ UNCHANGED <<admins, threads, reports, queued>>

\* The page changes where it still names the revision; the remembered state of
\* a hidden page in any case.
ReviewUserPageRevision(q) ==
    LET r == reqs[q].on  p == revs[r].page  approve == reqs[q].arg = "approve" IN
    /\ At(q, "page") /\ End(q)
    /\ IF revs[r].status = "pending" /\ revs[r].by # reqs[q].user
       THEN /\ revs' = [revs EXCEPT ![r].status = IF approve THEN "published" ELSE "rejected"]
            /\ pages' = [pages EXCEPT ![p] =
                           CASE @.pend # r -> @
                             [] approve -> [pub |-> r, pend |-> None]
                             [] OTHER -> [@ EXCEPT !.pend = None]]
            /\ hidden' = IF approve /\ hidden[p] # NoState THEN [hidden EXCEPT ![p] = r] ELSE hidden
            /\ Record(r, reqs[q].arg, reqs[q].user)
       ELSE UNCHANGED <<revs, pages, hidden, verdicts>>
    /\ UNCHANGED <<admins, threads, reports, queued>>

DeleteUserPage(u) ==
    /\ \E r \in Revs : revs[r].page = u /\ Exists(revs[r])
    /\ hidden' = [hidden EXCEPT ![u] = NoState]
    /\ revs' = [r \in Revs |-> IF revs[r].page = u THEN [revs[r] EXCEPT !.status = "gone"]
                               ELSE revs[r]]
    /\ pages' = [pages EXCEPT ![u] = EmptyPage]
    /\ UNCHANGED <<admins, threads, reports, verdicts, reqs, queued>>

-----------------------------------------------------------------------------
(* Hiding and bringing back: SetContentPublished, one transaction *)

\* What the row says of the content now; a missing row ends the request.
Found(c) == CASE c \in Docs -> Alive(c)
              [] c \in Comments -> Exists(comments[c])
              [] OTHER -> TRUE

Current(c) == CASE c \in Docs -> docs[c].vis
                [] c \in Comments -> comments[c].status
                [] OTHER -> pages[c].pub

Public(state) == state \notin {"restricted", "rejected", None}

\* The column that says whether the content is shown.
Show(c, state) ==
    /\ docs' = IF c \in Docs THEN [docs EXCEPT ![c].vis = state] ELSE docs
    /\ comments' = IF c \in Comments THEN [comments EXCEPT ![c].status = state] ELSE comments
    /\ pages' = IF c \in Users THEN [pages EXCEPT ![c].pub = state] ELSE pages

HiddenState(c) == CASE c \in Docs -> "restricted" [] c \in Comments -> "rejected" [] OTHER -> None

Unpublish(c) ==
    /\ admins # {}
    /\ Found(c) /\ hidden[c] = NoState /\ Public(Current(c))
    /\ hidden' = [hidden EXCEPT ![c] = Current(c)]
    /\ Show(c, HiddenState(c))
    /\ UNCHANGED <<admins, revs, reports, verdicts, reqs, queued>>

\* Mutant: nobody looks whether the content was hidden.
RestoreUnseen(c) ==
    /\ admins # {}
    /\ Found(c)
    /\ Show(c, hidden[c])
    /\ hidden' = [hidden EXCEPT ![c] = NoState]
    /\ UNCHANGED <<admins, revs, reports, verdicts, reqs, queued>>

\* Mutant: content comes back published, whatever it was.
RestoreAsPublished(c) ==
    /\ admins # {}
    /\ Found(c) /\ hidden[c] # NoState
    /\ Show(c, IF c \in Comments THEN "published" ELSE hidden[c])
    /\ hidden' = [hidden EXCEPT ![c] = NoState]
    /\ UNCHANGED <<admins, revs, reports, verdicts, reqs, queued>>

Restore(c) ==
    /\ admins # {}
    /\ Found(c) /\ hidden[c] # NoState
    /\ Show(c, hidden[c])
    /\ hidden' = [hidden EXCEPT ![c] = NoState]
    /\ UNCHANGED <<admins, revs, reports, verdicts, reqs, queued>>

-----------------------------------------------------------------------------
(* Reports *)

\* handleCreateReport first looks whether the reporter can see the content; an
\* editor sees restricted documents too.
BeginReport(q, u, c) ==
    /\ CASE c \in Docs -> Alive(c)
         [] c \in Comments -> comments[c].status = "published" /\ Alive(comments[c].doc)
         [] OTHER -> pages[c].pub # None
    /\ Begin(q, u, "report", c, "none", None)

\* The unique index over pending reports refuses a second one.
CreateContentReport(q, i) ==
    LET r == reqs[q] IN
    /\ At(q, "report") /\ reports[i].status = "none" /\ End(q)
    /\ IF \E j \in Reports : reports[j] = [status |-> "pending", by |-> r.user, on |-> r.on]
       THEN UNCHANGED reports
       ELSE reports' = [reports EXCEPT ![i] = [status |-> "pending", by |-> r.user, on |-> r.on]]
    /\ UNCHANGED <<admins, threads, userPages, hidden, verdicts, queued>>

\* Mutant: a report that was closed may be closed again.
CloseAnyReport(u, i, action) ==
    /\ u \in admins /\ reports[i].status # "none"
    /\ reports' = [reports EXCEPT ![i].status = IF action = "resolve" THEN "resolved" ELSE "dismissed"]
    /\ Record(i, action, u)
    /\ UNCHANGED <<admins, threads, userPages, hidden, reqs, queued>>

ReviewContentReport(u, i, action) ==
    /\ u \in admins /\ reports[i].status = "pending"
    /\ reports' = [reports EXCEPT ![i].status = IF action = "resolve" THEN "resolved" ELSE "dismissed"]
    /\ Record(i, action, u)
    /\ UNCHANGED <<admins, threads, userPages, hidden, reqs, queued>>

-----------------------------------------------------------------------------
(* What other parts of the server do to the same rows *)

BeginSetVisibility(q, d, v) ==
    /\ Alive(d)
    /\ Begin(q, None, "visibility", d, v, None)

\* UpdateMeta names the row by its id alone.
SetVisibility(q) ==
    LET d == reqs[q].on IN
    /\ At(q, "visibility") /\ End(q)
    /\ docs' = IF docs[d].state = "gone" THEN docs ELSE [docs EXCEPT ![d].vis = reqs[q].arg]
    /\ UNCHANGED <<admins, comments, userPages, hidden, reports, verdicts, queued>>

TrashOrRecover(d) ==
    /\ docs[d].state # "gone"
    /\ docs' = [docs EXCEPT ![d].state = IF @ = "alive" THEN "trashed" ELSE "alive"]
    /\ UNCHANGED <<admins, comments, userPages, hidden, reports, verdicts, reqs, queued>>

\* Mutant: the document's own state goes, and its comments' stay.
PurgeDocOnly(d) ==
    /\ docs[d].state = "trashed"
    /\ docs' = [docs EXCEPT ![d].state = "gone"]
    /\ comments' = [c \in Comments |-> IF comments[c].doc = d THEN [comments[c] EXCEPT !.status = "gone"]
                                       ELSE comments[c]]
    /\ hidden' = [hidden EXCEPT ![d] = NoState]
    /\ UNCHANGED <<admins, userPages, reports, verdicts, reqs, queued>>

PurgeSubtree(d) ==
    LET under == {c \in Comments : comments[c].doc = d /\ Exists(comments[c])} IN
    /\ docs[d].state = "trashed"
    /\ docs' = [docs EXCEPT ![d].state = "gone"]
    /\ comments' = [c \in Comments |-> IF c \in under THEN [comments[c] EXCEPT !.status = "gone"]
                                       ELSE comments[c]]
    /\ hidden' = [c \in Contents |-> IF c \in under \cup {d} THEN NoState ELSE hidden[c]]
    /\ UNCHANGED <<admins, userPages, reports, verdicts, reqs, queued>>

\* UpdateUser gives somebody the role, or takes it.
ChangeRole(u) ==
    /\ admins' = IF u \in admins THEN admins \ {u} ELSE admins \cup {u}
    /\ UNCHANGED <<threads, userPages, hidden, reports, verdicts, reqs, queued>>

\* The client goes away between the two store calls.
Stop(q) ==
    /\ ~ At(q, "idle") /\ End(q)
    /\ UNCHANGED <<admins, threads, userPages, hidden, reports, verdicts, queued>>

ThreadStep ==
    \/ \E q \in Requests, u \in Users, c \in Comments :
           \/ \E d \in Docs, s \in {"pending", "published"} : AddComment(q, u, c, d, s)
           \/ \E a \in Verdicts : BeginReviewComment(q, u, c, a)
           \/ BeginDeleteComment(q, u, c)
    \/ \E q \in Requests : CreateComment(q) \/ ReviewComment(q) \/ DeleteComment(q) \/ SetVisibility(q)
    \/ \E q \in Requests, d \in Docs, v \in Visibilities : BeginSetVisibility(q, d, v)
    \/ \E d \in Docs : TrashOrRecover(d) \/ PurgeSubtree(d)

PageStep ==
    \/ \E u, by \in Users, r \in Revs, review \in BOOLEAN : SubmitUserPageRevision(u, by, r, review)
    \/ \E q \in Requests, u \in Users, r \in Revs, a \in Verdicts : BeginReviewPage(q, u, r, a)
    \/ \E q \in Requests : ReviewUserPageRevision(q)
    \/ \E u \in Users : DeleteUserPage(u)

ReportStep ==
    \/ \E q \in Requests, u \in Users, c \in Contents : BeginReport(q, u, c)
    \/ \E q \in Requests, i \in Reports : CreateContentReport(q, i)
    \/ \E u \in Users, i \in Reports, a \in Closings : ReviewContentReport(u, i, a)

Next ==
    \/ ThreadStep \/ PageStep \/ ReportStep
    \/ \E c \in Contents : Unpublish(c) \/ Restore(c)
    \/ \E u \in Users : ChangeRole(u)
    \/ \E q \in Requests : Stop(q)

Spec == Init /\ [][Next]_vars

-----------------------------------------------------------------------------

\* The state is of the shape of the tables and of the locals of the code.
TypeOK ==
    /\ admins \subseteq Users
    /\ docs \in [Docs -> Doc]
    /\ comments \in [Comments -> Comment]
    /\ pages \in [Users -> Page]
    /\ revs \in [Revs -> Rev]
    /\ hidden \in [Contents -> Visibilities \cup Statuses \cup Revs \cup {NoState}]
    /\ reports \in [Reports -> Report]
    /\ verdicts \subseteq Verdict
    /\ reqs \in [Requests -> Request]
    /\ queued \subseteq Comments \cup Revs

\* What readers and reviewers are shown.
ListedComments == {c \in Comments : comments[c].status = "published"}
PublicHistory(u) == {r \in Revs : /\ pages[u].pub # None
                                  /\ revs[r].page = u /\ revs[r].status = "published"}
PendingRevisions == {r \in Revs : revs[r].status = "pending"}
HiddenContent == {c \in Contents : hidden[c] # NoState}

\* The reviewers' queue and the page agree: a revision is pending exactly where
\* its author's page names it as the pending one (SubmitUserPageRevision,
\* ReviewUserPageRevision and DeleteUserPage write both).
PendingIsCurrent ==
    \A r \in Revs : r \in PendingRevisions <=> \E u \in Users : pages[u].pend = r /\ revs[r].page = u

\* What a page shows, or will show once it is brought back, is a published
\* revision of that page (GetUserPage finds it by id and user).
PagesShowPublished ==
    \A u \in Users : \A r \in {pages[u].pub, hidden[u]} \cap Revs :
        revs[r].page = u /\ revs[r].status = "published"

\* A comment or a revision that came in for review is shown only with the approval
\* of somebody who did not write it, whatever was hidden, restored or reviewed
\* at the same time, and whoever became a reviewer since.
Author(x) == IF x \in Comments THEN comments[x].by ELSE revs[x].by
Shown == ListedComments \cup UNION {PublicHistory(u) \cup ({pages[u].pub} \ {None}) : u \in Users}
OnlyApprovedIsShown ==
    \A x \in queued \cap Shown :
        \E v \in verdicts : v.on = x /\ v.action = "approve" /\ v.by # Author(x)

\* Of two reviewers who decide on the same comment, revision or report, one does:
\* there is one verdict at most (the stores look for "pending" in the transaction).
DecidedOnce == \A v, w \in verdicts : v.on = w.on => v = w

\* What the queue of hidden content names exists, and a hidden comment is out of
\* sight until it is restored: deletions, purges and reviews keep to it.
HiddenQueueIsTrue ==
    \A c \in HiddenContent :
        /\ c \in Docs => docs[c].state # "gone"
        /\ c \in Comments => comments[c].status = "rejected" /\ hidden[c] \in {"pending", "published"}
        /\ c \in Users => \E r \in Revs : revs[r].page = c /\ Exists(revs[r])

\* A user page that a moderator has hidden shows nothing, so that its history is
\* closed to the public too (History looks at the published revision).
HiddenPageIsClosed == \A u \in Users \cap HiddenContent : PublicHistory(u) = {}
=============================================================================
