------------------------------ MODULE Accounts ------------------------------
(***************************************************************************)
(* Who gets into Element Wiki and as what: accounts made at their first    *)
(* sign-in, sessions, personal tokens, the role and the status that an     *)
(* administrator changes, and the cached site settings that say whether    *)
(* visitors without an account may read.                                   *)
(*                                                                         *)
(* The identity provider is outside: any of its subjects may come back     *)
(* from it verified.  A subject has at most one row of users, which is     *)
(* never deleted, and stands for it.  Each store call is one action.       *)
(***************************************************************************)
EXTENDS Naturals, FiniteSets

CONSTANTS
    Subjects,       \* subjects at the identity provider
    AdminSubjects,  \* those whose address is in oidc.admin_emails
    Requests,       \* slots for HTTP requests in flight
    Patches,        \* what administrators ask UpdateUser for
    MaxCreds        \* bound: sessions and tokens ever issued

Nobody == "nobody"
NoUser == [role |-> "none", status |-> "none"]
NoCache == "nil"
Keep == "keep"
NoPatch == [role |-> Keep, status |-> Keep]

Roles == {"viewer", "editor", "admin"}
Statuses == {"active", "disabled"}
Values == {"true", "false"}
User == [role: Roles, status: Statuses]
Session == [id: 1..MaxCreds, user: Subjects, expired: BOOLEAN]
Token == [id: 1..MaxCreds, user: Subjects, expired: BOOLEAN, revoked: BOOLEAN]
Patch == [role: Roles \cup {Keep}, status: Statuses \cup {Keep}]
         \ {NoPatch}

ASSUME SubjectsAssumption == AdminSubjects \subseteq Subjects /\ Nobody \notin Subjects
ASSUME CredsAssumption == MaxCreds \in Nat

ASSUME PatchesAssumption == Patches \subseteq Patch

VARIABLES
    users,      \* for each subject its row, or NoUser
    sessions,   \* rows of sessions
    tokens,     \* rows of api_tokens
    issued,     \* number of the last session or token handed out
    setting,    \* the setting anonymous_read in the database
    cache,      \* adminservice's copy of it, or NoCache
    reqs,       \* requests in flight
    held,       \* history: who was active in which role since a request came
    apart,      \* history: no two requests were ever in flight together
    raised      \* history: accounts made administrators by a sign-in

vars == <<users, sessions, tokens, issued, setting, cache, reqs, held, apart, raised>>
creds == <<sessions, tokens, issued>>
site == <<setting, cache>>

\* "cred" is the cookie or the bearer token a request shows and "ended" whether
\* that had ended when the request came; "left" counts the reads of the setting
\* still to do; "snap" is what a fill of the cache read.
Request == [pc: {"idle", "count", "create", "session",
                 "lookup", "drop", "user", "admit",
                 "read", "fill", "install", "role", "status", "invalidate"},
            user: Subjects \cup {Nobody}, role: Roles, cred: 0..MaxCreds,
            ended: BOOLEAN, left: 0..2, snap: Values,
            target: Subjects \cup {Nobody}, patch: Patch \cup {NoPatch}]

Idle == [pc |-> "idle", user |-> Nobody, role |-> "viewer", cred |-> 0,
         ended |-> FALSE, left |-> 0, snap |-> "false",
         target |-> Nobody, patch |-> NoPatch]

Busy(q) == q.pc # "idle"
Has(us, s) == us[s] # NoUser
Admins(us) == {s \in Subjects : Has(us, s) /\ us[s].role = "admin"}

\* Who may act now, and in which role.
Entitled(us) == {p \in Subjects \X Roles : us[p[1]] = [role |-> p[2], status |-> "active"]}

\* The credentials that no longer let anyone in.
Ended(n) == /\ \A s \in sessions : s.id = n => s.expired
            /\ \A t \in tokens : t.id = n => t.expired \/ t.revoked

Init ==
    /\ users = [s \in Subjects |-> NoUser]
    /\ sessions = {} /\ tokens = {} /\ issued = 0
    /\ setting \in Values
    /\ cache = NoCache
    /\ reqs = [r \in Requests |-> Idle]
    /\ held = [r \in Requests |-> {}]
    /\ apart = TRUE
    /\ raised = {}

\* Request r goes on with q; users' is given before.
GoOn(r, q) ==
    /\ reqs' = [reqs EXCEPT ![r] = q]
    /\ held' = [x \in Requests |->
                  IF Busy(IF x = r THEN q ELSE reqs[x])
                  THEN held[x] \cup Entitled(users') ELSE {}]
    /\ apart' = (apart /\ \A x \in Requests \ {r} : ~ Busy(reqs[x]))

At(r, pc) == reqs[r].pc = pc

-----------------------------------------------------------------------------
(* Sign-in: handleOIDCCallback, once the provider's token is verified *)

\* ResolveSSO: a disabled account is refused, which changes nothing.
SignIn(r, s) ==
    /\ At(r, "idle")
    /\ UNCHANGED <<users, creds, site, raised>>
    /\ \/ /\ Has(users, s) /\ users[s].status = "active"
          /\ GoOn(r, [Idle EXCEPT !.pc = "session", !.user = s])
       \/ /\ ~ Has(users, s)
          /\ GoOn(r, [Idle EXCEPT !.pc = IF s \in AdminSubjects THEN "count" ELSE "create",
                                  !.user = s])

\* Mutant: whoever is listed is raised.
RaiseListed(r) ==
    /\ At(r, "count")
    /\ UNCHANGED <<users, creds, site, raised>>
    /\ GoOn(r, [reqs[r] EXCEPT !.pc = "create", !.role = "admin"])

\* Administrators are counted whatever their status; an error counts as some.
CountAdmins(r) ==
    /\ At(r, "count")
    /\ UNCHANGED <<users, creds, site, raised>>
    /\ \/ /\ Admins(users) = {}
          /\ GoOn(r, [reqs[r] EXCEPT !.pc = "create", !.role = "admin"])
       \/ GoOn(r, [reqs[r] EXCEPT !.pc = "create"])

\* idx_users_issuer_subject refuses a second row.
CreateUser(r) ==
    LET s == reqs[r].user IN
    /\ At(r, "create")
    /\ UNCHANGED <<creds, site>>
    /\ \/ /\ Has(users, s)
          /\ UNCHANGED <<users, raised>>
          /\ GoOn(r, Idle)
       \/ /\ ~ Has(users, s)
          /\ users' = [users EXCEPT ![s] = [role |-> reqs[r].role, status |-> "active"]]
          /\ raised' = IF reqs[r].role = "admin" THEN raised \cup {s} ELSE raised
          /\ GoOn(r, [reqs[r] EXCEPT !.pc = "session"])

NewSession(r) ==
    /\ At(r, "session") /\ issued < MaxCreds
    /\ issued' = issued + 1
    /\ sessions' = sessions \cup {[id |-> issued + 1, user |-> reqs[r].user, expired |-> FALSE]}
    /\ UNCHANGED <<users, tokens, site, raised>>
    /\ GoOn(r, Idle)

-----------------------------------------------------------------------------
(* authMiddleware *)

\* Where there is no credential, or it is of no use.
Visitor == [Idle EXCEPT !.pc = "read", !.left = 2]

\* A request comes with a cookie or a bearer token that was once issued ...
Arrive(r, n) ==
    /\ At(r, "idle")
    /\ UNCHANGED <<users, creds, site, raised>>
    /\ GoOn(r, [Idle EXCEPT !.pc = "lookup", !.cred = n, !.ended = Ended(n)])

\* ... or with none: a visitor.
ArriveAsVisitor(r) ==
    /\ At(r, "idle")
    /\ UNCHANGED <<users, creds, site, raised>>
    /\ GoOn(r, Visitor)


\* ActorFromSession and ActorFromBearer: the row of the session or the token.  A
\* read that finds none, or fails, makes a visitor.
LookUp(r) ==
    LET q == reqs[r] IN
    /\ At(r, "lookup")
    /\ UNCHANGED <<users, creds, site, raised>>
    /\ \/ \E s \in sessions : s.id = q.cred
             /\ GoOn(r, [q EXCEPT !.pc = IF s.expired THEN "drop" ELSE "user",
                                  !.user = s.user])
       \/ \E t \in tokens : t.id = q.cred
             /\ GoOn(r, IF t.revoked \/ t.expired THEN Visitor
                        ELSE [q EXCEPT !.pc = "user", !.user = t.user])
       \/ GoOn(r, Visitor)

\* An expired session is deleted; an error of that is ignored.
DropSession(r) ==
    /\ At(r, "drop")
    /\ sessions' \in {sessions, {s \in sessions : s.id # reqs[r].cred}}
    /\ UNCHANGED <<users, tokens, issued, site, raised>>
    /\ GoOn(r, Visitor)

\* Mutant: the status is not looked at.
FindAnyUser(r) ==
    /\ At(r, "user")
    /\ UNCHANGED <<users, creds, site, raised>>
    /\ GoOn(r, [reqs[r] EXCEPT !.pc = "admit", !.role = users[reqs[r].user].role])

\* actorOfActiveUser: the actor gets the codes of the role it has now; a
\* disabled account is refused, and a read that fails makes a visitor.
FindUser(r) ==
    LET u == users[reqs[r].user] IN
    /\ At(r, "user")
    /\ UNCHANGED <<users, creds, site, raised>>
    /\ \/ /\ u.status = "active"
          /\ GoOn(r, [reqs[r] EXCEPT !.pc = "admit", !.role = u.role])
       \/ /\ u.status # "active"
          /\ GoOn(r, Idle)
       \/ GoOn(r, Visitor)

-----------------------------------------------------------------------------
(* cachedSettings, which AnonymousActor and then AnonymousEnabled go through *)

HasRead(q) == IF q.left = 2 THEN [q EXCEPT !.pc = "read", !.left = 1, !.snap = "false"]
              ELSE Idle

\* Under the read lock.
ReadCache(r) ==
    /\ At(r, "read")
    /\ UNCHANGED <<users, creds, site, raised>>
    /\ GoOn(r, IF cache = NoCache THEN [reqs[r] EXCEPT !.pc = "fill"] ELSE HasRead(reqs[r]))

\* With no lock held; on an error the configured default is used.
ReadSettings(r) ==
    /\ At(r, "fill")
    /\ UNCHANGED <<users, creds, site, raised>>
    /\ \/ GoOn(r, [reqs[r] EXCEPT !.pc = "install", !.snap = setting])
       \/ GoOn(r, HasRead(reqs[r]))

\* Under the write lock.
InstallCache(r) ==
    /\ At(r, "install")
    /\ cache' = reqs[r].snap
    /\ UNCHANGED <<users, creds, setting, raised>>
    /\ GoOn(r, HasRead(reqs[r]))

-----------------------------------------------------------------------------
(* Handlers of an admitted request *)

IsAdmin(r) == At(r, "admit") /\ reqs[r].role = "admin"

\* Mutant: a status that was not given is written all the same.
ThenStatus(q) == [q EXCEPT !.pc = "status"]

\* The status is written after the role, if it was given.
AfterRole(q) == IF q.patch.status # Keep THEN [q EXCEPT !.pc = "status"] ELSE Idle

Patching(r, t, p) ==
    /\ Has(users, t)
    /\ UNCHANGED <<users, creds, site, raised>>
    /\ GoOn(r, [reqs[r] EXCEPT !.pc = IF p.role # Keep THEN "role" ELSE "status",
                               !.target = t, !.patch = p])

\* Mutant: one's own account too.
PatchAnyUser(r, t, p) == IsAdmin(r) /\ Patching(r, t, p)

\* Mutant: without user.manage.
PatchByAnyone(r, t, p) == At(r, "admit") /\ t # reqs[r].user /\ Patching(r, t, p)

\* UpdateUser, up to its first write.
PatchUser(r, t, p) ==
    /\ IsAdmin(r)
    /\ t # reqs[r].user
    /\ Patching(r, t, p)

UpdateUserRole(r) ==
    /\ At(r, "role")
    /\ users' = [users EXCEPT ![reqs[r].target].role = reqs[r].patch.role]
    /\ UNCHANGED <<creds, site, raised>>
    /\ GoOn(r, AfterRole(reqs[r]))

UpdateUserStatus(r) ==
    /\ At(r, "status")
    /\ users' = [users EXCEPT ![reqs[r].target].status = reqs[r].patch.status]
    /\ UNCHANGED <<creds, site, raised>>
    /\ GoOn(r, Idle)

\* Mutant: the cache stays.
SetSettingsOnly(r, v) ==
    /\ IsAdmin(r)
    /\ setting' = v
    /\ UNCHANGED <<users, creds, cache, raised>>
    /\ GoOn(r, Idle)

\* UpdateSettings: the transaction, then invalidateCache.
SetSettings(r, v) ==
    /\ IsAdmin(r)
    /\ setting' = v
    /\ UNCHANGED <<users, creds, cache, raised>>
    /\ GoOn(r, [reqs[r] EXCEPT !.pc = "invalidate"])

InvalidateCache(r) ==
    /\ At(r, "invalidate")
    /\ cache' = NoCache
    /\ UNCHANGED <<users, creds, setting, raised>>
    /\ GoOn(r, Idle)

IssueToken(r) ==
    /\ At(r, "admit") /\ issued < MaxCreds
    /\ issued' = issued + 1
    /\ tokens' = tokens \cup {[id |-> issued + 1, user |-> reqs[r].user,
                               expired |-> FALSE, revoked |-> FALSE]}
    /\ UNCHANGED <<users, sessions, site, raised>>
    /\ GoOn(r, Idle)

\* Only a token of one's own, and only once.
RevokeToken(r) ==
    /\ At(r, "admit")
    /\ \E t \in tokens :
          /\ t.user = reqs[r].user /\ ~ t.revoked
          /\ tokens' = (tokens \ {t}) \cup {[t EXCEPT !.revoked = TRUE]}
    /\ UNCHANGED <<users, sessions, issued, site, raised>>
    /\ GoOn(r, Idle)

Logout(r) ==
    /\ At(r, "admit")
    /\ \A t \in tokens : t.id # reqs[r].cred
    /\ sessions' = {s \in sessions : s.id # reqs[r].cred}
    /\ UNCHANGED <<users, tokens, issued, site, raised>>
    /\ GoOn(r, Idle)

-----------------------------------------------------------------------------

\* A request ends where it is: its client is gone, a store call failed, or the
\* handler is none of the above.  The two steps in memory cannot fail.
Stop(r) ==
    /\ reqs[r].pc \notin {"idle", "install", "invalidate"}
    /\ UNCHANGED <<users, creds, site, raised>>
    /\ GoOn(r, Idle)

\* Time passes the end of a session's seven days ...
ExpireSession ==
    /\ \E s \in sessions : ~ s.expired /\ sessions' = (sessions \ {s}) \cup {[s EXCEPT !.expired = TRUE]}
    /\ UNCHANGED <<users, tokens, issued, site, reqs, held, apart, raised>>

\* ... or of the term of a token.
ExpireToken ==
    /\ \E t \in tokens : ~ t.expired /\ tokens' = (tokens \ {t}) \cup {[t EXCEPT !.expired = TRUE]}
    /\ UNCHANGED <<users, sessions, issued, site, reqs, held, apart, raised>>

\* The process ends and starts again.
Restart ==
    /\ cache' = NoCache
    /\ reqs' = [r \in Requests |-> Idle]
    /\ held' = [r \in Requests |-> {}]
    /\ UNCHANGED <<users, creds, setting, apart, raised>>

Step(r) ==
    \/ \E s \in Subjects : SignIn(r, s)
    \/ CountAdmins(r) \/ CreateUser(r) \/ NewSession(r)
    \/ \E n \in 1..issued : Arrive(r, n)
    \/ ArriveAsVisitor(r)
    \/ LookUp(r) \/ DropSession(r) \/ FindUser(r)
    \/ ReadCache(r) \/ ReadSettings(r) \/ InstallCache(r)
    \/ \E t \in Subjects, p \in Patches : PatchUser(r, t, p)
    \/ UpdateUserRole(r) \/ UpdateUserStatus(r)
    \/ \E v \in Values : SetSettings(r, v)
    \/ InvalidateCache(r)
    \/ IssueToken(r) \/ RevokeToken(r) \/ Logout(r)
    \/ Stop(r)

Next == (\E r \in Requests : Step(r)) \/ ExpireSession \/ ExpireToken \/ Restart

Spec == Init /\ [][Next]_vars

-----------------------------------------------------------------------------

\* The state is of the shape of the tables and of the locals of the code.
TypeOK ==
    /\ users \in [Subjects -> User \cup {NoUser}]
    /\ sessions \subseteq Session
    /\ tokens \subseteq Token
    /\ issued \in 0..MaxCreds
    /\ setting \in Values
    /\ cache \in Values \cup {NoCache}
    /\ reqs \in [Requests -> Request]
    /\ held \in [Requests -> SUBSET (Subjects \X Roles)]
    /\ apart \in BOOLEAN
    /\ raised \subseteq Subjects

\* A request acts only for a user who, at some time since the request came, was
\* active in the very role whose codes it acts with; and no request that came
\* with a session or token that had ended acts (authMiddleware and the two
\* ActorFrom methods read credential and user in separate statements).
AdmittedWasEntitled ==
    \A r \in Requests : At(r, "admit") =>
        <<reqs[r].user, reqs[r].role>> \in held[r] /\ ~ reqs[r].ended

\* Role and status of an account change only at the hand of a request of somebody
\* else who was an active administrator while it was in flight (UpdateUser).
ChangesAreByAdmins ==
    [][\A s \in Subjects : Has(users, s) /\ users'[s] # users[s] =>
          \E r \in Requests : /\ reqs[r].pc \in {"role", "status"}
                              /\ reqs[r].user # s
                              /\ <<reqs[r].user, "admin">> \in held[r]]_vars

\* Those who can still administer the site.
ActiveAdmins == {s \in Admins(users) : users[s].status = "active"}

\* Where no two requests are ever in flight together, the rule that nobody
\* changes his own account (UpdateUser) keeps an active administrator for ever.
AdminRemains == apart /\ Admins(users) # {} => ActiveAdmins # {}

\* Where no two requests are ever in flight together, a sign-in makes at most one
\* account an administrator, however roles change later (ResolveSSO).
RaisedOnce == apart => \A s, t \in raised : s = t

\* When no request is in flight the cache holds what is saved, or nothing: a saved
\* setting takes effect (cachedSettings, UpdateSettings).
CacheIsFresh == (\A r \in Requests : ~ Busy(reqs[r])) => cache \in {NoCache, setting}

\* It does where no two requests are ever in flight together.
CacheIsFreshAlone == apart => CacheIsFresh
=============================================================================
