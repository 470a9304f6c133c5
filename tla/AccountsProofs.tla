--------------------------- MODULE AccountsProofs ---------------------------
(***************************************************************************)
(* Who acts, who changes accounts, and what holds where requests do not    *)
(* overlap, for every number of subjects, requests and credentials.        *)
(***************************************************************************)
EXTENDS Accounts, TLAPS

(***************************************************************************)
(* The inductive invariant.  A credential in a table belongs to an account *)
(* and has been handed out; a request knows enough about its user, and has *)
(* been watched since it came.                                             *)
(***************************************************************************)
RowsOK == \A c \in sessions \cup tokens : c.id \in 1..issued /\ Has(users, c.user)

WithUser == {"count", "create", "session", "user", "admit", "role", "status"}
WithAccount == WithUser \ {"count", "create"}
Writing == {"role", "status"}

Local(q, h) ==
    /\ q.pc \in WithUser => q.user \in Subjects
    /\ q.pc \in WithAccount => Has(users, q.user)
    /\ q.pc = "lookup" => q.cred \in 1..issued /\ (q.ended => Ended(q.cred))
    /\ q.pc \in {"user", "admit"} => ~ q.ended
    /\ q.pc = "admit" => <<q.user, q.role>> \in h
    /\ q.pc \in Writing => /\ <<q.user, "admin">> \in h
                           /\ q.target \in Subjects /\ q.target # q.user
                           /\ Has(users, q.target)
    /\ q.pc = "role" => q.patch.role # Keep
    /\ q.pc = "status" => q.patch.status # Keep
    /\ Busy(q) => Entitled(users) \subseteq h

LocalsOK == \A r \in Requests : Local(reqs[r], held[r])

Inv == TypeOK /\ RowsOK /\ LocalsOK

(***************************************************************************)
(* What holds besides while requests do not overlap: the request in flight *)
(* finds things as it left them.                                           *)
(***************************************************************************)
Undisturbed(q) ==
    /\ q.pc = "count" => q.role = "viewer"
    /\ q.pc = "create" /\ q.role = "admin" => Admins(users) = {}
    /\ q.pc = "admit" => users[q.user] = [role |-> q.role, status |-> "active"]
    /\ q.pc \in Writing => users[q.user] = [role |-> "admin", status |-> "active"]
    /\ q.pc = "install" => q.snap = setting

OneRequest == \A x, y \in Requests : Busy(reqs[x]) /\ Busy(reqs[y]) => x = y
AdminStays == Admins(users) # {} \/ raised # {} => ActiveAdmins # {}
CacheFollows == cache \in {NoCache, setting} \/ \E r \in Requests : At(r, "invalidate")

Alone ==
    apart => /\ OneRequest /\ AdminStays /\ CacheFollows
             /\ \A s, t \in raised : s = t
             /\ \A r \in Requests : Undisturbed(reqs[r])

-----------------------------------------------------------------------------
(* How a step frames the invariant. *)

\* The tables and the history, apart from the requests.
TablesOK ==
    /\ users \in [Subjects -> User \cup {NoUser}]
    /\ sessions \subseteq Session /\ tokens \subseteq Token
    /\ issued \in 0..MaxCreds
    /\ setting \in Values /\ cache \in Values \cup {NoCache}
    /\ raised \subseteq Subjects

\* What no step undoes: accounts stay, numbers grow, and what has ended has ended.
Grows ==
    /\ \A s \in Subjects : Has(users, s) => Has(users', s)
    /\ issued <= issued'
    /\ \A n \in 1..issued : Ended(n) => Ended(n)'

LEMMA EntitledTyped ==
    ASSUME NEW us PROVE Entitled(us) \subseteq Subjects \X Roles
BY DEF Entitled

LEMMA GoOnTyped ==
    ASSUME TypeOK, NEW r \in Requests, NEW q \in Request, GoOn(r, q)
    PROVE  /\ reqs' \in [Requests -> Request] /\ apart' \in BOOLEAN
           /\ held' \in [Requests -> SUBSET (Subjects \X Roles)]
           /\ reqs'[r] = q
           /\ held'[r] = IF Busy(q) THEN held[r] \cup Entitled(users') ELSE {}
           /\ \A x \in Requests \ {r} :
                 /\ reqs'[x] = reqs[x]
                 /\ held'[x] = IF Busy(reqs[x]) THEN held[x] \cup Entitled(users') ELSE {}
<1>1. Entitled(users') \subseteq Subjects \X Roles
  BY EntitledTyped
<1>2. reqs' \in [Requests -> Request]
  BY DEF TypeOK, GoOn
<1>3. apart' \in BOOLEAN
  BY DEF TypeOK, GoOn
<1>4. \A x \in Requests : held[x] \in SUBSET (Subjects \X Roles)
  BY DEF TypeOK
<1>5. held' \in [Requests -> SUBSET (Subjects \X Roles)]
  BY <1>1, <1>4 DEF GoOn
<1> QED
  BY <1>2, <1>3, <1>5 DEF TypeOK, GoOn

\* A request that does not step keeps its knowledge.
LEMMA OthersLocal ==
    ASSUME Inv, TablesOK', Grows, NEW r \in Requests, NEW q \in Request, GoOn(r, q),
           NEW x \in Requests \ {r}
    PROVE  Local(reqs[x], held[x])'
<1>1. reqs'[x] = reqs[x] /\ reqs[x] \in Request
      /\ held'[x] = IF Busy(reqs[x]) THEN held[x] \cup Entitled(users') ELSE {}
  BY GoOnTyped DEF Inv, TypeOK
<1>2. PICK p \in Request : p = reqs[x]
  BY <1>1
<1>3. Local(p, held[x])
  BY <1>2 DEF Inv, LocalsOK
<1>4. issued \in Nat /\ issued' \in Nat /\ 1..issued \subseteq 1..issued'
  BY CredsAssumption DEF Inv, TypeOK, TablesOK, Grows
<1>5. p.pc = "lookup" => p.cred \in 1..issued' /\ (p.ended => Ended(p.cred)')
  BY <1>3, <1>4 DEF Local, Grows
<1>6. Busy(p) => held[x] \subseteq held'[x] /\ Entitled(users') \subseteq held'[x]
  BY <1>1, <1>2
<1>7. p.pc \in WithUser \cup {"lookup"} => Busy(p)
  BY DEF WithUser, Busy
<1>8. WithAccount \subseteq WithUser /\ Writing \subseteq WithAccount /\ "admit" \in WithUser
  BY DEF WithUser, WithAccount, Writing
<1>9. Local(p, held[x])'
  BY <1>3, <1>5, <1>6, <1>7, <1>8 DEF Local, Grows
<1> QED
  BY <1>1, <1>2, <1>9

\* A step of a request keeps the invariant when it leaves its own part right.
LEMMA StepKeeps ==
    ASSUME Inv, NEW r \in Requests, NEW q \in Request, GoOn(r, q),
           TablesOK', RowsOK', Grows, Local(q, held[r])'
    PROVE  Inv'
<1>1. TypeOK'
  BY GoOnTyped DEF Inv, TypeOK, TablesOK
<1>2. reqs'[r] = q
  BY GoOnTyped DEF Inv
<1>3. LocalsOK'
  BY <1>2, OthersLocal DEF LocalsOK
<1> QED
  BY <1>1, <1>3 DEF Inv

\* It does when it changes no table and knows what it needs.
LEMMA QuietStep ==
    ASSUME Inv, NEW r \in Requests, NEW q \in Request, GoOn(r, q),
           UNCHANGED <<users, creds, site, raised>>,
           Busy(q) => Local(q, held[r] \cup Entitled(users))
    PROVE  Inv'
<1>1. TablesOK' /\ RowsOK'
  BY DEF Inv, TypeOK, TablesOK, RowsOK, creds, site, Has
<1>2. Grows
  BY CredsAssumption DEF Grows, Inv, TypeOK, creds, Ended, Has
<1>3. held'[r] = IF Busy(q) THEN held[r] \cup Entitled(users) ELSE {}
  BY GoOnTyped DEF Inv
<1>4. CASE Busy(q)
  <2>1. held'[r] = held[r] \cup Entitled(users)
    BY <1>3, <1>4
  <2>2. Local(q, held[r])'
    BY <1>4, <2>1 DEF Local, Ended, Has, Entitled, creds, Busy
  <2> QED
    BY <1>1, <1>2, <2>2, StepKeeps
<1>5. CASE ~ Busy(q)
  <2>1. Local(q, held[r])'
    BY <1>5 DEF Local, Busy, WithUser, WithAccount, Writing
  <2> QED
    BY <1>1, <1>2, <2>1, StepKeeps
<1> QED
  BY <1>4, <1>5

-----------------------------------------------------------------------------
(* Every step keeps it. *)

LEMMA InvInit == Init => Inv
<1> SUFFICES ASSUME Init PROVE Inv
  OBVIOUS
<1>1. Idle \in Request /\ Idle.pc = "idle"
  BY CredsAssumption DEF Idle, Request, Roles, Values
<1>2. TypeOK
  BY <1>1, CredsAssumption DEF Init, TypeOK
<1>3. RowsOK
  BY DEF Init, RowsOK
<1>4. LocalsOK
  BY <1>1 DEF Init, LocalsOK, Local, Busy, WithUser, WithAccount, Writing
<1> QED
  BY <1>2, <1>3, <1>4 DEF Inv

\* What is known of the request that steps.
LEMMA Before ==
    ASSUME Inv, NEW r \in Requests
    PROVE  /\ reqs[r] \in Request /\ Local(reqs[r], held[r])
           /\ held[r] \subseteq Subjects \X Roles
BY DEF Inv, TypeOK, LocalsOK

LEMMA IdleTyped == Idle \in Request /\ ~ Busy(Idle)
BY CredsAssumption DEF Idle, Request, Roles, Values, Busy

LEMMA VisitorTyped ==
    /\ Visitor \in Request
    /\ \A h : Entitled(users) \subseteq h => Local(Visitor, h)
<1>1. 2 \in 0..2
  OBVIOUS
<1>2. PICK q : q = Idle
  OBVIOUS
<1>3. PICK p : p = [q EXCEPT !.pc = "read", !.left = 2]
  OBVIOUS
<1>4. p \in Request /\ p.pc = "read"
  BY <1>1, <1>2, <1>3, IdleTyped DEF Request
<1>5. Visitor = p
  BY <1>2, <1>3 DEF Visitor
<1> QED
  BY <1>4, <1>5 DEF Local, WithUser, WithAccount, Writing

\* A request that ends without a write.
LEMMA EndKeeps ==
    ASSUME Inv, NEW r \in Requests, GoOn(r, Idle), UNCHANGED <<users, creds, site, raised>>
    PROVE  Inv'
BY IdleTyped, QuietStep

LEMMA VisitorKeeps ==
    ASSUME Inv, NEW r \in Requests, GoOn(r, Visitor), UNCHANGED <<users, creds, site, raised>>
    PROVE  Inv'
BY VisitorTyped, QuietStep

LEMMA SignInKeeps ==
    ASSUME Inv, NEW r \in Requests, NEW s \in Subjects, SignIn(r, s)
    PROVE  Inv'
<1>1. PICK pc \in {"session", "count", "create"} :
          /\ pc = "session" => Has(users, s)
          /\ GoOn(r, [Idle EXCEPT !.pc = pc, !.user = s])
  BY DEF SignIn
<1>2. PICK q : q = [Idle EXCEPT !.pc = pc, !.user = s]
  OBVIOUS
<1>3. q \in Request /\ q.pc = pc /\ q.user = s
  BY <1>2, IdleTyped DEF Idle, Request
<1>4. Local(q, held[r] \cup Entitled(users))
  BY <1>1, <1>3 DEF Local, WithUser, WithAccount, Writing
<1> QED
  BY <1>1, <1>2, <1>3, <1>4, QuietStep DEF SignIn

LEMMA CountAdminsKeeps ==
    ASSUME Inv, NEW r \in Requests, CountAdmins(r)
    PROVE  Inv'
<1>1. PICK q : q = reqs[r] /\ q \in Request /\ Local(q, held[r])
  BY Before
<1>2. PICK role \in Roles : GoOn(r, [q EXCEPT !.pc = "create", !.role = role])
  <2>1. CASE GoOn(r, [q EXCEPT !.pc = "create", !.role = "admin"])
    BY <2>1 DEF Roles
  <2>2. CASE GoOn(r, [q EXCEPT !.pc = "create"])
    <3>1. [q EXCEPT !.pc = "create"] = [q EXCEPT !.pc = "create", !.role = q.role]
      BY <1>1 DEF Request
    <3> QED
      BY <1>1, <2>2, <3>1 DEF Request
  <2> QED
    BY <1>1, <2>1, <2>2 DEF CountAdmins
<1>3. PICK p : p = [q EXCEPT !.pc = "create", !.role = role]
  OBVIOUS
<1>4. p \in Request /\ p.pc = "create" /\ p.user = q.user
  BY <1>1, <1>3 DEF Request
<1>5. p.user \in Subjects
  BY <1>1, <1>4 DEF Local, CountAdmins, At, WithUser
<1>6. Local(p, held[r] \cup Entitled(users))
  BY <1>4, <1>5 DEF Local, WithUser, WithAccount, Writing
<1> QED
  BY <1>2, <1>3, <1>4, <1>6, QuietStep DEF CountAdmins

LEMMA ArriveKeeps ==
    ASSUME Inv, NEW r \in Requests, NEW n \in 1..issued, Arrive(r, n)
    PROVE  Inv'
<1>1. n \in 0..MaxCreds /\ Ended(n) \in BOOLEAN
  BY CredsAssumption DEF Inv, TypeOK, Ended
<1>2. PICK e \in BOOLEAN : e = Ended(n)
  BY <1>1
<1>3. PICK q : q = [Idle EXCEPT !.pc = "lookup", !.cred = n, !.ended = e]
  OBVIOUS
<1>4. q \in Request /\ q.pc = "lookup" /\ q.cred = n /\ q.ended = e
  BY <1>1, <1>3, IdleTyped DEF Idle, Request
<1>5. Local(q, held[r] \cup Entitled(users))
  BY <1>2, <1>4 DEF Local, WithUser, WithAccount, Writing
<1> QED
  BY <1>2, <1>3, <1>4, <1>5, QuietStep DEF Arrive

LEMMA LookUpKeeps ==
    ASSUME Inv, NEW r \in Requests, LookUp(r)
    PROVE  Inv'
<1>1. PICK q : q = reqs[r] /\ q \in Request /\ Local(q, held[r])
  BY Before
<1>2. q.cred \in 1..issued /\ (q.ended => Ended(q.cred)) /\ q.pc = "lookup"
  BY <1>1 DEF LookUp, At, Local
<1>3. \A c \in sessions \cup tokens : c.user \in Subjects /\ Has(users, c.user)
  BY DEF Inv, TypeOK, RowsOK, Session, Token
<1>4. ASSUME NEW pc \in {"drop", "user"}, NEW u \in Subjects, Has(users, u),
             pc = "user" => ~ q.ended, GoOn(r, [q EXCEPT !.pc = pc, !.user = u])
      PROVE  Inv'
  <2>1. PICK p : p = [q EXCEPT !.pc = pc, !.user = u]
    OBVIOUS
  <2>2. p \in Request /\ p.pc = pc /\ p.user = u /\ p.ended = q.ended
    BY <1>1, <2>1 DEF Request
  <2>3. Local(p, held[r] \cup Entitled(users))
    BY <1>4, <2>2 DEF Local, WithUser, WithAccount, Writing
  <2> QED
    BY <1>4, <2>1, <2>2, <2>3, QuietStep DEF LookUp
<1>5. CASE \E s \in sessions : /\ s.id = q.cred
                               /\ GoOn(r, [q EXCEPT !.pc = IF s.expired THEN "drop" ELSE "user",
                                                    !.user = s.user])
  <2>1. PICK s \in sessions : /\ s.id = q.cred
                              /\ GoOn(r, [q EXCEPT !.pc = IF s.expired THEN "drop" ELSE "user",
                                                   !.user = s.user])
    BY <1>5
  <2>2. q.ended => s.expired
    BY <1>2, <2>1 DEF Ended
  <2>3. PICK pc, u : pc = (IF s.expired THEN "drop" ELSE "user") /\ u = s.user
    OBVIOUS
  <2> QED
    BY <1>3, <1>4, <2>1, <2>2, <2>3
<1>6. CASE \E t \in tokens : /\ t.id = q.cred
                             /\ GoOn(r, IF t.revoked \/ t.expired THEN Visitor
                                        ELSE [q EXCEPT !.pc = "user", !.user = t.user])
  <2>1. PICK t \in tokens : /\ t.id = q.cred
                            /\ GoOn(r, IF t.revoked \/ t.expired THEN Visitor
                                       ELSE [q EXCEPT !.pc = "user", !.user = t.user])
    BY <1>6
  <2>2. CASE t.revoked \/ t.expired
    BY <2>1, <2>2, VisitorKeeps DEF LookUp
  <2>3. CASE ~ (t.revoked \/ t.expired)
    <3>1. ~ q.ended
      BY <1>2, <2>1, <2>3 DEF Ended
    <3>2. PICK u : u = t.user
      OBVIOUS
    <3> QED
      BY <1>3, <1>4, <2>1, <2>3, <3>1, <3>2
  <2> QED
    BY <2>2, <2>3
<1>7. CASE GoOn(r, Visitor)
  BY <1>7, VisitorKeeps DEF LookUp
<1> QED
  BY <1>1, <1>5, <1>6, <1>7 DEF LookUp

LEMMA FindUserKeeps ==
    ASSUME Inv, NEW r \in Requests, FindUser(r)
    PROVE  Inv'
<1>1. PICK q : q = reqs[r] /\ q \in Request /\ Local(q, held[r])
  BY Before
<1>2. q.pc = "user" /\ q.user \in Subjects /\ Has(users, q.user) /\ ~ q.ended
  BY <1>1 DEF FindUser, At, Local, WithUser, WithAccount
<1>3. users[q.user] \in User
  BY <1>2 DEF Inv, TypeOK, Has
<1>4. CASE /\ users[q.user].status = "active"
           /\ GoOn(r, [q EXCEPT !.pc = "admit", !.role = users[q.user].role])
  <2>1. PICK role : role = users[q.user].role
    OBVIOUS
  <2>2. role \in Roles /\ users[q.user] = [role |-> role, status |-> "active"]
    BY <1>3, <1>4, <2>1 DEF User
  <2>3. PICK p : p = [q EXCEPT !.pc = "admit", !.role = role]
    OBVIOUS
  <2>4. p \in Request /\ p.pc = "admit" /\ p.user = q.user /\ p.role = role /\ p.ended = q.ended
    BY <1>1, <2>2, <2>3 DEF Request
  <2>5. <<p.user, p.role>> \in Entitled(users)
    BY <1>2, <2>2, <2>4 DEF Entitled
  <2>6. Local(p, held[r] \cup Entitled(users))
    BY <1>2, <2>4, <2>5 DEF Local, WithUser, WithAccount, Writing
  <2> QED
    BY <1>4, <2>1, <2>3, <2>4, <2>6, QuietStep DEF FindUser
<1>5. CASE GoOn(r, Idle)
  BY <1>5, EndKeeps DEF FindUser
<1>6. CASE GoOn(r, Visitor)
  BY <1>6, VisitorKeeps DEF FindUser
<1> QED
  BY <1>1, <1>4, <1>5, <1>6 DEF FindUser

\* A request that reads the settings knows nothing that could be wrong.
LEMMA Reading ==
    ASSUME NEW q \in Request, q.pc \in {"read", "fill", "install", "invalidate"},
           NEW h, Entitled(users) \subseteq h
    PROVE  Local(q, h)
BY DEF Local, WithUser, WithAccount, Writing

LEMMA HasReadTyped ==
    ASSUME NEW q \in Request
    PROVE  HasRead(q) \in Request /\ HasRead(q).pc \in {"idle", "read"}
<1>1. CASE q.left = 2
  <2>1. 1 \in 0..2
    OBVIOUS
  <2> QED
    BY <1>1, <2>1 DEF HasRead, Request, Values
<1>2. CASE q.left # 2
  BY <1>2, IdleTyped DEF HasRead, Idle
<1> QED
  BY <1>1, <1>2

LEMMA HasReadKeeps ==
    ASSUME Inv, NEW r \in Requests, NEW q \in Request, GoOn(r, HasRead(q)),
           UNCHANGED <<users, creds, site, raised>>
    PROVE  Inv'
<1>1. PICK p : p = HasRead(q)
  OBVIOUS
<1>2. p \in Request /\ p.pc \in {"idle", "read"}
  BY <1>1, HasReadTyped
<1>3. Busy(p) => Local(p, held[r] \cup Entitled(users))
  BY <1>2, Reading DEF Busy
<1> QED
  BY <1>1, <1>2, <1>3, QuietStep

LEMMA ReadKeeps ==
    ASSUME Inv, NEW r \in Requests, ReadCache(r) \/ ReadSettings(r)
    PROVE  Inv'
<1>1. PICK q : q = reqs[r] /\ q \in Request /\ Local(q, held[r])
  BY Before
<1>2. UNCHANGED <<users, creds, site, raised>>
  BY DEF ReadCache, ReadSettings
<1>3. CASE GoOn(r, HasRead(q))
  BY <1>1, <1>2, <1>3, HasReadKeeps
<1>4. CASE GoOn(r, [q EXCEPT !.pc = "fill"])
  <2>1. PICK p : p = [q EXCEPT !.pc = "fill"]
    OBVIOUS
  <2>2. p \in Request /\ p.pc = "fill"
    BY <1>1, <2>1 DEF Request
  <2> QED
    BY <1>2, <1>4, <2>1, <2>2, Reading, QuietStep
<1>5. CASE GoOn(r, [q EXCEPT !.pc = "install", !.snap = setting])
  <2>1. PICK v \in Values : v = setting
    BY DEF Inv, TypeOK
  <2>2. PICK p : p = [q EXCEPT !.pc = "install", !.snap = v]
    OBVIOUS
  <2>3. p \in Request /\ p.pc = "install"
    BY <1>1, <2>2 DEF Request
  <2> QED
    BY <1>2, <1>5, <2>1, <2>2, <2>3, Reading, QuietStep
<1> QED
  BY <1>1, <1>3, <1>4, <1>5 DEF ReadCache, ReadSettings

LEMMA PatchUserKeeps ==
    ASSUME Inv, NEW r \in Requests, NEW t \in Subjects, NEW p \in Patches, PatchUser(r, t, p)
    PROVE  Inv'
<1>1. PICK q : q = reqs[r] /\ q \in Request /\ Local(q, held[r])
  BY Before
<1>2. /\ q.pc = "admit" /\ q.role = "admin" /\ q.user \in Subjects
      /\ Has(users, q.user) /\ <<q.user, "admin">> \in held[r]
  BY <1>1 DEF PatchUser, IsAdmin, At, Local, WithUser, WithAccount
<1>3. p \in Patch
  BY PatchesAssumption
<1>4. p.role # Keep \/ p.status # Keep
  <2>1. p = [role |-> p.role, status |-> p.status]
    BY <1>3 DEF Patch
  <2> QED
    BY <1>3, <2>1 DEF Patch, NoPatch
<1>5. PICK pc \in Writing : pc = IF p.role # Keep THEN "role" ELSE "status"
  BY DEF Writing
<1>6. PICK n : n = [q EXCEPT !.pc = pc, !.target = t, !.patch = p]
  OBVIOUS
<1>7. n \in Request /\ n.pc = pc /\ n.user = q.user /\ n.target = t /\ n.patch = p
  BY <1>1, <1>3, <1>5, <1>6 DEF Request, Writing
<1>8. t # q.user /\ Has(users, t)
  BY <1>1 DEF PatchUser, Patching
<1>9. Local(n, held[r] \cup Entitled(users))
  BY <1>2, <1>4, <1>5, <1>7, <1>8 DEF Local, WithUser, WithAccount, Writing
<1> QED
  BY <1>1, <1>5, <1>6, <1>7, <1>9, QuietStep DEF PatchUser, Patching

-----------------------------------------------------------------------------
(* Steps that change a table. *)

\* Of the credentials and accounts, what a step that leaves them has to show.
LEMMA CredsChange ==
    ASSUME Inv, NEW r \in Requests, GoOn(r, Idle) \/ GoOn(r, Visitor),
           UNCHANGED <<users, site, raised>>,
           sessions' \subseteq Session, tokens' \subseteq Token,
           issued' \in 0..MaxCreds, RowsOK', Grows
    PROVE  Inv'
<1>1. TablesOK'
  BY DEF Inv, TypeOK, TablesOK, site
<1>2. PICK q \in {Idle, Visitor} : GoOn(r, q)
  OBVIOUS
<1>3. q \in Request /\ (Busy(q) => q.pc = "read")
  BY <1>2, IdleTyped, VisitorTyped DEF Visitor, Idle, Request, Busy
<1>4. held'[r] = IF Busy(q) THEN held[r] \cup Entitled(users) ELSE {}
  BY <1>2, <1>3, GoOnTyped DEF Inv
<1>5. Local(q, held[r])'
  BY <1>3, <1>4 DEF Local, Busy, WithUser, WithAccount, Writing
<1> QED
  BY <1>1, <1>2, <1>3, <1>5, StepKeeps

LEMMA NewSessionKeeps ==
    ASSUME Inv, NEW r \in Requests, NewSession(r)
    PROVE  Inv'
<1>1. /\ reqs[r].user \in Subjects /\ Has(users, reqs[r].user)
      /\ UNCHANGED <<users, tokens, site, raised>> /\ issued' = issued + 1
      /\ GoOn(r, Idle)
  BY Before DEF NewSession, At, Local, WithUser, WithAccount
<1>2. PICK new : new = [id |-> issued + 1, user |-> reqs[r].user, expired |-> FALSE]
  OBVIOUS
<1>3. sessions' = sessions \cup {new}
  BY <1>2 DEF NewSession
<1>4. issued \in 0..MaxCreds /\ issued + 1 \in 0..MaxCreds /\ issued + 1 \in 1..MaxCreds
  BY CredsAssumption DEF Inv, TypeOK, NewSession
<1>5. new \in Session /\ new.id = issued + 1 /\ new.user = reqs[r].user
  BY <1>1, <1>2, <1>4 DEF Session
<1>6. sessions' \subseteq Session /\ tokens' \subseteq Token
  BY <1>1, <1>3, <1>5 DEF Inv, TypeOK
<1>7. 1..issued \subseteq 1..(issued + 1) /\ issued + 1 \in 1..(issued + 1)
      /\ issued + 1 \notin 1..issued
  BY <1>4, CredsAssumption
<1>8. RowsOK'
  BY <1>1, <1>3, <1>5, <1>7 DEF Inv, RowsOK, Has
<1>9. Grows
  BY <1>1, <1>3, <1>4, <1>5, <1>7, CredsAssumption DEF Grows, Has, Ended
<1> QED
  BY <1>1, <1>4, <1>6, <1>8, <1>9, CredsChange

LEMMA IssueTokenKeeps ==
    ASSUME Inv, NEW r \in Requests, IssueToken(r)
    PROVE  Inv'
<1>1. /\ reqs[r].user \in Subjects /\ Has(users, reqs[r].user)
      /\ UNCHANGED <<users, sessions, site, raised>> /\ issued' = issued + 1
      /\ GoOn(r, Idle)
  BY Before DEF IssueToken, At, Local, WithUser, WithAccount
<1>2. PICK new : new = [id |-> issued + 1, user |-> reqs[r].user,
                        expired |-> FALSE, revoked |-> FALSE]
  OBVIOUS
<1>3. tokens' = tokens \cup {new}
  BY <1>2 DEF IssueToken
<1>4. issued \in 0..MaxCreds /\ issued + 1 \in 0..MaxCreds /\ issued + 1 \in 1..MaxCreds
  BY CredsAssumption DEF Inv, TypeOK, IssueToken
<1>5. new \in Token /\ new.id = issued + 1 /\ new.user = reqs[r].user
  BY <1>1, <1>2, <1>4 DEF Token
<1>6. sessions' \subseteq Session /\ tokens' \subseteq Token
  BY <1>1, <1>3, <1>5 DEF Inv, TypeOK
<1>7. 1..issued \subseteq 1..(issued + 1) /\ issued + 1 \in 1..(issued + 1)
      /\ issued + 1 \notin 1..issued
  BY <1>4, CredsAssumption
<1>8. RowsOK'
  BY <1>1, <1>3, <1>5, <1>7 DEF Inv, RowsOK, Has
<1>9. Grows
  BY <1>1, <1>3, <1>4, <1>5, <1>7, CredsAssumption DEF Grows, Has, Ended
<1> QED
  BY <1>1, <1>4, <1>6, <1>8, <1>9, CredsChange

\* Where sessions are only deleted or expire, and tokens only expire or are
\* revoked, what has ended stays ended and the rows stay right.
LEMMA CredsEnd ==
    ASSUME Inv, UNCHANGED <<users, issued>>,
           \A s \in sessions' : \E o \in sessions :
               s.id = o.id /\ s.user = o.user /\ (o.expired => s.expired),
           \A t \in tokens' : \E o \in tokens :
               /\ t.id = o.id /\ t.user = o.user
               /\ o.expired \/ o.revoked => t.expired \/ t.revoked
    PROVE  RowsOK' /\ Grows
<1>1. RowsOK'
  BY DEF Inv, RowsOK, Has
<1>2. ASSUME NEW n \in 1..issued, Ended(n) PROVE Ended(n)'
  BY <1>2 DEF Ended
<1>3. issued <= issued'
  BY CredsAssumption DEF Inv, TypeOK
<1> QED
  BY <1>1, <1>2, <1>3 DEF Grows, Has

LEMMA EndCredsKeeps ==
    ASSUME Inv, NEW r \in Requests, DropSession(r) \/ Logout(r)
    PROVE  Inv'
<1>1. /\ UNCHANGED <<users, tokens, issued, site, raised>> /\ sessions' \subseteq sessions
      /\ GoOn(r, Idle) \/ GoOn(r, Visitor)
  BY DEF DropSession, Logout
<1>2. RowsOK' /\ Grows
  BY <1>1, CredsEnd
<1> QED
  BY <1>1, <1>2, CredsChange DEF Inv, TypeOK

\* One row changes.
LEMMA ExpiredSession ==
    ASSUME NEW s \in Session
    PROVE  /\ [s EXCEPT !.expired = TRUE] \in Session
           /\ [s EXCEPT !.expired = TRUE].id = s.id
           /\ [s EXCEPT !.expired = TRUE].user = s.user
           /\ [s EXCEPT !.expired = TRUE].expired
BY DEF Session

LEMMA EndedToken ==
    ASSUME NEW t \in Token
    PROVE  /\ [t EXCEPT !.expired = TRUE] \in Token
           /\ [t EXCEPT !.expired = TRUE].id = t.id
           /\ [t EXCEPT !.expired = TRUE].user = t.user
           /\ [t EXCEPT !.expired = TRUE].expired
           /\ [t EXCEPT !.revoked = TRUE] \in Token
           /\ [t EXCEPT !.revoked = TRUE].id = t.id
           /\ [t EXCEPT !.revoked = TRUE].user = t.user
           /\ [t EXCEPT !.revoked = TRUE].revoked
BY DEF Token

LEMMA RevokeTokenKeeps ==
    ASSUME Inv, NEW r \in Requests, RevokeToken(r)
    PROVE  Inv'
<1>1. PICK t \in tokens : tokens' = (tokens \ {t}) \cup {[t EXCEPT !.revoked = TRUE]}
  BY DEF RevokeToken
<1>2. PICK n : n = [t EXCEPT !.revoked = TRUE]
  OBVIOUS
<1>3. n \in Token /\ n.id = t.id /\ n.user = t.user /\ n.revoked
  BY <1>1, <1>2, EndedToken DEF Inv, TypeOK
<1>4. UNCHANGED <<users, sessions, issued, site, raised>> /\ GoOn(r, Idle)
  BY DEF RevokeToken
<1>5. tokens' \subseteq Token
  BY <1>1, <1>2, <1>3 DEF Inv, TypeOK
<1>6. RowsOK' /\ Grows
  BY <1>1, <1>2, <1>3, <1>4, CredsEnd
<1> QED
  BY <1>4, <1>5, <1>6, CredsChange DEF Inv, TypeOK

\* The same for a step that changes accounts only.
LEMMA UsersChange ==
    ASSUME Inv, NEW r \in Requests, NEW q \in Request, GoOn(r, q),
           UNCHANGED <<creds, site>>, raised' \subseteq Subjects,
           users' \in [Subjects -> User \cup {NoUser}],
           \A s \in Subjects : Has(users, s) => Has(users', s),
           Local(q, held[r])'
    PROVE  Inv'
<1>1. TablesOK'
  BY DEF Inv, TypeOK, TablesOK, creds, site
<1>2. \A c \in sessions \cup tokens : c.user \in Subjects
  BY DEF Inv, TypeOK, Session, Token
<1>3. RowsOK'
  BY <1>2 DEF Inv, RowsOK, creds, Has
<1>4. \A n \in 1..issued : Ended(n) => Ended(n)'
  BY DEF Ended, creds
<1>5. Grows
  BY <1>4, CredsAssumption DEF Grows, Inv, TypeOK, creds
<1> QED
  BY <1>1, <1>3, <1>5, StepKeeps

LEMMA CreateUserKeeps ==
    ASSUME Inv, NEW r \in Requests, CreateUser(r)
    PROVE  Inv'
<1>1. PICK q : q = reqs[r] /\ q \in Request /\ Local(q, held[r])
  BY Before
<1>2. q.pc = "create" /\ q.user \in Subjects
  BY <1>1 DEF CreateUser, At, Local, WithUser
<1>3. CASE Has(users, q.user)
  BY <1>1, <1>3, EndKeeps DEF CreateUser
<1>4. CASE ~ Has(users, q.user)
  <2>1. /\ users' = [users EXCEPT ![q.user] = [role |-> q.role, status |-> "active"]]
        /\ UNCHANGED <<creds, site>>
        /\ raised' = (IF q.role = "admin" THEN raised \cup {q.user} ELSE raised)
        /\ GoOn(r, [q EXCEPT !.pc = "session"])
    BY <1>1, <1>4 DEF CreateUser
  <2>2. PICK p : p = [q EXCEPT !.pc = "session"]
    OBVIOUS
  <2>3. p \in Request /\ p.pc = "session" /\ p.user = q.user
    BY <1>1, <2>2 DEF Request
  <2>4. PICK u : u = [role |-> q.role, status |-> "active"]
    OBVIOUS
  <2>5. u \in User /\ u # NoUser
    BY <1>1, <2>4 DEF User, Request, NoUser, Statuses
  <2>6. /\ users' \in [Subjects -> User \cup {NoUser}]
        /\ \A s \in Subjects : Has(users, s) => Has(users', s)
        /\ Has(users', q.user)
    BY <1>2, <2>1, <2>4, <2>5 DEF Inv, TypeOK, Has
  <2>7. raised' \subseteq Subjects
    BY <1>2, <2>1 DEF Inv, TypeOK
  <2>8. held'[r] = held[r] \cup Entitled(users')
    BY <2>1, <2>2, <2>3, GoOnTyped DEF Inv, Busy
  <2>9. Local(p, held[r])'
    BY <1>2, <2>3, <2>6, <2>8 DEF Local, WithUser, WithAccount, Writing, Has
  <2> QED
    BY <2>1, <2>2, <2>3, <2>6, <2>7, <2>9, UsersChange
<1> QED
  BY <1>3, <1>4

\* A row of users gets another role or status.
LEMMA RowChange ==
    ASSUME Inv, NEW t \in Subjects, Has(users, t), NEW u \in User,
           users' = [users EXCEPT ![t] = u]
    PROVE  /\ users' \in [Subjects -> User \cup {NoUser}]
           /\ \A s \in Subjects : Has(users, s) => Has(users', s)
<1>1. u # NoUser
  BY DEF User, NoUser, Roles
<1> QED
  BY <1>1 DEF Inv, TypeOK, Has

LEMMA UpdateRoleKeeps ==
    ASSUME Inv, NEW r \in Requests, UpdateUserRole(r)
    PROVE  Inv'
<1>1. PICK q : q = reqs[r] /\ q \in Request /\ Local(q, held[r])
  BY Before
<1>2. /\ q.pc = "role" /\ q.user \in Subjects /\ Has(users, q.user)
      /\ q.target \in Subjects /\ q.target # q.user /\ Has(users, q.target)
      /\ q.patch.role # Keep /\ <<q.user, "admin">> \in held[r]
  BY <1>1 DEF UpdateUserRole, At, Local, WithUser, WithAccount, Writing
<1>3. q.patch \in Patch /\ q.patch.role \in Roles
  BY <1>1, <1>2 DEF Request, Patch, NoPatch
<1>4. users[q.target] \in User
  BY <1>2 DEF Inv, TypeOK, Has
<1>5. PICK u : u = [users[q.target] EXCEPT !.role = q.patch.role]
  OBVIOUS
<1>6. u \in User
  BY <1>3, <1>4, <1>5 DEF User
<1>7. users' = [users EXCEPT ![q.target] = u]
  BY <1>1, <1>5 DEF UpdateUserRole, Inv, TypeOK
<1>8. /\ users' \in [Subjects -> User \cup {NoUser}]
      /\ \A s \in Subjects : Has(users, s) => Has(users', s)
  BY <1>2, <1>6, <1>7, RowChange
<1>9. UNCHANGED <<creds, site, raised>>
  BY DEF UpdateUserRole
<1>10. CASE q.patch.status # Keep
  <2>1. PICK p : p = [q EXCEPT !.pc = "status"]
    OBVIOUS
  <2>2. /\ p \in Request /\ p.pc = "status" /\ p.user = q.user
        /\ p.target = q.target /\ p.patch = q.patch
    BY <1>1, <2>1 DEF Request
  <2>3. GoOn(r, p)
    BY <1>1, <1>10, <2>1 DEF UpdateUserRole, AfterRole
  <2>4. held'[r] = held[r] \cup Entitled(users')
    BY <2>2, <2>3, GoOnTyped DEF Inv, Busy
  <2>5. Local(p, held[r])'
    BY <1>2, <1>8, <1>10, <2>2, <2>4 DEF Local, WithUser, WithAccount, Writing, Has
  <2> QED
    BY <1>8, <1>9, <2>2, <2>3, <2>5, UsersChange DEF Inv, TypeOK
<1>11. CASE q.patch.status = Keep
  <2>1. GoOn(r, Idle)
    BY <1>1, <1>11 DEF UpdateUserRole, AfterRole
  <2>2. Local(Idle, held[r])'
    BY DEF Local, Idle, Busy, WithUser, WithAccount, Writing
  <2> QED
    BY <1>8, <1>9, <2>1, <2>2, IdleTyped, UsersChange DEF Inv, TypeOK
<1> QED
  BY <1>10, <1>11

LEMMA UpdateStatusKeeps ==
    ASSUME Inv, NEW r \in Requests, UpdateUserStatus(r)
    PROVE  Inv'
<1>1. PICK q : q = reqs[r] /\ q \in Request /\ Local(q, held[r])
  BY Before
<1>2. /\ q.pc = "status" /\ q.target \in Subjects /\ Has(users, q.target)
      /\ q.patch.status # Keep
  BY <1>1 DEF UpdateUserStatus, At, Local, Writing
<1>3. q.patch.status \in Statuses
  BY <1>1, <1>2 DEF Request, Patch, NoPatch
<1>4. users[q.target] \in User
  BY <1>2 DEF Inv, TypeOK, Has
<1>5. PICK u : u = [users[q.target] EXCEPT !.status = q.patch.status]
  OBVIOUS
<1>6. u \in User
  BY <1>3, <1>4, <1>5 DEF User
<1>7. users' = [users EXCEPT ![q.target] = u]
  BY <1>1, <1>5 DEF UpdateUserStatus, Inv, TypeOK
<1>8. UNCHANGED <<creds, site, raised>> /\ GoOn(r, Idle)
  BY DEF UpdateUserStatus
<1>9. Local(Idle, held[r])'
  BY DEF Local, Idle, Busy, WithUser, WithAccount, Writing
<1> QED
  BY <1>2, <1>6, <1>7, <1>8, <1>9, RowChange, IdleTyped, UsersChange DEF Inv, TypeOK

\* A step that changes the setting or the cache only.
LEMMA SiteChange ==
    ASSUME Inv, NEW r \in Requests, NEW q \in Request, GoOn(r, q),
           UNCHANGED <<users, creds, raised>>,
           setting' \in Values, cache' \in Values \cup {NoCache},
           q.pc \in {"idle", "read", "fill", "install", "invalidate"}
    PROVE  Inv'
<1>1. TablesOK' /\ RowsOK'
  BY DEF Inv, TypeOK, TablesOK, RowsOK, creds, Has
<1>2. Grows
  BY CredsAssumption DEF Grows, Inv, TypeOK, creds, Ended, Has
<1>3. held'[r] = IF Busy(q) THEN held[r] \cup Entitled(users) ELSE {}
  BY GoOnTyped DEF Inv
<1>4. Local(q, held[r])'
  BY <1>3 DEF Local, Busy, WithUser, WithAccount, Writing
<1> QED
  BY <1>1, <1>2, <1>4, StepKeeps

LEMMA SiteKeeps ==
    ASSUME Inv, NEW r \in Requests,
           InstallCache(r) \/ InvalidateCache(r) \/ \E v \in Values : SetSettings(r, v)
    PROVE  Inv'
<1>1. PICK q : q = reqs[r] /\ q \in Request
  BY Before
<1>2. setting \in Values /\ cache \in Values \cup {NoCache}
  BY DEF Inv, TypeOK
<1>3. CASE InstallCache(r)
  <2>1. PICK p : p = HasRead(q)
    OBVIOUS
  <2>2. p \in Request /\ p.pc \in {"idle", "read"} /\ q.snap \in Values
    BY <1>1, <2>1, HasReadTyped DEF Request
  <2> QED
    BY <1>1, <1>2, <1>3, <2>1, <2>2, SiteChange DEF InstallCache
<1>4. CASE InvalidateCache(r)
  <2>1. Idle.pc = "idle"
    BY DEF Idle
  <2> QED
    BY <1>2, <1>4, <2>1, IdleTyped, SiteChange DEF InvalidateCache
<1>5. CASE \E v \in Values : SetSettings(r, v)
  <2>1. PICK p : p = [q EXCEPT !.pc = "invalidate"]
    OBVIOUS
  <2>2. p \in Request /\ p.pc = "invalidate"
    BY <1>1, <2>1 DEF Request
  <2> QED
    BY <1>1, <1>2, <1>5, <2>1, <2>2, SiteChange DEF SetSettings
<1> QED
  BY <1>3, <1>4, <1>5

LEMMA StepKeepsInv ==
    ASSUME Inv, NEW r \in Requests, Step(r)
    PROVE  Inv'
<1>1. CASE \E s \in Subjects : SignIn(r, s)
  BY <1>1, SignInKeeps
<1>2. CASE \E n \in 1..issued : Arrive(r, n)
  BY <1>2, ArriveKeeps
<1>3. CASE ArriveAsVisitor(r)
  BY <1>3, VisitorKeeps DEF ArriveAsVisitor
<1>4. CASE \E t \in Subjects, p \in Patches : PatchUser(r, t, p)
  BY <1>4, PatchUserKeeps
<1>5. CASE Stop(r)
  BY <1>5, EndKeeps DEF Stop
<1>6. CASE \E v \in Values : SetSettings(r, v)
  BY <1>6, SiteKeeps
<1>7. CASE LookUp(r) \/ FindUser(r) \/ DropSession(r) \/ Logout(r)
  BY <1>7, LookUpKeeps, FindUserKeeps, EndCredsKeeps
<1>8. CASE CountAdmins(r) \/ CreateUser(r) \/ NewSession(r) \/ IssueToken(r) \/ RevokeToken(r)
  BY <1>8, CountAdminsKeeps, CreateUserKeeps, NewSessionKeeps, IssueTokenKeeps, RevokeTokenKeeps
<1>9. CASE UpdateUserRole(r) \/ UpdateUserStatus(r)
  BY <1>9, UpdateRoleKeeps, UpdateStatusKeeps
<1>10. CASE ReadCache(r) \/ ReadSettings(r) \/ InstallCache(r) \/ InvalidateCache(r)
  BY <1>10, ReadKeeps, SiteKeeps
<1> QED
  BY <1>1, <1>2, <1>3, <1>4, <1>5, <1>6, <1>7, <1>8, <1>9, <1>10 DEF Step

\* A step of the clock or of the process leaves the requests or ends them all.
LEMMA LocalFrame ==
    ASSUME Inv, Grows, issued' = issued, users' = users,
           NEW q \in Request, NEW h, Local(q, h)
    PROVE  /\ q.pc \in {"user", "admit"} => ~ q.ended
           /\ q.pc = "lookup" => (q.ended => Ended(q.cred)')
BY DEF Local, Grows

LEMMA ExpiryKeeps ==
    ASSUME Inv, ExpireSession \/ ExpireToken
    PROVE  Inv'
<1>1. UNCHANGED <<users, issued, site, reqs, held, apart, raised>>
  BY DEF ExpireSession, ExpireToken
<1>2. /\ \A s \in sessions' : s \in Session /\ \E o \in sessions :
             s.id = o.id /\ s.user = o.user /\ (o.expired => s.expired)
      /\ \A t \in tokens' : t \in Token /\ \E o \in tokens :
             /\ t.id = o.id /\ t.user = o.user
             /\ o.expired \/ o.revoked => t.expired \/ t.revoked
  <2>0. sessions \subseteq Session /\ tokens \subseteq Token
    BY DEF Inv, TypeOK
  <2>1. CASE ExpireSession
    <3>1. PICK s \in sessions : sessions' = (sessions \ {s}) \cup {[s EXCEPT !.expired = TRUE]}
      BY <2>1 DEF ExpireSession
    <3>2. PICK n : n = [s EXCEPT !.expired = TRUE]
      OBVIOUS
    <3>3. n \in Session /\ n.id = s.id /\ n.user = s.user /\ n.expired
      BY <2>0, <3>1, <3>2, ExpiredSession
    <3>4. tokens' = tokens
      BY <2>1 DEF ExpireSession
    <3> QED
      BY <2>0, <3>1, <3>2, <3>3, <3>4
  <2>2. CASE ExpireToken
    <3>1. PICK t \in tokens : tokens' = (tokens \ {t}) \cup {[t EXCEPT !.expired = TRUE]}
      BY <2>2 DEF ExpireToken
    <3>2. PICK n : n = [t EXCEPT !.expired = TRUE]
      OBVIOUS
    <3>3. n \in Token /\ n.id = t.id /\ n.user = t.user /\ n.expired
      BY <2>0, <3>1, <3>2, EndedToken
    <3>4. sessions' = sessions
      BY <2>2 DEF ExpireToken
    <3> QED
      BY <2>0, <3>1, <3>2, <3>3, <3>4
  <2> QED
    BY <2>1, <2>2
<1>3. RowsOK' /\ Grows
  BY <1>1, <1>2, CredsEnd
<1>4. TypeOK'
  BY <1>1, <1>2 DEF Inv, TypeOK, site
<1>5. ASSUME NEW r \in Requests PROVE Local(reqs[r], held[r])'
  <2>1. PICK q : q = reqs[r] /\ q \in Request /\ Local(q, held[r])
    BY Before
  <2>2. Local(q, held[r])'
    BY <1>1, <1>3, <2>1, LocalFrame DEF Local, Has, Entitled
  <2> QED
    BY <1>1, <2>1, <2>2
<1> QED
  BY <1>3, <1>4, <1>5 DEF Inv, LocalsOK

LEMMA RestartKeeps ==
    ASSUME Inv, Restart
    PROVE  Inv'
<1>1. TypeOK'
  BY IdleTyped DEF Inv, TypeOK, Restart, creds
<1>2. RowsOK'
  BY DEF Inv, RowsOK, Restart, creds, Has
<1>3. Idle.pc = "idle"
  BY DEF Idle
<1>4. LocalsOK'
  BY <1>3 DEF Restart, LocalsOK, Local, Busy, WithUser, WithAccount, Writing
<1> QED
  BY <1>1, <1>2, <1>4 DEF Inv

LEMMA NextKeeps == Inv /\ [Next]_vars => Inv'
<1> SUFFICES ASSUME Inv, [Next]_vars PROVE Inv'
  OBVIOUS
<1>1. CASE Next
  BY <1>1, StepKeepsInv, ExpiryKeeps, RestartKeeps DEF Next
<1>2. CASE UNCHANGED vars
  BY <1>2 DEF Inv, TypeOK, RowsOK, LocalsOK, Local, Ended, Has, Entitled, vars
<1> QED
  BY <1>1, <1>2

\* The tables and every request's locals agree in every reachable state: a request
\* past its check knows an account that exists, a credential it looked up and a role
\* that user held since the request came.
THEOREM InvHolds == Spec => []Inv
BY InvInit, NextKeeps, PTL DEF Spec

\* Every reachable state is of the shape of the tables and of the code's locals:
\* a request that writes a role or a status has a target with an account and a
\* value to write, whatever other requests did since it was checked.
THEOREM TypeCorrect == Spec => []TypeOK
<1>1. Inv => TypeOK
  BY DEF Inv
<1> QED
  BY <1>1, InvHolds, PTL

\* Whoever acts was active in that role at some time since the request came, and
\* came with a credential that had not ended.
THEOREM AdmissionIsRight == Spec => []AdmittedWasEntitled
<1>1. Inv => AdmittedWasEntitled
  BY DEF Inv, LocalsOK, Local, AdmittedWasEntitled, At
<1> QED
  BY <1>1, InvHolds, PTL

\* Some request that writes an account other than its own user's, where that user
\* was an active administrator while the request was in flight.
ByAnAdmin(s) ==
    \E r \in Requests : /\ reqs[r].pc \in Writing /\ reqs[r].user # s
                        /\ <<reqs[r].user, "admin">> \in held[r]

LEMMA ChangeByAdmin ==
    ASSUME Inv, [Next]_vars, NEW s \in Subjects, Has(users, s), users'[s] # users[s]
    PROVE  ByAnAdmin(s)
<1>1. users' # users
  OBVIOUS
<1>2. Next
  BY <1>1 DEF vars
<1>3. PICK r \in Requests : CreateUser(r) \/ UpdateUserRole(r) \/ UpdateUserStatus(r)
  BY <1>1, <1>2 DEF Next, Step, SignIn, CountAdmins, NewSession, Arrive, ArriveAsVisitor,
     LookUp, DropSession, FindUser, ReadCache, ReadSettings, InstallCache, PatchUser,
     Patching, SetSettings, InvalidateCache, IssueToken, RevokeToken, Logout, Stop,
     ExpireSession, ExpireToken, Restart
<1>4. reqs[r] \in Request /\ Local(reqs[r], held[r])
  BY Before
<1>5. CASE CreateUser(r)
  BY <1>5 DEF CreateUser, Inv, TypeOK
<1>6. CASE UpdateUserRole(r) \/ UpdateUserStatus(r)
  <2>1. reqs[r].pc \in Writing
    BY <1>6 DEF UpdateUserRole, UpdateUserStatus, At, Writing
  <2>2. s = reqs[r].target
    BY <1>6 DEF UpdateUserRole, UpdateUserStatus, Inv, TypeOK
  <2> QED
    BY <1>4, <2>1, <2>2 DEF Local, ByAnAdmin
<1> QED
  BY <1>3, <1>5, <1>6

\* An account that exists changes only at the hand of somebody else's request,
\* whose user was an active administrator while it was in flight.
THEOREM ChangesAreAuthorised == Spec => ChangesAreByAdmins
<1>1. Inv /\ [Next]_vars =>
        [\A s \in Subjects : Has(users, s) /\ users'[s] # users[s] =>
            \E r \in Requests : /\ reqs[r].pc \in {"role", "status"}
                                /\ reqs[r].user # s
                                /\ <<reqs[r].user, "admin">> \in held[r]]_vars
  BY ChangeByAdmin DEF ByAnAdmin, Writing
<1> QED
  BY <1>1, InvHolds, PTL DEF Spec, ChangesAreByAdmins

-----------------------------------------------------------------------------
(* Where requests do not overlap. *)

LEMMA AloneInit == Init => Alone
<1> SUFFICES ASSUME Init PROVE Alone
  OBVIOUS
<1>1. Idle.pc = "idle"
  BY DEF Idle
<1>2. Admins(users) = {} /\ raised = {}
  BY DEF Init, Admins, Has
<1> QED
  BY <1>1, <1>2 DEF Init, Alone, OneRequest, AdminStays, CacheFollows, Undisturbed, Busy, Writing

\* The request that steps was the only one; what holds of it now is enough.
LEMMA OnlyOne ==
    ASSUME Inv, NEW r \in Requests, NEW q \in Request, GoOn(r, q), apart'
    PROVE  /\ apart /\ OneRequest' /\ reqs'[r] = q
           /\ \A x \in Requests \ {r} : ~ Busy(reqs[x]) /\ reqs'[x] = reqs[x]
<1>1. reqs'[r] = q /\ \A x \in Requests \ {r} : reqs'[x] = reqs[x]
  BY GoOnTyped DEF Inv
<1>2. apart /\ \A x \in Requests \ {r} : ~ Busy(reqs[x])
  BY DEF GoOn
<1> QED
  BY <1>1, <1>2 DEF OneRequest

LEMMA AloneStep ==
    ASSUME Inv, NEW r \in Requests, NEW q \in Request, GoOn(r, q), apart',
           AdminStays', Undisturbed(q)', \A s, t \in raised' : s = t,
           cache' \in {NoCache, setting'} \/ q.pc = "invalidate"
    PROVE  Alone'
<1>1. OneRequest' /\ reqs'[r] = q
      /\ \A x \in Requests \ {r} : ~ Busy(reqs[x]) /\ reqs'[x] = reqs[x]
  BY OnlyOne
<1>2. ASSUME NEW x \in Requests PROVE Undisturbed(reqs[x])'
  <2>1. CASE x = r
    BY <1>1, <2>1
  <2>2. CASE x # r
    BY <1>1, <2>2 DEF Undisturbed, Busy, Writing
  <2> QED
    BY <2>1, <2>2
<1>3. CacheFollows'
  BY <1>1 DEF CacheFollows, At
<1> QED
  BY <1>1, <1>2, <1>3 DEF Alone

\* A step that writes nothing that the others watch.
LEMMA AloneQuiet ==
    ASSUME Inv, Alone, NEW r \in Requests, NEW q \in Request, GoOn(r, q), apart',
           UNCHANGED <<users, site, raised>>, ~ At(r, "invalidate"), Undisturbed(q)
    PROVE  Alone'
<1>1. apart /\ \A x \in Requests \ {r} : ~ Busy(reqs[x])
  BY OnlyOne
<1>2. AdminStays /\ CacheFollows /\ \A s, t \in raised : s = t
  BY <1>1 DEF Alone
<1>3. \A x \in Requests : ~ At(x, "invalidate")
  BY <1>1 DEF At, Busy
<1>4. cache' \in {NoCache, setting'}
  BY <1>2, <1>3 DEF CacheFollows, site
<1>5. AdminStays' /\ Undisturbed(q)'
  BY <1>2 DEF AdminStays, ActiveAdmins, Admins, Has, Undisturbed, site
<1> QED
  BY <1>2, <1>4, <1>5, AloneStep

\* Of a request that is done, or only reads what it will not use, nothing is asked.
LEMMA Easy ==
    ASSUME NEW q, q.pc \notin {"count", "create", "admit", "role", "status", "install"}
    PROVE  Undisturbed(q)
BY DEF Undisturbed, Writing

LEMMA IdleAndVisitor == Undisturbed(Idle) /\ Undisturbed(Visitor) /\ Idle.pc = "idle"
<1>1. Idle.pc = "idle"
  BY DEF Idle
<1>2. PICK p : p = Idle
  OBVIOUS
<1>3. PICK v : v = [p EXCEPT !.pc = "read", !.left = 2]
  OBVIOUS
<1>4. v.pc = "read"
  BY <1>2, <1>3, IdleTyped DEF Request
<1>5. Visitor = v
  BY <1>2, <1>3 DEF Visitor
<1> QED
  BY <1>1, <1>4, <1>5, Easy

LEMMA EndAlone ==
    ASSUME Inv, Alone, NEW r \in Requests, GoOn(r, Idle) \/ GoOn(r, Visitor), apart',
           UNCHANGED <<users, site, raised>>, ~ At(r, "invalidate")
    PROVE  Alone'
BY IdleTyped, VisitorTyped, IdleAndVisitor, AloneQuiet

LEMMA SignInAlone ==
    ASSUME Inv, Alone, apart', NEW r \in Requests, NEW s \in Subjects, SignIn(r, s)
    PROVE  Alone'
<1>1. PICK pc \in {"session", "count", "create"} : GoOn(r, [Idle EXCEPT !.pc = pc, !.user = s])
  BY DEF SignIn
<1>2. PICK q : q = [Idle EXCEPT !.pc = pc, !.user = s]
  OBVIOUS
<1>3. q \in Request /\ q.pc = pc /\ q.role = "viewer"
  BY <1>2, IdleTyped DEF Idle, Request
<1>4. Undisturbed(q)
  BY <1>3 DEF Undisturbed, Writing
<1> QED
  BY <1>1, <1>2, <1>3, <1>4, AloneQuiet DEF SignIn, At

LEMMA CountAdminsAlone ==
    ASSUME Inv, Alone, apart', NEW r \in Requests, CountAdmins(r)
    PROVE  Alone'
<1>1. PICK q : q = reqs[r] /\ q \in Request
  BY Before
<1>2. PICK role \in Roles : /\ role = "admin" => Admins(users) = {}
                            /\ GoOn(r, [q EXCEPT !.pc = "create", !.role = role])
  <2>1. CASE Admins(users) = {} /\ GoOn(r, [q EXCEPT !.pc = "create", !.role = "admin"])
    BY <2>1 DEF Roles
  <2>2. CASE GoOn(r, [q EXCEPT !.pc = "create"])
    <3>1. PICK p : p = [q EXCEPT !.pc = "create"]
      OBVIOUS
    <3>2. p \in Request
      BY <1>1, <3>1 DEF Request
    <3>3. apart
      BY <2>2, <3>1, <3>2, OnlyOne
    <3>4. q.role = "viewer"
      BY <1>1, <3>3 DEF Alone, Undisturbed, CountAdmins, At
    <3>5. p = [q EXCEPT !.pc = "create", !.role = "viewer"]
      BY <1>1, <3>1, <3>4 DEF Request
    <3> QED
      BY <2>2, <3>1, <3>5 DEF Roles
  <2> QED
    BY <1>1, <2>1, <2>2 DEF CountAdmins
<1>3. PICK p : p = [q EXCEPT !.pc = "create", !.role = role]
  OBVIOUS
<1>4. p \in Request /\ p.pc = "create" /\ p.role = role
  BY <1>1, <1>3 DEF Request
<1>5. Undisturbed(p)
  BY <1>2, <1>4 DEF Undisturbed, Writing
<1> QED
  BY <1>2, <1>3, <1>4, <1>5, AloneQuiet DEF CountAdmins, At

LEMMA FindUserAlone ==
    ASSUME Inv, Alone, apart', NEW r \in Requests, FindUser(r)
    PROVE  Alone'
<1>1. PICK q : q = reqs[r] /\ q \in Request /\ Local(q, held[r])
  BY Before
<1>2. UNCHANGED <<users, site, raised>> /\ ~ At(r, "invalidate") /\ q.pc = "user"
      /\ q.user \in Subjects /\ Has(users, q.user)
  BY <1>1 DEF FindUser, At, Local, WithUser, WithAccount
<1>3. users[q.user] \in User
  BY <1>2 DEF Inv, TypeOK, Has
<1>4. CASE /\ users[q.user].status = "active"
           /\ GoOn(r, [q EXCEPT !.pc = "admit", !.role = users[q.user].role])
  <2>1. PICK role : role = users[q.user].role
    OBVIOUS
  <2>2. role \in Roles /\ users[q.user] = [role |-> role, status |-> "active"]
    BY <1>3, <1>4, <2>1 DEF User
  <2>3. PICK p : p = [q EXCEPT !.pc = "admit", !.role = role]
    OBVIOUS
  <2>4. p \in Request /\ p.pc = "admit" /\ p.user = q.user /\ p.role = role
    BY <1>1, <2>2, <2>3 DEF Request
  <2>5. Undisturbed(p)
    BY <2>2, <2>4 DEF Undisturbed, Writing
  <2> QED
    BY <1>2, <1>4, <2>1, <2>3, <2>4, <2>5, AloneQuiet
<1>5. CASE GoOn(r, Idle) \/ GoOn(r, Visitor)
  BY <1>2, <1>5, EndAlone
<1> QED
  BY <1>1, <1>4, <1>5 DEF FindUser

LEMMA LookUpAlone ==
    ASSUME Inv, Alone, apart', NEW r \in Requests, LookUp(r)
    PROVE  Alone'
<1>1. PICK q : q = reqs[r] /\ q \in Request /\ Local(q, held[r])
  BY Before
<1>2. UNCHANGED <<users, site, raised>> /\ ~ At(r, "invalidate")
  BY DEF LookUp, At
<1>3. \A c \in sessions \cup tokens : c.user \in Subjects
  BY DEF Inv, TypeOK, Session, Token
<1>4. \/ GoOn(r, Visitor)
      \/ \E pc \in {"drop", "user"}, u \in Subjects : GoOn(r, [q EXCEPT !.pc = pc, !.user = u])
  BY <1>1, <1>3 DEF LookUp
<1>5. ASSUME NEW pc \in {"drop", "user"}, NEW u \in Subjects,
             GoOn(r, [q EXCEPT !.pc = pc, !.user = u])
      PROVE  Alone'
  <2>1. PICK p : p = [q EXCEPT !.pc = pc, !.user = u]
    OBVIOUS
  <2>2. p \in Request /\ p.pc = pc
    BY <1>1, <2>1 DEF Request
  <2> QED
    BY <1>2, <1>5, <2>1, <2>2, Easy, AloneQuiet
<1> QED
  BY <1>2, <1>4, <1>5, EndAlone

LEMMA ArriveAlone ==
    ASSUME Inv, Alone, apart', NEW r \in Requests, NEW n \in 1..issued, Arrive(r, n)
    PROVE  Alone'
<1>1. n \in 0..MaxCreds /\ Ended(n) \in BOOLEAN
  BY CredsAssumption DEF Inv, TypeOK, Ended
<1>2. PICK e \in BOOLEAN : e = Ended(n)
  BY <1>1
<1>3. PICK q : q = [Idle EXCEPT !.pc = "lookup", !.cred = n, !.ended = e]
  OBVIOUS
<1>4. q \in Request /\ q.pc = "lookup"
  BY <1>1, <1>3, IdleTyped DEF Idle, Request
<1> QED
  BY <1>2, <1>3, <1>4, Easy, AloneQuiet DEF Arrive, At

LEMMA PatchUserAlone ==
    ASSUME Inv, Alone, apart', NEW r \in Requests, NEW t \in Subjects, NEW p \in Patches,
           PatchUser(r, t, p)
    PROVE  Alone'
<1>1. PICK q : q = reqs[r] /\ q \in Request
  BY Before
<1>2. q.pc = "admit" /\ q.role = "admin" /\ UNCHANGED <<users, site, raised>>
  BY <1>1 DEF PatchUser, Patching, IsAdmin, At
<1>3. p \in Patch
  BY PatchesAssumption
<1>4. PICK pc \in Writing : pc = IF p.role # Keep THEN "role" ELSE "status"
  BY DEF Writing
<1>5. PICK n : n = [q EXCEPT !.pc = pc, !.target = t, !.patch = p]
  OBVIOUS
<1>6. n \in Request /\ n.pc = pc /\ n.user = q.user
  BY <1>1, <1>3, <1>4, <1>5 DEF Request, Writing
<1>7. GoOn(r, n)
  BY <1>1, <1>4, <1>5 DEF PatchUser, Patching
<1>8. users[q.user] = [role |-> "admin", status |-> "active"]
  BY <1>1, <1>2, <1>6, <1>7, OnlyOne DEF Alone, Undisturbed
<1>9. Undisturbed(n)
  BY <1>4, <1>6, <1>8 DEF Undisturbed, Writing
<1> QED
  BY <1>1, <1>2, <1>6, <1>7, <1>9, AloneQuiet DEF At

LEMMA ReadAlone ==
    ASSUME Inv, Alone, apart', NEW r \in Requests,
           ReadCache(r) \/ ReadSettings(r) \/ InstallCache(r)
    PROVE  Alone'
<1>1. PICK q : q = reqs[r] /\ q \in Request
  BY Before
<1>2. PICK h : h = HasRead(q) /\ h \in Request /\ h.pc \in {"idle", "read"}
  BY <1>1, HasReadTyped
<1>3. CASE ReadCache(r) \/ ReadSettings(r)
  <2>1. UNCHANGED <<users, site, raised>> /\ ~ At(r, "invalidate")
    BY <1>3 DEF ReadCache, ReadSettings, At
  <2>2. CASE GoOn(r, HasRead(q))
    BY <1>2, <2>1, <2>2, Easy, AloneQuiet
  <2>3. CASE GoOn(r, [q EXCEPT !.pc = "fill"])
    <3>1. PICK p : p = [q EXCEPT !.pc = "fill"]
      OBVIOUS
    <3>2. p \in Request /\ p.pc = "fill"
      BY <1>1, <3>1 DEF Request
    <3> QED
      BY <2>1, <2>3, <3>1, <3>2, Easy, AloneQuiet
  <2>4. CASE GoOn(r, [q EXCEPT !.pc = "install", !.snap = setting])
    <3>1. PICK v \in Values : v = setting
      BY DEF Inv, TypeOK
    <3>2. PICK p : p = [q EXCEPT !.pc = "install", !.snap = v]
      OBVIOUS
    <3>3. p \in Request /\ p.pc = "install" /\ p.snap = setting
      BY <1>1, <3>1, <3>2 DEF Request
    <3>4. Undisturbed(p)
      BY <3>3 DEF Undisturbed, Writing
    <3> QED
      BY <2>1, <2>4, <3>1, <3>2, <3>3, <3>4, AloneQuiet
  <2> QED
    BY <1>1, <1>3, <2>2, <2>3, <2>4 DEF ReadCache, ReadSettings
<1>4. CASE InstallCache(r)
  <2>1. GoOn(r, h) /\ cache' = q.snap /\ q.pc = "install" /\ UNCHANGED <<users, setting, raised>>
    BY <1>1, <1>2, <1>4 DEF InstallCache, At
  <2>2. Undisturbed(q) /\ AdminStays /\ \A s, t \in raised : s = t
    BY <1>1, <1>2, <2>1, OnlyOne DEF Alone
  <2>3. cache' = setting'
    BY <2>1, <2>2 DEF Undisturbed
  <2>4. AdminStays' /\ Undisturbed(h)'
    BY <1>2, <2>1, <2>2 DEF AdminStays, ActiveAdmins, Admins, Has, Undisturbed, Writing
  <2> QED
    BY <1>2, <2>1, <2>2, <2>3, <2>4, AloneStep
<1> QED
  BY <1>3, <1>4

LEMMA SettingsAlone ==
    ASSUME Inv, Alone, apart', NEW r \in Requests,
           InvalidateCache(r) \/ \E v \in Values : SetSettings(r, v)
    PROVE  Alone'
<1>1. PICK q : q = reqs[r] /\ q \in Request
  BY Before
<1>2. PICK p \in Request : /\ GoOn(r, p)
                           /\ p.pc \in {"idle", "invalidate"}
                           /\ cache' = NoCache \/ p.pc = "invalidate"
  <2>1. CASE InvalidateCache(r)
    BY <2>1, IdleTyped, IdleAndVisitor DEF InvalidateCache
  <2>2. CASE \E v \in Values : SetSettings(r, v)
    <3>1. PICK n : n = [q EXCEPT !.pc = "invalidate"]
      OBVIOUS
    <3>2. n \in Request /\ n.pc = "invalidate"
      BY <1>1, <3>1 DEF Request
    <3> QED
      BY <1>1, <2>2, <3>1, <3>2 DEF SetSettings
  <2> QED
    BY <2>1, <2>2
<1>3. UNCHANGED <<users, raised>>
  BY DEF InvalidateCache, SetSettings
<1>4. AdminStays /\ \A s, t \in raised : s = t
  BY <1>2, OnlyOne DEF Alone
<1>5. AdminStays' /\ Undisturbed(p)'
  BY <1>2, <1>3, <1>4 DEF AdminStays, ActiveAdmins, Admins, Has, Undisturbed, Writing
<1> QED
  BY <1>2, <1>3, <1>4, <1>5, AloneStep

LEMMA CreateUserAlone ==
    ASSUME Inv, Alone, apart', NEW r \in Requests, CreateUser(r)
    PROVE  Alone'
<1>1. PICK q : q = reqs[r] /\ q \in Request /\ Local(q, held[r])
  BY Before
<1>2. q.pc = "create" /\ q.user \in Subjects /\ ~ At(r, "invalidate") /\ UNCHANGED site
  BY <1>1 DEF CreateUser, At, Local, WithUser
<1>3. CASE Has(users, q.user)
  BY <1>1, <1>2, <1>3, EndAlone DEF CreateUser
<1>4. CASE ~ Has(users, q.user)
  <2>1. /\ users' = [users EXCEPT ![q.user] = [role |-> q.role, status |-> "active"]]
        /\ raised' = (IF q.role = "admin" THEN raised \cup {q.user} ELSE raised)
        /\ GoOn(r, [q EXCEPT !.pc = "session"])
    BY <1>1, <1>4 DEF CreateUser
  <2>2. PICK p : p = [q EXCEPT !.pc = "session"]
    OBVIOUS
  <2>3. p \in Request /\ p.pc = "session"
    BY <1>1, <2>2 DEF Request
  <2>4. apart /\ \A x \in Requests \ {r} : ~ Busy(reqs[x])
    BY <2>1, <2>2, <2>3, OnlyOne
  <2>5. Undisturbed(q) /\ AdminStays /\ CacheFollows /\ \A s, t \in raised : s = t
    BY <1>1, <2>4 DEF Alone
  <2>6. cache' \in {NoCache, setting'}
    <3>1. \A x \in Requests : ~ At(x, "invalidate")
      BY <1>2, <2>4 DEF At, Busy
    <3> QED
      BY <1>2, <2>5, <3>1 DEF CacheFollows, site
  <2>7. \A s \in Subjects \ {q.user} : users'[s] = users[s]
    BY <2>1 DEF Inv, TypeOK
  <2>8. PICK u : u = [role |-> q.role, status |-> "active"]
    OBVIOUS
  <2>9. users'[q.user] = u /\ u.role = q.role /\ u.status = "active" /\ u # NoUser
    BY <1>1, <1>2, <2>1, <2>8 DEF Inv, TypeOK, Request, NoUser
  <2>10. ActiveAdmins \subseteq ActiveAdmins'
    BY <1>4, <2>7 DEF ActiveAdmins, Admins, Has
  <2>11. q.role = "admin" => q.user \in ActiveAdmins'
    BY <1>2, <2>9 DEF ActiveAdmins, Admins, Has
  <2>12. q.role # "admin" => Admins(users') \subseteq Admins(users)
    BY <2>7, <2>9 DEF Admins, Has
  <2>13. AdminStays'
    BY <2>1, <2>5, <2>10, <2>11, <2>12 DEF AdminStays
  <2>14. \A s, t \in raised' : s = t
    <3>1. q.role = "admin" => ActiveAdmins = {}
      BY <1>2, <2>5 DEF Undisturbed, ActiveAdmins
    <3>2. q.role = "admin" => raised = {}
      BY <2>5, <3>1 DEF AdminStays
    <3> QED
      BY <2>1, <2>5, <3>2
  <2>15. Undisturbed(p)'
    BY <2>3 DEF Undisturbed, Writing
  <2> QED
    BY <2>1, <2>2, <2>3, <2>6, <2>13, <2>14, <2>15, AloneStep
<1> QED
  BY <1>3, <1>4

\* The user of the request stays an active administrator: the target is another.
LEMMA UpdateAlone ==
    ASSUME Inv, Alone, apart', NEW r \in Requests, UpdateUserRole(r) \/ UpdateUserStatus(r)
    PROVE  Alone'
<1>1. PICK q : q = reqs[r] /\ q \in Request /\ Local(q, held[r])
  BY Before
<1>2. /\ q.pc \in Writing /\ q.user \in Subjects /\ q.target # q.user
      /\ ~ At(r, "invalidate") /\ UNCHANGED <<site, raised>>
  BY <1>1 DEF UpdateUserRole, UpdateUserStatus, At, Local, WithUser, Writing
<1>3. PICK p \in Request : /\ GoOn(r, p) /\ p.pc \in {"idle", "status"}
                           /\ p.pc = "status" => p.user = q.user
  <2>1. CASE GoOn(r, Idle)
    BY <2>1, IdleTyped, IdleAndVisitor
  <2>2. CASE GoOn(r, [q EXCEPT !.pc = "status"])
    <3>1. PICK n : n = [q EXCEPT !.pc = "status"]
      OBVIOUS
    <3>2. n \in Request /\ n.pc = "status" /\ n.user = q.user
      BY <1>1, <3>1 DEF Request
    <3> QED
      BY <2>2, <3>1, <3>2
  <2> QED
    BY <1>1, <2>1, <2>2 DEF UpdateUserRole, UpdateUserStatus, AfterRole
<1>4. apart /\ \A x \in Requests \ {r} : ~ Busy(reqs[x])
  BY <1>3, OnlyOne
<1>5. Undisturbed(q) /\ CacheFollows /\ \A s, t \in raised : s = t
  BY <1>1, <1>4 DEF Alone
<1>6. cache' \in {NoCache, setting'}
  <2>1. \A x \in Requests : ~ At(x, "invalidate")
    BY <1>2, <1>4 DEF At, Busy
  <2> QED
    BY <1>2, <1>5, <2>1 DEF CacheFollows, site
<1>7. users'[q.user] = [role |-> "admin", status |-> "active"]
  <2>1. users'[q.user] = users[q.user]
    BY <1>1, <1>2 DEF UpdateUserRole, UpdateUserStatus, Inv, TypeOK
  <2> QED
    BY <1>2, <1>5, <2>1 DEF Undisturbed
<1>8. q.user \in ActiveAdmins'
  BY <1>2, <1>7 DEF ActiveAdmins, Admins, Has, NoUser
<1>9. AdminStays' /\ Undisturbed(p)'
  BY <1>3, <1>7, <1>8 DEF AdminStays, Undisturbed, Writing
<1> QED
  BY <1>2, <1>3, <1>5, <1>6, <1>9, AloneStep

LEMMA StepAlone ==
    ASSUME Inv, Alone, apart', NEW r \in Requests, Step(r)
    PROVE  Alone'
<1>1. CASE \E s \in Subjects : SignIn(r, s)
  BY <1>1, SignInAlone
<1>2. CASE \E n \in 1..issued : Arrive(r, n)
  BY <1>2, ArriveAlone
<1>3. CASE ArriveAsVisitor(r) \/ DropSession(r)
  BY <1>3, EndAlone DEF ArriveAsVisitor, DropSession, At
<1>4. CASE \E t \in Subjects, p \in Patches : PatchUser(r, t, p)
  BY <1>4, PatchUserAlone
<1>5. CASE Stop(r) \/ NewSession(r) \/ IssueToken(r) \/ RevokeToken(r) \/ Logout(r)
  BY <1>5, EndAlone DEF Stop, NewSession, IssueToken, RevokeToken, Logout, At
<1>6. CASE InvalidateCache(r) \/ \E v \in Values : SetSettings(r, v)
  BY <1>6, SettingsAlone
<1>7. CASE LookUp(r) \/ FindUser(r) \/ CountAdmins(r) \/ CreateUser(r)
  BY <1>7, LookUpAlone, FindUserAlone, CountAdminsAlone, CreateUserAlone
<1>8. CASE UpdateUserRole(r) \/ UpdateUserStatus(r)
  BY <1>8, UpdateAlone
<1>9. CASE ReadCache(r) \/ ReadSettings(r) \/ InstallCache(r)
  BY <1>9, ReadAlone
<1> QED
  BY <1>1, <1>2, <1>3, <1>4, <1>5, <1>6, <1>7, <1>8, <1>9 DEF Step

LEMMA NextAlone == Inv /\ Alone /\ [Next]_vars => Alone'
<1> SUFFICES ASSUME Inv, Alone, [Next]_vars PROVE Alone'
  OBVIOUS
<1>1. CASE ~ apart'
  BY <1>1 DEF Alone
<1>2. CASE apart' /\ \E r \in Requests : Step(r)
  BY <1>2, StepAlone
<1>3. CASE UNCHANGED <<users, site, reqs, apart, raised>>
  BY <1>3 DEF Alone, OneRequest, AdminStays, CacheFollows, Undisturbed, ActiveAdmins,
     Admins, Has, At, Busy, site
<1>4. CASE Restart
  <2>1. \A r \in Requests : reqs'[r].pc = "idle"
    BY <1>4, IdleAndVisitor DEF Restart
  <2>2. OneRequest' /\ CacheFollows' /\ \A r \in Requests : Undisturbed(reqs[r])'
    BY <1>4, <2>1 DEF Restart, OneRequest, CacheFollows, Undisturbed, Busy, Writing
  <2>3. apart' => AdminStays' /\ \A s, t \in raised' : s = t
    BY <1>4 DEF Restart, Alone, AdminStays, ActiveAdmins, Admins, Has
  <2> QED
    BY <2>2, <2>3 DEF Alone
<1>5. CASE ExpireSession \/ ExpireToken
  BY <1>3, <1>5 DEF ExpireSession, ExpireToken
<1>6. CASE UNCHANGED vars
  BY <1>3, <1>6 DEF vars, site
<1> QED
  BY <1>1, <1>2, <1>4, <1>5, <1>6 DEF Next

\* While no two requests have overlapped, who administers the site, what the
\* cache holds and what a request in flight knows go together.
THEOREM AloneHolds == Spec => []Alone
BY AloneInit, InvHolds, NextAlone, PTL DEF Spec

\* Without overlap, once somebody administers the site somebody always can.
THEOREM AnAdminRemains == Spec => []AdminRemains
<1>1. Alone => AdminRemains
  BY DEF Alone, AdminStays, AdminRemains
<1> QED
  BY <1>1, AloneHolds, PTL

\* Without overlap, one account at most is ever raised by a sign-in.
THEOREM OneIsRaised == Spec => []RaisedOnce
<1>1. Alone => RaisedOnce
  BY DEF Alone, RaisedOnce
<1> QED
  BY <1>1, AloneHolds, PTL

\* Without overlap, a saved setting is what the next request sees.
THEOREM SettingsTakeEffect == Spec => []CacheIsFreshAlone
<1>1. Alone => CacheIsFreshAlone
  BY DEF Alone, CacheFollows, CacheIsFreshAlone, CacheIsFresh, At, Busy
<1> QED
  BY <1>1, AloneHolds, PTL
=============================================================================
