--------------------------- MODULE UserDirectory ---------------------------
(***************************************************************************)
(* The two directories of users and the cache in front of one of them:     *)
(* the accounts of Keycloak (with their sessions), the rows of             *)
(* identity.app_user, and the copies of rows in Redis.  UserService,       *)
(* UserRepository, KeycloakAdminService and AuthService.login keep them    *)
(* in step by calls made one after the other, with no transaction around   *)
(* them, so requests interleave between calls, a call may be refused, its  *)
(* answer may be lost, and the process may stop between two of them.       *)
(*                                                                         *)
(* A request is a record with the step it is at; every action is one call. *)
(* Keycloak, PostgreSQL and Redis execute a call atomically.  A refusal    *)
(* stands for every error that leaves no effect (409, 403, 404, 5xx, a     *)
(* unique violation, an unreachable host), so uniqueness across users      *)
(* needs no model of its own.  Audit records and presence are left out:    *)
(* both writers swallow their errors and nothing here reads them.          *)
(*                                                                         *)
(* doubt[u] is a history variable: the aspects of u that some request left *)
(* without a promise, because it overlapped another request on the same    *)
(* aspect or broke down after it had already changed something.            *)
(***************************************************************************)
EXTENDS Naturals, Sequences

CONSTANTS Users,      \* the persons who register
          Requests,   \* slots for the HTTP requests in flight
          Mails,      \* addresses
          NoMail,     \* the PATCH body without an address
          Phones,     \* whether a body may bring a sensitive field: \subseteq BOOLEAN
          Sessions,   \* identifiers of Keycloak sessions
          MaxRequests \* bound: requests that ever arrive

ASSUME DirectoryAssumption ==
  Users # {} /\ NoMail \notin Mails /\ Phones \subseteq BOOLEAN /\ MaxRequests \in Nat

VARIABLES keycloak,   \* accounts: there, enabled, roles, mail
          sessions,   \* open sessions of each account
          row,        \* rows of app_user: there, active, roles, mail, sensitive
          cache,      \* the copy of the row under user_<id>
          request,    \* the requests in flight
          doubt,      \* history: aspects without a promise
          arrived     \* how many requests have arrived

vars == <<keycloak, sessions, row, cache, request, doubt, arrived>>

AllowedRealmRoles == {"user", "admin"}

Aspects == {"account", "mail", "roles", "active", "cache"}

NoAccount == [there |-> FALSE, enabled |-> FALSE, roles |-> {}, mail |-> NoMail]

NoRow == [there |-> FALSE, active |-> FALSE, roles |-> {}, mail |-> NoMail,
          sensitive |-> "null"]

\* What UserResponseDto exposes of a row, as far as the model tells rows apart.
Copy(a) == [active |-> a.active, roles |-> a.roles, mail |-> a.mail]

NoCopy == Copy(NoRow)

Idle == [op |-> "none", user |-> CHOOSE u \in Users : TRUE, at |-> "idle",
         active |-> FALSE, roles |-> {}, mail |-> NoMail, phone |-> FALSE,
         loaded |-> NoRow, sent |-> FALSE, wrote |-> FALSE, clash |-> {}]

-----------------------------------------------------------------------------
(* What each request works on.  In a PATCH, sent says that the address went *)
(* to Keycloak; in a login, that the token carried the role every account  *)
(* has.                                                                    *)

\* The aspects a request may change.  A PATCH saves every column of the row
\* it loaded, so it writes the roles and the status back as it read them.
Touches(op) ==
  CASE op = "create" -> Aspects
    [] op = "read"   -> {"cache"}
    [] op = "patch"  -> {"mail", "roles", "active", "cache"}
    [] op = "status" -> {"active", "cache"}
    [] op = "roles"  -> {"roles", "cache"}
    [] op = "login"  -> {"roles", "cache"}
    [] OTHER         -> {}

\* The aspects on which two requests of one user interfere.
Common(a, b) == IF a = "read" /\ b = "read" THEN {} ELSE Touches(a) \cap Touches(b)

\* The aspects a request leaves in agreement when it succeeds.
Settles(q) ==
  CASE q.op = "create" -> Aspects
    [] q.op = "read"   -> IF q.wrote THEN {"cache"} ELSE {}
    [] q.op = "patch"  -> {"cache"} \cup (IF q.sent THEN {"mail"} ELSE {})
    [] q.op = "status" -> {"active", "cache"}
    [] q.op = "roles"  -> {"roles", "cache"}
    [] OTHER           -> IF q.sent THEN {"roles"} ELSE {}

Busy(u) == {r \in Requests : request[r].op # "none" /\ request[r].user = u}

-----------------------------------------------------------------------------
(* The life of a request.                                                  *)

\* A request arrives and marks what it shares with those in flight.
Start(r, q) ==
  /\ request[r] = Idle
  /\ arrived < MaxRequests
  /\ arrived' = arrived + 1
  /\ request' = [s \in Requests |->
       IF s = r
       THEN [q EXCEPT !.clash = UNION {Common(q.op, request[o].op) : o \in Busy(q.user)}]
       ELSE IF s \in Busy(q.user)
            THEN [request[s] EXCEPT !.clash = @ \cup Common(q.op, request[s].op)]
            ELSE request[s]]

At(r, op, step) == request[r].op = op /\ request[r].at = step

\* The call answers and the request goes on with q at the given step.
GoOn(r, q, step) ==
  /\ request' = [request EXCEPT ![r] = [q EXCEPT !.at = step]]
  /\ doubt' = doubt

\* The request ends well: q is its record after the last call.  A login does
\* not drop the cached copy, which is stale if it brought the roles up to date.
Succeed(r, q) ==
  /\ request' = [request EXCEPT ![r] = Idle]
  /\ doubt' = [doubt EXCEPT ![q.user] =
       (@ \ Settles(q)) \cup q.clash
         \cup (IF q.op = "login" /\ "roles" \in @ THEN {"cache"} ELSE {})]

\* The request ends with an error: what it may have changed is in doubt,
\* except that the rollback of a failed registration accounts for itself.
Fail(r, q) ==
  /\ request' = [request EXCEPT ![r] = Idle]
  /\ doubt' = [doubt EXCEPT ![q.user] =
       IF q.wrote THEN @ \cup (Touches(q.op) \ {"account"}) ELSE @]

\* A call that took effect: its answer arrives and the request goes on, or it
\* is lost and the caller sees an error.
Effect(r, q, step) == LET w == [q EXCEPT !.wrote = TRUE] IN
  \/ GoOn(r, w, step)
  \/ Fail(r, w)

LastEffect(r, q) == LET w == [q EXCEPT !.wrote = TRUE] IN
  \/ Succeed(r, w)
  \/ Fail(r, w)

-----------------------------------------------------------------------------
(* POST /users: UserService.createUser.                                    *)

BeginCreate(r, u, m, phone) ==
  /\ Start(r, [Idle EXCEPT !.op = "create", !.user = u, !.at = "account",
                           !.mail = m, !.phone = phone])
  /\ UNCHANGED <<keycloak, sessions, row, cache, doubt>>

\* POST /users of Keycloak.  A lost answer ends the request before the try
\* block, with an account nobody knows the identifier of.
CreateAccount(r) == LET q == request[r]  u == q.user IN
  /\ At(r, "create", "account")
  /\ ~keycloak[u].there
  /\ keycloak' = [keycloak EXCEPT ![u] = [there |-> TRUE, enabled |-> TRUE,
                                          roles |-> {}, mail |-> q.mail]]
  /\ \/ GoOn(r, [q EXCEPT !.wrote = TRUE], "grant")
     \/ /\ request' = [request EXCEPT ![r] = Idle]
        /\ doubt' = [doubt EXCEPT ![u] = Aspects]
  /\ UNCHANGED <<sessions, row, cache, arrived>>

\* Mutant: the role is assigned before the try block.
GrantFirstRoleUnguarded(r) == LET q == request[r]  u == q.user IN
  /\ At(r, "create", "grant")
  /\ \/ /\ keycloak[u].there
        /\ keycloak' = [keycloak EXCEPT ![u].roles = @ \cup {"user"}]
        /\ GoOn(r, q, "insert")
     \/ /\ keycloak' = keycloak
        /\ Fail(r, q)
  /\ UNCHANGED <<sessions, row, cache, arrived>>

\* The first role, inside the try block: any error leads to the rollback.
GrantFirstRole(r) == LET q == request[r]  u == q.user IN
  /\ At(r, "create", "grant")
  /\ \/ /\ keycloak[u].there
        /\ keycloak' = [keycloak EXCEPT ![u].roles = @ \cup {"user"}]
        /\ \E step \in {"insert", "rollback"} : GoOn(r, q, step)
     \/ /\ keycloak' = keycloak
        /\ GoOn(r, q, "rollback")
  /\ UNCHANGED <<sessions, row, cache, arrived>>

\* UserRepository.create stores the row with its sensitive fields encrypted.
\* A lost answer rolls back the account of a row that exists.
InsertRow(r) == LET q == request[r]  u == q.user IN
  /\ At(r, "create", "insert")
  /\ \/ /\ ~row[u].there
        /\ row' = [row EXCEPT ![u] =
             [there |-> TRUE, active |-> TRUE, roles |-> {"user"}, mail |-> q.mail,
              sensitive |-> IF q.phone THEN "cipher" ELSE "null"]]
        /\ \/ Succeed(r, q)
           \/ /\ request' = [request EXCEPT ![r].at = "rollback"]
              /\ doubt' = [doubt EXCEPT ![u] = @ \cup {"account"}]
     \/ /\ row' = row
        /\ GoOn(r, q, "rollback")
  /\ UNCHANGED <<keycloak, sessions, cache, arrived>>

\* KeycloakAdminService.deleteUser, which swallows its own errors.
RollbackAccount(r) == LET q == request[r]  u == q.user IN
  /\ At(r, "create", "rollback")
  /\ \/ /\ keycloak' = [keycloak EXCEPT ![u] = NoAccount]
        /\ sessions' = [sessions EXCEPT ![u] = {}]
        /\ Fail(r, q)
     \/ /\ request' = [request EXCEPT ![r] = Idle]
        /\ doubt' = [doubt EXCEPT ![u] = Aspects]
        /\ UNCHANGED <<keycloak, sessions>>
  /\ UNCHANGED <<row, cache, arrived>>

-----------------------------------------------------------------------------
(* GET /users/:id: UserService.findUser, a cache in front of findById.     *)

\* The lookup in Redis; a hit answers at once and nothing changes.
BeginRead(r, u) ==
  /\ cache[u] = NoCopy
  /\ Start(r, [Idle EXCEPT !.op = "read", !.user = u, !.at = "load"])
  /\ UNCHANGED <<keycloak, sessions, row, cache, doubt>>

LoadForCache(r) == LET q == request[r] IN
  /\ At(r, "read", "load")
  /\ row[q.user].there
  /\ GoOn(r, [q EXCEPT !.loaded = row[q.user]], "fill")
  /\ UNCHANGED <<keycloak, sessions, row, cache, arrived>>

FillCache(r) == LET q == request[r] IN
  /\ At(r, "read", "fill")
  /\ cache' = [cache EXCEPT ![q.user] = Copy(q.loaded)]
  /\ LastEffect(r, q)
  /\ UNCHANGED <<keycloak, sessions, row, arrived>>

\* The copy expires after USER_CACHE_TTL_MS.
Expire(u) ==
  /\ cache[u] # NoCopy
  /\ cache' = [cache EXCEPT ![u] = NoCopy]
  /\ doubt' = [doubt EXCEPT ![u] = @ \ {"cache"}]
  /\ UNCHANGED <<keycloak, sessions, row, request, arrived>>

\* The last call of every request that wrote the row: cacheManager.del.
DropCopy(r) == LET q == request[r] IN
  /\ q.op \in {"patch", "status", "roles"} /\ q.at = "forget"
  /\ cache' = [cache EXCEPT ![q.user] = NoCopy]
  /\ LastEffect(r, q)
  /\ UNCHANGED <<keycloak, sessions, row, arrived>>

-----------------------------------------------------------------------------
(* PATCH /users/:id: UserService.updateUser.                               *)

BeginPatch(r, u, m, phone) ==
  /\ Start(r, [Idle EXCEPT !.op = "patch", !.user = u, !.mail = m, !.phone = phone,
                           !.at = IF m = NoMail THEN "load" ELSE "compare"])
  /\ UNCHANGED <<keycloak, sessions, row, cache, doubt>>

\* The new address is compared with the row's, not with Keycloak's.
CompareMail(r) == LET q == request[r] IN
  /\ At(r, "patch", "compare")
  /\ row[q.user].there
  /\ GoOn(r, q, IF row[q.user].mail # q.mail THEN "push" ELSE "load")
  /\ UNCHANGED <<keycloak, sessions, row, cache, arrived>>

PushMail(r) == LET q == request[r]  u == q.user IN
  /\ At(r, "patch", "push")
  /\ keycloak[u].there
  /\ keycloak' = [keycloak EXCEPT ![u].mail = q.mail]
  /\ Effect(r, [q EXCEPT !.sent = TRUE], "load")
  /\ UNCHANGED <<sessions, row, cache, arrived>>

\* UserRepository.update, first half: findById decrypts the sensitive fields.
LoadRow(r) == LET q == request[r] IN
  /\ At(r, "patch", "load")
  /\ row[q.user].there
  /\ GoOn(r, [q EXCEPT !.loaded = row[q.user]], "save")
  /\ UNCHANGED <<keycloak, sessions, row, cache, arrived>>

\* Second half: the encrypted fields of the body are merged into the decrypted
\* row and save writes back every column that differs from the stored one.  A
\* field the body does not bring is stored as findById decrypted it.
SaveRow(r) == LET q == request[r] IN
  /\ At(r, "patch", "save")
  /\ row' = [row EXCEPT ![q.user] =
       [q.loaded EXCEPT
          !.mail = IF q.mail = NoMail THEN @ ELSE q.mail,
          !.sensitive = IF q.phone THEN "cipher" ELSE IF @ = "null" THEN @ ELSE "plain"]]
  /\ Effect(r, q, "forget")
  /\ UNCHANGED <<keycloak, sessions, cache, arrived>>

-----------------------------------------------------------------------------
(* PATCH /admin/users/:id/status: UserService.updateUserStatus.            *)

\* Mutant: the sessions are revoked while the account can still log in.
StatusCallsRevokeFirst(active) ==
  IF active THEN <<"enable", "store", "forget">>
            ELSE <<"revoke", "enable", "store", "forget">>

\* The calls in their order: the account is disabled before its sessions are
\* revoked.
StatusCalls(active) ==
  IF active THEN <<"enable", "store", "forget">>
            ELSE <<"enable", "revoke", "store", "forget">>

NextCall(q) == LET calls == StatusCalls(q.active) IN
  calls[1 + CHOOSE k \in DOMAIN calls : calls[k] = q.at]

BeginStatus(r, u, active) ==
  /\ row[u].there
  /\ Start(r, [Idle EXCEPT !.op = "status", !.user = u, !.active = active,
                           !.at = Head(StatusCalls(active))])
  /\ UNCHANGED <<keycloak, sessions, row, cache, doubt>>

SetEnabled(r) == LET q == request[r]  u == q.user IN
  /\ At(r, "status", "enable")
  /\ keycloak[u].there
  /\ keycloak' = [keycloak EXCEPT ![u].enabled = q.active]
  /\ Effect(r, q, NextCall(q))
  /\ UNCHANGED <<sessions, row, cache, arrived>>

RevokeSessions(r) == LET q == request[r]  u == q.user IN
  /\ At(r, "status", "revoke")
  /\ ~q.active
  /\ keycloak[u].there
  /\ sessions' = [sessions EXCEPT ![u] = {}]
  /\ Effect(r, q, NextCall(q))
  /\ UNCHANGED <<keycloak, row, cache, arrived>>

\* Mutant: the cached copy outlives the change of status.
StoreStatusOnly(r) == LET q == request[r] IN
  /\ At(r, "status", "store")
  /\ row' = [row EXCEPT ![q.user].active = q.active]
  /\ LastEffect(r, q)
  /\ UNCHANGED <<keycloak, sessions, cache, arrived>>

StoreStatus(r) == LET q == request[r] IN
  /\ At(r, "status", "store")
  /\ row' = [row EXCEPT ![q.user].active = q.active]
  /\ Effect(r, q, NextCall(q))
  /\ UNCHANGED <<keycloak, sessions, cache, arrived>>

-----------------------------------------------------------------------------
(* PATCH /admin/users/:id/roles: UserService.updateUserRoles.              *)

\* The set asked for, with 'user' pushed when it is missing.
BeginRoles(r, u, roles) ==
  /\ row[u].there
  /\ Start(r, [Idle EXCEPT !.op = "roles", !.user = u, !.roles = roles \cup {"user"},
                           !.at = "list"])
  /\ UNCHANGED <<keycloak, sessions, row, cache, doubt>>

\* Mutant: the snapshot of the row is taken for the roles of the account.
ListRolesOfRow(r) == LET q == request[r] IN
  /\ At(r, "roles", "list")
  /\ keycloak[q.user].there
  /\ GoOn(r, [q EXCEPT !.loaded.roles = row[q.user].roles], "remove")
  /\ UNCHANGED <<keycloak, sessions, row, cache, arrived>>

\* getUserRealmRoles: the managed roles the account has now.
ListRoles(r) == LET q == request[r] IN
  /\ At(r, "roles", "list")
  /\ keycloak[q.user].there
  /\ GoOn(r, [q EXCEPT !.loaded.roles = keycloak[q.user].roles \cap AllowedRealmRoles],
          "remove")
  /\ UNCHANGED <<keycloak, sessions, row, cache, arrived>>

RemoveRoles(r) == LET q == request[r]  u == q.user  old == q.loaded.roles \ q.roles IN
  /\ At(r, "roles", "remove")
  /\ \/ /\ old = {}
        /\ keycloak' = keycloak
        /\ GoOn(r, q, "assign")
     \/ /\ old # {} /\ keycloak[u].there
        /\ keycloak' = [keycloak EXCEPT ![u].roles = @ \ old]
        /\ Effect(r, q, "assign")
  /\ UNCHANGED <<sessions, row, cache, arrived>>

AssignRoles(r) == LET q == request[r]  u == q.user  new == q.roles \ q.loaded.roles IN
  /\ At(r, "roles", "assign")
  /\ \/ /\ new = {}
        /\ keycloak' = keycloak
        /\ GoOn(r, q, "store")
     \/ /\ new # {} /\ keycloak[u].there
        /\ keycloak' = [keycloak EXCEPT ![u].roles = @ \cup new]
        /\ Effect(r, q, "store")
  /\ UNCHANGED <<sessions, row, cache, arrived>>

StoreRoles(r) == LET q == request[r] IN
  /\ At(r, "roles", "store")
  /\ row' = [row EXCEPT ![q.user].roles = q.roles]
  /\ Effect(r, q, "forget")
  /\ UNCHANGED <<keycloak, sessions, cache, arrived>>

-----------------------------------------------------------------------------
(* POST /auth/login and the ends of sessions.                              *)

BeginLogin(r, u) ==
  /\ Start(r, [Idle EXCEPT !.op = "login", !.user = u, !.at = "token"])
  /\ UNCHANGED <<keycloak, sessions, row, cache, doubt>>

\* Keycloak opens a session for an enabled account and signs its roles into
\* the token.  The session stays if the login fails further on.
IssueToken(r, s) == LET q == request[r]  u == q.user IN
  /\ At(r, "login", "token")
  /\ keycloak[u].there /\ keycloak[u].enabled
  /\ s \notin sessions[u]
  /\ sessions' = [sessions EXCEPT ![u] = @ \cup {s}]
  /\ \/ GoOn(r, [q EXCEPT !.roles = keycloak[u].roles,
                          !.sent = "user" \in keycloak[u].roles], "find")
     \/ Fail(r, q)
  /\ UNCHANGED <<keycloak, row, cache, arrived>>

\* findByUsername; the row's own roles are kept when the token has none.
FindByUsername(r) == LET q == request[r] IN
  /\ At(r, "login", "find")
  /\ row[q.user].there
  /\ GoOn(r, [q EXCEPT !.roles = IF @ = {} THEN row[q.user].roles ELSE @ \cup {"user"}],
          "record")
  /\ UNCHANGED <<keycloak, sessions, row, cache, arrived>>

\* recordLogin stores the snapshot of the roles; the cache is not told.
RecordLogin(r) == LET q == request[r] IN
  /\ At(r, "login", "record")
  /\ row' = [row EXCEPT ![q.user].roles = q.roles]
  /\ LastEffect(r, q)
  /\ UNCHANGED <<keycloak, sessions, cache, arrived>>

\* POST /auth/logout, or one session revoked by its owner or an administrator.
EndSession(u, s) ==
  /\ s \in sessions[u]
  /\ sessions' = [sessions EXCEPT ![u] = @ \ {s}]
  /\ UNCHANGED <<keycloak, row, cache, request, doubt, arrived>>

\* adminRevokeAllSessions.
EndAllSessions(u) ==
  /\ row[u].there /\ sessions[u] # {}
  /\ sessions' = [sessions EXCEPT ![u] = {}]
  /\ UNCHANGED <<keycloak, row, cache, request, doubt, arrived>>

-----------------------------------------------------------------------------
(* Breakdowns.                                                             *)

\* A call of any request is refused, or the row it looks for is not there,
\* and the request answers with an error.  The steps of a registration after
\* its account exists have their own error path.
Refused(r) ==
  /\ request[r].op # "none"
  /\ request[r].at \notin {"grant", "insert", "rollback"}
  /\ Fail(r, request[r])
  /\ UNCHANGED <<keycloak, sessions, row, cache, arrived>>

\* The process stops: every request in flight is gone.
Crash ==
  /\ \E r \in Requests : request[r].op # "none"
  /\ request' = [r \in Requests |-> Idle]
  /\ doubt' = [u \in Users |-> doubt[u] \cup
       UNION {Touches(request[r].op) : r \in {o \in Busy(u) : request[o].wrote}}]
  /\ UNCHANGED <<keycloak, sessions, row, cache, arrived>>

-----------------------------------------------------------------------------
Init ==
  /\ keycloak = [u \in Users |-> NoAccount]
  /\ sessions = [u \in Users |-> {}]
  /\ row = [u \in Users |-> NoRow]
  /\ cache = [u \in Users |-> NoCopy]
  /\ request = [r \in Requests |-> Idle]
  /\ doubt = [u \in Users |-> {}]
  /\ arrived = 0

Begin(r, u) ==
  \/ \E m \in Mails, phone \in Phones : BeginCreate(r, u, m, phone)
  \/ BeginRead(r, u)
  \/ \E m \in Mails \cup {NoMail}, phone \in Phones : BeginPatch(r, u, m, phone)
  \/ \E active \in BOOLEAN : BeginStatus(r, u, active)
  \/ \E roles \in (SUBSET AllowedRealmRoles) \ {{}} : BeginRoles(r, u, roles)
  \/ BeginLogin(r, u)

Step(r) ==
  \/ CreateAccount(r) \/ GrantFirstRole(r) \/ InsertRow(r) \/ RollbackAccount(r)
  \/ LoadForCache(r) \/ FillCache(r) \/ DropCopy(r)
  \/ CompareMail(r) \/ PushMail(r) \/ LoadRow(r) \/ SaveRow(r)
  \/ SetEnabled(r) \/ RevokeSessions(r) \/ StoreStatus(r)
  \/ ListRoles(r) \/ RemoveRoles(r) \/ AssignRoles(r) \/ StoreRoles(r)
  \/ \E s \in Sessions : IssueToken(r, s)
  \/ FindByUsername(r) \/ RecordLogin(r)
  \/ Refused(r)

Next ==
  \/ \E r \in Requests, u \in Users : Begin(r, u)
  \/ \E r \in Requests : Step(r)
  \/ \E u \in Users : Expire(u) \/ EndAllSessions(u)
  \/ \E u \in Users, s \in Sessions : EndSession(u, s)
  \/ Crash

Spec == Init /\ [][Next]_vars

-----------------------------------------------------------------------------
(* Properties.                                                             *)

RowType == [there: BOOLEAN, active: BOOLEAN, roles: SUBSET AllowedRealmRoles,
            mail: Mails \cup {NoMail}, sensitive: {"null", "cipher", "plain"}]

RequestType ==
  [op: {"none", "create", "read", "patch", "status", "roles", "login"}, user: Users,
   at: {"idle", "account", "grant", "insert", "rollback", "load", "fill", "forget",
        "compare", "push", "save", "enable", "revoke", "store", "list", "remove",
        "assign", "token", "find", "record"},
   active: BOOLEAN, roles: SUBSET AllowedRealmRoles, mail: Mails \cup {NoMail},
   phone: BOOLEAN, loaded: RowType, sent: BOOLEAN, wrote: BOOLEAN, clash: SUBSET Aspects]

\* Every variable has its type.
TypeOK ==
  /\ keycloak \in [Users -> [there: BOOLEAN, enabled: BOOLEAN,
                             roles: SUBSET AllowedRealmRoles, mail: Mails \cup {NoMail}]]
  /\ sessions \in [Users -> SUBSET Sessions]
  /\ row \in [Users -> RowType]
  /\ cache \in [Users -> [active: BOOLEAN, roles: SUBSET AllowedRealmRoles,
                          mail: Mails \cup {NoMail}]]
  /\ request \in [Requests -> RequestType]
  /\ doubt \in [Users -> SUBSET Aspects]
  /\ arrived \in 0..MaxRequests

\* No request works on aspect a of u and none left it in doubt.
Settled(u, a) ==
  /\ a \notin doubt[u]
  /\ \A r \in Busy(u) : a \notin Touches(request[r].op)

\* A registration leaves an account and a row, or neither, through any single
\* refused call after the account was made: the rollback of createUser.
AccountsPaired ==
  \A u \in Users : Settled(u, "account") => (keycloak[u].there <=> row[u].there)

\* A user whose deactivation went through is out: Keycloak refuses new logins
\* and no session is open, whatever logins were in flight meanwhile.  This is
\* why updateUserStatus disables the account before it revokes the sessions.
InactiveIsOut ==
  \A u \in Users :
    Settled(u, "active") /\ row[u].there /\ keycloak[u].there =>
      /\ keycloak[u].enabled = row[u].active
      /\ ~row[u].active => sessions[u] = {}

\* Requests that ran to their end without interfering leave the same address
\* and the same managed roles in Keycloak and in the row, however many of them
\* went before and whichever of the others failed before changing anything.
DirectoriesAgree ==
  \A u \in Users : row[u].there /\ keycloak[u].there =>
    /\ Settled(u, "mail") => keycloak[u].mail = row[u].mail
    /\ Settled(u, "roles") => keycloak[u].roles = row[u].roles

\* The copy GET /users/:id answers with is the row, unless a read overlapped a
\* write or a write broke down before it dropped the copy.
CacheAgrees ==
  \A u \in Users : Settled(u, "cache") => cache[u] \in {NoCopy, Copy(row[u])}

\* The entity and the DTOs say that phone, address, name and document are
\* stored encrypted: no column at rest holds them as the user typed them.
SensitiveStoredEncrypted == \A u \in Users : row[u].sensitive # "plain"
=============================================================================
