------------------------ MODULE UserDirectoryProofs ------------------------
(***************************************************************************)
(* For any number of users and requests: every variable of UserDirectory   *)
(* keeps its type; a user whose deactivation went through is out; a row    *)
(* and an account of Keycloak come and go together; and, unless somebody   *)
(* was left in doubt, the two directories say the same of a user and the   *)
(* cached copy says what the row says.                                     *)
(***************************************************************************)
EXTENDS UserDirectory, TLAPS

Ops == {"none", "create", "read", "patch", "status", "roles", "login"}

Steps == {"idle", "account", "grant", "insert", "rollback", "load", "fill", "forget",
          "compare", "push", "save", "enable", "revoke", "store", "list", "remove",
          "assign", "token", "find", "record"}

-----------------------------------------------------------------------------
(***************************************************************************)
(* Types.                                                                  *)
(***************************************************************************)
LEMMA NoRowType == NoRow \in RowType
  BY DEF NoRow, RowType

LEMMA IdleType == Idle \in RequestType
  <1>1. Idle.user \in Users
    BY DirectoryAssumption DEF Idle
  <1> QED
    BY <1>1, NoRowType DEF Idle, RequestType

LEMMA TouchesType ==
  ASSUME NEW op \in Ops
  PROVE  Touches(op) \subseteq Aspects
  BY DEF Touches, Aspects, Ops

LEMMA SettlesType ==
  ASSUME NEW q
  PROVE  Settles(q) \subseteq Aspects
  BY DEF Settles, Aspects

\* How a request goes on keeps the types of requests and doubts.
LEMMA GoOnType ==
  ASSUME TypeOK, NEW r \in Requests, NEW q \in RequestType, NEW step \in Steps,
         GoOn(r, q, step)
  PROVE  request' \in [Requests -> RequestType] /\ doubt' \in [Users -> SUBSET Aspects]
  <1>1. [q EXCEPT !.at = step] \in RequestType
    BY DEF RequestType, Steps
  <1> QED
    BY <1>1 DEF TypeOK, GoOn

LEMMA SucceedType ==
  ASSUME TypeOK, NEW r \in Requests, NEW q \in RequestType, Succeed(r, q)
  PROVE  request' \in [Requests -> RequestType] /\ doubt' \in [Users -> SUBSET Aspects]
  <1>1. request' \in [Requests -> RequestType]
    BY IdleType DEF TypeOK, Succeed
  <1>2. q.user \in Users /\ q.clash \in SUBSET Aspects
    BY DEF RequestType
  <1>3. doubt' \in [Users -> SUBSET Aspects]
    BY <1>2 DEF TypeOK, Succeed, Aspects
  <1> QED
    BY <1>1, <1>3

LEMMA FailType ==
  ASSUME TypeOK, NEW r \in Requests, NEW q \in RequestType, Fail(r, q)
  PROVE  request' \in [Requests -> RequestType] /\ doubt' \in [Users -> SUBSET Aspects]
  <1>1. request' \in [Requests -> RequestType]
    BY IdleType DEF TypeOK, Fail
  <1>2. q.user \in Users /\ q.op \in Ops
    BY DEF RequestType, Ops
  <1>3. Touches(q.op) \subseteq Aspects
    BY <1>2, TouchesType
  <1>4. doubt' \in [Users -> SUBSET Aspects]
    BY <1>2, <1>3 DEF TypeOK, Fail
  <1> QED
    BY <1>1, <1>4

LEMMA EffectType ==
  ASSUME TypeOK, NEW r \in Requests, NEW q \in RequestType, NEW step \in Steps,
         Effect(r, q, step)
  PROVE  request' \in [Requests -> RequestType] /\ doubt' \in [Users -> SUBSET Aspects]
  <1> DEFINE w == [q EXCEPT !.wrote = TRUE]
  <1>1. w \in RequestType
    BY DEF RequestType
  <1>2. GoOn(r, w, step) \/ Fail(r, w)
    BY DEF Effect
  <1> HIDE DEF w
  <1> QED
    BY <1>1, <1>2, GoOnType, FailType

LEMMA LastEffectType ==
  ASSUME TypeOK, NEW r \in Requests, NEW q \in RequestType, LastEffect(r, q)
  PROVE  request' \in [Requests -> RequestType] /\ doubt' \in [Users -> SUBSET Aspects]
  <1> DEFINE w == [q EXCEPT !.wrote = TRUE]
  <1>1. w \in RequestType
    BY DEF RequestType
  <1>2. Succeed(r, w) \/ Fail(r, w)
    BY DEF LastEffect
  <1> HIDE DEF w
  <1> QED
    BY <1>1, <1>2, SucceedType, FailType

LEMMA StartType ==
  ASSUME TypeOK, NEW r \in Requests, NEW q \in RequestType, Start(r, q)
  PROVE  request' \in [Requests -> RequestType] /\ arrived' \in 0..MaxRequests
  <1>1. \A a, b \in Ops : Common(a, b) \subseteq Aspects
    BY TouchesType DEF Common
  <1>2. \A s \in Requests : request[s] \in RequestType /\ request[s].op \in Ops
    BY DEF TypeOK, RequestType, Ops
  <1>3. q.op \in Ops
    BY DEF RequestType, Ops
  <1> DEFINE shared == UNION {Common(q.op, request[o].op) : o \in Busy(q.user)}
  <1>4. shared \subseteq Aspects
    BY <1>1, <1>2, <1>3 DEF Busy
  <1> HIDE DEF shared
  <1>5. [q EXCEPT !.clash = shared] \in RequestType
    BY <1>4 DEF RequestType
  <1>6. ASSUME NEW s \in Requests
        PROVE  [request[s] EXCEPT !.clash = @ \cup Common(q.op, request[s].op)] \in RequestType
    <2>1. Common(q.op, request[s].op) \subseteq Aspects
      BY <1>1, <1>2, <1>3
    <2> QED
      BY <2>1, <1>2 DEF RequestType
  <1>7. request' \in [Requests -> RequestType]
    BY <1>2, <1>5, <1>6 DEF Start, shared
  <1>8. arrived' \in 0..MaxRequests
    BY DirectoryAssumption DEF Start, TypeOK
  <1> QED
    BY <1>7, <1>8

-----------------------------------------------------------------------------
AccountType == [there: BOOLEAN, enabled: BOOLEAN, roles: SUBSET AllowedRealmRoles,
                mail: Mails \cup {NoMail}]

CopyType == [active: BOOLEAN, roles: SUBSET AllowedRealmRoles, mail: Mails \cup {NoMail}]

\* The directories and the cache have their types and the other two follow
\* from how the request went on.
LEMMA StoresType ==
  ASSUME TypeOK, arrived' \in 0..MaxRequests,
         request' \in [Requests -> RequestType], doubt' \in [Users -> SUBSET Aspects],
         keycloak' \in [Users -> AccountType], sessions' \in [Users -> SUBSET Sessions],
         row' \in [Users -> RowType], cache' \in [Users -> CopyType]
  PROVE  TypeOK'
  BY DEF TypeOK, AccountType, CopyType

LEMMA StoresTyped ==
  ASSUME TypeOK
  PROVE  /\ keycloak \in [Users -> AccountType] /\ row \in [Users -> RowType]
         /\ cache \in [Users -> CopyType] /\ sessions \in [Users -> SUBSET Sessions]
         /\ request \in [Requests -> RequestType] /\ doubt \in [Users -> SUBSET Aspects]
         /\ arrived \in 0..MaxRequests
  BY DEF TypeOK, AccountType, CopyType

\* A request at a step belongs to a user.
LEMMA RequestTyped ==
  ASSUME TypeOK, NEW r \in Requests
  PROVE  /\ request[r] \in RequestType /\ request[r].user \in Users
         /\ request[r].loaded \in RowType /\ request[r].roles \subseteq AllowedRealmRoles
         /\ request[r].mail \in Mails \cup {NoMail} /\ request[r].active \in BOOLEAN
         /\ request[r].phone \in BOOLEAN /\ request[r].clash \subseteq Aspects
         /\ request[r].op \in Ops
  <1>1. request[r] \in RequestType
    BY DEF TypeOK
  <1> QED
    BY <1>1 DEF RequestType, Ops

\* Arrivals.
LEMMA BeginType ==
  ASSUME TypeOK, NEW r \in Requests, NEW u \in Users, Begin(r, u)
  PROVE  TypeOK'
  <1>1. PICK q \in RequestType : Start(r, q)
    <2>1. ASSUME NEW m \in Mails, NEW phone \in Phones, BeginCreate(r, u, m, phone)
          PROVE  \E q \in RequestType : Start(r, q)
      <3> DEFINE q == [Idle EXCEPT !.op = "create", !.user = u, !.at = "account",
                                   !.mail = m, !.phone = phone]
      <3>1. q \in RequestType
        BY IdleType, DirectoryAssumption DEF RequestType
      <3> QED
        BY <2>1, <3>1 DEF BeginCreate
    <2>2. ASSUME BeginRead(r, u)
          PROVE  \E q \in RequestType : Start(r, q)
      <3> DEFINE q == [Idle EXCEPT !.op = "read", !.user = u, !.at = "load"]
      <3>1. q \in RequestType
        BY IdleType DEF RequestType
      <3> QED
        BY <2>2, <3>1 DEF BeginRead
    <2>3. ASSUME NEW m \in Mails \cup {NoMail}, NEW phone \in Phones,
                 BeginPatch(r, u, m, phone)
          PROVE  \E q \in RequestType : Start(r, q)
      <3> DEFINE q == [Idle EXCEPT !.op = "patch", !.user = u, !.mail = m, !.phone = phone,
                                   !.at = IF m = NoMail THEN "load" ELSE "compare"]
      <3>1. q \in RequestType
        BY ZenonT(60), IdleType, DirectoryAssumption DEF RequestType
      <3> QED
        BY <2>3, <3>1 DEF BeginPatch
    <2>4. ASSUME NEW active \in BOOLEAN, BeginStatus(r, u, active)
          PROVE  \E q \in RequestType : Start(r, q)
      <3> DEFINE q == [Idle EXCEPT !.op = "status", !.user = u, !.active = active,
                                   !.at = Head(StatusCalls(active))]
      <3>1. Head(StatusCalls(active)) = "enable"
        BY DEF StatusCalls
      <3>2. q \in RequestType
        BY <3>1, IdleType DEF RequestType
      <3> QED
        BY <2>4, <3>2 DEF BeginStatus
    <2>5. ASSUME NEW roles \in (SUBSET AllowedRealmRoles) \ {{}}, BeginRoles(r, u, roles)
          PROVE  \E q \in RequestType : Start(r, q)
      <3> DEFINE q == [Idle EXCEPT !.op = "roles", !.user = u, !.roles = roles \cup {"user"},
                                   !.at = "list"]
      <3>1. roles \cup {"user"} \subseteq AllowedRealmRoles
        BY DEF AllowedRealmRoles
      <3>2. q \in RequestType
        BY <3>1, IdleType DEF RequestType
      <3> QED
        BY <2>5, <3>2 DEF BeginRoles
    <2>6. ASSUME BeginLogin(r, u)
          PROVE  \E q \in RequestType : Start(r, q)
      <3> DEFINE q == [Idle EXCEPT !.op = "login", !.user = u, !.at = "token"]
      <3>1. q \in RequestType
        BY IdleType DEF RequestType
      <3> QED
        BY <2>6, <3>1 DEF BeginLogin
    <2> QED
      BY <2>1, <2>2, <2>3, <2>4, <2>5, <2>6 DEF Begin
  <1>2. request' \in [Requests -> RequestType] /\ arrived' \in 0..MaxRequests
    BY <1>1, StartType
  <1>3. UNCHANGED <<keycloak, sessions, row, cache, doubt>>
    BY DEF Begin, BeginCreate, BeginRead, BeginPatch, BeginStatus, BeginRoles, BeginLogin
  <1> QED
    BY <1>2, <1>3, StoresTyped, StoresType
\* What the calls write into the stores.
LEMMA AccountChange ==
  ASSUME NEW a \in AccountType, NEW roles \in SUBSET AllowedRealmRoles,
         NEW m \in Mails \cup {NoMail}, NEW b \in BOOLEAN
  PROVE  /\ [a EXCEPT !.roles = roles] \in AccountType
         /\ [a EXCEPT !.mail = m] \in AccountType
         /\ [a EXCEPT !.enabled = b] \in AccountType
         /\ NoAccount \in AccountType
         /\ [there |-> TRUE, enabled |-> TRUE, roles |-> {}, mail |-> m] \in AccountType
  BY DEF AccountType, NoAccount

LEMMA RowChange ==
  ASSUME NEW a \in RowType, NEW roles \in SUBSET AllowedRealmRoles,
         NEW m \in Mails \cup {NoMail}, NEW b \in BOOLEAN,
         NEW s \in {"null", "cipher", "plain"}
  PROVE  /\ [a EXCEPT !.roles = roles] \in RowType
         /\ [a EXCEPT !.active = b] \in RowType
         /\ [a EXCEPT !.mail = m, !.sensitive = s] \in RowType
         /\ [there |-> TRUE, active |-> TRUE, roles |-> {"user"}, mail |-> m,
             sensitive |-> s] \in RowType
         /\ Copy(a) \in CopyType
  BY DEF RowType, CopyType, Copy, AllowedRealmRoles

\* Calls of a registration.
LEMMA CreateStepType ==
  ASSUME TypeOK, NEW r \in Requests,
         CreateAccount(r) \/ GrantFirstRole(r) \/ InsertRow(r) \/ RollbackAccount(r)
  PROVE  TypeOK'
  <1> DEFINE q == request[r]  u == request[r].user
  <1>0. q \in RequestType /\ u \in Users /\ q.mail \in Mails \cup {NoMail}
    BY RequestTyped
  <1>t. /\ keycloak \in [Users -> AccountType] /\ row \in [Users -> RowType]
        /\ cache \in [Users -> CopyType] /\ sessions \in [Users -> SUBSET Sessions]
        /\ request \in [Requests -> RequestType] /\ doubt \in [Users -> SUBSET Aspects]
        /\ arrived \in 0..MaxRequests
    BY StoresTyped
  <1>i. [request EXCEPT ![r] = Idle] \in [Requests -> RequestType]
    BY <1>t, IdleType
  <1>d. \A D \in SUBSET Aspects : [doubt EXCEPT ![u] = D] \in [Users -> SUBSET Aspects]
    BY <1>t
  <1>w. [q EXCEPT !.wrote = TRUE] \in RequestType
    BY <1>0 DEF RequestType
  <1>1. CASE CreateAccount(r)
    <2>1. request' \in [Requests -> RequestType] /\ doubt' \in [Users -> SUBSET Aspects]
      <3>1. CASE GoOn(r, [q EXCEPT !.wrote = TRUE], "grant")
        BY <3>1, <1>w, GoOnType DEF Steps
      <3>2. CASE request' = [request EXCEPT ![r] = Idle] /\ doubt' = [doubt EXCEPT ![u] = Aspects]
        BY <3>2, <1>i, <1>d
      <3> QED
        BY <1>1, <3>1, <3>2 DEF CreateAccount
    <2>2. keycloak' \in [Users -> AccountType]
      <3>1. keycloak' = [keycloak EXCEPT ![u] = [there |-> TRUE, enabled |-> TRUE,
                                                 roles |-> {}, mail |-> q.mail]]
        BY <1>1 DEF CreateAccount
      <3>2. [there |-> TRUE, enabled |-> TRUE, roles |-> {}, mail |-> q.mail] \in AccountType
        BY <1>0 DEF AccountType
      <3> QED
        BY <3>1, <3>2, <1>t
    <2>3. UNCHANGED <<sessions, row, cache, arrived>>
      BY <1>1 DEF CreateAccount
    <2> QED
      BY <2>1, <2>2, <2>3, <1>t, StoresType
  <1>2. CASE GrantFirstRole(r)
    <2>1. \E step \in Steps : GoOn(r, q, step)
      BY <1>2 DEF GrantFirstRole, Steps
    <2>2. request' \in [Requests -> RequestType] /\ doubt' \in [Users -> SUBSET Aspects]
      BY <2>1, <1>0, GoOnType
    <2>3. keycloak' \in [Users -> AccountType]
      <3>1. CASE keycloak' = [keycloak EXCEPT ![u].roles = @ \cup {"user"}]
        <4>1. keycloak[u] \in AccountType
          BY <1>0, <1>t
        <4>2. keycloak[u].roles \cup {"user"} \in SUBSET AllowedRealmRoles
          BY <4>1 DEF AccountType, AllowedRealmRoles
        <4>3. [keycloak[u] EXCEPT !.roles = keycloak[u].roles \cup {"user"}] \in AccountType
          BY <4>1, <4>2 DEF AccountType
        <4> QED
          BY <3>1, <4>3, <1>t
      <3>2. CASE keycloak' = keycloak
        BY <3>2, <1>t
      <3> QED
        BY <1>2, <3>1, <3>2 DEF GrantFirstRole
    <2>4. UNCHANGED <<sessions, row, cache, arrived>>
      BY <1>2 DEF GrantFirstRole
    <2> QED
      BY <2>2, <2>3, <2>4, <1>t, StoresType
  <1>3. CASE InsertRow(r)
    <2>1. request' \in [Requests -> RequestType] /\ doubt' \in [Users -> SUBSET Aspects]
      <3>1. CASE Succeed(r, q)
        BY <3>1, <1>0, SucceedType
      <3>2. CASE request' = [request EXCEPT ![r].at = "rollback"]
                 /\ doubt' = [doubt EXCEPT ![u] = @ \cup {"account"}]
        <4>1. [request[r] EXCEPT !.at = "rollback"] \in RequestType
          BY <1>0 DEF RequestType
        <4>2. request' \in [Requests -> RequestType]
          BY <3>2, <4>1, <1>t
        <4>3. doubt[u] \cup {"account"} \in SUBSET Aspects
          BY <1>0, <1>t DEF Aspects
        <4> QED
          BY <3>2, <4>2, <4>3, <1>d
      <3>3. CASE GoOn(r, q, "rollback")
        BY <3>3, <1>0, GoOnType DEF Steps
      <3> QED
        BY <1>3, <3>1, <3>2, <3>3 DEF InsertRow
    <2>2. row' \in [Users -> RowType]
      <3> DEFINE s == IF q.phone THEN "cipher" ELSE "null"
                 new == [there |-> TRUE, active |-> TRUE, roles |-> {"user"}, mail |-> q.mail,
                         sensitive |-> s]
      <3>1. new \in RowType
        BY <1>0 DEF RowType, AllowedRealmRoles
      <3>2. row' = [row EXCEPT ![u] = new] \/ row' = row
        BY <1>3 DEF InsertRow
      <3> HIDE DEF new
      <3> QED
        BY <3>1, <3>2, <1>t
    <2>3. UNCHANGED <<keycloak, sessions, cache, arrived>>
      BY <1>3 DEF InsertRow
    <2> QED
      BY <2>1, <2>2, <2>3, <1>t, StoresType
  <1>4. CASE RollbackAccount(r)
    <2>1. request' \in [Requests -> RequestType] /\ doubt' \in [Users -> SUBSET Aspects]
      <3>1. CASE Fail(r, q)
        BY <3>1, <1>0, FailType
      <3>2. CASE request' = [request EXCEPT ![r] = Idle] /\ doubt' = [doubt EXCEPT ![u] = Aspects]
        BY <3>2, <1>i, <1>d
      <3> QED
        BY <1>4, <3>1, <3>2 DEF RollbackAccount
    <2>2. keycloak' \in [Users -> AccountType] /\ sessions' \in [Users -> SUBSET Sessions]
      <3>1. NoAccount \in AccountType
        BY DEF NoAccount, AccountType
      <3>2. \/ keycloak' = [keycloak EXCEPT ![u] = NoAccount]
               /\ sessions' = [sessions EXCEPT ![u] = {}]
            \/ UNCHANGED <<keycloak, sessions>>
        BY <1>4 DEF RollbackAccount
      <3> QED
        BY <3>1, <3>2, <1>t
    <2>3. UNCHANGED <<row, cache, arrived>>
      BY <1>4 DEF RollbackAccount
    <2> QED
      BY <2>1, <2>2, <2>3, <1>t, StoresType
  <1> QED
    BY <1>1, <1>2, <1>3, <1>4

\* Calls that load or compare and change no store.
LEMMA LoadStepType ==
  ASSUME TypeOK, NEW r \in Requests,
         \/ LoadForCache(r) \/ CompareMail(r) \/ LoadRow(r) \/ ListRoles(r)
         \/ FindByUsername(r) \/ Refused(r)
  PROVE  TypeOK'
  <1> DEFINE q == request[r]  u == request[r].user
  <1>0. q \in RequestType /\ u \in Users
    BY RequestTyped
  <1>t. /\ keycloak \in [Users -> AccountType] /\ row \in [Users -> RowType]
        /\ cache \in [Users -> CopyType] /\ sessions \in [Users -> SUBSET Sessions]
        /\ arrived \in 0..MaxRequests
    BY StoresTyped
  <1>1. UNCHANGED <<keycloak, sessions, row, cache, arrived>>
    BY DEF LoadForCache, CompareMail, LoadRow, ListRoles, FindByUsername, Refused
  <1>2. request' \in [Requests -> RequestType] /\ doubt' \in [Users -> SUBSET Aspects]
    <2>1. CASE LoadForCache(r) \/ LoadRow(r)
      <3>1. [q EXCEPT !.loaded = row[u]] \in RequestType
        BY <1>0, <1>t DEF RequestType
      <3>2. \E step \in Steps : GoOn(r, [q EXCEPT !.loaded = row[u]], step)
        BY <2>1 DEF LoadForCache, LoadRow, Steps
      <3> QED
        BY <3>1, <3>2, GoOnType
    <2>2. CASE CompareMail(r)
      <3>1. \E step \in Steps : GoOn(r, q, step)
        BY <2>2 DEF CompareMail, Steps
      <3> QED
        BY <3>1, <1>0, GoOnType
    <2>3. CASE ListRoles(r)
      <3> DEFINE p == [q EXCEPT !.loaded.roles = keycloak[u].roles \cap AllowedRealmRoles]
      <3>1. p \in RequestType
        BY <1>0 DEF RequestType, RowType
      <3>2. GoOn(r, p, "remove")
        BY <2>3 DEF ListRoles
      <3> HIDE DEF p
      <3> QED
        BY <3>1, <3>2, GoOnType DEF Steps
    <2>4. CASE FindByUsername(r)
      <3> DEFINE roles == IF q.roles = {} THEN row[u].roles ELSE q.roles \cup {"user"}
                 p == [q EXCEPT !.roles = roles]
      <3>0. row[u].roles \subseteq AllowedRealmRoles
        BY <1>0, <1>t DEF RowType
      <3>1. roles \subseteq AllowedRealmRoles
        BY <3>0, RequestTyped DEF AllowedRealmRoles
      <3>2. p \in RequestType
        BY <3>1, <1>0 DEF RequestType
      <3>3. GoOn(r, p, "record")
        BY <2>4 DEF FindByUsername
      <3> HIDE DEF p
      <3> QED
        BY <3>2, <3>3, GoOnType DEF Steps
    <2>5. CASE Refused(r)
      BY <2>5, <1>0, FailType DEF Refused
    <2> QED
      BY <2>1, <2>2, <2>3, <2>4, <2>5
  <1> QED
    BY <1>1, <1>2, <1>t, StoresType

\* The order of the calls of a change of status.
LEMMA NextCallOf ==
  ASSUME NEW q \in RequestType, q.at \in {"enable", "revoke", "store"},
         q.at = "revoke" => ~q.active
  PROVE  /\ NextCall(q) \in Steps
         /\ q.at = "enable" => NextCall(q) = IF q.active THEN "store" ELSE "revoke"
         /\ q.at = "revoke" => NextCall(q) = "store"
         /\ q.at = "store" => NextCall(q) = "forget"
  <1> DEFINE calls == StatusCalls(q.active)
  <1>0. q.active \in BOOLEAN
    BY DEF RequestType
  <1>1. CASE q.active
    <2>1. calls = <<"enable", "store", "forget">> /\ DOMAIN calls = 1..3
      BY <1>1 DEF StatusCalls
    <2>2. calls[1] = "enable" /\ calls[2] = "store" /\ calls[3] = "forget"
      BY <2>1
    <2> DEFINE k == CHOOSE j \in DOMAIN calls : calls[j] = q.at
    <2>3. NextCall(q) = calls[1 + k]
      BY DEF NextCall
    <2> HIDE DEF calls, k
    <2>4. CASE q.at = "enable"
      <3>1. k = 1
        BY <2>1, <2>2, <2>4 DEF k
      <3>2. NextCall(q) = calls[2]
        BY <3>1, <2>3
      <3> QED
        BY <3>2, <2>2, <2>4, <1>1 DEF Steps
    <2>5. CASE q.at = "store"
      <3>1. k = 2
        BY <2>1, <2>2, <2>5 DEF k
      <3>2. NextCall(q) = calls[3]
        BY <3>1, <2>3
      <3> QED
        BY <3>2, <2>2, <2>5, <1>1 DEF Steps
    <2> QED
      BY <1>1, <2>4, <2>5
  <1>2. CASE ~q.active
    <2>1. calls = <<"enable", "revoke", "store", "forget">> /\ DOMAIN calls = 1..4
      BY <1>2 DEF StatusCalls
    <2>2. calls[1] = "enable" /\ calls[2] = "revoke" /\ calls[3] = "store" /\ calls[4] = "forget"
      BY <2>1
    <2> DEFINE k == CHOOSE j \in DOMAIN calls : calls[j] = q.at
    <2>3. NextCall(q) = calls[1 + k]
      BY DEF NextCall
    <2> HIDE DEF calls, k
    <2>4. CASE q.at = "enable"
      <3>1. k = 1
        BY <2>1, <2>2, <2>4 DEF k
      <3>2. NextCall(q) = calls[2]
        BY <3>1, <2>3
      <3> QED
        BY <3>2, <2>2, <2>4, <1>2 DEF Steps
    <2>5. CASE q.at = "revoke"
      <3>1. k = 2
        BY <2>1, <2>2, <2>5 DEF k
      <3>2. NextCall(q) = calls[3]
        BY <3>1, <2>3
      <3> QED
        BY <3>2, <2>2, <2>5, <1>2 DEF Steps
    <2>6. CASE q.at = "store"
      <3>1. k = 3
        BY <2>1, <2>2, <2>6 DEF k
      <3>2. NextCall(q) = calls[4]
        BY <3>1, <2>3
      <3> QED
        BY <3>2, <2>2, <2>6, <1>2 DEF Steps
    <2> QED
      BY <2>4, <2>5, <2>6
  <1> QED
    BY <1>0, <1>1, <1>2

\* Calls that change one store.
LEMMA StoreStepType ==
  ASSUME TypeOK, NEW r \in Requests,
         \/ FillCache(r) \/ DropCopy(r) \/ PushMail(r) \/ SaveRow(r) \/ SetEnabled(r)
         \/ RevokeSessions(r) \/ StoreStatus(r) \/ RemoveRoles(r) \/ AssignRoles(r)
         \/ StoreRoles(r) \/ RecordLogin(r) \/ \E s \in Sessions : IssueToken(r, s)
  PROVE  TypeOK'
  <1> DEFINE q == request[r]  u == request[r].user
  <1>0. /\ q \in RequestType /\ u \in Users /\ q.loaded \in RowType
        /\ q.roles \in SUBSET AllowedRealmRoles /\ q.mail \in Mails \cup {NoMail}
        /\ q.active \in BOOLEAN
    BY RequestTyped
  <1>t. /\ keycloak \in [Users -> AccountType] /\ row \in [Users -> RowType]
        /\ cache \in [Users -> CopyType] /\ sessions \in [Users -> SUBSET Sessions]
        /\ arrived \in 0..MaxRequests
    BY StoresTyped
  <1>u. keycloak[u] \in AccountType /\ row[u] \in RowType /\ keycloak[u].roles \subseteq AllowedRealmRoles
    BY <1>0, <1>t DEF AccountType
  <1>1. CASE FillCache(r) \/ DropCopy(r)
    <2>1. request' \in [Requests -> RequestType] /\ doubt' \in [Users -> SUBSET Aspects]
      BY <1>1, <1>0, LastEffectType DEF FillCache, DropCopy
    <2>2. Copy(q.loaded) \in CopyType /\ NoCopy \in CopyType
      BY <1>0, NoRowType DEF NoCopy, Copy, CopyType, RowType
    <2>3. cache' \in [Users -> CopyType] /\ UNCHANGED <<keycloak, sessions, row, arrived>>
      BY <1>1, <2>2, <1>t DEF FillCache, DropCopy
    <2> QED
      BY <2>1, <2>3, <1>t, StoresType
  <1>2. CASE PushMail(r)
    <2> DEFINE p == [q EXCEPT !.sent = TRUE]
    <2>1. p \in RequestType
      BY <1>0 DEF RequestType
    <2>2. Effect(r, p, "load")
      BY <1>2 DEF PushMail
    <2> HIDE DEF p
    <2>3. request' \in [Requests -> RequestType] /\ doubt' \in [Users -> SUBSET Aspects]
      BY <2>1, <2>2, EffectType DEF Steps
    <2>4. [keycloak[u] EXCEPT !.mail = q.mail] \in AccountType
      BY <1>0, <1>u DEF AccountType
    <2>5. keycloak' \in [Users -> AccountType] /\ UNCHANGED <<sessions, row, cache, arrived>>
      BY <1>2, <2>4, <1>t DEF PushMail
    <2> QED
      BY <2>3, <2>5, <1>t, StoresType
  <1>3. CASE SaveRow(r)
    <2>1. request' \in [Requests -> RequestType] /\ doubt' \in [Users -> SUBSET Aspects]
      BY <1>3, <1>0, EffectType DEF SaveRow, Steps
    <2> DEFINE m == IF q.mail = NoMail THEN q.loaded.mail ELSE q.mail
               s == IF q.phone THEN "cipher" ELSE IF q.loaded.sensitive = "null"
                    THEN q.loaded.sensitive ELSE "plain"
               new == [q.loaded EXCEPT !.mail = m, !.sensitive = s]
    <2>2. new \in RowType
      BY <1>0 DEF RowType
    <2>3. row' = [row EXCEPT ![u] = new]
      BY <1>3 DEF SaveRow
    <2> HIDE DEF new
    <2>4. row' \in [Users -> RowType]
      BY <2>2, <2>3, <1>t
    <2>5. UNCHANGED <<keycloak, sessions, cache, arrived>>
      BY <1>3 DEF SaveRow
    <2> QED
      BY <2>1, <2>4, <2>5, <1>t, StoresType
  <1>4. CASE SetEnabled(r)
    <2>0. NextCall(q) \in Steps
      <3>1. q.at = "enable"
        BY <1>4 DEF SetEnabled, At
      <3> QED
        BY <3>1, <1>0, NextCallOf
    <2>1. request' \in [Requests -> RequestType] /\ doubt' \in [Users -> SUBSET Aspects]
      BY <1>4, <1>0, <2>0, EffectType DEF SetEnabled
    <2>2. [keycloak[u] EXCEPT !.enabled = q.active] \in AccountType
      BY <1>0, <1>u DEF AccountType
    <2>3. keycloak' \in [Users -> AccountType] /\ UNCHANGED <<sessions, row, cache, arrived>>
      BY <1>4, <2>2, <1>t DEF SetEnabled
    <2> QED
      BY <2>1, <2>3, <1>t, StoresType
  <1>5. CASE RevokeSessions(r)
    <2>0. NextCall(q) \in Steps
      <3>1. q.at = "revoke" /\ ~q.active
        BY <1>5 DEF RevokeSessions, At
      <3> QED
        BY <3>1, <1>0, NextCallOf
    <2>1. request' \in [Requests -> RequestType] /\ doubt' \in [Users -> SUBSET Aspects]
      BY <1>5, <1>0, <2>0, EffectType DEF RevokeSessions
    <2>2. sessions' \in [Users -> SUBSET Sessions] /\ UNCHANGED <<keycloak, row, cache, arrived>>
      BY <1>5, <1>t DEF RevokeSessions
    <2> QED
      BY <2>1, <2>2, <1>t, StoresType
  <1>6. CASE StoreStatus(r)
    <2>0. NextCall(q) \in Steps
      <3>1. q.at = "store"
        BY <1>6 DEF StoreStatus, At
      <3> QED
        BY <3>1, <1>0, NextCallOf
    <2>1. request' \in [Requests -> RequestType] /\ doubt' \in [Users -> SUBSET Aspects]
      BY <1>6, <1>0, <2>0, EffectType DEF StoreStatus
    <2>2. [row[u] EXCEPT !.active = q.active] \in RowType
      BY <1>0, <1>u DEF RowType
    <2>3. row' \in [Users -> RowType] /\ UNCHANGED <<keycloak, sessions, cache, arrived>>
      BY <1>6, <2>2, <1>t DEF StoreStatus
    <2> QED
      BY <2>1, <2>3, <1>t, StoresType
  <1>7. CASE RemoveRoles(r) \/ AssignRoles(r)
    <2>1. \E step \in Steps : GoOn(r, q, step) \/ Effect(r, q, step)
      BY <1>7 DEF RemoveRoles, AssignRoles, Steps
    <2>2. request' \in [Requests -> RequestType] /\ doubt' \in [Users -> SUBSET Aspects]
      BY <2>1, <1>0, GoOnType, EffectType
    <2> DEFINE old == q.loaded.roles \ q.roles  new == q.roles \ q.loaded.roles
    <2>3. \/ keycloak' = keycloak
          \/ keycloak' = [keycloak EXCEPT ![u].roles = @ \ old]
          \/ keycloak' = [keycloak EXCEPT ![u].roles = @ \cup new]
      BY <1>7 DEF RemoveRoles, AssignRoles
    <2>4. \A R \in SUBSET AllowedRealmRoles : [keycloak[u] EXCEPT !.roles = R] \in AccountType
      BY <1>u DEF AccountType
    <2>5. keycloak[u].roles \ old \in SUBSET AllowedRealmRoles
          /\ keycloak[u].roles \cup new \in SUBSET AllowedRealmRoles
      BY <1>0, <1>u
    <2> HIDE DEF old, new
    <2>6. keycloak' \in [Users -> AccountType]
      BY <2>3, <2>4, <2>5, <1>t
    <2>7. UNCHANGED <<sessions, row, cache, arrived>>
      BY <1>7 DEF RemoveRoles, AssignRoles
    <2> QED
      BY <2>2, <2>6, <2>7, <1>t, StoresType
  <1>8. CASE StoreRoles(r) \/ RecordLogin(r)
    <2>1. Effect(r, q, "forget") \/ LastEffect(r, q)
      BY <1>8 DEF StoreRoles, RecordLogin
    <2>2. request' \in [Requests -> RequestType] /\ doubt' \in [Users -> SUBSET Aspects]
      BY <2>1, <1>0, EffectType, LastEffectType DEF Steps
    <2>3. [row[u] EXCEPT !.roles = q.roles] \in RowType
      BY <1>0, <1>u DEF RowType
    <2>4. row' \in [Users -> RowType] /\ UNCHANGED <<keycloak, sessions, cache, arrived>>
      BY <1>8, <2>3, <1>t DEF StoreRoles, RecordLogin
    <2> QED
      BY <2>2, <2>4, <1>t, StoresType
  <1>9. ASSUME NEW s \in Sessions, IssueToken(r, s)
        PROVE  TypeOK'
    <2> DEFINE held == "user" \in keycloak[u].roles
               p == [q EXCEPT !.roles = keycloak[u].roles, !.sent = held]
    <2>0. \A R \in SUBSET AllowedRealmRoles, b \in BOOLEAN :
            [q EXCEPT !.roles = R, !.sent = b] \in RequestType
      BY <1>0 DEF RequestType
    <2>a. keycloak[u].roles \in SUBSET AllowedRealmRoles
      BY <1>u
    <2>b. held \in BOOLEAN
      OBVIOUS
    <2>2. GoOn(r, p, "find") \/ Fail(r, q)
      BY <1>9 DEF IssueToken
    <2> HIDE DEF held
    <2>1. p \in RequestType
      BY <2>0, <2>a, <2>b
    <2> HIDE DEF p
    <2>3. request' \in [Requests -> RequestType] /\ doubt' \in [Users -> SUBSET Aspects]
      BY <2>1, <2>2, <1>0, GoOnType, FailType DEF Steps
    <2>4. sessions' \in [Users -> SUBSET Sessions] /\ UNCHANGED <<keycloak, row, cache, arrived>>
      BY <1>9, <1>t DEF IssueToken
    <2> QED
      BY <2>3, <2>4, <1>t, StoresType
  <1> QED
    BY <1>1, <1>2, <1>3, <1>4, <1>5, <1>6, <1>7, <1>8, <1>9

\* Every variable keeps its type, for any number of users and requests.
THEOREM DirectoryTypes == Spec => []TypeOK
  <1>1. Init => TypeOK
    BY IdleType, NoRowType, DirectoryAssumption
    DEF Init, TypeOK, NoAccount, NoCopy, Copy, RowType
  <1>2. TypeOK /\ [Next]_vars => TypeOK'
    <2> SUFFICES ASSUME TypeOK, [Next]_vars
                 PROVE  TypeOK'
      OBVIOUS
    <2>t. /\ keycloak \in [Users -> AccountType] /\ row \in [Users -> RowType]
          /\ cache \in [Users -> CopyType] /\ sessions \in [Users -> SUBSET Sessions]
          /\ request \in [Requests -> RequestType] /\ doubt \in [Users -> SUBSET Aspects]
          /\ arrived \in 0..MaxRequests
      BY StoresTyped
    <2>1. ASSUME NEW r \in Requests, NEW u \in Users, Begin(r, u)
          PROVE  TypeOK'
      BY <2>1, BeginType
    <2>2. ASSUME NEW r \in Requests, Step(r)
          PROVE  TypeOK'
      BY <2>2, CreateStepType, LoadStepType, StoreStepType DEF Step
    <2>3. ASSUME NEW u \in Users, Expire(u)
          PROVE  TypeOK'
      <3>1. NoCopy \in CopyType
        BY NoRowType DEF NoCopy, Copy, CopyType, RowType
      <3>2. cache' \in [Users -> CopyType] /\ doubt' \in [Users -> SUBSET Aspects]
            /\ UNCHANGED <<keycloak, sessions, row, request, arrived>>
        BY <2>3, <3>1, <2>t DEF Expire
      <3> QED
        BY <3>2, <2>t, StoresType
    <2>4. ASSUME NEW u \in Users, EndAllSessions(u) \/ \E s \in Sessions : EndSession(u, s)
          PROVE  TypeOK'
      <3>1. sessions' \in [Users -> SUBSET Sessions]
            /\ UNCHANGED <<keycloak, row, cache, request, doubt, arrived>>
        BY <2>4, <2>t DEF EndAllSessions, EndSession
      <3> QED
        BY <3>1, <2>t, StoresType
    <2>5. ASSUME Crash
          PROVE  TypeOK'
      <3>1. request' \in [Requests -> RequestType]
        BY <2>5, IdleType DEF Crash
      <3>2. \A s \in Requests : Touches(request[s].op) \subseteq Aspects
        BY RequestTyped, TouchesType
      <3>3. doubt' \in [Users -> SUBSET Aspects]
        BY <2>5, <2>t, <3>2 DEF Crash, Busy
      <3>4. UNCHANGED <<keycloak, sessions, row, cache, arrived>>
        BY <2>5 DEF Crash
      <3> QED
        BY <3>1, <3>3, <3>4, <2>t, StoresType
    <2>6. CASE UNCHANGED vars
      BY <2>6, <2>t, StoresType DEF vars
    <2> QED
      BY <2>1, <2>2, <2>3, <2>4, <2>5, <2>6 DEF Next
  <1> QED
    BY <1>1, <1>2, PTL DEF Spec

-----------------------------------------------------------------------------
(***************************************************************************)
(* A deactivated user is out.                                              *)
(***************************************************************************)

\* The requests that write is_active or enabled.
StatusOps == {"create", "patch", "status"}

WorksOn(r, u) == request[r].op \in StatusOps /\ request[r].user = u

Clashed(r) == "active" \in request[r].clash

\* A request that has changed nothing yet, or a PATCH alone on the row, which
\* writes the status back as it is.
Harmless(r) == ~request[r].wrote \/ (request[r].op = "patch" /\ ~Clashed(r))

Agree(u) == row[u].there /\ keycloak[u].there =>
              /\ keycloak[u].enabled = row[u].active
              /\ ~row[u].active => sessions[u] = {}

\* Two requests on the status of one user know of each other.
Overlaps(u) ==
  \A r, s \in Requests : r # s /\ WorksOn(r, u) /\ WorksOn(s, u) => Clashed(r)

\* Until somebody writes, or after a request left its promise, both sides agree.
Undisturbed(u) ==
  "active" \notin doubt[u] /\ (\A r \in Requests : WorksOn(r, u) => Harmless(r)) => Agree(u)

\* What a request alone on the status has achieved by the call it is at.
Achieved(r) == LET q == request[r]  u == q.user IN
  /\ q.op = "create" /\ q.at \in {"grant", "insert", "rollback"} => q.wrote
  /\ ~Clashed(r) =>
     /\ q.op = "create" /\ q.at \in {"grant", "insert"} => keycloak[u].enabled
     /\ q.op = "patch" /\ q.at = "save" =>
          q.loaded.there = row[u].there /\ q.loaded.active = row[u].active
     /\ q.op = "status" /\ q.at \in {"revoke", "store", "forget"} =>
          keycloak[u].enabled = q.active
     /\ q.op = "status" /\ q.at \in {"store", "forget"} /\ ~q.active => sessions[u] = {}
     /\ q.op = "status" /\ q.at = "forget" => row[u].active = q.active

Kept(u) ==
  /\ Overlaps(u)
  /\ Undisturbed(u)
  /\ \A r \in Requests : WorksOn(r, u) => Achieved(r)

IInv == TypeOK /\ \A u \in Users : Kept(u)

\* The directories say the same of the status of v, and no session was opened
\* for an account that is disabled.
SameStatus(v) ==
  /\ row'[v].there = row[v].there /\ row'[v].active = row[v].active
  /\ keycloak'[v].there = keycloak[v].there /\ keycloak'[v].enabled = keycloak[v].enabled
  /\ sessions'[v] = sessions[v] \/ sessions'[v] = {} \/ keycloak[v].enabled

\* Request s is where it was with respect to the status of v.
SameWork(s, v) ==
  \/ ~WorksOn(s, v) /\ ~WorksOn(s, v)'
  \/ /\ request'[s].op = request[s].op /\ request'[s].user = request[s].user
     /\ request'[s].at = request[s].at /\ request'[s].active = request[s].active
     /\ request'[s].loaded = request[s].loaded /\ request'[s].wrote = request[s].wrote
     /\ Clashed(s)' <=> Clashed(s)

\* A step that leaves the status of v alone.
LEMMA Elsewhere ==
  ASSUME TypeOK, TypeOK', NEW v \in Users, Kept(v), SameStatus(v),
         \A s \in Requests : SameWork(s, v),
         "active" \in doubt[v] => "active" \in doubt'[v]
  PROVE  Kept(v)'
  <1>t. /\ keycloak[v].enabled \in BOOLEAN /\ row[v].active \in BOOLEAN
        /\ \A s \in Requests : request[s].active \in BOOLEAN
    BY DEF TypeOK, RowType, RequestType
  <1>1. \A s \in Requests : WorksOn(s, v)' <=> WorksOn(s, v)
    BY DEF SameWork, WorksOn
  <1>2. \A s \in Requests : WorksOn(s, v) => (Clashed(s)' <=> Clashed(s))
    BY DEF SameWork
  <1>3. \A s \in Requests : WorksOn(s, v) => (Harmless(s)' <=> Harmless(s))
    BY <1>2 DEF SameWork, Harmless
  <1>4. Overlaps(v)'
    BY <1>1, <1>2 DEF Kept, Overlaps
  <1>5. Agree(v) => Agree(v)'
    BY <1>t DEF Agree, SameStatus
  <1>6. Undisturbed(v)'
    BY <1>1, <1>3, <1>5 DEF Kept, Undisturbed
  <1>7. ASSUME NEW s \in Requests, WorksOn(s, v)'
        PROVE  Achieved(s)'
    <2>1. WorksOn(s, v) /\ Achieved(s) /\ request[s].user = v
      BY <1>1, <1>7 DEF Kept, WorksOn
    <2>2. /\ request'[s].op = request[s].op /\ request'[s].user = request[s].user
          /\ request'[s].at = request[s].at /\ request'[s].active = request[s].active
          /\ request'[s].loaded = request[s].loaded /\ request'[s].wrote = request[s].wrote
          /\ Clashed(s)' <=> Clashed(s)
      BY <2>1 DEF SameWork
    <2> QED
      BY <2>1, <2>2, <1>t DEF Achieved, SameStatus
  <1> QED
    BY <1>4, <1>6, <1>7 DEF Kept

LEMMA TouchesActive ==
  ASSUME NEW op \in Ops
  PROVE  "active" \in Touches(op) <=> op \in StatusOps
  BY DEF Touches, Ops, StatusOps, Aspects

LEMMA CommonActive ==
  ASSUME NEW a \in Ops, NEW b \in Ops
  PROVE  "active" \in Common(a, b) <=> a \in StatusOps /\ b \in StatusOps
  BY TouchesActive DEF Common, Ops, StatusOps

LEMMA SettlesActive ==
  ASSUME NEW q \in RequestType, "active" \in Settles(q)
  PROVE  q.op \in {"create", "status"}
  BY DEF Settles, RequestType

\* A step of request r on the status of u: the other users and the other
\* requests on u stay as they were.
LEMMA OwnStep ==
  ASSUME IInv, TypeOK', NEW r \in Requests, NEW u \in Users, WorksOn(r, u),
         \A s \in Requests \ {r} : request'[s] = request[s],
         \A v \in Users \ {u} : SameStatus(v) /\ doubt'[v] = doubt[v],
         \/ request'[r] = Idle
         \/ /\ request'[r].op = request[r].op /\ request'[r].user = request[r].user
            /\ request'[r].clash = request[r].clash
            /\ Achieved(r)',
         Undisturbed(u)'
  PROVE  IInv'
  <1>1. ASSUME NEW v \in Users \ {u}
        PROVE  Kept(v)'
    <2>1. ~WorksOn(r, v) /\ ~WorksOn(r, v)'
      BY DEF WorksOn, Idle, StatusOps
    <2>2. ASSUME NEW s \in Requests
          PROVE  SameWork(s, v)
      <3>1. CASE s = r
        BY <3>1, <2>1 DEF SameWork
      <3>2. CASE s # r
        BY <3>2 DEF SameWork, Clashed
      <3> QED
        BY <3>1, <3>2
    <2>3. TypeOK /\ Kept(v) /\ SameStatus(v) /\ doubt'[v] = doubt[v]
      BY DEF IInv
    <2> QED
      BY <2>2, <2>3, Elsewhere
  <1>2. ASSUME NEW s \in Requests, WorksOn(s, u)'
        PROVE  WorksOn(s, u) /\ (Clashed(s)' <=> Clashed(s))
    <2>1. CASE s = r
      BY <2>1, <1>2 DEF WorksOn, Idle, StatusOps, Clashed
    <2>2. CASE s # r
      BY <2>2, <1>2 DEF WorksOn, Clashed
    <2> QED
      BY <2>1, <2>2
  <1>3. Overlaps(u)
    BY DEF IInv, Kept
  <1>4. Overlaps(u)'
    BY <1>2, <1>3 DEF Overlaps
  <1>5. ASSUME NEW s \in Requests, WorksOn(s, u)'
        PROVE  Achieved(s)'
    <2>1. CASE s = r
      <3>1. request'[r] # Idle
        BY <2>1, <1>5 DEF WorksOn, Idle, StatusOps
      <3> QED
        BY <2>1, <3>1
    <2>2. CASE s # r
      <3>1. WorksOn(s, u) /\ request'[s] = request[s] /\ Achieved(s)
        BY <2>2, <1>5, <1>2 DEF IInv, Kept
      <3>a. WorksOn(r, u)
        OBVIOUS
      <3>b. Clashed(s)
        BY <2>2, <3>1, <3>a, <1>3 DEF Overlaps
      <3>2. Clashed(s)'
        BY <3>b, <1>2, <1>5
      <3> QED
        BY <3>1, <3>2 DEF Achieved
    <2> QED
      BY <2>1, <2>2
  <1>6. Kept(u)'
    BY <1>4, <1>5 DEF Kept
  <1> QED
    BY <1>1, <1>6 DEF IInv

\* An arrival.
LEMMA StartKeeps ==
  ASSUME IInv, TypeOK', NEW r \in Requests, NEW q \in RequestType, Start(r, q), ~q.wrote,
         q.op \in StatusOps => q.at \in {"account", "load", "compare", "enable"},
         UNCHANGED <<keycloak, sessions, row, cache, doubt>>
  PROVE  IInv'
  <1> DEFINE shared == UNION {Common(q.op, request[o].op) : o \in Busy(q.user)}
  <1>t. /\ TypeOK /\ q.op \in Ops
        /\ \A s \in Requests : request[s] \in RequestType /\ request[s].op \in Ops
    BY DEF IInv, TypeOK, RequestType, Ops
  <1>1. /\ request[r] = Idle
        /\ request'[r] = [q EXCEPT !.clash = shared]
        /\ \A s \in Requests \ {r} :
             request'[s] = IF s \in Busy(q.user)
                           THEN [request[s] EXCEPT !.clash = @ \cup Common(q.op, request[s].op)]
                           ELSE request[s]
    BY DEF Start
  <1>2. ~\E v \in Users : WorksOn(r, v)
    BY <1>1 DEF WorksOn, Idle, StatusOps
  <1>3. /\ request'[r].op = q.op /\ request'[r].user = q.user /\ request'[r].at = q.at
        /\ request'[r].wrote = q.wrote /\ request'[r].clash = shared
    BY <1>1 DEF RequestType
  <1>4. ASSUME NEW s \in Requests \ {r}
        PROVE  /\ request'[s].op = request[s].op /\ request'[s].user = request[s].user
               /\ request'[s].at = request[s].at /\ request'[s].active = request[s].active
               /\ request'[s].loaded = request[s].loaded /\ request'[s].wrote = request[s].wrote
               /\ request'[s].clash = IF s \in Busy(q.user)
                                      THEN request[s].clash \cup Common(q.op, request[s].op)
                                      ELSE request[s].clash
    <2>1. request[s] \in RequestType
      BY <1>t
    <2> QED
      BY ZenonT(60), <1>1, <2>1 DEF RequestType
  <1>5. \A v \in Users : SameStatus(v)
    BY DEF SameStatus
  <1>6. ASSUME NEW v \in Users, q.op \notin StatusOps \/ v # q.user
        PROVE  Kept(v)'
    <2>1. ASSUME NEW s \in Requests
          PROVE  SameWork(s, v)
      <3>1. CASE s = r
        BY <3>1, <1>2, <1>3, <1>6 DEF SameWork, WorksOn
      <3>2. CASE s # r /\ (s \notin Busy(q.user) \/ q.op \notin StatusOps)
        <4>1. "active" \in request'[s].clash <=> "active" \in request[s].clash
          BY <3>2, <1>4, <1>t, CommonActive
        <4> QED
          BY <3>2, <4>1, <1>4 DEF SameWork, Clashed
      <3>3. CASE s # r /\ s \in Busy(q.user) /\ v # q.user
        BY <3>3, <1>4 DEF SameWork, WorksOn, Busy
      <3> QED
        BY <3>1, <3>2, <3>3, <1>6
    <2>2. Kept(v) /\ doubt'[v] = doubt[v]
      BY DEF IInv
    <2> QED
      BY <2>1, <2>2, <1>5, <1>t, Elsewhere
  <1>7. ASSUME NEW v \in Users, q.op \in StatusOps, v = q.user
        PROVE  Kept(v)'
    <2>0. Kept(v)
      BY DEF IInv
    <2>1. ASSUME NEW s \in Requests \ {r}, WorksOn(s, v)'
          PROVE  WorksOn(s, v) /\ Clashed(s)' /\ Clashed(r)'
      <3>1. WorksOn(s, v)
        BY <2>1, <1>4 DEF WorksOn
      <3>2. s \in Busy(q.user)
        BY <3>1, <1>7 DEF Busy, WorksOn, StatusOps
      <3>3. "active" \in Common(q.op, request[s].op)
        BY <3>1, <1>7, <1>t, CommonActive DEF WorksOn
      <3> QED
        BY <3>1, <3>2, <3>3, <1>3, <1>4 DEF Clashed
    <2>2. Overlaps(v)'
      BY <2>1 DEF Overlaps
    <2>3. Agree(v)' <=> Agree(v)
      BY DEF Agree
    <2>4. Undisturbed(v)'
      <3> SUFFICES ASSUME "active" \notin doubt'[v],
                          \A s \in Requests : WorksOn(s, v)' => Harmless(s)'
                   PROVE  Agree(v)'
        BY DEF Undisturbed
      <3>1. ASSUME NEW s \in Requests, WorksOn(s, v)
            PROVE  Harmless(s)
        <4>1. s # r
          BY <3>1, <1>2
        <4>2. WorksOn(s, v)'
          BY <3>1, <4>1, <1>4 DEF WorksOn
        <4>3. Harmless(s)' /\ Clashed(s)'
          BY <4>1, <4>2, <2>1
        <4> QED
          BY <4>1, <4>3, <1>4 DEF Harmless
      <3> QED
        BY <3>1, <2>0, <2>3 DEF Kept, Undisturbed
    <2>5. ASSUME NEW s \in Requests, WorksOn(s, v)'
          PROVE  Achieved(s)'
      <3>1. CASE s = r
        <4>1. request'[r].at \in {"account", "load", "compare", "enable"}
          BY <1>3, <1>7
        <4> QED
          BY <3>1, <4>1 DEF Achieved
      <3>2. CASE s # r
        <4>1. WorksOn(s, v) /\ Clashed(s)'
          BY <3>2, <2>1, <2>5
        <4>2. Achieved(s)
          BY <4>1, <2>0 DEF Kept
        <4> QED
          BY <3>2, <4>1, <4>2, <1>4 DEF Achieved
      <3> QED
        BY <3>1, <3>2
    <2> QED
      BY <2>2, <2>4, <2>5 DEF Kept
  <1> QED
    BY <1>6, <1>7 DEF IInv

\* Request r breaks off or ends: its user is in doubt, or both sides agree, or
\* r had changed nothing of the status.
LEMMA OwnEnd ==
  ASSUME IInv, TypeOK', NEW r \in Requests, NEW u \in Users, WorksOn(r, u),
         request' = [request EXCEPT ![r] = Idle],
         \A v \in Users \ {u} : SameStatus(v) /\ doubt'[v] = doubt[v],
         \/ "active" \in doubt'[u]
         \/ Agree(u)'
         \/ /\ Harmless(r) /\ SameStatus(u)
            /\ "active" \in doubt[u] => "active" \in doubt'[u]
  PROVE  IInv'
  <1>1. request'[r] = Idle /\ \A s \in Requests \ {r} : request'[s] = request[s]
    BY DEF IInv, TypeOK
  <1>2. Undisturbed(u)'
    <2>1. CASE "active" \in doubt'[u] \/ Agree(u)'
      BY <2>1 DEF Undisturbed
    <2>2. CASE /\ Harmless(r) /\ SameStatus(u)
               /\ "active" \in doubt[u] => "active" \in doubt'[u]
      <3> SUFFICES ASSUME "active" \notin doubt'[u],
                          \A s \in Requests : WorksOn(s, u)' => Harmless(s)'
                   PROVE  Agree(u)'
        BY DEF Undisturbed
      <3>1. ASSUME NEW s \in Requests, WorksOn(s, u)
            PROVE  Harmless(s)
        <4>1. CASE s = r
          BY <4>1, <2>2
        <4>2. CASE s # r
          <5>1. WorksOn(s, u)' /\ request'[s] = request[s]
            BY <4>2, <1>1, <3>1 DEF WorksOn
          <5> QED
            BY <5>1 DEF Harmless, Clashed
        <4> QED
          BY <4>1, <4>2
      <3>2. Undisturbed(u)
        BY DEF IInv, Kept
      <3>3. Agree(u)
        BY <3>1, <3>2, <2>2 DEF Undisturbed
      <3>4. keycloak[u].enabled \in BOOLEAN /\ row[u].active \in BOOLEAN
        BY DEF IInv, TypeOK, RowType
      <3> QED
        BY <3>3, <3>4, <2>2 DEF Agree, SameStatus
    <2> QED
      BY <2>1, <2>2
  <1> QED
    BY <1>1, <1>2, OwnStep

\* Request r goes on: it has written the status by now, or left it alone.
LEMMA OwnGoOn ==
  ASSUME IInv, TypeOK', NEW r \in Requests, NEW u \in Users, WorksOn(r, u),
         NEW q, request' = [request EXCEPT ![r] = q],
         q.op = request[r].op, q.user = request[r].user, q.clash = request[r].clash,
         \A v \in Users \ {u} : SameStatus(v) /\ doubt'[v] = doubt[v],
         "active" \in doubt[u] => "active" \in doubt'[u],
         Achieved(r)',
         \/ q.wrote /\ (q.op # "patch" \/ "active" \in q.clash)
         \/ SameStatus(u) /\ Harmless(r)
  PROVE  IInv'
  <1>1. request'[r] = q /\ \A s \in Requests \ {r} : request'[s] = request[s]
    BY DEF IInv, TypeOK
  <1>2. WorksOn(r, u)'
    BY <1>1 DEF WorksOn
  <1>3. Undisturbed(u)'
    <2>1. CASE q.wrote /\ (q.op # "patch" \/ "active" \in q.clash)
      <3>1. ~Harmless(r)'
        BY <2>1, <1>1 DEF Harmless, Clashed
      <3> QED
        BY <3>1, <1>2 DEF Undisturbed
    <2>2. CASE SameStatus(u) /\ Harmless(r)
      <3> SUFFICES ASSUME "active" \notin doubt'[u],
                          \A s \in Requests : WorksOn(s, u)' => Harmless(s)'
                   PROVE  Agree(u)'
        BY DEF Undisturbed
      <3>1. ASSUME NEW s \in Requests, WorksOn(s, u)
            PROVE  Harmless(s)
        <4>1. CASE s = r
          BY <4>1, <2>2
        <4>2. CASE s # r
          <5>1. WorksOn(s, u)' /\ request'[s] = request[s]
            BY <4>2, <1>1, <3>1 DEF WorksOn
          <5> QED
            BY <5>1 DEF Harmless, Clashed
        <4> QED
          BY <4>1, <4>2
      <3>2. Undisturbed(u)
        BY DEF IInv, Kept
      <3>3. Agree(u)
        BY <3>1, <3>2 DEF Undisturbed
      <3>4. keycloak[u].enabled \in BOOLEAN /\ row[u].active \in BOOLEAN
        BY DEF IInv, TypeOK, RowType
      <3> QED
        BY <3>3, <3>4, <2>2 DEF Agree, SameStatus
    <2> QED
      BY <2>1, <2>2
  <1>5. /\ request'[r].op = request[r].op /\ request'[r].user = request[r].user
        /\ request'[r].clash = request[r].clash
    BY <1>1
  <1> QED
    BY <1>1, <1>3, <1>5, OwnStep

\* A step that leaves the status of everybody alone, of no worker on it.
LEMMA OtherStep ==
  ASSUME IInv, TypeOK',
         \A v \in Users : SameStatus(v),
         \A v \in Users : "active" \in doubt[v] => "active" \in doubt'[v],
         \A s \in Requests : \/ request'[s] = request[s]
                             \/ request[s].op \notin StatusOps /\ request'[s].op \notin StatusOps
  PROVE  IInv'
  <1>1. ASSUME NEW v \in Users
        PROVE  Kept(v)'
    <2>1. ASSUME NEW s \in Requests
          PROVE  SameWork(s, v)
      <3>1. CASE request'[s] = request[s]
        BY <3>1 DEF SameWork, Clashed
      <3>2. CASE request[s].op \notin StatusOps /\ request'[s].op \notin StatusOps
        BY <3>2 DEF SameWork, WorksOn
      <3> QED
        BY <3>1, <3>2
    <2>2. TypeOK /\ Kept(v) /\ SameStatus(v) /\ ("active" \in doubt[v] => "active" \in doubt'[v])
      BY DEF IInv
    <2> QED
      BY <2>1, <2>2, Elsewhere
  <1> QED
    BY <1>1 DEF IInv

\* How a request that does not work on the status goes on or ends.
LEMMA OtherOutcome ==
  ASSUME TypeOK, NEW r \in Requests, NEW q \in RequestType, NEW step,
         q.op = request[r].op, q.op \notin StatusOps,
         GoOn(r, q, step) \/ Fail(r, q) \/ Succeed(r, q)
           \/ Effect(r, q, step) \/ LastEffect(r, q)
  PROVE  /\ \A v \in Users : "active" \in doubt[v] => "active" \in doubt'[v]
         /\ \A s \in Requests : \/ request'[s] = request[s]
                                \/ request[s].op \notin StatusOps
                                   /\ request'[s].op \notin StatusOps
  <1> DEFINE w == [q EXCEPT !.wrote = TRUE]
  <1>1. w \in RequestType /\ w.op = q.op
    BY DEF RequestType
  <1>2. \E p \in {q, w} : GoOn(r, p, step) \/ Fail(r, p) \/ Succeed(r, p)
    BY DEF Effect, LastEffect
  <1> HIDE DEF w
  <1>3. PICK p \in {q, w} : GoOn(r, p, step) \/ Fail(r, p) \/ Succeed(r, p)
    BY <1>2
  <1>4. p \in RequestType /\ p.op = request[r].op /\ p.op \notin StatusOps
    BY <1>1
  <1>5. p.user \in Users
    BY <1>4 DEF RequestType
  <1>6. "active" \notin Settles(p)
    BY <1>4, SettlesActive DEF StatusOps
  <1>7. [p EXCEPT !.at = step].op = p.op
    BY <1>4 DEF RequestType
  <1>8. CASE GoOn(r, p, step)
    BY <1>8, <1>4, <1>7 DEF GoOn, TypeOK
  <1>9. CASE Fail(r, p)
    <2>1. \A v \in Users : "active" \in doubt[v] => "active" \in doubt'[v]
      BY <1>9, <1>5 DEF Fail, TypeOK
    <2>2. request' = [request EXCEPT ![r] = Idle] /\ Idle.op = "none"
      BY <1>9 DEF Fail, Idle
    <2>3. \A s \in Requests : request'[s] = IF s = r THEN Idle ELSE request[s]
      BY <2>2 DEF TypeOK
    <2> QED
      BY <2>1, <2>2, <2>3, <1>4 DEF StatusOps
  <1>10. CASE Succeed(r, p)
    <2>1. \A v \in Users : "active" \in doubt[v] => "active" \in doubt'[v]
      BY <1>10, <1>5, <1>6 DEF Succeed, TypeOK
    <2>2. request' = [request EXCEPT ![r] = Idle] /\ Idle.op = "none"
      BY <1>10 DEF Succeed, Idle
    <2>3. \A s \in Requests : request'[s] = IF s = r THEN Idle ELSE request[s]
      BY <2>2 DEF TypeOK
    <2> QED
      BY <2>1, <2>2, <2>3, <1>4 DEF StatusOps
  <1> QED
    BY <1>3, <1>8, <1>9, <1>10

\* The last record of a request that broke off after it had changed something.
LEMMA FailWrote ==
  ASSUME TypeOK, NEW r \in Requests, NEW q \in RequestType, q.op \in StatusOps, q.wrote,
         Fail(r, q)
  PROVE  /\ request' = [request EXCEPT ![r] = Idle]
         /\ \A v \in Users \ {q.user} : doubt'[v] = doubt[v]
         /\ "active" \in doubt'[q.user]
  <1>1. q.user \in Users
    BY DEF RequestType
  <1>2. "active" \in Touches(q.op) \ {"account"}
    BY DEF Touches, StatusOps, Aspects
  <1> QED
    BY <1>1, <1>2 DEF Fail, TypeOK

\* An effect of request r: it goes on, having written, or its user is in doubt.
LEMMA WorkerEffect ==
  ASSUME TypeOK, NEW r \in Requests, NEW q \in RequestType, q.op \in StatusOps, NEW step,
         Effect(r, q, step)
  PROVE  \/ /\ request' = [request EXCEPT ![r] = [q EXCEPT !.wrote = TRUE, !.at = step]]
            /\ doubt' = doubt
         \/ /\ request' = [request EXCEPT ![r] = Idle]
            /\ \A v \in Users \ {q.user} : doubt'[v] = doubt[v]
            /\ "active" \in doubt'[q.user]
  <1> DEFINE w == [q EXCEPT !.wrote = TRUE]
  <1>1. w \in RequestType /\ w.op = q.op /\ w.user = q.user /\ w.wrote
    BY DEF RequestType
  <1>2. GoOn(r, w, step) \/ Fail(r, w)
    BY DEF Effect
  <1>3. [w EXCEPT !.at = step] = [q EXCEPT !.wrote = TRUE, !.at = step]
    BY DEF RequestType
  <1> HIDE DEF w
  <1>4. CASE GoOn(r, w, step)
    BY <1>3, <1>4 DEF GoOn
  <1>5. CASE Fail(r, w)
    BY <1>1, <1>5, FailWrote
  <1> QED
    BY <1>2, <1>4, <1>5

LEMMA WorkerSucceeds ==
  ASSUME TypeOK, NEW r \in Requests, NEW q \in RequestType, Succeed(r, q)
  PROVE  /\ request' = [request EXCEPT ![r] = Idle]
         /\ \A v \in Users \ {q.user} : doubt'[v] = doubt[v]
         /\ "active" \in q.clash => "active" \in doubt'[q.user]
         /\ q.op = "patch" /\ "active" \in doubt[q.user] => "active" \in doubt'[q.user]
  <1>1. q.user \in Users
    BY DEF RequestType
  <1>2. q.op = "patch" => "active" \notin Settles(q)
    BY SettlesActive
  <1> QED
    BY <1>1, <1>2 DEF Succeed, TypeOK

\* Where a worker is by now, in terms of its own record.
LEMMA Worker ==
  ASSUME IInv, NEW r \in Requests, request[r].op \in StatusOps
  PROVE  /\ TypeOK /\ request[r] \in RequestType /\ request[r].user \in Users
         /\ WorksOn(r, request[r].user) /\ Achieved(r)
         /\ keycloak[request[r].user] \in AccountType /\ row[request[r].user] \in RowType
  <1>1. TypeOK /\ request[r] \in RequestType /\ request[r].user \in Users
    BY RequestTyped DEF IInv
  <1>2. WorksOn(r, request[r].user)
    BY DEF WorksOn
  <1>3. Achieved(r)
    BY <1>1, <1>2 DEF IInv, Kept
  <1> QED
    BY <1>1, <1>2, <1>3, StoresTyped

LEMMA CreateKeeps ==
  ASSUME IInv, TypeOK', NEW r \in Requests, NEW u \in Users, u = request[r].user,
         CreateAccount(r) \/ GrantFirstRole(r) \/ InsertRow(r) \/ RollbackAccount(r)
  PROVE  IInv'
  <1> DEFINE q == request[r]
  <1>0. q.op = "create" /\ q.op \in StatusOps
    BY DEF CreateAccount, GrantFirstRole, InsertRow, RollbackAccount, At, StatusOps
  <1>t. /\ TypeOK /\ q \in RequestType /\ q.user = u /\ WorksOn(r, u) /\ Achieved(r)
        /\ keycloak[u] \in AccountType /\ row[u] \in RowType
    BY <1>0, Worker
  <1>s. \A v \in Users \ {u} : SameStatus(v)
    BY <1>t DEF CreateAccount, GrantFirstRole, InsertRow, RollbackAccount, SameStatus, TypeOK
  \* Going on at a step of the try block.
  <1>g. ASSUME NEW p, request' = [request EXCEPT ![r] = p],
               p.op = q.op, p.user = u, p.clash = q.clash, p.wrote,
               \A v \in Users \ {u} : doubt'[v] = doubt[v],
               "active" \in doubt[u] => "active" \in doubt'[u],
               ~Clashed(r) /\ p.at \in {"grant", "insert"} => keycloak'[u].enabled
        PROVE  IInv'
    <2>1. request'[r] = p
      BY <1>g, <1>t DEF TypeOK
    <2>2. Achieved(r)'
      BY <1>g, <1>0, <2>1 DEF Achieved, Clashed
    <2> QED
      BY <1>g, <1>0, <1>t, <1>s, <2>2, OwnGoOn
  \* Ending in doubt or in agreement.
  <1>e. ASSUME request' = [request EXCEPT ![r] = Idle],
               \A v \in Users \ {u} : doubt'[v] = doubt[v],
               "active" \in doubt'[u] \/ Agree(u)'
        PROVE  IInv'
    <2>1. \A v \in Users \ {u} : SameStatus(v) /\ doubt'[v] = doubt[v]
      BY <1>e, <1>s
    <2> QED
      BY <1>e, <1>t, <2>1, OwnEnd
  <1>1. CASE CreateAccount(r)
    <2>1. keycloak'[u].enabled
      BY <1>1, <1>t DEF CreateAccount, TypeOK
    <2>2. CASE GoOn(r, [q EXCEPT !.wrote = TRUE], "grant")
      <3> DEFINE p == [[q EXCEPT !.wrote = TRUE] EXCEPT !.at = "grant"]
      <3>1. p.op = q.op /\ p.user = u /\ p.clash = q.clash /\ p.wrote
        BY <1>t DEF RequestType
      <3>2. request' = [request EXCEPT ![r] = p] /\ doubt' = doubt
        BY <2>2 DEF GoOn
      <3> HIDE DEF p
      <3> QED
        BY <2>1, <3>1, <3>2, <1>g
    <2>3. CASE request' = [request EXCEPT ![r] = Idle] /\ doubt' = [doubt EXCEPT ![u] = Aspects]
      <3>1. "active" \in doubt'[u] /\ \A v \in Users \ {u} : doubt'[v] = doubt[v]
        BY <2>3, <1>t DEF TypeOK, Aspects
      <3> QED
        BY <2>3, <3>1, <1>e
    <2> QED
      BY <1>1, <2>2, <2>3 DEF CreateAccount
  <1>2. CASE GrantFirstRole(r)
    <2>1. q.wrote /\ (~Clashed(r) => keycloak[u].enabled)
      BY <1>2, <1>t DEF GrantFirstRole, At, Achieved
    <2>2. keycloak'[u].enabled = keycloak[u].enabled
      BY SMTT(60), <1>2, <1>t DEF GrantFirstRole, TypeOK
    <2>3. PICK step \in {"insert", "rollback"} : GoOn(r, q, step)
      BY <1>2 DEF GrantFirstRole
    <2> DEFINE p == [q EXCEPT !.at = step]
    <2>4. p.op = q.op /\ p.user = u /\ p.clash = q.clash /\ p.wrote = q.wrote
      BY <1>t DEF RequestType
    <2>5. request' = [request EXCEPT ![r] = p] /\ doubt' = doubt
      BY <2>3 DEF GoOn
    <2> HIDE DEF p
    <2> QED
      BY <2>1, <2>2, <2>4, <2>5, <1>g
  <1>3. CASE InsertRow(r)
    <2>1. q.wrote /\ (~Clashed(r) => keycloak[u].enabled)
      BY <1>3, <1>t DEF InsertRow, At, Achieved
    <2>k. keycloak' = keycloak
      BY <1>3 DEF InsertRow
    <2> DEFINE p == [q EXCEPT !.at = "rollback"]
    <2>2. p.op = q.op /\ p.user = u /\ p.clash = q.clash /\ p.wrote = q.wrote /\ p.at = "rollback"
      BY <1>t DEF RequestType
    <2>3. CASE Succeed(r, q) /\ row'[u].there /\ row'[u].active
      <3>1. /\ request' = [request EXCEPT ![r] = Idle]
            /\ \A v \in Users \ {u} : doubt'[v] = doubt[v]
            /\ Clashed(r) => "active" \in doubt'[u]
        BY <2>3, <1>t, WorkerSucceeds DEF Clashed
      <3>2. ~Clashed(r) => Agree(u)'
        <4>1. keycloak[u].enabled \in BOOLEAN /\ row'[u].active = TRUE
          <5>1. row'[u] \in RowType
            BY <1>t DEF TypeOK
          <5> QED
            BY <5>1, <2>3, <1>t DEF AccountType, RowType
        <4>2. ~Clashed(r) => keycloak'[u].enabled = TRUE
          BY <4>1, <2>1, <2>k
        <4> QED
          BY <4>1, <4>2 DEF Agree
      <3> QED
        BY <3>1, <3>2, <1>e
    <2>4. CASE /\ request' = [request EXCEPT ![r].at = "rollback"]
               /\ doubt' = [doubt EXCEPT ![u] = @ \cup {"account"}]
      <3>1. request' = [request EXCEPT ![r] = p]
        BY <2>4
      <3>2. /\ "active" \in doubt[u] => "active" \in doubt'[u]
            /\ \A v \in Users \ {u} : doubt'[v] = doubt[v]
        BY <2>4, <1>t DEF TypeOK
      <3> HIDE DEF p
      <3> QED
        BY <2>1, <2>2, <3>1, <3>2, <1>g
    <2>5. CASE GoOn(r, q, "rollback")
      <3>1. request' = [request EXCEPT ![r] = p] /\ doubt' = doubt
        BY <2>5 DEF GoOn
      <3> HIDE DEF p
      <3> QED
        BY <2>1, <2>2, <3>1, <1>g
    <2>6. (row'[u].there /\ row'[u].active) \/ GoOn(r, q, "rollback")
      BY <1>3, <1>t DEF InsertRow, TypeOK
    <2> QED
      BY <1>3, <2>3, <2>4, <2>5, <2>6 DEF InsertRow
  <1>4. CASE RollbackAccount(r)
    <2>1. q.wrote
      BY <1>4, <1>t DEF RollbackAccount, At, Achieved
    <2>2. CASE Fail(r, q)
      <3>1. /\ request' = [request EXCEPT ![r] = Idle]
            /\ \A v \in Users \ {u} : doubt'[v] = doubt[v]
            /\ "active" \in doubt'[u]
        BY <2>1, <2>2, <1>0, <1>t, FailWrote
      <3> QED
        BY <3>1, <1>e
    <2>3. CASE request' = [request EXCEPT ![r] = Idle] /\ doubt' = [doubt EXCEPT ![u] = Aspects]
      <3>1. "active" \in doubt'[u] /\ \A v \in Users \ {u} : doubt'[v] = doubt[v]
        BY <2>3, <1>t DEF TypeOK, Aspects
      <3> QED
        BY <2>3, <3>1, <1>e
    <2> QED
      BY <1>4, <2>2, <2>3 DEF RollbackAccount
  <1> QED
    BY <1>1, <1>2, <1>3, <1>4

LEMMA PatchKeeps ==
  ASSUME IInv, TypeOK', NEW r \in Requests, NEW u \in Users, u = request[r].user,
         CompareMail(r) \/ PushMail(r) \/ LoadRow(r) \/ SaveRow(r)
  PROVE  IInv'
  <1> DEFINE q == request[r]
  <1>0. q.op = "patch" /\ q.op \in StatusOps
    BY DEF CompareMail, PushMail, LoadRow, SaveRow, At, StatusOps
  <1>t. /\ TypeOK /\ q \in RequestType /\ q.user = u /\ WorksOn(r, u) /\ Achieved(r)
        /\ keycloak[u] \in AccountType /\ row[u] \in RowType
    BY <1>0, Worker
  <1>s. \A v \in Users \ {u} : SameStatus(v)
    BY <1>t DEF CompareMail, PushMail, LoadRow, SaveRow, SameStatus, TypeOK
  \* Going on with record p.
  <1>g. ASSUME NEW p, request' = [request EXCEPT ![r] = p],
               p.op = q.op, p.user = u, p.clash = q.clash, doubt' = doubt,
               ~Clashed(r) /\ p.at = "save" =>
                 p.loaded.there = row'[u].there /\ p.loaded.active = row'[u].active,
               (Clashed(r) /\ p.wrote) \/ (SameStatus(u) /\ Harmless(r))
        PROVE  IInv'
    <2>1. request'[r] = p
      BY <1>g, <1>t DEF TypeOK
    <2>2. Achieved(r)'
      BY <1>g, <1>0, <2>1 DEF Achieved, Clashed
    <2>3. \/ p.wrote /\ (p.op # "patch" \/ "active" \in p.clash)
          \/ SameStatus(u) /\ Harmless(r)
      BY <1>g DEF Clashed
    <2>4. \A v \in Users \ {u} : SameStatus(v) /\ doubt'[v] = doubt[v]
      BY <1>g, <1>s
    <2> QED
      BY <1>g, <1>t, <2>2, <2>3, <2>4, OwnGoOn
  <1>e. ASSUME request' = [request EXCEPT ![r] = Idle],
               \A v \in Users \ {u} : doubt'[v] = doubt[v],
               "active" \in doubt'[u]
        PROVE  IInv'
    <2>1. \A v \in Users \ {u} : SameStatus(v) /\ doubt'[v] = doubt[v]
      BY <1>e, <1>s
    <2> QED
      BY <1>e, <1>t, <2>1, OwnEnd
  <1>h. (Clashed(r) /\ q.wrote) \/ Harmless(r)
    BY <1>0 DEF Harmless
  <1>1. CASE CompareMail(r)
    <2>1. PICK step \in {"push", "load"} : GoOn(r, q, step)
      BY <1>1 DEF CompareMail
    <2> DEFINE p == [q EXCEPT !.at = step]
    <2>2. /\ p.op = q.op /\ p.user = u /\ p.clash = q.clash /\ p.wrote = q.wrote
          /\ p.at # "save"
      BY <1>t DEF RequestType
    <2>3. request' = [request EXCEPT ![r] = p] /\ doubt' = doubt
      BY <2>1 DEF GoOn
    <2>4. SameStatus(u)
      BY <1>1 DEF CompareMail, SameStatus
    <2> HIDE DEF p
    <2>7. (Clashed(r) /\ p.wrote) \/ (SameStatus(u) /\ Harmless(r))
      BY <2>2, <2>4, <1>h
    <2> HIDE DEF p
    <2> QED
      BY <2>2, <2>3, <2>7, <1>g
  <1>2. CASE PushMail(r)
    <2> DEFINE w == [q EXCEPT !.sent = TRUE]
               p == [w EXCEPT !.wrote = TRUE, !.at = "load"]
    <2>1. w \in RequestType /\ w.op = q.op /\ w.user = u /\ w.clash = q.clash
      BY <1>t DEF RequestType
    <2>2. /\ p.op = q.op /\ p.user = u /\ p.clash = q.clash /\ p.wrote
          /\ p.at # "save"
      BY <1>t DEF RequestType
    <2>3. SameStatus(u)
      BY <1>2, <1>t DEF PushMail, SameStatus, TypeOK, AccountType
    <2>4. Effect(r, w, "load")
      BY <1>2 DEF PushMail
    <2> HIDE DEF w
    <2>5. \/ request' = [request EXCEPT ![r] = p] /\ doubt' = doubt
          \/ /\ request' = [request EXCEPT ![r] = Idle]
             /\ \A v \in Users \ {u} : doubt'[v] = doubt[v]
             /\ "active" \in doubt'[u]
      BY <2>1, <2>4, <1>0, <1>t, WorkerEffect
    <2> HIDE DEF p
    <2>6. CASE request' = [request EXCEPT ![r] = p] /\ doubt' = doubt
      <3>1. (Clashed(r) /\ p.wrote) \/ (SameStatus(u) /\ Harmless(r))
        BY <2>2, <2>3, <1>h DEF Harmless
      <3> QED
        BY <2>6, <2>2, <3>1, <1>g
    <2> QED
      BY <2>5, <2>6, <1>e
  <1>3. CASE LoadRow(r)
    <2> DEFINE w == [q EXCEPT !.loaded = row[u]]  p == [w EXCEPT !.at = "save"]
    <2>2. /\ p.op = q.op /\ p.user = u /\ p.clash = q.clash /\ p.wrote = q.wrote
          /\ p.loaded = row[u]
      BY <1>t DEF RequestType
    <2>3. request' = [request EXCEPT ![r] = p] /\ doubt' = doubt /\ row' = row
      BY <1>3, <1>t DEF LoadRow, GoOn
    <2>4. SameStatus(u)
      BY <1>3 DEF LoadRow, SameStatus
    <2> HIDE DEF p
    <2>7. (Clashed(r) /\ p.wrote) \/ (SameStatus(u) /\ Harmless(r))
      BY <2>2, <2>4, <1>h
    <2> HIDE DEF p
    <2> QED
      BY <2>2, <2>3, <2>7, <1>g
  <1>4. CASE SaveRow(r)
    <2> DEFINE p == [q EXCEPT !.wrote = TRUE, !.at = "forget"]
    <2>2. /\ p.op = q.op /\ p.user = u /\ p.clash = q.clash /\ p.wrote
          /\ p.at # "save"
      BY <1>t DEF RequestType
    <2>3. ~Clashed(r) => SameStatus(u)
      <3>1. ~Clashed(r) =>
              q.loaded.there = row[u].there /\ q.loaded.active = row[u].active
        BY <1>4, <1>0, <1>t DEF SaveRow, At, Achieved
      <3>2. row'[u].there = q.loaded.there /\ row'[u].active = q.loaded.active
        <4>1. q.loaded \in RowType
          BY RequestTyped, <1>t
        <4> QED
          BY <4>1, <1>4, <1>t DEF SaveRow, TypeOK, RowType
      <3> QED
        BY <3>1, <3>2, <1>4 DEF SaveRow, SameStatus
    <2>5. \/ request' = [request EXCEPT ![r] = p] /\ doubt' = doubt
          \/ /\ request' = [request EXCEPT ![r] = Idle]
             /\ \A v \in Users \ {u} : doubt'[v] = doubt[v]
             /\ "active" \in doubt'[u]
      BY <1>4, <1>0, <1>t, WorkerEffect DEF SaveRow
    <2> HIDE DEF p
    <2>6. CASE request' = [request EXCEPT ![r] = p] /\ doubt' = doubt
      <3>1. (Clashed(r) /\ p.wrote) \/ (SameStatus(u) /\ Harmless(r))
        BY <2>2, <2>3, <1>h DEF Harmless
      <3> QED
        BY <2>6, <2>2, <3>1, <1>g
    <2> QED
      BY <2>5, <2>6, <1>e
  <1> QED
    BY <1>1, <1>2, <1>3, <1>4

LEMMA StatusKeeps ==
  ASSUME IInv, TypeOK', NEW r \in Requests, NEW u \in Users, u = request[r].user,
         SetEnabled(r) \/ RevokeSessions(r) \/ StoreStatus(r)
  PROVE  IInv'
  <1> DEFINE q == request[r]
  <1>0. q.op = "status" /\ q.op \in StatusOps
    BY DEF SetEnabled, RevokeSessions, StoreStatus, At, StatusOps
  <1>t. /\ TypeOK /\ q \in RequestType /\ q.user = u /\ WorksOn(r, u) /\ Achieved(r)
        /\ keycloak[u] \in AccountType /\ row[u] \in RowType
    BY <1>0, Worker
  <1>s. \A v \in Users \ {u} : SameStatus(v)
    BY <1>t DEF SetEnabled, RevokeSessions, StoreStatus, SameStatus, TypeOK
  <1> DEFINE step == NextCall(q)
             p == [q EXCEPT !.wrote = TRUE, !.at = step]
  <1>p. /\ p.op = q.op /\ p.user = u /\ p.clash = q.clash /\ p.wrote /\ p.at = step
        /\ p.active = q.active
    BY <1>t DEF RequestType
  <1>n. /\ q.at = "enable" => step = IF q.active THEN "store" ELSE "revoke"
        /\ q.at = "revoke" => step = "store" /\ ~q.active
        /\ q.at = "store" => step = "forget"
        /\ q.at \in {"enable", "revoke", "store"}
    <2>1. q.at \in {"enable", "revoke", "store"} /\ (q.at = "revoke" => ~q.active)
      BY DEF SetEnabled, RevokeSessions, StoreStatus, At
    <2> QED
      BY <2>1, <1>t, NextCallOf
  <1>f. Effect(r, q, step)
    BY DEF SetEnabled, RevokeSessions, StoreStatus
  <1> HIDE DEF step
  <1>1. \/ request' = [request EXCEPT ![r] = p] /\ doubt' = doubt
        \/ /\ request' = [request EXCEPT ![r] = Idle]
           /\ \A v \in Users \ {u} : doubt'[v] = doubt[v]
           /\ "active" \in doubt'[u]
    BY <1>f, <1>0, <1>t, WorkerEffect
  <1> HIDE DEF p
  <1>2. CASE /\ request' = [request EXCEPT ![r] = Idle]
             /\ \A v \in Users \ {u} : doubt'[v] = doubt[v]
             /\ "active" \in doubt'[u]
    <2>1. \A v \in Users \ {u} : SameStatus(v) /\ doubt'[v] = doubt[v]
      BY <1>2, <1>s
    <2> QED
      BY <1>2, <1>t, <2>1, OwnEnd
  <1>3. CASE request' = [request EXCEPT ![r] = p] /\ doubt' = doubt
    <2>1. request'[r] = p
      BY <1>3, <1>t DEF TypeOK
    <2>2. ASSUME ~Clashed(r)
          PROVE  /\ p.at \in {"revoke", "store", "forget"} => keycloak'[u].enabled = q.active
                 /\ p.at \in {"store", "forget"} /\ ~q.active => sessions'[u] = {}
                 /\ p.at = "forget" => row'[u].active = q.active
      <3>1. CASE SetEnabled(r)
        <4>1. q.at = "enable"
          BY <3>1 DEF SetEnabled, At
        <4>2. keycloak'[u].enabled = q.active
          BY <3>1, <1>t DEF SetEnabled, TypeOK
        <4> QED
          BY <4>1, <4>2, <1>n, <1>p
      <3>2. CASE RevokeSessions(r)
        <4>1. q.at = "revoke" /\ keycloak' = keycloak
          BY <3>2 DEF RevokeSessions, At
        <4>2. sessions'[u] = {}
          BY <3>2, <1>t DEF RevokeSessions, TypeOK
        <4>3. keycloak[u].enabled = q.active
          BY <4>1, <2>2, <1>0, <1>t DEF Achieved
        <4> QED
          BY <4>1, <4>2, <4>3, <1>n, <1>p
      <3>3. CASE StoreStatus(r)
        <4>1. q.at = "store" /\ keycloak' = keycloak /\ sessions' = sessions
          BY <3>3 DEF StoreStatus, At
        <4>2. row'[u].active = q.active
          BY <3>3, <1>t DEF StoreStatus, TypeOK, RowType
        <4>3. keycloak[u].enabled = q.active /\ (~q.active => sessions[u] = {})
          BY <4>1, <2>2, <1>0, <1>t DEF Achieved
        <4> QED
          BY <4>1, <4>2, <4>3, <1>n, <1>p
      <3> QED
        BY <3>1, <3>2, <3>3
    <2>3. Achieved(r)'
      BY <2>1, <2>2, <1>0, <1>p DEF Achieved, Clashed
    <2>4. \A v \in Users \ {u} : SameStatus(v) /\ doubt'[v] = doubt[v]
      BY <1>3, <1>s
    <2> QED
      BY <1>3, <1>0, <1>t, <1>p, <2>3, <2>4, OwnGoOn
  <1> QED
    BY <1>1, <1>2, <1>3

\* A worker whose call is refused before it changed anything leaves no trace.
LEMMA RefusedKeeps ==
  ASSUME IInv, TypeOK', NEW r \in Requests, Refused(r)
  PROVE  IInv'
  <1> DEFINE q == request[r]
  <1>0. Fail(r, q) /\ UNCHANGED <<keycloak, sessions, row, cache, arrived>>
    BY DEF Refused
  <1>t. TypeOK /\ q \in RequestType /\ q.user \in Users
    BY RequestTyped DEF IInv
  <1>s. \A v \in Users : SameStatus(v)
    BY <1>0 DEF SameStatus
  <1>1. CASE q.op \notin StatusOps
    BY <1>0, <1>1, <1>t, <1>s, OtherOutcome, OtherStep
  <1>2. CASE q.op \in StatusOps
    <2>0. PICK u \in Users : u = request[r].user
      BY <1>t
    <2>1. /\ request' = [request EXCEPT ![r] = Idle]
          /\ \A v \in Users \ {u} : doubt'[v] = doubt[v]
          /\ \/ "active" \in doubt'[u]
             \/ ~q.wrote /\ doubt'[u] = doubt[u]
      <3>1. CASE q.wrote
        BY <3>1, <2>0, <1>0, <1>2, <1>t, FailWrote
      <3>2. CASE ~q.wrote
        BY <3>2, <2>0, <1>0, <1>t DEF Fail, TypeOK
      <3> QED
        BY <3>1, <3>2
    <2>2. WorksOn(r, u)
      BY <2>0, <1>2 DEF WorksOn
    <2>3. \A v \in Users \ {u} : SameStatus(v) /\ doubt'[v] = doubt[v]
      BY <2>1, <1>s
    <2>4. \/ "active" \in doubt'[u]
          \/ /\ Harmless(r) /\ SameStatus(u)
             /\ "active" \in doubt[u] => "active" \in doubt'[u]
      BY <2>1, <1>s DEF Harmless
    <2> QED
      BY <2>1, <2>2, <2>3, <2>4, OwnEnd
  <1> QED
    BY <1>1, <1>2

LEMMA DropCopyKeeps ==
  ASSUME IInv, TypeOK', NEW r \in Requests, DropCopy(r)
  PROVE  IInv'
  <1> DEFINE q == request[r]  w == [q EXCEPT !.wrote = TRUE]
  <1>0. /\ q.op \in {"patch", "status", "roles"} /\ q.at = "forget"
        /\ LastEffect(r, q) /\ UNCHANGED <<keycloak, sessions, row, arrived>>
    BY DEF DropCopy
  <1>t. TypeOK /\ q \in RequestType /\ q.user \in Users
    BY RequestTyped DEF IInv
  <1>s. \A v \in Users : SameStatus(v)
    BY <1>0 DEF SameStatus
  <1>1. CASE q.op = "roles"
    BY <1>0, <1>1, <1>t, <1>s, OtherOutcome, OtherStep DEF StatusOps
  <1>2. CASE q.op \in {"patch", "status"}
    <2>0. PICK u \in Users : u = request[r].user
      BY <1>t
    <2>1. WorksOn(r, u)
      BY <2>0, <1>2 DEF WorksOn, StatusOps
    <2>2. /\ w \in RequestType /\ w.op = q.op /\ w.user = u /\ w.clash = q.clash /\ w.wrote
          /\ w.op \in StatusOps
      BY <2>0, <1>2, <1>t DEF RequestType, StatusOps
    <2>3. Succeed(r, w) \/ Fail(r, w)
      BY <1>0 DEF LastEffect
    <2> HIDE DEF w
    <2>4. CASE Fail(r, w)
      <3>1. /\ request' = [request EXCEPT ![r] = Idle] /\ "active" \in doubt'[u]
            /\ \A v \in Users \ {u} : doubt'[v] = doubt[v]
        BY <2>2, <2>4, <1>t, FailWrote
      <3> QED
        BY <3>1, <2>1, <1>s, OwnEnd
    <2>5. CASE Succeed(r, w)
      <3>1. /\ request' = [request EXCEPT ![r] = Idle]
            /\ \A v \in Users \ {u} : doubt'[v] = doubt[v]
            /\ Clashed(r) => "active" \in doubt'[u]
            /\ q.op = "patch" /\ "active" \in doubt[u] => "active" \in doubt'[u]
        BY <2>2, <2>5, <1>t, WorkerSucceeds DEF Clashed
      <3>2. CASE Clashed(r)
        BY <3>1, <3>2, <2>1, <1>s, OwnEnd
      <3>3. CASE ~Clashed(r) /\ q.op = "patch"
        <4>1. Harmless(r)
          BY <3>3 DEF Harmless
        <4> QED
          BY <3>1, <3>3, <4>1, <2>1, <1>s, OwnEnd
      <3>4. CASE ~Clashed(r) /\ q.op = "status"
        <4>1. Achieved(r)
          BY <2>1 DEF IInv, Kept
        <4>2. /\ keycloak[u].enabled = q.active /\ row[u].active = q.active
              /\ ~q.active => sessions[u] = {}
          BY <4>1, <3>4, <2>0, <1>0 DEF Achieved
        <4>3. Agree(u)'
          BY <4>2, <1>0 DEF Agree
        <4> QED
          BY <3>1, <4>3, <2>1, <1>s, OwnEnd
      <3> QED
        BY <3>2, <3>3, <3>4, <1>2
    <2> QED
      BY <2>3, <2>4, <2>5
  <1> QED
    BY <1>0, <1>1, <1>2

\* Reads, changes of roles and logins: a session is opened only for an account
\* that is enabled.
LEMMA OthersKeep ==
  ASSUME IInv, TypeOK', NEW r \in Requests,
         \/ LoadForCache(r) \/ FillCache(r) \/ ListRoles(r) \/ RemoveRoles(r)
         \/ AssignRoles(r) \/ StoreRoles(r) \/ FindByUsername(r) \/ RecordLogin(r)
         \/ \E s \in Sessions : IssueToken(r, s)
  PROVE  IInv'
  <1> DEFINE q == request[r]  u == request[r].user
  <1>t. /\ TypeOK /\ q \in RequestType /\ u \in Users /\ keycloak[u] \in AccountType
        /\ row[u] \in RowType
    BY RequestTyped, StoresTyped DEF IInv
  <1>0. q.op \in {"read", "roles", "login"} /\ q.op \notin StatusOps
    BY DEF LoadForCache, FillCache, ListRoles, RemoveRoles, AssignRoles, StoreRoles,
           FindByUsername, RecordLogin, IssueToken, At, StatusOps
  <1>s. ASSUME NEW v \in Users
        PROVE  SameStatus(v)
    <2>1. CASE LoadForCache(r) \/ FillCache(r) \/ ListRoles(r) \/ FindByUsername(r)
      BY <2>1 DEF LoadForCache, FillCache, ListRoles, FindByUsername, SameStatus
    <2>2. CASE RemoveRoles(r) \/ AssignRoles(r)
      BY <2>2, <1>t DEF RemoveRoles, AssignRoles, SameStatus, TypeOK
    <2>3. CASE StoreRoles(r) \/ RecordLogin(r)
      <3>1. row' = [row EXCEPT ![u].roles = q.roles] /\ UNCHANGED <<keycloak, sessions>>
        BY <2>3 DEF StoreRoles, RecordLogin
      <3>2. row'[v].there = row[v].there /\ row'[v].active = row[v].active
        <4>1. row \in [Users -> RowType]
          BY <1>t DEF TypeOK
        <4>2. row'[v] = IF v = u THEN [row[v] EXCEPT !.roles = q.roles] ELSE row[v]
          BY <3>1, <4>1
        <4>3. row[v] \in RowType
          BY <4>1
        <4> QED
          BY <4>2, <4>3 DEF RowType
      <3> QED
        BY <3>1, <3>2 DEF SameStatus
    <2>4. ASSUME NEW s \in Sessions, IssueToken(r, s)
          PROVE  SameStatus(v)
      BY <2>4, <1>t DEF IssueToken, SameStatus, TypeOK
    <2> QED
      BY <2>1, <2>2, <2>3, <2>4
  <1>1. \E p \in RequestType, step \in Steps :
          /\ p.op = q.op
          /\ \/ GoOn(r, p, step) \/ Fail(r, p) \/ Effect(r, p, step) \/ LastEffect(r, p)
    <2>1. CASE LoadForCache(r)
      <3> DEFINE p == [q EXCEPT !.loaded = row[u]]
      <3>1. p \in RequestType /\ p.op = q.op
        BY <1>t DEF RequestType
      <3>2. GoOn(r, p, "fill") /\ "fill" \in Steps
        BY <2>1 DEF LoadForCache, Steps
      <3> HIDE DEF p
      <3> QED
        BY <3>1, <3>2
    <2>2. CASE FillCache(r) \/ RecordLogin(r)
      <3>1. LastEffect(r, q) /\ "idle" \in Steps
        BY <2>2 DEF FillCache, RecordLogin, Steps
      <3> QED
        BY <3>1, <1>t
    <2>3. CASE ListRoles(r)
      <3> DEFINE p == [q EXCEPT !.loaded.roles = keycloak[u].roles \cap AllowedRealmRoles]
      <3>1. p \in RequestType /\ p.op = q.op
        BY <1>t DEF RequestType, RowType
      <3>2. GoOn(r, p, "remove") /\ "remove" \in Steps
        BY <2>3 DEF ListRoles, Steps
      <3> HIDE DEF p
      <3> QED
        BY <3>1, <3>2
    <2>4. CASE RemoveRoles(r) \/ AssignRoles(r) \/ StoreRoles(r)
      <3>1. \E step \in Steps : GoOn(r, q, step) \/ Effect(r, q, step)
        BY <2>4 DEF RemoveRoles, AssignRoles, StoreRoles, Steps
      <3> QED
        BY <3>1, <1>t
    <2>5. CASE FindByUsername(r)
      <3> DEFINE roles == IF q.roles = {} THEN row[u].roles ELSE q.roles \cup {"user"}
                 p == [q EXCEPT !.roles = roles]
      <3>1. roles \subseteq AllowedRealmRoles
        BY <1>t, RequestTyped DEF RowType, AllowedRealmRoles
      <3>2. p \in RequestType /\ p.op = q.op
        BY <3>1, <1>t DEF RequestType
      <3>3. GoOn(r, p, "record") /\ "record" \in Steps
        BY <2>5 DEF FindByUsername, Steps
      <3> HIDE DEF p
      <3> QED
        BY <3>2, <3>3
    <2>6. ASSUME NEW s \in Sessions, IssueToken(r, s)
          PROVE  \E p \in RequestType, step \in Steps :
                   p.op = q.op /\ (GoOn(r, p, step) \/ Fail(r, p))
      <3> DEFINE held == "user" \in keycloak[u].roles
                 p == [q EXCEPT !.roles = keycloak[u].roles, !.sent = held]
      <3>0. \A R \in SUBSET AllowedRealmRoles, b \in BOOLEAN :
              /\ [q EXCEPT !.roles = R, !.sent = b] \in RequestType
              /\ [q EXCEPT !.roles = R, !.sent = b].op = q.op
        BY ZenonT(60), <1>t DEF RequestType
      <3>1. keycloak[u].roles \in SUBSET AllowedRealmRoles /\ held \in BOOLEAN
        BY <1>t DEF AccountType
      <3>2. (GoOn(r, p, "find") \/ Fail(r, q)) /\ "find" \in Steps
        BY <2>6 DEF IssueToken, Steps
      <3> HIDE DEF held
      <3>3. p \in RequestType /\ p.op = q.op
        BY <3>0, <3>1
      <3> HIDE DEF p
      <3> QED
        BY <3>2, <3>3, <1>t
    <2> QED
      BY <2>1, <2>2, <2>3, <2>4, <2>5, <2>6
  <1>2. PICK p \in RequestType, step \in Steps :
          /\ p.op = q.op
          /\ \/ GoOn(r, p, step) \/ Fail(r, p) \/ Effect(r, p, step) \/ LastEffect(r, p)
    BY <1>1
  <1>3. /\ \A v \in Users : "active" \in doubt[v] => "active" \in doubt'[v]
        /\ \A s \in Requests : \/ request'[s] = request[s]
                               \/ request[s].op \notin StatusOps
                                  /\ request'[s].op \notin StatusOps
    BY <1>0, <1>2, <1>t, OtherOutcome
  <1> QED
    BY <1>s, <1>3, OtherStep

LEMMA BeginKeeps ==
  ASSUME IInv, TypeOK', NEW r \in Requests, NEW u \in Users, Begin(r, u)
  PROVE  IInv'
  <1>0. UNCHANGED <<keycloak, sessions, row, cache, doubt>>
    BY DEF Begin, BeginCreate, BeginRead, BeginPatch, BeginStatus, BeginRoles, BeginLogin
  <1>1. \E q \in RequestType :
          /\ Start(r, q) /\ ~q.wrote
          /\ q.op \in StatusOps => q.at \in {"account", "load", "compare", "enable"}
    <2> DEFINE Fits(q) == /\ q \in RequestType /\ ~q.wrote
                          /\ q.op \in StatusOps =>
                               q.at \in {"account", "load", "compare", "enable"}
    <2>1. ASSUME NEW m \in Mails, NEW phone \in Phones
          PROVE  Fits([Idle EXCEPT !.op = "create", !.user = u, !.at = "account",
                                   !.mail = m, !.phone = phone])
      BY IdleType, DirectoryAssumption DEF RequestType, Idle
    <2>2. Fits([Idle EXCEPT !.op = "read", !.user = u, !.at = "load"])
      BY IdleType DEF RequestType, Idle
    <2>3. ASSUME NEW m \in Mails \cup {NoMail}, NEW phone \in Phones
          PROVE  Fits([Idle EXCEPT !.op = "patch", !.user = u, !.mail = m, !.phone = phone,
                                   !.at = IF m = NoMail THEN "load" ELSE "compare"])
      BY ZenonT(60), IdleType, DirectoryAssumption DEF RequestType, Idle
    <2>4. ASSUME NEW active \in BOOLEAN
          PROVE  Fits([Idle EXCEPT !.op = "status", !.user = u, !.active = active,
                                   !.at = Head(StatusCalls(active))])
      <3>1. Head(StatusCalls(active)) = "enable"
        BY DEF StatusCalls
      <3> QED
        BY <3>1, IdleType DEF RequestType, Idle
    <2>5. ASSUME NEW roles \in SUBSET AllowedRealmRoles
          PROVE  Fits([Idle EXCEPT !.op = "roles", !.user = u, !.roles = roles \cup {"user"},
                                   !.at = "list"])
      <3>1. roles \cup {"user"} \subseteq AllowedRealmRoles
        BY DEF AllowedRealmRoles
      <3> QED
        BY <3>1, IdleType DEF RequestType, Idle, StatusOps
    <2>6. Fits([Idle EXCEPT !.op = "login", !.user = u, !.at = "token"])
      BY IdleType DEF RequestType, Idle, StatusOps
    <2>7. \E q : Fits(q) /\ Start(r, q)
      <3> HIDE DEF Fits
      <3> QED
        BY <2>1, <2>2, <2>3, <2>4, <2>5, <2>6
        DEF Begin, BeginCreate, BeginRead, BeginPatch, BeginStatus, BeginRoles, BeginLogin
    <2> QED
      BY <2>7
  <1> QED
    BY <1>0, <1>1, StartKeeps

\* A crash puts in doubt the users of every worker that had written something.
LEMMA CrashKeeps ==
  ASSUME IInv, TypeOK', Crash
  PROVE  IInv'
  <1>t. TypeOK
    BY DEF IInv
  <1>0. UNCHANGED <<keycloak, sessions, row, cache, arrived>>
    BY DEF Crash
  <1>1. \A s \in Requests, v \in Users : ~WorksOn(s, v)'
    BY DEF Crash, WorksOn, Idle, StatusOps
  <1>2. ASSUME NEW v \in Users
        PROVE  Kept(v)'
    <2>1. Overlaps(v)'
      BY <1>1 DEF Overlaps
    <2>2. ASSUME "active" \notin doubt'[v]
          PROVE  Agree(v)'
      <3>1. doubt'[v] = doubt[v] \cup
              UNION {Touches(request[s].op) : s \in {o \in Busy(v) : request[o].wrote}}
        BY DEF Crash
      <3>2. ASSUME NEW s \in Requests, WorksOn(s, v)
            PROVE  Harmless(s)
        <4>1. s \in Busy(v) /\ "active" \in Touches(request[s].op)
          BY <3>2, RequestTyped, <1>t, TouchesActive DEF WorksOn, Busy, StatusOps
        <4>2. ~request[s].wrote
          BY <4>1, <3>1, <2>2
        <4> QED
          BY <4>2 DEF Harmless
      <3>3. Undisturbed(v)
        BY DEF IInv, Kept
      <3>4. Agree(v)
        BY <3>1, <3>2, <3>3, <2>2 DEF Undisturbed
      <3> QED
        BY <3>4, <1>0 DEF Agree
    <2>3. Undisturbed(v)'
      BY <2>2 DEF Undisturbed
    <2> QED
      BY <1>1, <2>1, <2>3 DEF Kept
  <1> QED
    BY <1>2 DEF IInv

\* A user whose deactivation went through is out, for any number of users and
\* of requests that overlap, fail, lose their answers or die with the process:
\* Keycloak says what the row says, and an inactive user has no open session.
THEOREM DeactivatedIsOut == Spec => []InactiveIsOut
  <1>1. Init => IInv
    <2> SUFFICES ASSUME Init
                 PROVE  IInv
      OBVIOUS
    <2>1. TypeOK
      BY IdleType, NoRowType, DirectoryAssumption
      DEF Init, TypeOK, NoAccount, NoCopy, Copy, RowType
    <2>2. \A s \in Requests, v \in Users : ~WorksOn(s, v)
      BY DEF Init, WorksOn, Idle, StatusOps
    <2>3. \A v \in Users : Agree(v)
      BY DEF Init, Agree, NoRow
    <2> QED
      BY <2>1, <2>2, <2>3 DEF IInv, Kept, Overlaps, Undisturbed
  <1>2. TypeOK' /\ IInv /\ [Next]_vars => IInv'
    <2> SUFFICES ASSUME TypeOK', IInv, [Next]_vars
                 PROVE  IInv'
      OBVIOUS
    <2>0. \A s \in Requests : request[s].user \in Users
      BY RequestTyped DEF IInv
    <2>1. ASSUME NEW r \in Requests, NEW u \in Users, Begin(r, u)
          PROVE  IInv'
      BY <2>1, BeginKeeps
    <2>2. ASSUME NEW r \in Requests, Step(r)
          PROVE  IInv'
      <3>1. CASE CreateAccount(r) \/ GrantFirstRole(r) \/ InsertRow(r) \/ RollbackAccount(r)
        BY <3>1, <2>0, CreateKeeps
      <3>2. CASE CompareMail(r) \/ PushMail(r) \/ LoadRow(r) \/ SaveRow(r)
        BY <3>2, <2>0, PatchKeeps
      <3>3. CASE SetEnabled(r) \/ RevokeSessions(r) \/ StoreStatus(r)
        BY <3>3, <2>0, StatusKeeps
      <3>4. CASE DropCopy(r)
        BY <3>4, DropCopyKeeps
      <3>5. CASE Refused(r)
        BY <3>5, RefusedKeeps
      <3> QED
        BY <2>2, <3>1, <3>2, <3>3, <3>4, <3>5, OthersKeep DEF Step
    <2>3. ASSUME NEW u \in Users, Expire(u)
          PROVE  IInv'
      <3>1. \A v \in Users : SameStatus(v)
        BY <2>3 DEF Expire, SameStatus
      <3>2. \A v \in Users : "active" \in doubt[v] => "active" \in doubt'[v]
        BY <2>3 DEF Expire, IInv, TypeOK
      <3>3. \A s \in Requests : request'[s] = request[s]
        BY <2>3 DEF Expire
      <3> QED
        BY <3>1, <3>2, <3>3, OtherStep
    <2>4. ASSUME NEW u \in Users, EndAllSessions(u) \/ \E s \in Sessions : EndSession(u, s)
          PROVE  IInv'
      <3>1. request' = request /\ doubt' = doubt /\ keycloak' = keycloak /\ row' = row
        BY <2>4 DEF EndAllSessions, EndSession
      <3>2. ASSUME NEW v \in Users
            PROVE  Kept(v)'
        <4>1. sessions'[v] \subseteq sessions[v]
          BY <2>4 DEF EndAllSessions, EndSession, IInv, TypeOK
        <4>2. Kept(v)
          BY DEF IInv
        <4> QED
          BY <3>1, <4>1, <4>2
          DEF Kept, Overlaps, Undisturbed, Agree, Achieved, WorksOn, Harmless, Clashed
      <3> QED
        BY <3>2 DEF IInv
    <2>5. ASSUME Crash
          PROVE  IInv'
      BY <2>5, CrashKeeps
    <2>6. CASE UNCHANGED vars
      BY <2>6 DEF vars, IInv, TypeOK, Kept, Overlaps, Undisturbed, Agree, Achieved, WorksOn,
                  Harmless, Clashed
    <2> QED
      BY <2>1, <2>2, <2>3, <2>4, <2>5, <2>6 DEF Next
  <1>3. IInv => InactiveIsOut
    <2> SUFFICES ASSUME IInv, NEW u \in Users, Settled(u, "active")
                 PROVE  Agree(u)
      BY DEF InactiveIsOut, Agree
    <2>1. ASSUME NEW r \in Requests
          PROVE  ~WorksOn(r, u)
      <3>1. request[r].op \in Ops
        BY RequestTyped DEF IInv
      <3> QED
        BY <3>1, TouchesActive DEF Settled, Busy, WorksOn, StatusOps
    <2>2. Undisturbed(u)
      BY DEF IInv, Kept
    <2> QED
      BY <2>1, <2>2 DEF Undisturbed, Settled
  <1> QED
    BY <1>1, <1>2, <1>3, DirectoryTypes, PTL DEF Spec

-----------------------------------------------------------------------------
(***************************************************************************)
(* What a call of request r, whose record is q and whose user is u, does,  *)
(* store by store.                                                         *)
(***************************************************************************)

\* Nobody else is concerned.
OnlyHere(r, u) ==
  /\ \A s \in Requests \ {r} : request'[s] = request[s]
  /\ \A v \in Users \ {u} : /\ keycloak'[v] = keycloak[v] /\ row'[v] = row[v]
                            /\ cache'[v] = cache[v] /\ doubt'[v] = doubt[v]

\* Nobody else's request moves and nobody else's doubts.
Rests(r, u) ==
  /\ \A s \in Requests \ {r} : request'[s] = request[s]
  /\ \A v \in Users \ {u} : doubt'[v] = doubt[v]

\* The request is at the given step now.
Goes(r, q, step) == LET p == request'[r] IN
  /\ p.op = q.op /\ p.user = q.user /\ p.at = step /\ p.active = q.active
  /\ p.mail = q.mail /\ p.clash = q.clash

\* It goes on, with what it knew and had done before, or having done more.
GoesOn(r, u, q, step) ==
  /\ Goes(r, q, step) /\ doubt'[u] = doubt[u]
  /\ request'[r].roles = q.roles /\ request'[r].loaded = q.loaded
  /\ request'[r].sent = q.sent /\ request'[r].wrote = q.wrote

GoesWritten(r, u, q, step) ==
  /\ Goes(r, q, step) /\ doubt'[u] = doubt[u]
  /\ request'[r].roles = q.roles /\ request'[r].loaded = q.loaded
  /\ request'[r].sent = q.sent /\ request'[r].wrote

\* It breaks off after it changed something, or before that.
Breaks(r, u, q) ==
  /\ request'[r] = Idle
  /\ \A a : a \in doubt'[u] <=> a \in doubt[u] \/ a \in Touches(q.op) \ {"account"}

Quits(r, u) == request'[r] = Idle /\ doubt'[u] = doubt[u]

\* What a request that succeeds leaves in agreement.
Final(q, a) ==
  \/ q.op = "create" /\ a \in Aspects
  \/ q.op \in {"read", "patch", "status", "roles"} /\ a = "cache"
  \/ q.op = "patch" /\ q.sent /\ a = "mail"
  \/ q.op = "status" /\ a = "active"
  \/ q.op = "roles" /\ a = "roles"
  \/ q.op = "login" /\ q.sent /\ a = "roles"

\* It succeeds.
Ends(r, u, q) ==
  /\ request'[r] = Idle
  /\ \A a : a \in doubt'[u] <=>
              \/ a \in doubt[u] /\ ~Final(q, a)
              \/ a \in q.clash
              \/ q.op = "login" /\ "roles" \in doubt[u] /\ a = "cache"

LEMMA GoOnMeans ==
  ASSUME TypeOK, NEW r \in Requests, NEW q \in RequestType, NEW u \in Users, NEW step,
         GoOn(r, q, step)
  PROVE  Rests(r, u) /\ GoesOn(r, u, q, step)
  <1>1. /\ request'[r] = [q EXCEPT !.at = step] /\ doubt' = doubt
        /\ \A s \in Requests \ {r} : request'[s] = request[s]
    BY DEF GoOn, TypeOK
  <1> QED
    BY <1>1 DEF Rests, GoesOn, Goes, RequestType

LEMMA FailMeans ==
  ASSUME TypeOK, NEW r \in Requests, NEW q \in RequestType, NEW u \in Users, u = q.user,
         Fail(r, q)
  PROVE  Rests(r, u) /\ IF q.wrote THEN Breaks(r, u, q) ELSE Quits(r, u)
  BY DEF Fail, Rests, Breaks, Quits, TypeOK

LEMMA SettlesFinal ==
  ASSUME NEW q \in RequestType, q.op \in {"create", "patch", "status", "roles", "login"} \/ q.wrote,
         q.op # "none", NEW a
  PROVE  a \in Settles(q) <=> Final(q, a)
  BY DEF Settles, Final, RequestType

LEMMA SucceedMeans ==
  ASSUME TypeOK, NEW r \in Requests, NEW q \in RequestType, NEW u \in Users, u = q.user,
         q.op # "none", q.op = "read" => q.wrote, Succeed(r, q)
  PROVE  Rests(r, u) /\ Ends(r, u, q)
  <1>1. \A a : a \in Settles(q) <=> Final(q, a)
    BY SettlesFinal DEF RequestType
  <1>2. /\ request' = [request EXCEPT ![r] = Idle]
        /\ doubt' = [doubt EXCEPT ![u] =
             (@ \ Settles(q)) \cup q.clash
               \cup (IF q.op = "login" /\ "roles" \in @ THEN {"cache"} ELSE {})]
    BY DEF Succeed
  <1>3. Rests(r, u) /\ request'[r] = Idle
    BY <1>2 DEF Rests, TypeOK
  <1>4. doubt'[u] = (doubt[u] \ Settles(q)) \cup q.clash
                      \cup (IF q.op = "login" /\ "roles" \in doubt[u] THEN {"cache"} ELSE {})
    BY <1>2 DEF TypeOK
  <1> QED
    BY <1>1, <1>3, <1>4 DEF Ends

LEMMA Written ==
  ASSUME NEW q \in RequestType, NEW w, w = [q EXCEPT !.wrote = TRUE]
  PROVE  /\ w \in RequestType /\ w.wrote
         /\ w.op = q.op /\ w.user = q.user /\ w.active = q.active
         /\ w.roles = q.roles /\ w.mail = q.mail /\ w.loaded = q.loaded
         /\ w.sent = q.sent /\ w.clash = q.clash
  BY DEF RequestType

LEMMA EffectMeans ==
  ASSUME TypeOK, NEW r \in Requests, NEW q \in RequestType, NEW u \in Users, u = q.user,
         NEW step, Effect(r, q, step)
  PROVE  Rests(r, u) /\ (GoesWritten(r, u, q, step) \/ Breaks(r, u, q))
  <1>1. PICK w : w = [q EXCEPT !.wrote = TRUE]
    OBVIOUS
  <1>2. GoOn(r, w, step) \/ Fail(r, w)
    BY <1>1 DEF Effect
  <1>3. CASE GoOn(r, w, step)
    <2>1. Rests(r, u) /\ GoesOn(r, u, w, step)
      BY <1>1, <1>3, Written, GoOnMeans
    <2> QED
      BY <2>1, <1>1, Written DEF GoesOn, GoesWritten, Goes
  <1>4. CASE Fail(r, w)
    <2>1. Rests(r, u) /\ Breaks(r, u, w)
      BY <1>1, <1>4, Written, FailMeans
    <2> QED
      BY <2>1, <1>1, Written DEF Breaks
  <1> QED
    BY <1>2, <1>3, <1>4

LEMMA LastEffectMeans ==
  ASSUME TypeOK, NEW r \in Requests, NEW q \in RequestType, NEW u \in Users, u = q.user,
         q.op # "none", LastEffect(r, q)
  PROVE  Rests(r, u) /\ (Ends(r, u, q) \/ Breaks(r, u, q))
  <1>1. PICK w : w = [q EXCEPT !.wrote = TRUE]
    OBVIOUS
  <1>2. Succeed(r, w) \/ Fail(r, w)
    BY <1>1 DEF LastEffect
  <1>3. CASE Succeed(r, w)
    <2>1. Rests(r, u) /\ Ends(r, u, w)
      BY <1>1, <1>3, Written, SucceedMeans
    <2> QED
      BY <2>1, <1>1, Written DEF Ends, Final
  <1>4. CASE Fail(r, w)
    <2>1. Rests(r, u) /\ Breaks(r, u, w)
      BY <1>1, <1>4, Written, FailMeans
    <2> QED
      BY <2>1, <1>1, Written DEF Breaks
  <1> QED
    BY <1>2, <1>3, <1>4

\* Keycloak makes the account, and its answer may be lost.
CreateAccountDone(r, u, q) ==
  /\ q.op = "create" /\ q.at = "account" /\ ~keycloak[u].there
  /\ keycloak'[u] = [there |-> TRUE, enabled |-> TRUE, roles |-> {}, mail |-> q.mail]
  /\ row'[u] = row[u] /\ cache'[u] = cache[u]
  /\ \/ GoesWritten(r, u, q, "grant")
     \/ request'[r] = Idle /\ doubt'[u] = Aspects

LEMMA DoesCreateAccount ==
  ASSUME TypeOK, NEW r \in Requests, NEW q \in RequestType, q = request[r],
         NEW u \in Users, u = q.user, CreateAccount(r)
  PROVE  OnlyHere(r, u) /\ CreateAccountDone(r, u, q)
  <1>1. PICK p : p = [q EXCEPT !.wrote = TRUE]
    OBVIOUS
  <1>2. \/ GoOn(r, p, "grant")
        \/ /\ request' = [request EXCEPT ![r] = Idle]
           /\ doubt' = [doubt EXCEPT ![u] = Aspects]
    BY <1>1 DEF CreateAccount
  <1>3. CASE GoOn(r, p, "grant")
    <2>1. Rests(r, u) /\ GoesOn(r, u, p, "grant")
      BY <1>1, <1>3, Written, GoOnMeans
    <2>2. GoesWritten(r, u, q, "grant")
      BY <2>1, <1>1, Written DEF GoesOn, GoesWritten, Goes
    <2> QED
      BY <2>1, <2>2 DEF CreateAccount, At, Rests, OnlyHere, CreateAccountDone, TypeOK
  <1>4. CASE /\ request' = [request EXCEPT ![r] = Idle]
             /\ doubt' = [doubt EXCEPT ![u] = Aspects]
    BY <1>4 DEF CreateAccount, At, OnlyHere, CreateAccountDone, TypeOK
  <1> QED
    BY <1>2, <1>3, <1>4

\* The account gets its first role, or the registration will be rolled back.
GrantFirstRoleDone(r, u, q) ==
  /\ q.op = "create" /\ q.at = "grant"
  /\ row'[u] = row[u] /\ cache'[u] = cache[u]
  /\ \/ /\ keycloak'[u] = [keycloak[u] EXCEPT !.roles = @ \cup {"user"}]
        /\ GoesOn(r, u, q, "insert")
     \/ /\ keycloak'[u] = [keycloak[u] EXCEPT !.roles = @ \cup {"user"}]
             \/ keycloak'[u] = keycloak[u]
        /\ GoesOn(r, u, q, "rollback")

LEMMA DoesGrantFirstRole ==
  ASSUME TypeOK, NEW r \in Requests, NEW q \in RequestType, q = request[r],
         NEW u \in Users, u = q.user, GrantFirstRole(r)
  PROVE  OnlyHere(r, u) /\ GrantFirstRoleDone(r, u, q)
  <1>1. PICK step \in {"insert", "rollback"} : GoOn(r, q, step)
    BY DEF GrantFirstRole
  <1>2. Rests(r, u) /\ GoesOn(r, u, q, step)
    BY <1>1, GoOnMeans
  <1>3. \/ keycloak' = [keycloak EXCEPT ![u].roles = @ \cup {"user"}]
        \/ keycloak' = keycloak /\ GoOn(r, q, "rollback")
    BY DEF GrantFirstRole
  <1>4. CASE keycloak' = [keycloak EXCEPT ![u].roles = @ \cup {"user"}]
    BY ZenonT(60), <1>2, <1>4 DEF GrantFirstRole, At, Rests, OnlyHere, GrantFirstRoleDone, TypeOK
  <1>5. CASE keycloak' = keycloak /\ GoOn(r, q, "rollback")
    <2>1. Rests(r, u) /\ GoesOn(r, u, q, "rollback")
      BY <1>5, GoOnMeans
    <2> QED
      BY <2>1, <1>5 DEF GrantFirstRole, At, Rests, OnlyHere, GrantFirstRoleDone, TypeOK
  <1> QED
    BY <1>3, <1>4, <1>5

\* The row is stored, and its answer may be lost, or the account will be rolled back.
InsertRowDone(r, u, q) ==
  /\ q.op = "create" /\ q.at = "insert"
  /\ keycloak'[u] = keycloak[u] /\ cache'[u] = cache[u]
  /\ \/ /\ ~row[u].there /\ row'[u].there
        /\ row'[u].roles = {"user"} /\ row'[u].mail = q.mail
        /\ \/ Ends(r, u, q)
           \/ /\ Goes(r, q, "rollback") /\ request'[r].wrote = q.wrote
              /\ doubt'[u] = doubt[u] \cup {"account"}
     \/ row'[u] = row[u] /\ GoesOn(r, u, q, "rollback")

LEMMA DoesInsertRow ==
  ASSUME TypeOK, NEW r \in Requests, NEW q \in RequestType, q = request[r],
         NEW u \in Users, u = q.user, InsertRow(r)
  PROVE  OnlyHere(r, u) /\ InsertRowDone(r, u, q)
  <1>1. CASE row' = row /\ GoOn(r, q, "rollback")
    <2>1. Rests(r, u) /\ GoesOn(r, u, q, "rollback")
      BY <1>1, GoOnMeans
    <2> QED
      BY <2>1, <1>1 DEF InsertRow, At, Rests, OnlyHere, InsertRowDone
  <1>2. CASE ~(row' = row /\ GoOn(r, q, "rollback"))
    <2>1. /\ ~row[u].there
          /\ row' = [row EXCEPT ![u] =
               [there |-> TRUE, active |-> TRUE, roles |-> {"user"}, mail |-> q.mail,
                sensitive |-> IF q.phone THEN "cipher" ELSE "null"]]
          /\ \/ Succeed(r, q)
             \/ /\ request' = [request EXCEPT ![r].at = "rollback"]
                /\ doubt' = [doubt EXCEPT ![u] = @ \cup {"account"}]
      BY <1>2 DEF InsertRow
    <2>2. q.op = "create"
      BY DEF InsertRow, At
    <2>3. CASE Succeed(r, q)
      <3>1. Rests(r, u) /\ Ends(r, u, q)
        BY <2>2, <2>3, SucceedMeans
      <3> QED
        BY <2>1, <3>1 DEF InsertRow, At, Rests, OnlyHere, InsertRowDone, TypeOK
    <2>4. CASE /\ request' = [request EXCEPT ![r].at = "rollback"]
               /\ doubt' = [doubt EXCEPT ![u] = @ \cup {"account"}]
      <3>1. /\ request'[r] = [q EXCEPT !.at = "rollback"]
            /\ \A s \in Requests \ {r} : request'[s] = request[s]
            /\ doubt'[u] = doubt[u] \cup {"account"}
            /\ \A v \in Users \ {u} : doubt'[v] = doubt[v]
        BY <2>4 DEF TypeOK
      <3>2. Goes(r, q, "rollback") /\ request'[r].wrote = q.wrote
        BY <3>1 DEF Goes, RequestType
      <3> QED
        BY <2>1, <3>1, <3>2 DEF InsertRow, At, OnlyHere, InsertRowDone, TypeOK
    <2> QED
      BY <2>1, <2>3, <2>4
  <1> QED
    BY <1>1, <1>2

\* The account is deleted, or it stays.
RollbackAccountDone(r, u, q) ==
  /\ q.op = "create" /\ q.at = "rollback"
  /\ row'[u] = row[u] /\ cache'[u] = cache[u]
  /\ \/ keycloak'[u] = NoAccount /\ IF q.wrote THEN Breaks(r, u, q) ELSE Quits(r, u)
     \/ keycloak'[u] = keycloak[u] /\ request'[r] = Idle /\ doubt'[u] = Aspects

LEMMA DoesRollbackAccount ==
  ASSUME TypeOK, NEW r \in Requests, NEW q \in RequestType, q = request[r],
         NEW u \in Users, u = q.user, RollbackAccount(r)
  PROVE  OnlyHere(r, u) /\ RollbackAccountDone(r, u, q)
  <1>1. CASE Fail(r, q) /\ keycloak' = [keycloak EXCEPT ![u] = NoAccount]
    <2>1. Rests(r, u) /\ IF q.wrote THEN Breaks(r, u, q) ELSE Quits(r, u)
      BY <1>1, FailMeans
    <2> QED
      BY <2>1, <1>1 DEF RollbackAccount, At, Rests, OnlyHere, RollbackAccountDone, TypeOK
  <1>2. CASE /\ request' = [request EXCEPT ![r] = Idle]
             /\ doubt' = [doubt EXCEPT ![u] = Aspects]
             /\ keycloak' = keycloak
    BY <1>2 DEF RollbackAccount, At, Rests, OnlyHere, RollbackAccountDone, TypeOK
  <1> QED
    BY <1>1, <1>2 DEF RollbackAccount

\* GET /users/:id finds the row.
LoadForCacheDone(r, u, q) ==
  /\ q.op = "read" /\ q.at = "load" /\ row[u].there
  /\ keycloak'[u] = keycloak[u] /\ row'[u] = row[u] /\ cache'[u] = cache[u]
  /\ Goes(r, q, "fill") /\ doubt'[u] = doubt[u] /\ request'[r].loaded = row[u]
       /\ request'[r].roles = q.roles /\ request'[r].sent = q.sent /\ request'[r].wrote = q.wrote

LEMMA DoesLoadForCache ==
  ASSUME TypeOK, NEW r \in Requests, NEW q \in RequestType, q = request[r],
         NEW u \in Users, u = q.user, LoadForCache(r)
  PROVE  OnlyHere(r, u) /\ LoadForCacheDone(r, u, q)
  <1>1. Rests(r, u) /\ Goes(r, q, "fill") /\ doubt'[u] = doubt[u] /\ request'[r].loaded = row[u]
       /\ request'[r].roles = q.roles /\ request'[r].sent = q.sent /\ request'[r].wrote = q.wrote
    <2>1. PICK p : p = [q EXCEPT !.loaded = row[u]]
      OBVIOUS
    <2>2. row[u] \in RowType
      BY StoresTyped
    <2>3. p \in RequestType
      BY <2>1, <2>2 DEF RequestType
    <2>4. /\ p.op = q.op /\ p.user = q.user /\ p.active = q.active /\ p.mail = q.mail
          /\ p.clash = q.clash /\ p.wrote = q.wrote
          /\ p.roles = q.roles /\ p.sent = q.sent /\ p.loaded = row[u]
      BY <2>1 DEF RequestType
    <2>5. GoOn(r, p, "fill")
      BY <2>1 DEF LoadForCache
    <2>6. Rests(r, u) /\ (GoesOn(r, u, p, "fill"))
      BY <2>3, <2>4, <2>5, GoOnMeans
    <2> QED
      BY <2>4, <2>6 DEF GoesOn, GoesWritten, Goes, Breaks
  <1> QED
    BY <1>1 DEF LoadForCache, At, Rests, OnlyHere, LoadForCacheDone, TypeOK

\* It answers and keeps a copy.
FillCacheDone(r, u, q) ==
  /\ q.op = "read" /\ q.at = "fill"
  /\ keycloak'[u] = keycloak[u] /\ row'[u] = row[u] /\ cache'[u] = Copy(q.loaded)
  /\ Ends(r, u, q) \/ Breaks(r, u, q)

LEMMA DoesFillCache ==
  ASSUME TypeOK, NEW r \in Requests, NEW q \in RequestType, q = request[r],
         NEW u \in Users, u = q.user, FillCache(r)
  PROVE  OnlyHere(r, u) /\ FillCacheDone(r, u, q)
  <1>1. Rests(r, u) /\ (Ends(r, u, q) \/ Breaks(r, u, q))
    <2>1. q.op # "none"
      BY DEF FillCache, At
    <2> QED
      BY <2>1, LastEffectMeans DEF FillCache
  <1> QED
    BY <1>1 DEF FillCache, At, Rests, OnlyHere, FillCacheDone, TypeOK

\* The copy is dropped.
DropCopyDone(r, u, q) ==
  /\ q.op \in {"patch", "status", "roles"} /\ q.at = "forget"
  /\ keycloak'[u] = keycloak[u] /\ row'[u] = row[u] /\ cache'[u] = NoCopy
  /\ Ends(r, u, q) \/ Breaks(r, u, q)

LEMMA DoesDropCopy ==
  ASSUME TypeOK, NEW r \in Requests, NEW q \in RequestType, q = request[r],
         NEW u \in Users, u = q.user, DropCopy(r)
  PROVE  OnlyHere(r, u) /\ DropCopyDone(r, u, q)
  <1>1. Rests(r, u) /\ (Ends(r, u, q) \/ Breaks(r, u, q))
    <2>1. q.op # "none"
      BY DEF DropCopy, At
    <2> QED
      BY <2>1, LastEffectMeans DEF DropCopy
  <1> QED
    BY <1>1 DEF DropCopy, At, Rests, OnlyHere, DropCopyDone, TypeOK

\* The address is compared with the row's.
CompareMailDone(r, u, q) ==
  /\ q.op = "patch" /\ q.at = "compare" /\ row[u].there
  /\ keycloak'[u] = keycloak[u] /\ row'[u] = row[u] /\ cache'[u] = cache[u]
  /\ GoesOn(r, u, q, IF row[u].mail # q.mail THEN "push" ELSE "load")

LEMMA DoesCompareMail ==
  ASSUME TypeOK, NEW r \in Requests, NEW q \in RequestType, q = request[r],
         NEW u \in Users, u = q.user, CompareMail(r)
  PROVE  OnlyHere(r, u) /\ CompareMailDone(r, u, q)
  <1>1. Rests(r, u) /\ GoesOn(r, u, q, IF row[u].mail # q.mail THEN "push" ELSE "load")
    <2>1. q.op # "none"
      BY DEF CompareMail, At
    <2> QED
      BY <2>1, GoOnMeans DEF CompareMail
  <1> QED
    BY <1>1 DEF CompareMail, At, Rests, OnlyHere, CompareMailDone, TypeOK

\* Keycloak takes the address.
PushMailDone(r, u, q) ==
  /\ q.op = "patch" /\ q.at = "push" /\ keycloak[u].there
  /\ keycloak'[u] = [keycloak[u] EXCEPT !.mail = q.mail] /\ row'[u] = row[u] /\ cache'[u] = cache[u]
  /\ \/ /\ Goes(r, q, "load") /\ doubt'[u] = doubt[u] /\ request'[r].sent /\ request'[r].wrote
        /\ request'[r].roles = q.roles /\ request'[r].loaded = q.loaded
     \/ Breaks(r, u, q)

LEMMA DoesPushMail ==
  ASSUME TypeOK, NEW r \in Requests, NEW q \in RequestType, q = request[r],
         NEW u \in Users, u = q.user, PushMail(r)
  PROVE  OnlyHere(r, u) /\ PushMailDone(r, u, q)
  <1>1. /\ Rests(r, u)
        /\ \/ /\ Goes(r, q, "load") /\ doubt'[u] = doubt[u] /\ request'[r].sent /\ request'[r].wrote
              /\ request'[r].roles = q.roles /\ request'[r].loaded = q.loaded
           \/ Breaks(r, u, q)
    <2>1. PICK p : p = [q EXCEPT !.sent = TRUE]
      OBVIOUS
    <2>3. p \in RequestType
      BY <2>1 DEF RequestType
    <2>4. /\ p.op = q.op /\ p.user = q.user /\ p.active = q.active /\ p.mail = q.mail
          /\ p.clash = q.clash /\ p.wrote = q.wrote
          /\ p.roles = q.roles /\ p.sent /\ p.loaded = q.loaded
      BY <2>1 DEF RequestType
    <2>5. Effect(r, p, "load")
      BY <2>1 DEF PushMail
    <2>6. Rests(r, u) /\ (GoesWritten(r, u, p, "load") \/ Breaks(r, u, p))
      BY <2>3, <2>4, <2>5, EffectMeans
    <2> QED
      BY <2>4, <2>6 DEF GoesOn, GoesWritten, Goes, Breaks
  <1> QED
    BY <1>1 DEF PushMail, At, Rests, OnlyHere, PushMailDone, TypeOK

\* The row is read for the merge.
LoadRowDone(r, u, q) ==
  /\ q.op = "patch" /\ q.at = "load" /\ row[u].there
  /\ keycloak'[u] = keycloak[u] /\ row'[u] = row[u] /\ cache'[u] = cache[u]
  /\ Goes(r, q, "save") /\ doubt'[u] = doubt[u] /\ request'[r].loaded = row[u]
       /\ request'[r].roles = q.roles /\ request'[r].sent = q.sent /\ request'[r].wrote = q.wrote

LEMMA DoesLoadRow ==
  ASSUME TypeOK, NEW r \in Requests, NEW q \in RequestType, q = request[r],
         NEW u \in Users, u = q.user, LoadRow(r)
  PROVE  OnlyHere(r, u) /\ LoadRowDone(r, u, q)
  <1>1. Rests(r, u) /\ Goes(r, q, "save") /\ doubt'[u] = doubt[u] /\ request'[r].loaded = row[u]
       /\ request'[r].roles = q.roles /\ request'[r].sent = q.sent /\ request'[r].wrote = q.wrote
    <2>1. PICK p : p = [q EXCEPT !.loaded = row[u]]
      OBVIOUS
    <2>2. row[u] \in RowType
      BY StoresTyped
    <2>3. p \in RequestType
      BY <2>1, <2>2 DEF RequestType
    <2>4. /\ p.op = q.op /\ p.user = q.user /\ p.active = q.active /\ p.mail = q.mail
          /\ p.clash = q.clash /\ p.wrote = q.wrote
          /\ p.roles = q.roles /\ p.sent = q.sent /\ p.loaded = row[u]
      BY <2>1 DEF RequestType
    <2>5. GoOn(r, p, "save")
      BY <2>1 DEF LoadRow
    <2>6. Rests(r, u) /\ (GoesOn(r, u, p, "save"))
      BY <2>3, <2>4, <2>5, GoOnMeans
    <2> QED
      BY <2>4, <2>6 DEF GoesOn, GoesWritten, Goes, Breaks
  <1> QED
    BY <1>1 DEF LoadRow, At, Rests, OnlyHere, LoadRowDone, TypeOK

\* The row is saved as it was read, but for the address and the sensitive fields.
SaveRowDone(r, u, q) ==
  /\ q.op = "patch" /\ q.at = "save"
  /\ keycloak'[u] = keycloak[u] /\ cache'[u] = cache[u]
  /\ row'[u].there = q.loaded.there /\ row'[u].active = q.loaded.active
  /\ row'[u].roles = q.loaded.roles
  /\ row'[u].mail = IF q.mail = NoMail THEN q.loaded.mail ELSE q.mail
  /\ GoesWritten(r, u, q, "forget") \/ Breaks(r, u, q)

LEMMA DoesSaveRow ==
  ASSUME TypeOK, NEW r \in Requests, NEW q \in RequestType, q = request[r],
         NEW u \in Users, u = q.user, SaveRow(r)
  PROVE  OnlyHere(r, u) /\ SaveRowDone(r, u, q)
  <1>1. Rests(r, u) /\ (GoesWritten(r, u, q, "forget") \/ Breaks(r, u, q))
    <2>1. q.op # "none"
      BY DEF SaveRow, At
    <2> QED
      BY <2>1, EffectMeans DEF SaveRow
  <1> QED
    BY <1>1 DEF SaveRow, At, Rests, OnlyHere, SaveRowDone, TypeOK

\* Keycloak takes the status.
SetEnabledDone(r, u, q) ==
  /\ q.op = "status" /\ q.at = "enable" /\ keycloak[u].there
  /\ keycloak'[u] = [keycloak[u] EXCEPT !.enabled = q.active] /\ row'[u] = row[u] /\ cache'[u] = cache[u]
  /\ GoesWritten(r, u, q, NextCall(q)) \/ Breaks(r, u, q)

LEMMA DoesSetEnabled ==
  ASSUME TypeOK, NEW r \in Requests, NEW q \in RequestType, q = request[r],
         NEW u \in Users, u = q.user, SetEnabled(r)
  PROVE  OnlyHere(r, u) /\ SetEnabledDone(r, u, q)
  <1>1. Rests(r, u) /\ (GoesWritten(r, u, q, NextCall(q)) \/ Breaks(r, u, q))
    <2>1. q.op # "none"
      BY DEF SetEnabled, At
    <2> QED
      BY <2>1, EffectMeans DEF SetEnabled
  <1> QED
    BY <1>1 DEF SetEnabled, At, Rests, OnlyHere, SetEnabledDone, TypeOK

\* The sessions end.
RevokeSessionsDone(r, u, q) ==
  /\ q.op = "status" /\ q.at = "revoke" /\ ~q.active
  /\ keycloak'[u] = keycloak[u] /\ row'[u] = row[u] /\ cache'[u] = cache[u]
  /\ GoesWritten(r, u, q, NextCall(q)) \/ Breaks(r, u, q)

LEMMA DoesRevokeSessions ==
  ASSUME TypeOK, NEW r \in Requests, NEW q \in RequestType, q = request[r],
         NEW u \in Users, u = q.user, RevokeSessions(r)
  PROVE  OnlyHere(r, u) /\ RevokeSessionsDone(r, u, q)
  <1>1. Rests(r, u) /\ (GoesWritten(r, u, q, NextCall(q)) \/ Breaks(r, u, q))
    <2>1. q.op # "none"
      BY DEF RevokeSessions, At
    <2> QED
      BY <2>1, EffectMeans DEF RevokeSessions
  <1> QED
    BY <1>1 DEF RevokeSessions, At, Rests, OnlyHere, RevokeSessionsDone, TypeOK

\* The row takes the status.
StoreStatusDone(r, u, q) ==
  /\ q.op = "status" /\ q.at = "store"
  /\ keycloak'[u] = keycloak[u] /\ row'[u] = [row[u] EXCEPT !.active = q.active] /\ cache'[u] = cache[u]
  /\ GoesWritten(r, u, q, NextCall(q)) \/ Breaks(r, u, q)

LEMMA DoesStoreStatus ==
  ASSUME TypeOK, NEW r \in Requests, NEW q \in RequestType, q = request[r],
         NEW u \in Users, u = q.user, StoreStatus(r)
  PROVE  OnlyHere(r, u) /\ StoreStatusDone(r, u, q)
  <1>1. Rests(r, u) /\ (GoesWritten(r, u, q, NextCall(q)) \/ Breaks(r, u, q))
    <2>1. q.op # "none"
      BY DEF StoreStatus, At
    <2> QED
      BY <2>1, EffectMeans DEF StoreStatus
  <1> QED
    BY <1>1 DEF StoreStatus, At, Rests, OnlyHere, StoreStatusDone, TypeOK

\* The managed roles of the account are listed.
ListRolesDone(r, u, q) ==
  /\ q.op = "roles" /\ q.at = "list" /\ keycloak[u].there
  /\ keycloak'[u] = keycloak[u] /\ row'[u] = row[u] /\ cache'[u] = cache[u]
  /\ Goes(r, q, "remove") /\ doubt'[u] = doubt[u] /\ request'[r].loaded = [q.loaded EXCEPT !.roles = keycloak[u].roles \cap AllowedRealmRoles]
       /\ request'[r].roles = q.roles /\ request'[r].sent = q.sent /\ request'[r].wrote = q.wrote

LEMMA DoesListRoles ==
  ASSUME TypeOK, NEW r \in Requests, NEW q \in RequestType, q = request[r],
         NEW u \in Users, u = q.user, ListRoles(r)
  PROVE  OnlyHere(r, u) /\ ListRolesDone(r, u, q)
  <1>1. Rests(r, u) /\ Goes(r, q, "remove") /\ doubt'[u] = doubt[u] /\ request'[r].loaded = [q.loaded EXCEPT !.roles = keycloak[u].roles \cap AllowedRealmRoles]
       /\ request'[r].roles = q.roles /\ request'[r].sent = q.sent /\ request'[r].wrote = q.wrote
    <2>1. PICK p : p = [q EXCEPT !.loaded.roles = keycloak[u].roles \cap AllowedRealmRoles]
      OBVIOUS
    <2>2. [q.loaded EXCEPT !.roles = keycloak[u].roles \cap AllowedRealmRoles] \in RowType
      BY RequestTyped, RowChange
    <2>3. p \in RequestType
      BY ZenonT(60), <2>1, <2>2 DEF RequestType
    <2>4. /\ p.op = q.op /\ p.user = q.user /\ p.active = q.active /\ p.mail = q.mail
          /\ p.clash = q.clash /\ p.wrote = q.wrote
          /\ p.roles = q.roles /\ p.sent = q.sent /\ p.loaded = [q.loaded EXCEPT !.roles = keycloak[u].roles \cap AllowedRealmRoles]
      BY <2>1 DEF RequestType
    <2>5. GoOn(r, p, "remove")
      BY <2>1 DEF ListRoles
    <2>6. Rests(r, u) /\ (GoesOn(r, u, p, "remove"))
      BY <2>3, <2>4, <2>5, GoOnMeans
    <2> QED
      BY <2>4, <2>6 DEF GoesOn, GoesWritten, Goes, Breaks
  <1> QED
    BY <1>1 DEF ListRoles, At, Rests, OnlyHere, ListRolesDone, TypeOK

\* Those not asked for are removed.
RemoveRolesDone(r, u, q) ==
  /\ q.op = "roles" /\ q.at = "remove"
  /\ row'[u] = row[u] /\ cache'[u] = cache[u]
  /\ \/ q.loaded.roles \ q.roles = {} /\ keycloak'[u] = keycloak[u] /\ GoesOn(r, u, q, "assign")
     \/ /\ q.loaded.roles \ q.roles # {} /\ keycloak[u].there
        /\ keycloak'[u] = [keycloak[u] EXCEPT !.roles = keycloak[u].roles \ (q.loaded.roles \ q.roles)]
        /\ GoesWritten(r, u, q, "assign") \/ Breaks(r, u, q)

LEMMA DoesRemoveRoles ==
  ASSUME TypeOK, NEW r \in Requests, NEW q \in RequestType, q = request[r],
         NEW u \in Users, u = q.user, RemoveRoles(r)
  PROVE  OnlyHere(r, u) /\ RemoveRolesDone(r, u, q)
  <1>1. CASE q.loaded.roles \ q.roles = {}
    <2>1. GoOn(r, q, "assign") /\ keycloak' = keycloak
      BY <1>1 DEF RemoveRoles
    <2>2. Rests(r, u) /\ GoesOn(r, u, q, "assign")
      BY <2>1, GoOnMeans
    <2> QED
      BY <1>1, <2>1, <2>2 DEF RemoveRoles, At, Rests, OnlyHere, RemoveRolesDone, TypeOK
  <1>2. CASE q.loaded.roles \ q.roles # {}
    <2>1. /\ Effect(r, q, "assign") /\ keycloak[u].there
          /\ keycloak' = [keycloak EXCEPT ![u].roles = @ \ (q.loaded.roles \ q.roles)]
      BY <1>2 DEF RemoveRoles
    <2>2. Rests(r, u) /\ (GoesWritten(r, u, q, "assign") \/ Breaks(r, u, q))
      BY <2>1, EffectMeans
    <2> QED
      BY ZenonT(60), <1>2, <2>1, <2>2 DEF RemoveRoles, At, Rests, OnlyHere, RemoveRolesDone, TypeOK
  <1> QED
    BY <1>1, <1>2

\* Those missing are assigned.
AssignRolesDone(r, u, q) ==
  /\ q.op = "roles" /\ q.at = "assign"
  /\ row'[u] = row[u] /\ cache'[u] = cache[u]
  /\ \/ q.roles \ q.loaded.roles = {} /\ keycloak'[u] = keycloak[u] /\ GoesOn(r, u, q, "store")
     \/ /\ q.roles \ q.loaded.roles # {} /\ keycloak[u].there
        /\ keycloak'[u] = [keycloak[u] EXCEPT !.roles = keycloak[u].roles \cup (q.roles \ q.loaded.roles)]
        /\ GoesWritten(r, u, q, "store") \/ Breaks(r, u, q)

LEMMA DoesAssignRoles ==
  ASSUME TypeOK, NEW r \in Requests, NEW q \in RequestType, q = request[r],
         NEW u \in Users, u = q.user, AssignRoles(r)
  PROVE  OnlyHere(r, u) /\ AssignRolesDone(r, u, q)
  <1>1. CASE q.roles \ q.loaded.roles = {}
    <2>1. GoOn(r, q, "store") /\ keycloak' = keycloak
      BY <1>1 DEF AssignRoles
    <2>2. Rests(r, u) /\ GoesOn(r, u, q, "store")
      BY <2>1, GoOnMeans
    <2> QED
      BY <1>1, <2>1, <2>2 DEF AssignRoles, At, Rests, OnlyHere, AssignRolesDone, TypeOK
  <1>2. CASE q.roles \ q.loaded.roles # {}
    <2>1. /\ Effect(r, q, "store") /\ keycloak[u].there
          /\ keycloak' = [keycloak EXCEPT ![u].roles = @ \cup (q.roles \ q.loaded.roles)]
      BY <1>2 DEF AssignRoles
    <2>2. Rests(r, u) /\ (GoesWritten(r, u, q, "store") \/ Breaks(r, u, q))
      BY <2>1, EffectMeans
    <2> QED
      BY ZenonT(60), <1>2, <2>1, <2>2 DEF AssignRoles, At, Rests, OnlyHere, AssignRolesDone, TypeOK
  <1> QED
    BY <1>1, <1>2

\* The row takes the roles.
StoreRolesDone(r, u, q) ==
  /\ q.op = "roles" /\ q.at = "store"
  /\ keycloak'[u] = keycloak[u] /\ row'[u] = [row[u] EXCEPT !.roles = q.roles] /\ cache'[u] = cache[u]
  /\ GoesWritten(r, u, q, "forget") \/ Breaks(r, u, q)

LEMMA DoesStoreRoles ==
  ASSUME TypeOK, NEW r \in Requests, NEW q \in RequestType, q = request[r],
         NEW u \in Users, u = q.user, StoreRoles(r)
  PROVE  OnlyHere(r, u) /\ StoreRolesDone(r, u, q)
  <1>1. Rests(r, u) /\ (GoesWritten(r, u, q, "forget") \/ Breaks(r, u, q))
    <2>1. q.op # "none"
      BY DEF StoreRoles, At
    <2> QED
      BY <2>1, EffectMeans DEF StoreRoles
  <1> QED
    BY <1>1 DEF StoreRoles, At, Rests, OnlyHere, StoreRolesDone, TypeOK

\* Keycloak signs the roles into a token.
IssueTokenDone(r, u, q) ==
  /\ q.op = "login" /\ q.at = "token" /\ keycloak[u].there
  /\ keycloak'[u] = keycloak[u] /\ row'[u] = row[u] /\ cache'[u] = cache[u]
  /\ \/ Goes(r, q, "find") /\ doubt'[u] = doubt[u] /\ request'[r].roles = keycloak[u].roles
        /\ (request'[r].sent <=> "user" \in keycloak[u].roles)
        /\ request'[r].loaded = q.loaded /\ request'[r].wrote = q.wrote
     \/ IF q.wrote THEN Breaks(r, u, q) ELSE Quits(r, u)

LEMMA DoesIssueToken ==
  ASSUME TypeOK, NEW r \in Requests, NEW q \in RequestType, q = request[r],
         NEW u \in Users, u = q.user, NEW s \in Sessions, IssueToken(r, s)
  PROVE  OnlyHere(r, u) /\ IssueTokenDone(r, u, q)
  <1>1. PICK p : p = [q EXCEPT !.roles = keycloak[u].roles, !.sent = "user" \in keycloak[u].roles]
    OBVIOUS
  <1>2. keycloak[u].roles \in SUBSET AllowedRealmRoles
    BY StoresTyped DEF AccountType
  <1>3. p \in RequestType
    <2>1. ("user" \in keycloak[u].roles) \in BOOLEAN
      OBVIOUS
    <2>2. PICK b \in BOOLEAN : b = ("user" \in keycloak[u].roles)
      BY <2>1
    <2>3. p = [q EXCEPT !.roles = keycloak[u].roles, !.sent = b]
      BY <1>1, <2>2
    <2> QED
      BY ZenonT(60), <2>3, <1>2 DEF RequestType
  <1>4. /\ p.op = q.op /\ p.user = q.user /\ p.active = q.active /\ p.mail = q.mail
        /\ p.clash = q.clash /\ p.wrote = q.wrote
        /\ p.roles = keycloak[u].roles /\ (p.sent <=> "user" \in keycloak[u].roles)
        /\ p.loaded = q.loaded
    BY <1>1 DEF RequestType
  <1>5. GoOn(r, p, "find") \/ Fail(r, q)
    BY <1>1 DEF IssueToken
  <1>6. CASE GoOn(r, p, "find")
    <2>1. Rests(r, u) /\ GoesOn(r, u, p, "find")
      BY <1>3, <1>6, GoOnMeans
    <2>2. Goes(r, q, "find") /\ doubt'[u] = doubt[u] /\ request'[r].roles = keycloak[u].roles
          /\ (request'[r].sent <=> "user" \in keycloak[u].roles)
          /\ request'[r].loaded = q.loaded /\ request'[r].wrote = q.wrote
      BY <2>1, <1>4 DEF GoesOn, Goes
    <2> QED
      BY <2>1, <2>2 DEF IssueToken, At, Rests, OnlyHere, IssueTokenDone
  <1>7. CASE Fail(r, q)
    <2>1. Rests(r, u) /\ IF q.wrote THEN Breaks(r, u, q) ELSE Quits(r, u)
      BY <1>7, FailMeans
    <2> QED
      BY <2>1 DEF IssueToken, At, Rests, OnlyHere, IssueTokenDone
  <1> QED
    BY <1>5, <1>6, <1>7

\* The row of the user is found.
FindByUsernameDone(r, u, q) ==
  /\ q.op = "login" /\ q.at = "find" /\ row[u].there
  /\ keycloak'[u] = keycloak[u] /\ row'[u] = row[u] /\ cache'[u] = cache[u]
  /\ Goes(r, q, "record") /\ doubt'[u] = doubt[u]
       /\ request'[r].roles = (IF q.roles = {} THEN row[u].roles ELSE q.roles \cup {"user"})
       /\ request'[r].loaded = q.loaded /\ request'[r].sent = q.sent /\ request'[r].wrote = q.wrote

LEMMA DoesFindByUsername ==
  ASSUME TypeOK, NEW r \in Requests, NEW q \in RequestType, q = request[r],
         NEW u \in Users, u = q.user, FindByUsername(r)
  PROVE  OnlyHere(r, u) /\ FindByUsernameDone(r, u, q)
  <1>1. Rests(r, u) /\ Goes(r, q, "record") /\ doubt'[u] = doubt[u]
       /\ request'[r].roles = (IF q.roles = {} THEN row[u].roles ELSE q.roles \cup {"user"})
       /\ request'[r].loaded = q.loaded /\ request'[r].sent = q.sent /\ request'[r].wrote = q.wrote
    <2>1. PICK p : p = [q EXCEPT !.roles = IF @ = {} THEN row[u].roles ELSE @ \cup {"user"}]
      OBVIOUS
    <2>2. (IF q.roles = {} THEN row[u].roles ELSE q.roles \cup {"user"}) \in SUBSET AllowedRealmRoles
      BY StoresTyped DEF RowType, RequestType, AllowedRealmRoles
    <2>3. p \in RequestType
      BY <2>1, <2>2 DEF RequestType
    <2>4. /\ p.op = q.op /\ p.user = q.user /\ p.active = q.active /\ p.mail = q.mail
          /\ p.clash = q.clash /\ p.wrote = q.wrote
          /\ p.roles = (IF q.roles = {} THEN row[u].roles ELSE q.roles \cup {"user"})
          /\ p.sent = q.sent /\ p.loaded = q.loaded
      BY <2>1 DEF RequestType
    <2>5. GoOn(r, p, "record")
      BY <2>1 DEF FindByUsername
    <2>6. Rests(r, u) /\ (GoesOn(r, u, p, "record"))
      BY <2>3, <2>4, <2>5, GoOnMeans
    <2> QED
      BY <2>4, <2>6 DEF GoesOn, GoesWritten, Goes, Breaks
  <1> QED
    BY <1>1 DEF FindByUsername, At, Rests, OnlyHere, FindByUsernameDone, TypeOK

\* The row takes the roles of the token.
RecordLoginDone(r, u, q) ==
  /\ q.op = "login" /\ q.at = "record"
  /\ keycloak'[u] = keycloak[u] /\ row'[u] = [row[u] EXCEPT !.roles = q.roles] /\ cache'[u] = cache[u]
  /\ Ends(r, u, q) \/ Breaks(r, u, q)

LEMMA DoesRecordLogin ==
  ASSUME TypeOK, NEW r \in Requests, NEW q \in RequestType, q = request[r],
         NEW u \in Users, u = q.user, RecordLogin(r)
  PROVE  OnlyHere(r, u) /\ RecordLoginDone(r, u, q)
  <1>1. Rests(r, u) /\ (Ends(r, u, q) \/ Breaks(r, u, q))
    <2>1. q.op # "none"
      BY DEF RecordLogin, At
    <2> QED
      BY <2>1, LastEffectMeans DEF RecordLogin
  <1> QED
    BY <1>1 DEF RecordLogin, At, Rests, OnlyHere, RecordLoginDone, TypeOK

\* The call is refused.
RefusedDone(r, u, q) ==
  /\ q.op # "none" /\ q.at \notin {"grant", "insert", "rollback"}
  /\ keycloak'[u] = keycloak[u] /\ row'[u] = row[u] /\ cache'[u] = cache[u]
  /\ IF q.wrote THEN Breaks(r, u, q) ELSE Quits(r, u)

LEMMA DoesRefused ==
  ASSUME TypeOK, NEW r \in Requests, NEW q \in RequestType, q = request[r],
         NEW u \in Users, u = q.user, Refused(r)
  PROVE  OnlyHere(r, u) /\ RefusedDone(r, u, q)
  <1>1. Rests(r, u) /\ IF q.wrote THEN Breaks(r, u, q) ELSE Quits(r, u)
    <2>1. q.op # "none"
      BY DEF Refused, At
    <2> QED
      BY <2>1, FailMeans DEF Refused
  <1> QED
    BY <1>1 DEF Refused, At, Rests, OnlyHere, RefusedDone, TypeOK

\* The record a request of u arrives with.
Fresh(q, u) ==
  /\ q \in RequestType /\ q.user = u /\ ~q.wrote /\ ~q.sent
  /\ \/ q.op = "create" /\ q.at = "account"
     \/ q.op = "read" /\ q.at = "load"
     \/ q.op = "patch" /\ q.at = IF q.mail = NoMail THEN "load" ELSE "compare"
     \/ q.op = "status" /\ q.at = "enable" /\ row[u].there
     \/ q.op = "roles" /\ q.at = "list" /\ row[u].there /\ "user" \in q.roles
     \/ q.op = "login" /\ q.at = "token"

\* It joins the requests in flight.
Joins(r, u, q) ==
  /\ request[r] = Idle
  /\ request'[r] = [q EXCEPT !.clash = UNION {Common(q.op, request[o].op) : o \in Busy(u)}]
  /\ \A s \in Requests \ {r} :
       request'[s] = IF s \in Busy(u)
                     THEN [request[s] EXCEPT !.clash = @ \cup Common(q.op, request[s].op)]
                     ELSE request[s]

LEMMA DoesBegin ==
  ASSUME TypeOK, NEW r \in Requests, NEW u \in Users, Begin(r, u)
  PROVE  /\ UNCHANGED <<keycloak, sessions, row, cache, doubt>>
         /\ \E q \in RequestType : Fresh(q, u) /\ Joins(r, u, q)
  <1>0. UNCHANGED <<keycloak, sessions, row, cache, doubt>>
    BY DEF Begin, BeginCreate, BeginRead, BeginPatch, BeginStatus, BeginRoles, BeginLogin
  <1>1. \E q \in RequestType : Fresh(q, u) /\ Start(r, q)
    <2>1. ASSUME NEW m \in Mails, NEW phone \in Phones
          PROVE  Fresh([Idle EXCEPT !.op = "create", !.user = u, !.at = "account",
                                    !.mail = m, !.phone = phone], u)
      BY ZenonT(60), IdleType, DirectoryAssumption DEF Fresh, RequestType, Idle
    <2>2. Fresh([Idle EXCEPT !.op = "read", !.user = u, !.at = "load"], u)
      BY ZenonT(60), IdleType DEF Fresh, RequestType, Idle
    <2>3. ASSUME NEW m \in Mails \cup {NoMail}, NEW phone \in Phones
          PROVE  Fresh([Idle EXCEPT !.op = "patch", !.user = u, !.mail = m, !.phone = phone,
                                    !.at = IF m = NoMail THEN "load" ELSE "compare"], u)
      BY ZenonT(60), IdleType, DirectoryAssumption DEF Fresh, RequestType, Idle
    <2>4. ASSUME NEW active \in BOOLEAN, row[u].there
          PROVE  Fresh([Idle EXCEPT !.op = "status", !.user = u, !.active = active,
                                    !.at = Head(StatusCalls(active))], u)
      <3>1. Head(StatusCalls(active)) = "enable"
        BY DEF StatusCalls
      <3> QED
        BY ZenonT(60), <2>4, <3>1, IdleType DEF Fresh, RequestType, Idle
    <2>5. ASSUME NEW roles \in SUBSET AllowedRealmRoles, row[u].there
          PROVE  Fresh([Idle EXCEPT !.op = "roles", !.user = u, !.roles = roles \cup {"user"},
                                    !.at = "list"], u)
      <3>1. roles \cup {"user"} \subseteq AllowedRealmRoles
        BY DEF AllowedRealmRoles
      <3> QED
        BY ZenonT(60), <2>5, <3>1, IdleType DEF Fresh, RequestType, Idle
    <2>6. Fresh([Idle EXCEPT !.op = "login", !.user = u, !.at = "token"], u)
      BY IdleType DEF Fresh, RequestType, Idle
    <2>7. \E q : Fresh(q, u) /\ Start(r, q)
      BY <2>1, <2>2, <2>3, <2>4, <2>5, <2>6
      DEF Begin, BeginCreate, BeginRead, BeginPatch, BeginStatus, BeginRoles, BeginLogin
    <2> QED
      BY <2>7 DEF Fresh
  <1>2. PICK q \in RequestType : Fresh(q, u) /\ Start(r, q)
    BY <1>1
  <1>3. Joins(r, u, q)
    BY <1>2 DEF Start, Fresh, Joins
  <1> QED
    BY <1>0, <1>2, <1>3

\* What joins keeps its place; what was in flight keeps all but the marks.
LEMMA JoinsMeans ==
  ASSUME TypeOK, NEW r \in Requests, NEW u \in Users, NEW q \in RequestType,
         Fresh(q, u), Joins(r, u, q)
  PROVE  /\ request'[r].op = q.op /\ request'[r].user = u /\ request'[r].at = q.at
         /\ request'[r].roles = q.roles /\ request'[r].mail = q.mail
         /\ ~request'[r].wrote /\ ~request'[r].sent
         /\ \A a : a \in request'[r].clash <=>
                     \E o \in Busy(u) : a \in Common(q.op, request[o].op)
         /\ \A s \in Requests \ {r} :
              /\ request'[s].op = request[s].op /\ request'[s].user = request[s].user
              /\ request'[s].at = request[s].at /\ request'[s].roles = request[s].roles
              /\ request'[s].mail = request[s].mail /\ request'[s].active = request[s].active
              /\ request'[s].loaded = request[s].loaded /\ request'[s].sent = request[s].sent
              /\ request'[s].wrote = request[s].wrote
              /\ \A a : a \in request'[s].clash <=>
                          \/ a \in request[s].clash
                          \/ s \in Busy(u) /\ a \in Common(q.op, request[s].op)
  <1>1. \A s \in Requests : request[s] \in RequestType
    BY DEF TypeOK
  <1>2. /\ request'[r].op = q.op /\ request'[r].user = u /\ request'[r].at = q.at
        /\ request'[r].roles = q.roles /\ request'[r].mail = q.mail
        /\ ~request'[r].wrote /\ ~request'[r].sent
        /\ request'[r].clash = UNION {Common(q.op, request[o].op) : o \in Busy(u)}
    BY DEF Joins, Fresh, RequestType
  <1>3. ASSUME NEW s \in Requests \ {r}
        PROVE  /\ request'[s].op = request[s].op /\ request'[s].user = request[s].user
               /\ request'[s].at = request[s].at /\ request'[s].roles = request[s].roles
               /\ request'[s].mail = request[s].mail /\ request'[s].active = request[s].active
               /\ request'[s].loaded = request[s].loaded /\ request'[s].sent = request[s].sent
               /\ request'[s].wrote = request[s].wrote
               /\ request'[s].clash = IF s \in Busy(u)
                                      THEN request[s].clash \cup Common(q.op, request[s].op)
                                      ELSE request[s].clash
    <2> DEFINE more == Common(q.op, request[s].op)
    <2>1. request'[s] = IF s \in Busy(u)
                        THEN [request[s] EXCEPT !.clash = @ \cup more] ELSE request[s]
      BY DEF Joins
    <2>2. request[s] \in RequestType
      BY <1>1
    <2> HIDE DEF more
    <2> QED
      BY <2>1, <2>2 DEF RequestType, more
  <1> QED
    BY ZenonT(60), <1>2, <1>3

-----------------------------------------------------------------------------
(***************************************************************************)
(* What is read is there.                                                  *)
(***************************************************************************)

\* Only a row is copied into the cache, and every row has the first role.
Stored(u) ==
  /\ ~row[u].there => cache[u] = NoCopy
  /\ row[u].there => "user" \in row[u].roles

\* What a request has found by the call it is at, and what it asks for.
Informed(r) == LET q == request[r] IN
  /\ q.at \in {"fill", "save"} => q.loaded.there /\ "user" \in q.loaded.roles
  /\ q.at \in {"fill", "save", "forget", "record"} \/ q.op \in {"status", "roles"} =>
       row[q.user].there
  /\ q.op = "roles" => "user" \in q.roles
  /\ q.at = "record" => "user" \in q.roles
  /\ q.op \in {"read", "login"} => ~q.wrote
  /\ q.op = "create" /\ q.at # "account" => q.wrote
  /\ q.op = "login" /\ "roles" \in q.clash => "cache" \in q.clash

RowsInv ==
  /\ TypeOK
  /\ \A u \in Users : Stored(u)
  /\ \A r \in Requests : Informed(r)

\* A call of request r for user u.
LEMMA RowsKept ==
  ASSUME RowsInv, TypeOK', NEW r \in Requests, NEW u \in Users, OnlyHere(r, u),
         row[u].there => row'[u].there, Stored(u)',
         request'[r] = Idle \/ Informed(r)'
  PROVE  RowsInv'
  <1>1. ASSUME NEW v \in Users
        PROVE  Stored(v)' /\ (row[v].there => row'[v].there)
    <2>1. Stored(v)
      BY DEF RowsInv
    <2> QED
      BY <2>1 DEF OnlyHere, Stored
  <1>2. ASSUME NEW s \in Requests
        PROVE  Informed(s)'
    <2>1. CASE request'[s] = Idle
      BY <2>1 DEF Informed, Idle
    <2>2. CASE s # r
      <3>1. Informed(s) /\ request'[s] = request[s]
        BY <2>2 DEF RowsInv, OnlyHere
      <3>2. request[s].user \in Users
        BY RequestTyped DEF RowsInv
      <3> QED
        BY <3>1, <3>2, <1>1 DEF Informed
    <2> QED
      BY <2>1, <2>2
  <1> QED
    BY <1>1, <1>2 DEF RowsInv

LEMMA RowsStep ==
  ASSUME RowsInv, TypeOK', NEW r \in Requests, Step(r)
  PROVE  RowsInv'
  <1>t. TypeOK
    BY DEF RowsInv
  <1>q. PICK q \in RequestType : q = request[r]
    BY <1>t, RequestTyped
  <1>u. PICK u \in Users : u = q.user
    BY <1>q DEF RequestType
  <1>i. Stored(u) /\ Informed(r)
    BY DEF RowsInv
  <1>k. /\ keycloak[u] \in AccountType /\ row[u] \in RowType /\ cache[u] \in CopyType
        /\ row'[u] \in RowType
    BY <1>t, StoresTyped DEF TypeOK
  <1>1. ASSUME CreateAccount(r)
        PROVE  RowsInv'
    <2>0. OnlyHere(r, u) /\ CreateAccountDone(r, u, q)
      BY <1>1, <1>t, <1>q, <1>u, DoesCreateAccount
    <2>1. Stored(u)' /\ (row[u].there => row'[u].there)
      BY <2>0, <1>q, <1>u, <1>i, <1>k DEF CreateAccountDone, Stored, Informed, RowType
    <2>2. request'[r] = Idle \/ Informed(r)'
      BY <2>0, <2>1, <1>q, <1>u, <1>i
      DEF CreateAccountDone, GoesOn, GoesWritten, Goes, Breaks, Quits, Ends, Informed, Stored
    <2> QED
      BY <2>0, <2>1, <2>2, RowsKept
  <1>2. ASSUME GrantFirstRole(r)
        PROVE  RowsInv'
    <2>0. OnlyHere(r, u) /\ GrantFirstRoleDone(r, u, q)
      BY <1>2, <1>t, <1>q, <1>u, DoesGrantFirstRole
    <2>1. Stored(u)' /\ (row[u].there => row'[u].there)
      BY <2>0, <1>q, <1>u, <1>i, <1>k DEF GrantFirstRoleDone, Stored, Informed, RowType
    <2>2. request'[r] = Idle \/ Informed(r)'
      BY <2>0, <2>1, <1>q, <1>u, <1>i
      DEF GrantFirstRoleDone, GoesOn, GoesWritten, Goes, Breaks, Quits, Ends, Informed, Stored
    <2> QED
      BY <2>0, <2>1, <2>2, RowsKept
  <1>3. ASSUME InsertRow(r)
        PROVE  RowsInv'
    <2>0. OnlyHere(r, u) /\ InsertRowDone(r, u, q)
      BY <1>3, <1>t, <1>q, <1>u, DoesInsertRow
    <2>1. Stored(u)' /\ (row[u].there => row'[u].there)
      BY <2>0, <1>q, <1>u, <1>i, <1>k DEF InsertRowDone, Stored, Informed, RowType
    <2>2. request'[r] = Idle \/ Informed(r)'
      BY <2>0, <2>1, <1>q, <1>u, <1>i
      DEF InsertRowDone, GoesOn, GoesWritten, Goes, Breaks, Quits, Ends, Informed, Stored
    <2> QED
      BY <2>0, <2>1, <2>2, RowsKept
  <1>4. ASSUME RollbackAccount(r)
        PROVE  RowsInv'
    <2>0. OnlyHere(r, u) /\ RollbackAccountDone(r, u, q)
      BY <1>4, <1>t, <1>q, <1>u, DoesRollbackAccount
    <2>1. Stored(u)' /\ (row[u].there => row'[u].there)
      BY <2>0, <1>q, <1>u, <1>i, <1>k DEF RollbackAccountDone, Stored, Informed, RowType
    <2>2. request'[r] = Idle \/ Informed(r)'
      BY <2>0, <2>1, <1>q, <1>u, <1>i
      DEF RollbackAccountDone, GoesOn, GoesWritten, Goes, Breaks, Quits, Ends, Informed, Stored
    <2> QED
      BY <2>0, <2>1, <2>2, RowsKept
  <1>5. ASSUME LoadForCache(r)
        PROVE  RowsInv'
    <2>0. OnlyHere(r, u) /\ LoadForCacheDone(r, u, q)
      BY <1>5, <1>t, <1>q, <1>u, DoesLoadForCache
    <2>1. Stored(u)' /\ (row[u].there => row'[u].there)
      BY <2>0, <1>q, <1>u, <1>i, <1>k DEF LoadForCacheDone, Stored, Informed, RowType
    <2>2. request'[r] = Idle \/ Informed(r)'
      BY <2>0, <2>1, <1>q, <1>u, <1>i, <1>k
      DEF LoadForCacheDone, GoesOn, GoesWritten, Goes, Breaks, Quits, Ends, Informed, Stored
    <2> QED
      BY <2>0, <2>1, <2>2, RowsKept
  <1>6. ASSUME FillCache(r)
        PROVE  RowsInv'
    <2>0. OnlyHere(r, u) /\ FillCacheDone(r, u, q)
      BY <1>6, <1>t, <1>q, <1>u, DoesFillCache
    <2>1. Stored(u)' /\ (row[u].there => row'[u].there)
      BY <2>0, <1>q, <1>u, <1>i, <1>k DEF FillCacheDone, Stored, Informed, RowType
    <2>2. request'[r] = Idle \/ Informed(r)'
      BY <2>0, <2>1, <1>q, <1>u, <1>i
      DEF FillCacheDone, GoesOn, GoesWritten, Goes, Breaks, Quits, Ends, Informed, Stored
    <2> QED
      BY <2>0, <2>1, <2>2, RowsKept
  <1>7. ASSUME DropCopy(r)
        PROVE  RowsInv'
    <2>0. OnlyHere(r, u) /\ DropCopyDone(r, u, q)
      BY <1>7, <1>t, <1>q, <1>u, DoesDropCopy
    <2>1. Stored(u)' /\ (row[u].there => row'[u].there)
      BY <2>0, <1>q, <1>u, <1>i, <1>k DEF DropCopyDone, Stored, Informed, RowType
    <2>2. request'[r] = Idle \/ Informed(r)'
      BY <2>0, <2>1, <1>q, <1>u, <1>i
      DEF DropCopyDone, GoesOn, GoesWritten, Goes, Breaks, Quits, Ends, Informed, Stored
    <2> QED
      BY <2>0, <2>1, <2>2, RowsKept
  <1>8. ASSUME CompareMail(r)
        PROVE  RowsInv'
    <2>0. OnlyHere(r, u) /\ CompareMailDone(r, u, q)
      BY <1>8, <1>t, <1>q, <1>u, DoesCompareMail
    <2>1. Stored(u)' /\ (row[u].there => row'[u].there)
      BY <2>0, <1>q, <1>u, <1>i, <1>k DEF CompareMailDone, Stored, Informed, RowType
    <2>2. request'[r] = Idle \/ Informed(r)'
      BY <2>0, <2>1, <1>q, <1>u, <1>i
      DEF CompareMailDone, GoesOn, GoesWritten, Goes, Breaks, Quits, Ends, Informed, Stored
    <2> QED
      BY <2>0, <2>1, <2>2, RowsKept
  <1>9. ASSUME PushMail(r)
        PROVE  RowsInv'
    <2>0. OnlyHere(r, u) /\ PushMailDone(r, u, q)
      BY <1>9, <1>t, <1>q, <1>u, DoesPushMail
    <2>1. Stored(u)' /\ (row[u].there => row'[u].there)
      BY <2>0, <1>q, <1>u, <1>i, <1>k DEF PushMailDone, Stored, Informed, RowType
    <2>2. request'[r] = Idle \/ Informed(r)'
      BY <2>0, <2>1, <1>q, <1>u, <1>i
      DEF PushMailDone, GoesOn, GoesWritten, Goes, Breaks, Quits, Ends, Informed, Stored
    <2> QED
      BY <2>0, <2>1, <2>2, RowsKept
  <1>10. ASSUME LoadRow(r)
        PROVE  RowsInv'
    <2>0. OnlyHere(r, u) /\ LoadRowDone(r, u, q)
      BY <1>10, <1>t, <1>q, <1>u, DoesLoadRow
    <2>1. Stored(u)' /\ (row[u].there => row'[u].there)
      BY <2>0, <1>q, <1>u, <1>i, <1>k DEF LoadRowDone, Stored, Informed, RowType
    <2>2. request'[r] = Idle \/ Informed(r)'
      BY <2>0, <2>1, <1>q, <1>u, <1>i, <1>k
      DEF LoadRowDone, GoesOn, GoesWritten, Goes, Breaks, Quits, Ends, Informed, Stored
    <2> QED
      BY <2>0, <2>1, <2>2, RowsKept
  <1>11. ASSUME SaveRow(r)
        PROVE  RowsInv'
    <2>0. OnlyHere(r, u) /\ SaveRowDone(r, u, q)
      BY <1>11, <1>t, <1>q, <1>u, DoesSaveRow
    <2>1. Stored(u)' /\ (row[u].there => row'[u].there)
      BY <2>0, <1>q, <1>u, <1>i, <1>k DEF SaveRowDone, Stored, Informed, RowType
    <2>2. request'[r] = Idle \/ Informed(r)'
      BY <2>0, <2>1, <1>q, <1>u, <1>i
      DEF SaveRowDone, GoesOn, GoesWritten, Goes, Breaks, Quits, Ends, Informed, Stored
    <2> QED
      BY <2>0, <2>1, <2>2, RowsKept
  <1>12. ASSUME SetEnabled(r)
        PROVE  RowsInv'
    <2>0. OnlyHere(r, u) /\ SetEnabledDone(r, u, q)
      BY <1>12, <1>t, <1>q, <1>u, DoesSetEnabled
    <2>n. NextCall(q) \in {"revoke", "store", "forget"}
      <3>1. /\ q.at \in {"enable", "revoke", "store"}
            /\ q.at = "revoke" => ~q.active
        BY <2>0 DEF SetEnabledDone
      <3>2. q.active \in BOOLEAN
        BY DEF RequestType
      <3> QED
        BY <3>1, <3>2, NextCallOf
    <2>1. Stored(u)' /\ (row[u].there => row'[u].there)
      BY <2>0, <1>q, <1>u, <1>i, <1>k DEF SetEnabledDone, Stored, Informed, RowType
    <2>2. request'[r] = Idle \/ Informed(r)'
      BY <2>0, <2>1, <1>q, <1>u, <1>i, <2>n
      DEF SetEnabledDone, GoesOn, GoesWritten, Goes, Breaks, Quits, Ends, Informed, Stored
    <2> QED
      BY <2>0, <2>1, <2>2, RowsKept
  <1>13. ASSUME RevokeSessions(r)
        PROVE  RowsInv'
    <2>0. OnlyHere(r, u) /\ RevokeSessionsDone(r, u, q)
      BY <1>13, <1>t, <1>q, <1>u, DoesRevokeSessions
    <2>n. NextCall(q) \in {"revoke", "store", "forget"}
      <3>1. /\ q.at \in {"enable", "revoke", "store"}
            /\ q.at = "revoke" => ~q.active
        BY <2>0 DEF RevokeSessionsDone
      <3>2. q.active \in BOOLEAN
        BY DEF RequestType
      <3> QED
        BY <3>1, <3>2, NextCallOf
    <2>1. Stored(u)' /\ (row[u].there => row'[u].there)
      BY <2>0, <1>q, <1>u, <1>i, <1>k DEF RevokeSessionsDone, Stored, Informed, RowType
    <2>2. request'[r] = Idle \/ Informed(r)'
      BY <2>0, <2>1, <1>q, <1>u, <1>i, <2>n
      DEF RevokeSessionsDone, GoesOn, GoesWritten, Goes, Breaks, Quits, Ends, Informed, Stored
    <2> QED
      BY <2>0, <2>1, <2>2, RowsKept
  <1>14. ASSUME StoreStatus(r)
        PROVE  RowsInv'
    <2>0. OnlyHere(r, u) /\ StoreStatusDone(r, u, q)
      BY <1>14, <1>t, <1>q, <1>u, DoesStoreStatus
    <2>n. NextCall(q) \in {"revoke", "store", "forget"}
      <3>1. /\ q.at \in {"enable", "revoke", "store"}
            /\ q.at = "revoke" => ~q.active
        BY <2>0 DEF StoreStatusDone
      <3>2. q.active \in BOOLEAN
        BY DEF RequestType
      <3> QED
        BY <3>1, <3>2, NextCallOf
    <2>1. Stored(u)' /\ (row[u].there => row'[u].there)
      BY <2>0, <1>q, <1>u, <1>i, <1>k DEF StoreStatusDone, Stored, Informed, RowType
    <2>2. request'[r] = Idle \/ Informed(r)'
      BY <2>0, <2>1, <1>q, <1>u, <1>i, <2>n
      DEF StoreStatusDone, GoesOn, GoesWritten, Goes, Breaks, Quits, Ends, Informed, Stored
    <2> QED
      BY <2>0, <2>1, <2>2, RowsKept
  <1>15. ASSUME ListRoles(r)
        PROVE  RowsInv'
    <2>0. OnlyHere(r, u) /\ ListRolesDone(r, u, q)
      BY <1>15, <1>t, <1>q, <1>u, DoesListRoles
    <2>1. Stored(u)' /\ (row[u].there => row'[u].there)
      BY <2>0, <1>q, <1>u, <1>i, <1>k DEF ListRolesDone, Stored, Informed, RowType
    <2>2. request'[r] = Idle \/ Informed(r)'
      BY <2>0, <2>1, <1>q, <1>u, <1>i, <1>k
      DEF ListRolesDone, GoesOn, GoesWritten, Goes, Breaks, Quits, Ends, Informed, Stored, RowType
    <2> QED
      BY <2>0, <2>1, <2>2, RowsKept
  <1>16. ASSUME RemoveRoles(r)
        PROVE  RowsInv'
    <2>0. OnlyHere(r, u) /\ RemoveRolesDone(r, u, q)
      BY <1>16, <1>t, <1>q, <1>u, DoesRemoveRoles
    <2>1. Stored(u)' /\ (row[u].there => row'[u].there)
      BY <2>0, <1>q, <1>u, <1>i, <1>k DEF RemoveRolesDone, Stored, Informed, RowType
    <2>2. request'[r] = Idle \/ Informed(r)'
      BY <2>0, <2>1, <1>q, <1>u, <1>i
      DEF RemoveRolesDone, GoesOn, GoesWritten, Goes, Breaks, Quits, Ends, Informed, Stored
    <2> QED
      BY <2>0, <2>1, <2>2, RowsKept
  <1>17. ASSUME AssignRoles(r)
        PROVE  RowsInv'
    <2>0. OnlyHere(r, u) /\ AssignRolesDone(r, u, q)
      BY <1>17, <1>t, <1>q, <1>u, DoesAssignRoles
    <2>1. Stored(u)' /\ (row[u].there => row'[u].there)
      BY <2>0, <1>q, <1>u, <1>i, <1>k DEF AssignRolesDone, Stored, Informed, RowType
    <2>2. request'[r] = Idle \/ Informed(r)'
      BY <2>0, <2>1, <1>q, <1>u, <1>i
      DEF AssignRolesDone, GoesOn, GoesWritten, Goes, Breaks, Quits, Ends, Informed, Stored
    <2> QED
      BY <2>0, <2>1, <2>2, RowsKept
  <1>18. ASSUME StoreRoles(r)
        PROVE  RowsInv'
    <2>0. OnlyHere(r, u) /\ StoreRolesDone(r, u, q)
      BY <1>18, <1>t, <1>q, <1>u, DoesStoreRoles
    <2>1. Stored(u)' /\ (row[u].there => row'[u].there)
      BY <2>0, <1>q, <1>u, <1>i, <1>k DEF StoreRolesDone, Stored, Informed, RowType
    <2>2. request'[r] = Idle \/ Informed(r)'
      BY <2>0, <2>1, <1>q, <1>u, <1>i
      DEF StoreRolesDone, GoesOn, GoesWritten, Goes, Breaks, Quits, Ends, Informed, Stored
    <2> QED
      BY <2>0, <2>1, <2>2, RowsKept
  <1>19. ASSUME FindByUsername(r)
        PROVE  RowsInv'
    <2>0. OnlyHere(r, u) /\ FindByUsernameDone(r, u, q)
      BY <1>19, <1>t, <1>q, <1>u, DoesFindByUsername
    <2>1. Stored(u)' /\ (row[u].there => row'[u].there)
      BY <2>0, <1>q, <1>u, <1>i, <1>k DEF FindByUsernameDone, Stored, Informed, RowType
    <2>2. request'[r] = Idle \/ Informed(r)'
      BY <2>0, <2>1, <1>q, <1>u, <1>i, <1>k
      DEF FindByUsernameDone, GoesOn, GoesWritten, Goes, Breaks, Quits, Ends, Informed, Stored
    <2> QED
      BY <2>0, <2>1, <2>2, RowsKept
  <1>20. ASSUME RecordLogin(r)
        PROVE  RowsInv'
    <2>0. OnlyHere(r, u) /\ RecordLoginDone(r, u, q)
      BY <1>20, <1>t, <1>q, <1>u, DoesRecordLogin
    <2>1. Stored(u)' /\ (row[u].there => row'[u].there)
      BY <2>0, <1>q, <1>u, <1>i, <1>k DEF RecordLoginDone, Stored, Informed, RowType
    <2>2. request'[r] = Idle \/ Informed(r)'
      BY <2>0, <2>1, <1>q, <1>u, <1>i
      DEF RecordLoginDone, GoesOn, GoesWritten, Goes, Breaks, Quits, Ends, Informed, Stored
    <2> QED
      BY <2>0, <2>1, <2>2, RowsKept
  <1>21. ASSUME Refused(r)
        PROVE  RowsInv'
    <2>0. OnlyHere(r, u) /\ RefusedDone(r, u, q)
      BY <1>21, <1>t, <1>q, <1>u, DoesRefused
    <2>1. Stored(u)' /\ (row[u].there => row'[u].there)
      BY <2>0, <1>q, <1>u, <1>i, <1>k DEF RefusedDone, Stored, Informed, RowType
    <2>2. request'[r] = Idle \/ Informed(r)'
      BY <2>0, <2>1, <1>q, <1>u, <1>i
      DEF RefusedDone, GoesOn, GoesWritten, Goes, Breaks, Quits, Ends, Informed, Stored
    <2> QED
      BY <2>0, <2>1, <2>2, RowsKept
  <1>22. ASSUME NEW s \in Sessions, IssueToken(r, s)
        PROVE  RowsInv'
    <2>0. OnlyHere(r, u) /\ IssueTokenDone(r, u, q)
      BY <1>22, <1>t, <1>q, <1>u, DoesIssueToken
    <2>1. Stored(u)' /\ (row[u].there => row'[u].there)
      BY <2>0, <1>q, <1>u, <1>i, <1>k DEF IssueTokenDone, Stored, Informed, RowType
    <2>2. request'[r] = Idle \/ Informed(r)'
      BY <2>0, <2>1, <1>q, <1>u, <1>i, <1>k
      DEF IssueTokenDone, GoesOn, GoesWritten, Goes, Breaks, Quits, Ends, Informed, Stored
    <2> QED
      BY <2>0, <2>1, <2>2, RowsKept
  <1> QED
    BY <1>1, <1>2, <1>3, <1>4, <1>5, <1>6, <1>7, <1>8, <1>9, <1>10, <1>11, <1>12, <1>13, <1>14, <1>15, <1>16, <1>17, <1>18, <1>19, <1>20, <1>21, <1>22 DEF Step

LEMMA CommonMeans ==
  ASSUME NEW a \in Ops, NEW b \in Ops, NEW x
  PROVE  x \in Common(a, b) <=>
           x \in Touches(a) /\ x \in Touches(b) /\ (a # "read" \/ b # "read")
  BY DEF Common

\* Whoever works on the roles works on the cached copy.
LEMMA RolesTouchCopy ==
  ASSUME NEW op \in Ops
  PROVE  "roles" \in Touches(op) => "cache" \in Touches(op) /\ op # "read"
  BY DEF Touches, Ops, Aspects

LEMMA RowsBegin ==
  ASSUME RowsInv, TypeOK', NEW r \in Requests, NEW u \in Users, Begin(r, u)
  PROVE  RowsInv'
  <1>t. TypeOK
    BY DEF RowsInv
  <1>0. UNCHANGED <<keycloak, sessions, row, cache, doubt>>
    BY <1>t, DoesBegin
  <1>1. PICK q \in RequestType : Fresh(q, u) /\ Joins(r, u, q)
    BY <1>t, DoesBegin
  <1>o. q.op \in Ops /\ \A s \in Requests : request[s].op \in Ops
    BY <1>t, RequestTyped DEF RequestType, Ops
  <1>2. \A v \in Users : Stored(v)'
    BY <1>0 DEF RowsInv, Stored
  <1>3. \A s \in Requests : "roles" \in Common(q.op, request[s].op)
                              => "cache" \in Common(q.op, request[s].op)
    BY <1>o, CommonMeans, RolesTouchCopy
  <1>4. ASSUME NEW s \in Requests
        PROVE  Informed(s)'
    <2>1. CASE s = r
      <3>1. /\ request'[r].op = q.op /\ request'[r].user = u /\ request'[r].at = q.at
            /\ request'[r].roles = q.roles /\ ~request'[r].wrote
            /\ \A a : a \in request'[r].clash <=>
                        \E o \in Busy(u) : a \in Common(q.op, request[o].op)
        BY <1>1, <1>t, JoinsMeans
      <3>2. "roles" \in request'[r].clash => "cache" \in request'[r].clash
        BY <3>1, <1>3 DEF Busy
      <3> QED
        BY <2>1, <3>1, <3>2, <1>0, <1>1 DEF Informed, Fresh
    <2>2. CASE s # r
      <3>1. /\ request'[s].op = request[s].op /\ request'[s].user = request[s].user
            /\ request'[s].at = request[s].at /\ request'[s].roles = request[s].roles
            /\ request'[s].loaded = request[s].loaded /\ request'[s].wrote = request[s].wrote
            /\ \A a : a \in request'[s].clash <=>
                        \/ a \in request[s].clash
                        \/ s \in Busy(u) /\ a \in Common(q.op, request[s].op)
        BY <2>2, <1>1, <1>t, JoinsMeans
      <3>2. Informed(s)
        BY DEF RowsInv
      <3> QED
        BY <3>1, <3>2, <1>0, <1>3 DEF Informed
    <2> QED
      BY <2>1, <2>2
  <1> QED
    BY <1>2, <1>4 DEF RowsInv

\* What is cached is the copy of a row, every row has the first role, and a
\* request past its first look at the row finds it there.
LEMMA RowsHold == Spec => []RowsInv
  <1>1. Init => RowsInv
    <2> SUFFICES ASSUME Init
                 PROVE  RowsInv
      OBVIOUS
    <2>1. TypeOK
      BY IdleType, NoRowType, DirectoryAssumption
      DEF Init, TypeOK, NoAccount, NoCopy, Copy, RowType
    <2>2. \A v \in Users : Stored(v)
      BY DEF Init, Stored, NoRow
    <2>3. \A s \in Requests : Informed(s)
      BY DEF Init, Informed, Idle
    <2> QED
      BY <2>1, <2>2, <2>3 DEF RowsInv
  <1>2. TypeOK' /\ RowsInv /\ [Next]_vars => RowsInv'
    <2> SUFFICES ASSUME TypeOK', RowsInv, [Next]_vars
                 PROVE  RowsInv'
      OBVIOUS
    <2>1. ASSUME NEW r \in Requests, NEW u \in Users, Begin(r, u)
          PROVE  RowsInv'
      BY <2>1, RowsBegin
    <2>2. ASSUME NEW r \in Requests, Step(r)
          PROVE  RowsInv'
      BY <2>2, RowsStep
    <2>3. ASSUME NEW u \in Users, Expire(u)
          PROVE  RowsInv'
      <3>1. \A v \in Users : cache'[v] = cache[v] \/ cache'[v] = NoCopy
        BY <2>3 DEF Expire, RowsInv, TypeOK
      <3> QED
        BY <2>3, <3>1 DEF Expire, RowsInv, Stored, Informed
    <2>4. ASSUME NEW u \in Users, EndAllSessions(u) \/ \E s \in Sessions : EndSession(u, s)
          PROVE  RowsInv'
      BY <2>4 DEF EndAllSessions, EndSession, RowsInv, Stored, Informed
    <2>5. ASSUME Crash
          PROVE  RowsInv'
      <3>1. \A s \in Requests : request'[s] = Idle
        BY <2>5 DEF Crash
      <3> QED
        BY <2>5, <3>1 DEF Crash, RowsInv, Stored, Informed, Idle
    <2>6. CASE UNCHANGED vars
      BY <2>6 DEF vars, RowsInv, Stored, Informed
    <2> QED
      BY <2>1, <2>2, <2>3, <2>4, <2>5, <2>6 DEF Next
  <1> QED
    BY <1>1, <1>2, DirectoryTypes, PTL DEF Spec

-----------------------------------------------------------------------------
(***************************************************************************)
(* An account for every row and a row for every account.                   *)
(***************************************************************************)

\* Request r is registering u, whose account exists by now.
Pending(r, u) ==
  /\ request[r].op = "create" /\ request[r].user = u
  /\ request[r].at \in {"grant", "insert", "rollback"}

\* Keycloak lets one registration of u at a time past its first call.  Unless
\* u is in doubt, its row comes last, and without a registration account and
\* row go together.
Paired(u) ==
  /\ \A r, s \in Requests : Pending(r, u) /\ Pending(s, u) => r = s
  /\ \A r \in Requests : Pending(r, u) => keycloak[u].there /\ request[r].wrote
  /\ "account" \notin doubt[u] =>
       IF \E r \in Requests : Pending(r, u)
       THEN ~row[u].there
       ELSE keycloak[u].there <=> row[u].there

PairsInv == TypeOK /\ \A u \in Users : Paired(u)

\* A call of request r for user u.
LEMMA PairsKept ==
  ASSUME PairsInv, TypeOK', NEW r \in Requests, NEW u \in Users, u = request[r].user,
         OnlyHere(r, u), request'[r] = Idle \/ request'[r].user = u, Paired(u)'
  PROVE  PairsInv'
  <1>1. ASSUME NEW v \in Users \ {u}
        PROVE  Paired(v)'
    <2>1. Paired(v)
      BY DEF PairsInv
    <2>2. ASSUME NEW s \in Requests
          PROVE  Pending(s, v)' <=> Pending(s, v)
      BY DEF Pending, OnlyHere, Idle
    <2>3. ASSUME NEW s \in Requests, Pending(s, v)
          PROVE  request'[s] = request[s]
      BY <2>3 DEF Pending, OnlyHere
    <2>4. keycloak'[v] = keycloak[v] /\ row'[v] = row[v] /\ doubt'[v] = doubt[v]
      BY DEF OnlyHere
    <2> QED
      BY <2>1, <2>2, <2>3, <2>4 DEF Paired
  <1> QED
    BY <1>1 DEF PairsInv

\* A call that makes nothing and removes nothing.
LEMMA PairsRest ==
  ASSUME PairsInv, TypeOK', NEW r \in Requests, NEW u \in Users, u = request[r].user,
         OnlyHere(r, u), ~Pending(r, u),
         \/ request'[r] = Idle
         \/ request'[r].user = u /\ request'[r].op # "create",
         keycloak'[u].there = keycloak[u].there, row'[u].there = row[u].there,
         "account" \in doubt[u] => "account" \in doubt'[u]
  PROVE  PairsInv'
  <1>1. Paired(u)
    BY DEF PairsInv
  <1>2. ASSUME NEW s \in Requests
        PROVE  Pending(s, u)' <=> Pending(s, u)
    BY DEF Pending, OnlyHere, Idle
  <1>3. ASSUME NEW s \in Requests, Pending(s, u)
        PROVE  request'[s] = request[s]
    BY <1>3 DEF Pending, OnlyHere
  <1>4. Paired(u)'
    BY <1>1, <1>2, <1>3 DEF Paired
  <1> QED
    BY <1>4, PairsKept

LEMMA PairsCreate ==
  ASSUME PairsInv, TypeOK', NEW r \in Requests,
         CreateAccount(r) \/ GrantFirstRole(r) \/ InsertRow(r) \/ RollbackAccount(r)
  PROVE  PairsInv'
  <1>t. TypeOK
    BY DEF PairsInv
  <1>q. PICK q \in RequestType : q = request[r]
    BY <1>t, RequestTyped
  <1>u. PICK u \in Users : u = q.user
    BY <1>q DEF RequestType
  <1>p. Paired(u)
    BY DEF PairsInv
  <1>k. keycloak[u] \in AccountType
    BY <1>t, StoresTyped
  <1>o. ASSUME NEW s \in Requests \ {r}, OnlyHere(r, u)
        PROVE  (Pending(s, u)' <=> Pending(s, u)) /\ request'[s] = request[s]
    BY <1>o DEF Pending, OnlyHere
  <1>1. ASSUME CreateAccount(r)
        PROVE  PairsInv'
    <2>1. OnlyHere(r, u) /\ CreateAccountDone(r, u, q)
      BY <1>1, <1>t, <1>q, <1>u, DoesCreateAccount
    <2>2. /\ ~keycloak[u].there /\ keycloak'[u].there /\ row'[u] = row[u]
          /\ \/ Goes(r, q, "grant") /\ request'[r].wrote /\ doubt'[u] = doubt[u]
             \/ request'[r] = Idle /\ "account" \in doubt'[u]
      BY <2>1 DEF CreateAccountDone, GoesWritten, Aspects
    <2>3. \A s \in Requests : ~Pending(s, u)
      BY <2>2, <1>p DEF Paired
    <2>4. \A s \in Requests \ {r} : ~Pending(s, u)'
      BY <2>1, <2>3, <1>o
    <2>5. CASE Goes(r, q, "grant") /\ request'[r].wrote /\ doubt'[u] = doubt[u]
      <3>1. "account" \notin doubt[u] => ~row[u].there
        BY <2>2, <2>3, <1>p DEF Paired
      <3>p. Pending(r, u)'
        BY <2>1, <2>5, <1>u DEF Pending, Goes, CreateAccountDone
      <3>2. Paired(u)'
        BY <2>2, <2>4, <2>5, <3>1, <3>p DEF Paired
      <3> QED
        BY <3>2, <2>1, <2>5, <1>q, <1>u, PairsKept DEF Goes
    <2>6. CASE request'[r] = Idle /\ "account" \in doubt'[u]
      <3>1. ~Pending(r, u)'
        BY <2>6 DEF Pending, Idle
      <3>2. Paired(u)'
        BY <2>4, <2>6, <3>1 DEF Paired
      <3> QED
        BY <3>2, <2>1, <2>6, <1>q, <1>u, PairsKept
    <2> QED
      BY <2>2, <2>5, <2>6
  <1>2. ASSUME GrantFirstRole(r)
        PROVE  PairsInv'
    <2>1. OnlyHere(r, u) /\ GrantFirstRoleDone(r, u, q)
      BY <1>2, <1>t, <1>q, <1>u, DoesGrantFirstRole
    <2>2. /\ keycloak'[u].there = keycloak[u].there /\ row'[u] = row[u]
          /\ Goes(r, q, "insert") \/ Goes(r, q, "rollback")
          /\ request'[r].wrote = q.wrote /\ doubt'[u] = doubt[u]
      BY <2>1, <1>k DEF GrantFirstRoleDone, GoesOn, AccountType
    <2>3. Pending(r, u) /\ Pending(r, u)'
      BY <2>1, <2>2, <1>q, <1>u DEF Pending, Goes, GrantFirstRoleDone
    <2>4. Paired(u)'
      BY <2>1, <2>2, <2>3, <1>o, <1>p, <1>q DEF Paired
    <2> QED
      BY <2>1, <2>2, <2>4, <1>q, <1>u, PairsKept DEF Goes
  <1>3. ASSUME InsertRow(r)
        PROVE  PairsInv'
    <2>1. OnlyHere(r, u) /\ InsertRowDone(r, u, q)
      BY <1>3, <1>t, <1>q, <1>u, DoesInsertRow
    <2>2. keycloak'[u] = keycloak[u]
      BY <2>1 DEF InsertRowDone
    <2>3. Pending(r, u)
      BY <2>1, <1>q, <1>u DEF Pending, InsertRowDone
    <2>4. \A s \in Requests \ {r} : ~Pending(s, u)'
      BY <2>1, <2>3, <1>o, <1>p DEF Paired
    <2>5. CASE row'[u].there /\ Ends(r, u, q)
      <3>1. request'[r] = Idle /\ ~Pending(r, u)'
        BY <2>5 DEF Ends, Pending, Idle
      <3>2. keycloak[u].there
        BY <2>3, <1>p DEF Paired
      <3>3. Paired(u)'
        BY <2>2, <2>4, <2>5, <3>1, <3>2 DEF Paired
      <3> QED
        BY <3>1, <3>3, <2>1, <1>q, <1>u, PairsKept
    <2>6. CASE /\ Goes(r, q, "rollback") /\ request'[r].wrote = q.wrote
               /\ \/ doubt'[u] = doubt[u] \cup {"account"}
                  \/ row'[u] = row[u] /\ doubt'[u] = doubt[u]
      <3>1. request'[r].wrote /\ keycloak[u].there
        BY <2>3, <2>6, <1>p, <1>q DEF Paired
      <3>2. "account" \notin doubt'[u] => ~row'[u].there
        BY <2>3, <2>6, <1>p DEF Paired
      <3>p. Pending(r, u)'
        BY <2>1, <2>6, <1>u DEF Pending, Goes, InsertRowDone
      <3>3. Paired(u)'
        BY <2>2, <2>4, <3>1, <3>2, <3>p DEF Paired
      <3> QED
        BY <3>3, <2>1, <2>6, <1>q, <1>u, PairsKept DEF Goes
    <2> QED
      BY <2>1, <2>5, <2>6 DEF InsertRowDone, GoesOn
  <1>4. ASSUME RollbackAccount(r)
        PROVE  PairsInv'
    <2>1. OnlyHere(r, u) /\ RollbackAccountDone(r, u, q)
      BY <1>4, <1>t, <1>q, <1>u, DoesRollbackAccount
    <2>2. Pending(r, u)
      BY <2>1, <1>q, <1>u DEF Pending, RollbackAccountDone
    <2>3. q.wrote
      BY <2>2, <1>p, <1>q DEF Paired
    <2>4. /\ request'[r] = Idle /\ row'[u] = row[u]
          /\ \/ ~keycloak'[u].there /\ ("account" \in doubt[u] => "account" \in doubt'[u])
             \/ "account" \in doubt'[u]
      BY <2>1, <2>3 DEF RollbackAccountDone, Breaks, NoAccount, Aspects
    <2>5. \A s \in Requests : ~Pending(s, u)'
      <3>1. ~Pending(r, u)'
        BY <2>4 DEF Pending, Idle
      <3> QED
        BY <3>1, <2>1, <2>2, <1>o, <1>p DEF Paired
    <2>6. "account" \notin doubt[u] => ~row[u].there
      BY <2>2, <1>p DEF Paired
    <2>7. Paired(u)'
      BY <2>4, <2>5, <2>6 DEF Paired
    <2> QED
      BY <2>1, <2>4, <2>7, <1>q, <1>u, PairsKept
  <1> QED
    BY <1>1, <1>2, <1>3, <1>4

LEMMA PairsStep ==
  ASSUME PairsInv, RowsInv, TypeOK', NEW r \in Requests, Step(r)
  PROVE  PairsInv'
  <1>t. TypeOK
    BY DEF PairsInv
  <1>q. PICK q \in RequestType : q = request[r]
    BY <1>t, RequestTyped
  <1>u. PICK u \in Users : u = q.user
    BY <1>q DEF RequestType
  <1>i. Informed(r)
    BY DEF RowsInv
  <1>k. keycloak[u] \in AccountType /\ row[u] \in RowType
    BY <1>t, StoresTyped
  <1>1. ASSUME LoadForCache(r)
        PROVE  PairsInv'
    <2>0. OnlyHere(r, u) /\ LoadForCacheDone(r, u, q)
      BY <1>1, <1>t, <1>q, <1>u, DoesLoadForCache
    <2>1. keycloak'[u].there = keycloak[u].there /\ row'[u].there = row[u].there
      BY <2>0, <1>q, <1>u, <1>i, <1>k DEF LoadForCacheDone, Informed, AccountType, RowType
    <2>2. /\ \/ request'[r] = Idle
             \/ request'[r].user = u /\ request'[r].op # "create"
          /\ ~Pending(r, u)
          /\ "account" \in doubt[u] => "account" \in doubt'[u]
      BY <2>0, <1>q, <1>u
      DEF LoadForCacheDone, GoesOn, GoesWritten, Goes, Breaks, Quits, Ends, Final, Pending
    <2> QED
      BY <2>0, <2>1, <2>2, <1>q, <1>u, PairsRest
  <1>2. ASSUME FillCache(r)
        PROVE  PairsInv'
    <2>0. OnlyHere(r, u) /\ FillCacheDone(r, u, q)
      BY <1>2, <1>t, <1>q, <1>u, DoesFillCache
    <2>1. keycloak'[u].there = keycloak[u].there /\ row'[u].there = row[u].there
      BY <2>0, <1>q, <1>u, <1>i, <1>k DEF FillCacheDone, Informed, AccountType, RowType
    <2>2. /\ \/ request'[r] = Idle
             \/ request'[r].user = u /\ request'[r].op # "create"
          /\ ~Pending(r, u)
          /\ "account" \in doubt[u] => "account" \in doubt'[u]
      BY <2>0, <1>q, <1>u
      DEF FillCacheDone, GoesOn, GoesWritten, Goes, Breaks, Quits, Ends, Final, Pending
    <2> QED
      BY <2>0, <2>1, <2>2, <1>q, <1>u, PairsRest
  <1>3. ASSUME DropCopy(r)
        PROVE  PairsInv'
    <2>0. OnlyHere(r, u) /\ DropCopyDone(r, u, q)
      BY <1>3, <1>t, <1>q, <1>u, DoesDropCopy
    <2>1. keycloak'[u].there = keycloak[u].there /\ row'[u].there = row[u].there
      BY <2>0, <1>q, <1>u, <1>i, <1>k DEF DropCopyDone, Informed, AccountType, RowType
    <2>2. /\ \/ request'[r] = Idle
             \/ request'[r].user = u /\ request'[r].op # "create"
          /\ ~Pending(r, u)
          /\ "account" \in doubt[u] => "account" \in doubt'[u]
      BY <2>0, <1>q, <1>u
      DEF DropCopyDone, GoesOn, GoesWritten, Goes, Breaks, Quits, Ends, Final, Pending
    <2> QED
      BY <2>0, <2>1, <2>2, <1>q, <1>u, PairsRest
  <1>4. ASSUME CompareMail(r)
        PROVE  PairsInv'
    <2>0. OnlyHere(r, u) /\ CompareMailDone(r, u, q)
      BY <1>4, <1>t, <1>q, <1>u, DoesCompareMail
    <2>1. keycloak'[u].there = keycloak[u].there /\ row'[u].there = row[u].there
      BY <2>0, <1>q, <1>u, <1>i, <1>k DEF CompareMailDone, Informed, AccountType, RowType
    <2>2. /\ \/ request'[r] = Idle
             \/ request'[r].user = u /\ request'[r].op # "create"
          /\ ~Pending(r, u)
          /\ "account" \in doubt[u] => "account" \in doubt'[u]
      BY <2>0, <1>q, <1>u
      DEF CompareMailDone, GoesOn, GoesWritten, Goes, Breaks, Quits, Ends, Final, Pending
    <2> QED
      BY <2>0, <2>1, <2>2, <1>q, <1>u, PairsRest
  <1>5. ASSUME PushMail(r)
        PROVE  PairsInv'
    <2>0. OnlyHere(r, u) /\ PushMailDone(r, u, q)
      BY <1>5, <1>t, <1>q, <1>u, DoesPushMail
    <2>1. keycloak'[u].there = keycloak[u].there /\ row'[u].there = row[u].there
      BY <2>0, <1>q, <1>u, <1>i, <1>k DEF PushMailDone, Informed, AccountType, RowType
    <2>2. /\ \/ request'[r] = Idle
             \/ request'[r].user = u /\ request'[r].op # "create"
          /\ ~Pending(r, u)
          /\ "account" \in doubt[u] => "account" \in doubt'[u]
      BY <2>0, <1>q, <1>u
      DEF PushMailDone, GoesOn, GoesWritten, Goes, Breaks, Quits, Ends, Final, Pending
    <2> QED
      BY <2>0, <2>1, <2>2, <1>q, <1>u, PairsRest
  <1>6. ASSUME LoadRow(r)
        PROVE  PairsInv'
    <2>0. OnlyHere(r, u) /\ LoadRowDone(r, u, q)
      BY <1>6, <1>t, <1>q, <1>u, DoesLoadRow
    <2>1. keycloak'[u].there = keycloak[u].there /\ row'[u].there = row[u].there
      BY <2>0, <1>q, <1>u, <1>i, <1>k DEF LoadRowDone, Informed, AccountType, RowType
    <2>2. /\ \/ request'[r] = Idle
             \/ request'[r].user = u /\ request'[r].op # "create"
          /\ ~Pending(r, u)
          /\ "account" \in doubt[u] => "account" \in doubt'[u]
      BY <2>0, <1>q, <1>u
      DEF LoadRowDone, GoesOn, GoesWritten, Goes, Breaks, Quits, Ends, Final, Pending
    <2> QED
      BY <2>0, <2>1, <2>2, <1>q, <1>u, PairsRest
  <1>7. ASSUME SaveRow(r)
        PROVE  PairsInv'
    <2>0. OnlyHere(r, u) /\ SaveRowDone(r, u, q)
      BY <1>7, <1>t, <1>q, <1>u, DoesSaveRow
    <2>1. keycloak'[u].there = keycloak[u].there /\ row'[u].there = row[u].there
      BY <2>0, <1>q, <1>u, <1>i, <1>k DEF SaveRowDone, Informed, AccountType, RowType
    <2>2. /\ \/ request'[r] = Idle
             \/ request'[r].user = u /\ request'[r].op # "create"
          /\ ~Pending(r, u)
          /\ "account" \in doubt[u] => "account" \in doubt'[u]
      BY <2>0, <1>q, <1>u
      DEF SaveRowDone, GoesOn, GoesWritten, Goes, Breaks, Quits, Ends, Final, Pending
    <2> QED
      BY <2>0, <2>1, <2>2, <1>q, <1>u, PairsRest
  <1>8. ASSUME SetEnabled(r)
        PROVE  PairsInv'
    <2>0. OnlyHere(r, u) /\ SetEnabledDone(r, u, q)
      BY <1>8, <1>t, <1>q, <1>u, DoesSetEnabled
    <2>1. keycloak'[u].there = keycloak[u].there /\ row'[u].there = row[u].there
      BY <2>0, <1>q, <1>u, <1>i, <1>k DEF SetEnabledDone, Informed, AccountType, RowType
    <2>2. /\ \/ request'[r] = Idle
             \/ request'[r].user = u /\ request'[r].op # "create"
          /\ ~Pending(r, u)
          /\ "account" \in doubt[u] => "account" \in doubt'[u]
      BY <2>0, <1>q, <1>u
      DEF SetEnabledDone, GoesOn, GoesWritten, Goes, Breaks, Quits, Ends, Final, Pending
    <2> QED
      BY <2>0, <2>1, <2>2, <1>q, <1>u, PairsRest
  <1>9. ASSUME RevokeSessions(r)
        PROVE  PairsInv'
    <2>0. OnlyHere(r, u) /\ RevokeSessionsDone(r, u, q)
      BY <1>9, <1>t, <1>q, <1>u, DoesRevokeSessions
    <2>1. keycloak'[u].there = keycloak[u].there /\ row'[u].there = row[u].there
      BY <2>0, <1>q, <1>u, <1>i, <1>k DEF RevokeSessionsDone, Informed, AccountType, RowType
    <2>2. /\ \/ request'[r] = Idle
             \/ request'[r].user = u /\ request'[r].op # "create"
          /\ ~Pending(r, u)
          /\ "account" \in doubt[u] => "account" \in doubt'[u]
      BY <2>0, <1>q, <1>u
      DEF RevokeSessionsDone, GoesOn, GoesWritten, Goes, Breaks, Quits, Ends, Final, Pending
    <2> QED
      BY <2>0, <2>1, <2>2, <1>q, <1>u, PairsRest
  <1>10. ASSUME StoreStatus(r)
        PROVE  PairsInv'
    <2>0. OnlyHere(r, u) /\ StoreStatusDone(r, u, q)
      BY <1>10, <1>t, <1>q, <1>u, DoesStoreStatus
    <2>1. keycloak'[u].there = keycloak[u].there /\ row'[u].there = row[u].there
      BY <2>0, <1>q, <1>u, <1>i, <1>k DEF StoreStatusDone, Informed, AccountType, RowType
    <2>2. /\ \/ request'[r] = Idle
             \/ request'[r].user = u /\ request'[r].op # "create"
          /\ ~Pending(r, u)
          /\ "account" \in doubt[u] => "account" \in doubt'[u]
      BY <2>0, <1>q, <1>u
      DEF StoreStatusDone, GoesOn, GoesWritten, Goes, Breaks, Quits, Ends, Final, Pending
    <2> QED
      BY <2>0, <2>1, <2>2, <1>q, <1>u, PairsRest
  <1>11. ASSUME ListRoles(r)
        PROVE  PairsInv'
    <2>0. OnlyHere(r, u) /\ ListRolesDone(r, u, q)
      BY <1>11, <1>t, <1>q, <1>u, DoesListRoles
    <2>1. keycloak'[u].there = keycloak[u].there /\ row'[u].there = row[u].there
      BY <2>0, <1>q, <1>u, <1>i, <1>k DEF ListRolesDone, Informed, AccountType, RowType
    <2>2. /\ \/ request'[r] = Idle
             \/ request'[r].user = u /\ request'[r].op # "create"
          /\ ~Pending(r, u)
          /\ "account" \in doubt[u] => "account" \in doubt'[u]
      BY <2>0, <1>q, <1>u
      DEF ListRolesDone, GoesOn, GoesWritten, Goes, Breaks, Quits, Ends, Final, Pending
    <2> QED
      BY <2>0, <2>1, <2>2, <1>q, <1>u, PairsRest
  <1>12. ASSUME RemoveRoles(r)
        PROVE  PairsInv'
    <2>0. OnlyHere(r, u) /\ RemoveRolesDone(r, u, q)
      BY <1>12, <1>t, <1>q, <1>u, DoesRemoveRoles
    <2>1. keycloak'[u].there = keycloak[u].there /\ row'[u].there = row[u].there
      BY <2>0, <1>q, <1>u, <1>i, <1>k DEF RemoveRolesDone, Informed, AccountType, RowType
    <2>2. /\ \/ request'[r] = Idle
             \/ request'[r].user = u /\ request'[r].op # "create"
          /\ ~Pending(r, u)
          /\ "account" \in doubt[u] => "account" \in doubt'[u]
      BY <2>0, <1>q, <1>u
      DEF RemoveRolesDone, GoesOn, GoesWritten, Goes, Breaks, Quits, Ends, Final, Pending
    <2> QED
      BY <2>0, <2>1, <2>2, <1>q, <1>u, PairsRest
  <1>13. ASSUME AssignRoles(r)
        PROVE  PairsInv'
    <2>0. OnlyHere(r, u) /\ AssignRolesDone(r, u, q)
      BY <1>13, <1>t, <1>q, <1>u, DoesAssignRoles
    <2>1. keycloak'[u].there = keycloak[u].there /\ row'[u].there = row[u].there
      BY <2>0, <1>q, <1>u, <1>i, <1>k DEF AssignRolesDone, Informed, AccountType, RowType
    <2>2. /\ \/ request'[r] = Idle
             \/ request'[r].user = u /\ request'[r].op # "create"
          /\ ~Pending(r, u)
          /\ "account" \in doubt[u] => "account" \in doubt'[u]
      BY <2>0, <1>q, <1>u
      DEF AssignRolesDone, GoesOn, GoesWritten, Goes, Breaks, Quits, Ends, Final, Pending
    <2> QED
      BY <2>0, <2>1, <2>2, <1>q, <1>u, PairsRest
  <1>14. ASSUME StoreRoles(r)
        PROVE  PairsInv'
    <2>0. OnlyHere(r, u) /\ StoreRolesDone(r, u, q)
      BY <1>14, <1>t, <1>q, <1>u, DoesStoreRoles
    <2>1. keycloak'[u].there = keycloak[u].there /\ row'[u].there = row[u].there
      BY <2>0, <1>q, <1>u, <1>i, <1>k DEF StoreRolesDone, Informed, AccountType, RowType
    <2>2. /\ \/ request'[r] = Idle
             \/ request'[r].user = u /\ request'[r].op # "create"
          /\ ~Pending(r, u)
          /\ "account" \in doubt[u] => "account" \in doubt'[u]
      BY <2>0, <1>q, <1>u
      DEF StoreRolesDone, GoesOn, GoesWritten, Goes, Breaks, Quits, Ends, Final, Pending
    <2> QED
      BY <2>0, <2>1, <2>2, <1>q, <1>u, PairsRest
  <1>15. ASSUME FindByUsername(r)
        PROVE  PairsInv'
    <2>0. OnlyHere(r, u) /\ FindByUsernameDone(r, u, q)
      BY <1>15, <1>t, <1>q, <1>u, DoesFindByUsername
    <2>1. keycloak'[u].there = keycloak[u].there /\ row'[u].there = row[u].there
      BY <2>0, <1>q, <1>u, <1>i, <1>k DEF FindByUsernameDone, Informed, AccountType, RowType
    <2>2. /\ \/ request'[r] = Idle
             \/ request'[r].user = u /\ request'[r].op # "create"
          /\ ~Pending(r, u)
          /\ "account" \in doubt[u] => "account" \in doubt'[u]
      BY <2>0, <1>q, <1>u
      DEF FindByUsernameDone, GoesOn, GoesWritten, Goes, Breaks, Quits, Ends, Final, Pending
    <2> QED
      BY <2>0, <2>1, <2>2, <1>q, <1>u, PairsRest
  <1>16. ASSUME RecordLogin(r)
        PROVE  PairsInv'
    <2>0. OnlyHere(r, u) /\ RecordLoginDone(r, u, q)
      BY <1>16, <1>t, <1>q, <1>u, DoesRecordLogin
    <2>1. keycloak'[u].there = keycloak[u].there /\ row'[u].there = row[u].there
      BY <2>0, <1>q, <1>u, <1>i, <1>k DEF RecordLoginDone, Informed, AccountType, RowType
    <2>2. /\ \/ request'[r] = Idle
             \/ request'[r].user = u /\ request'[r].op # "create"
          /\ ~Pending(r, u)
          /\ "account" \in doubt[u] => "account" \in doubt'[u]
      BY <2>0, <1>q, <1>u
      DEF RecordLoginDone, GoesOn, GoesWritten, Goes, Breaks, Quits, Ends, Final, Pending
    <2> QED
      BY <2>0, <2>1, <2>2, <1>q, <1>u, PairsRest
  <1>17. ASSUME Refused(r)
        PROVE  PairsInv'
    <2>0. OnlyHere(r, u) /\ RefusedDone(r, u, q)
      BY <1>17, <1>t, <1>q, <1>u, DoesRefused
    <2>1. keycloak'[u].there = keycloak[u].there /\ row'[u].there = row[u].there
      BY <2>0, <1>q, <1>u, <1>i, <1>k DEF RefusedDone, Informed, AccountType, RowType
    <2>2. /\ \/ request'[r] = Idle
             \/ request'[r].user = u /\ request'[r].op # "create"
          /\ ~Pending(r, u)
          /\ "account" \in doubt[u] => "account" \in doubt'[u]
      BY <2>0, <1>q, <1>u
      DEF RefusedDone, GoesOn, GoesWritten, Goes, Breaks, Quits, Ends, Final, Pending
    <2> QED
      BY <2>0, <2>1, <2>2, <1>q, <1>u, PairsRest
  <1>18. ASSUME NEW s \in Sessions, IssueToken(r, s)
        PROVE  PairsInv'
    <2>0. OnlyHere(r, u) /\ IssueTokenDone(r, u, q)
      BY <1>18, <1>t, <1>q, <1>u, DoesIssueToken
    <2>1. keycloak'[u].there = keycloak[u].there /\ row'[u].there = row[u].there
      BY <2>0, <1>q, <1>u, <1>i, <1>k DEF IssueTokenDone, Informed, AccountType, RowType
    <2>2. /\ \/ request'[r] = Idle
             \/ request'[r].user = u /\ request'[r].op # "create"
          /\ ~Pending(r, u)
          /\ "account" \in doubt[u] => "account" \in doubt'[u]
      BY <2>0, <1>q, <1>u
      DEF IssueTokenDone, GoesOn, GoesWritten, Goes, Breaks, Quits, Ends, Final, Pending
    <2> QED
      BY <2>0, <2>1, <2>2, <1>q, <1>u, PairsRest
  <1> QED
    BY <1>1, <1>2, <1>3, <1>4, <1>5, <1>6, <1>7, <1>8, <1>9, <1>10, <1>11, <1>12, <1>13, <1>14, <1>15, <1>16, <1>17, <1>18, PairsCreate DEF Step

\* A registration leaves an account and a row, or neither, for any number of
\* users and requests, through any refused call: the rollback of createUser.
THEOREM AccountsStayPaired == Spec => []AccountsPaired
  <1>1. Init => PairsInv
    <2> SUFFICES ASSUME Init
                 PROVE  PairsInv
      OBVIOUS
    <2>1. TypeOK
      BY IdleType, NoRowType, DirectoryAssumption
      DEF Init, TypeOK, NoAccount, NoCopy, Copy, RowType
    <2>2. \A s \in Requests, v \in Users : ~Pending(s, v)
      BY DEF Init, Pending, Idle
    <2>3. \A v \in Users : ~keycloak[v].there /\ ~row[v].there
      BY DEF Init, NoAccount, NoRow
    <2> QED
      BY <2>1, <2>2, <2>3 DEF PairsInv, Paired
  <1>2. TypeOK' /\ RowsInv /\ PairsInv /\ [Next]_vars => PairsInv'
    <2> SUFFICES ASSUME TypeOK', RowsInv, PairsInv, [Next]_vars
                 PROVE  PairsInv'
      OBVIOUS
    <2>1. ASSUME NEW r \in Requests, NEW u \in Users, Begin(r, u)
          PROVE  PairsInv'
      <3>t. TypeOK
        BY DEF PairsInv
      <3>0. UNCHANGED <<keycloak, sessions, row, cache, doubt>>
        BY <2>1, <3>t, DoesBegin
      <3>1. PICK q \in RequestType : Fresh(q, u) /\ Joins(r, u, q)
        BY <2>1, <3>t, DoesBegin
      <3>2. ~\E v \in Users : Pending(r, v) \/ Pending(r, v)'
        BY <3>1, <3>t, JoinsMeans DEF Joins, Fresh, Pending, Idle
      <3>3. ASSUME NEW s \in Requests \ {r}, NEW v \in Users
            PROVE  /\ Pending(s, v)' <=> Pending(s, v)
                   /\ request'[s].wrote = request[s].wrote
        <4>1. /\ request'[s].op = request[s].op /\ request'[s].user = request[s].user
              /\ request'[s].at = request[s].at /\ request'[s].wrote = request[s].wrote
          BY <3>1, <3>t, JoinsMeans
        <4> QED
          BY <4>1 DEF Pending
      <3>4. ASSUME NEW v \in Users
            PROVE  Paired(v)'
        <4>1. Paired(v)
          BY DEF PairsInv
        <4>2. \A s \in Requests : Pending(s, v)' <=> Pending(s, v)
          BY <3>2, <3>3
        <4>3. \A s \in Requests : Pending(s, v) => request'[s].wrote = request[s].wrote
          BY <3>2, <3>3
        <4> QED
          BY <4>1, <4>2, <4>3, <3>0 DEF Paired
      <3> QED
        BY <3>4 DEF PairsInv
    <2>2. ASSUME NEW r \in Requests, Step(r)
          PROVE  PairsInv'
      BY <2>2, PairsStep
    <2>3. ASSUME NEW u \in Users, Expire(u)
          PROVE  PairsInv'
      <3>1. \A v \in Users : "account" \in doubt'[v] <=> "account" \in doubt[v]
        BY <2>3 DEF Expire, PairsInv, TypeOK
      <3> QED
        BY <2>3, <3>1 DEF Expire, PairsInv, Paired, Pending
    <2>4. ASSUME NEW u \in Users, EndAllSessions(u) \/ \E s \in Sessions : EndSession(u, s)
          PROVE  PairsInv'
      BY <2>4 DEF EndAllSessions, EndSession, PairsInv, Paired, Pending
    <2>5. ASSUME Crash
          PROVE  PairsInv'
      <3>t. \A s \in Requests : request[s].op \in Ops
        BY RequestTyped DEF PairsInv
      <3>1. \A s \in Requests : request'[s] = Idle
        BY <2>5 DEF Crash
      <3>i. Idle.op = "none"
        BY DEF Idle
      <3>2. \A s \in Requests, v \in Users : ~Pending(s, v)'
        BY <3>1, <3>i DEF Pending
      <3>3. ASSUME NEW v \in Users, "account" \notin doubt'[v]
            PROVE  "account" \notin doubt[v] /\ \A s \in Requests : ~Pending(s, v)
        <4>1. doubt'[v] = doubt[v] \cup
                UNION {Touches(request[s].op) : s \in {o \in Busy(v) : request[o].wrote}}
          BY <2>5 DEF Crash
        <4>2. ASSUME NEW s \in Requests, Pending(s, v)
              PROVE  FALSE
          <5>1. s \in Busy(v) /\ request[s].wrote
            BY <4>2 DEF Busy, Pending, PairsInv, Paired
          <5>2. "account" \in Touches(request[s].op)
            BY <4>2 DEF Pending, Touches, Aspects
          <5> QED
            BY <4>1, <5>1, <5>2, <3>3
        <4> QED
          BY <4>1, <4>2, <3>3
      <3> QED
        BY <2>5, <3>2, <3>3 DEF Crash, PairsInv, Paired
    <2>6. CASE UNCHANGED vars
      BY <2>6 DEF vars, PairsInv, Paired, Pending
    <2> QED
      BY <2>1, <2>2, <2>3, <2>4, <2>5, <2>6 DEF Next
  <1>3. PairsInv => AccountsPaired
    <2> SUFFICES ASSUME PairsInv, NEW u \in Users, Settled(u, "account")
                 PROVE  keycloak[u].there <=> row[u].there
      BY DEF AccountsPaired
    <2>1. \A r \in Requests : ~Pending(r, u)
      BY DEF Settled, Busy, Pending, Touches, Aspects
    <2> QED
      BY <2>1 DEF Settled, PairsInv, Paired
  <1> QED
    BY <1>1, <1>2, <1>3, DirectoryTypes, RowsHold, PTL DEF Spec

-----------------------------------------------------------------------------
(***************************************************************************)
(* The directories and the cache agree.                                    *)
(***************************************************************************)

Views == {"mail", "roles", "cache"}

WorksAt(r, u, a) == request[r].user = u /\ a \in Touches(request[r].op)

Together(r, s) == request[r].op # "read" \/ request[s].op # "read"

Alone(r, a) == a \notin request[r].clash

\* A request that has changed nothing of the aspect so far: a PATCH alone on the
\* row writes the roles back as they are, and the address unless it sent one.
Untouched(r, a) == LET q == request[r] IN
  \/ ~q.wrote
  \/ q.op = "patch" /\ Alone(r, a) /\ (a = "roles" \/ (a = "mail" /\ ~q.sent))

Same(u, a) ==
  /\ a = "mail" /\ row[u].there /\ keycloak[u].there => keycloak[u].mail = row[u].mail
  /\ a = "roles" /\ row[u].there /\ keycloak[u].there => keycloak[u].roles = row[u].roles
  /\ a = "cache" => cache[u] \in {NoCopy, Copy(row[u])}

\* Requests that work on one aspect know of each other, except two reads.
Marked(u, a) ==
  \A r, s \in Requests :
    r # s /\ WorksAt(r, u, a) /\ WorksAt(s, u, a) /\ Together(r, s) => ~Alone(r, a)

\* Until somebody changes something, or leaves it in doubt, both sides agree.
Untroubled(u, a) ==
  a \notin doubt[u] /\ (\A r \in Requests : WorksAt(r, u, a) => Untouched(r, a)) => Same(u, a)

\* What a request alone on an aspect has brought about by the call it is at.
MailSoFar(r) == LET q == request[r]  u == q.user IN
  /\ q.op = "create" /\ q.at \in {"grant", "insert"} => keycloak[u].mail = q.mail
  /\ q.op = "patch" =>
     /\ q.at \in {"compare", "push"} => q.mail # NoMail /\ ~q.sent
     /\ q.at \in {"load", "save"} /\ q.sent => keycloak[u].mail = q.mail
     /\ q.at \in {"load", "save"} /\ ~q.sent /\ q.mail # NoMail => row[u].mail = q.mail
     /\ q.at = "save" => q.loaded.mail = row[u].mail
     /\ q.sent => q.mail # NoMail /\ q.wrote
     /\ q.at = "forget" /\ q.sent /\ keycloak[u].there => keycloak[u].mail = row[u].mail

RolesSoFar(r) == LET q == request[r]  u == q.user IN
  /\ q.op = "create" =>
     /\ q.at = "grant" => keycloak[u].roles = {}
     /\ q.at = "insert" => keycloak[u].roles = {"user"}
  /\ q.op = "patch" /\ q.at = "save" => q.loaded.roles = row[u].roles
  /\ q.op = "roles" =>
     /\ q.at = "remove" => keycloak[u].roles = q.loaded.roles
     /\ q.at = "assign" => keycloak[u].roles = q.loaded.roles \cap q.roles
     /\ q.at = "store" => keycloak[u].roles = q.roles
     /\ q.at = "forget" => row[u].roles = q.roles /\ keycloak[u].roles = q.roles
  /\ q.op = "login" /\ q.at \in {"find", "record"} =>
     /\ keycloak[u].there
     /\ q.sent => keycloak[u].roles = q.roles /\ "user" \in q.roles
     /\ ~q.sent /\ row[u].there => "roles" \in doubt[u]

CopySoFar(r) == LET q == request[r] IN
  q.op = "read" /\ q.at = "fill" => Copy(q.loaded) = Copy(row[q.user])

SoFar(r, a) == Alone(r, a) =>
  /\ a = "mail" => MailSoFar(r)
  /\ a = "roles" => RolesSoFar(r)
  /\ a = "cache" => CopySoFar(r)

InStep(u, a) ==
  /\ Marked(u, a)
  /\ Untroubled(u, a)
  /\ \A r \in Requests : WorksAt(r, u, a) => SoFar(r, a)

StepInv == TypeOK /\ \A u \in Users, a \in Views : InStep(u, a)

\* The stores say the same of this aspect of v.
SameView(v, a) ==
  /\ row'[v].there = row[v].there /\ keycloak'[v].there = keycloak[v].there
  /\ a = "mail" => row'[v].mail = row[v].mail /\ keycloak'[v].mail = keycloak[v].mail
  /\ a = "roles" => row'[v].roles = row[v].roles /\ keycloak'[v].roles = keycloak[v].roles
  /\ a = "cache" => cache'[v] = cache[v] /\ Copy(row'[v]) = Copy(row[v])

DoubtKept(v, a) == a \in doubt[v] => a \in doubt'[v]

\* Request s is where it was.
SameRecord(s) ==
  /\ request'[s].op = request[s].op /\ request'[s].user = request[s].user
  /\ request'[s].at = request[s].at /\ request'[s].roles = request[s].roles
  /\ request'[s].mail = request[s].mail /\ request'[s].loaded = request[s].loaded
  /\ request'[s].sent = request[s].sent /\ request'[s].wrote = request[s].wrote

LEMMA WorksAtMeans ==
  ASSUME NEW op \in Ops
  PROVE  /\ "mail" \in Touches(op) <=> op \in {"create", "patch"}
         /\ "roles" \in Touches(op) <=> op \in {"create", "patch", "roles", "login"}
         /\ "cache" \in Touches(op) <=> op # "none"
  BY DEF Touches, Ops, Aspects

LEMMA SameKept ==
  ASSUME NEW v \in Users, NEW a \in Views, SameView(v, a)
  PROVE  Same(v, a)' <=> Same(v, a)
  BY DEF SameView, Same, Views

LEMMA SoFarKept ==
  ASSUME NEW v \in Users, NEW a \in Views, NEW s \in Requests, request[s].user = v,
         SameView(v, a), DoubtKept(v, a), SameRecord(s), SoFar(s, a),
         Alone(s, a)' => Alone(s, a)
  PROVE  SoFar(s, a)'
  <1> SUFFICES ASSUME Alone(s, a)'
               PROVE  /\ a = "mail" => MailSoFar(s)'
                      /\ a = "roles" => RolesSoFar(s)'
                      /\ a = "cache" => CopySoFar(s)'
    BY DEF SoFar
  <1>1. Alone(s, a)
    OBVIOUS
  <1>2. a = "mail" => MailSoFar(s)'
    BY <1>1 DEF SameView, SameRecord, SoFar, MailSoFar
  <1>3. a = "roles" => RolesSoFar(s)'
    BY <1>1 DEF SameView, SameRecord, SoFar, RolesSoFar, DoubtKept
  <1>4. a = "cache" => CopySoFar(s)'
    BY <1>1 DEF SameView, SameRecord, SoFar, CopySoFar
  <1> QED
    BY <1>2, <1>3, <1>4

\* A step that leaves this aspect of v alone.
LEMMA StepElsewhere ==
  ASSUME NEW v \in Users, NEW a \in Views, InStep(v, a), SameView(v, a), DoubtKept(v, a),
         \A s \in Requests : \/ ~WorksAt(s, v, a) /\ ~WorksAt(s, v, a)'
                             \/ SameRecord(s) /\ (Alone(s, a)' <=> Alone(s, a))
  PROVE  InStep(v, a)'
  <1>1. \A s \in Requests : WorksAt(s, v, a)' <=> WorksAt(s, v, a)
    BY DEF SameRecord, WorksAt
  <1>2. ASSUME NEW s \in Requests, WorksAt(s, v, a)
        PROVE  SameRecord(s) /\ (Alone(s, a)' <=> Alone(s, a))
    BY <1>2
  <1>3. Marked(v, a)'
    <2> SUFFICES ASSUME NEW r \in Requests, NEW s \in Requests, r # s,
                        WorksAt(r, v, a)', WorksAt(s, v, a)', Together(r, s)'
                 PROVE  ~Alone(r, a)'
      BY DEF Marked
    <2>1. WorksAt(r, v, a) /\ WorksAt(s, v, a)
      BY <1>1
    <2>2. Together(r, s)
      BY <2>1, <1>2 DEF Together, SameRecord
    <2>3. ~Alone(r, a)
      BY <2>1, <2>2 DEF InStep, Marked
    <2> QED
      BY <2>1, <2>3, <1>2
  <1>4. Untroubled(v, a)'
    <2> SUFFICES ASSUME a \notin doubt'[v],
                        \A s \in Requests : WorksAt(s, v, a)' => Untouched(s, a)'
                 PROVE  Same(v, a)'
      BY DEF Untroubled
    <2>1. ASSUME NEW s \in Requests, WorksAt(s, v, a)
          PROVE  Untouched(s, a)
      <3>1. Untouched(s, a)' /\ SameRecord(s) /\ (Alone(s, a)' <=> Alone(s, a))
        BY <2>1, <1>1, <1>2
      <3> QED
        BY <3>1 DEF Untouched, SameRecord
    <2>2. Same(v, a)
      BY <2>1 DEF InStep, Untroubled, DoubtKept
    <2> QED
      BY <2>2, SameKept
  <1>5. ASSUME NEW s \in Requests, WorksAt(s, v, a)'
        PROVE  SoFar(s, a)'
    <2>1. WorksAt(s, v, a)
      BY <1>1, <1>5
    <2>2. SoFar(s, a) /\ request[s].user = v
      BY <2>1 DEF InStep, WorksAt
    <2> QED
      BY <2>1, <2>2, <1>2, SoFarKept
  <1> QED
    BY <1>3, <1>4, <1>5 DEF InStep

\* Request r works on the aspect alone and has changed nothing of it so far.
LEMMA AloneAgrees ==
  ASSUME NEW u \in Users, NEW a \in Views, NEW r \in Requests, InStep(u, a),
         WorksAt(r, u, a), Alone(r, a), Untouched(r, a), request[r].op # "read",
         a \notin doubt[u]
  PROVE  Same(u, a)
  <1>1. ASSUME NEW s \in Requests, WorksAt(s, u, a)
        PROVE  s = r
    BY <1>1 DEF InStep, Marked, Together
  <1> QED
    BY <1>1 DEF InStep, Untroubled

\* A call of request r, whose record is q, is fine for aspect a of its user u.
Fine(r, u, q, a) ==
  \/ a \notin Touches(q.op) /\ SameView(u, a) /\ DoubtKept(u, a)
  \/ /\ a \in Touches(q.op)
     /\ request'[r] = Idle \/ SoFar(r, a)'
     /\ q.op # "read" \/ Copy(row'[u]) = Copy(row[u])
     /\ \/ a \in doubt'[u]
        \/ Same(u, a)'
        \/ request'[r].op = q.op /\ ~Untouched(r, a)'
        \/ Untouched(r, a) /\ SameView(u, a) /\ DoubtKept(u, a)

LEMMA StepKept ==
  ASSUME StepInv, TypeOK', NEW r \in Requests, NEW q \in RequestType, q = request[r],
         NEW u \in Users, u = q.user, OnlyHere(r, u),
         \/ request'[r] = Idle
         \/ /\ request'[r].op = q.op /\ request'[r].user = u /\ request'[r].clash = q.clash,
         \A a \in Views : Fine(r, u, q, a)
  PROVE  StepInv'
  <1>i. Idle.op = "none" /\ \A a : a \notin Touches("none")
    BY DEF Idle, Touches
  <1>1. ASSUME NEW v \in Users \ {u}, NEW a \in Views
        PROVE  InStep(v, a)'
    <2>1. InStep(v, a)
      BY DEF StepInv
    <2>2. SameView(v, a) /\ DoubtKept(v, a)
      BY DEF OnlyHere, SameView, DoubtKept
    <2>3. ASSUME NEW s \in Requests
          PROVE  \/ ~WorksAt(s, v, a) /\ ~WorksAt(s, v, a)'
                 \/ SameRecord(s) /\ (Alone(s, a)' <=> Alone(s, a))
      <3>1. CASE s = r
        BY <3>1, <1>i DEF WorksAt
      <3>2. CASE s # r
        BY <3>2 DEF OnlyHere, SameRecord, Alone
      <3> QED
        BY <3>1, <3>2
    <2> QED
      BY <2>1, <2>2, <2>3, StepElsewhere
  <1>2. ASSUME NEW a \in Views
        PROVE  InStep(u, a)'
    <2>0. InStep(u, a) /\ Fine(r, u, q, a)
      BY DEF StepInv
    <2>1. CASE a \notin Touches(q.op) /\ SameView(u, a) /\ DoubtKept(u, a)
      <3>1. ASSUME NEW s \in Requests
            PROVE  \/ ~WorksAt(s, u, a) /\ ~WorksAt(s, u, a)'
                   \/ SameRecord(s) /\ (Alone(s, a)' <=> Alone(s, a))
        <4>1. CASE s = r
          BY <4>1, <2>1, <1>i DEF WorksAt
        <4>2. CASE s # r
          BY <4>2 DEF OnlyHere, SameRecord, Alone
        <4> QED
          BY <4>1, <4>2
      <3> QED
        BY <2>0, <2>1, <3>1, StepElsewhere
    <2>2. CASE ~(a \notin Touches(q.op) /\ SameView(u, a) /\ DoubtKept(u, a))
      <3>0. /\ a \in Touches(q.op)
            /\ request'[r] = Idle \/ SoFar(r, a)'
            /\ q.op # "read" \/ Copy(row'[u]) = Copy(row[u])
            /\ \/ a \in doubt'[u]
               \/ Same(u, a)'
               \/ request'[r].op = q.op /\ ~Untouched(r, a)'
               \/ Untouched(r, a) /\ SameView(u, a) /\ DoubtKept(u, a)
        BY <2>0, <2>2 DEF Fine
      <3>1. ASSUME NEW s \in Requests, WorksAt(s, u, a)'
            PROVE  /\ WorksAt(s, u, a) /\ (Alone(s, a)' <=> Alone(s, a))
                   /\ request'[s].op = request[s].op
        <4>1. CASE s = r
          BY <4>1, <3>1, <1>i DEF WorksAt, Alone
        <4>2. CASE s # r
          BY <4>2, <3>1 DEF OnlyHere, WorksAt, Alone
        <4> QED
          BY <4>1, <4>2
      <3>2. Marked(u, a)'
        <4> SUFFICES ASSUME NEW s \in Requests, NEW o \in Requests, s # o,
                            WorksAt(s, u, a)', WorksAt(o, u, a)', Together(s, o)'
                     PROVE  ~Alone(s, a)'
          BY DEF Marked
        <4>1. Together(s, o)
          BY <3>1 DEF Together
        <4>2. ~Alone(s, a)
          BY <4>1, <3>1, <2>0 DEF InStep, Marked
        <4> QED
          BY <4>2, <3>1
      <3>3. ASSUME NEW s \in Requests, WorksAt(s, u, a)'
            PROVE  SoFar(s, a)'
        <4>1. CASE s = r
          <5>1. request'[r] # Idle
            BY <4>1, <3>3, <1>i DEF WorksAt
          <5> QED
            BY <4>1, <5>1, <3>0
        <4>2. CASE s # r
          <5>1. WorksAt(s, u, a) /\ SoFar(s, a) /\ request'[s] = request[s]
            BY <4>2, <3>1, <3>3, <2>0 DEF InStep, OnlyHere
          <5>2. CASE WorksAt(r, u, a) /\ Together(s, r)
            <6>1. ~Alone(s, a)
              BY <5>1, <5>2, <4>2, <2>0 DEF InStep, Marked
            <6> QED
              BY <6>1, <5>1 DEF SoFar, Alone
          <5>3. CASE q.op = "read" /\ request[s].op = "read"
            <6>1. a = "cache"
              BY <5>1, <5>3 DEF WorksAt, Touches, Views
            <6>2. Alone(s, a) => CopySoFar(s)
              BY <5>1, <6>1 DEF SoFar
            <6>3. Alone(s, a)' => CopySoFar(s)'
              BY <5>1, <5>3, <6>2, <3>0 DEF CopySoFar, WorksAt, Alone
            <6> QED
              BY <6>1, <6>3 DEF SoFar
          <5> QED
            BY <5>1, <5>2, <5>3, <3>0 DEF Together, WorksAt
        <4> QED
          BY <4>1, <4>2
      <3>4. Untroubled(u, a)'
        <4> SUFFICES ASSUME a \notin doubt'[u],
                            \A s \in Requests : WorksAt(s, u, a)' => Untouched(s, a)'
                     PROVE  Same(u, a)'
          BY DEF Untroubled
        <4>1. CASE request'[r].op = q.op /\ ~Untouched(r, a)'
          <5>1. request'[r].user = u
            BY <4>1, <3>0, <1>i
          <5>2. WorksAt(r, u, a)'
            BY <4>1, <5>1, <3>0 DEF WorksAt
          <5> QED
            BY <4>1, <5>2
        <4>2. CASE Untouched(r, a) /\ SameView(u, a) /\ DoubtKept(u, a)
          <5>1. ASSUME NEW s \in Requests, WorksAt(s, u, a)
                PROVE  Untouched(s, a)
            <6>1. CASE s = r
              BY <6>1, <4>2
            <6>2. CASE s # r
              <7>1. WorksAt(s, u, a)' /\ request'[s] = request[s]
                BY <6>2, <5>1 DEF OnlyHere, WorksAt
              <7>2. Untouched(s, a)'
                BY <7>1
              <7> QED
                BY <7>1, <7>2 DEF Untouched, Alone
            <6> QED
              BY <6>1, <6>2
          <5>2. Same(u, a)
            BY <5>1, <4>2, <2>0 DEF InStep, Untroubled, DoubtKept
          <5> QED
            BY <5>2, <4>2, SameKept
        <4> QED
          BY <4>1, <4>2, <3>0
      <3> QED
        BY <3>2, <3>3, <3>4 DEF InStep
    <2> QED
      BY <2>1, <2>2
  <1> QED
    BY <1>1, <1>2 DEF StepInv

\* A login that works on the roles alone stores the roles the row has already,
\* unless they were in doubt.
LEMMA LoginAgrees ==
  ASSUME StepInv, RowsInv, NEW r \in Requests, NEW u \in Users, u = request[r].user,
         request[r].op = "login", request[r].at = "record", Alone(r, "roles"),
         "roles" \notin doubt[u]
  PROVE  request[r].roles = row[u].roles
  <1>1. InStep(u, "roles") /\ Informed(r)
    BY DEF StepInv, RowsInv, Views
  <1>2. WorksAt(r, u, "roles")
    BY DEF WorksAt, Touches
  <1>3. SoFar(r, "roles")
    BY <1>1, <1>2 DEF InStep
  <1>4. RolesSoFar(r)
    BY <1>3 DEF SoFar
  <1>5. row[u].there /\ ~request[r].wrote
    BY <1>1 DEF Informed
  <1>6. keycloak[u].there /\ keycloak[u].roles = request[r].roles
    BY <1>4, <1>5 DEF RolesSoFar
  <1>7. Same(u, "roles")
    BY <1>1, <1>2, <1>5, AloneAgrees DEF Untouched, Views
  <1> QED
    BY <1>5, <1>6, <1>7 DEF Same

LEMMA StepStep ==
  ASSUME StepInv, RowsInv, TypeOK', NEW r \in Requests, Step(r)
  PROVE  StepInv'
  <1>t. TypeOK
    BY DEF StepInv
  <1>q. PICK q \in RequestType : q = request[r]
    BY <1>t, RequestTyped
  <1>u. PICK u \in Users : u = q.user
    BY <1>q DEF RequestType
  <1>i. Informed(r) /\ Stored(u)
    BY DEF RowsInv
  <1>k. keycloak[u] \in AccountType /\ row[u] \in RowType
    BY <1>t, StoresTyped
  <1>w. /\ "mail" \in Touches(q.op) <=> q.op \in {"create", "patch"}
        /\ "roles" \in Touches(q.op) <=> q.op \in {"create", "patch", "roles", "login"}
        /\ "cache" \in Touches(q.op) <=> q.op # "none"
    BY WorksAtMeans DEF RequestType, Ops
  <1>s. \A a \in Views : a \in Touches(q.op) => SoFar(r, a)
    BY <1>q, <1>u DEF StepInv, InStep, WorksAt
  <1>v. Views = {"mail", "roles", "cache"}
    BY DEF Views
  <1>1. ASSUME CreateAccount(r)
        PROVE  StepInv'
    <2>0. OnlyHere(r, u) /\ CreateAccountDone(r, u, q)
      BY <1>1, <1>t, <1>q, <1>u, DoesCreateAccount
    <2>1. \/ request'[r] = Idle
          \/ request'[r].op = q.op /\ request'[r].user = u /\ request'[r].clash = q.clash
      BY <2>0, <1>u DEF CreateAccountDone, GoesOn, GoesWritten, Goes, Breaks, Quits, Ends, Final
    <2>2. Fine(r, u, q, "mail")
      <3>1. "mail" \in Touches(q.op)
        BY <2>0, <1>w DEF CreateAccountDone
      <3>2. request'[r] = Idle \/ SoFar(r, "mail")'
        BY <2>0, <3>1, <1>q, <1>u, <1>i, <1>k, <1>s, <1>v
        DEF CreateAccountDone, GoesOn, GoesWritten, Goes, Breaks, Quits, Ends, Final, SoFar, Alone, MailSoFar, Informed, AccountType, RowType
      <3>3. \/ "mail" \in doubt'[u]
            \/ Same(u, "mail")'
            \/ request'[r].op = q.op /\ ~Untouched(r, "mail")'
            \/ Untouched(r, "mail") /\ SameView(u, "mail") /\ DoubtKept(u, "mail")
        BY <2>0, <3>1, <1>q, <1>u, <1>i, <1>k, <1>s, <1>v
        DEF CreateAccountDone, GoesOn, GoesWritten, Goes, Breaks, Quits, Ends, Final, SoFar, Alone, MailSoFar, Informed, SameView,
            DoubtKept, Untouched, Same, AccountType, RowType, Aspects
      <3> QED
        BY <2>0, <3>1, <3>2, <3>3 DEF Fine, CreateAccountDone
    <2>3. Fine(r, u, q, "roles")
      <3>1. "roles" \in Touches(q.op)
        BY <2>0, <1>w DEF CreateAccountDone
      <3>2. request'[r] = Idle \/ SoFar(r, "roles")'
        BY <2>0, <3>1, <1>q, <1>u, <1>i, <1>k, <1>s, <1>v
        DEF CreateAccountDone, GoesOn, GoesWritten, Goes, Breaks, Quits, Ends, Final, SoFar, Alone, RolesSoFar, Informed, AccountType, RowType
      <3>3. \/ "roles" \in doubt'[u]
            \/ Same(u, "roles")'
            \/ request'[r].op = q.op /\ ~Untouched(r, "roles")'
            \/ Untouched(r, "roles") /\ SameView(u, "roles") /\ DoubtKept(u, "roles")
        BY <2>0, <3>1, <1>q, <1>u, <1>i, <1>k, <1>s, <1>v
        DEF CreateAccountDone, GoesOn, GoesWritten, Goes, Breaks, Quits, Ends, Final, SoFar, Alone, RolesSoFar, Informed, SameView,
            DoubtKept, Untouched, Same, AccountType, RowType, Aspects
      <3> QED
        BY <2>0, <3>1, <3>2, <3>3 DEF Fine, CreateAccountDone
    <2>4. Fine(r, u, q, "cache")
      <3>1. "cache" \in Touches(q.op)
        BY <2>0, <1>w DEF CreateAccountDone
      <3>2. request'[r] = Idle \/ SoFar(r, "cache")'
        BY <2>0, <3>1, <1>q, <1>u, <1>i, <1>k, <1>s, <1>v
        DEF CreateAccountDone, GoesOn, GoesWritten, Goes, Breaks, Quits, Ends, Final, SoFar, Alone, CopySoFar, Informed, AccountType, RowType, Copy
      <3>3. \/ "cache" \in doubt'[u]
            \/ Same(u, "cache")'
            \/ request'[r].op = q.op /\ ~Untouched(r, "cache")'
            \/ Untouched(r, "cache") /\ SameView(u, "cache") /\ DoubtKept(u, "cache")
        BY <2>0 DEF CreateAccountDone, GoesWritten, Goes, Untouched, Aspects
      <3> QED
        BY <2>0, <3>1, <3>2, <3>3 DEF Fine, CreateAccountDone
    <2> QED
      BY <2>0, <2>1, <2>2, <2>3, <2>4, <1>q, <1>u, <1>v, StepKept
  <1>2. ASSUME GrantFirstRole(r)
        PROVE  StepInv'
    <2>0. OnlyHere(r, u) /\ GrantFirstRoleDone(r, u, q)
      BY <1>2, <1>t, <1>q, <1>u, DoesGrantFirstRole
    <2>1. \/ request'[r] = Idle
          \/ request'[r].op = q.op /\ request'[r].user = u /\ request'[r].clash = q.clash
      BY <2>0, <1>u DEF GrantFirstRoleDone, GoesOn, GoesWritten, Goes, Breaks, Quits, Ends, Final
    <2>2. Fine(r, u, q, "mail")
      BY <2>0, <1>q, <1>u, <1>i, <1>k, <1>w, <1>s, <1>v
      DEF GrantFirstRoleDone, GoesOn, GoesWritten, Goes, Breaks, Quits, Ends, Final,
          Fine, SameView, DoubtKept, SoFar, Alone, Untouched, Same, Informed, MailSoFar, AccountType, RowType
    <2>3. Fine(r, u, q, "roles")
      <3>1. "roles" \in Touches(q.op)
        BY <2>0, <1>w DEF GrantFirstRoleDone
      <3>2. request'[r] = Idle \/ SoFar(r, "roles")'
        BY <2>0, <3>1, <1>q, <1>u, <1>i, <1>k, <1>s, <1>v
        DEF GrantFirstRoleDone, GoesOn, GoesWritten, Goes, Breaks, Quits, Ends, Final, SoFar, Alone, RolesSoFar, Informed, AccountType, RowType
      <3>3. \/ "roles" \in doubt'[u]
            \/ Same(u, "roles")'
            \/ request'[r].op = q.op /\ ~Untouched(r, "roles")'
            \/ Untouched(r, "roles") /\ SameView(u, "roles") /\ DoubtKept(u, "roles")
        BY <2>0, <3>1, <1>q, <1>u, <1>i, <1>k, <1>s, <1>v
        DEF GrantFirstRoleDone, GoesOn, GoesWritten, Goes, Breaks, Quits, Ends, Final, SoFar, Alone, RolesSoFar, Informed, SameView,
            DoubtKept, Untouched, Same, AccountType, RowType, Aspects
      <3> QED
        BY <2>0, <3>1, <3>2, <3>3 DEF Fine, GrantFirstRoleDone
    <2>4. Fine(r, u, q, "cache")
      BY <2>0, <1>q, <1>u, <1>i, <1>k, <1>w, <1>s, <1>v
      DEF GrantFirstRoleDone, GoesOn, GoesWritten, Goes, Breaks, Quits, Ends, Final,
          Fine, SameView, DoubtKept, SoFar, Alone, Untouched, Same, Informed, CopySoFar, AccountType, RowType, Copy
    <2> QED
      BY <2>0, <2>1, <2>2, <2>3, <2>4, <1>q, <1>u, <1>v, StepKept
  <1>3. ASSUME InsertRow(r)
        PROVE  StepInv'
    <2>0. OnlyHere(r, u) /\ InsertRowDone(r, u, q)
      BY <1>3, <1>t, <1>q, <1>u, DoesInsertRow
    <2>1. \/ request'[r] = Idle
          \/ request'[r].op = q.op /\ request'[r].user = u /\ request'[r].clash = q.clash
      BY <2>0, <1>u DEF InsertRowDone, GoesOn, GoesWritten, Goes, Breaks, Quits, Ends, Final
    <2>2. Fine(r, u, q, "mail")
      <3>1. "mail" \in Touches(q.op)
        BY <2>0, <1>w DEF InsertRowDone
      <3>2. request'[r] = Idle \/ SoFar(r, "mail")'
        BY <2>0, <3>1, <1>q, <1>u, <1>i, <1>k, <1>s, <1>v
        DEF InsertRowDone, GoesOn, GoesWritten, Goes, Breaks, Quits, Ends, Final, SoFar, Alone, MailSoFar, Informed, AccountType, RowType
      <3>3. \/ "mail" \in doubt'[u]
            \/ Same(u, "mail")'
            \/ request'[r].op = q.op /\ ~Untouched(r, "mail")'
            \/ Untouched(r, "mail") /\ SameView(u, "mail") /\ DoubtKept(u, "mail")
        BY <2>0, <3>1, <1>q, <1>u, <1>i, <1>k, <1>s, <1>v
        DEF InsertRowDone, GoesOn, GoesWritten, Goes, Breaks, Quits, Ends, Final, SoFar, Alone, MailSoFar, Informed, SameView,
            DoubtKept, Untouched, Same, AccountType, RowType, Aspects
      <3> QED
        BY <2>0, <3>1, <3>2, <3>3 DEF Fine, InsertRowDone
    <2>3. Fine(r, u, q, "roles")
      <3>1. "roles" \in Touches(q.op)
        BY <2>0, <1>w DEF InsertRowDone
      <3>2. request'[r] = Idle \/ SoFar(r, "roles")'
        BY <2>0, <3>1, <1>q, <1>u, <1>i, <1>k, <1>s, <1>v
        DEF InsertRowDone, GoesOn, GoesWritten, Goes, Breaks, Quits, Ends, Final, SoFar, Alone, RolesSoFar, Informed, AccountType, RowType
      <3>3. \/ "roles" \in doubt'[u]
            \/ Same(u, "roles")'
            \/ request'[r].op = q.op /\ ~Untouched(r, "roles")'
            \/ Untouched(r, "roles") /\ SameView(u, "roles") /\ DoubtKept(u, "roles")
        BY ZenonT(60), <2>0, <3>1, <1>q, <1>u, <1>i, <1>k, <1>s, <1>v
        DEF InsertRowDone, GoesOn, GoesWritten, Goes, Breaks, Quits, Ends, Final, SoFar, Alone, RolesSoFar, Informed, SameView,
            DoubtKept, Untouched, Same, AccountType, RowType, Aspects
      <3> QED
        BY <2>0, <3>1, <3>2, <3>3 DEF Fine, InsertRowDone
    <2>4. Fine(r, u, q, "cache")
      <3>1. "cache" \in Touches(q.op)
        BY <2>0, <1>w DEF InsertRowDone
      <3>2. request'[r] = Idle \/ SoFar(r, "cache")'
        BY <2>0, <3>1, <1>q, <1>u, <1>i, <1>k, <1>s, <1>v
        DEF InsertRowDone, GoesOn, GoesWritten, Goes, Breaks, Quits, Ends, Final, SoFar, Alone, CopySoFar, Informed, AccountType, RowType, Copy
      <3>3. \/ "cache" \in doubt'[u]
            \/ Same(u, "cache")'
            \/ request'[r].op = q.op /\ ~Untouched(r, "cache")'
            \/ Untouched(r, "cache") /\ SameView(u, "cache") /\ DoubtKept(u, "cache")
        <4>0. /\ q.op = "create" /\ q.wrote /\ cache'[u] = cache[u]
              /\ \/ ~row[u].there /\ Ends(r, u, q)
                 \/ Goes(r, q, "rollback") /\ request'[r].wrote
          BY <2>0, <1>i, <1>q DEF InsertRowDone, Informed, GoesOn
        <4>1. CASE ~row[u].there
          BY <4>0, <4>1, <1>i DEF Stored, Same
        <4>2. CASE Goes(r, q, "rollback") /\ request'[r].wrote
          BY <4>0, <4>2 DEF Goes, Untouched
        <4> QED
          BY <4>0, <4>1, <4>2
      <3> QED
        BY <2>0, <3>1, <3>2, <3>3 DEF Fine, InsertRowDone
    <2> QED
      BY <2>0, <2>1, <2>2, <2>3, <2>4, <1>q, <1>u, <1>v, StepKept
  <1>4. ASSUME RollbackAccount(r)
        PROVE  StepInv'
    <2>0. OnlyHere(r, u) /\ RollbackAccountDone(r, u, q)
      BY <1>4, <1>t, <1>q, <1>u, DoesRollbackAccount
    <2>1. \/ request'[r] = Idle
          \/ request'[r].op = q.op /\ request'[r].user = u /\ request'[r].clash = q.clash
      BY <2>0, <1>u DEF RollbackAccountDone, GoesOn, GoesWritten, Goes, Breaks, Quits, Ends, Final
    <2>2. Fine(r, u, q, "mail")
      <3>1. "mail" \in Touches(q.op)
        BY <2>0, <1>w DEF RollbackAccountDone
      <3>2. request'[r] = Idle \/ SoFar(r, "mail")'
        BY <2>0, <3>1, <1>q, <1>u, <1>i, <1>k, <1>s, <1>v
        DEF RollbackAccountDone, GoesOn, GoesWritten, Goes, Breaks, Quits, Ends, Final, SoFar, Alone, MailSoFar, Informed, AccountType, RowType
      <3>3. \/ "mail" \in doubt'[u]
            \/ Same(u, "mail")'
            \/ request'[r].op = q.op /\ ~Untouched(r, "mail")'
            \/ Untouched(r, "mail") /\ SameView(u, "mail") /\ DoubtKept(u, "mail")
        BY <2>0, <3>1, <1>q, <1>u, <1>i, <1>k, <1>s, <1>v
        DEF RollbackAccountDone, GoesOn, GoesWritten, Goes, Breaks, Quits, Ends, Final, SoFar, Alone, MailSoFar, Informed, SameView,
            DoubtKept, Untouched, Same, AccountType, RowType, Aspects
      <3> QED
        BY <2>0, <3>1, <3>2, <3>3 DEF Fine, RollbackAccountDone
    <2>3. Fine(r, u, q, "roles")
      <3>1. "roles" \in Touches(q.op)
        BY <2>0, <1>w DEF RollbackAccountDone
      <3>2. request'[r] = Idle \/ SoFar(r, "roles")'
        BY <2>0, <3>1, <1>q, <1>u, <1>i, <1>k, <1>s, <1>v
        DEF RollbackAccountDone, GoesOn, GoesWritten, Goes, Breaks, Quits, Ends, Final, SoFar, Alone, RolesSoFar, Informed, AccountType, RowType
      <3>3. \/ "roles" \in doubt'[u]
            \/ Same(u, "roles")'
            \/ request'[r].op = q.op /\ ~Untouched(r, "roles")'
            \/ Untouched(r, "roles") /\ SameView(u, "roles") /\ DoubtKept(u, "roles")
        BY <2>0, <3>1, <1>q, <1>u, <1>i, <1>k, <1>s, <1>v
        DEF RollbackAccountDone, GoesOn, GoesWritten, Goes, Breaks, Quits, Ends, Final, SoFar, Alone, RolesSoFar, Informed, SameView,
            DoubtKept, Untouched, Same, AccountType, RowType, Aspects
      <3> QED
        BY <2>0, <3>1, <3>2, <3>3 DEF Fine, RollbackAccountDone
    <2>4. Fine(r, u, q, "cache")
      <3>1. "cache" \in Touches(q.op)
        BY <2>0, <1>w DEF RollbackAccountDone
      <3>2. request'[r] = Idle \/ SoFar(r, "cache")'
        BY <2>0, <3>1, <1>q, <1>u, <1>i, <1>k, <1>s, <1>v
        DEF RollbackAccountDone, GoesOn, GoesWritten, Goes, Breaks, Quits, Ends, Final, SoFar, Alone, CopySoFar, Informed, AccountType, RowType, Copy
      <3>3. \/ "cache" \in doubt'[u]
            \/ Same(u, "cache")'
            \/ request'[r].op = q.op /\ ~Untouched(r, "cache")'
            \/ Untouched(r, "cache") /\ SameView(u, "cache") /\ DoubtKept(u, "cache")
        BY <2>0, <3>1, <1>q, <1>u, <1>i, <1>k, <1>s, <1>v
        DEF RollbackAccountDone, GoesOn, GoesWritten, Goes, Breaks, Quits, Ends, Final, SoFar, Alone, CopySoFar, Informed, SameView,
            DoubtKept, Untouched, Same, AccountType, RowType, Aspects, Copy
      <3> QED
        BY <2>0, <3>1, <3>2, <3>3 DEF Fine, RollbackAccountDone
    <2> QED
      BY <2>0, <2>1, <2>2, <2>3, <2>4, <1>q, <1>u, <1>v, StepKept
  <1>5. ASSUME LoadForCache(r)
        PROVE  StepInv'
    <2>0. OnlyHere(r, u) /\ LoadForCacheDone(r, u, q)
      BY <1>5, <1>t, <1>q, <1>u, DoesLoadForCache
    <2>1. \/ request'[r] = Idle
          \/ request'[r].op = q.op /\ request'[r].user = u /\ request'[r].clash = q.clash
      BY <2>0, <1>u DEF LoadForCacheDone, GoesOn, GoesWritten, Goes, Breaks, Quits, Ends, Final
    <2>2. Fine(r, u, q, "mail")
      BY <2>0, <1>q, <1>u, <1>i, <1>k, <1>w, <1>s, <1>v
      DEF LoadForCacheDone, GoesOn, GoesWritten, Goes, Breaks, Quits, Ends, Final,
          Fine, SameView, DoubtKept, SoFar, Alone, Untouched, Same, Informed, MailSoFar, AccountType, RowType
    <2>3. Fine(r, u, q, "roles")
      BY <2>0, <1>q, <1>u, <1>i, <1>k, <1>w, <1>s, <1>v
      DEF LoadForCacheDone, GoesOn, GoesWritten, Goes, Breaks, Quits, Ends, Final,
          Fine, SameView, DoubtKept, SoFar, Alone, Untouched, Same, Informed, RolesSoFar, AccountType, RowType
    <2>4. Fine(r, u, q, "cache")
      <3>1. "cache" \in Touches(q.op)
        BY <2>0, <1>w DEF LoadForCacheDone
      <3>2. request'[r] = Idle \/ SoFar(r, "cache")'
        BY <2>0, <3>1, <1>q, <1>u, <1>i, <1>k, <1>s, <1>v
        DEF LoadForCacheDone, GoesOn, GoesWritten, Goes, Breaks, Quits, Ends, Final, SoFar, Alone, CopySoFar, Informed, AccountType, RowType, Copy
      <3>3. \/ "cache" \in doubt'[u]
            \/ Same(u, "cache")'
            \/ request'[r].op = q.op /\ ~Untouched(r, "cache")'
            \/ Untouched(r, "cache") /\ SameView(u, "cache") /\ DoubtKept(u, "cache")
        BY <2>0, <3>1, <1>q, <1>u, <1>i, <1>k, <1>s, <1>v
        DEF LoadForCacheDone, GoesOn, GoesWritten, Goes, Breaks, Quits, Ends, Final, SoFar, Alone, CopySoFar, Informed, SameView,
            DoubtKept, Untouched, Same, AccountType, RowType, Aspects, Copy
      <3> QED
        BY <2>0, <3>1, <3>2, <3>3 DEF Fine, LoadForCacheDone
    <2> QED
      BY <2>0, <2>1, <2>2, <2>3, <2>4, <1>q, <1>u, <1>v, StepKept
  <1>6. ASSUME FillCache(r)
        PROVE  StepInv'
    <2>0. OnlyHere(r, u) /\ FillCacheDone(r, u, q)
      BY <1>6, <1>t, <1>q, <1>u, DoesFillCache
    <2>1. \/ request'[r] = Idle
          \/ request'[r].op = q.op /\ request'[r].user = u /\ request'[r].clash = q.clash
      BY <2>0, <1>u DEF FillCacheDone, GoesOn, GoesWritten, Goes, Breaks, Quits, Ends, Final
    <2>2. Fine(r, u, q, "mail")
      BY <2>0, <1>q, <1>u, <1>i, <1>k, <1>w, <1>s, <1>v
      DEF FillCacheDone, GoesOn, GoesWritten, Goes, Breaks, Quits, Ends, Final,
          Fine, SameView, DoubtKept, SoFar, Alone, Untouched, Same, Informed, MailSoFar, AccountType, RowType
    <2>3. Fine(r, u, q, "roles")
      BY <2>0, <1>q, <1>u, <1>i, <1>k, <1>w, <1>s, <1>v
      DEF FillCacheDone, GoesOn, GoesWritten, Goes, Breaks, Quits, Ends, Final,
          Fine, SameView, DoubtKept, SoFar, Alone, Untouched, Same, Informed, RolesSoFar, AccountType, RowType
    <2>4. Fine(r, u, q, "cache")
      BY <2>0, <1>q, <1>u, <1>i, <1>k, <1>w, <1>s, <1>v
      DEF FillCacheDone, GoesOn, GoesWritten, Goes, Breaks, Quits, Ends, Final,
          Fine, SameView, DoubtKept, SoFar, Alone, Untouched, Same, Informed, CopySoFar, AccountType, RowType, Copy
    <2> QED
      BY <2>0, <2>1, <2>2, <2>3, <2>4, <1>q, <1>u, <1>v, StepKept
  <1>7. ASSUME DropCopy(r)
        PROVE  StepInv'
    <2>0. OnlyHere(r, u) /\ DropCopyDone(r, u, q)
      BY <1>7, <1>t, <1>q, <1>u, DoesDropCopy
    <2>1. \/ request'[r] = Idle
          \/ request'[r].op = q.op /\ request'[r].user = u /\ request'[r].clash = q.clash
      BY <2>0, <1>u DEF DropCopyDone, GoesOn, GoesWritten, Goes, Breaks, Quits, Ends, Final
    <2>2. Fine(r, u, q, "mail")
      BY <2>0, <1>q, <1>u, <1>i, <1>k, <1>w, <1>s, <1>v
      DEF DropCopyDone, GoesOn, GoesWritten, Goes, Breaks, Quits, Ends, Final,
          Fine, SameView, DoubtKept, SoFar, Alone, Untouched, Same, Informed, MailSoFar, AccountType, RowType
    <2>3. Fine(r, u, q, "roles")
      BY <2>0, <1>q, <1>u, <1>i, <1>k, <1>w, <1>s, <1>v
      DEF DropCopyDone, GoesOn, GoesWritten, Goes, Breaks, Quits, Ends, Final,
          Fine, SameView, DoubtKept, SoFar, Alone, Untouched, Same, Informed, RolesSoFar, AccountType, RowType
    <2>4. Fine(r, u, q, "cache")
      BY <2>0, <1>q, <1>u, <1>i, <1>k, <1>w, <1>s, <1>v
      DEF DropCopyDone, GoesOn, GoesWritten, Goes, Breaks, Quits, Ends, Final,
          Fine, SameView, DoubtKept, SoFar, Alone, Untouched, Same, Informed, CopySoFar, AccountType, RowType, Copy
    <2> QED
      BY <2>0, <2>1, <2>2, <2>3, <2>4, <1>q, <1>u, <1>v, StepKept
  <1>8. ASSUME CompareMail(r)
        PROVE  StepInv'
    <2>0. OnlyHere(r, u) /\ CompareMailDone(r, u, q)
      BY <1>8, <1>t, <1>q, <1>u, DoesCompareMail
    <2>1. \/ request'[r] = Idle
          \/ request'[r].op = q.op /\ request'[r].user = u /\ request'[r].clash = q.clash
      BY <2>0, <1>u DEF CompareMailDone, GoesOn, GoesWritten, Goes, Breaks, Quits, Ends, Final
    <2>2. Fine(r, u, q, "mail")
      <3>1. "mail" \in Touches(q.op)
        BY <2>0, <1>w DEF CompareMailDone
      <3>2. request'[r] = Idle \/ SoFar(r, "mail")'
        BY <2>0, <3>1, <1>q, <1>u, <1>i, <1>k, <1>s, <1>v
        DEF CompareMailDone, GoesOn, GoesWritten, Goes, Breaks, Quits, Ends, Final, SoFar, Alone, MailSoFar, Informed, AccountType, RowType
      <3>3. \/ "mail" \in doubt'[u]
            \/ Same(u, "mail")'
            \/ request'[r].op = q.op /\ ~Untouched(r, "mail")'
            \/ Untouched(r, "mail") /\ SameView(u, "mail") /\ DoubtKept(u, "mail")
        BY <2>0, <3>1, <1>q, <1>u, <1>i, <1>k, <1>s, <1>v
        DEF CompareMailDone, GoesOn, GoesWritten, Goes, Breaks, Quits, Ends, Final, SoFar, Alone, MailSoFar, Informed, SameView,
            DoubtKept, Untouched, Same, AccountType, RowType, Aspects
      <3> QED
        BY <2>0, <3>1, <3>2, <3>3 DEF Fine, CompareMailDone
    <2>3. Fine(r, u, q, "roles")
      BY <2>0, <1>q, <1>u, <1>i, <1>k, <1>w, <1>s, <1>v
      DEF CompareMailDone, GoesOn, GoesWritten, Goes, Breaks, Quits, Ends, Final,
          Fine, SameView, DoubtKept, SoFar, Alone, Untouched, Same, Informed, RolesSoFar, AccountType, RowType
    <2>4. Fine(r, u, q, "cache")
      BY <2>0, <1>q, <1>u, <1>i, <1>k, <1>w, <1>s, <1>v
      DEF CompareMailDone, GoesOn, GoesWritten, Goes, Breaks, Quits, Ends, Final,
          Fine, SameView, DoubtKept, SoFar, Alone, Untouched, Same, Informed, CopySoFar, AccountType, RowType, Copy
    <2> QED
      BY <2>0, <2>1, <2>2, <2>3, <2>4, <1>q, <1>u, <1>v, StepKept
  <1>9. ASSUME PushMail(r)
        PROVE  StepInv'
    <2>0. OnlyHere(r, u) /\ PushMailDone(r, u, q)
      BY <1>9, <1>t, <1>q, <1>u, DoesPushMail
    <2>1. \/ request'[r] = Idle
          \/ request'[r].op = q.op /\ request'[r].user = u /\ request'[r].clash = q.clash
      BY <2>0, <1>u DEF PushMailDone, GoesOn, GoesWritten, Goes, Breaks, Quits, Ends, Final
    <2>2. Fine(r, u, q, "mail")
      <3>1. "mail" \in Touches(q.op)
        BY <2>0, <1>w DEF PushMailDone
      <3>2. request'[r] = Idle \/ SoFar(r, "mail")'
        BY <2>0, <3>1, <1>q, <1>u, <1>i, <1>k, <1>s, <1>v
        DEF PushMailDone, GoesOn, GoesWritten, Goes, Breaks, Quits, Ends, Final, SoFar, Alone, MailSoFar, Informed, AccountType, RowType
      <3>3. \/ "mail" \in doubt'[u]
            \/ Same(u, "mail")'
            \/ request'[r].op = q.op /\ ~Untouched(r, "mail")'
            \/ Untouched(r, "mail") /\ SameView(u, "mail") /\ DoubtKept(u, "mail")
        BY <2>0, <3>1, <1>q, <1>u, <1>i, <1>k, <1>s, <1>v
        DEF PushMailDone, GoesOn, GoesWritten, Goes, Breaks, Quits, Ends, Final, SoFar, Alone, MailSoFar, Informed, SameView,
            DoubtKept, Untouched, Same, AccountType, RowType, Aspects
      <3> QED
        BY <2>0, <3>1, <3>2, <3>3 DEF Fine, PushMailDone
    <2>3. Fine(r, u, q, "roles")
      BY <2>0, <1>q, <1>u, <1>i, <1>k, <1>w, <1>s, <1>v
      DEF PushMailDone, GoesOn, GoesWritten, Goes, Breaks, Quits, Ends, Final,
          Fine, SameView, DoubtKept, SoFar, Alone, Untouched, Same, Informed, RolesSoFar, AccountType, RowType
    <2>4. Fine(r, u, q, "cache")
      BY <2>0, <1>q, <1>u, <1>i, <1>k, <1>w, <1>s, <1>v
      DEF PushMailDone, GoesOn, GoesWritten, Goes, Breaks, Quits, Ends, Final,
          Fine, SameView, DoubtKept, SoFar, Alone, Untouched, Same, Informed, CopySoFar, AccountType, RowType, Copy
    <2> QED
      BY <2>0, <2>1, <2>2, <2>3, <2>4, <1>q, <1>u, <1>v, StepKept
  <1>10. ASSUME LoadRow(r)
        PROVE  StepInv'
    <2>0. OnlyHere(r, u) /\ LoadRowDone(r, u, q)
      BY <1>10, <1>t, <1>q, <1>u, DoesLoadRow
    <2>1. \/ request'[r] = Idle
          \/ request'[r].op = q.op /\ request'[r].user = u /\ request'[r].clash = q.clash
      BY <2>0, <1>u DEF LoadRowDone, GoesOn, GoesWritten, Goes, Breaks, Quits, Ends, Final
    <2>2. Fine(r, u, q, "mail")
      <3>1. "mail" \in Touches(q.op)
        BY <2>0, <1>w DEF LoadRowDone
      <3>2. request'[r] = Idle \/ SoFar(r, "mail")'
        BY <2>0, <3>1, <1>q, <1>u, <1>i, <1>k, <1>s, <1>v
        DEF LoadRowDone, GoesOn, GoesWritten, Goes, Breaks, Quits, Ends, Final, SoFar, Alone, MailSoFar, Informed, AccountType, RowType
      <3>3. \/ "mail" \in doubt'[u]
            \/ Same(u, "mail")'
            \/ request'[r].op = q.op /\ ~Untouched(r, "mail")'
            \/ Untouched(r, "mail") /\ SameView(u, "mail") /\ DoubtKept(u, "mail")
        BY <2>0, <3>1, <1>q, <1>u, <1>i, <1>k, <1>s, <1>v
        DEF LoadRowDone, GoesOn, GoesWritten, Goes, Breaks, Quits, Ends, Final, SoFar, Alone, MailSoFar, Informed, SameView,
            DoubtKept, Untouched, Same, AccountType, RowType, Aspects
      <3> QED
        BY <2>0, <3>1, <3>2, <3>3 DEF Fine, LoadRowDone
    <2>3. Fine(r, u, q, "roles")
      <3>1. "roles" \in Touches(q.op)
        BY <2>0, <1>w DEF LoadRowDone
      <3>2. request'[r] = Idle \/ SoFar(r, "roles")'
        BY <2>0, <3>1, <1>q, <1>u, <1>i, <1>k, <1>s, <1>v
        DEF LoadRowDone, GoesOn, GoesWritten, Goes, Breaks, Quits, Ends, Final, SoFar, Alone, RolesSoFar, Informed, AccountType, RowType
      <3>3. \/ "roles" \in doubt'[u]
            \/ Same(u, "roles")'
            \/ request'[r].op = q.op /\ ~Untouched(r, "roles")'
            \/ Untouched(r, "roles") /\ SameView(u, "roles") /\ DoubtKept(u, "roles")
        BY <2>0, <3>1, <1>q, <1>u, <1>i, <1>k, <1>s, <1>v
        DEF LoadRowDone, GoesOn, GoesWritten, Goes, Breaks, Quits, Ends, Final, SoFar, Alone, RolesSoFar, Informed, SameView,
            DoubtKept, Untouched, Same, AccountType, RowType, Aspects
      <3> QED
        BY <2>0, <3>1, <3>2, <3>3 DEF Fine, LoadRowDone
    <2>4. Fine(r, u, q, "cache")
      BY <2>0, <1>q, <1>u, <1>i, <1>k, <1>w, <1>s, <1>v
      DEF LoadRowDone, GoesOn, GoesWritten, Goes, Breaks, Quits, Ends, Final,
          Fine, SameView, DoubtKept, SoFar, Alone, Untouched, Same, Informed, CopySoFar, AccountType, RowType, Copy
    <2> QED
      BY <2>0, <2>1, <2>2, <2>3, <2>4, <1>q, <1>u, <1>v, StepKept
  <1>11. ASSUME SaveRow(r)
        PROVE  StepInv'
    <2>0. OnlyHere(r, u) /\ SaveRowDone(r, u, q)
      BY <1>11, <1>t, <1>q, <1>u, DoesSaveRow
    <2>1. \/ request'[r] = Idle
          \/ request'[r].op = q.op /\ request'[r].user = u /\ request'[r].clash = q.clash
      BY <2>0, <1>u DEF SaveRowDone, GoesOn, GoesWritten, Goes, Breaks, Quits, Ends, Final
    <2>2. Fine(r, u, q, "mail")
      <3>1. "mail" \in Touches(q.op)
        BY <2>0, <1>w DEF SaveRowDone
      <3>2. request'[r] = Idle \/ SoFar(r, "mail")'
        BY <2>0, <3>1, <1>q, <1>u, <1>i, <1>k, <1>s, <1>v
        DEF SaveRowDone, GoesOn, GoesWritten, Goes, Breaks, Quits, Ends, Final, SoFar, Alone, MailSoFar, Informed, AccountType, RowType
      <3>3. \/ "mail" \in doubt'[u]
            \/ Same(u, "mail")'
            \/ request'[r].op = q.op /\ ~Untouched(r, "mail")'
            \/ Untouched(r, "mail") /\ SameView(u, "mail") /\ DoubtKept(u, "mail")
        <4>0. /\ q.op = "patch" /\ q.at = "save" /\ keycloak'[u] = keycloak[u]
              /\ row'[u].there = q.loaded.there
              /\ row'[u].mail = IF q.mail = NoMail THEN q.loaded.mail ELSE q.mail
              /\ GoesWritten(r, u, q, "forget") \/ Breaks(r, u, q)
          BY <2>0 DEF SaveRowDone
        <4>1. CASE Breaks(r, u, q)
          BY <4>1, <3>1 DEF Breaks
        <4>2. CASE GoesWritten(r, u, q, "forget") /\ (~Alone(r, "mail") \/ q.sent)
          BY <4>2, <4>0, <1>q DEF GoesWritten, Goes, Untouched, Alone
        <4>3. CASE GoesWritten(r, u, q, "forget") /\ Alone(r, "mail") /\ ~q.sent
          <5>1. MailSoFar(r)
            BY <4>3, <3>1, <1>s, <1>v DEF SoFar
          <5>2. row'[u].mail = row[u].mail
            BY <5>1, <4>0, <4>3, <1>q, <1>u DEF MailSoFar
          <5>3. row'[u].there = row[u].there
            BY <4>0, <1>i, <1>k, <1>q, <1>u DEF Informed, RowType
          <5>4. SameView(u, "mail") /\ Untouched(r, "mail") /\ DoubtKept(u, "mail")
            BY <5>2, <5>3, <4>0, <4>3, <1>q
            DEF SameView, Untouched, DoubtKept, GoesWritten
          <5> QED
            BY <5>4
        <4> QED
          BY <4>0, <4>1, <4>2, <4>3
      <3> QED
        BY <2>0, <3>1, <3>2, <3>3 DEF Fine, SaveRowDone
    <2>3. Fine(r, u, q, "roles")
      BY <2>0, <1>q, <1>u, <1>i, <1>k, <1>w, <1>s, <1>v
      DEF SaveRowDone, GoesOn, GoesWritten, Goes, Breaks, Quits, Ends, Final,
          Fine, SameView, DoubtKept, SoFar, Alone, Untouched, Same, Informed, RolesSoFar, AccountType, RowType
    <2>4. Fine(r, u, q, "cache")
      BY <2>0, <1>q, <1>u, <1>i, <1>k, <1>w, <1>s, <1>v
      DEF SaveRowDone, GoesOn, GoesWritten, Goes, Breaks, Quits, Ends, Final,
          Fine, SameView, DoubtKept, SoFar, Alone, Untouched, Same, Informed, CopySoFar, AccountType, RowType, Copy
    <2> QED
      BY <2>0, <2>1, <2>2, <2>3, <2>4, <1>q, <1>u, <1>v, StepKept
  <1>12. ASSUME SetEnabled(r)
        PROVE  StepInv'
    <2>0. OnlyHere(r, u) /\ SetEnabledDone(r, u, q)
      BY <1>12, <1>t, <1>q, <1>u, DoesSetEnabled
    <2>1. \/ request'[r] = Idle
          \/ request'[r].op = q.op /\ request'[r].user = u /\ request'[r].clash = q.clash
      BY <2>0, <1>u DEF SetEnabledDone, GoesOn, GoesWritten, Goes, Breaks, Quits, Ends, Final
    <2>2. Fine(r, u, q, "mail")
      BY <2>0, <1>q, <1>u, <1>i, <1>k, <1>w, <1>s, <1>v
      DEF SetEnabledDone, GoesOn, GoesWritten, Goes, Breaks, Quits, Ends, Final,
          Fine, SameView, DoubtKept, SoFar, Alone, Untouched, Same, Informed, MailSoFar, AccountType, RowType
    <2>3. Fine(r, u, q, "roles")
      BY <2>0, <1>q, <1>u, <1>i, <1>k, <1>w, <1>s, <1>v
      DEF SetEnabledDone, GoesOn, GoesWritten, Goes, Breaks, Quits, Ends, Final,
          Fine, SameView, DoubtKept, SoFar, Alone, Untouched, Same, Informed, RolesSoFar, AccountType, RowType
    <2>4. Fine(r, u, q, "cache")
      BY <2>0, <1>q, <1>u, <1>i, <1>k, <1>w, <1>s, <1>v
      DEF SetEnabledDone, GoesOn, GoesWritten, Goes, Breaks, Quits, Ends, Final,
          Fine, SameView, DoubtKept, SoFar, Alone, Untouched, Same, Informed, CopySoFar, AccountType, RowType, Copy
    <2> QED
      BY <2>0, <2>1, <2>2, <2>3, <2>4, <1>q, <1>u, <1>v, StepKept
  <1>13. ASSUME RevokeSessions(r)
        PROVE  StepInv'
    <2>0. OnlyHere(r, u) /\ RevokeSessionsDone(r, u, q)
      BY <1>13, <1>t, <1>q, <1>u, DoesRevokeSessions
    <2>1. \/ request'[r] = Idle
          \/ request'[r].op = q.op /\ request'[r].user = u /\ request'[r].clash = q.clash
      BY <2>0, <1>u DEF RevokeSessionsDone, GoesOn, GoesWritten, Goes, Breaks, Quits, Ends, Final
    <2>2. Fine(r, u, q, "mail")
      BY <2>0, <1>q, <1>u, <1>i, <1>k, <1>w, <1>s, <1>v
      DEF RevokeSessionsDone, GoesOn, GoesWritten, Goes, Breaks, Quits, Ends, Final,
          Fine, SameView, DoubtKept, SoFar, Alone, Untouched, Same, Informed, MailSoFar, AccountType, RowType
    <2>3. Fine(r, u, q, "roles")
      BY <2>0, <1>q, <1>u, <1>i, <1>k, <1>w, <1>s, <1>v
      DEF RevokeSessionsDone, GoesOn, GoesWritten, Goes, Breaks, Quits, Ends, Final,
          Fine, SameView, DoubtKept, SoFar, Alone, Untouched, Same, Informed, RolesSoFar, AccountType, RowType
    <2>4. Fine(r, u, q, "cache")
      BY <2>0, <1>q, <1>u, <1>i, <1>k, <1>w, <1>s, <1>v
      DEF RevokeSessionsDone, GoesOn, GoesWritten, Goes, Breaks, Quits, Ends, Final,
          Fine, SameView, DoubtKept, SoFar, Alone, Untouched, Same, Informed, CopySoFar, AccountType, RowType, Copy
    <2> QED
      BY <2>0, <2>1, <2>2, <2>3, <2>4, <1>q, <1>u, <1>v, StepKept
  <1>14. ASSUME StoreStatus(r)
        PROVE  StepInv'
    <2>0. OnlyHere(r, u) /\ StoreStatusDone(r, u, q)
      BY <1>14, <1>t, <1>q, <1>u, DoesStoreStatus
    <2>1. \/ request'[r] = Idle
          \/ request'[r].op = q.op /\ request'[r].user = u /\ request'[r].clash = q.clash
      BY <2>0, <1>u DEF StoreStatusDone, GoesOn, GoesWritten, Goes, Breaks, Quits, Ends, Final
    <2>2. Fine(r, u, q, "mail")
      BY <2>0, <1>q, <1>u, <1>i, <1>k, <1>w, <1>s, <1>v
      DEF StoreStatusDone, GoesOn, GoesWritten, Goes, Breaks, Quits, Ends, Final,
          Fine, SameView, DoubtKept, SoFar, Alone, Untouched, Same, Informed, MailSoFar, AccountType, RowType
    <2>3. Fine(r, u, q, "roles")
      BY <2>0, <1>q, <1>u, <1>i, <1>k, <1>w, <1>s, <1>v
      DEF StoreStatusDone, GoesOn, GoesWritten, Goes, Breaks, Quits, Ends, Final,
          Fine, SameView, DoubtKept, SoFar, Alone, Untouched, Same, Informed, RolesSoFar, AccountType, RowType
    <2>4. Fine(r, u, q, "cache")
      BY <2>0, <1>q, <1>u, <1>i, <1>k, <1>w, <1>s, <1>v
      DEF StoreStatusDone, GoesOn, GoesWritten, Goes, Breaks, Quits, Ends, Final,
          Fine, SameView, DoubtKept, SoFar, Alone, Untouched, Same, Informed, CopySoFar, AccountType, RowType, Copy
    <2> QED
      BY <2>0, <2>1, <2>2, <2>3, <2>4, <1>q, <1>u, <1>v, StepKept
  <1>15. ASSUME ListRoles(r)
        PROVE  StepInv'
    <2>0. OnlyHere(r, u) /\ ListRolesDone(r, u, q)
      BY <1>15, <1>t, <1>q, <1>u, DoesListRoles
    <2>1. \/ request'[r] = Idle
          \/ request'[r].op = q.op /\ request'[r].user = u /\ request'[r].clash = q.clash
      BY <2>0, <1>u DEF ListRolesDone, GoesOn, GoesWritten, Goes, Breaks, Quits, Ends, Final
    <2>2. Fine(r, u, q, "mail")
      BY <2>0, <1>q, <1>u, <1>i, <1>k, <1>w, <1>s, <1>v
      DEF ListRolesDone, GoesOn, GoesWritten, Goes, Breaks, Quits, Ends, Final,
          Fine, SameView, DoubtKept, SoFar, Alone, Untouched, Same, Informed, MailSoFar, AccountType, RowType
    <2>3. Fine(r, u, q, "roles")
      <3>1. "roles" \in Touches(q.op)
        BY <2>0, <1>w DEF ListRolesDone
      <3>2. request'[r] = Idle \/ SoFar(r, "roles")'
        BY <2>0, <3>1, <1>q, <1>u, <1>i, <1>k, <1>s, <1>v
        DEF ListRolesDone, GoesOn, GoesWritten, Goes, Breaks, Quits, Ends, Final, SoFar, Alone, RolesSoFar, Informed, AccountType, RowType
      <3>3. \/ "roles" \in doubt'[u]
            \/ Same(u, "roles")'
            \/ request'[r].op = q.op /\ ~Untouched(r, "roles")'
            \/ Untouched(r, "roles") /\ SameView(u, "roles") /\ DoubtKept(u, "roles")
        BY <2>0, <3>1, <1>q, <1>u, <1>i, <1>k, <1>s, <1>v
        DEF ListRolesDone, GoesOn, GoesWritten, Goes, Breaks, Quits, Ends, Final, SoFar, Alone, RolesSoFar, Informed, SameView,
            DoubtKept, Untouched, Same, AccountType, RowType, Aspects
      <3> QED
        BY <2>0, <3>1, <3>2, <3>3 DEF Fine, ListRolesDone
    <2>4. Fine(r, u, q, "cache")
      BY <2>0, <1>q, <1>u, <1>i, <1>k, <1>w, <1>s, <1>v
      DEF ListRolesDone, GoesOn, GoesWritten, Goes, Breaks, Quits, Ends, Final,
          Fine, SameView, DoubtKept, SoFar, Alone, Untouched, Same, Informed, CopySoFar, AccountType, RowType, Copy
    <2> QED
      BY <2>0, <2>1, <2>2, <2>3, <2>4, <1>q, <1>u, <1>v, StepKept
  <1>16. ASSUME RemoveRoles(r)
        PROVE  StepInv'
    <2>0. OnlyHere(r, u) /\ RemoveRolesDone(r, u, q)
      BY <1>16, <1>t, <1>q, <1>u, DoesRemoveRoles
    <2>1. \/ request'[r] = Idle
          \/ request'[r].op = q.op /\ request'[r].user = u /\ request'[r].clash = q.clash
      BY <2>0, <1>u DEF RemoveRolesDone, GoesOn, GoesWritten, Goes, Breaks, Quits, Ends, Final
    <2>2. Fine(r, u, q, "mail")
      BY <2>0, <1>q, <1>u, <1>i, <1>k, <1>w, <1>s, <1>v
      DEF RemoveRolesDone, GoesOn, GoesWritten, Goes, Breaks, Quits, Ends, Final,
          Fine, SameView, DoubtKept, SoFar, Alone, Untouched, Same, Informed, MailSoFar, AccountType, RowType
    <2>3. Fine(r, u, q, "roles")
      BY <2>0, <1>q, <1>u, <1>i, <1>k, <1>w, <1>s, <1>v
      DEF RemoveRolesDone, GoesOn, GoesWritten, Goes, Breaks, Quits, Ends, Final,
          Fine, SameView, DoubtKept, SoFar, Alone, Untouched, Same, Informed, RolesSoFar, AccountType, RowType
    <2>4. Fine(r, u, q, "cache")
      BY <2>0, <1>q, <1>u, <1>i, <1>k, <1>w, <1>s, <1>v
      DEF RemoveRolesDone, GoesOn, GoesWritten, Goes, Breaks, Quits, Ends, Final,
          Fine, SameView, DoubtKept, SoFar, Alone, Untouched, Same, Informed, CopySoFar, AccountType, RowType, Copy
    <2> QED
      BY <2>0, <2>1, <2>2, <2>3, <2>4, <1>q, <1>u, <1>v, StepKept
  <1>17. ASSUME AssignRoles(r)
        PROVE  StepInv'
    <2>0. OnlyHere(r, u) /\ AssignRolesDone(r, u, q)
      BY <1>17, <1>t, <1>q, <1>u, DoesAssignRoles
    <2>1. \/ request'[r] = Idle
          \/ request'[r].op = q.op /\ request'[r].user = u /\ request'[r].clash = q.clash
      BY <2>0, <1>u DEF AssignRolesDone, GoesOn, GoesWritten, Goes, Breaks, Quits, Ends, Final
    <2>2. Fine(r, u, q, "mail")
      BY <2>0, <1>q, <1>u, <1>i, <1>k, <1>w, <1>s, <1>v
      DEF AssignRolesDone, GoesOn, GoesWritten, Goes, Breaks, Quits, Ends, Final,
          Fine, SameView, DoubtKept, SoFar, Alone, Untouched, Same, Informed, MailSoFar, AccountType, RowType
    <2>3. Fine(r, u, q, "roles")
      <3>1. "roles" \in Touches(q.op)
        BY <2>0, <1>w DEF AssignRolesDone
      <3>2. request'[r] = Idle \/ SoFar(r, "roles")'
        <4>0. /\ q.op = "roles" /\ q.at = "assign" /\ row'[u] = row[u]
              /\ \/ /\ q.roles \ q.loaded.roles = {} /\ keycloak'[u] = keycloak[u]
                    /\ Goes(r, q, "store") /\ request'[r].roles = q.roles
                 \/ /\ keycloak'[u] = [keycloak[u] EXCEPT
                         !.roles = keycloak[u].roles \cup (q.roles \ q.loaded.roles)]
                    /\ request'[r] = Idle
                         \/ (Goes(r, q, "store") /\ request'[r].roles = q.roles)
          BY <2>0 DEF AssignRolesDone, GoesOn, GoesWritten, Breaks
        <4>1. ASSUME request'[r] # Idle, Alone(r, "roles")'
              PROVE  RolesSoFar(r)'
          <5>1. Goes(r, q, "store") /\ request'[r].roles = q.roles
            BY <4>0, <4>1
          <5>2. RolesSoFar(r)
            BY <5>1, <4>1, <3>1, <1>q, <1>s, <1>v DEF SoFar, Alone, Goes
          <5>3. keycloak[u].roles = q.loaded.roles \cap q.roles
            BY <5>2, <4>0, <1>q, <1>u DEF RolesSoFar
          <5>4. (q.loaded.roles \cap q.roles) \cup (q.roles \ q.loaded.roles) = q.roles
            OBVIOUS
          <5>5. keycloak'[u].roles = q.roles
            BY <5>3, <5>4, <4>0, <1>k DEF AccountType
          <5> QED
            BY <5>1, <5>5, <4>0, <1>u DEF RolesSoFar, Goes
        <4> QED
          BY <4>1 DEF SoFar
      <3>3. \/ "roles" \in doubt'[u]
            \/ Same(u, "roles")'
            \/ request'[r].op = q.op /\ ~Untouched(r, "roles")'
            \/ Untouched(r, "roles") /\ SameView(u, "roles") /\ DoubtKept(u, "roles")
        BY <2>0, <3>1, <1>q, <1>u, <1>i, <1>k, <1>s, <1>v
        DEF AssignRolesDone, GoesOn, GoesWritten, Goes, Breaks, Quits, Ends, Final, SoFar, Alone, RolesSoFar, Informed, SameView,
            DoubtKept, Untouched, Same, AccountType, RowType, Aspects
      <3> QED
        BY <2>0, <3>1, <3>2, <3>3 DEF Fine, AssignRolesDone
    <2>4. Fine(r, u, q, "cache")
      BY <2>0, <1>q, <1>u, <1>i, <1>k, <1>w, <1>s, <1>v
      DEF AssignRolesDone, GoesOn, GoesWritten, Goes, Breaks, Quits, Ends, Final,
          Fine, SameView, DoubtKept, SoFar, Alone, Untouched, Same, Informed, CopySoFar, AccountType, RowType, Copy
    <2> QED
      BY <2>0, <2>1, <2>2, <2>3, <2>4, <1>q, <1>u, <1>v, StepKept
  <1>18. ASSUME StoreRoles(r)
        PROVE  StepInv'
    <2>0. OnlyHere(r, u) /\ StoreRolesDone(r, u, q)
      BY <1>18, <1>t, <1>q, <1>u, DoesStoreRoles
    <2>1. \/ request'[r] = Idle
          \/ request'[r].op = q.op /\ request'[r].user = u /\ request'[r].clash = q.clash
      BY <2>0, <1>u DEF StoreRolesDone, GoesOn, GoesWritten, Goes, Breaks, Quits, Ends, Final
    <2>2. Fine(r, u, q, "mail")
      BY <2>0, <1>q, <1>u, <1>i, <1>k, <1>w, <1>s, <1>v
      DEF StoreRolesDone, GoesOn, GoesWritten, Goes, Breaks, Quits, Ends, Final,
          Fine, SameView, DoubtKept, SoFar, Alone, Untouched, Same, Informed, MailSoFar, AccountType, RowType
    <2>3. Fine(r, u, q, "roles")
      BY <2>0, <1>q, <1>u, <1>i, <1>k, <1>w, <1>s, <1>v
      DEF StoreRolesDone, GoesOn, GoesWritten, Goes, Breaks, Quits, Ends, Final,
          Fine, SameView, DoubtKept, SoFar, Alone, Untouched, Same, Informed, RolesSoFar, AccountType, RowType
    <2>4. Fine(r, u, q, "cache")
      BY <2>0, <1>q, <1>u, <1>i, <1>k, <1>w, <1>s, <1>v
      DEF StoreRolesDone, GoesOn, GoesWritten, Goes, Breaks, Quits, Ends, Final,
          Fine, SameView, DoubtKept, SoFar, Alone, Untouched, Same, Informed, CopySoFar, AccountType, RowType, Copy
    <2> QED
      BY <2>0, <2>1, <2>2, <2>3, <2>4, <1>q, <1>u, <1>v, StepKept
  <1>19. ASSUME FindByUsername(r)
        PROVE  StepInv'
    <2>0. OnlyHere(r, u) /\ FindByUsernameDone(r, u, q)
      BY <1>19, <1>t, <1>q, <1>u, DoesFindByUsername
    <2>1. \/ request'[r] = Idle
          \/ request'[r].op = q.op /\ request'[r].user = u /\ request'[r].clash = q.clash
      BY <2>0, <1>u DEF FindByUsernameDone, GoesOn, GoesWritten, Goes, Breaks, Quits, Ends, Final
    <2>2. Fine(r, u, q, "mail")
      BY <2>0, <1>q, <1>u, <1>i, <1>k, <1>w, <1>s, <1>v
      DEF FindByUsernameDone, GoesOn, GoesWritten, Goes, Breaks, Quits, Ends, Final,
          Fine, SameView, DoubtKept, SoFar, Alone, Untouched, Same, Informed, MailSoFar, AccountType, RowType
    <2>3. Fine(r, u, q, "roles")
      <3>1. "roles" \in Touches(q.op)
        BY <2>0, <1>w DEF FindByUsernameDone
      <3>2. request'[r] = Idle \/ SoFar(r, "roles")'
        <4>0. /\ q.op = "login" /\ q.at = "find" /\ row'[u] = row[u]
              /\ keycloak'[u] = keycloak[u] /\ doubt'[u] = doubt[u]
              /\ Goes(r, q, "record") /\ request'[r].sent = q.sent
              /\ request'[r].roles = (IF q.roles = {} THEN row[u].roles
                                      ELSE q.roles \cup {"user"})
          BY <2>0 DEF FindByUsernameDone
        <4>1. ASSUME Alone(r, "roles")'
              PROVE  RolesSoFar(r)'
          <5>1. RolesSoFar(r)
            BY <4>0, <4>1, <3>1, <1>q, <1>s, <1>v DEF SoFar, Alone, Goes
          <5>2. /\ keycloak[u].there
                /\ q.sent => keycloak[u].roles = q.roles /\ "user" \in q.roles
                /\ ~q.sent /\ row[u].there => "roles" \in doubt[u]
            BY <5>1, <4>0, <1>q, <1>u DEF RolesSoFar
          <5>3. "user" \in q.roles => q.roles # {} /\ q.roles \cup {"user"} = q.roles
            OBVIOUS
          <5>4. q.sent => request'[r].roles = q.roles
            BY <5>2, <5>3, <4>0
          <5> QED
            BY <5>2, <5>4, <4>0, <1>u DEF RolesSoFar, Goes
        <4> QED
          BY <4>1 DEF SoFar
      <3>3. \/ "roles" \in doubt'[u]
            \/ Same(u, "roles")'
            \/ request'[r].op = q.op /\ ~Untouched(r, "roles")'
            \/ Untouched(r, "roles") /\ SameView(u, "roles") /\ DoubtKept(u, "roles")
        BY <2>0, <3>1, <1>q, <1>u, <1>i, <1>k, <1>s, <1>v
        DEF FindByUsernameDone, GoesOn, GoesWritten, Goes, Breaks, Quits, Ends, Final, SoFar, Alone, RolesSoFar, Informed, SameView,
            DoubtKept, Untouched, Same, AccountType, RowType, Aspects
      <3> QED
        BY <2>0, <3>1, <3>2, <3>3 DEF Fine, FindByUsernameDone
    <2>4. Fine(r, u, q, "cache")
      BY <2>0, <1>q, <1>u, <1>i, <1>k, <1>w, <1>s, <1>v
      DEF FindByUsernameDone, GoesOn, GoesWritten, Goes, Breaks, Quits, Ends, Final,
          Fine, SameView, DoubtKept, SoFar, Alone, Untouched, Same, Informed, CopySoFar, AccountType, RowType, Copy
    <2> QED
      BY <2>0, <2>1, <2>2, <2>3, <2>4, <1>q, <1>u, <1>v, StepKept
  <1>20. ASSUME RecordLogin(r)
        PROVE  StepInv'
    <2>0. OnlyHere(r, u) /\ RecordLoginDone(r, u, q)
      BY <1>20, <1>t, <1>q, <1>u, DoesRecordLogin
    <2>1. \/ request'[r] = Idle
          \/ request'[r].op = q.op /\ request'[r].user = u /\ request'[r].clash = q.clash
      BY <2>0, <1>u DEF RecordLoginDone, GoesOn, GoesWritten, Goes, Breaks, Quits, Ends, Final
    <2>2. Fine(r, u, q, "mail")
      BY <2>0, <1>q, <1>u, <1>i, <1>k, <1>w, <1>s, <1>v
      DEF RecordLoginDone, GoesOn, GoesWritten, Goes, Breaks, Quits, Ends, Final,
          Fine, SameView, DoubtKept, SoFar, Alone, Untouched, Same, Informed, MailSoFar, AccountType, RowType
    <2>3. Fine(r, u, q, "roles")
      BY <2>0, <1>q, <1>u, <1>i, <1>k, <1>w, <1>s, <1>v
      DEF RecordLoginDone, GoesOn, GoesWritten, Goes, Breaks, Quits, Ends, Final,
          Fine, SameView, DoubtKept, SoFar, Alone, Untouched, Same, Informed, RolesSoFar, AccountType, RowType
    <2>4. Fine(r, u, q, "cache")
      <3>0. /\ q.op = "login" /\ q.at = "record" /\ ~q.wrote
            /\ cache'[u] = cache[u] /\ keycloak'[u] = keycloak[u]
            /\ row'[u] = [row[u] EXCEPT !.roles = q.roles]
            /\ Ends(r, u, q) \/ Breaks(r, u, q)
            /\ request'[r] = Idle
        BY <2>0, <1>i, <1>q DEF RecordLoginDone, Informed, Ends, Breaks
      <3>1. "cache" \in Touches(q.op) /\ "roles" \in Touches(q.op)
        BY <3>0, <1>w
      <3>2. CASE "cache" \in doubt'[u]
        BY <3>0, <3>1, <3>2 DEF Fine
      <3>3. CASE "cache" \notin doubt'[u]
        <4>1. "cache" \notin doubt[u] /\ "cache" \notin q.clash /\ "roles" \notin doubt[u]
          BY <3>0, <3>1, <3>3 DEF Ends, Breaks, Final
        <4>2. Alone(r, "roles")
          BY <4>1, <3>0, <1>i, <1>q DEF Informed, Alone
        <4>3. q.roles = row[u].roles
          BY <3>0, <4>1, <4>2, <1>q, <1>u, LoginAgrees
        <4>4. row'[u] = row[u]
          BY <3>0, <4>3, <1>k DEF RowType
        <4>5. SameView(u, "cache") /\ DoubtKept(u, "cache") /\ Untouched(r, "cache")
          BY <3>0, <4>1, <4>4, <1>q DEF SameView, DoubtKept, Untouched
        <4> QED
          BY <3>0, <3>1, <4>5 DEF Fine
      <3> QED
        BY <3>2, <3>3
    <2> QED
      BY <2>0, <2>1, <2>2, <2>3, <2>4, <1>q, <1>u, <1>v, StepKept
  <1>21. ASSUME Refused(r)
        PROVE  StepInv'
    <2>0. OnlyHere(r, u) /\ RefusedDone(r, u, q)
      BY <1>21, <1>t, <1>q, <1>u, DoesRefused
    <2>1. \/ request'[r] = Idle
          \/ request'[r].op = q.op /\ request'[r].user = u /\ request'[r].clash = q.clash
      BY <2>0, <1>u DEF RefusedDone, GoesOn, GoesWritten, Goes, Breaks, Quits, Ends, Final
    <2>2. Fine(r, u, q, "mail")
      BY <2>0, <1>q, <1>u, <1>i, <1>k, <1>w, <1>s, <1>v
      DEF RefusedDone, GoesOn, GoesWritten, Goes, Breaks, Quits, Ends, Final,
          Fine, SameView, DoubtKept, SoFar, Alone, Untouched, Same, Informed, MailSoFar, AccountType, RowType
    <2>3. Fine(r, u, q, "roles")
      BY <2>0, <1>q, <1>u, <1>i, <1>k, <1>w, <1>s, <1>v
      DEF RefusedDone, GoesOn, GoesWritten, Goes, Breaks, Quits, Ends, Final,
          Fine, SameView, DoubtKept, SoFar, Alone, Untouched, Same, Informed, RolesSoFar, AccountType, RowType
    <2>4. Fine(r, u, q, "cache")
      BY <2>0, <1>q, <1>u, <1>i, <1>k, <1>w, <1>s, <1>v
      DEF RefusedDone, GoesOn, GoesWritten, Goes, Breaks, Quits, Ends, Final,
          Fine, SameView, DoubtKept, SoFar, Alone, Untouched, Same, Informed, CopySoFar, AccountType, RowType, Copy
    <2> QED
      BY <2>0, <2>1, <2>2, <2>3, <2>4, <1>q, <1>u, <1>v, StepKept
  <1>22. ASSUME NEW s \in Sessions, IssueToken(r, s)
        PROVE  StepInv'
    <2>0. OnlyHere(r, u) /\ IssueTokenDone(r, u, q)
      BY <1>22, <1>t, <1>q, <1>u, DoesIssueToken
    <2>1. \/ request'[r] = Idle
          \/ request'[r].op = q.op /\ request'[r].user = u /\ request'[r].clash = q.clash
      BY <2>0, <1>u DEF IssueTokenDone, GoesOn, GoesWritten, Goes, Breaks, Quits, Ends, Final
    <2>2. Fine(r, u, q, "mail")
      BY <2>0, <1>q, <1>u, <1>i, <1>k, <1>w, <1>s, <1>v
      DEF IssueTokenDone, GoesOn, GoesWritten, Goes, Breaks, Quits, Ends, Final,
          Fine, SameView, DoubtKept, SoFar, Alone, Untouched, Same, Informed, MailSoFar, AccountType, RowType
    <2>3. Fine(r, u, q, "roles")
      <3>0. /\ q.op = "login" /\ q.at = "token" /\ keycloak[u].there /\ ~q.wrote
            /\ keycloak'[u] = keycloak[u] /\ row'[u] = row[u] /\ doubt'[u] = doubt[u]
            /\ \/ request'[r] = Idle
               \/ /\ Goes(r, q, "find") /\ request'[r].roles = keycloak[u].roles
                  /\ request'[r].sent <=> "user" \in keycloak[u].roles
        BY <2>0, <1>i, <1>q DEF IssueTokenDone, Informed, Quits
      <3>1. "roles" \in Touches(q.op)
        BY <3>0, <1>w
      <3>2. SameView(u, "roles") /\ DoubtKept(u, "roles") /\ Untouched(r, "roles")
        BY <3>0, <1>q DEF SameView, DoubtKept, Untouched
      <3>3. ASSUME request'[r] # Idle, Alone(r, "roles")'
            PROVE  RolesSoFar(r)'
        <4>1. Alone(r, "roles") /\ WorksAt(r, u, "roles")
          BY <3>0, <3>1, <3>3, <1>q, <1>u DEF Alone, WorksAt, Goes
        <4>2. "roles" \notin doubt[u] => Same(u, "roles")
          BY <4>1, <3>0, <3>2, <1>q, <1>v, AloneAgrees DEF StepInv
        <4>3. row[u].there /\ "roles" \notin doubt[u] => "user" \in keycloak[u].roles
          BY <4>2, <3>0, <1>i DEF Same, Stored
        <4> QED
          BY <4>3, <3>0, <3>3, <1>u DEF RolesSoFar, Goes
      <3> QED
        BY <3>0, <3>1, <3>2, <3>3 DEF Fine, SoFar
    <2>4. Fine(r, u, q, "cache")
      BY <2>0, <1>q, <1>u, <1>i, <1>k, <1>w, <1>s, <1>v
      DEF IssueTokenDone, GoesOn, GoesWritten, Goes, Breaks, Quits, Ends, Final,
          Fine, SameView, DoubtKept, SoFar, Alone, Untouched, Same, Informed, CopySoFar, AccountType, RowType, Copy
    <2> QED
      BY <2>0, <2>1, <2>2, <2>3, <2>4, <1>q, <1>u, <1>v, StepKept
  <1> QED
    BY <1>1, <1>2, <1>3, <1>4, <1>5, <1>6, <1>7, <1>8, <1>9, <1>10, <1>11, <1>12, <1>13, <1>14, <1>15, <1>16, <1>17, <1>18, <1>19, <1>20, <1>21, <1>22 DEF Step

LEMMA StepBegin ==
  ASSUME StepInv, TypeOK', NEW r \in Requests, NEW u \in Users, Begin(r, u)
  PROVE  StepInv'
  <1>t. TypeOK
    BY DEF StepInv
  <1>0. UNCHANGED <<keycloak, sessions, row, cache, doubt>>
    BY <1>t, DoesBegin
  <1>1. PICK q \in RequestType : Fresh(q, u) /\ Joins(r, u, q)
    BY <1>t, DoesBegin
  <1>o. q.op \in Ops /\ \A s \in Requests : request[s].op \in Ops
    BY <1>t, RequestTyped DEF RequestType, Ops
  <1>i. request[r].op = "none" /\ \A a : a \notin Touches(request[r].op)
    BY <1>1 DEF Joins, Idle, Touches
  <1>r. /\ request'[r].op = q.op /\ request'[r].user = u /\ request'[r].at = q.at
        /\ request'[r].roles = q.roles /\ request'[r].mail = q.mail
        /\ ~request'[r].wrote /\ ~request'[r].sent
        /\ \A a : a \in request'[r].clash <=>
                    \E o \in Busy(u) : a \in Common(q.op, request[o].op)
    BY <1>1, <1>t, JoinsMeans
  <1>2. ASSUME NEW s \in Requests \ {r}
        PROVE  /\ SameRecord(s)
               /\ \A a : a \in request'[s].clash <=>
                           \/ a \in request[s].clash
                           \/ s \in Busy(u) /\ a \in Common(q.op, request[s].op)
    BY <1>1, <1>t, JoinsMeans DEF SameRecord
  <1>3. \A v \in Users, a \in Views : SameView(v, a) /\ DoubtKept(v, a)
    BY <1>0 DEF SameView, DoubtKept, Copy
  <1>4. ASSUME NEW v \in Users, NEW a \in Views, v # u \/ a \notin Touches(q.op)
        PROVE  InStep(v, a)'
    <2>1. ASSUME NEW s \in Requests
          PROVE  \/ ~WorksAt(s, v, a) /\ ~WorksAt(s, v, a)'
                 \/ SameRecord(s) /\ (Alone(s, a)' <=> Alone(s, a))
      <3>1. CASE s = r
        BY <3>1, <1>4, <1>i, <1>r DEF WorksAt
      <3>2. CASE s # r /\ v = u
        <4>1. a \notin Common(q.op, request[s].op)
          BY <3>2, <1>4, <1>o, CommonMeans
        <4> QED
          BY <3>2, <4>1, <1>2 DEF Alone
      <3>3. CASE s # r /\ v # u
        <4>1. CASE request[s].user = v
          <5>1. s \notin Busy(u)
            BY <4>1, <3>3 DEF Busy
          <5> QED
            BY <5>1, <3>3, <1>2 DEF Alone
        <4>2. CASE request[s].user # v
          BY <4>2, <3>3, <1>2 DEF WorksAt, SameRecord
        <4> QED
          BY <4>1, <4>2
      <3> QED
        BY <3>1, <3>2, <3>3
    <2>2. InStep(v, a)
      BY DEF StepInv
    <2> QED
      BY <2>1, <2>2, <1>3, StepElsewhere
  <1>5. ASSUME NEW a \in Views, a \in Touches(q.op)
        PROVE  InStep(u, a)'
    <2>0. InStep(u, a)
      BY DEF StepInv
    <2>1. ASSUME NEW s \in Requests \ {r}, WorksAt(s, u, a)'
          PROVE  /\ WorksAt(s, u, a) /\ (Alone(s, a)' => Alone(s, a)) /\ SameRecord(s)
                 /\ request[s].op # "read" \/ q.op # "read" => ~Alone(s, a)' /\ ~Alone(r, a)'
      <3>1. SameRecord(s) /\ WorksAt(s, u, a) /\ (Alone(s, a)' => Alone(s, a))
        BY <2>1, <1>2 DEF WorksAt, SameRecord, Alone
      <3>2. s \in Busy(u)
        BY <3>1 DEF WorksAt, Busy, Touches
      <3>3. request[s].op # "read" \/ q.op # "read" => a \in Common(q.op, request[s].op)
        BY <3>1, <1>5, <1>o, CommonMeans DEF WorksAt
      <3> QED
        BY <3>1, <3>2, <3>3, <1>2, <1>r DEF Alone
    <2>2. Marked(u, a)'
      <3> SUFFICES ASSUME NEW o \in Requests, NEW s \in Requests, o # s,
                          WorksAt(o, u, a)', WorksAt(s, u, a)', Together(o, s)'
                   PROVE  ~Alone(o, a)'
        BY DEF Marked
      <3>1. CASE o = r
        BY <3>1, <2>1, <1>r DEF Together, SameRecord
      <3>2. CASE s = r
        BY <3>2, <2>1, <1>r DEF Together, SameRecord
      <3>3. CASE o # r /\ s # r
        <4>1. WorksAt(o, u, a) /\ WorksAt(s, u, a) /\ Together(o, s)
          BY <3>3, <2>1 DEF Together, SameRecord
        <4>2. ~Alone(o, a)
          BY <4>1, <2>0 DEF InStep, Marked
        <4> QED
          BY <4>2, <3>3, <2>1
      <3> QED
        BY <3>1, <3>2, <3>3
    <2>3. Untroubled(u, a)'
      <3> SUFFICES ASSUME a \notin doubt'[u],
                          \A s \in Requests : WorksAt(s, u, a)' => Untouched(s, a)'
                   PROVE  Same(u, a)'
        BY DEF Untroubled
      <3>1. ASSUME NEW s \in Requests, WorksAt(s, u, a)
            PROVE  Untouched(s, a)
        <4>1. s # r
          BY <3>1, <1>i DEF WorksAt
        <4>2. WorksAt(s, u, a)'
          BY <3>1, <4>1, <1>2 DEF WorksAt, SameRecord
        <4>3. Untouched(s, a)' /\ SameRecord(s) /\ (Alone(s, a)' => Alone(s, a))
          BY <4>1, <4>2, <2>1
        <4> QED
          BY <4>3 DEF Untouched, SameRecord
      <3>2. Same(u, a)
        BY <3>1, <2>0, <1>0 DEF InStep, Untroubled
      <3> QED
        BY <3>2, <1>3, SameKept
    <2>4. ASSUME NEW s \in Requests, WorksAt(s, u, a)'
          PROVE  SoFar(s, a)'
      <3>1. CASE s = r
        BY <3>1, <1>r, <1>1 DEF Fresh, SoFar, MailSoFar, RolesSoFar, CopySoFar
      <3>2. CASE s # r
        <4>1. WorksAt(s, u, a) /\ SameRecord(s) /\ (Alone(s, a)' => Alone(s, a))
          BY <3>2, <2>1, <2>4
        <4>2. SoFar(s, a) /\ request[s].user = u
          BY <4>1, <2>0 DEF InStep, WorksAt
        <4> QED
          BY <4>1, <4>2, <1>3, SoFarKept
      <3> QED
        BY <3>1, <3>2
    <2> QED
      BY <2>2, <2>3, <2>4 DEF InStep
  <1> QED
    BY <1>4, <1>5 DEF StepInv

\* Until a copy expires, or forever, nothing else moves.
LEMMA StepExpire ==
  ASSUME StepInv, TypeOK', NEW u \in Users, Expire(u)
  PROVE  StepInv'
  <1>1. /\ UNCHANGED <<keycloak, sessions, row, request, arrived>>
        /\ cache'[u] = NoCopy /\ \A v \in Users \ {u} : cache'[v] = cache[v]
        /\ \A v \in Users, a \in Views : a # "cache" => DoubtKept(v, a)
        /\ \A v \in Users \ {u} : doubt'[v] = doubt[v]
    BY DEF Expire, StepInv, TypeOK, DoubtKept
  <1>2. \A s \in Requests, a \in Views : SameRecord(s) /\ (Alone(s, a)' <=> Alone(s, a))
    BY <1>1 DEF SameRecord, Alone
  <1>3. ASSUME NEW v \in Users, NEW a \in Views, v # u \/ a # "cache"
        PROVE  InStep(v, a)'
    <2>1. SameView(v, a) /\ DoubtKept(v, a)
      BY <1>1, <1>3 DEF SameView, DoubtKept, Copy
    <2>2. InStep(v, a)
      BY DEF StepInv
    <2> QED
      BY <2>1, <2>2, <1>2, StepElsewhere
  <1>4. InStep(u, "cache")'
    <2>0. InStep(u, "cache")
      BY DEF StepInv, Views
    <2>1. Marked(u, "cache")'
      BY <2>0, <1>1 DEF InStep, Marked, WorksAt, Together, Alone
    <2>2. Same(u, "cache")'
      BY <1>1 DEF Same
    <2>3. ASSUME NEW s \in Requests, WorksAt(s, u, "cache")'
          PROVE  SoFar(s, "cache")'
      BY <2>0, <2>3, <1>1 DEF InStep, WorksAt, SoFar, Alone, CopySoFar
    <2> QED
      BY <2>1, <2>2, <2>3 DEF InStep, Untroubled
  <1> QED
    BY <1>3, <1>4 DEF StepInv

LEMMA StepCrash ==
  ASSUME StepInv, TypeOK', Crash
  PROVE  StepInv'
  <1>i. Idle.op = "none" /\ \A a : a \notin Touches("none")
    BY DEF Idle, Touches
  <1>0. UNCHANGED <<keycloak, sessions, row, cache, arrived>>
    BY DEF Crash
  <1>1. \A s \in Requests : request'[s].op = "none"
    BY <1>i DEF Crash
  <1>2. \A s \in Requests, v \in Users, a \in Views : ~WorksAt(s, v, a)'
    BY <1>1, <1>i DEF WorksAt
  <1>3. ASSUME NEW v \in Users, NEW a \in Views, a \notin doubt'[v]
        PROVE  Same(v, a)'
    <2>1. doubt'[v] = doubt[v] \cup
            UNION {Touches(request[s].op) : s \in {o \in Busy(v) : request[o].wrote}}
      BY DEF Crash
    <2>2. ASSUME NEW s \in Requests, WorksAt(s, v, a)
          PROVE  Untouched(s, a)
      <3>1. s \in Busy(v)
        BY <2>2, <1>i DEF WorksAt, Busy
      <3>2. ~request[s].wrote
        BY <3>1, <2>1, <2>2, <1>3 DEF WorksAt
      <3> QED
        BY <3>2 DEF Untouched
    <2>3. Same(v, a)
      BY <2>1, <2>2, <1>3 DEF StepInv, InStep, Untroubled
    <2>4. SameView(v, a)
      BY <1>0 DEF SameView, Copy
    <2> QED
      BY <2>3, <2>4, SameKept
  <1> QED
    BY <1>2, <1>3 DEF StepInv, InStep, Marked, Untroubled

\* Whoever works alone on the address, the roles or the cached copy of a user
\* has done what it had to by the call it is at, and without work or doubt the
\* two sides agree.
LEMMA InStepHolds == Spec => []StepInv
  <1>1. Init => StepInv
    <2> SUFFICES ASSUME Init
                 PROVE  StepInv
      OBVIOUS
    <2>1. TypeOK
      BY IdleType, NoRowType, DirectoryAssumption
      DEF Init, TypeOK, NoAccount, NoCopy, Copy, RowType
    <2>i. Idle.op = "none" /\ \A a : a \notin Touches("none")
      BY DEF Idle, Touches
    <2>2. \A s \in Requests, v \in Users, a \in Views : ~WorksAt(s, v, a)
      BY <2>i DEF Init, WorksAt
    <2>3. \A v \in Users, a \in Views : Same(v, a)
      BY DEF Init, Same, NoRow
    <2> QED
      BY <2>1, <2>2, <2>3 DEF StepInv, InStep, Marked, Untroubled
  <1>2. TypeOK' /\ RowsInv /\ StepInv /\ [Next]_vars => StepInv'
    <2> SUFFICES ASSUME TypeOK', RowsInv, StepInv, [Next]_vars
                 PROVE  StepInv'
      OBVIOUS
    <2>1. ASSUME NEW r \in Requests, NEW u \in Users, Begin(r, u)
          PROVE  StepInv'
      BY <2>1, StepBegin
    <2>2. ASSUME NEW r \in Requests, Step(r)
          PROVE  StepInv'
      BY <2>2, StepStep
    <2>3. ASSUME NEW u \in Users, Expire(u)
          PROVE  StepInv'
      BY <2>3, StepExpire
    <2>4. CASE UNCHANGED <<keycloak, row, cache, request, doubt>>
      <3>1. \A v \in Users, a \in Views : SameView(v, a) /\ DoubtKept(v, a)
        BY <2>4 DEF SameView, DoubtKept, Copy
      <3>2. \A s \in Requests, a \in Views : SameRecord(s) /\ (Alone(s, a)' <=> Alone(s, a))
        BY <2>4 DEF SameRecord, Alone
      <3> QED
        BY <3>1, <3>2, StepElsewhere DEF StepInv
    <2>5. ASSUME Crash
          PROVE  StepInv'
      BY <2>5, StepCrash
    <2>6. ASSUME NEW u \in Users, EndAllSessions(u) \/ \E s \in Sessions : EndSession(u, s)
          PROVE  UNCHANGED <<keycloak, row, cache, request, doubt>>
      BY <2>6 DEF EndAllSessions, EndSession
    <2> QED
      BY <2>1, <2>2, <2>3, <2>4, <2>5, <2>6 DEF Next, vars
  <1> QED
    BY <1>1, <1>2, DirectoryTypes, RowsHold, PTL DEF Spec

LEMMA SettledMeans ==
  ASSUME StepInv, NEW u \in Users, NEW a \in Views, Settled(u, a)
  PROVE  Same(u, a)
  <1>1. ASSUME NEW r \in Requests
        PROVE  ~WorksAt(r, u, a)
    BY DEF Settled, Busy, WorksAt, Touches
  <1>2. InStep(u, a) /\ a \notin doubt[u]
    BY DEF StepInv, Settled
  <1> QED
    BY <1>1, <1>2 DEF InStep, Untroubled

\* Requests that ran to their end without interfering leave the same address and
\* the same managed roles in Keycloak and in the row, for any number of users and
\* of requests before them: updateUser, updateUserRoles, recordLogin, createUser.
THEOREM DirectoriesStayInStep == Spec => []DirectoriesAgree
  <1>1. StepInv => DirectoriesAgree
    BY SettledMeans DEF DirectoriesAgree, Same, Views
  <1> QED
    BY <1>1, InStepHolds, PTL

\* The copy GET /users/:id answers with is the row, unless a read overlapped a
\* write or a write broke down before it dropped the copy: UserService.findUser.
THEOREM CacheStaysInStep == Spec => []CacheAgrees
  <1>1. StepInv => CacheAgrees
    BY SettledMeans DEF CacheAgrees, Same, Views
  <1> QED
    BY <1>1, InStepHolds, PTL

=============================================================================
