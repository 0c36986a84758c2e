------------------------------ MODULE Presence ------------------------------
(***************************************************************************)
(* Sessions and presence.  A request or a socket is let in by asking       *)
(* Keycloak whether its token is still good, once; what it does afterwards *)
(* does not depend on the session any more.  A socket that connects or     *)
(* closes marks its user in Redis without waiting, under a key that        *)
(* expires, and every socket that closes marks its user offline.           *)
(***************************************************************************)
EXTENDS Naturals, Sequences

CONSTANTS
  People,      \* the users
  Admins,      \* \subseteq People
  SessionIds,  \* the sessions of Keycloak
  Slots,       \* requests in progress at once
  Sockets,
  MaxMarks,    \* bound: marks on their way
  Nil

VARIABLES
  session,  \* session[i]: its user and whether it is open, or Nil
  fresh,    \* the sessions whose access token has not expired
  doing,    \* doing[r]: the request in slot r, or Nil
  socket,   \* socket[s]: its user, or Nil
  marks,    \* the marks on their way to Redis
  online,   \* the keys online:<user>
  stale,    \* history: users whose last mark was lost, with the process or alone
  wronged   \* history: sessions closed for somebody who may not

pvars == <<session, fresh, doing, socket, marks, online, stale, wronged>>

Opened(i) == session[i] # Nil /\ session[i].open
OpenOf(u) == {i \in SessionIds : Opened(i) /\ session[i].user = u}
-----------------------------------------------------------------------------
(* Sessions.                                                                *)

\* A session begins: POST /auth/login, or the password check below.
Begin(i, u) == session[i] = Nil /\ session' = [session EXCEPT ![i] = [user |-> u, open |-> TRUE]]

Login(i, u) ==
  /\ Begin(i, u)
  /\ fresh' = fresh \cup {i}
  /\ UNCHANGED <<doing, socket, marks, online, stale, wronged>>

TokenExpires(i) ==
  /\ i \in fresh
  /\ fresh' = fresh \ {i}
  /\ UNCHANGED <<session, doing, socket, marks, online, stale, wronged>>

\* A refresh of a session that is closed is answered 401.
Refresh(i) ==
  /\ Opened(i)
  /\ fresh' = fresh \cup {i}
  /\ UNCHANGED <<session, doing, socket, marks, online, stale, wronged>>

Closed(S) ==
  session' = [i \in SessionIds |->
    IF i \in S /\ session[i] # Nil THEN [session[i] EXCEPT !.open = FALSE] ELSE session[i]]

\* Whoever holds the refresh token logs out; or the session times out.
Logout(i) ==
  /\ Opened(i) /\ Closed({i})
  /\ UNCHANGED <<fresh, doing, socket, marks, online, stale, wronged>>

\* introspect: the token, then the row of the user it names.
Introspect(i) == IF Opened(i) /\ i \in fresh THEN session[i].user ELSE Nil

\* A request passes AuthGuard, and AdminGuard where its route has it.
Enter(r, i, op, on, first) ==
  /\ doing[r] = Nil /\ Introspect(i) # Nil
  /\ op = "revokeAll" => Introspect(i) \in Admins
  /\ doing' = [doing EXCEPT ![r] = [op |-> op, user |-> Introspect(i), on |-> on, at |-> first]]
  /\ UNCHANGED <<session, fresh, socket, marks, online, stale, wronged>>

EnterRevoke(r, i, j) == Enter(r, i, "revoke", j, "list")
EnterRevokeAll(r, i, u) == Enter(r, i, "revokeAll", u, "close")
EnterPassword(r, i) == Enter(r, i, "password", Nil, "check")

AtCall(r, op, at) == doing[r] # Nil /\ doing[r].op = op /\ doing[r].at = at

\* Mutant: any open session is found in the list.
ListAll(r) ==
  /\ AtCall(r, "revoke", "list")
  /\ doing' = [doing EXCEPT ![r] = IF Opened(doing[r].on) THEN [@ EXCEPT !.at = "delete"] ELSE Nil]
  /\ UNCHANGED <<session, fresh, socket, marks, online, stale, wronged>>

\* revokeSession looks for the session among those of the caller, or 404.
ListOwn(r) ==
  /\ AtCall(r, "revoke", "list")
  /\ doing' = [doing EXCEPT ![r] =
       IF doing[r].on \in OpenOf(doing[r].user) THEN [@ EXCEPT !.at = "delete"] ELSE Nil]
  /\ UNCHANGED <<session, fresh, socket, marks, online, stale, wronged>>

DeleteSession(r) ==
  /\ AtCall(r, "revoke", "delete")
  /\ Closed({doing[r].on})
  /\ wronged' = IF session[doing[r].on].user = doing[r].user THEN wronged
                ELSE wronged \cup {doing[r].on}
  /\ doing' = [doing EXCEPT ![r] = Nil]
  /\ UNCHANGED <<fresh, socket, marks, online, stale>>

CloseAll(r) ==
  /\ AtCall(r, "revokeAll", "close")
  /\ Closed(OpenOf(doing[r].on))
  /\ doing' = [doing EXCEPT ![r].at = "offline"]
  /\ UNCHANGED <<fresh, socket, marks, online, stale, wronged>>

\* verifyPassword logs in to check the password: it opens a session that
\* nobody uses or closes.  A wrong password ends the request.
CheckPassword(r, i) ==
  /\ AtCall(r, "password", "check")
  /\ \/ Begin(i, doing[r].user) /\ doing' = [doing EXCEPT ![r].at = "set"]
     \/ session' = session /\ doing' = [doing EXCEPT ![r] = Nil]
  /\ UNCHANGED <<fresh, socket, marks, online, stale, wronged>>

\* The new password closes no session.
SetPassword(r) ==
  /\ AtCall(r, "password", "set")
  /\ doing' = [doing EXCEPT ![r] = Nil]
  /\ UNCHANGED <<session, fresh, socket, marks, online, stale, wronged>>
-----------------------------------------------------------------------------
(* Sockets and presence.                                                    *)

Mark(u, on) == Len(marks) < MaxMarks /\ marks' = Append(marks, [user |-> u, on |-> on])

\* The last call of adminRevokeAllSessions; open sockets stay open.
MarkRevoked(r) ==
  /\ AtCall(r, "revokeAll", "offline")
  /\ Mark(doing[r].on, FALSE)
  /\ doing' = [doing EXCEPT ![r] = Nil]
  /\ UNCHANGED <<session, fresh, socket, online, stale, wronged>>

\* authenticateSocket, before the connection is accepted.
Authenticate(s, i) ==
  /\ socket[s] = Nil /\ Introspect(i) # Nil
  /\ socket' = [socket EXCEPT ![s] = [user |-> Introspect(i), at |-> "accepted", room |-> Nil]]
  /\ UNCHANGED <<session, fresh, doing, marks, online, stale, wronged>>

\* handleConnection.
Connect(s) ==
  /\ socket[s] # Nil /\ socket[s].at = "accepted"
  /\ socket' = [socket EXCEPT ![s].at = "open"]
  /\ Mark(socket[s].user, TRUE)
  /\ UNCHANGED <<session, fresh, doing, online, stale, wronged>>

\* handleSubscribe and handleUnsubscribe, for the room a payload names.
Subscribe(s, u) ==
  /\ socket[s] # Nil /\ socket[s].at = "open"
  /\ u = socket[s].user
  /\ socket' = [socket EXCEPT ![s].room = u]
  /\ UNCHANGED <<session, fresh, doing, marks, online, stale, wronged>>

Unsubscribe(s, u) ==
  /\ socket[s] # Nil /\ socket[s].at = "open"
  /\ u = socket[s].user
  /\ socket' = [socket EXCEPT ![s].room = Nil]
  /\ UNCHANGED <<session, fresh, doing, marks, online, stale, wronged>>

\* handleDisconnect, whichever other sockets the user has.
Disconnect(s) ==
  /\ socket[s] # Nil
  /\ socket' = [socket EXCEPT ![s] = Nil]
  /\ IF socket[s].at = "open" THEN Mark(socket[s].user, FALSE) ELSE UNCHANGED marks
  /\ UNCHANGED <<session, fresh, doing, online, stale, wronged>>

\* markOnline sets the key, markOffline deletes it.
ApplyMark ==
  /\ marks # <<>>
  /\ LET u == Head(marks).user
     IN  /\ online' = IF Head(marks).on THEN online \cup {u} ELSE online \ {u}
         /\ stale' = stale \ {u}
  /\ marks' = Tail(marks)
  /\ UNCHANGED <<session, fresh, doing, socket, wronged>>

LoseMark ==
  /\ marks # <<>>
  /\ stale' = stale \cup {Head(marks).user}
  /\ marks' = Tail(marks)
  /\ UNCHANGED <<session, fresh, doing, socket, online, wronged>>

\* PRESENCE_TTL_MS after the last mark; nobody calls heartbeat.
KeyExpires(u) ==
  /\ u \in online
  /\ online' = online \ {u} /\ stale' = stale \ {u}
  /\ UNCHANGED <<session, fresh, doing, socket, marks, wronged>>

\* The process stops, with its sockets and what was on its way.
Stop ==
  /\ socket' = [s \in Sockets |-> Nil]
  /\ doing' = [r \in Slots |-> Nil]
  /\ marks' = <<>>
  /\ stale' = online
  /\ UNCHANGED <<session, fresh, online, wronged>>
-----------------------------------------------------------------------------
Init ==
  /\ session = [i \in SessionIds |-> Nil]
  /\ fresh = {}
  /\ doing = [r \in Slots |-> Nil]
  /\ socket = [s \in Sockets |-> Nil]
  /\ marks = <<>>
  /\ online = {} /\ stale = {} /\ wronged = {}

SessionNext(i) ==
  \/ \E u \in People : Login(i, u)
  \/ TokenExpires(i)
  \/ Refresh(i)
  \/ Logout(i)

RequestNext(r) ==
  \/ \E i \in SessionIds :
       \/ \E j \in SessionIds : EnterRevoke(r, i, j)
       \/ \E u \in People : EnterRevokeAll(r, i, u)
       \/ EnterPassword(r, i)
       \/ CheckPassword(r, i)
  \/ ListOwn(r) \/ DeleteSession(r) \/ CloseAll(r) \/ SetPassword(r) \/ MarkRevoked(r)

SocketNext(s) ==
  \/ \E i \in SessionIds : Authenticate(s, i)
  \/ \E u \in People : Subscribe(s, u) \/ Unsubscribe(s, u)
  \/ Connect(s)
  \/ Disconnect(s)

Next ==
  \/ \E i \in SessionIds : SessionNext(i)
  \/ \E r \in Slots : RequestNext(r)
  \/ \E s \in Sockets : SocketNext(s)
  \/ \E u \in People : KeyExpires(u)
  \/ ApplyMark \/ LoseMark \/ Stop

Spec == Init /\ [][Next]_pvars
-----------------------------------------------------------------------------
(* Properties.                                                              *)

\* A user is shown online only while a socket of theirs is open, or a mark
\* of theirs is on its way, or their last mark was lost less than the life
\* of the key ago (handleConnection, handleDisconnect, PresenceService).
ShownOnline ==
  \A u \in online :
    \/ \E s \in Sockets : socket[s] # Nil /\ socket[s].at = "open" /\ socket[s].user = u
    \/ \E k \in DOMAIN marks : marks[k].user = u
    \/ u \in stale

\* A socket is in no room but the one of the user it was let in for.
OwnRooms == \A s \in Sockets : socket[s] # Nil => socket[s].room \in {Nil, socket[s].user}

\* A session is closed by its own user or an admin, though revokeSession
\* deletes it some time after it looked whose it is.
OwnSessions == wronged = {}

PresenceHonest == ShownOnline /\ OwnRooms /\ OwnSessions
=============================================================================
