------------------------------- MODULE Inbox -------------------------------
(***************************************************************************)
(* The notifications of the users: the rows, the requests that load a row  *)
(* and save it later, and what the sockets of a user are told meanwhile.   *)
(* A save writes every column it loaded that differs from the stored row,  *)
(* and inserts the row if it is gone; an event is emitted after the row is *)
(* stored, to the sockets that are in the room of the user then.           *)
(***************************************************************************)
EXTENDS Naturals, FiniteSets

CONSTANTS
  Owners,   \* the users
  Notes,    \* the ids of notifications
  Slots,    \* requests in progress at once
  Screens,  \* the sockets
  MaxAsked, \* how many requests arrive
  Nil

VARIABLES
  note,     \* the rows: a function on the ids in use
  asked,    \* asked[r]: the request in slot r, or Nil
  room,     \* room[s]: the user whose room socket s is in, or Nil
  told,     \* told[s]: what the socket has been told since it joined
  seen,     \* history: the ids that have been marked as read
  gone,     \* history: the ids that have been removed
  overlapped,  \* history: the ids that two requests worked on at once
  arrivals

ivars == <<note, asked, room, told, seen, gone, overlapped, arrivals>>

Row == [user: Owners, read: BOOLEAN, active: BOOLEAN]

With(f, x, y) == [z \in DOMAIN f \cup {x} |-> IF z = x THEN y ELSE f[z]]
Without(f, x) == [z \in DOMAIN f \ {x} |-> f[z]]

\* Whether request q works on the notification n.
Works(q, n) == q # Nil /\ (q.op = "readAll" \/ q.id = n)

Overlap(requests, n) ==
  \E r, s \in Slots :
    /\ r # s /\ Works(requests[r], n) /\ Works(requests[s], n)
    /\ requests[r].user = requests[s].user

\* The requests in progress become these.
Go(requests) ==
  /\ asked' = requests
  /\ overlapped' = overlapped \cup {n \in Notes : Overlap(requests, n)}

Step(r, q) == Go([asked EXCEPT ![r] = q])
AtStep(r, op, at) == asked[r] # Nil /\ asked[r].op = op /\ asked[r].at = at
-----------------------------------------------------------------------------
(* A request arrives, after the guards have checked whose it is.            *)

Ask(r, q) ==
  /\ asked[r] = Nil /\ arrivals < MaxAsked
  /\ arrivals' = arrivals + 1
  /\ Step(r, q)
  /\ UNCHANGED <<note, room, told, seen, gone>>

AskCreate(r, u) ==
  Ask(r, [op |-> "create", user |-> u, id |-> Nil, at |-> "insert", row |-> Nil])
AskReadAll(r, u) ==
  Ask(r, [op |-> "readAll", user |-> u, id |-> Nil, at |-> "update", row |-> Nil])

\* findById: the row, or 404, which leaves nothing behind.
AskOne(r, op, u, n) ==
  /\ op \in {"update", "read", "remove"}
  /\ n \in DOMAIN note /\ note[n].user = u
  /\ Ask(r, [op |-> op, user |-> u, id |-> n, at |-> "save", row |-> note[n]])
-----------------------------------------------------------------------------
(* What the database does.                                                  *)

Insert(r, n) ==
  /\ AtStep(r, "create", "insert")
  /\ n \in Notes /\ n \notin DOMAIN note \cup gone
  /\ note' = With(note, n, [user |-> asked[r].user, read |-> FALSE, active |-> TRUE])
  /\ Step(r, [asked[r] EXCEPT !.id = n, !.at = "emit"])
  /\ UNCHANGED <<room, told, seen, gone, arrivals>>

\* PATCH: a merge of the fields of the request, which never name is_read.
SaveUpdate(r, active) ==
  /\ AtStep(r, "update", "save")
  /\ note' = With(note, asked[r].id, [asked[r].row EXCEPT !.active = active])
  /\ Step(r, Nil)
  /\ UNCHANGED <<room, told, seen, gone, arrivals>>

SaveRead(r) ==
  /\ AtStep(r, "read", "save")
  /\ note' = With(note, asked[r].id, [asked[r].row EXCEPT !.read = TRUE])
  /\ seen' = seen \cup {asked[r].id}
  /\ Step(r, [asked[r] EXCEPT !.at = "emit"])
  /\ UNCHANGED <<room, told, gone, arrivals>>

OfUser(u) == {n \in DOMAIN note : note[n].user = u}

UpdateAll(r) ==
  /\ AtStep(r, "readAll", "update")
  /\ note' = [n \in DOMAIN note |->
       IF n \in OfUser(asked[r].user) THEN [note[n] EXCEPT !.read = TRUE] ELSE note[n]]
  /\ seen' = seen \cup OfUser(asked[r].user)
  /\ Step(r, [asked[r] EXCEPT !.at = "emit"])
  /\ UNCHANGED <<room, told, gone, arrivals>>

Delete(r) ==
  /\ AtStep(r, "remove", "save")
  /\ note' = Without(note, asked[r].id)
  /\ gone' = gone \cup {asked[r].id}
  /\ Step(r, Nil)
  /\ UNCHANGED <<room, told, seen, arrivals>>
-----------------------------------------------------------------------------
(* What the sockets are told.                                               *)

\* Mutant: an event goes to every room.
EveryRoom(u) == {s \in Screens : room[s] # Nil}

InRoom(u) == {s \in Screens : room[s] = u}

\* The state of a notification as the event leaves it on a screen.
Hears(heard, q) ==
  CASE q.op = "create" -> With(heard, q.id, [user |-> q.user, read |-> FALSE])
    [] q.op = "read" /\ q.id \in DOMAIN heard -> [heard EXCEPT ![q.id].read = TRUE]
    [] q.op = "readAll" -> [n \in DOMAIN heard |-> [heard[n] EXCEPT !.read = TRUE]]
    [] OTHER -> heard

\* NEW_NOTIFICATION, MARK_READ or MARK_ALL_READ to the room of the user.
Emit(r) ==
  /\ asked[r] # Nil /\ asked[r].at = "emit"
  /\ told' = [s \in Screens |->
       IF s \in InRoom(asked[r].user) THEN Hears(told[s], asked[r]) ELSE told[s]]
  /\ Step(r, Nil)
  /\ UNCHANGED <<note, room, seen, gone, arrivals>>

Join(s, u) ==
  /\ room[s] = Nil
  /\ room' = [room EXCEPT ![s] = u]
  /\ UNCHANGED <<note, asked, told, seen, gone, overlapped, arrivals>>

\* The socket leaves the room or closes, and the screen starts again.
Leave(s) ==
  /\ room[s] # Nil
  /\ room' = [room EXCEPT ![s] = Nil]
  /\ told' = [told EXCEPT ![s] = <<>>]
  /\ UNCHANGED <<note, asked, seen, gone, overlapped, arrivals>>

\* The process stops: requests and sockets are cut.
Crash ==
  /\ asked' = [r \in Slots |-> Nil]
  /\ room' = [s \in Screens |-> Nil]
  /\ told' = [s \in Screens |-> <<>>]
  /\ UNCHANGED <<note, seen, gone, overlapped, arrivals>>
-----------------------------------------------------------------------------
Init ==
  /\ note = <<>>
  /\ asked = [r \in Slots |-> Nil]
  /\ room = [s \in Screens |-> Nil]
  /\ told = [s \in Screens |-> <<>>]
  /\ seen = {} /\ gone = {} /\ overlapped = {} /\ arrivals = 0

RequestNext(r) ==
  \/ \E u \in Owners :
       \/ AskCreate(r, u)
       \/ AskReadAll(r, u)
       \/ \E op \in {"update", "read", "remove"}, n \in Notes : AskOne(r, op, u, n)
  \/ \E n \in Notes : Insert(r, n)
  \/ \E active \in BOOLEAN : SaveUpdate(r, active)
  \/ SaveRead(r)
  \/ UpdateAll(r)
  \/ Delete(r)
  \/ Emit(r)

Next ==
  \/ \E r \in Slots : RequestNext(r)
  \/ \E s \in Screens : Leave(s) \/ \E u \in Owners : Join(s, u)
  \/ Crash

Spec == Init /\ [][Next]_ivars
-----------------------------------------------------------------------------
(* Properties.                                                              *)

\* A notification that was marked as read stays read and one that was
\* removed stays away: no request takes that back, unless it had loaded the
\* row before another request changed it (update and markAsRead save the
\* row they loaded).
NothingTakenBack ==
  \A n \in DOMAIN note \ overlapped : n \notin gone /\ (n \in seen => note[n].read)

\* A subscribed socket is told of the notifications of one user only, and
\* what it was last told of one is what its row says, once no request is at
\* work on it and unless two were at once.
ScreensAgree ==
  \A s \in Screens : \A n \in DOMAIN told[s] :
    /\ told[s][n].user = room[s]
    /\ n \in DOMAIN note \ overlapped /\ (\A r \in Slots : ~Works(asked[r], n)) =>
         told[s][n].read = note[n].read

MarksKept == NothingTakenBack /\ ScreensAgree
=============================================================================
