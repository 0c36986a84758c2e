------------------------------ MODULE Services ------------------------------
(***************************************************************************)
(* The services around the books that keep state of their own: quotes of   *)
(* assets, notifications, presence and sessions, and the answers to        *)
(* requests.  They share no state; each is an instance of its module.      *)
(***************************************************************************)
EXTENDS Integers

CONSTANTS
  Assets, Symbols, Blank, Calls, MaxMoment, MaxCalls, Changes,
  Owners, Notes, Slots, Screens, MaxAsked,
  People, Admins, SessionIds, Visits, Sockets, MaxMarks,
  Thrown, Returned, LogServices, MaxRetries,
  Nil

VARIABLES
  asset, moment, calling, dirty, crossed, called,
  note, asked, room, told, seen, gone, overlapped, arrivals,
  session, fresh, doing, socket, marks, online, stale, wronged,
  call, log, remote, local, lost, up

\* What is thrown and what is returned, as the code tells it apart; NULL is no text.
ASSUME AnswersAssumption ==
  /\ \A e \in Thrown : e.class \in {"validation", "http", "other"} /\ e.status # "true"
  /\ \A v \in Returned :
       /\ v.form \in {"envelope", "page", "list", "one", "none"}
       /\ (v.form = "one" => v.data = 1)
       /\ (v.form = "none" => v.data = 0)
  /\ MaxRetries \in Nat
  /\ Nil # "true"

\* NULL is no session, no request and no socket.
ASSUME PresenceAssumption ==
  /\ Nil \notin [user : People, open : BOOLEAN]
  /\ Nil \notin [op : {"revoke", "revokeAll", "password"}, user : People,
                on : SessionIds \cup People \cup {Nil},
                at : {"list", "delete", "close", "offline", "check", "set"}]
  /\ Nil \notin [user : People, at : {"accepted", "open"}, room : People \cup {Nil}]

\* NULL is no user, no notification and no request.
ASSUME InboxAssumption ==
  /\ Nil \notin Owners \cup Notes
  /\ Nil \notin [op : {"create", "readAll", "update", "read", "remove"}, user : Owners,
                id : Notes \cup {Nil}, at : {"insert", "update", "save", "emit"},
                row : [user : Owners, read : BOOLEAN, active : BOOLEAN] \cup {Nil}]

\* A PATCH names a symbol or none, and NULL is no row.
ASSUME QuotesAssumption ==
  /\ \A c \in Changes : c.symbol \in Symbols \cup {Blank, Nil}
  /\ Nil \notin [value : [symbol : Symbols \cup {Blank, Nil}, at : Int],
                currency : Symbols \cup {Blank, Nil},
                symbol : Symbols \cup {Blank, Nil}, live : BOOLEAN]

Market == INSTANCE Quotes WITH Unset <- Nil
Notices == INSTANCE Inbox
Online == INSTANCE Presence WITH Slots <- Visits
Answers == INSTANCE ErrorPipeline WITH Services <- LogServices

quoteVars == <<asset, moment, calling, dirty, crossed, called>>
noticeVars == <<note, asked, room, told, seen, gone, overlapped, arrivals>>
presenceVars == <<session, fresh, doing, socket, marks, online, stale, wronged>>
answerVars == <<call, log, remote, local, lost, up>>
-----------------------------------------------------------------------------
\* Quotes: where the value of an asset comes from.
QuotesHonest == Market!QuotesHonest

\* Inbox: what was read stays read, and the sockets are told so.
MarksKept == Notices!MarksKept

\* Presence: who is shown online, and whose sessions are closed.
PresenceHonest == Online!PresenceHonest

\* ErrorPipeline: what is answered and what is logged of it.
AnswersShaped == Answers!AnswersShaped
=============================================================================
