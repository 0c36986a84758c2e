--------------------------- MODULE ServicesProofs ---------------------------
(***************************************************************************)
(* For any users, requests, rows and limits: what is answered and logged,  *)
(* who is shown online and whose sessions are closed, what is kept of a    *)
(* notification, where the value of an asset comes from, what a summary    *)
(* that is served says of the books, and which category a movement gets.   *)
(***************************************************************************)
EXTENDS Services, Summaries, Categorisation, Sequences, FiniteSetTheorems, TLAPS
-----------------------------------------------------------------------------
(***************************************************************************)
(* ErrorPipeline.  An answer is what the code makes of what was thrown or  *)
(* returned, and a log is sent, kept, lost or on its way.                  *)
(***************************************************************************)
\* Where the answer of c comes from.
FromHandler(c) ==
  \E v \in Returned : call[c].of = [value |-> v] /\ call[c].body = Answers!Wrapped(v)

FromGuard(c) ==
  \E e \in Thrown : /\ call[c].of = [thrown |-> e, by |-> "guard"]
                    /\ call[c].body = Answers!Filtered(e)

FromError(c) ==
  \E e \in Thrown :
    /\ call[c].of = [thrown |-> e, by |-> "handler"]
    /\ call[c].body = Answers!Rewritten(e) /\ call[c].http = Answers!StatusOf(e)
    /\ log[c].at # "none" /\ log[c].severity = Answers!Severity(e)

AnswerInv(c) ==
  /\ "at" \in DOMAIN call[c]
  /\ call[c].at = "answered" => FromHandler(c) \/ FromGuard(c) \/ FromError(c)

\* How far the log of c is.
LogInv(c) ==
  /\ {"at", "left"} \subseteq DOMAIN log[c]
  /\ log[c].at \in {"none", "sending", "failed", "done"}
  /\ remote[c] \in Nat /\ log[c].left \in Nat
  /\ call[c].at \in {"absent", "guards", "handler"} => log[c].at = "none"
  /\ log[c].at = "none" => remote[c] = 0
  /\ log[c].at = "sending" => remote[c] + log[c].left <= MaxRetries
  /\ log[c].at = "failed" => log[c].left = 0
  /\ log[c].at = "done" => remote[c] > 0 \/ c \in local \cup lost
  /\ log[c].at # "done" => c \notin local \cup lost
  /\ remote[c] <= MaxRetries + 1
  /\ c \in local => c \notin lost /\ log[c].left = 0

AnswersInv ==
  /\ DOMAIN call = Calls /\ DOMAIN log = Calls /\ DOMAIN remote = Calls
  /\ \A c \in Calls : AnswerInv(c) /\ LogInv(c)

LEMMA AnswersInit ==
  ASSUME Answers!Init
  PROVE  AnswersInv
  BY AnswersAssumption DEF Answers!Init, AnswersInv, AnswerInv, LogInv

LEMMA AnswerStays ==
  ASSUME NEW c \in Calls, AnswerInv(c), call'[c] = call[c],
         log[c].at # "none" => log'[c].at # "none" /\ log'[c].severity = log[c].severity
  PROVE  AnswerInv(c)'
  <1>1. FromHandler(c) => FromHandler(c)'
    BY DEF FromHandler
  <1>2. FromGuard(c) => FromGuard(c)'
    BY DEF FromGuard
  <1>3. FromError(c) => FromError(c)'
    BY DEF FromError
  <1> QED
    BY <1>1, <1>2, <1>3 DEF AnswerInv

\* A request moves on, and nothing is logged.
LEMMA CallKeeps ==
  ASSUME AnswersInv, NEW c \in Calls,
         DOMAIN call' = Calls, \A d \in Calls \ {c} : call'[d] = call[d],
         UNCHANGED <<log, remote, local, lost>>,
         AnswerInv(c)', LogInv(c)'
  PROVE  AnswersInv'
  <1>1. ASSUME NEW d \in Calls \ {c}
        PROVE  AnswerInv(d)' /\ LogInv(d)'
    <2>1. AnswerInv(d)'
      BY <1>1, AnswerStays DEF AnswersInv
    <2>2. LogInv(d)'
      BY <1>1 DEF AnswersInv, LogInv
    <2> QED
      BY <2>1, <2>2
  <1> QED
    BY <1>1 DEF AnswersInv

LEMMA CallSteps ==
  ASSUME AnswersInv, NEW c \in Calls, Answers!Arrive(c) \/ Answers!PassGuards(c)
  PROVE  AnswersInv'
  <1>1. /\ call'[c].at \in {"guards", "handler"} /\ "at" \in DOMAIN call'[c]
        /\ call[c].at \in {"absent", "guards"}
        /\ DOMAIN call' = Calls /\ \A d \in Calls \ {c} : call'[d] = call[d]
        /\ UNCHANGED <<log, remote, local, lost>>
    BY DEF AnswersInv, AnswerInv, Answers!Arrive, Answers!PassGuards, Answers!At
  <1>2. AnswerInv(c)'
    BY <1>1 DEF AnswerInv
  <1>3. LogInv(c)'
    BY <1>1 DEF AnswersInv, LogInv
  <1> QED
    BY <1>1, <1>2, <1>3, CallKeeps

LEMMA GuardKeeps ==
  ASSUME AnswersInv, NEW c \in Calls, NEW e \in Thrown, Answers!GuardThrows(c, e)
  PROVE  AnswersInv'
  <1>1. /\ call'[c] = [at |-> "answered", http |-> Answers!StatusOf(e),
                       body |-> Answers!Filtered(e), of |-> [thrown |-> e, by |-> "guard"]]
        /\ call[c].at = "guards"
        /\ DOMAIN call' = Calls /\ \A d \in Calls \ {c} : call'[d] = call[d]
        /\ UNCHANGED <<log, remote, local, lost>>
    BY DEF AnswersInv, Answers!GuardThrows, Answers!Answered, Answers!At
  <1>2. AnswerInv(c)'
    BY <1>1 DEF AnswerInv, FromGuard
  <1>3. LogInv(c)'
    BY <1>1 DEF AnswersInv, LogInv
  <1> QED
    BY <1>1, <1>2, <1>3, CallKeeps

LEMMA ReturnKeeps ==
  ASSUME AnswersInv, NEW c \in Calls, NEW v \in Returned, Answers!HandlerReturns(c, v)
  PROVE  AnswersInv'
  <1>1. /\ call'[c] = [at |-> "answered", http |-> "200",
                       body |-> Answers!Wrapped(v), of |-> [value |-> v]]
        /\ call[c].at = "handler"
        /\ DOMAIN call' = Calls /\ \A d \in Calls \ {c} : call'[d] = call[d]
        /\ UNCHANGED <<log, remote, local, lost>>
    BY DEF AnswersInv, Answers!HandlerReturns, Answers!Answered, Answers!At
  <1>2. AnswerInv(c)'
    BY <1>1 DEF AnswerInv, FromHandler
  <1>3. LogInv(c)'
    BY <1>1 DEF AnswersInv, LogInv
  <1> QED
    BY <1>1, <1>2, <1>3, CallKeeps

LEMMA ThrowKeeps ==
  ASSUME AnswersInv, NEW c \in Calls, NEW e \in Thrown, NEW s, Answers!HandlerThrows(c, e, s)
  PROVE  AnswersInv'
  <1>1. /\ call'[c] = [at |-> "answered", http |-> Answers!StatusOf(e),
                       body |-> Answers!Rewritten(e), of |-> [thrown |-> e, by |-> "handler"]]
        /\ call[c].at = "handler"
        /\ DOMAIN call' = Calls /\ \A d \in Calls \ {c} : call'[d] = call[d]
        /\ log'[c] = [at |-> IF s THEN "sending" ELSE "failed",
                      left |-> IF s THEN MaxRetries ELSE 0, severity |-> Answers!Severity(e)]
        /\ DOMAIN log' = Calls /\ \A d \in Calls \ {c} : log'[d] = log[d]
        /\ UNCHANGED <<remote, local, lost>>
    BY DEF AnswersInv, Answers!HandlerThrows, Answers!Answered, Answers!At
  <1>2. AnswerInv(c)'
    BY <1>1 DEF AnswerInv, FromError
  <1>3. LogInv(c)
    BY DEF AnswersInv
  <1>4. LogInv(c)'
    BY <1>1, <1>3, AnswersAssumption DEF LogInv
  <1>5. ASSUME NEW d \in Calls \ {c}
        PROVE  AnswerInv(d)' /\ LogInv(d)'
    <2>1. AnswerInv(d)'
      BY <1>1, <1>5, AnswerStays DEF AnswersInv
    <2>2. LogInv(d)'
      BY <1>1, <1>5 DEF AnswersInv, LogInv
    <2> QED
      BY <2>1, <2>2
  <1> QED
    BY <1>1, <1>2, <1>4, <1>5 DEF AnswersInv

\* The log of c is sent, kept or given up: its severity stays.
LEMMA LogKeeps ==
  ASSUME AnswersInv, NEW c \in Calls, UNCHANGED call,
         DOMAIN log' = Calls, DOMAIN remote' = Calls,
         log[c].at # "none", log'[c].at # "none", log'[c].severity = log[c].severity,
         \A d \in Calls \ {c} : /\ log'[d] = log[d] /\ remote'[d] = remote[d]
                                /\ d \in local' <=> d \in local
                                /\ d \in lost' <=> d \in lost,
         LogInv(c)'
  PROVE  AnswersInv'
  <1>1. AnswerInv(c)'
    BY AnswerStays DEF AnswersInv
  <1>2. ASSUME NEW d \in Calls \ {c}
        PROVE  AnswerInv(d)' /\ LogInv(d)'
    <2>1. AnswerInv(d)'
      BY <1>2, AnswerStays DEF AnswersInv
    <2>2. LogInv(d)'
      BY <1>2 DEF AnswersInv, LogInv
    <2> QED
      BY <2>1, <2>2
  <1> QED
    BY <1>1, <1>2 DEF AnswersInv

LEMMA SendKeeps ==
  ASSUME AnswersInv, NEW c \in Calls,
         Answers!SendOk(c) \/ \E reached \in BOOLEAN : Answers!SendFails(c, reached)
  PROVE  AnswersInv'
  <1>1. /\ log[c].at = "sending" /\ LogInv(c)
        /\ UNCHANGED <<call, local, lost>>
        /\ DOMAIN log' = Calls /\ DOMAIN remote' = Calls
        /\ \A d \in Calls \ {c} : log'[d] = log[d] /\ remote'[d] = remote[d]
    BY DEF AnswersInv, Answers!SendOk, Answers!SendFails, Answers!Sending
  <1>2. CASE Answers!SendOk(c)
    <2>1. /\ log'[c].at = "done" /\ log'[c].left = log[c].left
          /\ log'[c].severity = log[c].severity
          /\ DOMAIN log'[c] = DOMAIN log[c] /\ remote'[c] = remote[c] + 1
      BY <1>1, <1>2 DEF AnswersInv, LogInv, Answers!SendOk
    <2>2. LogInv(c)'
      BY <1>1, <2>1, AnswersAssumption DEF LogInv
    <2> QED
      BY <1>1, <2>1, <2>2, LogKeeps
  <1>3. ASSUME NEW reached \in BOOLEAN, Answers!SendFails(c, reached)
        PROVE  AnswersInv'
    <2>1. /\ log'[c].severity = log[c].severity /\ DOMAIN log'[c] = DOMAIN log[c]
          /\ remote'[c] \in {remote[c], remote[c] + 1}
          /\ \/ log[c].left > 0 /\ log'[c].left = log[c].left - 1 /\ log'[c].at = log[c].at
             \/ ~(log[c].left > 0) /\ log'[c].left = log[c].left /\ log'[c].at = "failed"
      <3>1. remote'[c] \in {remote[c], remote[c] + 1}
        BY <1>3 DEF AnswersInv, Answers!SendFails
      <3>2. CASE log[c].left > 0 /\ log' = [log EXCEPT ![c].left = log[c].left - 1]
        BY <1>1, <3>1, <3>2 DEF AnswersInv, LogInv
      <3>3. CASE log[c].left = 0 /\ log' = [log EXCEPT ![c].at = "failed"]
        BY <1>1, <3>1, <3>3 DEF AnswersInv, LogInv
      <3> QED
        BY <1>3, <3>2, <3>3 DEF Answers!SendFails
    <2>2. LogInv(c)'
      BY <1>1, <2>1, AnswersAssumption DEF LogInv
    <2>3. log'[c].at # "none"
      BY <1>1, <2>1
    <2> QED
      BY <1>1, <2>1, <2>2, <2>3, LogKeeps
  <1> QED
    BY <1>2, <1>3

LEMMA KeepKeeps ==
  ASSUME AnswersInv, NEW c \in Calls, Answers!SaveLocally(c) \/ Answers!AppendFails(c)
  PROVE  AnswersInv'
  <1>1. /\ log[c].at = "failed" /\ LogInv(c)
        /\ UNCHANGED <<call, remote>>
        /\ DOMAIN log' = Calls /\ \A d \in Calls \ {c} : log'[d] = log[d]
        /\ log'[c].at = "done" /\ log'[c].left = log[c].left
        /\ log'[c].severity = log[c].severity /\ DOMAIN log'[c] = DOMAIN log[c]
        /\ \/ local' = local \cup {c} /\ lost' = lost
           \/ lost' = lost \cup {c} /\ local' = local
    <2>1. /\ log[c].at = "failed" /\ LogInv(c) /\ DOMAIN log = Calls
          /\ UNCHANGED <<call, remote>>
          /\ log' = [log EXCEPT ![c].at = "done"]
          /\ \/ local' = local \cup {c} /\ lost' = lost
             \/ lost' = lost \cup {c} /\ local' = local
      BY DEF AnswersInv, Answers!SaveLocally, Answers!AppendFails
    <2>2. log'[c] = [log[c] EXCEPT !.at = "done"]
      BY <2>1
    <2> QED
      BY <2>1, <2>2 DEF LogInv
  <1>2. LogInv(c)'
    BY <1>1 DEF LogInv
  <1> QED
    BY <1>1, <1>2, LogKeeps DEF AnswersInv

\* The process ends: what is answered is answered, and what was on its way is lost.
LEMMA EndKeeps ==
  ASSUME AnswersInv, Answers!Ends, DOMAIN call' = Calls,
         \A c \in Calls : \/ call'[c] = call[c]
                          \/ call'[c].at = "cut" /\ "at" \in DOMAIN call'[c]
  PROVE  AnswersInv'
  <1>1. ASSUME NEW c \in Calls
        PROVE  AnswerInv(c)' /\ LogInv(c)'
    <2>1. AnswerInv(c) /\ LogInv(c)
      BY DEF AnswersInv
    <2>2. /\ remote' = remote /\ local' = local
          /\ c \in Answers!Unsent <=> log[c].at \in {"sending", "failed"}
          /\ c \in lost' <=> c \in lost \/ c \in Answers!Unsent
      BY DEF Answers!Ends, Answers!Unsent
    <2>3. /\ IF c \in Answers!Unsent THEN log'[c].at = "done" ELSE log'[c].at = log[c].at
          /\ log'[c].left = log[c].left /\ log'[c].severity = log[c].severity
          /\ DOMAIN log'[c] = DOMAIN log[c]
      BY <2>1 DEF Answers!Ends, LogInv
    <2>4. LogInv(c)'
      BY <2>1, <2>2, <2>3 DEF LogInv
    <2>5. AnswerInv(c)'
      <3>1. CASE call'[c] = call[c]
        BY <2>1, <2>3, <3>1, AnswerStays
      <3>2. CASE call'[c].at = "cut" /\ "at" \in DOMAIN call'[c]
        BY <3>2 DEF AnswerInv
      <3> QED
        BY <3>1, <3>2
    <2> QED
      BY <2>4, <2>5
  <1> QED
    BY <1>1 DEF AnswersInv, Answers!Ends

LEMMA AnswersNext ==
  ASSUME AnswersInv, Answers!Next
  PROVE  AnswersInv'
  <1>1. ASSUME NEW c \in Calls, Answers!CallNext(c)
        PROVE  AnswersInv'
    BY <1>1, CallSteps, GuardKeeps, ReturnKeeps, ThrowKeeps DEF Answers!CallNext
  <1>2. ASSUME NEW c \in Calls, Answers!NoDirectory(c)
        PROVE  AnswersInv'
    <2>1. \A d \in Calls : \/ call'[d] = call[d]
                           \/ call'[d].at = "cut" /\ "at" \in DOMAIN call'[d]
      BY <1>2 DEF Answers!NoDirectory, AnswersInv, AnswerInv
    <2> QED
      BY <1>2, <2>1, EndKeeps DEF Answers!NoDirectory
  <1>3. ASSUME NEW c \in Calls, Answers!LogNext(c)
        PROVE  AnswersInv'
    BY <1>2, <1>3, SendKeeps, KeepKeeps DEF Answers!LogNext
  <1>4. CASE Answers!Shutdown
    BY <1>4, EndKeeps DEF Answers!Shutdown, AnswersInv
  <1>5. CASE Answers!Restart
    BY ZenonT(60), <1>5 DEF Answers!Restart, AnswersInv, AnswerInv, LogInv, FromHandler, FromGuard, FromError
  <1> QED
    BY <1>1, <1>3, <1>4, <1>5 DEF Answers!Next

LEMMA AnswersInvariant == Answers!Spec => []AnswersInv
  <1>1. ASSUME AnswersInv, UNCHANGED Answers!evars
        PROVE  AnswersInv'
    BY ZenonT(60), <1>1 DEF Answers!evars, AnswersInv, AnswerInv, LogInv, FromHandler, FromGuard, FromError
  <1> QED
    BY <1>1, AnswersInit, AnswersNext, PTL DEF Answers!Spec

\* Any number of requests: the body of an error says the status of the response, the
\* trace id of a server error leads to a log, no log is sent more often than its retries
\* allow, and what a handler returns arrives whole.
THEOREM AnswersStayShaped == Answers!Spec => []AnswersShaped
  <1>1. ASSUME AnswersInv
        PROVE  AnswersShaped
    <2>1. ASSUME NEW c \in Calls
          PROVE  AnswerInv(c) /\ LogInv(c)
      BY <1>1 DEF AnswersInv
    <2>2. Answers!TraceLeadsToLog
      <3> SUFFICES ASSUME NEW c \in Calls, Answers!ThrewInside(c)
                   PROVE  /\ call[c].body.status = call[c].http
                          /\ call[c].http = "500" =>
                               /\ call[c].body.trace
                               /\ log[c].severity = "ERROR"
                               /\ remote[c] > 0 \/ c \in local \cup lost \cup Answers!Unsent
        BY DEF Answers!TraceLeadsToLog
      <3>1. FromError(c)
        <4>1. call[c].at = "answered" /\ "thrown" \in DOMAIN call[c].of /\ call[c].of.by = "handler"
          BY DEF Answers!ThrewInside, Answers!Threw
        <4>2. ~FromHandler(c)
          <5>1. ASSUME NEW v, call[c].of = [value |-> v]
                PROVE  "thrown" \notin DOMAIN call[c].of
            BY <5>1
          <5> QED
            BY <4>1, <5>1 DEF FromHandler
        <4>3. ~FromGuard(c)
          <5>1. ASSUME NEW e, call[c].of = [thrown |-> e, by |-> "guard"]
                PROVE  call[c].of.by # "handler"
            BY <5>1
          <5> QED
            BY <4>1, <5>1 DEF FromGuard
        <4> QED
          BY <2>1, <4>1, <4>2, <4>3 DEF AnswerInv
      <3>2. PICK e \in Thrown :
              /\ call[c].body = Answers!Rewritten(e) /\ call[c].http = Answers!StatusOf(e)
              /\ log[c].at # "none" /\ log[c].severity = Answers!Severity(e)
        BY <3>1 DEF FromError
      <3>3. remote[c] > 0 \/ c \in local \cup lost \cup Answers!Unsent
        BY <2>1, <3>2 DEF LogInv, Answers!Unsent
      <3>4. /\ Answers!Rewritten(e).status = Answers!StatusOf(e)
            /\ Answers!Rewritten(e).trace = (Answers!StatusOf(e) = "500")
        BY DEF Answers!Rewritten
      <3> QED
        BY <3>2, <3>3, <3>4 DEF Answers!Severity
    <2>3. Answers!SentAtMost
      BY <2>1 DEF Answers!SentAtMost, LogInv
    <2>4. Answers!NothingDropped
      <3> SUFFICES ASSUME NEW c \in Calls, call[c].at = "answered"
                   PROVE  IF Answers!Threw(c) THEN call[c].body.status # "true"
                          ELSE /\ call[c].body.data = call[c].of.value.data
                               /\ call[c].of.value.form = "page" =>
                                    call[c].body.total = call[c].of.value.total
        BY DEF Answers!NothingDropped
      <3>1. CASE FromHandler(c)
        <4>1. PICK v \in Returned : call[c].of = [value |-> v] /\ call[c].body = Answers!Wrapped(v)
          BY <3>1 DEF FromHandler
        <4>2. ~Answers!Threw(c) /\ call[c].of.value = v
          BY <4>1 DEF Answers!Threw
        <4>3. /\ Answers!Wrapped(v).data = v.data
              /\ v.form = "page" => Answers!Wrapped(v).total = v.total
          <5>1. /\ v.form \in {"envelope", "page", "list", "one", "none"}
                /\ v.form = "one" => v.data = 1
                /\ v.form = "none" => v.data = 0
            BY AnswersAssumption
          <5> QED
            BY <5>1 DEF Answers!Wrapped
        <4> QED
          BY <4>1, <4>2, <4>3
      <3>2. CASE FromGuard(c)
        <4>1. PICK e \in Thrown : /\ call[c].of = [thrown |-> e, by |-> "guard"]
                                  /\ call[c].body = Answers!Filtered(e)
          BY <3>2 DEF FromGuard
        <4>2. Answers!Threw(c)
          BY <4>1 DEF Answers!Threw
        <4>3. Answers!Filtered(e).status # "true"
          BY AnswersAssumption DEF Answers!Filtered, Answers!Silent
        <4> QED
          BY <4>1, <4>2, <4>3
      <3>3. CASE FromError(c)
        <4>1. PICK e \in Thrown : /\ call[c].of = [thrown |-> e, by |-> "handler"]
                                  /\ call[c].body = Answers!Rewritten(e)
          BY <3>3 DEF FromError
        <4>2. Answers!Threw(c)
          BY <4>1 DEF Answers!Threw
        <4>3. Answers!Rewritten(e).status # "true"
          BY AnswersAssumption DEF Answers!Rewritten, Answers!StatusOf
        <4> QED
          BY <4>1, <4>2, <4>3
      <3> QED
        BY <2>1, <3>1, <3>2, <3>3 DEF AnswerInv
    <2> QED
      BY <2>2, <2>3, <2>4 DEF AnswersShaped, Answers!AnswersShaped
  <1> QED
    BY <1>1, AnswersInvariant, PTL
-----------------------------------------------------------------------------
(***************************************************************************)
(* Presence.  The sessions and the requests that close them do not depend  *)
(* on the sockets; each half has its own invariant.                        *)
(***************************************************************************)
SessionRow == [user : People, open : BOOLEAN]

VisitRow == [op : {"revoke", "revokeAll", "password"}, user : People,
             on : SessionIds \cup People \cup {Nil},
             at : {"list", "delete", "close", "offline", "check", "set"}]

SocketRow == [user : People, at : {"accepted", "open"}, room : People \cup {Nil}]

MarkRow == [user : People, on : BOOLEAN]

\* What a request is about, and whose session it is about to delete.
VisitInv(r) ==
  doing[r] # Nil =>
    /\ doing[r].op = "revoke" => doing[r].on \in SessionIds
    /\ doing[r].op = "revokeAll" => doing[r].on \in People
    /\ doing[r].op = "revoke" /\ doing[r].at = "delete" =>
         session[doing[r].on] # Nil /\ session[doing[r].on].user = doing[r].user

SessionsInv ==
  /\ session \in [SessionIds -> SessionRow \cup {Nil}]
  /\ doing \in [Visits -> VisitRow \cup {Nil}]
  /\ \A r \in Visits : VisitInv(r)
  /\ wronged = {}

HasSocket(u) == \E s \in Sockets : socket[s] # Nil /\ socket[s].at = "open" /\ socket[s].user = u

\* A mark on its way shows a user who has a socket, or whom a later mark corrects.
MarksInv ==
  \A k \in DOMAIN marks :
    marks[k].on => \/ HasSocket(marks[k].user)
                   \/ \E j \in DOMAIN marks : j > k /\ marks[j].user = marks[k].user

ShownInv == \A u \in online : HasSocket(u) \/ u \in stale \/ \E k \in DOMAIN marks : marks[k].user = u

SocketsInv ==
  /\ socket \in [Sockets -> SocketRow \cup {Nil}]
  /\ marks \in Seq(MarkRow)
  /\ \A s \in Sockets : socket[s] # Nil => socket[s].room \in {Nil, socket[s].user}
  /\ MarksInv
  /\ ShownInv

PresenceInv == SessionsInv /\ SocketsInv

LEMMA NotNil ==
  Nil \notin SessionRow /\ Nil \notin VisitRow /\ Nil \notin SocketRow
  BY PresenceAssumption DEF SessionRow, VisitRow, SocketRow

LEMMA PresenceInit ==
  ASSUME Online!Init
  PROVE  PresenceInv
  BY DEF Online!Init, PresenceInv, SessionsInv, SocketsInv, VisitInv, MarksInv, ShownInv

LEMMA IntrospectType ==
  ASSUME SessionsInv, NEW i \in SessionIds, Online!Introspect(i) # Nil
  PROVE  Online!Introspect(i) \in People
  BY NotNil DEF SessionsInv, SessionRow, Online!Introspect, Online!Opened

\* Sessions begin and close, and none changes its user.
LEMMA SessionChange ==
  ASSUME SessionsInv,
         session' \in [SessionIds -> SessionRow \cup {Nil}],
         \A i \in SessionIds : session[i] # Nil => session'[i] # Nil /\ session'[i].user = session[i].user,
         UNCHANGED <<doing, wronged>>
  PROVE  SessionsInv'
  BY DEF SessionsInv, VisitInv

LEMMA BeginKeeps ==
  ASSUME SessionsInv, NEW i \in SessionIds, NEW u \in People, Online!Begin(i, u)
  PROVE  /\ session' \in [SessionIds -> SessionRow \cup {Nil}]
         /\ \A j \in SessionIds : session[j] # Nil => session'[j] = session[j]
  BY DEF SessionsInv, SessionRow, Online!Begin

LEMMA ClosedKeeps ==
  ASSUME SessionsInv, NEW S, Online!Closed(S)
  PROVE  /\ session' \in [SessionIds -> SessionRow \cup {Nil}]
         /\ \A i \in SessionIds : session[i] # Nil => session'[i] # Nil /\ session'[i].user = session[i].user
  <1>1. ASSUME NEW i \in SessionIds
        PROVE  /\ session'[i] \in SessionRow \cup {Nil}
               /\ session[i] # Nil => session'[i] # Nil /\ session'[i].user = session[i].user
    <2>1. CASE i \in S /\ session[i] # Nil
      <3>1. session[i] \in SessionRow /\ session'[i] = [session[i] EXCEPT !.open = FALSE]
        BY <2>1 DEF SessionsInv, Online!Closed
      <3>2. session'[i] \in SessionRow /\ session'[i].user = session[i].user
        BY <3>1 DEF SessionRow
      <3> QED
        BY <3>2, NotNil
    <2>2. CASE ~(i \in S /\ session[i] # Nil)
      BY <2>2 DEF SessionsInv, Online!Closed
    <2> QED
      BY <2>1, <2>2
  <1> QED
    BY <1>1 DEF Online!Closed

LEMMA SessionSteps ==
  ASSUME PresenceInv, NEW i \in SessionIds, Online!SessionNext(i)
  PROVE  PresenceInv'
  <1>1. UNCHANGED <<doing, socket, marks, online, stale, wronged>>
    BY DEF Online!SessionNext, Online!Login, Online!TokenExpires, Online!Refresh, Online!Logout
  <1>2. SocketsInv'
    BY <1>1 DEF PresenceInv, SocketsInv, MarksInv, ShownInv, HasSocket
  <1>3. /\ session' \in [SessionIds -> SessionRow \cup {Nil}]
        /\ \A j \in SessionIds : session[j] # Nil => session'[j] # Nil /\ session'[j].user = session[j].user
    <2>1. CASE \E u \in People : Online!Login(i, u)
      BY <2>1, BeginKeeps DEF Online!Login, PresenceInv
    <2>2. CASE Online!Logout(i)
      BY <2>2, ClosedKeeps DEF Online!Logout, PresenceInv
    <2>3. CASE Online!TokenExpires(i) \/ Online!Refresh(i)
      BY <2>3 DEF Online!TokenExpires, Online!Refresh, PresenceInv, SessionsInv
    <2> QED
      BY <2>1, <2>2, <2>3 DEF Online!SessionNext
  <1> QED
    BY <1>1, <1>2, <1>3, SessionChange DEF PresenceInv

\* A request begins, moves on or ends, and closes no session.
LEMMA VisitChange ==
  ASSUME SessionsInv, NEW r \in Visits, NEW v \in VisitRow \cup {Nil},
         doing' = [doing EXCEPT ![r] = v], VisitInv(r)',
         session' \in [SessionIds -> SessionRow \cup {Nil}],
         \A i \in SessionIds : session[i] # Nil => session'[i] # Nil /\ session'[i].user = session[i].user,
         wronged' = wronged
  PROVE  SessionsInv'
  <1>1. doing' \in [Visits -> VisitRow \cup {Nil}] /\ \A q \in Visits \ {r} : doing'[q] = doing[q]
    BY DEF SessionsInv
  <1> QED
    BY <1>1 DEF SessionsInv, VisitInv

LEMMA EnterKeeps ==
  ASSUME SessionsInv, NEW r \in Visits, NEW i \in SessionIds,
         \/ \E j \in SessionIds : Online!EnterRevoke(r, i, j)
         \/ \E u \in People : Online!EnterRevokeAll(r, i, u)
         \/ Online!EnterPassword(r, i)
  PROVE  SessionsInv'
  <1>1. Online!Introspect(i) \in People
    BY IntrospectType DEF Online!EnterRevoke, Online!EnterRevokeAll, Online!EnterPassword, Online!Enter
  <1>2. PICK op, on, at :
          /\ doing' = [doing EXCEPT ![r] = [op |-> op, user |-> Online!Introspect(i), on |-> on, at |-> at]]
          /\ \/ op = "revoke" /\ on \in SessionIds /\ at = "list"
             \/ op = "revokeAll" /\ on \in People /\ at = "close"
             \/ op = "password" /\ on = Nil /\ at = "check"
    BY DEF Online!EnterRevoke, Online!EnterRevokeAll, Online!EnterPassword, Online!Enter
  <1> DEFINE v == [op |-> op, user |-> Online!Introspect(i), on |-> on, at |-> at]
  <1>5. v \in VisitRow /\ doing' = [doing EXCEPT ![r] = v]
    BY <1>1, <1>2 DEF VisitRow
  <1>3. VisitInv(r)'
    BY <1>2 DEF SessionsInv, VisitInv
  <1> HIDE DEF v
  <1>4. UNCHANGED <<session, wronged>>
    BY DEF Online!EnterRevoke, Online!EnterRevokeAll, Online!EnterPassword, Online!Enter
  <1> QED
    BY <1>3, <1>4, <1>5, VisitChange DEF SessionsInv

\* The row of the request in slot r.
LEMMA AtVisit ==
  ASSUME SessionsInv, NEW r \in Visits, NEW op, NEW at, Online!AtCall(r, op, at)
  PROVE  doing[r] \in VisitRow /\ doing[r].op = op /\ doing[r].at = at
  BY DEF SessionsInv, Online!AtCall

LEMMA ListKeeps ==
  ASSUME SessionsInv, NEW r \in Visits, Online!ListOwn(r)
  PROVE  SessionsInv'
  <1>1. /\ doing[r] \in VisitRow /\ doing[r].op = "revoke" /\ doing[r] # Nil
        /\ UNCHANGED <<session, wronged>>
    BY AtVisit, NotNil DEF Online!ListOwn
  <1>2. CASE /\ doing[r].on \in Online!OpenOf(doing[r].user)
             /\ doing' = [doing EXCEPT ![r] = [doing[r] EXCEPT !.at = "delete"]]
    <2>1. /\ doing[r].on \in SessionIds /\ session[doing[r].on] # Nil
          /\ session[doing[r].on].user = doing[r].user
      BY <1>2 DEF Online!OpenOf, Online!Opened
    <2>2. PICK v \in VisitRow : /\ v = [doing[r] EXCEPT !.at = "delete"]
                                /\ v.on = doing[r].on /\ v.user = doing[r].user /\ v.op = "revoke"
      <3>1. [doing[r] EXCEPT !.at = "delete"] \in VisitRow
        BY <1>1 DEF VisitRow
      <3> QED
        BY <1>1, <3>1 DEF VisitRow
    <2>3. doing' = [doing EXCEPT ![r] = v] /\ doing'[r] = v
      BY <1>2, <2>2 DEF SessionsInv
    <2>4. VisitInv(r)'
      BY <1>1, <2>1, <2>2, <2>3 DEF VisitInv
    <2> QED
      BY <1>1, <2>3, <2>4, VisitChange DEF SessionsInv
  <1>3. CASE doing' = [doing EXCEPT ![r] = Nil]
    <2>1. VisitInv(r)'
      BY <1>3 DEF SessionsInv, VisitInv
    <2> QED
      BY <1>1, <1>3, <2>1, VisitChange DEF SessionsInv
  <1> QED
    BY <1>2, <1>3 DEF Online!ListOwn

LEMMA DeleteKeeps ==
  ASSUME SessionsInv, NEW r \in Visits, Online!DeleteSession(r)
  PROVE  SessionsInv'
  <1>1. doing[r] # Nil /\ doing[r].op = "revoke" /\ doing[r].at = "delete" /\ VisitInv(r)
    BY DEF SessionsInv, Online!DeleteSession, Online!AtCall
  <1>2. wronged' = wronged
    BY <1>1 DEF Online!DeleteSession, VisitInv
  <1>3. doing' = [doing EXCEPT ![r] = Nil] /\ VisitInv(r)'
    BY DEF SessionsInv, VisitInv, Online!DeleteSession
  <1>4. Online!Closed({doing[r].on})
    BY DEF Online!DeleteSession
  <1> QED
    BY <1>2, <1>3, <1>4, ClosedKeeps, VisitChange

LEMMA CloseAllKeeps ==
  ASSUME SessionsInv, NEW r \in Visits, Online!CloseAll(r)
  PROVE  SessionsInv'
  <1>1. doing[r] \in VisitRow /\ doing[r].op = "revokeAll" /\ doing[r] # Nil
    BY AtVisit, NotNil DEF Online!CloseAll
  <1>2. Online!Closed(Online!OpenOf(doing[r].on)) /\ wronged' = wronged
    BY DEF Online!CloseAll
  <1>3. PICK v \in VisitRow : /\ v = [doing[r] EXCEPT !.at = "offline"]
                              /\ v.on = doing[r].on /\ v.op = "revokeAll"
    <2>1. [doing[r] EXCEPT !.at = "offline"] \in VisitRow
      BY <1>1 DEF VisitRow
    <2> QED
      BY <1>1, <2>1 DEF VisitRow
  <1>4. doing' = [doing EXCEPT ![r] = v] /\ doing'[r] = v
    BY <1>3 DEF SessionsInv, Online!CloseAll
  <1>5. VisitInv(r)'
    BY <1>1, <1>3, <1>4 DEF SessionsInv, VisitInv
  <1> QED
    BY <1>2, <1>4, <1>5, ClosedKeeps, VisitChange

LEMMA PasswordKeeps ==
  ASSUME SessionsInv, NEW r \in Visits,
         (\E i \in SessionIds : Online!CheckPassword(r, i)) \/ Online!SetPassword(r)
  PROVE  SessionsInv'
  <1>1. /\ doing[r] \in VisitRow /\ doing[r].op = "password" /\ wronged' = wronged
    BY AtVisit DEF Online!CheckPassword, Online!SetPassword
  <1>2. ASSUME NEW i \in SessionIds, Online!Begin(i, doing[r].user),
               doing' = [doing EXCEPT ![r].at = "set"]
        PROVE  SessionsInv'
    <2>1. doing[r].user \in People
      BY <1>1 DEF VisitRow
    <2>2. PICK v \in VisitRow : v = [doing[r] EXCEPT !.at = "set"] /\ v.op = "password"
      <3>1. [doing[r] EXCEPT !.at = "set"] \in VisitRow
        BY <1>1 DEF VisitRow
      <3> QED
        BY <1>1, <3>1 DEF VisitRow
    <2>3. doing' = [doing EXCEPT ![r] = v] /\ doing'[r] = v
      BY <1>2, <2>2 DEF SessionsInv
    <2>4. VisitInv(r)'
      BY <2>2, <2>3 DEF VisitInv
    <2> QED
      BY <1>1, <1>2, <2>1, <2>3, <2>4, BeginKeeps, VisitChange
  <1>3. CASE session' = session /\ doing' = [doing EXCEPT ![r] = Nil]
    <2>1. VisitInv(r)'
      BY <1>3 DEF SessionsInv, VisitInv
    <2> QED
      BY <1>1, <1>3, <2>1, VisitChange DEF SessionsInv
  <1> QED
    BY <1>2, <1>3 DEF Online!CheckPassword, Online!SetPassword

\* A mark is put at the end of those on their way.
LEMMA MarkKeeps ==
  ASSUME SocketsInv, NEW u \in People, NEW on \in BOOLEAN, Online!Mark(u, on)
  PROVE  /\ marks' \in Seq(MarkRow)
         /\ Len(marks') = Len(marks) + 1
         /\ \A k \in DOMAIN marks : k \in DOMAIN marks' /\ marks'[k] = marks[k] /\ k < Len(marks')
         /\ Len(marks') \in DOMAIN marks'
         /\ marks'[Len(marks')].user = u /\ marks'[Len(marks')].on = on
         /\ \A k \in DOMAIN marks' : k \in DOMAIN marks \/ k = Len(marks')
  <1>1. marks \in Seq(MarkRow) /\ [user |-> u, on |-> on] \in MarkRow
    BY DEF SocketsInv, MarkRow
  <1>2. marks' = Append(marks, [user |-> u, on |-> on])
    BY DEF Online!Mark
  <1> QED
    BY <1>1, <1>2

\* A mark is added, and the sockets stay or grow.
LEMMA MarkAdded ==
  ASSUME SocketsInv, NEW u \in People, NEW on \in BOOLEAN, Online!Mark(u, on),
         \A v \in People : v # u /\ HasSocket(v) => HasSocket(v)',
         on => HasSocket(u)',
         UNCHANGED <<online, stale>>
  PROVE  MarksInv' /\ ShownInv'
  <1>1. /\ \A k \in DOMAIN marks : k \in DOMAIN marks' /\ marks'[k] = marks[k] /\ k < Len(marks')
        /\ Len(marks') \in DOMAIN marks'
        /\ marks'[Len(marks')].user = u /\ marks'[Len(marks')].on = on
        /\ \A k \in DOMAIN marks' : k \in DOMAIN marks \/ k = Len(marks')
    BY MarkKeeps
  <1>2. \A k \in DOMAIN marks : marks[k].user \in People
    <2>1. \A k \in DOMAIN marks : marks[k] \in MarkRow
      BY DEF SocketsInv
    <2> QED
      BY <2>1 DEF MarkRow
  <1>3. MarksInv'
    <2> SUFFICES ASSUME NEW k \in DOMAIN marks', marks'[k].on
                 PROVE  \/ \E s \in Sockets : /\ socket'[s] # Nil /\ socket'[s].at = "open"
                                           /\ socket'[s].user = marks'[k].user
                        \/ \E j \in DOMAIN marks' : j > k /\ marks'[j].user = marks'[k].user
      BY DEF MarksInv, HasSocket
    <2>1. CASE k = Len(marks')
      BY <1>1, <2>1 DEF HasSocket
    <2>2. CASE k \in DOMAIN marks /\ marks[k].user = u
      BY <1>1, <2>2 DEF SocketsInv
    <2>3. CASE k \in DOMAIN marks /\ marks[k].user # u
      <3>1. CASE HasSocket(marks[k].user)
        <4>1. ASSUME NEW v \in People, v = marks[k].user
              PROVE  \E s \in Sockets : /\ socket'[s] # Nil /\ socket'[s].at = "open"
                                        /\ socket'[s].user = v
          BY <2>3, <3>1, <4>1 DEF HasSocket
        <4> QED
          BY <1>1, <1>2, <2>3, <4>1
      <3>2. CASE \E j \in DOMAIN marks : j > k /\ marks[j].user = marks[k].user
        BY <1>1, <2>3, <3>2
      <3> QED
        BY <1>1, <2>3, <3>1, <3>2 DEF SocketsInv, MarksInv
    <2> QED
      BY <1>1, <2>1, <2>2, <2>3
  <1>4. ShownInv'
    <2> SUFFICES ASSUME NEW v \in online'
                 PROVE  HasSocket(v)' \/ v \in stale' \/ \E k \in DOMAIN marks' : marks'[k].user = v
      BY DEF ShownInv
    <2>1. HasSocket(v) \/ v \in stale \/ \E k \in DOMAIN marks : marks[k].user = v
      BY DEF SocketsInv, ShownInv
    <2>2. HasSocket(v) => v \in People
      BY DEF HasSocket, SocketsInv, SocketRow
    <2>3. CASE HasSocket(v) /\ v # u
      BY <2>2, <2>3
    <2>4. CASE v = u
      BY <1>1, <2>4
    <2>5. CASE v \in stale \/ \E k \in DOMAIN marks : marks[k].user = v
      BY <1>1, <2>5
    <2> QED
      BY <2>1, <2>3, <2>4, <2>5
  <1> QED
    BY <1>3, <1>4

\* The sockets change and no mark is made.
LEMMA SocketChange ==
  ASSUME SocketsInv,
         \A v : HasSocket(v) => HasSocket(v)',
         UNCHANGED <<marks, online, stale>>
  PROVE  MarksInv' /\ ShownInv'
  <1>1. MarksInv'
    <2> SUFFICES ASSUME NEW k \in DOMAIN marks, marks[k].on
                 PROVE  \/ \E s \in Sockets : /\ socket'[s] # Nil /\ socket'[s].at = "open"
                                           /\ socket'[s].user = marks[k].user
                        \/ \E j \in DOMAIN marks : j > k /\ marks[j].user = marks[k].user
      BY DEF MarksInv, HasSocket
    <2> QED
      BY DEF SocketsInv, MarksInv, HasSocket
  <1> QED
    BY <1>1 DEF SocketsInv, ShownInv

LEMMA OpenKeeps ==
  ASSUME PresenceInv, NEW s \in Sockets,
         \/ \E i \in SessionIds : Online!Authenticate(s, i)
         \/ \E u \in People : Online!Subscribe(s, u) \/ Online!Unsubscribe(s, u)
  PROVE  PresenceInv'
  <1>1. UNCHANGED <<session, doing, marks, online, stale, wronged>>
    BY DEF Online!Authenticate, Online!Subscribe, Online!Unsubscribe
  <1>2. SessionsInv'
    BY <1>1 DEF PresenceInv, SessionsInv, VisitInv
  <1>3. /\ socket'[s] \in SocketRow /\ socket'[s].room \in {Nil, socket'[s].user}
        /\ socket[s] # Nil => socket'[s].user = socket[s].user /\ socket'[s].at = socket[s].at
        /\ DOMAIN socket' = Sockets /\ \A t \in Sockets \ {s} : socket'[t] = socket[t]
    <2>1. CASE \E i \in SessionIds : Online!Authenticate(s, i)
      <3>1. PICK i \in SessionIds : Online!Authenticate(s, i)
        BY <2>1
      <3>2. Online!Introspect(i) \in People
        BY <3>1, IntrospectType DEF Online!Authenticate, PresenceInv
      <3> QED
        BY <3>1, <3>2 DEF Online!Authenticate, PresenceInv, SocketsInv, SocketRow
    <2>2. ASSUME NEW u \in People, Online!Subscribe(s, u) \/ Online!Unsubscribe(s, u)
          PROVE  /\ socket'[s] \in SocketRow /\ socket'[s].room \in {Nil, socket'[s].user}
                 /\ socket[s] # Nil => socket'[s].user = socket[s].user /\ socket'[s].at = socket[s].at
                 /\ DOMAIN socket' = Sockets /\ \A t \in Sockets \ {s} : socket'[t] = socket[t]
      <3>1. /\ socket[s] \in SocketRow /\ u = socket[s].user
            /\ socket' = [socket EXCEPT ![s].room = u] \/ socket' = [socket EXCEPT ![s].room = Nil]
        BY <2>2 DEF Online!Subscribe, Online!Unsubscribe, PresenceInv, SocketsInv
      <3> QED
        BY <3>1 DEF PresenceInv, SocketsInv, SocketRow
    <2> QED
      BY <2>1, <2>2
  <1>4. \A v : HasSocket(v) => HasSocket(v)'
    BY <1>3, NotNil DEF HasSocket
  <1>5. /\ socket' \in [Sockets -> SocketRow \cup {Nil}]
        /\ \A t \in Sockets : socket'[t] # Nil => socket'[t].room \in {Nil, socket'[t].user}
    <2>1. ASSUME NEW t \in Sockets
          PROVE  /\ socket'[t] \in SocketRow \cup {Nil}
                 /\ socket'[t] # Nil => socket'[t].room \in {Nil, socket'[t].user}
      BY <1>3 DEF PresenceInv, SocketsInv
    <2>2. socket' = [t \in Sockets |-> socket'[t]]
      BY DEF Online!Authenticate, Online!Subscribe, Online!Unsubscribe, PresenceInv, SocketsInv
    <2> QED
      BY <2>1, <2>2
  <1> QED
    BY <1>1, <1>2, <1>4, <1>5, SocketChange DEF PresenceInv, SocketsInv

LEMMA ConnectKeeps ==
  ASSUME PresenceInv, NEW s \in Sockets, Online!Connect(s)
  PROVE  PresenceInv'
  <1>1. SessionsInv'
    BY DEF PresenceInv, SessionsInv, VisitInv, Online!Connect
  <1>2. /\ socket[s] # Nil /\ socket[s] \in SocketRow /\ socket[s].user \in People
        /\ socket' = [socket EXCEPT ![s].at = "open"]
        /\ Online!Mark(socket[s].user, TRUE)
        /\ UNCHANGED <<online, stale>>
    BY DEF PresenceInv, SocketsInv, SocketRow, Online!Connect
  <1>3. /\ socket'[s] \in SocketRow /\ socket'[s].user = socket[s].user /\ socket'[s].at = "open"
        /\ socket'[s].room = socket[s].room
        /\ socket' \in [Sockets -> SocketRow \cup {Nil}]
        /\ \A t \in Sockets \ {s} : socket'[t] = socket[t]
    BY <1>2 DEF PresenceInv, SocketsInv, SocketRow
  <1>4. \A v \in People : HasSocket(v) => HasSocket(v)'
    BY <1>2, <1>3, NotNil DEF HasSocket
  <1>5. MarksInv' /\ ShownInv'
    <2>1. ASSUME NEW u \in People, u = socket[s].user
          PROVE  MarksInv' /\ ShownInv'
      <3>1. HasSocket(u)'
        BY <1>3, <2>1, NotNil DEF HasSocket
      <3> QED
        BY <1>2, <1>4, <2>1, <3>1, MarkAdded DEF PresenceInv
    <2> QED
      BY <1>2, <2>1
  <1>6. marks' \in Seq(MarkRow)
    BY <1>2, MarkKeeps DEF PresenceInv
  <1>7. \A t \in Sockets : socket'[t] # Nil => socket'[t].room \in {Nil, socket'[t].user}
    BY <1>2, <1>3 DEF PresenceInv, SocketsInv
  <1> QED
    BY <1>1, <1>3, <1>5, <1>6, <1>7 DEF PresenceInv, SocketsInv

LEMMA DisconnectKeeps ==
  ASSUME PresenceInv, NEW s \in Sockets, Online!Disconnect(s)
  PROVE  PresenceInv'
  <1>1. SessionsInv'
    BY DEF PresenceInv, SessionsInv, VisitInv, Online!Disconnect
  <1>2. /\ socket[s] # Nil /\ socket[s].user \in People
        /\ socket' = [socket EXCEPT ![s] = Nil]
        /\ UNCHANGED <<online, stale>>
    BY DEF PresenceInv, SocketsInv, SocketRow, Online!Disconnect
  <1>3. /\ socket' \in [Sockets -> SocketRow \cup {Nil}]
        /\ socket'[s] = Nil /\ \A t \in Sockets \ {s} : socket'[t] = socket[t]
    BY <1>2 DEF PresenceInv, SocketsInv
  <1>4. MarksInv' /\ ShownInv' /\ marks' \in Seq(MarkRow)
    <2>1. CASE socket[s].at = "open"
      <3>1. ASSUME NEW u \in People, u = socket[s].user
            PROVE  MarksInv' /\ ShownInv' /\ marks' \in Seq(MarkRow)
        <4>1. Online!Mark(u, FALSE)
          BY <2>1, <3>1 DEF Online!Disconnect
        <4>2. \A v \in People : v # u /\ HasSocket(v) => HasSocket(v)'
          BY <1>3, <3>1 DEF HasSocket
        <4> QED
          BY <1>2, <4>1, <4>2, MarkAdded, MarkKeeps DEF PresenceInv
      <3> QED
        BY <1>2, <3>1
    <2>2. CASE socket[s].at # "open"
      <3>1. \A v : HasSocket(v) => HasSocket(v)'
        BY <1>3, <2>2 DEF HasSocket
      <3>2. marks' = marks
        BY <2>2 DEF Online!Disconnect
      <3> QED
        BY <1>2, <3>1, <3>2, SocketChange DEF PresenceInv, SocketsInv
    <2> QED
      BY <2>1, <2>2
  <1>5. \A t \in Sockets : socket'[t] # Nil => socket'[t].room \in {Nil, socket'[t].user}
    BY <1>3 DEF PresenceInv, SocketsInv
  <1> QED
    BY <1>1, <1>3, <1>4, <1>5 DEF PresenceInv, SocketsInv

LEMMA MarkRevokedKeeps ==
  ASSUME PresenceInv, NEW r \in Visits, Online!MarkRevoked(r)
  PROVE  PresenceInv'
  <1>1. /\ doing[r] # Nil /\ doing[r].op = "revokeAll" /\ doing[r].on \in People
        /\ doing' = [doing EXCEPT ![r] = Nil]
        /\ Online!Mark(doing[r].on, FALSE)
        /\ UNCHANGED <<session, socket, online, stale, wronged>>
    BY DEF PresenceInv, SessionsInv, VisitInv, Online!MarkRevoked, Online!AtCall
  <1>2. SessionsInv'
    <2>1. VisitInv(r)'
      BY <1>1 DEF PresenceInv, SessionsInv, VisitInv
    <2> QED
      BY <1>1, <2>1, VisitChange DEF PresenceInv, SessionsInv
  <1>3. MarksInv' /\ ShownInv' /\ marks' \in Seq(MarkRow)
    <2>1. ASSUME NEW u \in People, u = doing[r].on
          PROVE  MarksInv' /\ ShownInv' /\ marks' \in Seq(MarkRow)
      <3>1. \A v \in People : HasSocket(v) => HasSocket(v)'
        BY <1>1 DEF HasSocket
      <3> QED
        BY <1>1, <2>1, <3>1, MarkAdded, MarkKeeps DEF PresenceInv
    <2> QED
      BY <1>1, <2>1
  <1> QED
    BY <1>1, <1>2, <1>3 DEF PresenceInv, SocketsInv

\* The first mark on its way arrives or is lost.
LEMMA MarkTaken ==
  ASSUME PresenceInv, Online!ApplyMark \/ Online!LoseMark
  PROVE  PresenceInv'
  <1>1. /\ marks # <<>> /\ marks' = Tail(marks) /\ marks \in Seq(MarkRow)
        /\ UNCHANGED <<session, doing, socket, wronged>>
    BY DEF PresenceInv, SocketsInv, Online!ApplyMark, Online!LoseMark
  <1>2. SessionsInv'
    BY <1>1 DEF PresenceInv, SessionsInv, VisitInv
  <1>3. /\ marks' \in Seq(MarkRow) /\ Len(marks) \in Nat /\ Len(marks) > 0
        /\ DOMAIN marks = 1 .. Len(marks) /\ DOMAIN marks' = 1 .. Len(marks) - 1
        /\ \A k \in DOMAIN marks' : marks'[k] = marks[k + 1]
        /\ Head(marks) = marks[1]
    BY <1>1
  <1>4. \A k \in DOMAIN marks : k = 1 \/ (k - 1 \in DOMAIN marks' /\ marks'[k - 1] = marks[k])
    BY <1>3
  <1>5. \A v : HasSocket(v)' <=> HasSocket(v)
    BY <1>1 DEF HasSocket
  <1>6. MarksInv'
    <2> SUFFICES ASSUME NEW k \in DOMAIN marks', marks'[k].on, ~HasSocket(marks'[k].user)
                 PROVE  \E j \in DOMAIN marks' : j > k /\ marks'[j].user = marks'[k].user
      BY <1>1 DEF MarksInv, HasSocket
    <2>1. k + 1 \in DOMAIN marks /\ marks'[k] = marks[k + 1] /\ k \in Nat
      BY <1>3
    <2>2. PICK j \in DOMAIN marks : j > k + 1 /\ marks[j].user = marks[k + 1].user
      BY <2>1 DEF PresenceInv, SocketsInv, MarksInv
    <2>3. j - 1 \in DOMAIN marks' /\ j - 1 > k /\ marks'[j - 1] = marks[j]
      BY <1>3, <1>4, <2>1, <2>2
    <2> QED
      BY <2>1, <2>2, <2>3
  <1>7. ShownInv'
    <2> SUFFICES ASSUME NEW v \in online'
                 PROVE  HasSocket(v) \/ v \in stale' \/ \E k \in DOMAIN marks' : marks'[k].user = v
      BY <1>5 DEF ShownInv
    <2>1. CASE v # marks[1].user
      <3>1. v \in online /\ (v \in stale => v \in stale')
        BY <1>3, <2>1 DEF Online!ApplyMark, Online!LoseMark
      <3> QED
        BY <1>4, <2>1, <3>1 DEF PresenceInv, SocketsInv, ShownInv
    <2>2. CASE v = marks[1].user /\ Online!LoseMark
      BY <1>3, <2>2 DEF Online!LoseMark
    <2>3. CASE v = marks[1].user /\ Online!ApplyMark
      <3>1. marks[1].on /\ 1 \in DOMAIN marks
        BY <1>3, <2>3 DEF Online!ApplyMark
      <3>2. HasSocket(v) \/ \E j \in DOMAIN marks : j > 1 /\ marks[j].user = v
        BY <2>3, <3>1 DEF PresenceInv, SocketsInv, MarksInv
      <3> QED
        BY <1>4, <3>2
    <2> QED
      BY <2>1, <2>2, <2>3
  <1> QED
    BY <1>1, <1>2, <1>3, <1>6, <1>7 DEF PresenceInv, SocketsInv

LEMMA StopKeeps ==
  ASSUME PresenceInv, Online!Stop
  PROVE  PresenceInv'
  <1>1. SessionsInv'
    BY DEF PresenceInv, SessionsInv, VisitInv, Online!Stop
  <1>2. SocketsInv'
    BY DEF SocketsInv, MarksInv, ShownInv, Online!Stop
  <1> QED
    BY <1>1, <1>2 DEF PresenceInv

LEMMA PresenceNext ==
  ASSUME PresenceInv, Online!Next
  PROVE  PresenceInv'
  <1>1. ASSUME NEW r \in Visits, Online!RequestNext(r)
        PROVE  PresenceInv'
    <2>1. CASE Online!MarkRevoked(r)
      BY <2>1, MarkRevokedKeeps
    <2>2. CASE ~Online!MarkRevoked(r)
      <3>1. UNCHANGED <<socket, marks, online, stale>>
        BY <1>1, <2>2 DEF Online!RequestNext, Online!EnterRevoke, Online!EnterRevokeAll,
          Online!EnterPassword, Online!Enter, Online!CheckPassword, Online!ListOwn,
          Online!DeleteSession, Online!CloseAll, Online!SetPassword
      <3>2. SocketsInv'
        BY <3>1 DEF PresenceInv, SocketsInv, MarksInv, ShownInv, HasSocket
      <3>3. SessionsInv'
        BY <1>1, <2>2, EnterKeeps, ListKeeps, DeleteKeeps, CloseAllKeeps, PasswordKeeps
          DEF Online!RequestNext, PresenceInv
      <3> QED
        BY <3>2, <3>3 DEF PresenceInv
    <2> QED
      BY <2>1, <2>2
  <1>2. ASSUME NEW s \in Sockets, Online!SocketNext(s)
        PROVE  PresenceInv'
    BY <1>2, OpenKeeps, ConnectKeeps, DisconnectKeeps DEF Online!SocketNext
  <1>3. ASSUME NEW u \in People, Online!KeyExpires(u)
        PROVE  PresenceInv'
    BY <1>3 DEF Online!KeyExpires, PresenceInv, SessionsInv, VisitInv, SocketsInv, MarksInv,
      ShownInv, HasSocket
  <1> QED
    BY <1>1, <1>2, <1>3, SessionSteps, MarkTaken, StopKeeps DEF Online!Next

LEMMA PresenceInvariant == Online!Spec => []PresenceInv
  <1>1. ASSUME PresenceInv, UNCHANGED Online!pvars
        PROVE  PresenceInv'
    BY <1>1 DEF Online!pvars, PresenceInv, SessionsInv, VisitInv, SocketsInv, MarksInv,
      ShownInv, HasSocket
  <1> QED
    BY <1>1, PresenceInit, PresenceNext, PTL DEF Online!Spec

\* Any number of users, sessions, requests and sockets: who is shown online has a socket,
\* a mark on its way or lost one lately, a socket is in no room but its own user's, and no
\* session is closed for somebody else.
THEOREM PresenceStaysHonest == Online!Spec => []PresenceHonest
  <1>1. ASSUME PresenceInv
        PROVE  PresenceHonest
    BY <1>1 DEF PresenceHonest, Online!PresenceHonest, Online!ShownOnline, Online!OwnRooms,
      Online!OwnSessions, PresenceInv, SessionsInv, SocketsInv, ShownInv, HasSocket
  <1> QED
    BY <1>1, PresenceInvariant, PTL
-----------------------------------------------------------------------------
(***************************************************************************)
(* Reports: the current period.                                            *)
(***************************************************************************)
\* Whoever comes second finds the row of whoever came first.
PeriodInv ==
  /\ DOMAIN reader = Readers
  /\ \A r \in Readers : /\ "step" \in DOMAIN reader[r]
                        /\ reader[r].step = "find winner" => period # "none"
  /\ refused = {}

LEMMA PeriodInit ==
  ASSUME Summary!Init
  PROVE  PeriodInv
  BY DEF Summary!Init, PeriodInv, Summary!Idle

\* A request moves on to a step that is not about the period.
LEMMA StepElsewhere ==
  ASSUME PeriodInv, NEW r \in Readers, NEW v, reader' = [reader EXCEPT ![r] = v],
         "step" \in DOMAIN v, v.step = "find winner" => period' # "none",
         period # "none" => period' # "none",
         UNCHANGED refused
  PROVE  PeriodInv'
  BY DEF PeriodInv

\* A request moves from one step to another.
LEMMA GotoKeeps ==
  ASSUME PeriodInv, NEW r \in Readers, NEW step, Summary!Goto(r, step),
         step = "find winner" => period' # "none",
         period # "none" => period' # "none",
         UNCHANGED refused
  PROVE  PeriodInv'
  <1>1. "step" \in DOMAIN reader[r] /\ reader' = [reader EXCEPT ![r] = [reader[r] EXCEPT !.step = step]]
    BY DEF PeriodInv, Summary!Goto
  <1> DEFINE v == [reader[r] EXCEPT !.step = step]
  <1>2. "step" \in DOMAIN v /\ v.step = step /\ reader' = [reader EXCEPT ![r] = v]
    BY <1>1
  <1> HIDE DEF v
  <1> QED
    BY <1>2, StepElsewhere

LEMMA SummaryStepsKeepPeriod ==
  ASSUME PeriodInv, NEW r \in Readers,
         \/ Summary!ReadGeneration(r) \/ Summary!LookUp(r) \/ Summary!Query(r)
         \/ Summary!StoreSummary(r) \/ Summary!FindReport(r) \/ Summary!IncomeUnread(r)
  PROVE  PeriodInv'
  <1>1. UNCHANGED <<period, refused>> /\ DOMAIN reader' = Readers
        /\ \A q \in Readers \ {r} : reader'[q] = reader[q]
    BY DEF PeriodInv, Summary!ReadGeneration, Summary!LookUp, Summary!Query, Summary!StoreSummary,
      Summary!FindReport, Summary!IncomeUnread, Summary!tables, Summary!history
  <1>2. "step" \in DOMAIN reader[r]
    BY DEF PeriodInv
  <1>3. "step" \in DOMAIN reader'[r] /\ reader'[r].step # "find winner"
    <2>1. CASE Summary!ReadGeneration(r)
      BY <1>2, <2>1 DEF PeriodInv, Summary!ReadGeneration
    <2>2. CASE Summary!LookUp(r)
      BY <1>2, <2>2 DEF PeriodInv, Summary!LookUp
    <2>3. CASE Summary!Query(r)
      BY <1>2, <2>3 DEF PeriodInv, Summary!Query
    <2>4. CASE Summary!StoreSummary(r)
      BY <1>2, <2>4 DEF PeriodInv, Summary!StoreSummary
    <2>5. CASE Summary!FindReport(r)
      BY <1>2, <2>5 DEF PeriodInv, Summary!FindReport
    <2>6. CASE Summary!IncomeUnread(r)
      BY <1>2, <2>6 DEF PeriodInv, Summary!IncomeUnread
    <2> QED
      BY <2>1, <2>2, <2>3, <2>4, <2>5, <2>6
  <1> QED
    BY <1>1, <1>3 DEF PeriodInv

LEMMA RequestEndsKeepPeriod ==
  ASSUME PeriodInv, NEW r \in Readers,
         \/ Summary!AskSummary(r) \/ Summary!AskReport(r) \/ Summary!AskTax(r)
         \/ Summary!AnswerSummary(r) \/ Summary!ReadFails(r) \/ Summary!SaveReport(r)
         \/ Summary!ReportRefused(r) \/ Summary!SaveTax(r)
  PROVE  PeriodInv'
  <1>1. PICK v : /\ reader' = [reader EXCEPT ![r] = v]
                 /\ "step" \in DOMAIN v /\ v.step # "find winner"
    <2>1. ASSUME NEW for, NEW step, step # "find winner", Summary!Begin(r, for, step)
          PROVE  \E v : /\ reader' = [reader EXCEPT ![r] = v]
                       /\ "step" \in DOMAIN v /\ v.step # "find winner"
      <3> DEFINE v == [step |-> step, for |-> for, since |-> answered,
                       gen |-> 0, summary |-> 0, row |-> FALSE]
      <3>1. reader' = [reader EXCEPT ![r] = v] /\ "step" \in DOMAIN v /\ v.step # "find winner"
        BY <2>1 DEF Summary!Begin
      <3> HIDE DEF v
      <3> QED
        BY <3>1
    <2>2. CASE \/ Summary!AskSummary(r) \/ Summary!AskReport(r) \/ Summary!AskTax(r)
      BY <2>1, <2>2 DEF Summary!AskSummary, Summary!AskReport, Summary!AskTax
    <2>3. CASE \/ Summary!AnswerSummary(r) \/ Summary!ReadFails(r) \/ Summary!SaveReport(r)
               \/ Summary!ReportRefused(r) \/ Summary!SaveTax(r)
      BY <2>3 DEF Summary!AnswerSummary, Summary!ReadFails, Summary!SaveReport,
        Summary!ReportRefused, Summary!SaveTax, Summary!Answer, Summary!Idle
    <2> QED
      BY <2>2, <2>3
  <1>2. UNCHANGED <<period, refused>>
    BY DEF Summary!AskSummary, Summary!AskReport, Summary!AskTax, Summary!Begin,
      Summary!AnswerSummary, Summary!ReadFails, Summary!SaveReport, Summary!ReportRefused,
      Summary!SaveTax, Summary!tables, Summary!history
  <1> QED
    BY <1>1, <1>2, StepElsewhere

LEMMA PeriodStepsKeep ==
  ASSUME PeriodInv, NEW r \in Readers,
         \/ Summary!FindPeriod(r) \/ Summary!FindAgain(r)
         \/ Summary!InsertPeriod(r) \/ Summary!FindWinner(r)
  PROVE  PeriodInv'
  <1>1. CASE Summary!FindPeriod(r) \/ Summary!FindAgain(r)
    <2>1. UNCHANGED <<period, refused>>
      BY <1>1 DEF Summary!FindPeriod, Summary!FindAgain, Summary!tables, Summary!history
    <2>2. \/ Summary!Goto(r, "find again") \/ Summary!Goto(r, "find report")
          \/ Summary!Goto(r, "insert period")
          \/ Summary!Goto(r, "find winner") /\ period # "none"
      <3>1. CASE period = "none"
        BY <1>1, <3>1 DEF Summary!FindPeriod, Summary!FindAgain
      <3>2. CASE period # "none"
        BY <1>1, <3>2 DEF Summary!FindPeriod, Summary!FindAgain
      <3> QED
        BY <3>1, <3>2
    <2> QED
      BY <2>1, <2>2, GotoKeeps
  <1>2. CASE Summary!InsertPeriod(r)
    <2>1. UNCHANGED refused /\ period' # "none"
      BY <1>2 DEF Summary!InsertPeriod, Summary!history
    <2>2. Summary!Goto(r, "find report") \/ Summary!Goto(r, "find winner")
      BY <1>2 DEF Summary!InsertPeriod
    <2> QED
      BY <2>1, <2>2, GotoKeeps
  <1>3. CASE Summary!FindWinner(r)
    <2>1. period # "none"
      BY <1>3 DEF PeriodInv, Summary!FindWinner
    <2>2. Summary!Goto(r, "find report") /\ UNCHANGED <<refused, period>>
      BY <1>3, <2>1 DEF Summary!FindWinner, Summary!tables
    <2> QED
      BY <2>1, <2>2, GotoKeeps
  <1> QED
    BY <1>1, <1>2, <1>3

LEMMA PeriodNext ==
  ASSUME PeriodInv, Summary!Next
  PROVE  PeriodInv'
  <1>1. CASE \/ \E w \in Writers : \/ Summary!Change(w) \/ Summary!GetGeneration(w)
                                   \/ Summary!SetGeneration(w) \/ Summary!InvalidateFails(w)
             \/ Summary!ChangeSilently \/ Summary!Lapse \/ Summary!CreatePeriod \/ Summary!ClosePeriod
             \/ \E g \in Summary!Generations : Summary!Expire(g)
    <2>1. UNCHANGED <<reader, refused>> /\ (period # "none" => period' # "none")
      BY <1>1 DEF Summary!Change, Summary!GetGeneration, Summary!SetGeneration,
        Summary!InvalidateFails, Summary!ChangeSilently, Summary!Lapse, Summary!CreatePeriod,
        Summary!ClosePeriod, Summary!Expire, Summary!tables, Summary!requests, Summary!history
    <2> QED
      BY <2>1 DEF PeriodInv
  <1> QED
    BY <1>1, SummaryStepsKeepPeriod, RequestEndsKeepPeriod, PeriodStepsKeep DEF Summary!Next

\* Any number of requests: none that needs the current period fails because another one
\* creates it at the same time.
THEOREM PeriodStaysResolved == Summary!Spec => []PeriodResolved
  <1>1. ASSUME PeriodInv, UNCHANGED Summary!rvars
        PROVE  PeriodInv'
    BY <1>1 DEF Summary!rvars, PeriodInv
  <1>2. PeriodInv => PeriodResolved
    BY DEF PeriodInv, PeriodResolved, Summary!PeriodResolved
  <1> QED
    BY <1>1, <1>2, PeriodInit, PeriodNext, PTL DEF Summary!Spec
-----------------------------------------------------------------------------
(***************************************************************************)
(* Reports: what a summary includes.  base[g] is the newest change that    *)
(* had answered when generation g began; what is kept under g includes it. *)
(***************************************************************************)
ReaderRow ==
  [step : {"summary", "look", "query", "store", "use", "find period", "find again",
           "insert period", "find winner", "find report"},
   for : {"summary", "report", "tax"}, since : Nat, gen : Nat, summary : Nat, row : BOOLEAN]

CountsInv ==
  /\ changes \in Nat /\ answered \in Nat /\ generation \in Nat /\ report \in BOOLEAN
  /\ answered <= changes /\ changes <= MaxChanges

Busy == {w \in Writers : writer[w] # Summary!Idle}

\* Every generation is one change whose request has ended.
WritersInv ==
  /\ DOMAIN writer = Writers
  /\ \A w \in Writers :
       writer[w] # Summary!Idle =>
         writer[w].step \in {"get", "set"} /\ writer[w].change \in Nat /\ writer[w].change <= changes
  /\ generation + Cardinality(Busy) <= changes

CacheInv(base) ==
  /\ base[generation] = answered
  /\ \A g, h \in Nat : g <= h /\ h <= generation => base[g] <= base[h]
  /\ cached \in [0 .. MaxChanges -> Nat \cup {Nothing}]
  /\ \A g \in 0 .. MaxChanges : cached[g] # Nothing => g <= generation /\ base[g] <= cached[g]

RowInv(v, base) ==
  /\ v \in ReaderRow
  /\ v.since <= answered /\ v.gen <= generation
  /\ v.step \in {"look", "query", "store"} => v.since <= base[v.gen]
  /\ v.step = "store" => base[v.gen] <= v.summary
  /\ v.step = "use" => v.since <= v.summary

ReadersInv(base) ==
  /\ DOMAIN reader = Readers
  /\ \A r \in Readers : reader[r] = Summary!Idle \/ RowInv(reader[r], base)

Fresh(base) == CountsInv /\ WritersInv /\ CacheInv(base) /\ ReadersInv(base)

FreshInv == raced \/ \E base \in [Nat -> Nat] : Fresh(base)

LEMMA FreshInit ==
  ASSUME Summary!Init
  PROVE  FreshInv
  <1> DEFINE base == [g \in Nat |-> 0]
  <1>1. base \in [Nat -> Nat]
    OBVIOUS
  <1>2. CountsInv
    <2>1. report = FALSE
      BY DEF Summary!Init
    <2>2. report \in BOOLEAN
      BY <2>1, Zenon
    <2>3. changes = 0 /\ answered = 0 /\ generation = 0
      BY DEF Summary!Init
    <2> QED
      BY <2>2, <2>3, SummariesAssumption DEF CountsInv
  <1>3. WritersInv
    <2>1. Busy = {}
      BY DEF Summary!Init, Busy
    <2> QED
      BY <2>1, FS_EmptySet DEF Summary!Init, WritersInv
  <1>4. CacheInv(base)
    BY DEF Summary!Init, CacheInv, Summary!Generations
  <1>5. ReadersInv(base)
    BY DEF Summary!Init, ReadersInv
  <1> QED
    BY <1>1, <1>2, <1>3, <1>4, <1>5 DEF FreshInv, Fresh

-----------------------------------------------------------------------------
\* The changes.  One more of them is on its way, or one less.
LEMMA BusyMore ==
  ASSUME WritersInv, NEW w \in Writers, NEW v, v # Summary!Idle,
         writer[w] = Summary!Idle, writer' = [writer EXCEPT ![w] = v]
  PROVE  Cardinality(Busy') = Cardinality(Busy) + 1
  <1>1. Busy' = Busy \cup {w} /\ w \notin Busy
    BY DEF WritersInv, Busy
  <1>2. IsFiniteSet(Busy)
    BY SummariesAssumption, FS_Subset DEF Busy
  <1> QED
    BY <1>1, <1>2, FS_AddElement

LEMMA BusyLess ==
  ASSUME WritersInv, NEW w \in Writers,
         writer[w] # Summary!Idle, writer' = [writer EXCEPT ![w] = Summary!Idle]
  PROVE  /\ Cardinality(Busy') = Cardinality(Busy) - 1
         /\ Cardinality(Busy) \in Nat /\ Cardinality(Busy') \in Nat
  <1>1. Busy' = Busy \ {w} /\ w \in Busy
    BY DEF WritersInv, Busy
  <1>2. IsFiniteSet(Busy) /\ IsFiniteSet(Busy')
    BY <1>1, SummariesAssumption, FS_Subset DEF Busy
  <1> QED
    BY <1>1, <1>2, FS_RemoveElement, FS_CardinalityType

LEMMA BusyNat == Cardinality(Busy) \in Nat
  <1>1. IsFiniteSet(Busy)
    BY SummariesAssumption, FS_Subset DEF Busy
  <1> QED
    BY <1>1, FS_CardinalityType

LEMMA ChangeKeeps ==
  ASSUME NEW base \in [Nat -> Nat], Fresh(base), NEW w \in Writers, Summary!Change(w)
  PROVE  Fresh(base)'
  <1>1. /\ writer[w] = Summary!Idle /\ changes < MaxChanges /\ changes' = changes + 1
        /\ writer' = [writer EXCEPT ![w] = [step |-> "get", change |-> changes + 1]]
        /\ UNCHANGED <<generation, cached, report, reader, answered>>
    BY DEF Summary!Change, Summary!cacheVars, Summary!tables, Summary!history
  <1>2. CountsInv'
    BY <1>1, SummariesAssumption DEF Fresh, CountsInv
  <1>3. WritersInv'
    <2> DEFINE v == [step |-> "get", change |-> changes + 1]
    <2>1. v # Summary!Idle /\ v.step = "get" /\ v.change = changes + 1
      BY DEF Summary!Idle
    <2>2. writer' = [writer EXCEPT ![w] = v]
      BY <1>1
    <2> HIDE DEF v
    <2>3. Cardinality(Busy') = Cardinality(Busy) + 1
      BY <1>1, <2>1, <2>2, BusyMore DEF Fresh
    <2>4. generation' + Cardinality(Busy') <= changes'
      BY <1>1, <2>3, BusyNat DEF Fresh, WritersInv, CountsInv
    <2> QED
      BY <1>1, <2>1, <2>2, <2>4 DEF Fresh, WritersInv, CountsInv
  <1>4. CacheInv(base)' /\ ReadersInv(base)'
    BY <1>1 DEF Fresh, CacheInv, ReadersInv, RowInv
  <1> QED
    BY <1>2, <1>3, <1>4 DEF Fresh

LEMMA ChangeSilentlyKeeps ==
  ASSUME NEW base \in [Nat -> Nat], Fresh(base), Summary!ChangeSilently
  PROVE  Fresh(base)'
  <1>1. /\ changes < MaxChanges /\ changes' = changes + 1
        /\ UNCHANGED <<generation, cached, report, writer, reader, answered>>
    BY DEF Summary!ChangeSilently, Summary!cacheVars, Summary!tables, Summary!requests,
      Summary!history
  <1>2. CountsInv' /\ Busy' = Busy
    BY <1>1, SummariesAssumption DEF Fresh, CountsInv, Busy
  <1>3. WritersInv'
    BY <1>1, <1>2, BusyNat DEF Fresh, WritersInv, CountsInv
  <1>4. CacheInv(base)' /\ ReadersInv(base)'
    BY <1>1 DEF Fresh, CacheInv, ReadersInv, RowInv
  <1> QED
    BY <1>2, <1>3, <1>4 DEF Fresh

LEMMA GetGenerationKeeps ==
  ASSUME NEW base \in [Nat -> Nat], Fresh(base), NEW w \in Writers, Summary!GetGeneration(w)
  PROVE  Fresh(base)'
  <1>1. /\ writer[w].step = "get"
        /\ writer' = [writer EXCEPT ![w] =
                        [step |-> "set", change |-> writer[w].change, seen |-> generation]]
        /\ UNCHANGED <<changes, generation, cached, report, reader, answered>>
    BY DEF Summary!GetGeneration, Summary!cacheVars, Summary!tables, Summary!history
  <1>2. writer[w] # Summary!Idle
    BY <1>1 DEF Summary!Idle
  <1>3. WritersInv'
    <2> DEFINE v == [step |-> "set", change |-> writer[w].change, seen |-> generation]
    <2>1. v # Summary!Idle /\ v.step = "set" /\ v.change = writer[w].change
      BY DEF Summary!Idle
    <2>2. writer' = [writer EXCEPT ![w] = v]
      BY <1>1
    <2> HIDE DEF v
    <2>3. Busy' = Busy
      BY <1>2, <2>1, <2>2 DEF Fresh, WritersInv, Busy
    <2> QED
      BY <1>1, <1>2, <2>1, <2>2, <2>3 DEF Fresh, WritersInv
  <1>4. CountsInv' /\ CacheInv(base)' /\ ReadersInv(base)'
    BY <1>1 DEF Fresh, CountsInv, CacheInv, ReadersInv, RowInv
  <1> QED
    BY <1>3, <1>4 DEF Fresh

LEMMA InvalidateFailsKeeps ==
  ASSUME NEW base \in [Nat -> Nat], Fresh(base), NEW w \in Writers, Summary!InvalidateFails(w)
  PROVE  Fresh(base)'
  <1>1. /\ writer[w] # Summary!Idle /\ writer' = [writer EXCEPT ![w] = Summary!Idle]
        /\ UNCHANGED <<changes, generation, cached, report, reader, answered>>
    BY DEF Summary!InvalidateFails, Summary!cacheVars, Summary!tables, Summary!history
  <1>2. /\ Cardinality(Busy') = Cardinality(Busy) - 1
        /\ Cardinality(Busy) \in Nat /\ Cardinality(Busy') \in Nat
    BY <1>1, BusyLess DEF Fresh
  <1>3. generation' + Cardinality(Busy') <= changes'
    BY <1>1, <1>2 DEF Fresh, CountsInv, WritersInv
  <1>4. WritersInv'
    BY <1>1, <1>3 DEF Fresh, WritersInv
  <1>5. CountsInv' /\ CacheInv(base)' /\ ReadersInv(base)'
    BY <1>1 DEF Fresh, CountsInv, CacheInv, ReadersInv, RowInv
  <1> QED
    BY <1>4, <1>5 DEF Fresh

\* The generation rises, and the answered change is the base of the new one.
LEMMA SetGenerationKeeps ==
  ASSUME NEW base \in [Nat -> Nat], Fresh(base), NEW w \in Writers,
         Summary!SetGeneration(w), ~raced',
         NEW n \in Nat, n = generation, NEW t, t = answered',
         NEW above, above = [base EXCEPT ![n + 1] = t]
  PROVE  above \in [Nat -> Nat] /\ Fresh(above)'
  <1>1. /\ writer[w].step = "set"
        /\ generation' = n + 1
        /\ t = IF writer[w].change > answered THEN writer[w].change ELSE answered
        /\ writer' = [writer EXCEPT ![w] = Summary!Idle]
        /\ UNCHANGED <<changes, cached, report, reader>>
    BY DEF Summary!SetGeneration, Summary!tables
  <1>2. writer[w] # Summary!Idle /\ writer[w].change \in Nat /\ writer[w].change <= changes
    BY <1>1 DEF Summary!Idle, Fresh, WritersInv
  <1>3. t \in Nat /\ answered <= t /\ t <= changes
    BY <1>1, <1>2 DEF Fresh, CountsInv
  <1>4. above \in [Nat -> Nat] /\ above[n + 1] = t /\ \A g \in Nat : g # n + 1 => above[g] = base[g]
    BY <1>3
  <1>5. CountsInv'
    BY <1>1, <1>3 DEF Fresh, CountsInv
  <1>6. WritersInv'
    <2>1. /\ Cardinality(Busy') = Cardinality(Busy) - 1
          /\ Cardinality(Busy) \in Nat /\ Cardinality(Busy') \in Nat
      BY <1>1, <1>2, BusyLess DEF Fresh
    <2>2. generation' + Cardinality(Busy') <= changes'
      BY <1>1, <2>1 DEF Fresh, CountsInv, WritersInv
    <2> QED
      BY <1>1, <2>2 DEF Fresh, WritersInv
  <1>7. CacheInv(above)'
    <2>1. \A g, h \in Nat : g <= h /\ h <= n => base[g] <= base[h]
      BY DEF Fresh, CacheInv
    <2>2. base[n] = answered
      BY DEF Fresh, CacheInv
    <2>3. \A g, h \in Nat : g <= h /\ h <= n + 1 => above[g] <= above[h]
      <3> SUFFICES ASSUME NEW g \in Nat, NEW h \in Nat, g <= h, h <= n + 1
                   PROVE  above[g] <= above[h]
        OBVIOUS
      <3>1. CASE h <= n
        <4>1. above[g] = base[g] /\ above[h] = base[h]
          BY <1>4, <3>1
        <4> QED
          BY <2>1, <3>1, <4>1
      <3>2. CASE h = n + 1 /\ g = n + 1
        BY <1>3, <1>4, <3>2
      <3>3. CASE h = n + 1 /\ g <= n
        <4>1. base[g] <= base[n] /\ above[g] = base[g] /\ above[h] = t
          BY <1>4, <2>1, <3>3
        <4>2. base[g] \in Nat /\ answered \in Nat
          BY DEF Fresh, CountsInv
        <4> QED
          BY <1>3, <2>2, <4>1, <4>2
      <3> QED
        BY <3>1, <3>2, <3>3
    <2>4. ASSUME NEW g \in 0 .. MaxChanges, cached[g] # Nothing
          PROVE  g <= n + 1 /\ above[g] <= cached[g]
      <3>1. g \in Nat /\ g <= n /\ base[g] <= cached[g]
        BY <2>4 DEF Fresh, CacheInv
      <3> QED
        BY <1>4, <3>1
    <2> QED
      BY <1>1, <1>4, <2>3, <2>4 DEF Fresh, CacheInv
  <1>8. ReadersInv(above)'
    <2> SUFFICES ASSUME NEW r \in Readers, reader[r] # Summary!Idle
                 PROVE  RowInv(reader[r], above)'
      BY <1>1 DEF Fresh, ReadersInv
    <2>1. RowInv(reader[r], base)
      BY DEF Fresh, ReadersInv
    <2>2. /\ reader[r].gen \in Nat /\ reader[r].gen <= n
          /\ reader[r].since \in Nat /\ reader[r].since <= answered
      BY <2>1 DEF RowInv, ReaderRow
    <2>3. above[reader[r].gen] = base[reader[r].gen]
      BY <1>4, <2>2
    <2>4. reader[r].since <= t /\ reader[r].gen <= n + 1
      BY <1>3, <2>2 DEF Fresh, CountsInv
    <2> QED
      BY <1>1, <2>1, <2>3, <2>4 DEF RowInv
  <1> QED
    BY <1>4, <1>5, <1>6, <1>7, <1>8 DEF Fresh

\* The generation has lapsed, and everything kept under it.
LEMMA LapseKeeps ==
  ASSUME NEW base \in [Nat -> Nat], Fresh(base), Summary!Lapse,
         NEW t, t = answered, NEW above, above = [g \in Nat |-> t]
  PROVE  above \in [Nat -> Nat] /\ Fresh(above)'
  <1>1. /\ \A g \in 0 .. MaxChanges : cached[g] = Nothing
        /\ \A w \in Writers : writer[w] = Summary!Idle
        /\ \A r \in Readers : reader[r] = Summary!Idle
        /\ generation' = 0
        /\ UNCHANGED <<changes, cached, report, writer, reader, answered>>
    BY DEF Summary!Lapse, Summary!Generations, Summary!tables, Summary!requests, Summary!history
  <1>2. t \in Nat /\ above \in [Nat -> Nat]
    BY DEF Fresh, CountsInv
  <1>3. CountsInv'
    BY <1>1 DEF Fresh, CountsInv
  <1>4. WritersInv'
    <2>1. Busy' = {}
      BY <1>1 DEF Busy
    <2> QED
      BY <1>1, <2>1, FS_EmptySet DEF Fresh, WritersInv, CountsInv
  <1>5. CacheInv(above)'
    BY <1>1, <1>2 DEF Fresh, CacheInv
  <1>6. ReadersInv(above)'
    BY <1>1 DEF Fresh, ReadersInv
  <1> QED
    BY <1>2, <1>3, <1>4, <1>5, <1>6 DEF Fresh

LEMMA ExpireKeeps ==
  ASSUME NEW base \in [Nat -> Nat], Fresh(base), NEW g \in Summary!Generations, Summary!Expire(g)
  PROVE  Fresh(base)'
  <1>1. /\ cached' = [cached EXCEPT ![g] = Nothing]
        /\ UNCHANGED <<changes, generation, report, writer, reader, answered>>
    BY DEF Summary!Expire, Summary!tables, Summary!requests, Summary!history
  <1>2. CacheInv(base)'
    BY <1>1 DEF Fresh, CacheInv
  <1>3. CountsInv' /\ WritersInv' /\ ReadersInv(base)'
    BY <1>1 DEF Fresh, CountsInv, WritersInv, Busy, ReadersInv, RowInv
  <1> QED
    BY <1>2, <1>3 DEF Fresh

-----------------------------------------------------------------------------
\* The requests that read.  One of them moves on, and may keep a summary.
LEMMA ReaderMoves ==
  ASSUME NEW base \in [Nat -> Nat], Fresh(base), NEW r \in Readers, NEW v,
         reader' = [reader EXCEPT ![r] = v],
         v = Summary!Idle \/ RowInv(v, base),
         UNCHANGED <<changes, generation, cached, writer, answered>>,
         report' \in BOOLEAN
  PROVE  Fresh(base)'
  <1>1. CountsInv' /\ WritersInv' /\ CacheInv(base)'
    BY DEF Fresh, CountsInv, WritersInv, Busy, CacheInv
  <1>2. ReadersInv(base)'
    BY DEF Fresh, ReadersInv, RowInv
  <1> QED
    BY <1>1, <1>2 DEF Fresh

LEMMA RowOf ==
  ASSUME NEW base \in [Nat -> Nat], Fresh(base), NEW r \in Readers, reader[r].step # "idle"
  PROVE  /\ RowInv(reader[r], base) /\ reader[r] \in ReaderRow
         /\ reader[r].since \in Nat /\ reader[r].gen \in Nat /\ reader[r].summary \in Nat
         /\ reader[r].gen <= generation
         /\ reader[r].gen \in 0 .. MaxChanges
         /\ base[reader[r].gen] \in Nat /\ base[reader[r].gen] <= answered
  <1>1. RowInv(reader[r], base)
    BY DEF Fresh, ReadersInv, Summary!Idle
  <1>2. /\ reader[r].since \in Nat /\ reader[r].gen \in Nat /\ reader[r].summary \in Nat
        /\ reader[r].gen <= generation
    BY <1>1 DEF RowInv, ReaderRow
  <1>3. generation <= MaxChanges
    BY BusyNat, SummariesAssumption DEF Fresh, CountsInv, WritersInv
  <1>4. base[reader[r].gen] <= answered
    BY SMTT(60), <1>2 DEF Fresh, CacheInv, CountsInv
  <1> QED
    BY <1>1, <1>2, <1>3, <1>4, SummariesAssumption DEF Fresh, CountsInv, RowInv

LEMMA BeginKeepsFresh ==
  ASSUME NEW base \in [Nat -> Nat], Fresh(base), NEW r \in Readers,
         Summary!AskSummary(r) \/ Summary!AskReport(r) \/ Summary!AskTax(r)
  PROVE  Fresh(base)'
  <1>1. ASSUME NEW what, NEW at, Summary!Begin(r, what, at),
               what \in {"summary", "report", "tax"} /\ at \in {"summary", "find period"}
        PROVE  Fresh(base)'
    <2> DEFINE v == [step |-> at, for |-> what, since |-> answered,
                     gen |-> 0, summary |-> 0, row |-> FALSE]
    <2>1. reader' = [reader EXCEPT ![r] = v]
          /\ UNCHANGED <<changes, generation, cached, report, writer, answered>>
      BY <1>1 DEF Summary!Begin, Summary!cacheVars, Summary!tables
    <2>4. answered \in Nat /\ generation \in Nat
      BY DEF Fresh, CountsInv
    <2>5. v \in ReaderRow /\ v.step = at /\ v.since = answered /\ v.gen = 0
      BY <1>1, <2>4 DEF ReaderRow
    <2> HIDE DEF v
    <2>6. v.since <= answered /\ v.gen <= generation
      BY <2>4, <2>5
    <2>7. v.step \notin {"look", "query", "store"} /\ v.step # "use"
      BY <1>1, <2>5
    <2>2. RowInv(v, base)
      BY <2>5, <2>6, <2>7 DEF RowInv
    <2>3. report' \in BOOLEAN
      BY <2>1 DEF Fresh, CountsInv
    <2> QED
      BY <2>1, <2>2, <2>3, ReaderMoves
  <1> QED
    BY <1>1 DEF Summary!AskSummary, Summary!AskReport, Summary!AskTax

LEMMA AnswerKeepsFresh ==
  ASSUME NEW base \in [Nat -> Nat], Fresh(base), NEW r \in Readers,
         \/ Summary!AnswerSummary(r) \/ Summary!ReadFails(r) \/ Summary!SaveReport(r)
         \/ Summary!ReportRefused(r) \/ Summary!SaveTax(r)
         \/ Summary!FindWinner(r) /\ reader' = [reader EXCEPT ![r] = Summary!Idle]
  PROVE  Fresh(base)'
  <1>1. /\ reader' = [reader EXCEPT ![r] = Summary!Idle]
        /\ UNCHANGED <<changes, generation, cached, writer, answered>>
        /\ report' = report \/ report' = TRUE
    BY DEF Summary!AnswerSummary, Summary!ReadFails, Summary!SaveReport, Summary!ReportRefused,
      Summary!SaveTax, Summary!FindWinner, Summary!Answer, Summary!cacheVars, Summary!tables,
      Summary!history
  <1>2. report' \in BOOLEAN
    BY <1>1, Zenon DEF Fresh, CountsInv
  <1> QED
    BY <1>1, <1>2, ReaderMoves

\* The steps about the period.
LEMMA GotoKeepsFresh ==
  ASSUME NEW base \in [Nat -> Nat], Fresh(base), NEW r \in Readers, reader[r].step # "idle",
         NEW step \in {"find period", "find again", "insert period", "find winner", "find report"},
         Summary!Goto(r, step),
         UNCHANGED <<changes, generation, cached, report, writer, answered>>
  PROVE  Fresh(base)'
  <1> DEFINE v == [reader[r] EXCEPT !.step = step]
  <1>1. reader' = [reader EXCEPT ![r] = v]
    BY DEF Summary!Goto
  <1>2. RowInv(reader[r], base)
    BY RowOf
  <1>3. v \in ReaderRow /\ v.since = reader[r].since /\ v.gen = reader[r].gen /\ v.step = step
    BY <1>2 DEF RowInv, ReaderRow
  <1> HIDE DEF v
  <1>4. RowInv(v, base)
    BY <1>2, <1>3 DEF RowInv
  <1>5. report' \in BOOLEAN
    BY DEF Fresh, CountsInv
  <1> QED
    BY <1>1, <1>4, <1>5, ReaderMoves

LEMMA PeriodKeepsFresh ==
  ASSUME NEW base \in [Nat -> Nat], Fresh(base), NEW r \in Readers,
         \/ Summary!FindPeriod(r) \/ Summary!FindAgain(r)
         \/ Summary!InsertPeriod(r) \/ Summary!FindWinner(r)
  PROVE  Fresh(base)'
  <1>1. reader[r].step # "idle"
    BY DEF Summary!FindPeriod, Summary!FindAgain, Summary!InsertPeriod, Summary!FindWinner
  <1>2. UNCHANGED <<changes, generation, cached, report, writer, answered>>
    BY DEF Summary!FindPeriod, Summary!FindAgain, Summary!InsertPeriod, Summary!FindWinner,
      Summary!cacheVars, Summary!tables, Summary!history
  <1>3. CASE reader' = [reader EXCEPT ![r] = Summary!Idle] /\ Summary!FindWinner(r)
    BY <1>3, AnswerKeepsFresh
  <1>4. CASE \/ Summary!Goto(r, "find again") \/ Summary!Goto(r, "find report")
             \/ Summary!Goto(r, "insert period") \/ Summary!Goto(r, "find winner")
    BY <1>1, <1>2, <1>4, GotoKeepsFresh
  <1>5. <1>3!1 \/ <1>4!1
    <2>1. CASE period = "none"
      BY <2>1 DEF Summary!FindPeriod, Summary!FindAgain, Summary!InsertPeriod, Summary!FindWinner
    <2>2. CASE period # "none"
      BY <2>2 DEF Summary!FindPeriod, Summary!FindAgain, Summary!InsertPeriod, Summary!FindWinner
    <2> QED
      BY <2>1, <2>2
  <1> QED
    BY <1>3, <1>4, <1>5

\* The steps of getSummary.
LEMMA SummaryKeepsFresh ==
  ASSUME NEW base \in [Nat -> Nat], Fresh(base), NEW r \in Readers,
         \/ Summary!FindReport(r) \/ Summary!ReadGeneration(r) \/ Summary!LookUp(r)
         \/ Summary!Query(r) \/ Summary!IncomeUnread(r)
  PROVE  Fresh(base)'
  <1>1. reader[r].step # "idle" /\ UNCHANGED <<changes, generation, cached, report, writer, answered>>
    BY DEF Summary!FindReport, Summary!ReadGeneration, Summary!LookUp, Summary!Query,
      Summary!IncomeUnread, Summary!cacheVars, Summary!tables, Summary!history
  <1>2. /\ RowInv(reader[r], base) /\ reader[r] \in ReaderRow
        /\ reader[r].since \in Nat /\ reader[r].gen \in Nat /\ reader[r].summary \in Nat
        /\ reader[r].gen <= generation
        /\ reader[r].gen \in 0 .. MaxChanges
        /\ base[reader[r].gen] \in Nat /\ base[reader[r].gen] <= answered
        /\ reader[r].since <= answered
    BY <1>1, RowOf DEF RowInv
  <1>3. /\ report' \in BOOLEAN /\ report \in BOOLEAN /\ generation \in Nat /\ changes \in Nat
        /\ answered \in Nat /\ answered <= changes /\ base[generation] = answered
    BY <1>1 DEF Fresh, CountsInv, CacheInv
  <1>4. PICK v : reader' = [reader EXCEPT ![r] = v] /\ RowInv(v, base)
    <2>1. CASE Summary!FindReport(r)
      <3> DEFINE v == [reader[r] EXCEPT !.step = "summary", !.row = report]
      <3>1. reader' = [reader EXCEPT ![r] = v]
        BY <2>1 DEF Summary!FindReport
      <3>2. v \in ReaderRow /\ v.step = "summary" /\ v.since = reader[r].since /\ v.gen = reader[r].gen
        BY <1>2, <1>3 DEF ReaderRow
      <3> HIDE DEF v
      <3> QED
        BY <1>2, <3>1, <3>2 DEF RowInv
    <2>2. CASE Summary!ReadGeneration(r)
      <3> DEFINE v == [reader[r] EXCEPT !.step = "look", !.gen = generation]
      <3>1. reader' = [reader EXCEPT ![r] = v]
        BY <2>2 DEF Summary!ReadGeneration
      <3>2. v \in ReaderRow /\ v.step = "look" /\ v.since = reader[r].since /\ v.gen = generation
        BY <1>2, <1>3 DEF ReaderRow
      <3> HIDE DEF v
      <3>3. v.since <= answered /\ v.gen <= generation /\ v.since <= base[v.gen]
        BY <1>2, <1>3, <3>2
      <3>4. RowInv(v, base)
        BY <3>2, <3>3 DEF RowInv
      <3> QED
        BY <3>1, <3>4
    <2>3. CASE Summary!LookUp(r) /\ cached[reader[r].gen] = Nothing
      <3> DEFINE v == [reader[r] EXCEPT !.step = "query"]
      <3>1. reader' = [reader EXCEPT ![r] = v] /\ reader[r].step = "look"
        BY <2>3 DEF Summary!LookUp
      <3>2. v \in ReaderRow /\ v.step = "query" /\ v.since = reader[r].since /\ v.gen = reader[r].gen
        BY <1>2, <1>3 DEF ReaderRow
      <3> HIDE DEF v
      <3> QED
        BY <1>2, <3>1, <3>2 DEF RowInv
    <2>4. CASE Summary!LookUp(r) /\ cached[reader[r].gen] # Nothing
      <3> DEFINE v == [reader[r] EXCEPT !.step = "use", !.summary = cached[reader[r].gen], !.gen = 0]
      <3>1. reader' = [reader EXCEPT ![r] = v] /\ reader[r].step = "look"
        BY <2>4 DEF Summary!LookUp
      <3>2. cached[reader[r].gen] \in Nat /\ base[reader[r].gen] <= cached[reader[r].gen]
        BY <1>2, <2>4 DEF Fresh, CacheInv
      <3>3. /\ v \in ReaderRow /\ v.step = "use" /\ v.since = reader[r].since /\ v.gen = 0
            /\ v.summary = cached[reader[r].gen]
        BY <1>2, <1>3, <3>2 DEF ReaderRow
      <3> HIDE DEF v
      <3>4. v.since <= v.summary
        BY <1>2, <3>1, <3>2, <3>3 DEF RowInv
      <3>5. v.since <= answered /\ v.gen <= generation
        BY <1>2, <1>3, <3>3
      <3>6. RowInv(v, base)
        BY <3>3, <3>4, <3>5 DEF RowInv
      <3> QED
        BY <3>1, <3>6
    <2>5. CASE Summary!Query(r)
      <3> DEFINE v == [reader[r] EXCEPT !.step = "store", !.summary = changes]
      <3>1. reader' = [reader EXCEPT ![r] = v] /\ reader[r].step = "query"
        BY <2>5 DEF Summary!Query
      <3>2. /\ v \in ReaderRow /\ v.step = "store" /\ v.since = reader[r].since
            /\ v.gen = reader[r].gen /\ v.summary = changes
        BY <1>2, <1>3 DEF ReaderRow
      <3> HIDE DEF v
      <3>3. reader[r].since <= base[reader[r].gen]
        BY <1>2, <3>1 DEF RowInv
      <3>4. /\ v.since <= answered /\ v.gen <= generation
            /\ v.since <= base[v.gen] /\ base[v.gen] <= v.summary
        BY <1>2, <1>3, <3>2, <3>3
      <3>5. RowInv(v, base)
        BY <3>2, <3>4 DEF RowInv
      <3> QED
        BY <3>1, <3>5
    <2>6. CASE Summary!IncomeUnread(r)
      <3> DEFINE v == [reader[r] EXCEPT !.step = "use", !.summary = 0, !.since = 0]
      <3>1. reader' = [reader EXCEPT ![r] = v]
        BY <2>6 DEF Summary!IncomeUnread
      <3>2. /\ v \in ReaderRow /\ v.step = "use" /\ v.since = 0
            /\ v.gen = reader[r].gen /\ v.summary = 0
        BY <1>2, <1>3 DEF ReaderRow
      <3> HIDE DEF v
      <3>3. v.since <= answered /\ v.gen <= generation /\ v.since <= v.summary
        BY <1>2, <1>3, <3>2
      <3>4. RowInv(v, base)
        BY <3>2, <3>3 DEF RowInv
      <3> QED
        BY <3>1, <3>4
    <2> QED
      BY <2>1, <2>2, <2>3, <2>4, <2>5, <2>6
  <1> QED
    BY <1>1, <1>3, <1>4, ReaderMoves

\* What is kept under the generation read before the query includes what it stands for.
LEMMA StoreKeepsFresh ==
  ASSUME NEW base \in [Nat -> Nat], Fresh(base), NEW r \in Readers, Summary!StoreSummary(r)
  PROVE  Fresh(base)'
  <1> DEFINE v == [reader[r] EXCEPT !.step = "use", !.gen = 0]
  <1>1. /\ reader[r].step = "store"
        /\ cached' = [cached EXCEPT ![reader[r].gen] = reader[r].summary]
        /\ reader' = [reader EXCEPT ![r] = v]
        /\ UNCHANGED <<changes, generation, report, writer, answered>>
    BY DEF Summary!StoreSummary, Summary!tables, Summary!history
  <1>2. /\ RowInv(reader[r], base) /\ reader[r] \in ReaderRow
        /\ reader[r].since \in Nat /\ reader[r].gen \in Nat /\ reader[r].summary \in Nat
        /\ reader[r].gen <= generation /\ reader[r].gen \in 0 .. MaxChanges
        /\ base[reader[r].gen] \in Nat
        /\ reader[r].since <= base[reader[r].gen] /\ base[reader[r].gen] <= reader[r].summary
    BY <1>1, RowOf DEF RowInv
  <1>3. /\ v \in ReaderRow /\ v.step = "use" /\ v.gen = 0 /\ v.since = reader[r].since
        /\ v.summary = reader[r].summary
    BY <1>2 DEF ReaderRow
  <1> HIDE DEF v
  <1>4. RowInv(v, base)
    BY <1>2, <1>3 DEF RowInv, Fresh, CountsInv
  <1>5. CacheInv(base)'
    BY <1>1, <1>2 DEF Fresh, CacheInv
  <1>6. ReadersInv(base)'
    BY <1>1, <1>4 DEF Fresh, ReadersInv, RowInv
  <1>7. CountsInv' /\ WritersInv'
    BY <1>1 DEF Fresh, CountsInv, WritersInv, Busy
  <1> QED
    BY <1>5, <1>6, <1>7 DEF Fresh

LEMMA FreshNext ==
  ASSUME FreshInv, Summary!Next
  PROVE  FreshInv'
  <1>1. CASE raced'
    BY <1>1 DEF FreshInv
  <1>2. CASE ~raced'
    <2>1. ~raced
      <3>1. CASE \E w \in Writers : Summary!SetGeneration(w)
        BY <1>2, <3>1 DEF Summary!SetGeneration
      <3>2. CASE ~\E w \in Writers : Summary!SetGeneration(w)
        <4>1. raced' = raced
          BY ZenonT(60), <3>2 DEF Summary!Next, Summary!Change, Summary!GetGeneration, Summary!InvalidateFails,
            Summary!ChangeSilently, Summary!Lapse, Summary!CreatePeriod, Summary!ClosePeriod,
            Summary!Expire, Summary!AskSummary, Summary!ReadGeneration, Summary!LookUp,
            Summary!Query, Summary!StoreSummary, Summary!AnswerSummary, Summary!ReadFails,
            Summary!AskReport, Summary!FindPeriod, Summary!FindAgain, Summary!InsertPeriod,
            Summary!FindWinner, Summary!FindReport, Summary!SaveReport, Summary!ReportRefused,
            Summary!AskTax, Summary!IncomeUnread, Summary!SaveTax, Summary!Begin, Summary!history
        <4> QED
          BY <1>2, <4>1
      <3> QED
        BY <3>1, <3>2
    <2>2. PICK base \in [Nat -> Nat] : Fresh(base)
      BY <2>1 DEF FreshInv
    <2>3. ASSUME NEW w \in Writers, Summary!SetGeneration(w)
          PROVE  FreshInv'
      <3>1. generation \in Nat
        BY <2>2 DEF Fresh, CountsInv
      <3> QED
        BY <1>2, <2>2, <2>3, <3>1, SetGenerationKeeps DEF FreshInv
    <2>4. CASE Summary!Lapse
      BY <2>2, <2>4, LapseKeeps DEF FreshInv
    <2>5. CASE Summary!CreatePeriod \/ Summary!ClosePeriod
      <3>1. Fresh(base)'
        BY <2>2, <2>5 DEF Summary!CreatePeriod, Summary!ClosePeriod, Summary!cacheVars,
          Summary!requests, Summary!history, Fresh, CountsInv, WritersInv, Busy, CacheInv,
          ReadersInv, RowInv
      <3> QED
        BY <3>1 DEF FreshInv
    <2>6. CASE \/ \E w \in Writers : \/ Summary!Change(w) \/ Summary!GetGeneration(w)
                                     \/ Summary!InvalidateFails(w)
               \/ Summary!ChangeSilently
               \/ \E g \in Summary!Generations : Summary!Expire(g)
      <3>1. Fresh(base)'
        BY <2>2, <2>6, ChangeKeeps, GetGenerationKeeps, InvalidateFailsKeeps, ChangeSilentlyKeeps,
          ExpireKeeps
      <3> QED
        BY <3>1 DEF FreshInv
    <2>7. ASSUME NEW r \in Readers,
                 \/ Summary!AskSummary(r) \/ Summary!ReadGeneration(r) \/ Summary!LookUp(r)
                 \/ Summary!Query(r) \/ Summary!StoreSummary(r)
                 \/ Summary!AnswerSummary(r) \/ Summary!ReadFails(r)
                 \/ Summary!AskReport(r) \/ Summary!FindPeriod(r) \/ Summary!FindAgain(r)
                 \/ Summary!InsertPeriod(r) \/ Summary!FindWinner(r)
                 \/ Summary!FindReport(r) \/ Summary!SaveReport(r) \/ Summary!ReportRefused(r)
                 \/ Summary!AskTax(r) \/ Summary!IncomeUnread(r) \/ Summary!SaveTax(r)
          PROVE  FreshInv'
      <3>1. Fresh(base)'
        BY <2>2, <2>7, BeginKeepsFresh, AnswerKeepsFresh, PeriodKeepsFresh, SummaryKeepsFresh,
          StoreKeepsFresh
      <3> QED
        BY <3>1 DEF FreshInv
    <2> QED
      BY <2>3, <2>4, <2>5, <2>6, <2>7 DEF Summary!Next
  <1> QED
    BY <1>1, <1>2

\* Any number of changes and of requests that read: what a request uses includes every
\* change whose request had answered before it began, unless two changes raised the same
\* generation.
THEOREM AnswersStayFresh == Summary!Spec => []AnswersFresh
  <1>1. ASSUME FreshInv, UNCHANGED Summary!rvars
        PROVE  FreshInv'
    BY <1>1 DEF Summary!rvars, FreshInv, Fresh, CountsInv, WritersInv, Busy, CacheInv,
      ReadersInv, RowInv
  <1>2. ASSUME FreshInv
        PROVE  AnswersFresh
    <2> SUFFICES ASSUME ~raced, NEW r \in Readers, reader[r].step = "use"
                 PROVE  reader[r].summary >= reader[r].since
      BY DEF AnswersFresh, Summary!AnswersFresh
    <2>1. PICK base \in [Nat -> Nat] : Fresh(base)
      BY <1>2 DEF FreshInv
    <2>2. /\ RowInv(reader[r], base)
          /\ reader[r].since \in Nat /\ reader[r].summary \in Nat
      BY <2>1, RowOf
    <2> QED
      BY <2>2 DEF RowInv
  <1> QED
    BY <1>1, <1>2, FreshInit, FreshNext, PTL DEF Summary!Spec
-----------------------------------------------------------------------------
(***************************************************************************)
(* Quotes.  What a request holds of a row is what the row says, unless it  *)
(* was written over meanwhile.                                             *)
(***************************************************************************)
Names == Symbols \cup {Blank, Nil}
ValueRow == [symbol : Names, at : Int]
AssetRow == [value : ValueRow, currency : Names, symbol : Names, live : BOOLEAN]

RowGood(row) == row \in AssetRow /\ row.value # Market!Zero /\ row.value.at <= moment

\* A price of the symbol of the row, not older than the value it had.
QuoteGood(quote, row) ==
  quote \in ValueRow /\ quote.symbol = row.symbol /\ row.value.at <= quote.at /\ quote.at <= moment

HonestRow(a) ==
  a \notin crossed /\ asset[a] # Nil /\ Market!Quoted(asset[a]) =>
    /\ "currency" \notin dirty[a] => asset[a].currency = asset[a].value.symbol
    /\ "symbol" \notin dirty[a] => asset[a].symbol = asset[a].value.symbol

AssetsInv ==
  /\ moment \in Nat
  /\ DOMAIN asset = Assets /\ DOMAIN dirty = Assets
  /\ \A a \in Assets : (asset[a] # Nil => RowGood(asset[a])) /\ HonestRow(a)

RefreshInv(k) ==
  /\ {"op", "step", "quotes", "rows"} \subseteq DOMAIN calling[k]
  /\ DOMAIN calling[k].quotes \subseteq DOMAIN calling[k].rows
  /\ \A a \in DOMAIN calling[k].rows : calling[k].rows[a].symbol # Nil
  /\ \A a \in DOMAIN calling[k].quotes :
       \/ calling[k].step = "fetch" /\ calling[k].quotes[a] = Market!Zero
       \/ QuoteGood(calling[k].quotes[a], calling[k].rows[a])
  /\ \A a \in DOMAIN calling[k].rows \ crossed :
       calling[k].step = "fetch" \/ a \in DOMAIN calling[k].quotes =>
         /\ asset[a].symbol = calling[k].rows[a].symbol
         /\ asset[a].value = calling[k].rows[a].value

PatchInv(k) ==
  /\ calling[k].changes \in Changes
  /\ \A a \in DOMAIN calling[k].rows \ crossed : asset[a] = calling[k].rows[a]

CallInv(k) ==
  calling[k] # Nil =>
    /\ \A a \in DOMAIN calling[k].rows :
         a \in Assets /\ asset[a] # Nil /\ RowGood(calling[k].rows[a])
    /\ calling[k].op = "refresh" => RefreshInv(k)
    /\ calling[k].op = "patch" => PatchInv(k)

QuotesInv ==
  /\ AssetsInv
  /\ DOMAIN calling = Calls
  /\ \A k \in Calls : CallInv(k)

\* What a step may do to a row that was not written over.
Later(a) ==
  asset'[a] # Nil /\ a \notin crossed' /\ asset[a] # Nil =>
    /\ asset'[a].live => asset[a].live
    /\ Market!Quoted(asset[a]) /\ Market!Quoted(asset'[a]) => asset'[a].value.at >= asset[a].value.at

LEMMA RowsNotNil == Nil \notin AssetRow
  BY QuotesAssumption DEF AssetRow, ValueRow, Names

LEMMA QuotesInit ==
  ASSUME Market!Init
  PROVE  QuotesInv
  BY DEF Market!Init, QuotesInv, AssetsInv, HonestRow, CallInv

\* The rows stay, so nothing is earlier than it was.
LEMMA RowsStay ==
  ASSUME QuotesInv, UNCHANGED asset
  PROVE  \A a \in Assets : Later(a)
  <1> SUFFICES ASSUME NEW a \in Assets, asset[a] # Nil
               PROVE  asset[a].value.at >= asset[a].value.at
    BY DEF Later
  <1>1. asset[a].value.at \in Int
    BY DEF QuotesInv, AssetsInv, RowGood, AssetRow, ValueRow
  <1> QED
    BY <1>1

\* A request begins, moves on or is answered, and no row is written.
LEMMA CallMoves ==
  ASSUME QuotesInv, NEW k \in Calls, NEW v, calling' = [calling EXCEPT ![k] = v],
         UNCHANGED <<asset, moment, dirty, crossed>>,
         CallInv(k)'
  PROVE  QuotesInv' /\ \A a \in Assets : Later(a)
  <1>1. AssetsInv'
    BY DEF QuotesInv, AssetsInv, RowGood, HonestRow
  <1>2. DOMAIN calling' = Calls /\ \A j \in Calls \ {k} : calling'[j] = calling[j]
    BY DEF QuotesInv
  <1>3. \A j \in Calls \ {k} : CallInv(j)'
    BY <1>2 DEF QuotesInv, CallInv, RefreshInv, PatchInv, RowGood, QuoteGood
  <1> QED
    BY <1>1, <1>2, <1>3, RowsStay DEF QuotesInv

LEMMA AnsweredMoves ==
  ASSUME QuotesInv, NEW k \in Calls, Market!Answered(k),
         UNCHANGED <<asset, moment, dirty, crossed>>
  PROVE  QuotesInv' /\ \A a \in Assets : Later(a)
  <1>1. calling' = [calling EXCEPT ![k] = Nil]
    BY DEF Market!Answered
  <1>2. CallInv(k)'
    BY <1>1 DEF QuotesInv, CallInv
  <1> QED
    BY <1>1, <1>2, CallMoves

LEMMA AskRefreshKeeps ==
  ASSUME QuotesInv, NEW k \in Calls, Market!AskRefresh(k)
  PROVE  QuotesInv' /\ \A a \in Assets : Later(a)
  <1> DEFINE held == [a \in {b \in Market!Alive : asset[b].symbol # Nil} |-> asset[a]]
             v == [op |-> "refresh", step |-> "fetch", quotes |-> <<>>, rows |-> held]
  <1>1. calling' = [calling EXCEPT ![k] = v] /\ UNCHANGED <<asset, moment, dirty, crossed>>
    BY DEF Market!AskRefresh, Market!Arrive
  <1>2. \A a \in DOMAIN held :
          a \in Assets /\ asset[a] # Nil /\ held[a] = asset[a] /\ asset[a].symbol # Nil
    BY DEF Market!Alive
  <1>3. /\ DOMAIN v = {"op", "step", "quotes", "rows"} /\ v.op = "refresh" /\ v.step = "fetch"
        /\ DOMAIN v.quotes = {} /\ v.rows = held
    OBVIOUS
  <1> HIDE DEF v, held
  <1>4. calling'[k] = v
    BY <1>1 DEF QuotesInv
  <1>5. RefreshInv(k)'
    BY <1>1, <1>2, <1>3, <1>4 DEF RefreshInv
  <1>6. \A a \in DOMAIN held :
          held[a] \in AssetRow /\ held[a].value # Market!Zero /\ held[a].value.at <= moment
    BY <1>1, <1>2 DEF QuotesInv, AssetsInv, RowGood
  <1>7. CallInv(k)'
    BY <1>1, <1>2, <1>3, <1>4, <1>5, <1>6 DEF CallInv, RowGood
  <1> QED
    BY <1>1, <1>7, CallMoves

LEMMA AskOneKeeps ==
  ASSUME QuotesInv, NEW k \in Calls, NEW a \in Assets,
         Market!AskRemove(k, a) \/ \E c \in Changes : Market!AskPatch(k, a, c)
  PROVE  QuotesInv' /\ \A b \in Assets : Later(b)
  <1> DEFINE held == [b \in {a} |-> asset[b]]
  <1>1. /\ asset[a] # Nil /\ UNCHANGED <<asset, moment, dirty, crossed>>
        /\ RowGood(asset[a])
    BY DEF Market!AskRemove, Market!AskPatch, Market!Arrive, Market!Alive, QuotesInv, AssetsInv
  <1>2. PICK v : /\ calling' = [calling EXCEPT ![k] = v] /\ v.rows = held
                 /\ \/ v.op = "remove"
                    \/ v.op = "patch" /\ v.changes \in Changes
    <2>1. CASE Market!AskRemove(k, a)
      <3> DEFINE v == [op |-> "remove", rows |-> held]
      <3>1. calling' = [calling EXCEPT ![k] = v] /\ v.rows = held /\ v.op = "remove"
        BY <2>1 DEF Market!AskRemove, Market!Arrive
      <3> HIDE DEF v
      <3> QED
        BY <3>1
    <2>2. ASSUME NEW c \in Changes, Market!AskPatch(k, a, c)
          PROVE  \E v : /\ calling' = [calling EXCEPT ![k] = v] /\ v.rows = held
                        /\ v.op = "patch" /\ v.changes \in Changes
      <3> DEFINE v == [op |-> "patch", changes |-> c, rows |-> held]
      <3>1. /\ calling' = [calling EXCEPT ![k] = v] /\ v.rows = held
            /\ v.op = "patch" /\ v.changes \in Changes
        BY <2>2 DEF Market!AskPatch, Market!Arrive
      <3> HIDE DEF v
      <3> QED
        BY <3>1
    <2> QED
      BY <2>1, <2>2
  <1>3. DOMAIN held = {a} /\ held[a] = asset[a]
    OBVIOUS
  <1> HIDE DEF held
  <1>4. calling'[k] = v
    BY <1>2 DEF QuotesInv
  <1>5. CallInv(k)'
    BY <1>1, <1>2, <1>3, <1>4 DEF CallInv, PatchInv, RowGood
  <1> QED
    BY <1>1, <1>2, <1>5, CallMoves

LEMMA CallFacts ==
  ASSUME QuotesInv, NEW k \in Calls, Market!Open(k, "refresh")
  PROVE  /\ calling[k] # Nil /\ RefreshInv(k)
         /\ \A a \in DOMAIN calling[k].rows :
              a \in Assets /\ asset[a] # Nil /\ RowGood(calling[k].rows[a])
  BY DEF QuotesInv, CallInv, Market!Open

\* One more answer of the market, which is not older than the row it was asked for.
LEMMA FetchKeeps ==
  ASSUME QuotesInv, NEW k \in Calls, NEW a \in Assets, Market!Fetch(k, a)
  PROVE  QuotesInv' /\ \A b \in Assets : Later(b)
  <1>1. /\ Market!Open(k, "refresh") /\ calling[k].step = "fetch" /\ calling[k].op = "refresh"
        /\ a \in DOMAIN calling[k].rows
        /\ UNCHANGED <<asset, moment, dirty, crossed>>
    BY DEF Market!Fetch, Market!Open
  <1> DEFINE row == calling[k].rows[a]
  <1>2. PICK quote :
          /\ quote = Market!Zero \/ quote = Market!Priced(row.symbol, moment)
          /\ calling' = [calling EXCEPT ![k].quotes =
               [b \in DOMAIN calling[k].quotes \cup {a} |->
                  IF b = a THEN quote ELSE calling[k].quotes[b]]]
    BY DEF Market!Fetch
  <1>3. /\ calling[k] # Nil /\ RefreshInv(k) /\ RowGood(row)
        /\ \A b \in DOMAIN calling[k].rows :
             b \in Assets /\ asset[b] # Nil /\ RowGood(calling[k].rows[b])
    BY <1>1, CallFacts
  <1>4. quote = Market!Zero \/ QuoteGood(quote, row)
    <2>1. row.symbol \in Names /\ moment \in Int /\ row.value.at <= moment
      BY <1>3 DEF RowGood, AssetRow, QuotesInv, AssetsInv
    <2> QED
      BY <1>2, <2>1 DEF QuoteGood, ValueRow, Market!Priced
  <1> DEFINE quotes == [b \in DOMAIN calling[k].quotes \cup {a} |->
                          IF b = a THEN quote ELSE calling[k].quotes[b]]
             v == [calling[k] EXCEPT !.quotes = quotes]
  <1>5. calling' = [calling EXCEPT ![k] = v]
    BY <1>2
  <1>6. /\ v.op = "refresh" /\ v.step = "fetch" /\ v.rows = calling[k].rows /\ v.quotes = quotes
        /\ DOMAIN v = DOMAIN calling[k]
    BY <1>1, <1>3 DEF RefreshInv
  <1>7. /\ DOMAIN quotes = DOMAIN calling[k].quotes \cup {a} /\ quotes[a] = quote
        /\ \A b \in DOMAIN calling[k].quotes \ {a} : quotes[b] = calling[k].quotes[b]
    OBVIOUS
  <1> HIDE DEF v, quotes
  <1>8. calling'[k] = v
    BY <1>5 DEF QuotesInv
  <1>9. RefreshInv(k)'
    <2>1. \A b \in DOMAIN quotes : quotes[b] = Market!Zero \/ QuoteGood(quotes[b], calling[k].rows[b])
      BY <1>1, <1>3, <1>4, <1>7 DEF RefreshInv
    <2>2. ASSUME NEW b \in DOMAIN v.quotes
          PROVE  \/ v.step = "fetch" /\ v.quotes[b] = Market!Zero
                 \/ /\ v.quotes[b] \in ValueRow /\ v.quotes[b].symbol = v.rows[b].symbol
                    /\ v.rows[b].value.at <= v.quotes[b].at /\ v.quotes[b].at <= moment
      BY <1>6, <2>1 DEF QuoteGood
    <2>3. DOMAIN v.quotes \subseteq DOMAIN v.rows
      BY <1>1, <1>3, <1>6, <1>7 DEF RefreshInv
    <2> QED
      BY <1>1, <1>3, <1>6, <1>8, <2>2, <2>3 DEF RefreshInv, QuoteGood
  <1>10. CallInv(k)'
    BY <1>1, <1>3, <1>6, <1>8, <1>9 DEF CallInv, RowGood
  <1> QED
    BY <1>1, <1>5, <1>10, CallMoves

\* What is stored is what the market answered.
LEMMA FetchedAllKeeps ==
  ASSUME QuotesInv, NEW k \in Calls, Market!FetchedAll(k)
  PROVE  QuotesInv' /\ \A b \in Assets : Later(b)
  <1>1. /\ Market!Open(k, "refresh") /\ calling[k].step = "fetch" /\ calling[k].op = "refresh"
        /\ UNCHANGED <<asset, moment, dirty, crossed>>
    BY DEF Market!FetchedAll, Market!Open
  <1>2. CASE Market!Answered(k)
    BY <1>1, <1>2, AnsweredMoves
  <1> DEFINE good == Market!Successes(calling[k].quotes)
             quotes == [a \in good |-> calling[k].quotes[a]]
             v == [calling[k] EXCEPT !.step = "store", !.quotes = quotes]
  <1>3. CASE calling' = [calling EXCEPT ![k] = v]
    <2>1. /\ calling[k] # Nil /\ RefreshInv(k)
          /\ \A b \in DOMAIN calling[k].rows :
               b \in Assets /\ asset[b] # Nil /\ RowGood(calling[k].rows[b])
      BY <1>1, CallFacts
    <2>2. /\ v.op = "refresh" /\ v.step = "store" /\ v.rows = calling[k].rows /\ v.quotes = quotes
          /\ DOMAIN v = DOMAIN calling[k]
      BY <1>1, <2>1 DEF RefreshInv
    <2>3. /\ DOMAIN quotes \subseteq DOMAIN calling[k].quotes
          /\ \A b \in DOMAIN quotes : quotes[b] = calling[k].quotes[b] /\ quotes[b] # Market!Zero
      BY DEF Market!Successes
    <2> HIDE DEF v, quotes
    <2>4. calling'[k] = v
      BY <1>3 DEF QuotesInv
    <2>5. RefreshInv(k)'
      <3>1. ASSUME NEW b \in DOMAIN v.quotes
            PROVE  /\ v.quotes[b] \in ValueRow /\ v.quotes[b].symbol = v.rows[b].symbol
                   /\ v.rows[b].value.at <= v.quotes[b].at /\ v.quotes[b].at <= moment
        BY <2>1, <2>2, <2>3 DEF QuoteGood, RefreshInv
      <3>2. DOMAIN v.quotes \subseteq DOMAIN v.rows
        BY <2>1, <2>2, <2>3 DEF RefreshInv
      <3> QED
        BY <1>1, <2>1, <2>2, <2>4, <3>1, <3>2 DEF RefreshInv, QuoteGood
    <2>6. CallInv(k)'
      BY <1>1, <2>1, <2>2, <2>4, <2>5 DEF CallInv, RowGood
    <2> QED
      BY <1>1, <1>3, <2>6, CallMoves
  <1> QED
    BY <1>2, <1>3 DEF Market!FetchedAll, Market!Restrict

-----------------------------------------------------------------------------
\* A request writes row a: whoever holds it as it was makes it a crossed row.
LEMMA RowWritten ==
  ASSUME QuotesInv, NEW k \in Calls, NEW a \in Assets, NEW v,
         DOMAIN calling' = Calls, \A j \in Calls \ {k} : calling'[j] = calling[j],
         DOMAIN asset' = Assets, \A b \in Assets \ {a} : asset'[b] = asset[b],
         DOMAIN dirty' = Assets, \A b \in Assets \ {a} : dirty'[b] = dirty[b],
         moment' = moment,
         asset'[a] # Nil, RowGood(asset'[a]),
         crossed \subseteq crossed', crossed' \subseteq crossed \cup {a},
         \A j \in Calls \ {k} : calling[j] # Nil /\ a \in DOMAIN calling[j].rows =>
           /\ calling[j].op = "patch" => a \in crossed'
           /\ calling[j].op = "refresh" =>
                \/ a \in crossed'
                \/ asset'[a].symbol = asset[a].symbol /\ asset'[a].value = asset[a].value,
         HonestRow(a)', Later(a), CallInv(k)'
  PROVE  QuotesInv' /\ \A b \in Assets : Later(b)
  <1>1. AssetsInv'
    <2>1. RowGood(asset[a])'
      BY DEF RowGood
    <2>2. ASSUME NEW b \in Assets \ {a}
          PROVE  (asset[b] # Nil => RowGood(asset[b])') /\ HonestRow(b)'
      BY <2>2 DEF QuotesInv, AssetsInv, HonestRow, RowGood
    <2> QED
      BY <2>1, <2>2 DEF QuotesInv, AssetsInv
  <1>2. ASSUME NEW j \in Calls \ {k}
        PROVE  CallInv(j)'
    <2> SUFFICES ASSUME calling[j] # Nil
                 PROVE  CallInv(j)'
      BY DEF CallInv
    <2>1. \A b \in DOMAIN calling[j].rows :
            /\ b \in Assets /\ asset'[b] # Nil
            /\ calling[j].rows[b] \in AssetRow /\ calling[j].rows[b].value # Market!Zero
            /\ calling[j].rows[b].value.at <= moment
      BY DEF QuotesInv, CallInv, RowGood
    <2>2. CASE calling[j].op = "refresh"
      <3>1. RefreshInv(j)
        BY <2>2 DEF QuotesInv, CallInv
      <3>2. ASSUME NEW b \in DOMAIN calling[j].rows \ crossed',
                   calling[j].step = "fetch" \/ b \in DOMAIN calling[j].quotes
            PROVE  /\ asset'[b].symbol = calling[j].rows[b].symbol
                   /\ asset'[b].value = calling[j].rows[b].value
        BY <2>1, <2>2, <3>1, <3>2 DEF RefreshInv
      <3>3. RefreshInv(j)'
        BY <3>1, <3>2 DEF RefreshInv, QuoteGood
      <3> QED
        BY <2>1, <2>2, <3>3 DEF CallInv, RowGood
    <2>3. CASE calling[j].op = "patch"
      <3>1. PatchInv(j)
        BY <2>3 DEF QuotesInv, CallInv
      <3>2. PatchInv(j)'
        BY <2>1, <2>3, <3>1 DEF PatchInv
      <3> QED
        BY <2>1, <2>3, <3>2 DEF CallInv, RowGood
    <2>4. CASE calling[j].op \notin {"refresh", "patch"}
      BY <2>1, <2>4 DEF CallInv, RowGood
    <2> QED
      BY <2>2, <2>3, <2>4
  <1>3. ASSUME NEW b \in Assets \ {a}
        PROVE  Later(b)
    <2> SUFFICES ASSUME asset[b] # Nil
                 PROVE  asset[b].value.at >= asset[b].value.at
      BY DEF Later
    <2>1. asset[b].value.at \in Int
      BY DEF QuotesInv, AssetsInv, RowGood, AssetRow, ValueRow
    <2> QED
      BY <2>1
  <1> QED
    BY <1>1, <1>2, <1>3 DEF QuotesInv

LEMMA StoreQuoteKeeps ==
  ASSUME QuotesInv, NEW k \in Calls, NEW a \in Assets, Market!StoreQuote(k, a)
  PROVE  QuotesInv' /\ \A b \in Assets : Later(b)
  <1>1. /\ Market!Open(k, "refresh") /\ calling[k].op = "refresh" /\ calling[k].step = "store"
        /\ a \in DOMAIN calling[k].quotes
        /\ Market!Crosses(k, a, {"refresh", "patch"}) /\ moment' = moment
    BY DEF Market!StoreQuote, Market!Open
  <1>2. /\ calling[k] # Nil /\ RefreshInv(k)
        /\ \A b \in DOMAIN calling[k].rows :
             b \in Assets /\ asset[b] # Nil /\ RowGood(calling[k].rows[b])
    BY <1>1, CallFacts
  <1> DEFINE quote == calling[k].quotes[a]
             row == calling[k].rows[a]
             rest == [b \in DOMAIN calling[k].quotes \ {a} |-> calling[k].quotes[b]]
             v == [calling[k] EXCEPT !.quotes = rest]
             written == [asset[a] EXCEPT !.value = quote, !.currency = quote.symbol]
  <1>3. /\ a \in DOMAIN calling[k].rows /\ RowGood(row) /\ asset[a] # Nil
        /\ QuoteGood(quote, row) /\ row.symbol # Nil
        /\ a \notin crossed => asset[a].symbol = row.symbol /\ asset[a].value = row.value
    BY <1>1, <1>2 DEF RefreshInv
  <1>4. /\ quote \in ValueRow /\ quote # Market!Zero /\ quote.at <= moment /\ quote.at \in Int
        /\ quote.symbol = row.symbol /\ quote.symbol \in Names /\ row.value.at <= quote.at
    BY <1>3 DEF QuoteGood, ValueRow, Market!Zero
  <1>5. asset[a] \in AssetRow /\ RowGood(asset[a]) /\ HonestRow(a) /\ asset[a].value.at \in Int
    BY <1>3 DEF QuotesInv, AssetsInv, RowGood, AssetRow, ValueRow
  <1>6. /\ written \in AssetRow /\ written.value = quote /\ written.currency = quote.symbol
        /\ written.symbol = asset[a].symbol /\ written.live = asset[a].live
    BY <1>4, <1>5 DEF AssetRow
  <1>7. \/ /\ asset' = [asset EXCEPT ![a] = written]
           /\ dirty' = [dirty EXCEPT ![a] = {}]
        \/ asset' = asset /\ dirty' = dirty
    BY DEF Market!StoreQuote
  <1>8. calling' = [calling EXCEPT ![k] = Nil] \/ calling' = [calling EXCEPT ![k] = v]
    BY DEF Market!StoreQuote, Market!Answered, Market!Restrict
  <1>9. /\ v.op = "refresh" /\ v.step = "store" /\ v.rows = calling[k].rows /\ v.quotes = rest
        /\ DOMAIN v = DOMAIN calling[k]
    BY <1>1, <1>2 DEF RefreshInv
  <1>10. /\ DOMAIN rest = DOMAIN calling[k].quotes \ {a}
         /\ \A b \in DOMAIN rest : rest[b] = calling[k].quotes[b]
    OBVIOUS
  <1> HIDE DEF v, rest, written, quote, row
  <1>11. /\ crossed \subseteq crossed' /\ crossed' \subseteq crossed \cup {a}
         /\ \A j \in Calls \ {k} :
              calling[j] # Nil /\ calling[j].op \in {"refresh", "patch"} /\ a \in DOMAIN calling[j].rows
                => a \in crossed'
    BY <1>1, <1>3 DEF Market!Crosses, Market!Behind
  <1>12. /\ DOMAIN asset' = Assets /\ DOMAIN dirty' = Assets
         /\ \A b \in Assets \ {a} : asset'[b] = asset[b] /\ dirty'[b] = dirty[b]
         /\ \/ asset'[a] = written /\ dirty'[a] = {}
            \/ asset'[a] = asset[a] /\ dirty'[a] = dirty[a]
    BY <1>7 DEF QuotesInv, AssetsInv
  <1>13. /\ DOMAIN calling' = Calls /\ \A j \in Calls \ {k} : calling'[j] = calling[j]
         /\ calling'[k] = Nil \/ calling'[k] = v
    BY <1>8 DEF QuotesInv
  <1>14. asset'[a] # Nil /\ RowGood(asset'[a])
    BY <1>3, <1>4, <1>5, <1>6, <1>12, RowsNotNil DEF RowGood
  <1>15. HonestRow(a)'
    <2>1. CASE asset'[a] = written /\ dirty'[a] = {}
      BY <1>3, <1>4, <1>6, <1>11, <2>1 DEF HonestRow
    <2>2. CASE asset'[a] = asset[a] /\ dirty'[a] = dirty[a]
      BY <1>5, <1>11, <2>2 DEF HonestRow
    <2> QED
      BY <1>12, <2>1, <2>2
  <1>16. Later(a)
    <2>1. CASE asset'[a] = written
      <3> SUFFICES ASSUME a \notin crossed
                   PROVE  written.value.at >= asset[a].value.at
        BY <1>6, <1>11, <2>1 DEF Later
      <3> QED
        BY <1>3, <1>4, <1>5, <1>6
    <2>2. CASE asset'[a] = asset[a]
      BY <1>5, <2>2 DEF Later
    <2> QED
      BY <1>12, <2>1, <2>2
  <1>17. CallInv(k)'
    <2> SUFFICES ASSUME calling'[k] # Nil, calling'[k] = v
                 PROVE  CallInv(k)'
      BY <1>13 DEF CallInv
    <2>1. ASSUME NEW b \in DOMAIN calling[k].rows
          PROVE  /\ b \in Assets /\ asset'[b] # Nil
                 /\ calling[k].rows[b] \in AssetRow /\ calling[k].rows[b].value # Market!Zero
                 /\ calling[k].rows[b].value.at <= moment
      BY <1>2, <1>12, <1>14 DEF RowGood
    <2>2. ASSUME NEW b \in DOMAIN rest
          PROVE  /\ QuoteGood(rest[b], calling[k].rows[b])
                 /\ b \in DOMAIN calling[k].rows /\ b # a
      BY <1>1, <1>2, <1>10 DEF RefreshInv
    <2>3. ASSUME NEW b \in DOMAIN rest, b \notin crossed'
          PROVE  asset'[b].symbol = calling[k].rows[b].symbol /\ asset'[b].value = calling[k].rows[b].value
      <3>1. b # a /\ b \in DOMAIN calling[k].rows /\ b \in DOMAIN calling[k].quotes
        BY <1>10, <2>2
      <3> QED
        BY <1>2, <1>11, <1>12, <2>3, <3>1 DEF RefreshInv
    <2>4. RefreshInv(k)'
      BY <1>1, <1>2, <1>9, <2>2, <2>3 DEF RefreshInv, QuoteGood
    <2> QED
      BY <1>1, <1>9, <2>1, <2>4 DEF CallInv, RowGood
  <1> QED
    BY <1>1, <1>11, <1>12, <1>13, <1>14, <1>15, <1>16, <1>17, RowWritten

\* A PATCH writes the row as it was loaded, with the fields of the request.
LEMMA SavePatchKeeps ==
  ASSUME QuotesInv, NEW k \in Calls, Market!SavePatch(k)
  PROVE  QuotesInv' /\ \A b \in Assets : Later(b)
  <1>1. PICK a \in DOMAIN calling[k].rows :
          /\ asset' = [asset EXCEPT ![a] = Market!Merged(calling[k].rows[a], calling[k].changes)]
          /\ dirty' = [dirty EXCEPT ![a] = dirty[a] \cup Market!Fields(calling[k].changes)]
          /\ Market!Crosses(k, a, {"refresh", "patch"})
    BY DEF Market!SavePatch
  <1>2. /\ calling[k] # Nil /\ calling[k].op = "patch" /\ moment' = moment
        /\ calling' = [calling EXCEPT ![k] = Nil]
    BY DEF Market!SavePatch, Market!Open, Market!Answered
  <1> DEFINE row == calling[k].rows[a]
             c == calling[k].changes
             written == Market!Merged(row, c)
  <1>3. /\ a \in Assets /\ asset[a] # Nil /\ RowGood(row) /\ c \in Changes
        /\ a \notin crossed => asset[a] = row
    BY <1>2 DEF QuotesInv, CallInv, PatchInv
  <1>4. c.symbol \in Names
    BY <1>3, QuotesAssumption DEF Names
  <1>5. row \in AssetRow /\ row.value # Market!Zero /\ row.value.at <= moment /\ row.value.at \in Int
    BY <1>3 DEF RowGood, AssetRow, ValueRow
  <1>6. Market!Typed \in ValueRow /\ Market!Typed # Market!Zero /\ Market!Typed.at <= moment
        /\ Market!Typed.symbol = Nil
    BY DEF Market!Typed, Market!Zero, ValueRow, Names, QuotesInv, AssetsInv
  <1>7. /\ written \in AssetRow
        /\ written.value = IF c.value THEN Market!Typed ELSE row.value
        /\ written.currency = IF c.currency THEN Nil ELSE row.currency
        /\ written.symbol = IF c.symbol # Nil THEN c.symbol ELSE row.symbol
        /\ written.live = row.live
    BY ZenonT(60), <1>4, <1>5, <1>6 DEF Market!Merged, AssetRow, Names
  <1>8. /\ c.currency => "currency" \in Market!Fields(c)
        /\ c.symbol # Nil => "symbol" \in Market!Fields(c)
    BY DEF Market!Fields
  <1> HIDE DEF written, row, c
  <1>9. /\ crossed \subseteq crossed' /\ crossed' \subseteq crossed \cup {a}
        /\ \A j \in Calls \ {k} :
             calling[j] # Nil /\ calling[j].op \in {"refresh", "patch"} /\ a \in DOMAIN calling[j].rows
               => a \in crossed'
    BY <1>1, <1>3 DEF Market!Crosses, Market!Behind
  <1>10. /\ DOMAIN asset' = Assets /\ DOMAIN dirty' = Assets
         /\ \A b \in Assets \ {a} : asset'[b] = asset[b] /\ dirty'[b] = dirty[b]
         /\ asset'[a] = written /\ dirty'[a] = dirty[a] \cup Market!Fields(c)
    BY <1>1, <1>3 DEF QuotesInv, AssetsInv, written, row, c
  <1>11. /\ DOMAIN calling' = Calls /\ \A j \in Calls \ {k} : calling'[j] = calling[j]
         /\ CallInv(k)'
    BY <1>2 DEF QuotesInv, CallInv
  <1>12. asset'[a] # Nil /\ RowGood(asset'[a])
    BY <1>5, <1>6, <1>7, <1>10, RowsNotNil DEF RowGood
  <1>13. HonestRow(a)'
    <2> SUFFICES ASSUME a \notin crossed, ~c.value, asset[a].value.symbol # Nil
                 PROVE  /\ "currency" \notin dirty'[a] => written.currency = written.value.symbol
                        /\ "symbol" \notin dirty'[a] => written.symbol = written.value.symbol
      BY <1>3, <1>6, <1>7, <1>9, <1>10 DEF HonestRow, Market!Quoted
    <2>1. /\ "currency" \notin dirty[a] => row.currency = row.value.symbol
          /\ "symbol" \notin dirty[a] => row.symbol = row.value.symbol
      BY <1>3 DEF QuotesInv, AssetsInv, HonestRow, Market!Quoted
    <2> QED
      BY <1>7, <1>8, <1>10, <2>1
  <1>14. Later(a)
    <2> SUFFICES ASSUME a \notin crossed, ~c.value
                 PROVE  written.value.at >= asset[a].value.at
      BY <1>3, <1>6, <1>7, <1>9, <1>10 DEF Later, Market!Quoted
    <2> QED
      BY <1>3, <1>5, <1>7
  <1> QED
    BY <1>2, <1>3, <1>9, <1>10, <1>11, <1>12, <1>13, <1>14, RowWritten

LEMMA SaveRemoveKeeps ==
  ASSUME QuotesInv, NEW k \in Calls, Market!SaveRemove(k)
  PROVE  QuotesInv' /\ \A b \in Assets : Later(b)
  <1>1. PICK a \in DOMAIN calling[k].rows :
          /\ asset' = [asset EXCEPT ![a].live = FALSE]
          /\ Market!Crosses(k, a, {"patch"})
    BY DEF Market!SaveRemove
  <1>2. /\ calling[k] # Nil /\ UNCHANGED <<moment, dirty>>
        /\ calling' = [calling EXCEPT ![k] = Nil]
    BY DEF Market!SaveRemove, Market!Open, Market!Answered
  <1>3. a \in Assets /\ asset[a] # Nil
    BY <1>2 DEF QuotesInv, CallInv
  <1>4. asset[a] \in AssetRow /\ RowGood(asset[a]) /\ HonestRow(a) /\ asset[a].value.at \in Int
    BY <1>3 DEF QuotesInv, AssetsInv, RowGood, AssetRow, ValueRow
  <1> DEFINE written == [asset[a] EXCEPT !.live = FALSE]
  <1>5. /\ written \in AssetRow /\ written.value = asset[a].value /\ written.live = FALSE
        /\ written.currency = asset[a].currency /\ written.symbol = asset[a].symbol
    BY <1>4 DEF AssetRow
  <1>6. /\ DOMAIN asset' = Assets /\ DOMAIN dirty' = Assets
        /\ \A b \in Assets \ {a} : asset'[b] = asset[b] /\ dirty'[b] = dirty[b]
        /\ asset'[a] = written /\ dirty'[a] = dirty[a]
    BY <1>1, <1>2, <1>3 DEF QuotesInv, AssetsInv
  <1> HIDE DEF written
  <1>7. /\ crossed \subseteq crossed' /\ crossed' \subseteq crossed \cup {a}
        /\ \A j \in Calls \ {k} :
             calling[j] # Nil /\ calling[j].op \in {"patch"} /\ a \in DOMAIN calling[j].rows
               => a \in crossed'
    BY <1>1, <1>3 DEF Market!Crosses, Market!Behind
  <1>8. /\ DOMAIN calling' = Calls /\ \A j \in Calls \ {k} : calling'[j] = calling[j]
        /\ CallInv(k)'
    BY <1>2 DEF QuotesInv, CallInv
  <1>9. asset'[a] # Nil /\ RowGood(asset'[a])
    BY <1>4, <1>5, <1>6, RowsNotNil DEF RowGood
  <1>10. HonestRow(a)'
    BY <1>3, <1>4, <1>5, <1>6, <1>7 DEF HonestRow, Market!Quoted
  <1>11. Later(a)
    BY <1>4, <1>5, <1>6 DEF Later, Market!Quoted
  <1> QED
    BY <1>2, <1>3, <1>5, <1>6, <1>7, <1>8, <1>9, <1>10, <1>11, RowWritten

\* A new row is held by nobody.
LEMMA CreateKeeps ==
  ASSUME QuotesInv, NEW a \in Assets, NEW s \in Names, Market!Create(a, s)
  PROVE  QuotesInv' /\ \A b \in Assets : Later(b)
  <1>1. /\ asset[a] = Nil /\ asset' = [asset EXCEPT ![a] = Market!Asset(s)]
        /\ UNCHANGED <<moment, calling, dirty, crossed>>
    BY DEF Market!Create
  <1>2. /\ Market!Asset(s) \in AssetRow
        /\ Market!Asset(s).value = Market!Typed
        /\ Market!Typed # Market!Zero /\ Market!Typed.at <= moment /\ Market!Typed.symbol = Nil
    BY DEF Market!Asset, Market!Typed, Market!Zero, AssetRow, ValueRow, Names, QuotesInv, AssetsInv
  <1>3. /\ DOMAIN asset' = Assets /\ \A b \in Assets \ {a} : asset'[b] = asset[b]
        /\ asset'[a] = Market!Asset(s)
    BY <1>1 DEF QuotesInv, AssetsInv
  <1>4. AssetsInv'
    <2>1. RowGood(asset[a])' /\ HonestRow(a)'
      BY <1>1, <1>2, <1>3 DEF RowGood, HonestRow, Market!Quoted
    <2>2. ASSUME NEW b \in Assets \ {a}
          PROVE  (asset[b] # Nil => RowGood(asset[b])') /\ HonestRow(b)'
      BY <1>1, <1>3 DEF QuotesInv, AssetsInv, HonestRow, RowGood
    <2> QED
      BY <1>1, <1>3, <2>1, <2>2 DEF QuotesInv, AssetsInv
  <1>5. ASSUME NEW k \in Calls
        PROVE  CallInv(k)'
    <2> SUFFICES ASSUME calling[k] # Nil
                 PROVE  CallInv(k)'
      BY <1>1 DEF CallInv
    <2>1. \A b \in DOMAIN calling[k].rows :
            /\ b # a /\ b \in Assets /\ asset'[b] = asset[b] /\ asset[b] # Nil
            /\ RowGood(calling[k].rows[b])
      BY <1>1, <1>3 DEF QuotesInv, CallInv
    <2>2. calling[k].op = "refresh" => RefreshInv(k)'
      BY <1>1, <2>1 DEF QuotesInv, CallInv, RefreshInv, QuoteGood
    <2>3. calling[k].op = "patch" => PatchInv(k)'
      BY <1>1, <2>1 DEF QuotesInv, CallInv, PatchInv
    <2> QED
      BY <1>1, <2>1, <2>2, <2>3 DEF CallInv, RowGood
  <1>6. ASSUME NEW b \in Assets
        PROVE  Later(b)
    <2> SUFFICES ASSUME asset[b] # Nil, asset'[b] = asset[b]
                 PROVE  asset[b].value.at >= asset[b].value.at
      BY <1>1, <1>3 DEF Later
    <2>1. asset[b].value.at \in Int
      BY DEF QuotesInv, AssetsInv, RowGood, AssetRow, ValueRow
    <2> QED
      BY <2>1
  <1> QED
    BY <1>1, <1>4, <1>5, <1>6 DEF QuotesInv

LEMMA PricesMoveKeeps ==
  ASSUME QuotesInv, Market!PricesMove
  PROVE  QuotesInv' /\ \A b \in Assets : Later(b)
  <1>1. moment \in Nat /\ moment' = moment + 1 /\ UNCHANGED <<asset, calling, dirty, crossed>>
    BY DEF Market!PricesMove, QuotesInv, AssetsInv
  <1>2. \A row : RowGood(row) => row \in AssetRow /\ row.value # Market!Zero /\ row.value.at <= moment'
    BY <1>1 DEF RowGood, AssetRow, ValueRow
  <1>3. \A quote, row : QuoteGood(quote, row) =>
          /\ quote \in ValueRow /\ quote.symbol = row.symbol
          /\ row.value.at <= quote.at /\ quote.at <= moment'
    BY <1>1 DEF QuoteGood, ValueRow
  <1>4. AssetsInv'
    BY <1>1, <1>2 DEF QuotesInv, AssetsInv, HonestRow, RowGood
  <1>5. ASSUME NEW k \in Calls
        PROVE  CallInv(k)'
    <2>1. RefreshInv(k) => RefreshInv(k)'
      BY <1>1, <1>3 DEF RefreshInv, QuoteGood
    <2>2. PatchInv(k) => PatchInv(k)'
      BY <1>1 DEF PatchInv
    <2> QED
      BY <1>1, <1>2, <2>1, <2>2 DEF QuotesInv, CallInv, RowGood
  <1> QED
    BY <1>1, <1>4, <1>5, RowsStay DEF QuotesInv

LEMMA QuotesNext ==
  ASSUME QuotesInv, Market!Next
  PROVE  QuotesInv' /\ \A a \in Assets : Later(a)
  <1>1. ASSUME NEW a \in Assets, NEW s \in Symbols \cup {Blank, Nil}, Market!Create(a, s)
        PROVE  QuotesInv' /\ \A b \in Assets : Later(b)
    BY <1>1, CreateKeeps DEF Names
  <1>2. ASSUME NEW k \in Calls,
               \/ Market!AskRefresh(k) \/ Market!FetchedAll(k)
               \/ Market!SavePatch(k) \/ Market!SaveRemove(k)
        PROVE  QuotesInv' /\ \A b \in Assets : Later(b)
    BY <1>2, AskRefreshKeeps, FetchedAllKeeps, SavePatchKeeps, SaveRemoveKeeps
  <1>3. ASSUME NEW k \in Calls, NEW a \in Assets,
               \/ Market!Fetch(k, a) \/ Market!StoreQuote(k, a) \/ Market!AskRemove(k, a)
               \/ \E c \in Changes : Market!AskPatch(k, a, c)
        PROVE  QuotesInv' /\ \A b \in Assets : Later(b)
    BY <1>3, FetchKeeps, StoreQuoteKeeps, AskOneKeeps
  <1> QED
    BY <1>1, <1>2, <1>3, PricesMoveKeeps DEF Market!Next

\* Any number of assets and of requests: no failed quote is kept; and unless a row was
\* written over from an older one, its currency and symbol are those of its quote until a
\* PATCH names them, its quotes are of later and later moments, and what is deleted stays so.
THEOREM QuotesStayHonest == Market!Spec => QuotesHonest
  <1>1. ASSUME QuotesInv, [Market!Next]_(Market!quoteVars)
        PROVE  QuotesInv' /\ \A a \in Assets : Later(a)
    <2>1. CASE UNCHANGED Market!quoteVars
      <3>1. UNCHANGED <<asset, moment, calling, dirty, crossed>>
        BY <2>1 DEF Market!quoteVars
      <3>2. QuotesInv'
        BY <1>1, <3>1 DEF QuotesInv, AssetsInv, HonestRow, RowGood, CallInv, RefreshInv,
          PatchInv, QuoteGood
      <3> QED
        BY <1>1, <3>1, <3>2, RowsStay
    <2> QED
      BY <1>1, <2>1, QuotesNext
  <1>2. ASSUME QuotesInv', \A a \in Assets : Later(a)
        PROVE  \A a \in Assets : asset'[a] # Nil =>
                 /\ asset'[a].value # Market!Zero
                 /\ a \notin crossed' /\ Market!Quoted(asset'[a]) =>
                      /\ "currency" \notin dirty'[a] => asset'[a].currency = asset'[a].value.symbol
                      /\ "symbol" \notin dirty'[a] => asset'[a].symbol = asset'[a].value.symbol
                 /\ a \notin crossed' /\ asset[a] # Nil =>
                      /\ asset'[a].live => asset[a].live
                      /\ Market!Quoted(asset[a]) /\ Market!Quoted(asset'[a]) =>
                           asset'[a].value.at >= asset[a].value.at
    BY <1>2 DEF QuotesInv, AssetsInv, RowGood, HonestRow, Later
  <1> QED
    BY <1>1, <1>2, QuotesInit, PTL DEF Market!Spec, QuotesHonest, Market!QuotesHonest
-----------------------------------------------------------------------------
(***************************************************************************)
(* Inbox.  As long as no two requests of a user work on a notification at  *)
(* once, what a request holds of it is its row, and what a screen shows of *)
(* it is its row or what an event on its way says.                         *)
(***************************************************************************)
AskRow ==
  [op : {"create", "readAll", "update", "read", "remove"}, user : Owners,
   id : Notes \cup {Nil}, at : {"insert", "update", "save", "emit"},
   row : [user : Owners, read : BOOLEAN, active : BOOLEAN] \cup {Nil}]

Heard == [user : Owners, read : BOOLEAN]

\* How far a request can be, by what it is for.
Shape(q) ==
  /\ q.op = "readAll" => q.at \in {"update", "emit"}
  /\ q.op = "create" => q.at = "insert" \/ (q.at = "emit" /\ q.id \in Notes)
  /\ q.op \in {"update", "remove"} => q.at = "save" /\ q.id \in Notes
  /\ q.op = "read" => q.at \in {"save", "emit"} /\ q.id \in Notes
  /\ q.at = "insert" => q.id = Nil
  /\ q.at = "save" => q.row \in Notices!Row

\* Request q holds the row of n.
Holds(q, n) == q # Nil /\ q.op # "readAll" /\ q.at # "insert" /\ q.id = n

\* Request q has marked all notifications of the user as read, and not said so yet.
AllRead(q, user) == q # Nil /\ q.op = "readAll" /\ q.at = "emit" /\ q.user = user

\* Request q has marked n as read, and not said so yet.
Telling(q, n, user) ==
  /\ q # Nil /\ q.at = "emit" /\ q.op \in {"read", "readAll"}
  /\ Notices!Works(q, n) /\ q.user = user

InboxTypes ==
  /\ asked \in [Slots -> AskRow \cup {Nil}]
  /\ \A r \in Slots : asked[r] # Nil => Shape(asked[r])
  /\ DOMAIN note \subseteq Notes
  /\ \A n \in DOMAIN note : note[n] \in Notices!Row
  /\ room \in [Screens -> Owners \cup {Nil}]
  /\ DOMAIN told = Screens
  /\ \A s \in Screens : \A n \in DOMAIN told[s] :
       n \in Notes /\ told[s][n] \in Heard /\ told[s][n].user = room[s]

HeldInv(q, n) ==
  Holds(q, n) =>
    /\ n \in DOMAIN note /\ note[n].user = q.user
    /\ q.at = "save" => q.row = note[n]
    /\ q.op = "create" => note[n].read = FALSE
    /\ q.op = "read" /\ q.at = "emit" => note[n].read = TRUE

ShownRow(s, n) ==
  n \in DOMAIN told[s] =>
    /\ room[s] = note[n].user
    /\ \/ told[s][n].read = note[n].read
       \/ note[n].read = TRUE /\ \E r \in Slots : Telling(asked[r], n, note[n].user)

NoteInv(n) ==
  n \notin overlapped =>
    /\ ~Notices!Overlap(asked, n)
    /\ \A r \in Slots : HeldInv(asked[r], n)
    /\ n \in seen => n \in DOMAIN note \cup gone
    /\ \A s \in Screens : n \in DOMAIN told[s] => n \in DOMAIN note \cup gone
    /\ n \in DOMAIN note =>
         /\ n \notin gone
         /\ n \in seen => note[n].read = TRUE
         /\ \A r \in Slots : AllRead(asked[r], note[n].user) => note[n].read = TRUE
         /\ \A s \in Screens : ShownRow(s, n)

InboxInv == InboxTypes /\ \A n \in Notes : NoteInv(n)

LEMMA AskNotNil == Nil \notin AskRow
  BY InboxAssumption DEF AskRow

LEMMA InboxInit ==
  ASSUME Notices!Init
  PROVE  InboxInv
  <1>1. InboxTypes
    BY DEF Notices!Init, InboxTypes
  <1>2. ASSUME NEW n \in Notes
        PROVE  NoteInv(n)
    BY DEF Notices!Init, NoteInv, HeldInv, Holds, Notices!Overlap, Notices!Works
  <1> QED
    BY <1>1, <1>2 DEF InboxInv

\* A request moves on: those of the others stay, and no two of a user are at n now.
LEMMA StepFacts ==
  ASSUME InboxInv, NEW r \in Slots, NEW q, Notices!Step(r, q), NEW n \in Notes, n \notin overlapped'
  PROVE  /\ n \notin overlapped
         /\ ~Notices!Overlap(asked, n)
         /\ ~Notices!Overlap(asked', n)
         /\ asked'[r] = q /\ \A t \in Slots \ {r} : asked'[t] = asked[t]
  <1>1. asked' = [asked EXCEPT ![r] = q]
    BY DEF Notices!Step, Notices!Go
  <1>2. overlapped' = overlapped \cup {m \in Notes : Notices!Overlap(asked', m)}
    BY DEF Notices!Step, Notices!Go
  <1> QED
    BY <1>1, <1>2 DEF InboxInv, InboxTypes, NoteInv

LEMMA StepTypes ==
  ASSUME InboxInv, NEW r \in Slots, NEW q \in AskRow \cup {Nil}, Notices!Step(r, q),
         q # Nil => Shape(q)
  PROVE  /\ asked' \in [Slots -> AskRow \cup {Nil}]
         /\ \A t \in Slots : asked'[t] # Nil => Shape(asked'[t])
  <1>1. asked' = [asked EXCEPT ![r] = q]
    BY DEF Notices!Step, Notices!Go
  <1> QED
    BY <1>1 DEF InboxInv, InboxTypes

\* The request of slot r is alone at n: no other of its user is.
LEMMA AloneAt ==
  ASSUME NEW requests, NEW n, ~Notices!Overlap(requests, n),
         NEW r \in Slots, Notices!Works(requests[r], n),
         NEW t \in Slots \ {r}, requests[t].user = requests[r].user
  PROVE  ~Notices!Works(requests[t], n)
  BY DEF Notices!Overlap

\* What happens to another row does not disturb n.
LEMMA Elsewhere ==
  ASSUME InboxInv, NEW r \in Slots, NEW q, Notices!Step(r, q), NEW n \in Notes,
         n \in DOMAIN note' <=> n \in DOMAIN note,
         n \in DOMAIN note => note'[n] = note[n],
         n \in seen' <=> n \in seen, n \in gone' <=> n \in gone,
         UNCHANGED <<room, told>>,
         HeldInv(q, n),
         n \in DOMAIN note /\ AllRead(q, note[n].user) => note[n].read = TRUE,
         asked[r] # Nil => asked[r].at # "emit"
  PROVE  NoteInv(n)'
  <1> SUFFICES ASSUME n \notin overlapped'
               PROVE  NoteInv(n)'
    BY DEF NoteInv
  <1>1. /\ n \notin overlapped /\ ~Notices!Overlap(asked', n)
        /\ asked'[r] = q /\ \A t \in Slots \ {r} : asked'[t] = asked[t]
    BY StepFacts
  <1>2. NoteInv(n)
    BY DEF InboxInv
  <1>3. \A t \in Slots : HeldInv(asked[t], n)'
    BY <1>1, <1>2 DEF NoteInv, HeldInv
  <1>4. ASSUME n \in DOMAIN note
        PROVE  /\ \A t \in Slots : AllRead(asked'[t], note[n].user) => note[n].read = TRUE
               /\ \A s \in Screens : ShownRow(s, n)'
    <2>1. \A t \in Slots : AllRead(asked'[t], note[n].user) => note[n].read = TRUE
      BY <1>1, <1>2, <1>4 DEF NoteInv
    <2>2. ASSUME NEW t \in Slots, Telling(asked[t], n, note[n].user)
          PROVE  Telling(asked'[t], n, note[n].user)
      BY <1>1, <2>2 DEF Telling
    <2>3. \A s \in Screens : ShownRow(s, n)'
      BY <1>1, <1>2, <1>4, <2>2 DEF NoteInv, ShownRow
    <2> QED
      BY <2>1, <2>3
  <1>5. n \in DOMAIN note' => \A t \in Slots : AllRead(asked'[t], note'[n].user) => note'[n].read = TRUE
    BY <1>4
  <1> QED
    BY <1>1, <1>2, <1>3, <1>4, <1>5 DEF NoteInv

-----------------------------------------------------------------------------
LEMMA AskKeeps ==
  ASSUME InboxInv, NEW r \in Slots, NEW q \in AskRow, Notices!Ask(r, q), Shape(q),
         q.at # "emit",
         \A n \in Notes : Holds(q, n) => n \in DOMAIN note /\ note[n].user = q.user /\ q.row = note[n],
         q.op = "create" => q.at = "insert"
  PROVE  InboxInv'
  <1>1. /\ asked[r] = Nil /\ Notices!Step(r, q) /\ UNCHANGED <<note, room, told, seen, gone>>
    BY DEF Notices!Ask
  <1>2. InboxTypes'
    BY <1>1, StepTypes DEF InboxInv, InboxTypes
  <1>3. ASSUME NEW n \in Notes
        PROVE  NoteInv(n)'
    <2>1. HeldInv(q, n)
      BY DEF HeldInv, Holds
    <2>2. \A u : ~AllRead(q, u)
      BY DEF AllRead
    <2> QED
      BY <1>1, <2>1, <2>2, Elsewhere
  <1> QED
    BY <1>2, <1>3 DEF InboxInv

LEMMA AskSteps ==
  ASSUME InboxInv, NEW r \in Slots, NEW u \in Owners,
         \/ Notices!AskCreate(r, u) \/ Notices!AskReadAll(r, u)
         \/ \E op \in {"update", "read", "remove"}, n \in Notes : Notices!AskOne(r, op, u, n)
  PROVE  InboxInv'
  <1>1. CASE Notices!AskCreate(r, u)
    <2> DEFINE q == [op |-> "create", user |-> u, id |-> Nil, at |-> "insert", row |-> Nil]
    <2>1. Notices!Ask(r, q)
      BY <1>1 DEF Notices!AskCreate
    <2>2. q \in AskRow /\ Shape(q) /\ q.at = "insert" /\ q.op = "create"
      BY DEF AskRow, Shape
    <2> HIDE DEF q
    <2>3. \A n \in Notes : ~Holds(q, n)
      BY <2>2 DEF Holds
    <2> QED
      BY <2>1, <2>2, <2>3, AskKeeps
  <1>2. CASE Notices!AskReadAll(r, u)
    <2> DEFINE q == [op |-> "readAll", user |-> u, id |-> Nil, at |-> "update", row |-> Nil]
    <2>1. Notices!Ask(r, q)
      BY <1>2 DEF Notices!AskReadAll
    <2>2. q \in AskRow /\ Shape(q) /\ q.at = "update" /\ q.op = "readAll"
      BY DEF AskRow, Shape
    <2> HIDE DEF q
    <2>3. \A n \in Notes : ~Holds(q, n)
      BY <2>2 DEF Holds
    <2> QED
      BY <2>1, <2>2, <2>3, AskKeeps
  <1>3. ASSUME NEW op \in {"update", "read", "remove"}, NEW n \in Notes, Notices!AskOne(r, op, u, n)
        PROVE  InboxInv'
    <2> DEFINE q == [op |-> op, user |-> u, id |-> n, at |-> "save", row |-> note[n]]
    <2>1. Notices!Ask(r, q) /\ n \in DOMAIN note /\ note[n].user = u
      BY <1>3 DEF Notices!AskOne
    <2>2. q \in AskRow /\ Shape(q)
      BY <2>1 DEF AskRow, Shape, InboxInv, InboxTypes, Notices!Row
    <2>3. q.at = "save" /\ q.op # "create" /\ q.id = n /\ q.user = u /\ q.row = note[n]
      OBVIOUS
    <2> HIDE DEF q
    <2>4. \A m \in Notes : Holds(q, m) => m \in DOMAIN note /\ note[m].user = q.user /\ q.row = note[m]
      BY <2>1, <2>3 DEF Holds
    <2> QED
      BY <2>1, <2>2, <2>3, <2>4, AskKeeps
  <1> QED
    BY <1>1, <1>2, <1>3

\* A row is inserted under an id that nobody has used.
LEMMA InsertKeeps ==
  ASSUME InboxInv, NEW r \in Slots, NEW m \in Notes, Notices!Insert(r, m)
  PROVE  InboxInv'
  <1> DEFINE q == [asked[r] EXCEPT !.id = m, !.at = "emit"]
             row == [user |-> asked[r].user, read |-> FALSE, active |-> TRUE]
  <1>1. /\ asked[r] # Nil /\ asked[r].op = "create" /\ asked[r].at = "insert"
        /\ m \notin DOMAIN note /\ m \notin gone
        /\ note' = [n \in DOMAIN note \cup {m} |-> IF n = m THEN row ELSE note[n]]
        /\ Notices!Step(r, q) /\ UNCHANGED <<room, told, seen, gone>>
    BY DEF Notices!Insert, Notices!AtStep, Notices!With
  <1>2. asked[r] \in AskRow
    BY <1>1 DEF InboxInv, InboxTypes
  <1>3. /\ q \in AskRow /\ q.op = "create" /\ q.at = "emit" /\ q.id = m /\ q.user = asked[r].user
        /\ row \in Notices!Row /\ row.user = asked[r].user /\ row.read = FALSE
    BY <1>1, <1>2 DEF AskRow, Notices!Row
  <1> HIDE DEF q, row
  <1>4. InboxTypes'
    <2>1. Shape(q)
      BY <1>3 DEF Shape
    <2>2. /\ asked' \in [Slots -> AskRow \cup {Nil}]
          /\ \A t \in Slots : asked'[t] # Nil => Shape(asked'[t])
      BY <1>1, <1>3, <2>1, StepTypes
    <2> QED
      BY <1>1, <1>3, <2>2 DEF InboxInv, InboxTypes
  <1>5. ASSUME NEW n \in Notes \ {m}
        PROVE  NoteInv(n)'
    <2>1. HeldInv(q, n) /\ \A u : ~AllRead(q, u)
      BY <1>3, <1>5 DEF HeldInv, Holds, AllRead
    <2>2. n \in DOMAIN note' <=> n \in DOMAIN note
      BY <1>1
    <2>3. n \in DOMAIN note => note'[n] = note[n]
      BY <1>1
    <2> QED
      BY <1>1, <2>1, <2>2, <2>3, Elsewhere
  <1>6. NoteInv(m)'
    <2> SUFFICES ASSUME m \notin overlapped'
                 PROVE  NoteInv(m)'
      BY DEF NoteInv
    <2>1. /\ m \notin overlapped /\ ~Notices!Overlap(asked', m)
          /\ asked'[r] = q /\ \A t \in Slots \ {r} : asked'[t] = asked[t]
      BY <1>1, StepFacts
    <2>2. NoteInv(m) /\ m \in DOMAIN note' /\ note'[m] = row
      BY <1>1 DEF InboxInv
    <2>3. \A t \in Slots \ {r} : ~Holds(asked[t], m)
      BY <1>1, <2>1, <2>2 DEF NoteInv, HeldInv
    <2>4. \A t \in Slots : HeldInv(asked[t], m)'
      BY <1>3, <2>1, <2>2, <2>3 DEF HeldInv, Holds
    <2>5. m \notin seen /\ \A s \in Screens : m \notin DOMAIN told[s]
      BY <1>1, <2>1, <2>2 DEF NoteInv
    <2>6. \A t \in Slots : ~AllRead(asked'[t], asked[r].user)
      <3>1. Notices!Works(asked'[r], m) /\ asked'[r].user = asked[r].user
        BY <1>3, <2>1, AskNotNil DEF Notices!Works
      <3>2. \A t \in Slots \ {r} : AllRead(asked'[t], asked[r].user) =>
              Notices!Works(asked'[t], m) /\ asked'[t].user = asked'[r].user
        BY <3>1 DEF AllRead, Notices!Works
      <3>3. ~AllRead(asked'[r], asked[r].user)
        BY <1>3, <2>1 DEF AllRead
      <3> QED
        BY <2>1, <3>1, <3>2, <3>3, AloneAt
    <2>7. \A t \in Slots : ~AllRead(asked'[t], note'[m].user)
      BY <1>3, <2>2, <2>6
    <2> QED
      BY <1>1, <2>1, <2>2, <2>4, <2>5, <2>7 DEF NoteInv, ShownRow
  <1> QED
    BY <1>4, <1>5, <1>6 DEF InboxInv

\* The request in slot r has the row of n to itself.
LEMMA Sole ==
  ASSUME InboxInv, NEW r \in Slots, NEW n \in Notes, n \notin overlapped,
         Holds(asked[r], n)
  PROVE  /\ n \in DOMAIN note /\ note[n].user = asked[r].user
         /\ \A t \in Slots \ {r} : /\ ~Holds(asked[t], n)
                                   /\ ~AllRead(asked[t], note[n].user)
                                   /\ ~Telling(asked[t], n, note[n].user)
  <1>1. NoteInv(n)
    BY DEF InboxInv
  <1>2. n \in DOMAIN note /\ note[n].user = asked[r].user
    BY <1>1 DEF NoteInv, HeldInv
  <1>3. Notices!Works(asked[r], n) /\ ~Notices!Overlap(asked, n)
    BY <1>1 DEF Holds, Notices!Works, NoteInv
  <1>4. ASSUME NEW t \in Slots \ {r}
        PROVE  /\ ~Holds(asked[t], n)
               /\ ~AllRead(asked[t], note[n].user)
               /\ ~Telling(asked[t], n, note[n].user)
    <2>1. asked[t].user = asked[r].user => ~Notices!Works(asked[t], n)
      BY <1>3, AloneAt
    <2>2. Holds(asked[t], n) => Notices!Works(asked[t], n) /\ asked[t].user = note[n].user
      BY <1>1 DEF Holds, Notices!Works, NoteInv, HeldInv
    <2> QED
      BY <1>2, <2>1, <2>2 DEF AllRead, Telling, Notices!Works
  <1> QED
    BY <1>2, <1>4

\* PATCH saves the row it loaded with another field.
LEMMA SaveUpdateKeeps ==
  ASSUME InboxInv, NEW r \in Slots, NEW on \in BOOLEAN, Notices!SaveUpdate(r, on)
  PROVE  InboxInv'
  <1> DEFINE m == asked[r].id
             row == [asked[r].row EXCEPT !.active = on]
  <1>1. /\ asked[r] # Nil /\ asked[r].op = "update" /\ asked[r].at = "save"
        /\ note' = [n \in DOMAIN note \cup {m} |-> IF n = m THEN row ELSE note[n]]
        /\ Notices!Step(r, Nil) /\ UNCHANGED <<room, told, seen, gone>>
    BY DEF Notices!SaveUpdate, Notices!AtStep, Notices!With
  <1>2. m \in Notes /\ Holds(asked[r], m) /\ asked[r].row \in Notices!Row
    BY <1>1 DEF InboxInv, InboxTypes, Shape, Holds
  <1>3. row \in Notices!Row /\ row.user = asked[r].row.user /\ row.read = asked[r].row.read
    BY <1>2 DEF Notices!Row
  <1> HIDE DEF m, row
  <1>4. InboxTypes'
    <2>1. /\ asked' \in [Slots -> AskRow \cup {Nil}]
          /\ \A t \in Slots : asked'[t] # Nil => Shape(asked'[t])
      BY <1>1, StepTypes
    <2> QED
      BY <1>1, <1>2, <1>3, <2>1 DEF InboxInv, InboxTypes
  <1>5. ASSUME NEW n \in Notes, n # m
        PROVE  NoteInv(n)'
    <2>1. HeldInv(Nil, n) /\ \A u : ~AllRead(Nil, u)
      BY DEF HeldInv, Holds, AllRead
    <2>2. (n \in DOMAIN note' <=> n \in DOMAIN note) /\ (n \in DOMAIN note => note'[n] = note[n])
      BY <1>1, <1>5
    <2> QED
      BY <1>1, <2>1, <2>2, Elsewhere
  <1>6. ASSUME NEW n \in Notes, n = m
        PROVE  NoteInv(n)'
    <2> SUFFICES ASSUME n \notin overlapped'
                 PROVE  NoteInv(n)'
      BY DEF NoteInv
    <2>1. /\ n \notin overlapped /\ ~Notices!Overlap(asked', n)
          /\ asked'[r] = Nil /\ \A t \in Slots \ {r} : asked'[t] = asked[t]
      BY <1>1, StepFacts
    <2>2. NoteInv(n) /\ n \in DOMAIN note' /\ note'[n] = row /\ note[n] = asked[r].row
      BY <1>1, <1>2, <1>6, <2>1 DEF InboxInv, NoteInv, HeldInv
    <2>3. /\ n \in DOMAIN note /\ note[n].user = asked[r].user
          /\ \A t \in Slots \ {r} : /\ ~Holds(asked[t], n)
                                    /\ ~AllRead(asked[t], note[n].user)
                                    /\ ~Telling(asked[t], n, note[n].user)
      BY <1>2, <1>6, <2>1, Sole
    <2>4. row.user = note[n].user /\ row.read = note[n].read
      BY <1>3, <2>2
    <2>5. \A t \in Slots : ~Holds(asked'[t], n) /\ ~AllRead(asked'[t], note[n].user)
      BY <2>1, <2>3 DEF Holds, AllRead
    <2>6. \A t \in Slots : HeldInv(asked[t], n)'
      BY <2>5 DEF HeldInv, Holds
    <2>7. \A t \in Slots : ~Telling(asked[t], n, note[n].user)
      BY <1>1, <2>3 DEF Telling
    <2>8. \A s \in Screens : n \in DOMAIN told[s] =>
            room[s] = note[n].user /\ told[s][n].read = note[n].read
      BY <2>1, <2>2, <2>3, <2>7 DEF NoteInv, ShownRow
    <2>9. \A s \in Screens : ShownRow(s, n)'
      BY <1>1, <2>2, <2>4, <2>8 DEF ShownRow
    <2>10. \A t \in Slots : ~AllRead(asked'[t], note'[n].user)
      BY <2>2, <2>4, <2>5
    <2> QED
      BY <1>1, <2>1, <2>2, <2>3, <2>4, <2>6, <2>9, <2>10 DEF NoteInv
  <1> QED
    BY <1>4, <1>5, <1>6 DEF InboxInv

\* markAsRead saves the row it loaded as read, and says so afterwards.
LEMMA SaveReadKeeps ==
  ASSUME InboxInv, NEW r \in Slots, Notices!SaveRead(r)
  PROVE  InboxInv'
  <1> DEFINE m == asked[r].id
             row == [asked[r].row EXCEPT !.read = TRUE]
             q == [asked[r] EXCEPT !.at = "emit"]
  <1>1. /\ asked[r] # Nil /\ asked[r].op = "read" /\ asked[r].at = "save"
        /\ note' = [n \in DOMAIN note \cup {m} |-> IF n = m THEN row ELSE note[n]]
        /\ seen' = seen \cup {m}
        /\ Notices!Step(r, q) /\ UNCHANGED <<room, told, gone>>
    BY DEF Notices!SaveRead, Notices!AtStep, Notices!With
  <1>2. /\ m \in Notes /\ Holds(asked[r], m) /\ asked[r].row \in Notices!Row
        /\ asked[r] \in AskRow /\ Shape(asked[r])
    BY <1>1 DEF InboxInv, InboxTypes, Shape, Holds
  <1>3. row \in Notices!Row /\ row.user = asked[r].row.user /\ row.read = TRUE
    BY <1>2 DEF Notices!Row
  <1>4. /\ q \in AskRow /\ q.op = "read" /\ q.at = "emit" /\ q.id = m /\ q.user = asked[r].user
    BY <1>1, <1>2 DEF AskRow
  <1> HIDE DEF m, row, q
  <1>5. InboxTypes'
    <2>1. Shape(q)
      BY <1>2, <1>4 DEF Shape
    <2>2. /\ asked' \in [Slots -> AskRow \cup {Nil}]
          /\ \A t \in Slots : asked'[t] # Nil => Shape(asked'[t])
      BY <1>1, <1>4, <2>1, StepTypes
    <2> QED
      BY <1>1, <1>2, <1>3, <2>2 DEF InboxInv, InboxTypes
  <1>6. ASSUME NEW n \in Notes, n # m
        PROVE  NoteInv(n)'
    <2>1. HeldInv(q, n) /\ \A u : ~AllRead(q, u)
      BY <1>4, <1>6 DEF HeldInv, Holds, AllRead
    <2>2. (n \in DOMAIN note' <=> n \in DOMAIN note) /\ (n \in DOMAIN note => note'[n] = note[n])
      BY <1>1, <1>6
    <2>3. n \in seen' <=> n \in seen
      BY <1>1, <1>6
    <2> QED
      BY <1>1, <2>1, <2>2, <2>3, Elsewhere
  <1>7. ASSUME NEW n \in Notes, n = m
        PROVE  NoteInv(n)'
    <2> SUFFICES ASSUME n \notin overlapped'
                 PROVE  NoteInv(n)'
      BY DEF NoteInv
    <2>1. /\ n \notin overlapped /\ ~Notices!Overlap(asked', n)
          /\ asked'[r] = q /\ \A t \in Slots \ {r} : asked'[t] = asked[t]
      BY <1>1, StepFacts
    <2>2. NoteInv(n) /\ n \in DOMAIN note' /\ note'[n] = row /\ note[n] = asked[r].row
      BY <1>1, <1>2, <1>7, <2>1 DEF InboxInv, NoteInv, HeldInv
    <2>3. /\ n \in DOMAIN note /\ note[n].user = asked[r].user
          /\ \A t \in Slots \ {r} : ~Holds(asked[t], n)
      BY <1>2, <1>7, <2>1, Sole
    <2>4. row.user = note[n].user /\ row.read = TRUE
      BY <1>3, <2>2
    <2>5. \A t \in Slots : HeldInv(asked[t], n)'
      BY <1>4, <2>1, <2>2, <2>3, <2>4 DEF HeldInv, Holds
    <2>6. Telling(asked'[r], n, note'[n].user)
      BY <1>4, <1>7, <2>1, <2>2, <2>3, <2>4, AskNotNil DEF Telling, Notices!Works
    <2>7. \A s \in Screens : ShownRow(s, n)'
      BY <1>1, <2>1, <2>2, <2>3, <2>4, <2>6 DEF NoteInv, ShownRow
    <2> QED
      BY <1>1, <2>1, <2>2, <2>3, <2>4, <2>5, <2>7 DEF NoteInv
  <1> QED
    BY <1>5, <1>6, <1>7 DEF InboxInv

LEMMA RemoveKeeps ==
  ASSUME InboxInv, NEW r \in Slots, Notices!Delete(r)
  PROVE  InboxInv'
  <1> DEFINE m == asked[r].id
  <1>1. /\ asked[r] # Nil /\ asked[r].op = "remove" /\ asked[r].at = "save"
        /\ note' = [n \in DOMAIN note \ {m} |-> note[n]]
        /\ gone' = gone \cup {m}
        /\ Notices!Step(r, Nil) /\ UNCHANGED <<room, told, seen>>
    BY DEF Notices!Delete, Notices!AtStep, Notices!Without
  <1>2. m \in Notes /\ Holds(asked[r], m)
    BY <1>1 DEF InboxInv, InboxTypes, Shape, Holds
  <1> HIDE DEF m
  <1>3. InboxTypes'
    <2>1. /\ asked' \in [Slots -> AskRow \cup {Nil}]
          /\ \A t \in Slots : asked'[t] # Nil => Shape(asked'[t])
      BY <1>1, StepTypes
    <2> QED
      BY <1>1, <2>1 DEF InboxInv, InboxTypes
  <1>4. ASSUME NEW n \in Notes, n # m
        PROVE  NoteInv(n)'
    <2>1. HeldInv(Nil, n) /\ \A u : ~AllRead(Nil, u)
      BY DEF HeldInv, Holds, AllRead
    <2>2. (n \in DOMAIN note' <=> n \in DOMAIN note) /\ (n \in DOMAIN note => note'[n] = note[n])
      BY <1>1, <1>4
    <2>3. n \in gone' <=> n \in gone
      BY <1>1, <1>4
    <2> QED
      BY <1>1, <2>1, <2>2, <2>3, Elsewhere
  <1>5. ASSUME NEW n \in Notes, n = m
        PROVE  NoteInv(n)'
    <2> SUFFICES ASSUME n \notin overlapped'
                 PROVE  NoteInv(n)'
      BY DEF NoteInv
    <2>1. /\ n \notin overlapped /\ ~Notices!Overlap(asked', n)
          /\ asked'[r] = Nil /\ \A t \in Slots \ {r} : asked'[t] = asked[t]
      BY <1>1, StepFacts
    <2>2. \A t \in Slots \ {r} : ~Holds(asked[t], n)
      BY <1>2, <1>5, <2>1, Sole
    <2>3. \A t \in Slots : HeldInv(asked[t], n)'
      BY <2>1, <2>2 DEF HeldInv, Holds
    <2> QED
      BY <1>1, <1>5, <2>1, <2>3 DEF NoteInv
  <1> QED
    BY <1>3, <1>4, <1>5 DEF InboxInv

\* All notifications of the user are marked as read, and the sockets are told so afterwards.
LEMMA UpdateAllKeeps ==
  ASSUME InboxInv, NEW r \in Slots, Notices!UpdateAll(r)
  PROVE  InboxInv'
  <1> DEFINE u == asked[r].user
             q == [asked[r] EXCEPT !.at = "emit"]
  <1>1. /\ asked[r] # Nil /\ asked[r].op = "readAll" /\ asked[r].at = "update"
        /\ DOMAIN note' = DOMAIN note
        /\ \A n \in DOMAIN note : note'[n] = IF note[n].user = u THEN [note[n] EXCEPT !.read = TRUE]
                                             ELSE note[n]
        /\ \A n : n \in seen' <=> n \in seen \/ (n \in DOMAIN note /\ note[n].user = u)
        /\ Notices!Step(r, q) /\ UNCHANGED <<room, told, gone>>
    BY DEF Notices!UpdateAll, Notices!AtStep, Notices!OfUser
  <1>2. asked[r] \in AskRow
    BY <1>1 DEF InboxInv, InboxTypes
  <1>3. q \in AskRow /\ q.op = "readAll" /\ q.at = "emit" /\ q.user = u
    BY <1>1, <1>2 DEF AskRow
  <1>4. \A n \in DOMAIN note :
          /\ note'[n] \in Notices!Row /\ note'[n].user = note[n].user
          /\ note[n].user = u => note'[n].read = TRUE
    BY ZenonT(60), <1>1 DEF InboxInv, InboxTypes, Notices!Row
  <1> HIDE DEF u, q
  <1>5. InboxTypes'
    <2>1. Shape(q)
      BY <1>3 DEF Shape
    <2>2. /\ asked' \in [Slots -> AskRow \cup {Nil}]
          /\ \A t \in Slots : asked'[t] # Nil => Shape(asked'[t])
      BY <1>1, <1>3, <2>1, StepTypes
    <2> QED
      BY <1>1, <1>4, <2>2 DEF InboxInv, InboxTypes
  <1>6. ASSUME NEW n \in Notes, ~(n \in DOMAIN note /\ note[n].user = u)
        PROVE  NoteInv(n)'
    <2>1. HeldInv(q, n)
      BY <1>3 DEF HeldInv, Holds
    <2>2. n \in DOMAIN note /\ AllRead(q, note[n].user) => note[n].read = TRUE
      BY <1>3, <1>6 DEF AllRead
    <2>3. (n \in DOMAIN note' <=> n \in DOMAIN note) /\ (n \in DOMAIN note => note'[n] = note[n])
      BY <1>1, <1>6
    <2>4. n \in seen' <=> n \in seen
      BY <1>1, <1>6
    <2> QED
      BY <1>1, <2>1, <2>2, <2>3, <2>4, Elsewhere
  <1>7. ASSUME NEW n \in Notes, n \in DOMAIN note, note[n].user = u
        PROVE  NoteInv(n)'
    <2> SUFFICES ASSUME n \notin overlapped'
                 PROVE  NoteInv(n)'
      BY DEF NoteInv
    <2>1. /\ n \notin overlapped /\ ~Notices!Overlap(asked', n) /\ ~Notices!Overlap(asked, n)
          /\ asked'[r] = q /\ \A t \in Slots \ {r} : asked'[t] = asked[t]
      BY <1>1, StepFacts
    <2>2. NoteInv(n)
      BY DEF InboxInv
    <2>3. ASSUME NEW t \in Slots
          PROVE  ~Holds(asked'[t], n)
      <3>1. CASE t = r
        BY <1>3, <2>1, <3>1 DEF Holds
      <3>2. CASE t # r
        <4>1. Holds(asked[t], n) => Notices!Works(asked[t], n) /\ asked[t].user = note[n].user
          BY <2>1, <2>2 DEF Holds, Notices!Works, NoteInv, HeldInv
        <4>2. Notices!Works(asked[r], n) /\ asked[r].user = note[n].user
          BY <1>1, <1>7 DEF Notices!Works, u
        <4> QED
          BY <2>1, <3>2, <4>1, <4>2, AloneAt
      <3> QED
        BY <3>1, <3>2
    <2>4. \A t \in Slots : HeldInv(asked[t], n)'
      BY <2>3 DEF HeldInv, Holds
    <2>5. Telling(asked'[r], n, note'[n].user)
      BY <1>3, <1>4, <1>7, <2>1, AskNotNil DEF Telling, Notices!Works
    <2>6. \A s \in Screens : ShownRow(s, n)'
      BY <1>1, <1>4, <1>7, <2>1, <2>2, <2>5 DEF NoteInv, ShownRow
    <2> QED
      BY <1>1, <1>4, <1>7, <2>1, <2>2, <2>4, <2>6 DEF NoteInv
  <1> QED
    BY <1>5, <1>6, <1>7 DEF InboxInv

\* A screen shows notifications of the user only.
ShowsOf(heard, user) ==
  \A n \in DOMAIN heard : n \in Notes /\ heard[n] \in Heard /\ heard[n].user = user

\* What the event of request q makes of what a screen of its user shows of n.
Leaves(q, heard, n, now) ==
  /\ n \in Notes /\ now \in Heard /\ now.user = q.user
  /\ n \in DOMAIN heard \/ (q.op = "create" /\ q.id = n)
  /\ q.op = "create" /\ q.id = n => now.read = FALSE
  /\ (q.op = "read" /\ q.id = n) \/ q.op = "readAll" => now.read = TRUE
  /\ q.op # "readAll" /\ q.id # n => now = heard[n]

LEMMA HearsFacts ==
  ASSUME NEW q \in AskRow, Shape(q), q.at = "emit", NEW heard, ShowsOf(heard, q.user),
         NEW n \in DOMAIN Notices!Hears(heard, q),
         NEW now, now = Notices!Hears(heard, q)[n]
  PROVE  Leaves(q, heard, n, now)
  <1>1. q.op \in {"create", "read", "readAll"}
    BY DEF AskRow, Shape
  <1>2. q \in AskRow /\ q.user \in Owners
    BY DEF AskRow
  <1>3. CASE q.op = "create"
    <2>1. Notices!Hears(heard, q) =
            [z \in DOMAIN heard \cup {q.id} |-> IF z = q.id THEN [user |-> q.user, read |-> FALSE] ELSE heard[z]]
      BY <1>3 DEF Notices!Hears, Notices!With
    <2>2. q.id \in Notes
      BY <1>3 DEF Shape
    <2> QED
      BY <1>2, <1>3, <2>1, <2>2 DEF Heard, Leaves, ShowsOf
  <1>4. CASE q.op = "read" /\ q.id \in DOMAIN heard
    <2>1. Notices!Hears(heard, q) = [heard EXCEPT ![q.id].read = TRUE]
      BY <1>4 DEF Notices!Hears
    <2> QED
      BY ZenonT(60), <1>2, <1>4, <2>1 DEF Heard, Leaves, ShowsOf
  <1>5. CASE q.op = "read" /\ q.id \notin DOMAIN heard
    <2>1. Notices!Hears(heard, q) = heard
      BY <1>5 DEF Notices!Hears
    <2> QED
      BY <1>2, <1>5, <2>1 DEF Leaves, ShowsOf
  <1>6. CASE q.op = "readAll"
    <2>1. Notices!Hears(heard, q) = [m \in DOMAIN heard |-> [heard[m] EXCEPT !.read = TRUE]]
      BY <1>6 DEF Notices!Hears
    <2>2. n \in DOMAIN heard /\ now = [heard[n] EXCEPT !.read = TRUE]
      BY <2>1
    <2>3. n \in Notes /\ heard[n] \in Heard /\ heard[n].user = q.user
      BY <2>2 DEF ShowsOf
    <2>4. now \in Heard /\ now.user = q.user /\ now.read = TRUE
      BY <2>2, <2>3 DEF Heard, Leaves, ShowsOf
    <2> QED
      BY <1>6, <2>2, <2>3, <2>4 DEF Leaves
  <1> QED
    BY <1>1, <1>3, <1>4, <1>5, <1>6

\* The screens of the user are told what the request did, and it is over.
LEMMA EmitKeeps ==
  ASSUME InboxInv, NEW r \in Slots, Notices!Emit(r)
  PROVE  InboxInv'
  <1> DEFINE v == asked[r].user
  <1>1. /\ asked[r] # Nil /\ asked[r].at = "emit"
        /\ DOMAIN told' = Screens
        /\ \A s \in Screens : told'[s] = IF room[s] = v THEN Notices!Hears(told[s], asked[r]) ELSE told[s]
        /\ Notices!Step(r, Nil) /\ UNCHANGED <<note, room, seen, gone>>
    BY DEF Notices!Emit, Notices!InRoom
  <1>2. asked[r] \in AskRow /\ Shape(asked[r])
    BY <1>1 DEF InboxInv, InboxTypes
  <1> HIDE DEF v
  <1>3. ASSUME NEW s \in Screens, NEW n \in DOMAIN told'[s]
        PROVE  /\ n \in Notes /\ told'[s][n] \in Heard /\ told'[s][n].user = room[s]
               /\ \/ room[s] # v /\ n \in DOMAIN told[s] /\ told'[s][n] = told[s][n]
                  \/ /\ room[s] = v
                     /\ n \in DOMAIN told[s] \/ (asked[r].op = "create" /\ asked[r].id = n)
                     /\ asked[r].op = "create" /\ asked[r].id = n => told'[s][n].read = FALSE
                     /\ (asked[r].op = "read" /\ asked[r].id = n) \/ asked[r].op = "readAll" =>
                          told'[s][n].read = TRUE
                     /\ asked[r].op # "readAll" /\ asked[r].id # n => told'[s][n] = told[s][n]
    <2>1. \A m \in DOMAIN told[s] : m \in Notes /\ told[s][m] \in Heard /\ told[s][m].user = room[s]
      BY DEF InboxInv, InboxTypes
    <2>2. CASE room[s] # v
      BY <1>1, <1>3, <2>1, <2>2
    <2>3. CASE room[s] = v
      <3>1. told'[s] = Notices!Hears(told[s], asked[r]) /\ room[s] = asked[r].user
        BY <1>1, <2>3 DEF v
      <3>2. n \in DOMAIN Notices!Hears(told[s], asked[r])
        BY <1>3, <3>1
      <3>3. \A m \in DOMAIN told[s] : m \in Notes /\ told[s][m] \in Heard /\ told[s][m].user = asked[r].user
        BY <2>1, <3>1
      <3>4. /\ n \in Notes /\ told'[s][n] \in Heard /\ told'[s][n].user = asked[r].user
            /\ n \in DOMAIN told[s] \/ (asked[r].op = "create" /\ asked[r].id = n)
            /\ asked[r].op = "create" /\ asked[r].id = n => told'[s][n].read = FALSE
            /\ (asked[r].op = "read" /\ asked[r].id = n) \/ asked[r].op = "readAll" => told'[s][n].read = TRUE
            /\ asked[r].op # "readAll" /\ asked[r].id # n => told'[s][n] = told[s][n]
        <4>1. Leaves(asked[r], told[s], n, told'[s][n])
          BY <1>1, <1>2, <3>1, <3>2, <3>3, HearsFacts DEF ShowsOf
        <4> QED
          BY <4>1 DEF Leaves
      <3> QED
        BY <2>3, <3>1, <3>4
    <2> QED
      BY <2>2, <2>3
  <1>4. InboxTypes'
    <2>1. /\ asked' \in [Slots -> AskRow \cup {Nil}]
          /\ \A t \in Slots : asked'[t] # Nil => Shape(asked'[t])
      BY <1>1, StepTypes
    <2>2. \A s \in Screens : \A n \in DOMAIN told'[s] :
            n \in Notes /\ told'[s][n] \in Heard /\ told'[s][n].user = room[s]
      BY <1>3
    <2> QED
      BY <1>1, <2>1, <2>2 DEF InboxInv, InboxTypes
  <1>5. ASSUME NEW n \in Notes
        PROVE  NoteInv(n)'
    <2> SUFFICES ASSUME n \notin overlapped'
                 PROVE  NoteInv(n)'
      BY DEF NoteInv
    <2>1. /\ n \notin overlapped /\ ~Notices!Overlap(asked', n)
          /\ asked'[r] = Nil /\ \A t \in Slots \ {r} : asked'[t] = asked[t]
      BY <1>1, StepFacts
    <2>2. NoteInv(n)
      BY DEF InboxInv
    <2>3. \A t \in Slots : HeldInv(asked[t], n)'
      BY <1>1, <2>1, <2>2 DEF NoteInv, HeldInv, Holds
    <2>4. asked[r].op # "readAll" /\ asked[r].id = n =>
            /\ n \in DOMAIN note /\ note[n].user = v
            /\ asked[r].op = "create" => note[n].read = FALSE
            /\ asked[r].op = "read" => note[n].read = TRUE
      BY <1>1, <2>1, <2>2 DEF NoteInv, HeldInv, Holds, v
    <2>5. \A s \in Screens : n \in DOMAIN told'[s] => n \in DOMAIN note \cup gone
      <3> SUFFICES ASSUME NEW s \in Screens, n \in DOMAIN told'[s]
                   PROVE  n \in DOMAIN note \cup gone
        OBVIOUS
      <3>1. n \in DOMAIN told[s] \/ (asked[r].op = "create" /\ asked[r].id = n)
        BY <1>3
      <3> QED
        BY <2>1, <2>2, <2>4, <3>1 DEF NoteInv
    <2>6. n \in DOMAIN note => \A t \in Slots : AllRead(asked'[t], note[n].user) => note[n].read = TRUE
      BY <2>1, <2>2 DEF NoteInv, AllRead
    <2>7. ASSUME NEW s \in Screens, n \in DOMAIN note, n \in DOMAIN told'[s]
          PROVE  /\ room[s] = note[n].user
                 /\ \/ told'[s][n].read = note[n].read
                    \/ note[n].read = TRUE /\ \E t \in Slots : Telling(asked'[t], n, note[n].user)
      <3>1. /\ n \in DOMAIN told[s] => ShownRow(s, n)
            /\ AllRead(asked[r], note[n].user) => note[n].read = TRUE
        BY <2>1, <2>2, <2>7 DEF NoteInv
      <3>2. asked[r].op \in {"create", "read", "readAll"}
        BY <1>1, <1>2 DEF AskRow, Shape
      <3>3. ASSUME n \in DOMAIN told[s], told'[s][n] = told[s][n],
                   room[s] # v \/ (asked[r].op # "readAll" /\ asked[r].id # n)
            PROVE  /\ room[s] = note[n].user
                   /\ \/ told'[s][n].read = note[n].read
                      \/ note[n].read = TRUE /\ \E t \in Slots : Telling(asked'[t], n, note[n].user)
        <4>1. ShownRow(s, n) /\ room[s] = note[n].user
          BY <3>1, <3>3 DEF ShownRow
        <4>2. ~Telling(asked[r], n, note[n].user)
          BY <3>3, <4>1 DEF Telling, Notices!Works, v
        <4>3. \A t \in Slots : Telling(asked[t], n, note[n].user) => Telling(asked'[t], n, note[n].user)
          BY <2>1, <4>2
        <4> QED
          BY <3>3, <4>1, <4>3 DEF ShownRow
      <3>4. CASE room[s] # v
        <4>1. n \in DOMAIN told[s] /\ told'[s][n] = told[s][n]
          BY <1>3, <2>7, <3>4
        <4> QED
          BY <3>3, <3>4, <4>1
      <3>5. CASE room[s] = v
        <4>1. /\ n \in DOMAIN told[s] \/ (asked[r].op = "create" /\ asked[r].id = n)
              /\ asked[r].op = "create" /\ asked[r].id = n => told'[s][n].read = FALSE
              /\ (asked[r].op = "read" /\ asked[r].id = n) \/ asked[r].op = "readAll" => told'[s][n].read = TRUE
              /\ asked[r].op # "readAll" /\ asked[r].id # n => told'[s][n] = told[s][n]
          BY <1>3, <2>7, <3>5
        <4>2. CASE asked[r].op = "readAll"
          <5>1. n \in DOMAIN told[s] /\ told'[s][n].read = TRUE
            BY <4>1, <4>2
          <5>2. room[s] = note[n].user
            BY <3>1, <5>1 DEF ShownRow
          <5>3. note[n].read = TRUE
            BY <1>1, <3>1, <3>5, <4>2, <5>2 DEF AllRead, v
          <5> QED
            BY <5>1, <5>2, <5>3
        <4>3. CASE asked[r].op # "readAll" /\ asked[r].id = n
          BY <2>4, <3>2, <3>5, <4>1, <4>3
        <4>4. CASE asked[r].op # "readAll" /\ asked[r].id # n
          BY <3>3, <4>1, <4>4
        <4> QED
          BY <4>2, <4>3, <4>4
      <3> QED
        BY <3>4, <3>5
    <2>8. n \in DOMAIN note => \A s \in Screens : ShownRow(s, n)'
      BY <1>1, <2>7 DEF ShownRow
    <2>9. \A s \in Screens : n \in DOMAIN told'[s] => n \in DOMAIN note' \cup gone'
      BY <1>1, <2>5
    <2>10. n \in DOMAIN note' => \A t \in Slots : AllRead(asked'[t], note'[n].user) => note'[n].read = TRUE
      BY <1>1, <2>6
    <2> QED
      BY <1>1, <2>1, <2>2, <2>3, <2>8, <2>9, <2>10 DEF NoteInv
  <1> QED
    BY <1>4, <1>5 DEF InboxInv

\* The screen of a socket outside of the rooms is empty.
LEMMA JoinKeeps ==
  ASSUME InboxInv, NEW s \in Screens, NEW u \in Owners, Notices!Join(s, u)
  PROVE  InboxInv'
  <1>1. /\ room[s] = Nil /\ room' = [room EXCEPT ![s] = u]
        /\ UNCHANGED <<note, asked, told, seen, gone, overlapped>>
    BY DEF Notices!Join
  <1>2. \A n : n \notin DOMAIN told[s]
    BY <1>1, InboxAssumption DEF InboxInv, InboxTypes, Heard
  <1>3. InboxTypes'
    BY <1>1, <1>2 DEF InboxInv, InboxTypes
  <1>4. ASSUME NEW n \in Notes
        PROVE  NoteInv(n)'
    <2>1. NoteInv(n)
      BY DEF InboxInv
    <2>2. ASSUME NEW t \in Screens, ShownRow(t, n)
          PROVE  ShownRow(t, n)'
      BY <1>1, <1>2, <2>2 DEF ShownRow, InboxInv, InboxTypes
    <2>3. \A t \in Slots : HeldInv(asked[t], n) => HeldInv(asked[t], n)'
      BY <1>1 DEF HeldInv
    <2> QED
      BY <1>1, <2>1, <2>2, <2>3 DEF NoteInv
  <1> QED
    BY <1>3, <1>4 DEF InboxInv

LEMMA LeaveKeeps ==
  ASSUME InboxInv, NEW s \in Screens, Notices!Leave(s)
  PROVE  InboxInv'
  <1>1. /\ room' = [room EXCEPT ![s] = Nil]
        /\ told' = [told EXCEPT ![s] = <<>>]
        /\ UNCHANGED <<note, asked, seen, gone, overlapped>>
    BY DEF Notices!Leave
  <1>2. /\ room \in [Screens -> Owners \cup {Nil}] /\ DOMAIN told = Screens
        /\ \A n : n \notin DOMAIN told'[s]
        /\ \A t \in Screens \ {s} : room'[t] = room[t] /\ told'[t] = told[t]
    BY <1>1 DEF InboxInv, InboxTypes
  <1>3. InboxTypes'
    <2>1. room' \in [Screens -> Owners \cup {Nil}] /\ DOMAIN told' = Screens
      BY <1>1, <1>2
    <2>2. \A t \in Screens : \A n \in DOMAIN told'[t] :
            n \in Notes /\ told'[t][n] \in Heard /\ told'[t][n].user = room'[t]
      BY <1>2 DEF InboxInv, InboxTypes
    <2> QED
      BY <1>1, <2>1, <2>2 DEF InboxInv, InboxTypes
  <1>4. ASSUME NEW n \in Notes
        PROVE  NoteInv(n)'
    <2>1. NoteInv(n)
      BY DEF InboxInv
    <2>2. ASSUME NEW t \in Screens, ShownRow(t, n)
          PROVE  ShownRow(t, n)'
      BY <1>1, <1>2, <2>2 DEF ShownRow
    <2>3. \A t \in Slots : HeldInv(asked[t], n) => HeldInv(asked[t], n)'
      BY <1>1 DEF HeldInv
    <2>4. \A t \in Screens : n \in DOMAIN told'[t] => n \in DOMAIN told[t]
      BY <1>2
    <2> QED
      BY <1>1, <2>1, <2>2, <2>3, <2>4 DEF NoteInv
  <1> QED
    BY <1>3, <1>4 DEF InboxInv

LEMMA InboxCrashKeeps ==
  ASSUME InboxInv, Notices!Crash
  PROVE  InboxInv'
  <1>1. /\ asked' = [r \in Slots |-> Nil]
        /\ room' = [s \in Screens |-> Nil]
        /\ told' = [s \in Screens |-> <<>>]
        /\ UNCHANGED <<note, seen, gone, overlapped>>
    BY DEF Notices!Crash
  <1>2. InboxTypes'
    BY <1>1 DEF InboxInv, InboxTypes
  <1>3. ASSUME NEW n \in Notes
        PROVE  NoteInv(n)'
    <2>1. NoteInv(n)
      BY DEF InboxInv
    <2>2. ~Notices!Overlap(asked', n)
      BY <1>1 DEF Notices!Overlap, Notices!Works
    <2>3. \A t \in Slots : HeldInv(asked[t], n)' /\ \A u : ~AllRead(asked'[t], u)
      BY <1>1 DEF HeldInv, Holds, AllRead
    <2>4. \A s \in Screens : n \notin DOMAIN told'[s]
      BY <1>1
    <2> QED
      BY <1>1, <2>1, <2>2, <2>3, <2>4 DEF NoteInv, ShownRow
  <1> QED
    BY <1>2, <1>3 DEF InboxInv

LEMMA InboxNext ==
  ASSUME InboxInv, [Notices!Next]_noticeVars
  PROVE  InboxInv'
  <1>1. ASSUME NEW r \in Slots, Notices!RequestNext(r)
        PROVE  InboxInv'
    BY <1>1, AskSteps, InsertKeeps, SaveUpdateKeeps, SaveReadKeeps, UpdateAllKeeps, RemoveKeeps, EmitKeeps
       DEF Notices!RequestNext
  <1>2. CASE UNCHANGED noticeVars
    <2>1. UNCHANGED <<note, asked, room, told, seen, gone, overlapped>>
      BY <1>2 DEF noticeVars
    <2>2. InboxTypes'
      BY <2>1 DEF InboxInv, InboxTypes
    <2>3. ASSUME NEW n \in Notes
          PROVE  NoteInv(n)'
      <3>1. NoteInv(n)
        BY DEF InboxInv
      <3>2. \A t \in Slots : HeldInv(asked[t], n) => HeldInv(asked[t], n)'
        BY <2>1 DEF HeldInv
      <3>3. \A s \in Screens : ShownRow(s, n) => ShownRow(s, n)'
        BY <2>1 DEF ShownRow
      <3> QED
        BY <2>1, <3>1, <3>2, <3>3 DEF NoteInv
    <2> QED
      BY <2>2, <2>3 DEF InboxInv
  <1> QED
    BY <1>1, <1>2, LeaveKeeps, JoinKeeps, InboxCrashKeeps DEF Notices!Next

LEMMA InboxInvMarks == InboxInv => MarksKept
  <1> SUFFICES ASSUME InboxInv
               PROVE  MarksKept
    OBVIOUS
  <1>1. Notices!NothingTakenBack
    BY DEF InboxInv, InboxTypes, NoteInv, Notices!NothingTakenBack
  <1>2. ASSUME NEW s \in Screens, NEW n \in DOMAIN told[s]
        PROVE  /\ told[s][n].user = room[s]
               /\ n \in DOMAIN note \ overlapped /\ (\A r \in Slots : ~Notices!Works(asked[r], n)) =>
                    told[s][n].read = note[n].read
    <2>1. n \in Notes /\ told[s][n].user = room[s]
      BY DEF InboxInv, InboxTypes
    <2>2. NoteInv(n)
      BY <2>1 DEF InboxInv
    <2> QED
      BY <2>1, <2>2 DEF NoteInv, ShownRow, Telling
  <1>3. Notices!ScreensAgree
    BY <1>2 DEF Notices!ScreensAgree
  <1> QED
    BY <1>1, <1>3 DEF MarksKept, Notices!MarksKept

\* For any users, notifications, sockets and requests: what was marked as read
\* or removed is not taken back, and the screens show what the rows say, as
\* long as no two requests of a user are at a notification at once
\* (NotificationService and NotificationGateway).
THEOREM MarksStayKept == Notices!Spec => []MarksKept
  <1>1. Notices!Init => InboxInv
    BY InboxInit
  <1>2. InboxInv /\ [Notices!Next]_noticeVars => InboxInv'
    BY InboxNext
  <1>3. InboxInv => MarksKept
    BY InboxInvMarks
  <1>4. Notices!Spec <=> Notices!Init /\ [][Notices!Next]_noticeVars
    BY DEF Notices!Spec, Notices!ivars, noticeVars
  <1> QED
    BY <1>1, <1>2, <1>3, <1>4, PTL
-----------------------------------------------------------------------------
(***************************************************************************)
(* CategoryRules.  Every way to write a row leaves it under review exactly *)
(* without a category, and gives it the pair of the request, of a rule, or *)
(* the category of the company alone.                                      *)
(***************************************************************************)
HasFields(m) == {"text", "category", "sub", "status", "ours"} \subseteq DOMAIN m

Reviewed(m) == m.status = "categorized" <=> m.category # Unset

RowsInv ==
  \A i \in DOMAIN movement : HasFields(movement[i]) /\ Reviewed(movement[i])

LoadedInv ==
  /\ DOMAIN patch = Patches
  /\ \A p \in Patches : patch[p] # Unset => HasFields(patch[p].old)

\* A rule always has a category.
LearnedInv(rules) == \A t \in DOMAIN rules : rules[t].category # Unset

OwnRules(rules) == \A t \in DOMAIN rules : Rules!OwnSub(rules[t])

CategoriesInv ==
  /\ RowsInv
  /\ LoadedInv
  /\ LearnedInv(rule)
  /\ Rules!PairsBelong

LEMMA NamedFacts ==
  ASSUME NEW m, HasFields(m), NEW c
  PROVE  /\ HasFields(Rules!Named(m, c))
         /\ Rules!Named(m, c).category = c /\ Rules!Named(m, c).sub = m.sub
         /\ Rules!Named(m, c).status = "categorized"
  BY DEF HasFields, Rules!Named

\* The rule of a description gives its pair; without one the row waits.
LEMMA ByRuleFacts ==
  ASSUME NEW m, HasFields(m), NEW rules, LearnedInv(rules), NEW n, n = Rules!ByRule(m, rules)
  PROVE  /\ HasFields(n) /\ Reviewed(n)
         /\ \/ n.category = Unset /\ n.sub = m.sub
            \/ \E t \in DOMAIN rules : n.category = rules[t].category /\ n.sub = rules[t].sub
  <1>1. CASE m.text.normal \in DOMAIN rules
    <2> DEFINE t == m.text.normal
               named == Rules!Named(m, rules[t].category)
    <2>1. HasFields(named) /\ named.category = rules[t].category /\ named.status = "categorized"
      BY NamedFacts
    <2>2. n = [named EXCEPT !.sub = rules[t].sub] /\ rules[t].category # Unset
      BY <1>1 DEF Rules!ByRule, LearnedInv
    <2> HIDE DEF named
    <2>3. HasFields(n) /\ n.category = rules[t].category /\ n.sub = rules[t].sub /\ n.status = "categorized"
      BY <2>1, <2>2 DEF HasFields
    <2> QED
      BY <1>1, <2>2, <2>3 DEF Reviewed
  <1>2. CASE m.text.normal \notin DOMAIN rules
    <2>1. n = [m EXCEPT !.category = Unset, !.status = "pending"]
      BY <1>2 DEF Rules!ByRule
    <2> QED
      BY <2>1 DEF HasFields, Reviewed
  <1> QED
    BY <1>1, <1>2

\* A row with the category of the request, or of a rule, or waiting for one.
LEMMA AutoFacts ==
  ASSUME NEW m, HasFields(m), NEW c, NEW rules, LearnedInv(rules),
         NEW n, n = Rules!ApplyAutoCategory(m, c, rules)
  PROVE  /\ HasFields(n) /\ Reviewed(n)
         /\ \/ n.category = c /\ n.sub = m.sub
            \/ \E t \in DOMAIN rules : n.category = rules[t].category /\ n.sub = rules[t].sub
         /\ c # Unset => n.category = c
  <1>1. CASE c # Unset
    BY <1>1, NamedFacts DEF Rules!ApplyAutoCategory, Reviewed
  <1>2. CASE c = Unset
    BY <1>2, ByRuleFacts DEF Rules!ApplyAutoCategory
  <1> QED
    BY <1>1, <1>2

\* The category of the company is given to rows that have none, and takes no subcategory along.
LEMMA CompanyFacts ==
  ASSUME NEW m, HasFields(m), Reviewed(m), NEW n, n = Rules!ByCompany(m)
  PROVE  /\ HasFields(n) /\ Reviewed(n)
         /\ Rules!OwnSub(m) => Rules!OwnSub(n)
         /\ n.category = Unset => m.category = Unset
  <1>1. CASE n = m
    BY <1>1
  <1>2. CASE n # m
    <2>1. m.category = Unset /\ CompanyDefault # Unset /\ n = Rules!Named(m, CompanyDefault)
      BY <1>2 DEF Rules!ByCompany
    <2>2. HasFields(n) /\ n.category = CompanyDefault /\ n.sub = m.sub /\ n.status = "categorized"
      BY <2>1, NamedFacts
    <2> QED
      BY <2>1, <2>2 DEF Reviewed, Rules!OwnSub
  <1> QED
    BY <1>1, <1>2

\* What is learned has a category, and its own subcategory if the request has.
LEMMA LearnedFacts ==
  ASSUME NEW rules, LearnedInv(rules), NEW text, NEW c, NEW s, NEW now,
         now = Rules!Learned(rules, text, c, s)
  PROVE  /\ LearnedInv(now)
         /\ OwnRules(rules) /\ Rules!OwnSub([category |-> c, sub |-> s]) => OwnRules(now)
  <1>1. CASE now = rules
    BY <1>1
  <1>2. CASE now # rules
    <2> DEFINE pair == [category |-> c, sub |-> s]
    <2>1. c # Unset /\ now = [z \in DOMAIN rules \cup {text.normal} |->
                                IF z = text.normal THEN pair ELSE rules[z]]
      BY <1>2 DEF Rules!Learned, Rules!Put
    <2>2. pair.category = c
      OBVIOUS
    <2> HIDE DEF pair
    <2>3. LearnedInv(now)
      BY <2>1, <2>2 DEF LearnedInv
    <2>4. OwnRules(rules) /\ Rules!OwnSub(pair) => OwnRules(now)
      BY <2>1 DEF OwnRules
    <2> QED
      BY <2>3, <2>4 DEF pair
  <1> QED
    BY <1>1, <1>2

\* A pair of the request or of a rule has its own subcategory, unless one was left out.
LEMMA PairFacts ==
  ASSUME NEW rules, OwnRules(rules), NEW c, NEW s, Rules!OwnSub([category |-> c, sub |-> s]),
         NEW n, \/ n.category = c /\ n.sub = s
                \/ \E t \in DOMAIN rules : n.category = rules[t].category /\ n.sub = rules[t].sub
  PROVE  Rules!OwnSub(n)
  BY DEF OwnRules, Rules!OwnSub

\* One row more, beside rows that stay.
LEMMA RowAdded ==
  ASSUME CategoriesInv, NEW i, i \notin DOMAIN movement, NEW n, HasFields(n), Reviewed(n),
         movement' = Rules!Put(movement, i, n), LearnedInv(rule'), UNCHANGED patch,
         mixed => mixed',
         ~mixed' /\ OwnRules(rule) => Rules!OwnSub(n) /\ OwnRules(rule')
  PROVE  CategoriesInv' /\ Rules!NeverUncategorised
  <1>1. /\ DOMAIN movement' = DOMAIN movement \cup {i} /\ movement'[i] = n
        /\ \A j \in DOMAIN movement : movement'[j] = movement[j]
    BY DEF Rules!Put
  <1>2. RowsInv' /\ LoadedInv'
    BY <1>1 DEF CategoriesInv, RowsInv, LoadedInv
  <1>3. Rules!PairsBelong'
    <2> SUFFICES ASSUME ~mixed'
                 PROVE  /\ \A j \in DOMAIN movement' : Rules!OwnSub(movement'[j])
                        /\ \A t \in DOMAIN rule' : Rules!OwnSub(rule'[t])
      BY DEF Rules!PairsBelong, Rules!OwnSub
    <2>1. (\A j \in DOMAIN movement : Rules!OwnSub(movement[j])) /\ OwnRules(rule)
      BY DEF CategoriesInv, Rules!PairsBelong, OwnRules
    <2> QED
      BY <1>1, <2>1 DEF OwnRules
  <1>4. Rules!NeverUncategorised
    BY <1>1 DEF Rules!NeverUncategorised
  <1> QED
    BY <1>2, <1>3, <1>4 DEF CategoriesInv

LEMMA CreateCategorises ==
  ASSUME CategoriesInv, NEW i, NEW d, NEW choice, NEW ours, Rules!Create(i, d, choice, ours)
  PROVE  CategoriesInv' /\ Rules!NeverUncategorised
  <1> DEFINE given == Rules!Fresh(d, choice, ours)
             sorted == Rules!ApplyAutoCategory(given, choice.category, rule)
             row == Rules!ByCompany(sorted)
  <1>1. /\ i \notin DOMAIN movement /\ movement' = Rules!Put(movement, i, row)
        /\ rule' = Rules!Learned(rule, d, choice.category, choice.sub)
        /\ mixed' = (mixed \/ ~Rules!OwnSub(choice)) /\ UNCHANGED patch
    BY DEF Rules!Create
  <1>2. HasFields(given) /\ given.sub = choice.sub
    BY DEF HasFields, Rules!Fresh
  <1>3. LearnedInv(rule)
    BY DEF CategoriesInv
  <1> HIDE DEF given
  <1>4. /\ HasFields(sorted) /\ Reviewed(sorted)
        /\ \/ sorted.category = choice.category /\ sorted.sub = choice.sub
           \/ \E t \in DOMAIN rule : sorted.category = rule[t].category /\ sorted.sub = rule[t].sub
    BY <1>2, <1>3, AutoFacts
  <1> HIDE DEF sorted
  <1>5. HasFields(row) /\ Reviewed(row) /\ (Rules!OwnSub(sorted) => Rules!OwnSub(row))
    BY <1>4, CompanyFacts
  <1> HIDE DEF row
  <1>6. /\ LearnedInv(rule')
        /\ OwnRules(rule) /\ Rules!OwnSub([category |-> choice.category, sub |-> choice.sub]) => OwnRules(rule')
    BY <1>1, <1>3, LearnedFacts
  <1>7. ~mixed' => Rules!OwnSub([category |-> choice.category, sub |-> choice.sub])
    BY <1>1 DEF Rules!OwnSub
  <1>8. ~mixed' /\ OwnRules(rule) => Rules!OwnSub(row) /\ OwnRules(rule')
    BY <1>4, <1>5, <1>6, <1>7, PairFacts
  <1> QED
    BY <1>1, <1>5, <1>6, <1>8, RowAdded

LEMMA BatchKeeps ==
  ASSUME CategoriesInv, NEW i, NEW d, NEW choice, NEW ours, NEW assign \in BOOLEAN,
         Rules!CreateInBatch(i, d, choice, ours, assign)
  PROVE  CategoriesInv' /\ Rules!NeverUncategorised
  <1> DEFINE given == Rules!Fresh(d, choice, ours)
             sorted == IF assign THEN Rules!ApplyAutoCategory(given, choice.category, rule)
                       ELSE Rules!Unassigned(given)
             row == Rules!ByCompany(sorted)
  <1>1. /\ i \notin DOMAIN movement /\ movement' = Rules!Put(movement, i, row)
        /\ mixed' = (mixed \/ ~Rules!OwnSub(choice)) /\ UNCHANGED <<patch, rule>>
    BY DEF Rules!CreateInBatch
  <1>2. HasFields(given) /\ given.sub = choice.sub /\ given.category = choice.category
    BY DEF HasFields, Rules!Fresh
  <1>3. LearnedInv(rule)
    BY DEF CategoriesInv
  <1> HIDE DEF given
  <1>4. /\ HasFields(sorted) /\ Reviewed(sorted)
        /\ \/ sorted.category = choice.category /\ sorted.sub = choice.sub
           \/ \E t \in DOMAIN rule : sorted.category = rule[t].category /\ sorted.sub = rule[t].sub
    <2>1. CASE assign
      BY <1>2, <1>3, <2>1, AutoFacts
    <2>2. CASE ~assign
      <3>1. sorted = Rules!Unassigned(given)
        BY <2>2
      <3> HIDE DEF sorted
      <3> QED
        BY <1>2, <3>1 DEF Rules!Unassigned, HasFields, Reviewed
    <2> QED
      BY <2>1, <2>2
  <1> HIDE DEF sorted
  <1>5. HasFields(row) /\ Reviewed(row) /\ (Rules!OwnSub(sorted) => Rules!OwnSub(row))
    BY <1>4, CompanyFacts
  <1> HIDE DEF row
  <1>6. ~mixed' => Rules!OwnSub([category |-> choice.category, sub |-> choice.sub])
    BY <1>1 DEF Rules!OwnSub
  <1>7. ~mixed' /\ OwnRules(rule) => Rules!OwnSub(row) /\ OwnRules(rule')
    BY <1>1, <1>4, <1>5, <1>6, PairFacts
  <1> QED
    BY <1>1, <1>3, <1>5, <1>7, RowAdded

LEMMA LoadKeeps ==
  ASSUME CategoriesInv, NEW p \in Patches, NEW i, Rules!LoadPatch(p, i)
  PROVE  CategoriesInv' /\ Rules!NeverUncategorised
  <1>1. /\ i \in DOMAIN movement /\ patch' = [patch EXCEPT ![p] = [on |-> i, old |-> movement[i]]]
        /\ UNCHANGED <<movement, rule, mixed>>
    BY DEF Rules!LoadPatch
  <1>2. LoadedInv'
    BY <1>1 DEF CategoriesInv, LoadedInv, RowsInv
  <1>3. RowsInv' /\ LearnedInv(rule')
    BY <1>1 DEF CategoriesInv, RowsInv
  <1>4. Rules!PairsBelong'
    BY <1>1 DEF CategoriesInv, Rules!PairsBelong, Rules!OwnSub
  <1> QED
    BY <1>1, <1>2, <1>3, <1>4 DEF CategoriesInv, Rules!NeverUncategorised

LEMMA SpreadFacts ==
  ASSUME NEW m, HasFields(m), NEW pair, pair.category # Unset, NEW n, n = Rules!Spread(m, pair)
  PROVE  /\ HasFields(n) /\ Reviewed(n)
         /\ n.category = pair.category /\ n.sub = pair.sub
  <1> DEFINE named == Rules!Named(m, pair.category)
  <1>1. HasFields(named) /\ named.category = pair.category /\ named.status = "categorized"
    BY NamedFacts
  <1>2. n = [named EXCEPT !.sub = pair.sub]
    BY DEF Rules!Spread
  <1> HIDE DEF named
  <1> QED
    BY <1>1, <1>2 DEF HasFields, Reviewed

\* The loaded row gets what is meant, and the rows of the description the same pair; a
\* row loses its category only if the request had loaded it without one.
LEMMA CommitKeeps ==
  ASSUME CategoriesInv, NEW p \in Patches, NEW text, NEW choice, NEW similar \in BOOLEAN,
         Rules!CommitPatch(p, text, choice, similar)
  PROVE  CategoriesInv' /\ Rules!NeverUncategorised
  <1> DEFINE i == patch[p].on
             old == patch[p].old
             pair == Rules!Meant(old, choice)
             merged == Rules!Merged(old, text, choice)
             rules == Rules!Learned(rule, merged.text, pair.category, pair.sub)
             chain == IF similar /\ pair.category # Unset THEN Rules!Similar(i, merged.text) ELSE {}
             sorted == Rules!ApplyAutoCategory(merged, pair.category, rules)
             row == Rules!ByCompany(sorted)
  <1>1. /\ patch[p] # Unset
        /\ rule' = rules
        /\ movement' = [j \in DOMAIN movement |->
             CASE j = i -> row
               [] j \in chain -> Rules!Spread(movement[j], pair)
               [] OTHER -> movement[j]]
        /\ mixed' = (mixed \/ ~Rules!OwnSub(pair))
        /\ patch' = [patch EXCEPT ![p] = Unset]
    BY DEF Rules!CommitPatch
  <1>2. /\ DOMAIN movement' = DOMAIN movement
        /\ \A j \in DOMAIN movement :
             \/ j = i /\ movement'[j] = row
             \/ j # i /\ pair.category # Unset /\ movement'[j] = Rules!Spread(movement[j], pair)
             \/ j # i /\ movement'[j] = movement[j]
    <2>1. i \notin chain /\ (chain # {} => pair.category # Unset)
      BY DEF Rules!Similar
    <2> HIDE DEF row, chain, i, pair
    <2>2. ASSUME NEW j \in DOMAIN movement
          PROVE  \/ j = i /\ movement'[j] = row
                 \/ j # i /\ pair.category # Unset /\ movement'[j] = Rules!Spread(movement[j], pair)
                 \/ j # i /\ movement'[j] = movement[j]
      <3>1. CASE j = i
        BY <1>1, <2>1, <3>1
      <3>2. CASE j # i /\ j \in chain
        BY <1>1, <2>1, <3>2
      <3>3. CASE j # i /\ j \notin chain
        BY <1>1, <3>3
      <3> QED
        BY <3>1, <3>2, <3>3
    <2>3. DOMAIN movement' = DOMAIN movement
      BY <1>1
    <2> QED
      BY <2>2, <2>3
  <1>3. /\ pair = [category |-> pair.category, sub |-> pair.sub]
        /\ pair.category = Unset => old.category = Unset
    BY DEF Rules!Meant, Rules!Or
  <1>4. HasFields(old)
    BY <1>1 DEF CategoriesInv, LoadedInv
  <1>5. HasFields(merged) /\ merged.category = pair.category /\ merged.sub = pair.sub
    BY <1>4 DEF HasFields, Rules!Merged, Rules!Meant
  <1>6. LearnedInv(rule)
    BY DEF CategoriesInv
  <1> HIDE DEF pair, merged, old, i, chain
  <1>7. /\ LearnedInv(rules)
        /\ OwnRules(rule) /\ Rules!OwnSub([category |-> pair.category, sub |-> pair.sub]) => OwnRules(rules)
    BY <1>6, LearnedFacts
  <1> HIDE DEF rules
  <1>8. /\ HasFields(sorted) /\ Reviewed(sorted)
        /\ \/ sorted.category = pair.category /\ sorted.sub = pair.sub
           \/ \E t \in DOMAIN rules : sorted.category = rules[t].category /\ sorted.sub = rules[t].sub
        /\ pair.category # Unset => sorted.category = pair.category
    BY <1>5, <1>7, AutoFacts
  <1> HIDE DEF sorted
  <1>9. /\ HasFields(row) /\ Reviewed(row) /\ (Rules!OwnSub(sorted) => Rules!OwnSub(row))
        /\ row.category = Unset => pair.category = Unset
    BY <1>8, CompanyFacts
  <1> HIDE DEF row
  <1>10. \A j \in DOMAIN movement : HasFields(movement[j]) /\ Reviewed(movement[j])
    BY DEF CategoriesInv, RowsInv
  <1>11. \A j \in DOMAIN movement :
           pair.category # Unset =>
             LET n == Rules!Spread(movement[j], pair)
             IN  HasFields(n) /\ Reviewed(n) /\ n.category = pair.category /\ n.sub = pair.sub
    BY <1>10, SpreadFacts
  <1>12. RowsInv'
    <2>1. \A j \in DOMAIN movement : HasFields(movement'[j]) /\ Reviewed(movement'[j])
      BY <1>2, <1>9, <1>10, <1>11
    <2> QED
      BY <1>2, <2>1 DEF RowsInv, Reviewed
  <1>13. LoadedInv'
    BY <1>1 DEF CategoriesInv, LoadedInv
  <1>14. Rules!PairsBelong'
    <2> SUFFICES ASSUME ~mixed'
                 PROVE  /\ \A j \in DOMAIN movement : Rules!OwnSub(movement'[j])
                        /\ OwnRules(rule')
      BY <1>2 DEF Rules!PairsBelong, Rules!OwnSub, OwnRules
    <2>1. /\ \A j \in DOMAIN movement : Rules!OwnSub(movement[j])
          /\ OwnRules(rule)
          /\ Rules!OwnSub([category |-> pair.category, sub |-> pair.sub])
      BY <1>1, <1>3 DEF CategoriesInv, Rules!PairsBelong, OwnRules
    <2>2. OwnRules(rules)
      BY <1>7, <2>1
    <2>3. Rules!OwnSub(row)
      BY <1>8, <1>9, <2>1, <2>2, PairFacts
    <2>4. \A j \in DOMAIN movement : pair.category # Unset => Rules!OwnSub(Rules!Spread(movement[j], pair))
      BY <1>11, <2>1, <2>2, PairFacts
    <2> QED
      BY <1>1, <1>2, <2>1, <2>2, <2>3, <2>4
  <1>15. Rules!NeverUncategorised
    <2> SUFFICES ASSUME NEW j \in DOMAIN movement, movement[j].category # Unset, movement'[j].category = Unset
                 PROVE  /\ patch[p] # Unset /\ patch'[p] = Unset
                        /\ patch[p].on = j /\ patch[p].old.category = Unset
      BY DEF Rules!NeverUncategorised
    <2>1. j = i /\ pair.category = Unset
      BY <1>2, <1>9, <1>11
    <2>2. patch'[p] = Unset
      BY <1>1 DEF CategoriesInv, LoadedInv
    <2> QED
      BY <1>1, <1>3, <2>1, <2>2 DEF i, old
  <1> QED
    BY <1>1, <1>7, <1>12, <1>13, <1>14, <1>15 DEF CategoriesInv

LEMMA CategoriesInit ==
  ASSUME Rules!Init
  PROVE  CategoriesInv
  BY DEF Rules!Init, CategoriesInv, RowsInv, LoadedInv, LearnedInv, Rules!PairsBelong

LEMMA CategoriesNext ==
  ASSUME CategoriesInv, [Rules!Next]_ruleVars
  PROVE  CategoriesInv' /\ Rules!NeverUncategorised
  <1>1. ASSUME NEW i \in Rows, NEW d \in Descriptions, NEW c \in Categories, NEW ours \in BOOLEAN,
               \/ Rules!Create(i, d, c, ours)
               \/ \E assign \in BOOLEAN : Rules!CreateInBatch(i, d, c, ours, assign)
        PROVE  CategoriesInv' /\ Rules!NeverUncategorised
    BY <1>1, CreateCategorises, BatchKeeps
  <1>2. ASSUME NEW p \in Patches, NEW i \in Rows, Rules!LoadPatch(p, i)
        PROVE  CategoriesInv' /\ Rules!NeverUncategorised
    BY <1>2, LoadKeeps
  <1>3. ASSUME NEW p \in Patches, NEW t \in Descriptions \cup {Unset}, NEW c \in Categories,
               NEW s \in BOOLEAN, Rules!CommitPatch(p, t, c, s)
        PROVE  CategoriesInv' /\ Rules!NeverUncategorised
    BY <1>3, CommitKeeps
  <1>4. CASE UNCHANGED ruleVars
    <2>1. UNCHANGED <<movement, rule, patch, mixed>>
      BY <1>4 DEF ruleVars
    <2>2. RowsInv' /\ LoadedInv' /\ LearnedInv(rule')
      BY <2>1 DEF CategoriesInv, RowsInv, LoadedInv
    <2>3. Rules!PairsBelong'
      BY <2>1 DEF CategoriesInv, Rules!PairsBelong, Rules!OwnSub
    <2> QED
      BY <2>1, <2>2, <2>3 DEF CategoriesInv, Rules!NeverUncategorised
  <1> QED
    BY <1>1, <1>2, <1>3, <1>4 DEF Rules!Next

\* For any movements, rules, categories and overlapping PATCHes: a movement is under
\* review exactly without a category, pairs a category with its own subcategory unless
\* a request left that out, and loses its category only to a PATCH that had loaded
\* it without one (TransactionRecordRepository, CategoryRuleRepository).
THEOREM CategoriesFollowRules == Rules!Spec => RulesFollow
  <1>1. Rules!Init => CategoriesInv
    BY CategoriesInit
  <1>2. CategoriesInv /\ [Rules!Next]_ruleVars => CategoriesInv' /\ Rules!NeverUncategorised
    BY CategoriesNext
  <1>3. CategoriesInv => Rules!ReviewedWithCategory /\ Rules!PairsBelong
    BY DEF CategoriesInv, RowsInv, Reviewed, Rules!ReviewedWithCategory
  <1>4. ASSUME CategoriesInv, [Rules!Next]_ruleVars
        PROVE  Rules!ReviewedWithCategory' /\ Rules!PairsBelong' /\ Rules!NeverUncategorised
    <2>1. CategoriesInv' => Rules!ReviewedWithCategory' /\ Rules!PairsBelong'
      BY <1>3, PTL
    <2> QED
      BY <1>2, <1>4, <2>1
  <1>5. Rules!Spec <=> Rules!Init /\ [][Rules!Next]_ruleVars
    BY DEF Rules!Spec, Rules!rvars, ruleVars
  <1>6. RulesFollow <=>
          [][Rules!ReviewedWithCategory' /\ Rules!PairsBelong' /\ Rules!NeverUncategorised]_ruleVars
    BY DEF RulesFollow, Rules!RulesFollow, Rules!rvars, ruleVars
  <1> QED
    BY <1>1, <1>2, <1>4, <1>5, <1>6, PTL
=============================================================================
