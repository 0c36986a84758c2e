--------------------------- MODULE ErrorPipeline ---------------------------
(***************************************************************************)
(* What a request is answered and what is logged of it.  A request passes  *)
(* the guards, then the two interceptors around its pipe and its handler.  *)
(* ErrorsInterceptor, the inner one, rewrites what the pipe or the handler *)
(* throws and starts a log of it without waiting; ResponseInterceptor      *)
(* wraps what the handler returns; HttpExceptionFilter formats what is     *)
(* still an HttpException, of the guards too.                              *)
(*                                                                         *)
(* A trace id is the request it was made for.                              *)
(***************************************************************************)
EXTENDS Naturals, Sequences

CONSTANTS
  Calls,      \* the requests
  Thrown,     \* what may be thrown: records [class, status, form]
  Returned,   \* what a handler may return: records [form, data, total]
  Services,   \* subset of BOOLEAN: whether LOG_SERVICE_URL is defined
  MaxRetries, \* retry(3)
  Nil

VARIABLES
  call,    \* call[c]: where the request is, and its answer
  log,     \* log[c]: the log started under its trace id
  remote,  \* remote[c]: how often the log service got it
  local,   \* the logs in the fallback file
  lost,    \* the logs that ended nowhere: no write, or no process any more
  up       \* whether the process runs

evars == <<call, log, remote, local, lost, up>>

\* Classes of what is thrown: "validation" of the pipe, any other "http"
\* exception, "other" for what is no HttpException.  Forms of the body of an
\* "http" one: a "text", an object with a "message", an object whose message
\* is a "list", or a body that is already "formatted".
Silent == [status |-> Nil, message |-> Nil, details |-> FALSE, trace |-> FALSE]
-----------------------------------------------------------------------------
(* Errors.                                                                  *)

\* HttpExceptionFilter of what the guards threw, or of what the interceptor
\* has rewritten.  Nest answers for what is no HttpException.
Filtered(e) ==
  CASE e.class = "other" -> [Silent EXCEPT !.message = "default"]
    [] e.class = "validation" ->
         [status |-> e.status, message |-> "fields", details |-> TRUE, trace |-> FALSE]
    [] e.class = "http" /\ e.form = "formatted" -> [Silent EXCEPT !.status = e.status, !.message = "own"]
    [] e.class = "http" /\ e.form # "formatted" ->
         [status |-> e.status,
          message |-> IF e.form = "list" THEN "fields" ELSE "own",
          details |-> e.form = "list",
          trace |-> e.status = "500"]

StatusOf(e) == IF e.class = "other" THEN "500" ELSE e.status

\* ErrorsInterceptor: what it makes of an exception, which the filter then
\* passes on as it is.  A message that is no text is dropped with its list.
Rewritten(e) ==
  [status |-> StatusOf(e),
   message |-> CASE e.class = "validation" -> "fields"
                 [] e.class = "http" /\ e.form # "list" -> "own"
                 [] OTHER -> "default",
   details |-> e.class = "validation",
   trace |-> StatusOf(e) = "500"]

Severity(e) == IF StatusOf(e) = "500" THEN "ERROR" ELSE "WARNING"

(* Answers.  ResponseInterceptor passes an envelope, keeps the total of a   *)
(* page, and puts anything else in a list.                                  *)
Wrapped(v) ==
  CASE v.form = "envelope" -> [status |-> v.ok, data |-> v.data, total |-> v.total]
    [] v.form = "page" -> [status |-> "true", data |-> v.data, total |-> v.total]
    [] v.form = "list" -> [status |-> "true", data |-> v.data, total |-> Nil]
    [] v.form = "one" -> [status |-> "true", data |-> 1, total |-> Nil]
    [] v.form = "none" -> [status |-> "true", data |-> 0, total |-> Nil]
-----------------------------------------------------------------------------
(* Requests.                                                                *)

At(c, place) == up /\ call[c].at = place

Arrive(c) ==
  /\ At(c, "absent")
  /\ call' = [call EXCEPT ![c].at = "guards"]
  /\ UNCHANGED <<log, remote, local, lost, up>>

PassGuards(c) ==
  /\ At(c, "guards")
  /\ call' = [call EXCEPT ![c].at = "handler"]
  /\ UNCHANGED <<log, remote, local, lost, up>>

Answered(c, http, body, cause) ==
  call' = [call EXCEPT ![c] = [at |-> "answered", http |-> http, body |-> body, of |-> cause]]

\* A guard throws: the interceptors never see it.
GuardThrows(c, e) ==
  /\ At(c, "guards") /\ e.class # "validation"
  /\ Answered(c, StatusOf(e), Filtered(e), [thrown |-> e, by |-> "guard"])
  /\ UNCHANGED <<log, remote, local, lost, up>>

\* The pipe or the handler throws.
HandlerThrows(c, e, service) ==
  /\ At(c, "handler")
  /\ Answered(c, StatusOf(e), Rewritten(e), [thrown |-> e, by |-> "handler"])
  /\ log' = [log EXCEPT ![c] = [at |-> IF service THEN "sending" ELSE "failed",
                                left |-> IF service THEN MaxRetries ELSE 0,
                                severity |-> Severity(e)]]
  /\ UNCHANGED <<remote, local, lost, up>>

HandlerReturns(c, v) ==
  /\ At(c, "handler")
  /\ Answered(c, "200", Wrapped(v), [value |-> v])
  /\ UNCHANGED <<log, remote, local, lost, up>>
-----------------------------------------------------------------------------
(* Logs.  An attempt may reach the log service and still fail here.         *)

Sending(c) == up /\ log[c].at = "sending"

SendOk(c) ==
  /\ Sending(c)
  /\ remote' = [remote EXCEPT ![c] = @ + 1]
  /\ log' = [log EXCEPT ![c].at = "done"]
  /\ UNCHANGED <<call, local, lost, up>>

\* defer(() => axios.post()) posts again at each retry.
SendFails(c, reached) ==
  /\ Sending(c)
  /\ remote' = [remote EXCEPT ![c] = IF reached THEN @ + 1 ELSE @]
  /\ \/ log[c].left > 0 /\ log' = [log EXCEPT ![c].left = @ - 1]
     \/ log[c].left = 0 /\ log' = [log EXCEPT ![c].at = "failed"]
  /\ UNCHANGED <<call, local, lost, up>>

\* Mutant: the retries over, the log is given up.
GiveUp(c) ==
  /\ up /\ log[c].at = "failed"
  /\ log' = [log EXCEPT ![c].at = "done"]
  /\ UNCHANGED <<call, remote, local, lost, up>>

\* saveLogLocally, after the retries or at once where there is no service.
SaveLocally(c) ==
  /\ up /\ log[c].at = "failed"
  /\ local' = local \cup {c}
  /\ log' = [log EXCEPT ![c].at = "done"]
  /\ UNCHANGED <<call, remote, lost, up>>

\* The append fails: it is only said on the console.
AppendFails(c) ==
  /\ up /\ log[c].at = "failed"
  /\ lost' = lost \cup {c}
  /\ log' = [log EXCEPT ![c].at = "done"]
  /\ UNCHANGED <<call, remote, local, up>>

Unsent == {c \in Calls : log[c].at \in {"sending", "failed"}}

\* The process ends, with the requests and the logs in progress.
Ends ==
  /\ up' = FALSE
  /\ lost' = lost \cup Unsent
  /\ log' = [c \in Calls |-> IF c \in Unsent THEN [log[c] EXCEPT !.at = "done"] ELSE log[c]]
  /\ UNCHANGED <<remote, local>>

\* The directory of the file cannot be made: sendLog throws, and nobody
\* handles its rejected promise, which ends the process.
NoDirectory(c) ==
  /\ up /\ log[c].at = "failed"
  /\ Ends
  /\ call' = [d \in Calls |->
       IF call[d].at \in {"guards", "handler"} THEN [call[d] EXCEPT !.at = "cut"] ELSE call[d]]

\* SIGTERM: no request is left unanswered, the logs are not waited for.
Shutdown ==
  /\ up /\ \A c \in Calls : call[c].at \notin {"guards", "handler"}
  /\ Ends
  /\ UNCHANGED call

Restart == ~up /\ up' = TRUE /\ UNCHANGED <<call, log, remote, local, lost>>
-----------------------------------------------------------------------------
Init ==
  /\ call = [c \in Calls |-> [at |-> "absent", http |-> Nil, body |-> Nil, of |-> Nil]]
  /\ log = [c \in Calls |-> [at |-> "none", left |-> 0, severity |-> Nil]]
  /\ remote = [c \in Calls |-> 0]
  /\ local = {} /\ lost = {} /\ up = TRUE

CallNext(c) ==
  \/ Arrive(c)
  \/ PassGuards(c)
  \/ \E e \in Thrown : GuardThrows(c, e) \/ \E s \in Services : HandlerThrows(c, e, s)
  \/ \E v \in Returned : HandlerReturns(c, v)

LogNext(c) ==
  \/ SendOk(c)
  \/ \E reached \in BOOLEAN : SendFails(c, reached)
  \/ SaveLocally(c)
  \/ AppendFails(c)
  \/ NoDirectory(c)

Next == (\E c \in Calls : CallNext(c) \/ LogNext(c)) \/ Shutdown \/ Restart

Spec == Init /\ [][Next]_evars
-----------------------------------------------------------------------------
(* Properties.                                                              *)

Threw(c) == call[c].at = "answered" /\ "thrown" \in DOMAIN call[c].of
ThrewInside(c) == Threw(c) /\ call[c].of.by = "handler"

\* Whatever a pipe or a handler throws, the body tells the status of the
\* response, and a server error carries a trace id under which an ERROR was
\* logged: at the log service, in the file, or on its way to one of them,
\* unless the file could not be written or the process ended.
TraceLeadsToLog ==
  \A c \in Calls :
    ThrewInside(c) =>
      /\ call[c].body.status = call[c].http
      /\ call[c].http = "500" =>
           /\ call[c].body.trace
           /\ log[c].severity = "ERROR"
           /\ remote[c] > 0 \/ c \in local \cup lost \cup Unsent

\* No log is sent more often than the first time and its retries, and only
\* one whose retries are over is kept in the file.
SentAtMost ==
  \A c \in Calls :
    /\ remote[c] <= MaxRetries + 1
    /\ c \in local => c \notin lost /\ log[c].left = 0

\* What a handler returns reaches the client whole, with its total if it
\* was a page, and no error looks like a success.
NothingDropped ==
  \A c \in Calls :
    call[c].at = "answered" =>
      IF Threw(c) THEN call[c].body.status # "true"
      ELSE /\ call[c].body.data = call[c].of.value.data
           /\ call[c].of.value.form = "page" => call[c].body.total = call[c].of.value.total

AnswersShaped == TraceLeadsToLog /\ SentAtMost /\ NothingDropped
=============================================================================
