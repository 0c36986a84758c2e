----------------------------- MODULE LoginGuard -----------------------------
(***************************************************************************)
(* What stands before a login: the rate limit of the endpoint and the      *)
(* block of an address after failed logins, both kept under keys of Redis  *)
(* that expire.  The counter of failures is read and written back in two   *)
(* calls, the counter of requests is incremented in one; logins overlap.   *)
(*                                                                         *)
(* All requests come from one address.  A key is a value and the time      *)
(* until which it is there.                                                *)
(***************************************************************************)
EXTENDS Integers, Sequences, FiniteSets

CONSTANTS
  Logins,          \* the requests that may be in progress at once
  MaxFailures,     \* IP_BLOCK_MAX_ATTEMPTS
  Window,          \* IP_BLOCK_WINDOW_MS
  BlockDuration,   \* IP_BLOCK_DURATION_MS
  Limit, Ttl,      \* @Throttle of the endpoint; a blocked client waits Ttl
  LastTime, MaxLogins  \* bounds

VARIABLES
  time,
  hits, hitsUntil,       \* throttle:<name>:<key> and its expiry
  stopUntil,             \* expiry of throttle:<name>:<key>:block
  failures, failUntil,   \* ip_attempts:<ip>
  blockUntil,            \* ip_block:<ip>
  login,                 \* the requests in progress
  passed,                \* history: when requests passed the rate limit
  ended,                 \* history: how logins ended, and when
  lost                   \* history: whether an overlapping write was lost

gvars == <<time, hits, hitsUntil, stopUntil, failures, failUntil, blockUntil,
           login, passed, ended, lost>>

\* The value of a key, 0 when it is not there.
Value(v, until) == IF time < until THEN v ELSE 0

At(r, step) == login[r].step = step
Goto(r, step) == login' = [login EXCEPT ![r].step = step]
Done(r) == login' = [login EXCEPT ![r] = [step |-> "idle", read |-> 0]]
-----------------------------------------------------------------------------
(* ThrottlerStorageRedisService.increment                                   *)

CheckStop(r) ==
  /\ At(r, "idle") /\ Len(passed) < MaxLogins
  /\ IF time < stopUntil THEN UNCHANGED login ELSE Goto(r, "count")
  /\ UNCHANGED <<time, hits, hitsUntil, stopUntil, failures, failUntil, blockUntil,
                 passed, ended, lost>>

\* INCR and PEXPIRE in one MULTI: the key lives on from its last request.
CountHit(r) ==
  /\ At(r, "count")
  /\ hits' = Value(hits, hitsUntil) + 1
  /\ hitsUntil' = time + Ttl
  /\ IF hits' > Limit THEN Goto(r, "stop") /\ UNCHANGED passed
     ELSE Goto(r, "guard") /\ passed' = Append(passed, time)
  /\ UNCHANGED <<time, stopUntil, failures, failUntil, blockUntil, ended, lost>>

StopClient(r) ==
  /\ At(r, "stop")
  /\ stopUntil' = time + Ttl
  /\ Done(r)
  /\ UNCHANGED <<time, hits, hitsUntil, failures, failUntil, blockUntil, passed, ended, lost>>
-----------------------------------------------------------------------------
(* IpBlockGuard, login and IpBlockService.                                  *)

Guard(r) ==
  /\ At(r, "guard")
  /\ IF time < blockUntil THEN Done(r) ELSE Goto(r, "ask")
  /\ UNCHANGED <<time, hits, hitsUntil, stopUntil, failures, failUntil, blockUntil,
                 passed, ended, lost>>

\* Keycloak accepts: resetAttempts deletes the counter and leaves the block.
Accepted(r) ==
  /\ At(r, "ask")
  /\ failures' = 0 /\ failUntil' = time
  /\ ended' = Append(ended, [ok |-> TRUE, at |-> time])
  /\ Done(r)
  /\ UNCHANGED <<time, hits, hitsUntil, stopUntil, blockUntil, passed, lost>>

\* Keycloak answers 400 or 401: recordFailedAttempt reads the counter.
ReadFailures(r) ==
  /\ At(r, "ask")
  /\ login' = [login EXCEPT ![r] = [step |-> "record", read |-> Value(failures, failUntil)]]
  /\ UNCHANGED <<time, hits, hitsUntil, stopUntil, failures, failUntil, blockUntil,
                 passed, ended, lost>>

\* Any other answer counts for nothing.
Unanswered(r) ==
  /\ At(r, "ask")
  /\ Done(r)
  /\ UNCHANGED <<time, hits, hitsUntil, stopUntil, failures, failUntil, blockUntil,
                 passed, ended, lost>>

\* Mutant: one failure more than the limit.
WriteFailuresLate(r) ==
  /\ At(r, "record")
  /\ failures' = login[r].read + 1
  /\ failUntil' = time + Window
  /\ ended' = Append(ended, [ok |-> FALSE, at |-> time])
  /\ lost' = (lost \/ Value(failures, failUntil) # login[r].read)
  /\ IF failures' > MaxFailures THEN Goto(r, "block") ELSE Done(r)
  /\ UNCHANGED <<time, hits, hitsUntil, stopUntil, blockUntil, passed>>

WriteFailures(r) ==
  /\ At(r, "record")
  /\ failures' = login[r].read + 1
  /\ failUntil' = time + Window
  /\ ended' = Append(ended, [ok |-> FALSE, at |-> time])
  /\ lost' = (lost \/ Value(failures, failUntil) # login[r].read)
  /\ IF failures' >= MaxFailures THEN Goto(r, "block") ELSE Done(r)
  /\ UNCHANGED <<time, hits, hitsUntil, stopUntil, blockUntil, passed>>

BlockIp(r) ==
  /\ At(r, "block")
  /\ blockUntil' = time + BlockDuration
  /\ Done(r)
  /\ UNCHANGED <<time, hits, hitsUntil, stopUntil, failures, failUntil, passed, ended, lost>>

\* Time passes while no write is on its way.
Tick ==
  /\ time < LastTime
  /\ \A r \in Logins : login[r].step \in {"idle", "guard", "ask"}
  /\ time' = time + 1
  /\ UNCHANGED <<hits, hitsUntil, stopUntil, failures, failUntil, blockUntil,
                 login, passed, ended, lost>>

Init ==
  /\ time = 0
  /\ hits = 0 /\ hitsUntil = 0 /\ stopUntil = 0
  /\ failures = 0 /\ failUntil = 0 /\ blockUntil = 0
  /\ login = [r \in Logins |-> [step |-> "idle", read |-> 0]]
  /\ passed = <<>> /\ ended = <<>> /\ lost = FALSE

Next ==
  \/ \E r \in Logins : \/ CheckStop(r) \/ CountHit(r) \/ StopClient(r) \/ Guard(r)
                       \/ Accepted(r) \/ ReadFailures(r) \/ Unanswered(r)
                       \/ WriteFailures(r) \/ BlockIp(r)
  \/ Tick

Spec == Init /\ [][Next]_gvars
-----------------------------------------------------------------------------
(* Properties.                                                              *)

\* The k-th ended login is the last of MaxFailures or more in a row that failed,
\* each within Window of the one before.
Strikes(k) ==
  /\ k >= MaxFailures
  /\ \A i \in k - MaxFailures + 1 .. k : ~ended[i].ok
  /\ \A i \in k - MaxFailures + 2 .. k : ended[i].at - ended[i - 1].at < Window

\* The address is blocked exactly for BlockDuration after such a login: neither an
\* earlier success nor an old failure counts, and a success does not lift the
\* block.  Unless two failures were counted from the same value.
BlockedByFailures ==
  ~lost /\ (\A r \in Logins : ~At(r, "block")) =>
    (time < blockUntil <=>
       \E k \in DOMAIN ended : Strikes(k) /\ time - ended[k].at < BlockDuration)

\* In no period of Ttl do more than Limit requests pass the rate limit.
RateLimited ==
  \A i \in DOMAIN passed : i + Limit \in DOMAIN passed => passed[i + Limit] - passed[i] >= Ttl
=============================================================================
