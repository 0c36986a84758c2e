------------------------------ MODULE MCBooks ------------------------------
(***************************************************************************)
(* The books of MCLedger, and the summaries that are made of them.  They   *)
(* share no state: part says which a behaviour is about.        *)
(***************************************************************************)
EXTENDS MCLedger, Summaries

VARIABLE part

\* Two changes and nothing but summaries (Summary); one change and everything.
Rows == INSTANCE Reports
  WITH Requested <- {"summary", "report", "tax"}, MaxChanges <- 1,
       told <- answered, overlapped <- raced

mcvars == <<part, vars, summaryVars>>

NoSummaries ==
  /\ changes = 0 /\ generation = 0 /\ cached = <<>>
  /\ period = "none" /\ report = FALSE /\ tax = FALSE
  /\ writer = <<>> /\ reader = [r \in Readers |-> Summary!Idle]
  /\ answered = 0 /\ raced = FALSE /\ refused = {} /\ reads = 0

MCInit ==
  /\ Init
  /\ \/ part = "books" /\ NoSummaries
     \/ part = "summaries" /\ Summary!Init
     \/ part = "rows" /\ Rows!Init

MCNext ==
  \/ part = "books" /\ CarefulNext /\ UNCHANGED <<part, summaryVars>>
  \/ part = "summaries" /\ Summary!Next /\ UNCHANGED <<part, vars>>
  \/ part = "rows" /\ Rows!Next /\ UNCHANGED <<part, vars>>

MCSpec == MCInit /\ [][MCNext]_mcvars
=============================================================================
