----------------------------- MODULE Summaries -----------------------------
(***************************************************************************)
(* The summaries of movements, as an instance of Reports.                  *)
(***************************************************************************)
EXTENDS Naturals, FiniteSets

CONSTANTS Writers, Readers, Requested, MaxChanges, MaxReads, Nothing

VARIABLES changes, generation, cached, period, report, tax, writer, reader,
          answered, raced, refused, reads

Summary == INSTANCE Reports WITH told <- answered, overlapped <- raced

ASSUME SummariesAssumption ==
  /\ MaxChanges \in Nat
  /\ IsFiniteSet(Writers)
  /\ Nothing \notin Nat

summaryVars == <<changes, generation, cached, period, report, tax, writer, reader,
                 answered, raced, refused, reads>>
-----------------------------------------------------------------------------
\* Reports: what is read includes what was answered, and the current period is found.
AnswersFresh == Summary!AnswersFresh
PeriodResolved == Summary!PeriodResolved
=============================================================================
