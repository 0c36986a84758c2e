--------------------------- MODULE Categorisation ---------------------------
(***************************************************************************)
(* CategoryRules with its constants: the rules of one user, beside the     *)
(* imports and the jobs, with which they share no state.                   *)
(***************************************************************************)
CONSTANTS
  Rows, Patches, Descriptions, Categories, SubsOf, CompanyDefault, MaxPatches,
  Empty, Unset

VARIABLES movement, rule, patch, mixed, patches

Rules == INSTANCE CategoryRules WITH Movements <- Rows, Blank <- Empty

ruleVars == <<movement, rule, patch, mixed, patches>>
-----------------------------------------------------------------------------
\* CategoryRules: what is reviewed, and which pairs are given.
RulesFollow == Rules!RulesFollow
=============================================================================
