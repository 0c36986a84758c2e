------------------------- MODULE MCUserDirectory -------------------------
(* One person whose requests overlap two at a time.                         *)
EXTENDS UserDirectory, TLC

CONSTANTS u1, r1, r2, m1, m2, s1

Symmetry == Permutations(Requests) \cup Permutations(Mails)
=============================================================================
