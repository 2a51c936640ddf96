------------------------------- MODULE MCLaunch -------------------------------
(* Launch admission, coordination and reconciliation alone.                  *)
EXTENDS RuntimeLaunch, TLC

MCSymmetry == Permutations(Tickets) \cup Permutations(Callers) \cup Permutations(RequestIDs) \cup Permutations(Selections)
=============================================================================
