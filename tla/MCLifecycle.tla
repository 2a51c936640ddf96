------------------------------ MODULE MCLifecycle ------------------------------
(* Shutdown and clean exit against concurrent launches and exits.            *)
EXTENDS RuntimeLifecycle, TLC

MCSymmetry == Permutations(Tickets) \cup Permutations(Plans) \cup Permutations(RequestIDs)
=============================================================================
