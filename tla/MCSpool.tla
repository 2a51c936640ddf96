-------------------------------- MODULE MCSpool --------------------------------
(* Hooks and doctor processes on one spool directory.                        *)
EXTENDS HookSpool, TLC

MCSymmetry == Permutations(Processes) \cup Permutations(Deliveries)
=============================================================================
