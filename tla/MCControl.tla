------------------------------- MODULE MCControl -------------------------------
(* Controls of one owned run, with its exit and a shutdown going on.         *)
EXTENDS MCDrain, RuntimeControl

ControlledInit == DrainInit /\ ControlInit
ControlledSpec == ControlledInit /\ [][RuntimeNext]_runtimeVars
FairControlledSpec == ControlledSpec /\ ControlFairness
=============================================================================
