------------------------------ MODULE MCCompaction ------------------------------
(* Instances of StoreCompaction: one hook that writes, one operator.         *)
EXTENDS StoreCompaction

CONSTANTS hook, operator, dead, none, r1, r2, e1

MCProcs == {hook, operator}
MCYielding == {hook}
MCOperators == {operator}
MCRunIDs == {r1, r2}
MCRecords == {e1}
=============================================================================
