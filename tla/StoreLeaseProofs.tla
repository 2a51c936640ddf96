----------------------------- MODULE StoreLeaseProofs -----------------------------
(*****************************************************************************)
(* For any number of processes, whichever of them yield: LeaseExclusion.     *)
(* The marker is not part of the argument, only flock is.                    *)
(*****************************************************************************)
EXTENDS StoreLease, TLAPS

(* The inductive invariant: types, and whoever has the lock has it alone.    *)
LeaseInv ==
  /\ LeaseTypeOK
  /\ \A p \in Procs : excl[p] \in {"locked", "held", "unlocking"} =>
       /\ \A q \in Procs : conn[q] # "open"
       /\ \A q \in Procs : excl[q] \in {"locked", "held", "unlocking"} => q = p

(* LeaseInv holds when no process uses the store yet.                        *)
LEMMA LeaseInitInv == LeaseInit => LeaseInv
BY LeaseAssumption DEF LeaseInit, LeaseInv, LeaseTypeOK, ExclStates, ConnStates

(* Every step of AcquireExclusive, Connect and their ends keeps LeaseInv:    *)
(* the two that take the lock look at all holders and connections first.     *)
LEMMA LeaseStepInv == LeaseInv /\ [LeaseNext]_leaseVars => LeaseInv'
<1> SUFFICES ASSUME LeaseInv, [LeaseNext]_leaseVars PROVE LeaseInv'
  OBVIOUS
<1> USE LeaseAssumption DEF LeaseInv, LeaseTypeOK, ExclStates, ConnStates
<1>1. CASE UNCHANGED leaseVars
  BY <1>1 DEF leaseVars
<1>2. ASSUME NEW p \in Procs, AcquireExclusive(p) PROVE LeaseInv'
  BY <1>2 DEF AcquireExclusive
<1>3. ASSUME NEW p \in Procs, FlockExclusive(p) PROVE LeaseInv'
  BY <1>3 DEF FlockExclusive, LockedBy, Connected
<1>4. ASSUME NEW p \in Procs, HoldExclusive(p) PROVE LeaseInv'
  BY <1>4 DEF HoldExclusive
<1>5. ASSUME NEW p \in Procs, GiveUpExclusive(p) PROVE LeaseInv'
  BY <1>5 DEF GiveUpExclusive, clearCompactPendingMarker
<1>6. ASSUME NEW p \in Procs, ReleaseExclusive(p) PROVE LeaseInv'
  BY <1>6 DEF ReleaseExclusive, clearCompactPendingMarker
<1>7. ASSUME NEW p \in Procs, FlockRelease(p) PROVE LeaseInv'
  BY <1>7 DEF FlockRelease
<1>8. ASSUME NEW p \in Procs, Connect(p) PROVE LeaseInv'
  BY <1>8 DEF Connect
<1>9. ASSUME NEW p \in Procs, ConsultMarker(p) PROVE LeaseInv'
  BY <1>9 DEF ConsultMarker, AfterConsult
<1>10. ASSUME NEW p \in Procs, ReapMarker(p) PROVE LeaseInv'
  BY <1>10 DEF ReapMarker
<1>11. ASSUME NEW p \in Procs, FlockShared(p) PROVE LeaseInv'
  BY <1>11 DEF FlockShared, LockedBy
<1>12. ASSUME NEW p \in Procs, FlockWouldBlock(p) PROVE LeaseInv'
  BY <1>12 DEF FlockWouldBlock, AfterConsult
<1>13. ASSUME NEW p \in Procs, GiveUpConnect(p) PROVE LeaseInv'
  BY <1>13 DEF GiveUpConnect
<1>14. ASSUME NEW p \in Procs, CloseConn(p) PROVE LeaseInv'
  BY <1>14 DEF CloseConn
<1>15. ASSUME NEW p \in Procs, Exit(p) PROVE LeaseInv'
  BY <1>15 DEF Exit
<1>. QED
  BY <1>1, <1>2, <1>3, <1>4, <1>5, <1>6, <1>7, <1>8, <1>9, <1>10, <1>11, <1>12, <1>13, <1>14,
     <1>15 DEF LeaseNext, ConnectStep, ExclusiveStep

(* Maintenance of the store is alone: from the grant of flock(LOCK_EX) to    *)
(* its release no connection is open and nobody else holds it, for every set *)
(* of processes and whatever becomes of the compact-pending marker.          *)
THEOREM LeaseExclusionHolds == LeaseSpec => []LeaseExclusion
<1>1. LeaseInv => LeaseExclusion
  BY DEF LeaseInv, LeaseExclusion, LockedBy, Connected
<1>. QED
  BY <1>1, LeaseInitInv, LeaseStepInv, PTL DEF LeaseSpec

=============================================================================
