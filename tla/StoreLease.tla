-------------------------------- MODULE StoreLease --------------------------------
(*****************************************************************************)
(* The lease on the event store (infrastructure/sqlite/store_lease.go,       *)
(* store_lease_pending.go, store_lease_unix.go): an advisory lock beside the *)
(* database, held shared by every physical connection and exclusively by     *)
(* maintenance, and the compact-pending marker, a file with the pid of the   *)
(* process that waits for or holds the exclusive lease.                      *)
(*                                                                           *)
(* A process has one connection and one maintenance call at a time. The lock *)
(* itself is the kernel's: it is whoever holds it in `excl` and `conn`, and  *)
(* dies with its process. Two consultations of the marker in a row are one.  *)
(*****************************************************************************)
EXTENDS Integers, FiniteSets

CONSTANTS
  Procs,      \* processes that use the store
  Yielding,   \* those whose connections consult the marker (writers)
  DeadPid,    \* a marker left by a process that is gone
  None

ASSUME LeaseAssumption ==
  Yielding \subseteq Procs /\ None \notin Procs /\ DeadPid \notin Procs \cup {None}

VARIABLES
  excl,       \* AcquireExclusive and its release, per process
  conn,       \* storeLeaseConnector.Connect and the connection, per process
  marker      \* the compact-pending marker

leaseVars == <<excl, conn, marker>>

(* "locked": flock granted, not yet in exclusiveHeldByProcess; "unlocking":  *)
(* already deleted from it, flock not yet released.                          *)
ExclStates == {"none", "waiting", "locked", "held", "unlocking"}
(* "consult", "reap": reading and removing the marker; "poll": waiting for   *)
(* LOCK_SH; "open": connected.                                               *)
ConnStates == {"none", "consult", "reap", "poll", "open"}

LeaseTypeOK ==
  /\ excl \in [Procs -> ExclStates]
  /\ conn \in [Procs -> ConnStates]
  /\ marker \in Procs \cup {DeadPid, None}

LeaseInit ==
  /\ excl = [p \in Procs |-> "none"]
  /\ conn = [p \in Procs |-> "none"]
  /\ marker = None

LockedBy == {p \in Procs : excl[p] \in {"locked", "held", "unlocking"}}
Connected == {p \in Procs : conn[p] = "open"}

clearCompactPendingMarker(p) == marker' = IF marker = p THEN None ELSE marker

-----------------------------------------------------------------------------
(* AcquireExclusive. The marker of another waiter is overwritten.            *)
AcquireExclusive(p) ==
  /\ excl[p] = "none"
  /\ excl' = [excl EXCEPT ![p] = "waiting"]
  /\ marker' = p
  /\ UNCHANGED conn

\* flock granted without regard to the connections of other descriptors
FlockOverConnections(p) ==
  /\ excl[p] = "waiting" /\ LockedBy = {}
  /\ excl' = [excl EXCEPT ![p] = "locked"]
  /\ UNCHANGED <<conn, marker>>

(* flock(LOCK_EX): no descriptor of any process, this one included, holds it.*)
FlockExclusive(p) ==
  /\ excl[p] = "waiting" /\ LockedBy = {} /\ Connected = {}
  /\ excl' = [excl EXCEPT ![p] = "locked"]
  /\ UNCHANGED <<conn, marker>>

HoldExclusive(p) ==
  /\ excl[p] = "locked"
  /\ excl' = [excl EXCEPT ![p] = "held"]
  /\ UNCHANGED <<conn, marker>>

(* The deadline of bindExclusiveLeaseDeadline, a cancellation, or, once the  *)
(* lock is held, a store with several hard links.                            *)
GiveUpExclusive(p) ==
  /\ excl[p] \in {"waiting", "locked"}
  /\ excl' = [excl EXCEPT ![p] = "none"]
  /\ clearCompactPendingMarker(p)
  /\ UNCHANGED conn

ReleaseExclusive(p) ==
  /\ excl[p] = "held"
  /\ excl' = [excl EXCEPT ![p] = "unlocking"]
  /\ clearCompactPendingMarker(p)
  /\ UNCHANGED conn

FlockRelease(p) ==
  /\ excl[p] = "unlocking"
  /\ excl' = [excl EXCEPT ![p] = "none"]
  /\ UNCHANGED <<conn, marker>>

-----------------------------------------------------------------------------
(* Connect. A process that holds the exclusive lease itself connects under   *)
(* it (openHeldExclusive); maintenance of the store opens no such connection *)
(* today, so a holder does not connect here.                                 *)
Connect(p) ==
  /\ conn[p] = "none" /\ excl[p] # "held"
  /\ conn' = [conn EXCEPT ![p] = IF p \in Yielding THEN "consult" ELSE "poll"]
  /\ UNCHANGED <<excl, marker>>

(* Where consultMaintenanceMarker sends a connection: refused while the pid  *)
(* of the marker is alive, to the removal of a stale marker, or on to poll.  *)
AfterConsult ==
  CASE marker \in Procs -> "none" [] marker = DeadPid -> "reap" [] OTHER -> "poll"

ConsultMarker(p) ==
  /\ conn[p] = "consult"
  /\ conn' = [conn EXCEPT ![p] = AfterConsult]
  /\ UNCHANGED <<excl, marker>>

(* os.Remove of the path: the marker that is there by now, whosever it is.   *)
ReapMarker(p) ==
  /\ conn[p] = "reap"
  /\ conn' = [conn EXCEPT ![p] = "poll"]
  /\ marker' = None
  /\ UNCHANGED excl

\* LOCK_SH granted while another process holds LOCK_EX
FlockSharedAnyway(p) ==
  /\ conn[p] = "poll"
  /\ conn' = [conn EXCEPT ![p] = "open"]
  /\ UNCHANGED <<excl, marker>>

FlockShared(p) ==
  /\ conn[p] = "poll" /\ LockedBy = {}
  /\ conn' = [conn EXCEPT ![p] = "open"]
  /\ UNCHANGED <<excl, marker>>

(* EWOULDBLOCK: a yielding connection consults the marker again.             *)
FlockWouldBlock(p) ==
  /\ conn[p] = "poll" /\ LockedBy # {} /\ p \in Yielding /\ marker # None
  /\ conn' = [conn EXCEPT ![p] = AfterConsult]
  /\ UNCHANGED <<excl, marker>>

(* The deadline of bindSharedLeaseDeadline, or a driver that cannot open.    *)
GiveUpConnect(p) ==
  /\ conn[p] = "poll"
  /\ conn' = [conn EXCEPT ![p] = "none"]
  /\ UNCHANGED <<excl, marker>>

CloseConn(p) ==
  /\ conn[p] = "open"
  /\ conn' = [conn EXCEPT ![p] = "none"]
  /\ UNCHANGED <<excl, marker>>

(* A process ends: the kernel drops its locks, its marker stays.             *)
Exit(p) ==
  /\ excl[p] # "none" \/ conn[p] # "none"
  /\ excl' = [excl EXCEPT ![p] = "none"]
  /\ conn' = [conn EXCEPT ![p] = "none"]
  /\ marker' = IF marker = p THEN DeadPid ELSE marker

ConnectStep(p) ==
  Connect(p) \/ ConsultMarker(p) \/ ReapMarker(p) \/ FlockWouldBlock(p) \/ GiveUpConnect(p)
ExclusiveStep(p) ==
  AcquireExclusive(p) \/ FlockExclusive(p) \/ HoldExclusive(p) \/ GiveUpExclusive(p)
  \/ FlockRelease(p)

LeaseNext ==
  \E p \in Procs :
    ConnectStep(p) \/ FlockShared(p) \/ CloseConn(p) \/ ExclusiveStep(p)
    \/ ReleaseExclusive(p) \/ Exit(p)
LeaseSpec == LeaseInit /\ [][LeaseNext]_leaseVars

-----------------------------------------------------------------------------
(* Properties.                                                               *)

(* Maintenance is alone: while one process holds the lock exclusively no     *)
(* connection is open and no other process holds it, from the moment flock   *)
(* grants it until it is given back, whatever happened to the marker.        *)
LeaseExclusion ==
  \A p \in LockedBy : Connected = {} /\ LockedBy = {p}
=============================================================================
