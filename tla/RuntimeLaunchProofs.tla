-------------------------- MODULE RuntimeLaunchProofs --------------------------
(*****************************************************************************)
(* Proofs about launch coordination, for any number of requests, callers,    *)
(* ticket objects and run slots.                                             *)
(*                                                                           *)
(* LaunchInv is inductive. Most steps belong to one ticket: they rewrite its *)
(* record, its run, its child or its journal entry and leave every other     *)
(* ticket, the request map and the callers alone. OwnStep reduces such a     *)
(* step to the ticket's own invariant and the two counters.                  *)
(*****************************************************************************)
EXTENDS RuntimeLaunch, FiniteSetTheorems, TLAPS

-----------------------------------------------------------------------------
(* Counting.                                                                 *)

(* Two finite sets that differ at most in x: how their sizes compare.        *)
LEMMA CountChange ==
  ASSUME NEW S, NEW T, NEW x, IsFiniteSet(S), S \ {x} = T \ {x}
  PROVE  /\ IsFiniteSet(T) /\ Cardinality(S) \in Nat /\ Cardinality(T) \in Nat
         /\ (x \in S <=> x \in T) => Cardinality(T) = Cardinality(S)
         /\ x \in S /\ x \notin T => Cardinality(T) = Cardinality(S) - 1
         /\ x \notin S /\ x \in T => Cardinality(T) = Cardinality(S) + 1
<1>1. IsFiniteSet(S \ {x}) /\ IsFiniteSet(T \ {x})
  BY FS_RemoveElement
<1>2. IsFiniteSet(T)
  <2>1. CASE x \in T
    <3>1. T = (T \ {x}) \cup {x}
      BY <2>1
    <3> QED BY <1>1, <3>1, FS_AddElement
  <2>2. CASE x \notin T
    <3>1. T = T \ {x}
      BY <2>2
    <3> QED BY <1>1, <3>1
  <2> QED BY <2>1, <2>2
<1>3. Cardinality(S) \in Nat /\ Cardinality(T) \in Nat
  BY <1>2, FS_CardinalityType
<1>4. ASSUME x \in S <=> x \in T PROVE Cardinality(T) = Cardinality(S)
  <2>1. S = T
    BY <1>4
  <2> QED BY <2>1
<1>5. ASSUME x \in S, x \notin T PROVE Cardinality(T) = Cardinality(S) - 1
  <2>1. T = S \ {x}
    BY <1>5
  <2> QED BY <2>1, <1>5, FS_RemoveElement
<1>6. ASSUME x \notin S, x \in T PROVE Cardinality(T) = Cardinality(S) + 1
  <2>1. S = T \ {x}
    BY <1>6
  <2>2. Cardinality(S) = Cardinality(T) - 1
    BY <2>1, <1>2, <1>6, FS_RemoveElement
  <2> QED BY <2>2, <1>3
<1> QED BY <1>2, <1>3, <1>4, <1>5, <1>6

(* The reservations are finitely many.                                       *)
LEMMA ReservationsFinite == IsFiniteSet(PendingTickets) /\ IsFiniteSet(ActiveRuns)
<1>1. PendingTickets \subseteq Tickets /\ ActiveRuns \subseteq Tickets
  BY DEF PendingTickets, ActiveRuns
<1> QED BY <1>1, FS_Subset, ConstantsAssumption

(* A step that changes the reservations of one ticket and adjusts the        *)
(* counters accordingly keeps the accounting.                                *)
LEMMA Accounting ==
  ASSUME ReservationAccounting, pending \in Nat, active \in Nat, NEW t \in Tickets,
         \A s \in Tickets \ {t} : tk'[s] = tk[s] /\ runs'[s] = runs[s],
         \/ pending' = pending /\ (HoldsPending(t)' <=> HoldsPending(t))
         \/ pending' = pending - 1 /\ HoldsPending(t) /\ ~HoldsPending(t)'
         \/ pending' = pending + 1 /\ ~HoldsPending(t) /\ HoldsPending(t)',
         \/ active' = active /\ (HoldsActive(t)' <=> HoldsActive(t))
         \/ active' = active - 1 /\ HoldsActive(t) /\ ~HoldsActive(t)'
         \/ active' = active + 1 /\ ~HoldsActive(t) /\ HoldsActive(t)'
  PROVE  ReservationAccounting' /\ pending' \in Nat /\ active' \in Nat
<1>1. \A s \in Tickets \ {t} : HoldsPending(s)' <=> HoldsPending(s)
  BY DEF HoldsPending
<1>2. \A s \in Tickets \ {t} : HoldsActive(s)' <=> HoldsActive(s)
  BY DEF HoldsActive
<1>3. PendingTickets \ {t} = PendingTickets' \ {t}
  BY <1>1 DEF PendingTickets
<1>4. ActiveRuns \ {t} = ActiveRuns' \ {t}
  BY <1>2 DEF ActiveRuns
<1>5. /\ t \in PendingTickets <=> HoldsPending(t)
      /\ t \in PendingTickets' <=> HoldsPending(t)'
  BY DEF PendingTickets
<1>6. /\ t \in ActiveRuns <=> HoldsActive(t)
      /\ t \in ActiveRuns' <=> HoldsActive(t)'
  BY DEF ActiveRuns
<1>7. pending' = Cardinality(PendingTickets') /\ pending' \in Nat
  BY <1>3, <1>5, ReservationsFinite, CountChange DEF ReservationAccounting
<1>8. active' = Cardinality(ActiveRuns') /\ active' \in Nat
  BY <1>4, <1>6, ReservationsFinite, CountChange DEF ReservationAccounting
<1> QED BY <1>7, <1>8 DEF ReservationAccounting

-----------------------------------------------------------------------------
(* Frames.                                                                   *)

(* A ticket nothing happened to keeps its invariant.                         *)
LEMMA TicketFrame ==
  ASSUME NEW s \in Tickets, TicketInv(s),
         tk'[s] = tk[s], runs'[s] = runs[s], child'[s] = child[s], journal'[s] = journal[s],
         tk[s].pc # "unused" /\ ~tk[s].aborted => tickets'[tk[s].id] = tickets[tk[s].id]
  PROVE  TicketInv(s)'
BY DEF TicketInv

(* A step that takes no reservation keeps the bound on them.                 *)
LEMMA RoomKept ==
  ASSUME LaunchInv, pending' \in Nat, active' \in Nat, pending' + active' <= pending + active
  PROVE  pending' + active' <= MaxActiveRuns
<1>1. pending \in Nat /\ active \in Nat
  BY DEF LaunchInv, LaunchTypeOK
<1>2. pending + active <= MaxActiveRuns /\ MaxActiveRuns \in Nat
  BY ConstantsAssumption DEF LaunchInv
<1>3. \A a, b, c \in Int : a <= b /\ b <= c => a <= c
  OBVIOUS
<1>4. pending' + active' \in Int /\ pending + active \in Int /\ MaxActiveRuns \in Int
  BY <1>1, <1>2
<1> QED BY <1>2, <1>3, <1>4

(* What a step of a ticket's own goroutines has to show.                     *)
OwnStep(t) ==
  /\ UNCHANGED <<tickets, callers>>
  /\ \A s \in Tickets \ {t} : /\ tk'[s] = tk[s] /\ runs'[s] = runs[s]
                              /\ child'[s] = child[s] /\ journal'[s] = journal[s]
  /\ tk'[t].id = tk[t].id /\ tk'[t].waiters = tk[t].waiters
  /\ tk'[t].aborted = tk[t].aborted
  /\ tk[t].pc # "unused" => tk'[t].pc # "unused"

(* Such a step preserves the whole invariant.                                *)
LEMMA OwnStepLemma ==
  ASSUME LaunchInv, NEW t \in Tickets, OwnStep(t), LaunchTypeOK', TicketInv(t)',
         ReservationAccounting', pending' + active' <= pending + active
  PROVE  LaunchInv'
<1>1. ASSUME NEW s \in Tickets PROVE TicketInv(s)'
  <2>1. CASE s # t
    BY <2>1, TicketFrame DEF LaunchInv, OwnStep
  <2> QED BY <2>1
<1>2. TicketMapInv'
  <2> SUFFICES ASSUME NEW i \in RequestIDs, tickets[i] # None
               PROVE  /\ tk'[tickets[i]].id = i
                      /\ tk'[tickets[i]].pc # "unused"
                      /\ ~tk'[tickets[i]].aborted
    BY DEF TicketMapInv, OwnStep
  <2>1. /\ tickets[i] \in Tickets
        /\ tk[tickets[i]].id = i /\ tk[tickets[i]].pc # "unused" /\ ~tk[tickets[i]].aborted
    BY DEF LaunchInv, LaunchTypeOK, TicketMapInv
  <2> QED BY <2>1 DEF OwnStep
<1>3. CallerInv'
  BY DEF LaunchInv, CallerInv, OwnStep
<1>4. WaitersCounted'
  BY DEF LaunchInv, WaitersCounted, OwnStep
<1>5. pending' + active' <= MaxActiveRuns
  BY RoomKept DEF LaunchTypeOK
<1> QED BY <1>1, <1>2, <1>3, <1>4, <1>5 DEF LaunchInv

-----------------------------------------------------------------------------
(* Updates of one ticket record.                                             *)

Errors == {"none", "error", "unknown"}

(* Every field but pc and err (and the result, which LaunchInv leaves free). *)
TicketKeeps(t) ==
  /\ tk'[t].id = tk[t].id /\ tk'[t].waiters = tk[t].waiters
  /\ tk'[t].starting = tk[t].starting /\ tk'[t].complete = tk[t].complete
  /\ tk'[t].aborted = tk[t].aborted /\ tk'[t].abandoned = tk[t].abandoned
  /\ tk'[t].canceled = tk[t].canceled /\ tk'[t].descriptor = tk[t].descriptor

OthersKept(t) == \A s \in Tickets \ {t} : tk'[s] = tk[s]

(* What LaunchInv says of one ticket.                                        *)
LEMMA Known ==
  ASSUME LaunchInv, NEW t \in Tickets
  PROVE  /\ tk \in [Tickets -> TicketRecords] /\ tk[t] \in TicketRecords
         /\ runs \in [Tickets -> RunRecords] /\ runs[t] \in RunRecords
         /\ child \in [Tickets -> ChildStates] /\ journal \in [Tickets -> Snapshots]
         /\ pending \in Nat /\ active \in Nat
         /\ ReservationAccounting /\ TicketInv(t)
BY DEF LaunchInv, LaunchTypeOK

(* A coordinator that moves to another step with an error.                   *)
LEMMA TicketMoves ==
  ASSUME tk \in [Tickets -> TicketRecords], NEW t \in Tickets, NEW x \in CoordinatorSteps,
         NEW e \in Errors, tk' = [tk EXCEPT ![t] = [@ EXCEPT !.pc = x, !.err = e]]
  PROVE  /\ tk' \in [Tickets -> TicketRecords] /\ OthersKept(t)
         /\ tk'[t].pc = x /\ tk'[t].err = e /\ TicketKeeps(t)
<1>1. tk[t] \in TicketRecords
  OBVIOUS
<1>2. [tk[t] EXCEPT !.pc = x, !.err = e] \in TicketRecords
  BY <1>1 DEF TicketRecords, Errors
<1>3. tk'[t] = [tk[t] EXCEPT !.pc = x, !.err = e] /\ OthersKept(t)
  BY DEF OthersKept
<1>4. tk' \in [Tickets -> TicketRecords]
  BY <1>2
<1>5. tk'[t].pc = x /\ tk'[t].err = e /\ TicketKeeps(t)
  BY <1>1, <1>3 DEF TicketRecords, TicketKeeps
<1> QED BY <1>3, <1>4, <1>5

(* A coordinator that only moves to another step.                            *)
LEMMA TicketGoes ==
  ASSUME tk \in [Tickets -> TicketRecords], NEW t \in Tickets, NEW x \in CoordinatorSteps, Goto(t, x)
  PROVE  /\ tk' \in [Tickets -> TicketRecords] /\ OthersKept(t)
         /\ tk'[t].pc = x /\ tk'[t].err = tk[t].err /\ TicketKeeps(t)
<1>1. tk[t] \in TicketRecords
  OBVIOUS
<1>2. [tk[t] EXCEPT !.pc = x] \in TicketRecords
  BY <1>1 DEF TicketRecords
<1>3. tk'[t] = [tk[t] EXCEPT !.pc = x] /\ OthersKept(t)
  BY DEF OthersKept, Goto
<1>4. tk' \in [Tickets -> TicketRecords]
  BY <1>2 DEF Goto
<1>5. tk'[t].pc = x /\ tk'[t].err = tk[t].err /\ TicketKeeps(t)
  BY <1>1, <1>3 DEF TicketRecords, TicketKeeps
<1> QED BY <1>3, <1>4, <1>5

(* A step that rewrites a ticket's record without touching its reservations, *)
(* and at most its child and its journal entry besides.                      *)
LEMMA QuietStep ==
  ASSUME LaunchInv, NEW t \in Tickets, TicketInv(t)',
         UNCHANGED <<tickets, callers, runs, recovery, pending, active>>,
         tk' \in [Tickets -> TicketRecords], OthersKept(t),
         child' \in [Tickets -> ChildStates], journal' \in [Tickets -> Snapshots],
         \A s \in Tickets \ {t} : child'[s] = child[s] /\ journal'[s] = journal[s],
         tk'[t].id = tk[t].id, tk'[t].waiters = tk[t].waiters, tk'[t].aborted = tk[t].aborted,
         tk'[t].pc # "unused", HoldsPending(t)' <=> HoldsPending(t)
  PROVE  LaunchInv'
<1>1. LaunchTypeOK'
  BY DEF LaunchInv, LaunchTypeOK
<1>2. OwnStep(t)
  BY DEF OwnStep, OthersKept
<1>3. ReservationAccounting'
  <2>1. HoldsActive(t)' <=> HoldsActive(t)
    BY DEF HoldsActive
  <2> QED BY <2>1, Known, Accounting DEF OthersKept
<1> QED BY <1>1, <1>2, <1>3, Known, OwnStepLemma

-----------------------------------------------------------------------------
(* The steps of the coordinator.                                             *)

(* The target is validated or refused.                                       *)
LEMMA ValidateTargetStep ==
  ASSUME LaunchInv, NEW t \in Tickets, ValidateTarget(t)
  PROVE  LaunchInv'
<1>1. /\ TicketInv(t) /\ tk[t].pc = "validate" /\ tk[t].err = "none" /\ ~tk[t].starting
      /\ ~tk[t].aborted /\ ~tk[t].complete
      /\ child[t] = "none" /\ runs[t].pc = "absent" /\ ~runs[t].exitKnown
      /\ journal[t].state = "none"
  BY Known DEF ValidateTarget, TicketInv
<1>2. /\ tk' \in [Tickets -> TicketRecords] /\ OthersKept(t) /\ TicketKeeps(t)
      /\ \/ tk'[t].pc = "validated" /\ tk'[t].err = "none"
         \/ tk'[t].pc = "failing" /\ tk'[t].err = "error"
  <2>1. CASE Goto(t, "validated")
    BY <1>1, <2>1, Known, TicketGoes DEF CoordinatorSteps
  <2>2. CASE FailWith(t, "error")
    BY <2>2, Known, TicketMoves DEF FailWith, CoordinatorSteps, Errors
  <2> QED BY <2>1, <2>2 DEF ValidateTarget
<1>3. UNCHANGED <<tickets, callers, runs, child, journal, recovery, pending, active>>
  BY DEF ValidateTarget
<1>4. TicketInv(t)'
  <2>1. ~tk'[t].starting /\ ~tk'[t].aborted /\ ~tk'[t].complete
    BY <1>1, <1>2 DEF TicketKeeps
  <2> QED BY <1>1, <1>2, <1>3, <2>1 DEF TicketInv, TicketKeeps
<1>5. HoldsPending(t) /\ HoldsPending(t)'
  BY <1>1, <1>2 DEF HoldsPending
<1> QED BY <1>2, <1>3, <1>4, <1>5, Known, QuietStep DEF TicketKeeps

(* The budget of the coordinator runs out.                                   *)
LEMMA CoordinatorTimeoutStep ==
  ASSUME LaunchInv, NEW t \in Tickets, CoordinatorTimeout(t)
  PROVE  LaunchInv'
<1>1. TicketInv(t) /\ tk[t] \in TicketRecords /\ tk[t].pc \in {"validate", "validated"}
  BY Known DEF CoordinatorTimeout
<1>2. /\ tk' \in [Tickets -> TicketRecords]
      /\ OthersKept(t) /\ tk'[t] = [tk[t] EXCEPT !.canceled = TRUE]
  <2>1. [tk[t] EXCEPT !.canceled = TRUE] \in TicketRecords
    BY <1>1 DEF TicketRecords
  <2> QED BY <2>1, Known DEF CoordinatorTimeout, OthersKept
<1>3. /\ tk'[t].id = tk[t].id /\ tk'[t].waiters = tk[t].waiters /\ tk'[t].pc = tk[t].pc
      /\ tk'[t].starting = tk[t].starting /\ tk'[t].complete = tk[t].complete
      /\ tk'[t].aborted = tk[t].aborted /\ tk'[t].abandoned = tk[t].abandoned
      /\ tk'[t].err = tk[t].err /\ tk'[t].descriptor = tk[t].descriptor /\ tk'[t].canceled
  BY <1>1, <1>2 DEF TicketRecords
<1>4. UNCHANGED <<tickets, callers, runs, child, journal, recovery, pending, active>>
  BY DEF CoordinatorTimeout
<1>5. TicketInv(t)'
  BY <1>1, <1>3, <1>4 DEF TicketInv
<1>6. HoldsPending(t)' <=> HoldsPending(t)
  BY <1>3, <1>4 DEF HoldsPending
<1> QED BY <1>1, <1>2, <1>3, <1>4, <1>5, <1>6, Known, QuietStep

(* The commit boundary: canceled before it, or non-abandonable after it.      *)
LEMMA CommitStartStep ==
  ASSUME LaunchInv, NEW t \in Tickets, CommitStart(t)
  PROVE  LaunchInv'
<1>1. /\ TicketInv(t) /\ tk[t] \in TicketRecords
      /\ tk[t].pc = "validated" /\ tk[t].err = "none" /\ ~tk[t].starting
      /\ ~tk[t].aborted /\ ~tk[t].complete /\ tickets[tk[t].id] = t /\ tk[t].id \in RequestIDs
      /\ child[t] = "none" /\ runs[t].pc = "absent" /\ ~runs[t].exitKnown
      /\ journal[t].state = "none"
  BY Known DEF CommitStart, TicketInv
<1>2. UNCHANGED <<tickets, callers, runs, child, journal, recovery, pending, active>>
  BY DEF CommitStart
<1>3. CASE tk[t].canceled
  <2>1. /\ tk' \in [Tickets -> TicketRecords] /\ OthersKept(t) /\ TicketKeeps(t)
        /\ tk'[t].pc = "failing" /\ tk'[t].err = "error"
    BY <1>3, Known, TicketMoves DEF CommitStart, FailWith, CoordinatorSteps, Errors
  <2>2. TicketInv(t)'
    <3>1. ~tk'[t].starting /\ ~tk'[t].aborted /\ ~tk'[t].complete
      BY <1>1, <2>1 DEF TicketKeeps
    <3> QED BY <1>1, <1>2, <2>1, <3>1 DEF TicketInv, TicketKeeps
  <2>3. HoldsPending(t) /\ HoldsPending(t)'
    BY <1>1, <2>1 DEF HoldsPending
  <2> QED BY <1>2, <2>1, <2>2, <2>3, Known, QuietStep DEF TicketKeeps
<1>4. CASE ~tk[t].canceled
  <2> DEFINE d == Snapshot("reserved", FALSE)
  <2>1. d \in Snapshots
    BY DEF Snapshots, Snapshot, RunStates
  <2>2. [tk[t] EXCEPT !.pc = "reserve", !.starting = TRUE, !.descriptor = d] \in TicketRecords
    BY <1>1, <2>1 DEF TicketRecords, CoordinatorSteps
  <2>3. /\ tk' \in [Tickets -> TicketRecords] /\ OthersKept(t)
        /\ tk'[t] = [tk[t] EXCEPT !.pc = "reserve", !.starting = TRUE, !.descriptor = d]
    BY <1>4, <2>2, Known DEF CommitStart, OthersKept
  <2>4. /\ tk'[t].id = tk[t].id /\ tk'[t].waiters = tk[t].waiters /\ tk'[t].pc = "reserve"
        /\ tk'[t].starting /\ tk'[t].complete = tk[t].complete
        /\ tk'[t].aborted = tk[t].aborted /\ tk'[t].abandoned = tk[t].abandoned
        /\ tk'[t].err = "none" /\ tk'[t].descriptor = d
    BY <1>1, <2>3 DEF TicketRecords
  <2>5. TicketInv(t)'
    <3>1. ~tk'[t].aborted /\ ~tk'[t].complete /\ ~tk'[t].abandoned
      BY <1>1, <1>4, <2>4 DEF TicketInv
    <3> QED BY <1>1, <1>2, <2>4, <3>1 DEF TicketInv
  <2>6. HoldsPending(t) /\ HoldsPending(t)'
    BY <1>1, <2>4 DEF HoldsPending
  <2> QED BY <1>2, <2>3, <2>4, <2>5, <2>6, Known, QuietStep
<1> QED BY <1>3, <1>4

(* Durable intent is written, or the attempt fails.                          *)
LEMMA ReserveLaunchStep ==
  ASSUME LaunchInv, NEW t \in Tickets, ReserveLaunch(t)
  PROVE  LaunchInv'
<1>1. /\ TicketInv(t) /\ tk[t] \in TicketRecords
      /\ tk[t].pc = "reserve" /\ tk[t].err = "none" /\ tk[t].starting
      /\ tk[t].descriptor = Snapshot("reserved", FALSE) /\ ~tk[t].complete
      /\ child[t] = "none" /\ runs[t].pc = "absent" /\ ~runs[t].exitKnown
  BY Known DEF ReserveLaunch, TicketInv
<1>2. UNCHANGED <<tickets, callers, runs, child, recovery, pending, active>>
  BY DEF ReserveLaunch
<1>3. /\ journal' \in [Tickets -> Snapshots] /\ \A s \in Tickets \ {t} : journal'[s] = journal[s]
      /\ journal'[t] = tk[t].descriptor \/ FailWith(t, "error")
  <2>1. tk[t].descriptor \in Snapshots
    BY <1>1 DEF TicketRecords
  <2> QED BY <2>1, Known DEF ReserveLaunch
<1>4. /\ tk' \in [Tickets -> TicketRecords] /\ OthersKept(t) /\ TicketKeeps(t)
      /\ \/ tk'[t].pc = "start" /\ tk'[t].err = "none" /\ journal'[t] = tk[t].descriptor
         \/ tk'[t].pc = "failing" /\ tk'[t].err = "error"
  <2>1. CASE Goto(t, "start") /\ journal'[t] = tk[t].descriptor
    BY <1>1, <2>1, Known, TicketGoes DEF CoordinatorSteps
  <2>2. CASE FailWith(t, "error")
    BY <2>2, Known, TicketMoves DEF FailWith, CoordinatorSteps, Errors
  <2> QED BY <1>3, <2>1, <2>2 DEF ReserveLaunch
<1>5. TicketInv(t)'
  <2>1. tk'[t].starting /\ ~tk'[t].complete /\ tk'[t].aborted = tk[t].aborted
    BY <1>1, <1>4 DEF TicketKeeps
  <2>2. tk'[t].pc = "start" => journal'[t].state # "none"
    BY <1>1, <1>4 DEF Snapshot
  <2>3. tk'[t].descriptor.state # "none"
    BY <1>1, <1>4 DEF Snapshot, TicketKeeps
  <2> QED BY <1>1, <1>2, <1>4, <2>1, <2>2, <2>3 DEF TicketInv, TicketKeeps
<1>6. HoldsPending(t) /\ HoldsPending(t)'
  BY <1>1, <1>4 DEF HoldsPending
<1> QED BY <1>2, <1>3, <1>4, <1>5, <1>6, Known, QuietStep DEF TicketKeeps

(* The launcher returns a child, an error, or neither.                       *)
LEMMA StartStep ==
  ASSUME LaunchInv, NEW t \in Tickets, Start(t)
  PROVE  LaunchInv'
<1>1. /\ TicketInv(t) /\ tk[t] \in TicketRecords
      /\ tk[t].pc = "start" /\ tk[t].err = "none" /\ tk[t].starting
      /\ ~tk[t].complete /\ journal[t].state # "none"
      /\ tk[t].descriptor = Snapshot("reserved", FALSE)
      /\ child[t] = "none" /\ runs[t].pc = "absent" /\ ~runs[t].exitKnown
  BY Known DEF Start, TicketInv
<1>2. UNCHANGED <<tickets, callers, runs, journal, recovery, pending, active>>
  BY DEF Start
<1>3. /\ child' \in [Tickets -> ChildStates] /\ \A s \in Tickets \ {t} : child'[s] = child[s]
  BY Known DEF Start, ChildStates
<1>4. /\ tk' \in [Tickets -> TicketRecords] /\ OthersKept(t) /\ TicketKeeps(t)
      /\ \/ tk'[t].pc = "attach" /\ tk'[t].err \in {"none", "unknown"} /\ child'[t] = "alive"
         \/ tk'[t].pc = "failing" /\ tk'[t].err = "error" /\ child'[t] = "none"
         \/ tk'[t].pc = "failing" /\ tk'[t].err = "unknown" /\ child'[t] \in {"none", "lost"}
  <2>1. CASE /\ child' = [child EXCEPT ![t] = "alive"]
             /\ \E e \in {"none", "unknown"} :
                  tk' = [tk EXCEPT ![t] = [@ EXCEPT !.pc = "attach", !.err = e]]
    <3>1. PICK e \in {"none", "unknown"} :
            tk' = [tk EXCEPT ![t] = [@ EXCEPT !.pc = "attach", !.err = e]]
      BY <2>1
    <3>2. "attach" \in CoordinatorSteps /\ e \in Errors
      BY DEF CoordinatorSteps, Errors
    <3>3. child'[t] = "alive"
      BY <2>1, Known
    <3> QED BY <3>1, <3>2, <3>3, Known, TicketMoves
  <2>2. CASE UNCHANGED child /\ FailWith(t, "error")
    <3>1. child'[t] = "none"
      BY <1>1, <2>2
    <3> QED BY <2>2, <3>1, Known, TicketMoves DEF FailWith, CoordinatorSteps, Errors
  <2>3. CASE /\ child' \in {child, [child EXCEPT ![t] = "lost"]}
             /\ FailWith(t, "unknown")
    <3>1. child'[t] \in {"none", "lost"}
      BY <1>1, <2>3, Known
    <3> QED BY <2>3, <3>1, Known, TicketMoves DEF FailWith, CoordinatorSteps, Errors
  <2> QED BY <2>1, <2>2, <2>3 DEF Start
<1>5. TicketInv(t)'
  <2>1. tk'[t].starting /\ ~tk'[t].complete /\ tk'[t].aborted = tk[t].aborted
    BY <1>1, <1>4 DEF TicketKeeps
  <2>2. tk'[t].descriptor.state # "none"
    BY <1>1, <1>4 DEF Snapshot, TicketKeeps
  <2> QED BY <1>1, <1>2, <1>4, <2>1, <2>2 DEF TicketInv, TicketKeeps
<1>6. HoldsPending(t) /\ HoldsPending(t)'
  BY <1>1, <1>4 DEF HoldsPending
<1> QED BY <1>2, <1>3, <1>4, <1>5, <1>6, Known, QuietStep DEF TicketKeeps

(* One call of the journal: the entry keeps its value or becomes the         *)
(* snapshot, and no other entry changes.                                     *)
LEMMA SaveLaunchLemma ==
  ASSUME journal \in [Tickets -> Snapshots], NEW t \in Tickets, NEW snapshot \in Snapshots,
         NEW ok \in BOOLEAN, SaveLaunch(t, snapshot, ok)
  PROVE  /\ journal' \in [Tickets -> Snapshots]
         /\ \A s \in Tickets \ {t} : journal'[s] = journal[s]
         /\ ok => journal'[t] = snapshot
         /\ \/ journal'[t] = journal[t]
            \/ journal'[t] = snapshot /\ SaveLaunchAccepts(journal[t], snapshot)
BY DEF SaveLaunch

(* A pending reservation becomes an active one.                              *)
LEMMA AttachChildStep ==
  ASSUME LaunchInv, NEW t \in Tickets, AttachChild(t)
  PROVE  LaunchInv'
<1> DEFINE started == IF tk[t].err = "none" THEN Snapshot("live", FALSE)
                      ELSE Snapshot("reserved", TRUE)
           run == [AbsentRun EXCEPT !.pc = "owned", !.state = started.state,
                                    !.uncertain = started.uncertain]
<1>1. /\ TicketInv(t) /\ tk[t] \in TicketRecords
      /\ tk[t].pc = "attach" /\ tk[t].starting /\ ~tk[t].complete
      /\ journal[t].state # "none" /\ child[t] \in {"alive", "dead"} /\ runs[t].pc = "absent"
  BY Known DEF AttachChild, TicketInv, RunRecords, RunSteps
<1>2. /\ UNCHANGED <<tickets, callers, child, journal, recovery>>
      /\ pending' = pending - 1 /\ active' = active + 1
  BY DEF AttachChild
<1>3. started \in Snapshots /\ started.state # "none"
      /\ (tk[t].err = "none" => started = Snapshot("live", FALSE))
  BY DEF Snapshots, Snapshot, RunStates
<1>4. run \in RunRecords /\ run.pc = "owned" /\ ~run.exitKnown /\ run.state # "none"
  BY <1>3 DEF RunRecords, AbsentRun, RunSteps, Snapshots
<1>5. /\ runs' \in [Tickets -> RunRecords] /\ \A s \in Tickets \ {t} : runs'[s] = runs[s]
      /\ runs'[t].pc = "owned" /\ ~runs'[t].exitKnown /\ runs'[t].state # "none"
  BY <1>4, Known DEF AttachChild
<1>6. [tk[t] EXCEPT !.pc = "publish", !.descriptor = started] \in TicketRecords
  BY <1>1, <1>3 DEF TicketRecords, CoordinatorSteps
<1>7. /\ tk' \in [Tickets -> TicketRecords] /\ OthersKept(t)
      /\ tk'[t] = [tk[t] EXCEPT !.pc = "publish", !.descriptor = started]
  BY <1>6, Known DEF AttachChild, OthersKept
<1>8. /\ tk'[t].id = tk[t].id /\ tk'[t].waiters = tk[t].waiters /\ tk'[t].pc = "publish"
      /\ tk'[t].starting = tk[t].starting /\ tk'[t].complete = tk[t].complete
      /\ tk'[t].aborted = tk[t].aborted /\ tk'[t].abandoned = tk[t].abandoned
      /\ tk'[t].canceled = tk[t].canceled /\ tk'[t].err = tk[t].err
      /\ tk'[t].descriptor = started
  BY <1>1, <1>7 DEF TicketRecords
<1> HIDE DEF started, run
<1>9. TicketInv(t)'
  <2>1. tk'[t].starting /\ ~tk'[t].complete /\ ~tk'[t].aborted
    BY <1>1, <1>8 DEF TicketInv
  <2> QED BY <1>1, <1>2, <1>3, <1>5, <1>8, <2>1 DEF TicketInv
<1>10. OwnStep(t)
  BY <1>2, <1>5, <1>7, <1>8 DEF OwnStep, OthersKept
<1>11. ReservationAccounting' /\ pending' \in Nat /\ active' \in Nat
  <2>1. /\ HoldsPending(t) /\ ~HoldsPending(t)'
        /\ ~HoldsActive(t) /\ HoldsActive(t)'
    BY <1>1, <1>5, <1>8 DEF HoldsPending, HoldsActive
  <2> QED BY <1>2, <1>5, <1>7, <2>1, Known, Accounting DEF OthersKept
<1>12. LaunchTypeOK'
  BY <1>2, <1>5, <1>7, <1>11 DEF LaunchInv, LaunchTypeOK
<1>13. pending' + active' <= pending + active
  BY <1>2, Known
<1> QED BY <1>9, <1>10, <1>11, <1>12, <1>13, OwnStepLemma

(* The started snapshot is saved, or the ticket becomes uncertain.           *)
LEMMA SaveStartedStep ==
  ASSUME LaunchInv, NEW t \in Tickets, SaveStarted(t)
  PROVE  LaunchInv'
<1>1. /\ TicketInv(t) /\ tk[t] \in TicketRecords
      /\ tk[t].pc = "publish" /\ tk[t].starting /\ ~tk[t].complete
      /\ journal[t].state # "none" /\ child[t] \in {"alive", "dead"} /\ runs[t].pc = "owned"
      /\ tk[t].descriptor.state # "none" /\ tk[t].descriptor \in Snapshots
  BY Known DEF SaveStarted, TicketInv, TicketRecords
<1>2. UNCHANGED <<tickets, callers, runs, child, recovery, pending, active>>
  BY DEF SaveStarted
<1>3. PICK ok \in BOOLEAN :
        /\ SaveLaunch(t, tk[t].descriptor, ok)
        /\ tk' = [tk EXCEPT ![t] = [@ EXCEPT !.pc = "complete",
                                             !.err = IF ok THEN tk[t].err ELSE "unknown"]]
  BY DEF SaveStarted
<1>4. /\ journal' \in [Tickets -> Snapshots] /\ \A s \in Tickets \ {t} : journal'[s] = journal[s]
      /\ journal'[t].state # "none"
  BY <1>1, <1>3, Known, SaveLaunchLemma
<1>5. /\ tk' \in [Tickets -> TicketRecords] /\ OthersKept(t) /\ TicketKeeps(t)
      /\ tk'[t].pc = "complete" /\ tk'[t].err \in {tk[t].err, "unknown"}
  <2> DEFINE e == IF ok THEN tk[t].err ELSE "unknown"
  <2>1. e \in Errors /\ e \in {tk[t].err, "unknown"}
    BY <1>1 DEF Errors, TicketRecords
  <2>2. tk' = [tk EXCEPT ![t] = [@ EXCEPT !.pc = "complete", !.err = e]]
    BY <1>3
  <2>3. "complete" \in CoordinatorSteps
    BY DEF CoordinatorSteps
  <2> HIDE DEF e
  <2> QED BY <2>1, <2>2, <2>3, Known, TicketMoves
<1>6. TicketInv(t)'
  <2>1. tk'[t].starting /\ ~tk'[t].complete /\ ~tk'[t].aborted
    BY <1>1, <1>5 DEF TicketKeeps, TicketInv
  <2>2. tk[t].err # "error"
    BY <1>1 DEF TicketInv
  <2>3. tk'[t].err = "none" => tk[t].err = "none"
    BY <1>5
  <2> QED BY <1>1, <1>2, <1>4, <1>5, <2>1, <2>2, <2>3 DEF TicketInv, TicketKeeps
<1>7. ~HoldsPending(t) /\ ~HoldsPending(t)'
  BY <1>1, <1>5 DEF HoldsPending
<1> QED BY <1>2, <1>4, <1>5, <1>6, <1>7, Known, QuietStep DEF TicketKeeps

(* The ticket is answered and the run handed to its reconcile goroutine.     *)
LEMMA CompleteLaunchStep ==
  ASSUME LaunchInv, NEW t \in Tickets, CompleteLaunch(t)
  PROVE  LaunchInv'
<1> DEFINE uncertain == tk[t].err = "unknown"
           run == [runs[t] EXCEPT !.pc = "wait", !.uncertain = runs[t].uncertain \/ uncertain,
                                  !.published = ~uncertain]
           result == Snapshot(runs[t].state, runs[t].uncertain \/ uncertain)
<1>1. /\ TicketInv(t) /\ tk[t] \in TicketRecords /\ runs[t] \in RunRecords
      /\ tk[t].pc = "complete" /\ tk[t].starting /\ ~tk[t].complete /\ ~tk[t].aborted
      /\ journal[t].state # "none" /\ child[t] \in {"alive", "dead"} /\ runs[t].pc = "owned"
  BY Known DEF CompleteLaunch, TicketInv
<1>2. UNCHANGED <<tickets, callers, child, journal, recovery, pending, active>>
  BY DEF CompleteLaunch
<1>3. /\ run \in RunRecords /\ run.pc = "wait"
      /\ run.exitKnown = runs[t].exitKnown /\ run.state = runs[t].state
  BY <1>1 DEF RunRecords, RunSteps
<1>4. /\ runs' \in [Tickets -> RunRecords] /\ \A s \in Tickets \ {t} : runs'[s] = runs[s]
      /\ runs'[t].pc = "wait" /\ runs'[t].exitKnown = runs[t].exitKnown
      /\ runs'[t].state = runs[t].state
  BY <1>3, Known DEF CompleteLaunch
<1>5. result \in Snapshots
  BY <1>1 DEF RunRecords, Snapshots, Snapshot
<1> HIDE DEF result
<1>6. [tk[t] EXCEPT !.pc = "done", !.complete = TRUE, !.result = result] \in TicketRecords
  BY <1>1, <1>5 DEF TicketRecords, CoordinatorSteps
<1>7. /\ tk' \in [Tickets -> TicketRecords] /\ OthersKept(t)
      /\ tk'[t] = [tk[t] EXCEPT !.pc = "done", !.complete = TRUE, !.result = result]
  BY <1>6, Known DEF CompleteLaunch, OthersKept, result
<1>8. /\ tk'[t].id = tk[t].id /\ tk'[t].waiters = tk[t].waiters /\ tk'[t].pc = "done"
      /\ tk'[t].starting = tk[t].starting /\ tk'[t].complete
      /\ tk'[t].aborted = tk[t].aborted /\ tk'[t].abandoned = tk[t].abandoned
      /\ tk'[t].err = tk[t].err
  BY <1>1, <1>7 DEF TicketRecords
<1> HIDE DEF run, uncertain
<1>9. TicketInv(t)'
  <2>1. tk'[t].starting /\ ~tk'[t].aborted
    BY <1>1, <1>8
  <2> QED BY <1>1, <1>2, <1>4, <1>8, <2>1 DEF TicketInv
<1>10. OwnStep(t)
  BY <1>2, <1>4, <1>7, <1>8 DEF OwnStep, OthersKept
<1>11. ReservationAccounting'
  <2>1. /\ ~HoldsPending(t) /\ ~HoldsPending(t)'
        /\ HoldsActive(t) /\ HoldsActive(t)'
    BY <1>1, <1>4, <1>8 DEF HoldsPending, HoldsActive
  <2> QED BY <1>2, <1>4, <1>7, <2>1, Known, Accounting DEF OthersKept
<1>12. LaunchTypeOK'
  BY <1>2, <1>4, <1>7 DEF LaunchInv, LaunchTypeOK
<1> QED BY <1>2, <1>9, <1>10, <1>11, <1>12, Known, OwnStepLemma

(* The uncertain failure is saved.                                           *)
LEMMA SaveUncertainFailureStep ==
  ASSUME LaunchInv, NEW t \in Tickets, SaveUncertainFailure(t)
  PROVE  LaunchInv'
<1>1. /\ TicketInv(t) /\ tk[t] \in TicketRecords /\ tk[t].result \in Snapshots
      /\ tk[t].pc = "failSave" /\ tk[t].starting /\ ~tk[t].complete /\ ~tk[t].aborted
      /\ tk[t].err = "unknown" /\ runs[t].pc = "absent"
  BY Known DEF SaveUncertainFailure, TicketInv, TicketRecords, RunRecords, RunSteps
<1>2. /\ UNCHANGED <<tickets, callers, runs, child, recovery, pending, active>>
      /\ Goto(t, "failDone")
  BY DEF SaveUncertainFailure
<1>3. /\ journal' \in [Tickets -> Snapshots] /\ \A s \in Tickets \ {t} : journal'[s] = journal[s]
      /\ journal[t].state # "none" => journal'[t].state # "none"
  <2>1. PICK ok \in BOOLEAN : SaveLaunch(t, tk[t].result, ok)
    BY DEF SaveUncertainFailure
  <2>2. tk[t].result.state # "none"
    BY Known DEF TicketInv, SaveUncertainFailure
  <2> QED BY <1>1, <2>1, <2>2, Known, SaveLaunchLemma
<1>4. /\ tk' \in [Tickets -> TicketRecords] /\ OthersKept(t) /\ TicketKeeps(t)
      /\ tk'[t].pc = "failDone" /\ tk'[t].err = tk[t].err
  BY <1>2, Known, TicketGoes DEF CoordinatorSteps
<1>5. TicketInv(t)'
  <2>1. tk'[t].starting /\ ~tk'[t].complete /\ ~tk'[t].aborted
    BY <1>1, <1>4 DEF TicketKeeps
  <2> QED BY <1>1, <1>2, <1>3, <1>4, <2>1 DEF TicketInv, TicketKeeps
<1>6. HoldsPending(t) /\ HoldsPending(t)'
  BY <1>1, <1>4 DEF HoldsPending
<1> QED BY <1>2, <1>3, <1>4, <1>5, <1>6, Known, QuietStep DEF TicketKeeps

(* The uncertain failure is announced and keeps its reservation.             *)
LEMMA FailDoneStep ==
  ASSUME LaunchInv, NEW t \in Tickets, FailDone(t)
  PROVE  LaunchInv'
<1>1. /\ TicketInv(t) /\ tk[t] \in TicketRecords
      /\ tk[t].pc = "failDone" /\ tk[t].starting /\ ~tk[t].complete /\ ~tk[t].aborted
      /\ tk[t].err = "unknown" /\ runs[t].pc = "absent"
  BY Known DEF FailDone, TicketInv, RunRecords, RunSteps
<1>2. UNCHANGED <<tickets, callers, runs, child, journal, recovery, pending, active>>
  BY DEF FailDone
<1>3. [tk[t] EXCEPT !.pc = "done", !.complete = TRUE] \in TicketRecords
  BY <1>1 DEF TicketRecords, CoordinatorSteps
<1>4. /\ tk' \in [Tickets -> TicketRecords] /\ OthersKept(t)
      /\ tk'[t] = [tk[t] EXCEPT !.pc = "done", !.complete = TRUE]
  BY <1>3, Known DEF FailDone, OthersKept
<1>5. /\ tk'[t].id = tk[t].id /\ tk'[t].waiters = tk[t].waiters /\ tk'[t].pc = "done"
      /\ tk'[t].starting = tk[t].starting /\ tk'[t].complete
      /\ tk'[t].aborted = tk[t].aborted /\ tk'[t].abandoned = tk[t].abandoned
      /\ tk'[t].err = tk[t].err
  BY <1>1, <1>4 DEF TicketRecords
<1>6. TicketInv(t)'
  <2>1. tk'[t].starting /\ ~tk'[t].aborted
    BY <1>1, <1>5
  <2>2. child[t] \in {"none", "lost"}
    BY <1>1 DEF TicketInv
  <2> QED BY <1>1, <1>2, <1>5, <2>1, <2>2 DEF TicketInv
<1>7. HoldsPending(t) /\ HoldsPending(t)'
  BY <1>1, <1>2, <1>5 DEF HoldsPending
<1> QED BY <1>2, <1>4, <1>5, <1>6, <1>7, Known, QuietStep

(* fail, whose aborted case also removes the ticket from the request map.    *)
LEMMA FailStep ==
  ASSUME LaunchInv, NEW t \in Tickets, Fail(t)
  PROVE  LaunchInv'
<1> DEFINE uncertain == StartUncertain(t)
           aborted == ~tk[t].starting /\ tk[t].abandoned
           d == tk[t].descriptor
           marked == Snapshot(d.state, d.uncertain \/ uncertain)
           failed == [tk[t] EXCEPT !.aborted = aborted,
                                   !.err = IF aborted THEN "none" ELSE tk[t].err,
                                   !.descriptor = marked,
                                   !.result = IF tk[t].starting THEN marked ELSE tk[t].result]
<1>1. /\ TicketInv(t) /\ tk[t] \in TicketRecords /\ tk \in [Tickets -> TicketRecords]
      /\ tk[t].pc = "failing" /\ ~tk[t].complete /\ ~tk[t].aborted
      /\ tk[t].err # "none" /\ runs[t].pc = "absent" /\ ~runs[t].exitKnown
      /\ child[t] \in {"none", "lost"} /\ tk[t].id \in RequestIDs /\ tickets[tk[t].id] = t
  BY Known DEF Fail, TicketInv, RunRecords, RunSteps
<1>2. UNCHANGED <<callers, runs, child, journal, recovery, active>>
  BY DEF Fail
<1>3. /\ marked \in Snapshots /\ marked.state = tk[t].descriptor.state
      /\ uncertain \in BOOLEAN /\ aborted \in BOOLEAN
  BY <1>1 DEF Snapshots, Snapshot, TicketRecords, StartUncertain
<1>4. /\ failed \in TicketRecords
      /\ failed.id = tk[t].id /\ failed.waiters = tk[t].waiters
      /\ failed.starting = tk[t].starting /\ failed.complete = tk[t].complete
      /\ failed.aborted = aborted /\ failed.abandoned = tk[t].abandoned
      /\ failed.canceled = tk[t].canceled /\ failed.descriptor = marked
      /\ failed.err = IF aborted THEN "none" ELSE tk[t].err
      /\ failed.result = IF tk[t].starting THEN marked ELSE tk[t].result
  <2> HIDE DEF marked, aborted
  <2> QED BY <1>1, <1>3 DEF TicketRecords
<1>5. /\ Fail(t) => /\ tickets' = IF aborted THEN [tickets EXCEPT ![tk[t].id] = None] ELSE tickets
                    /\ IF uncertain
                       THEN /\ tk' = [tk EXCEPT ![t] = [failed EXCEPT !.pc = "failSave"]]
                            /\ pending' = pending
                       ELSE /\ tk' = [tk EXCEPT ![t] = [failed EXCEPT !.pc = "done", !.complete = TRUE]]
                            /\ pending' = pending - 1
      /\ uncertain <=> tk[t].starting /\ tk[t].err = "unknown"
      /\ aborted <=> ~tk[t].starting /\ tk[t].abandoned
  BY DEF Fail, StartUncertain
<1> HIDE DEF uncertain, aborted, d, marked, failed
<1>6. CASE uncertain
  <2>1. [failed EXCEPT !.pc = "failSave"] \in TicketRecords
    BY <1>4 DEF TicketRecords, CoordinatorSteps
  <2>2. /\ tk' \in [Tickets -> TicketRecords] /\ OthersKept(t)
        /\ tk'[t] = [failed EXCEPT !.pc = "failSave"]
        /\ tickets' = tickets /\ pending' = pending /\ ~aborted /\ tk[t].starting
        /\ tk[t].err = "unknown"
    BY <1>1, <1>5, <1>6, <2>1 DEF OthersKept
  <2>3. /\ tk'[t].id = tk[t].id /\ tk'[t].waiters = tk[t].waiters /\ tk'[t].pc = "failSave"
        /\ tk'[t].starting = tk[t].starting /\ tk'[t].complete = tk[t].complete
        /\ tk'[t].aborted = aborted /\ tk'[t].abandoned = tk[t].abandoned
        /\ tk'[t].canceled = tk[t].canceled /\ tk'[t].err = "unknown" /\ tk'[t].result = marked
    BY <1>4, <2>2 DEF TicketRecords
  <2>4. tk'[t].starting /\ ~tk'[t].complete /\ ~tk'[t].aborted
    BY <1>1, <2>2, <2>3
  <2>5. TicketInv(t)'
    <3>1. tk'[t].result.state # "none"
      BY <1>1, <1>3, <2>2, <2>3 DEF TicketInv
    <3> QED BY <1>1, <1>2, <2>2, <2>3, <2>4, <3>1 DEF TicketInv
  <2>6. HoldsPending(t) /\ HoldsPending(t)'
    BY <1>1, <2>3 DEF HoldsPending
  <2>7. tk'[t].aborted = tk[t].aborted
    BY <1>1, <2>1, <2>2, <2>3, <2>4 DEF TicketRecords
  <2> QED BY <1>2, <2>2, <2>3, <2>5, <2>6, <2>7, Known, QuietStep
<1>7. CASE ~uncertain
  <2>1. [failed EXCEPT !.pc = "done", !.complete = TRUE] \in TicketRecords
    BY <1>4 DEF TicketRecords, CoordinatorSteps
  <2>2. /\ tk' \in [Tickets -> TicketRecords] /\ OthersKept(t)
        /\ tk'[t] = [failed EXCEPT !.pc = "done", !.complete = TRUE]
        /\ pending' = pending - 1
    BY <1>1, <1>5, <1>7, <2>1 DEF OthersKept
  <2>3. /\ tk'[t].id = tk[t].id /\ tk'[t].waiters = tk[t].waiters /\ tk'[t].pc = "done"
        /\ tk'[t].starting = tk[t].starting /\ tk'[t].complete
        /\ tk'[t].aborted = aborted /\ tk'[t].abandoned = tk[t].abandoned
        /\ tk'[t].canceled = tk[t].canceled
        /\ tk'[t].err = IF aborted THEN "none" ELSE tk[t].err
    BY <1>4, <2>2 DEF TicketRecords
  <2>4. ReservationAccounting' /\ pending' \in Nat /\ active' \in Nat
    <3>1. /\ HoldsPending(t) /\ ~HoldsPending(t)' /\ (HoldsActive(t)' <=> HoldsActive(t))
      BY <1>1, <1>2, <1>5, <1>7, <2>3 DEF HoldsPending, HoldsActive
    <3> QED BY <1>2, <2>2, <3>1, Known, Accounting DEF OthersKept
  <2>5. pending' + active' <= pending + active
    BY <1>2, <2>2, Known
  <2>6. CASE ~aborted
    <3>1. tickets' = tickets /\ ~tk'[t].aborted /\ tk'[t].err = tk[t].err
      BY <1>5, <2>3, <2>6
    <3>2. LaunchTypeOK'
      BY <1>2, <2>2, <2>4, <3>1 DEF LaunchInv, LaunchTypeOK
    <3>3. tk'[t].aborted = tk[t].aborted
      BY <1>1, <2>2, <3>1 DEF TicketRecords
    <3>4. OwnStep(t)
      BY <1>2, <2>2, <2>3, <3>1, <3>3 DEF OwnStep, OthersKept
    <3>5. TicketInv(t)'
      BY <1>1, <1>2, <2>3, <3>1 DEF TicketInv
    <3> QED BY <2>4, <2>5, <3>2, <3>4, <3>5, OwnStepLemma
  <2>7. CASE aborted
    <3>1. /\ tickets' = [tickets EXCEPT ![tk[t].id] = None]
          /\ tk'[t].aborted /\ ~tk[t].starting /\ ~tk'[t].starting /\ tk'[t].err = "none"
      BY <1>5, <2>3, <2>7
    <3>2. LaunchTypeOK'
      BY <1>1, <1>2, <2>2, <2>4, <3>1 DEF LaunchInv, LaunchTypeOK
    <3>3. TicketInv(t)'
      <4>1. child[t] = "none" /\ journal[t].state = "none"
        BY <1>1, <3>1 DEF TicketInv
      <4> QED BY <1>1, <1>2, <2>3, <3>1, <4>1 DEF TicketInv
    <3>4. ASSUME NEW s \in Tickets, s # t PROVE TicketInv(s)'
      <4> TicketInv(s)
        BY Known
      <4>1. tk[s].pc # "unused" /\ ~tk[s].aborted => tk[s].id # tk[t].id /\ tk[s].id \in RequestIDs
        <5>1. tk[s].pc # "unused" /\ ~tk[s].aborted => tickets[tk[s].id] = s /\ tk[s].id \in RequestIDs
          BY DEF TicketInv
        <5> QED BY <1>1, <3>4, <5>1
      <4>2. tickets \in [RequestIDs -> Tickets \cup {None}]
        BY DEF LaunchInv, LaunchTypeOK
      <4>3. tk[s].pc # "unused" /\ ~tk[s].aborted => tickets'[tk[s].id] = tickets[tk[s].id]
        BY <3>1, <4>1, <4>2
      <4> QED BY <1>2, <2>2, <3>4, <4>3, Known, TicketFrame DEF OthersKept
    <3>5. TicketMapInv'
      <4> SUFFICES ASSUME NEW i \in RequestIDs, tickets'[i] # None
                   PROVE  /\ tk'[tickets'[i]].id = i
                          /\ tk'[tickets'[i]].pc # "unused"
                          /\ ~tk'[tickets'[i]].aborted
        BY DEF TicketMapInv
      <4>1. tickets \in [RequestIDs -> Tickets \cup {None}]
        BY DEF LaunchInv, LaunchTypeOK
      <4>2. i # tk[t].id /\ tickets'[i] = tickets[i]
        BY <1>1, <3>1, <4>1
      <4>3. /\ tickets[i] \in Tickets /\ tk[tickets[i]].id = i
            /\ tk[tickets[i]].pc # "unused" /\ ~tk[tickets[i]].aborted
        BY <4>1, <4>2 DEF LaunchInv, TicketMapInv
      <4>4. tickets[i] # t
        BY <4>2, <4>3
      <4> QED BY <2>2, <4>2, <4>3, <4>4 DEF OthersKept
    <3>6. CallerInv'
      BY <1>2, <2>2, <2>3 DEF LaunchInv, CallerInv, OthersKept
    <3>7. WaitersCounted'
      <4>1. \A s \in Tickets : tk'[s].waiters = tk[s].waiters
        BY <2>2, <2>3 DEF OthersKept
      <4>2. WaitersCounted /\ callers' = callers
        BY <1>2 DEF LaunchInv
      <4> QED BY <4>1, <4>2 DEF WaitersCounted
    <3>8. pending' + active' <= MaxActiveRuns
      BY <2>4, <2>5, RoomKept
    <3> QED BY <2>4, <3>2, <3>3, <3>4, <3>5, <3>6, <3>7, <3>8 DEF LaunchInv
  <2> QED BY <2>6, <2>7
<1> QED BY <1>6, <1>7


-----------------------------------------------------------------------------
(* The steps of the child and of the reconcile goroutine: the ticket records *)
(* stay, and the run keeps its place or gives its reservation back.          *)
LEMMA RunStep ==
  ASSUME LaunchInv, NEW t \in Tickets, TicketInv(t)',
         UNCHANGED <<tickets, tk, callers, pending>>,
         runs' \in [Tickets -> RunRecords], child' \in [Tickets -> ChildStates],
         journal' \in [Tickets -> Snapshots], recovery' \subseteq Tickets,
         \A s \in Tickets \ {t} : /\ runs'[s] = runs[s] /\ child'[s] = child[s]
                                  /\ journal'[s] = journal[s],
         runs'[t].pc = "absent" <=> runs[t].pc = "absent",
         \/ active' = active /\ (HoldsActive(t)' <=> HoldsActive(t))
         \/ active' = active - 1 /\ HoldsActive(t) /\ ~HoldsActive(t)'
  PROVE  LaunchInv'
<1>1. OwnStep(t)
  BY DEF OwnStep
<1>2. ReservationAccounting' /\ pending' \in Nat /\ active' \in Nat
  <2>1. HoldsPending(t)' <=> HoldsPending(t)
    BY DEF HoldsPending
  <2> QED BY <2>1, Known, Accounting
<1>3. LaunchTypeOK'
  BY <1>2 DEF LaunchInv, LaunchTypeOK
<1>4. pending' + active' <= pending + active
  <2>1. pending \in Nat /\ active \in Nat
    BY Known
  <2> QED BY <2>1
<1> QED BY <1>1, <1>2, <1>3, <1>4, OwnStepLemma

(* A child exits.                                                            *)
LEMMA ChildExitsStep ==
  ASSUME LaunchInv, NEW t \in Tickets, ChildExits(t)
  PROVE  LaunchInv'
<1>1. TicketInv(t) /\ child \in [Tickets -> ChildStates] /\ recovery \subseteq Tickets
  BY Known DEF LaunchInv, LaunchTypeOK
<1>2. /\ child[t] = "alive" /\ child' = [child EXCEPT ![t] = "dead"]
      /\ UNCHANGED <<tickets, tk, callers, runs, journal, recovery, pending, active>>
  BY DEF ChildExits
<1>3. /\ child' \in [Tickets -> ChildStates] /\ child'[t] = "dead"
      /\ \A s \in Tickets \ {t} : child'[s] = child[s]
  BY <1>1, <1>2 DEF ChildStates
<1>4. TicketInv(t)'
  BY <1>1, <1>2, <1>3 DEF TicketInv
<1>5. HoldsActive(t)' <=> HoldsActive(t)
  BY <1>2 DEF HoldsActive
<1> QED BY <1>1, <1>2, <1>3, <1>4, <1>5, Known, RunStep

(* child.Wait returns to the reconcile goroutine.                            *)
LEMMA WaitReturnedStep ==
  ASSUME LaunchInv, NEW t \in Tickets, WaitReturned(t)
  PROVE  LaunchInv'
<1>1. /\ TicketInv(t) /\ runs \in [Tickets -> RunRecords] /\ runs[t] \in RunRecords
      /\ runs[t].pc = "wait" /\ recovery \subseteq Tickets
  BY Known DEF LaunchInv, LaunchTypeOK, WaitReturned
<1>2. UNCHANGED <<tickets, tk, callers, child, journal, recovery, pending, active>>
  BY DEF WaitReturned
<1>3. /\ runs' \in [Tickets -> RunRecords] /\ \A s \in Tickets \ {t} : runs'[s] = runs[s]
      /\ runs'[t].pc = "save"
      /\ child[t] = "dead" \/ runs'[t].exitKnown = runs[t].exitKnown
      /\ runs'[t].state \in {runs[t].state, "exited"}
  <2>1. CASE /\ child[t] = "dead"
             /\ runs' = [runs EXCEPT ![t] = [@ EXCEPT !.pc = "save", !.state = "exited",
                                                      !.exitKnown = TRUE]]
    <3>1. [runs[t] EXCEPT !.pc = "save", !.state = "exited", !.exitKnown = TRUE] \in RunRecords
      BY <1>1 DEF RunRecords, RunSteps, RunStates
    <3>2. runs'[t] = [runs[t] EXCEPT !.pc = "save", !.state = "exited", !.exitKnown = TRUE]
      BY <1>1, <2>1
    <3>3. runs'[t].pc = "save" /\ runs'[t].state = "exited"
      BY <1>1, <3>2 DEF RunRecords
    <3> QED BY <1>1, <2>1, <3>1, <3>3
  <2>2. CASE runs' = [runs EXCEPT ![t] = [@ EXCEPT !.pc = "save", !.uncertain = TRUE,
                                                   !.published = FALSE]]
    <3>1. [runs[t] EXCEPT !.pc = "save", !.uncertain = TRUE, !.published = FALSE] \in RunRecords
      BY <1>1 DEF RunRecords, RunSteps
    <3>2. runs'[t] = [runs[t] EXCEPT !.pc = "save", !.uncertain = TRUE, !.published = FALSE]
      BY <1>1, <2>2
    <3>3. /\ runs'[t].pc = "save" /\ runs'[t].exitKnown = runs[t].exitKnown
          /\ runs'[t].state = runs[t].state
      BY <1>1, <3>2 DEF RunRecords
    <3> QED BY <1>1, <2>2, <3>1, <3>3
  <2> QED BY <2>1, <2>2 DEF WaitReturned
<1>4. TicketInv(t)'
  BY <1>1, <1>2, <1>3 DEF TicketInv
<1>5. HoldsActive(t) /\ HoldsActive(t)'
  BY <1>1, <1>3 DEF HoldsActive
<1> QED BY <1>1, <1>2, <1>3, <1>4, <1>5, Known, RunStep

(* The reconcile goroutine saves the outcome.                                *)
LEMMA SaveExitStep ==
  ASSUME LaunchInv, NEW t \in Tickets, SaveExit(t)
  PROVE  LaunchInv'
<1>1. /\ TicketInv(t) /\ runs \in [Tickets -> RunRecords] /\ runs[t] \in RunRecords
      /\ runs[t].pc = "save" /\ recovery \subseteq Tickets /\ journal \in [Tickets -> Snapshots]
  BY Known DEF LaunchInv, LaunchTypeOK, SaveExit
<1>2. UNCHANGED <<tickets, tk, callers, child, recovery, pending, active>>
  BY DEF SaveExit
<1> DEFINE snapshot == Snapshot(runs[t].state, runs[t].uncertain)
<1>3. PICK ok \in BOOLEAN :
        /\ SaveLaunch(t, snapshot, ok)
        /\ runs' = [runs EXCEPT ![t] = [@ EXCEPT !.saveErr = ~ok, !.pc = AfterSaveExit(t, ok)]]
  BY DEF SaveExit
<1>4. snapshot \in Snapshots /\ snapshot.state = runs[t].state
  BY <1>1 DEF RunRecords, Snapshots, Snapshot
<1> HIDE DEF snapshot
<1>5. /\ journal' \in [Tickets -> Snapshots] /\ \A s \in Tickets \ {t} : journal'[s] = journal[s]
      /\ journal'[t] = journal[t] \/ journal'[t] = snapshot
  BY <1>1, <1>3, <1>4, SaveLaunchLemma
<1>6. AfterSaveExit(t, ok) \in {"recover", "finish"}
  BY DEF AfterSaveExit
<1>7. /\ runs' \in [Tickets -> RunRecords] /\ \A s \in Tickets \ {t} : runs'[s] = runs[s]
      /\ runs'[t].pc \in {"recover", "finish"} /\ runs'[t].exitKnown = runs[t].exitKnown
      /\ runs'[t].state = runs[t].state
  <2> DEFINE x == AfterSaveExit(t, ok)
             run == [runs[t] EXCEPT !.saveErr = ~ok, !.pc = x]
  <2>1. x \in {"recover", "finish"}
    BY <1>6
  <2> HIDE DEF x
  <2>2. /\ run \in RunRecords /\ run.pc = x /\ run.exitKnown = runs[t].exitKnown
        /\ run.state = runs[t].state
    BY <1>1, <2>1 DEF RunRecords, RunSteps
  <2>3. runs' = [runs EXCEPT ![t] = run]
    BY <1>3 DEF x
  <2> HIDE DEF run
  <2> QED BY <1>1, <2>1, <2>2, <2>3
<1>8. TicketInv(t)'
  <2>1. journal[t].state # "none" => journal'[t].state # "none"
    <3>1. runs[t].state # "none"
      BY <1>1 DEF TicketInv
    <3> QED BY <1>4, <1>5, <3>1
  <2> QED BY <1>1, <1>2, <1>7, <2>1 DEF TicketInv
<1>9. HoldsActive(t) /\ HoldsActive(t)'
  BY <1>1, <1>7 DEF HoldsActive
<1> QED BY <1>1, <1>2, <1>5, <1>7, <1>8, <1>9, Known, RunStep

(* Optional recovery evidence is written.                                    *)
LEMMA PersistOwnedRecoveryStep ==
  ASSUME LaunchInv, NEW t \in Tickets, PersistOwnedRecovery(t)
  PROVE  LaunchInv'
<1>1. /\ TicketInv(t) /\ runs \in [Tickets -> RunRecords] /\ runs[t] \in RunRecords
      /\ runs[t].pc = "recover" /\ recovery \subseteq Tickets
  BY Known DEF LaunchInv, LaunchTypeOK, PersistOwnedRecovery
<1>2. /\ UNCHANGED <<tickets, tk, callers, child, journal, pending, active>>
      /\ recovery' \subseteq Tickets
  BY <1>1 DEF PersistOwnedRecovery
<1>3. /\ runs' \in [Tickets -> RunRecords] /\ \A s \in Tickets \ {t} : runs'[s] = runs[s]
      /\ runs'[t].pc = "finish" /\ runs'[t].exitKnown = runs[t].exitKnown
      /\ runs'[t].state = runs[t].state
  <2> DEFINE run == [runs[t] EXCEPT !.pc = "finish"]
  <2>1. /\ run \in RunRecords /\ run.pc = "finish" /\ run.exitKnown = runs[t].exitKnown
        /\ run.state = runs[t].state
    BY <1>1 DEF RunRecords, RunSteps
  <2>2. runs' = [runs EXCEPT ![t] = run]
    BY DEF PersistOwnedRecovery
  <2> HIDE DEF run
  <2> QED BY <1>1, <2>1, <2>2
<1>4. TicketInv(t)'
  BY <1>1, <1>2, <1>3 DEF TicketInv
<1>5. HoldsActive(t) /\ HoldsActive(t)'
  BY <1>1, <1>3 DEF HoldsActive
<1> QED BY <1>1, <1>2, <1>3, <1>4, <1>5, Known, RunStep

(* The last section of reconcile: a known exit gives its reservation back.   *)
LEMMA FinishReconcileStep ==
  ASSUME LaunchInv, NEW t \in Tickets, FinishReconcile(t)
  PROVE  LaunchInv'
<1>1. /\ TicketInv(t) /\ runs \in [Tickets -> RunRecords] /\ runs[t] \in RunRecords
      /\ runs[t].pc = "finish" /\ recovery \subseteq Tickets
  BY Known DEF LaunchInv, LaunchTypeOK, FinishReconcile
<1>2. /\ UNCHANGED <<tickets, tk, callers, child, journal, recovery, pending>>
      /\ active' = IF runs[t].exitKnown THEN active - 1 ELSE active
  BY DEF FinishReconcile, ActiveAfter
<1>3. /\ runs' \in [Tickets -> RunRecords] /\ \A s \in Tickets \ {t} : runs'[s] = runs[s]
      /\ runs'[t].pc = "done" /\ runs'[t].exitKnown = runs[t].exitKnown
      /\ runs'[t].state = runs[t].state
  <2> DEFINE run == [runs[t] EXCEPT !.pc = "done",
                                    !.uncertain = runs[t].uncertain \/ runs[t].saveErr,
                                    !.published = runs[t].published /\ ~runs[t].saveErr]
  <2>1. /\ run \in RunRecords /\ run.pc = "done" /\ run.exitKnown = runs[t].exitKnown
        /\ run.state = runs[t].state
    BY <1>1 DEF RunRecords, RunSteps
  <2>2. runs' = [runs EXCEPT ![t] = run]
    BY DEF FinishReconcile
  <2> HIDE DEF run
  <2> QED BY <1>1, <2>1, <2>2
<1>4. TicketInv(t)'
  BY <1>1, <1>2, <1>3 DEF TicketInv
<1>5. HoldsActive(t) /\ (HoldsActive(t)' <=> ~runs[t].exitKnown)
  BY <1>1, <1>3 DEF HoldsActive
<1>6. \/ active' = active /\ (HoldsActive(t)' <=> HoldsActive(t))
      \/ active' = active - 1 /\ HoldsActive(t) /\ ~HoldsActive(t)'
  BY <1>2, <1>5
<1> QED BY <1>1, <1>2, <1>3, <1>4, <1>6, Known, RunStep

-----------------------------------------------------------------------------
(* The steps of the callers.                                                 *)

Waiting(t) == {c \in Callers : callers[c].pc = "wait" /\ callers[c].ticket = t}

(* The number of waiters is a natural number, positive while there is one.   *)
LEMMA WaitersKnown ==
  ASSUME LaunchInv, NEW t \in Tickets
  PROVE  /\ tk[t].waiters = Cardinality(Waiting(t)) /\ IsFiniteSet(Waiting(t))
         /\ tk[t].waiters \in Nat
         /\ \A c \in Waiting(t) : tk[t].waiters - 1 \in Nat
         /\ tk[t].pc = "unused" => tk[t].waiters = 0
<1>1. tk[t].waiters = Cardinality(Waiting(t))
  BY DEF LaunchInv, WaitersCounted, Waiting
<1>2. IsFiniteSet(Waiting(t))
  <2>1. Waiting(t) \subseteq Callers
    BY DEF Waiting
  <2> QED BY <2>1, FS_Subset, ConstantsAssumption
<1>3. tk[t].waiters \in Nat
  BY <1>1, <1>2, FS_CardinalityType
<1>4. ASSUME NEW c \in Waiting(t) PROVE tk[t].waiters - 1 \in Nat
  <2>1. IsFiniteSet(Waiting(t) \ {c}) /\ Cardinality(Waiting(t) \ {c}) = Cardinality(Waiting(t)) - 1
    BY <1>2, FS_RemoveElement
  <2> QED BY <1>1, <2>1, FS_CardinalityType
<1>5. ASSUME tk[t].pc = "unused" PROVE tk[t].waiters = 0
  <2>1. Waiting(t) = {}
    BY <1>5 DEF Waiting, LaunchInv, CallerInv
  <2> QED BY <1>1, <2>1, FS_EmptySet
<1> QED BY <1>1, <1>2, <1>3, <1>4, <1>5

(* A step of one caller that adjusts the counts of the tickets it enters or  *)
(* leaves keeps every count right.                                           *)
LEMMA WaitersStep ==
  ASSUME LaunchInv, NEW c \in Callers, \A d \in Callers \ {c} : callers'[d] = callers[d],
         \A s \in Tickets :
           \/ tk'[s].waiters = tk[s].waiters /\ (c \in Waiting(s) <=> c \in Waiting(s)')
           \/ tk'[s].waiters = tk[s].waiters + 1 /\ c \notin Waiting(s) /\ c \in Waiting(s)'
           \/ tk'[s].waiters = tk[s].waiters - 1 /\ c \in Waiting(s) /\ c \notin Waiting(s)'
  PROVE  WaitersCounted'
<1> SUFFICES ASSUME NEW s \in Tickets PROVE tk'[s].waiters = Cardinality(Waiting(s)')
  BY DEF WaitersCounted, Waiting
<1>1. Waiting(s) \ {c} = Waiting(s)' \ {c}
  BY DEF Waiting
<1>2. tk[s].waiters = Cardinality(Waiting(s)) /\ IsFiniteSet(Waiting(s))
  BY WaitersKnown
<1>3. /\ (c \in Waiting(s) <=> c \in Waiting(s)') => Cardinality(Waiting(s)') = Cardinality(Waiting(s))
      /\ c \in Waiting(s) /\ c \notin Waiting(s)' => Cardinality(Waiting(s)') = Cardinality(Waiting(s)) - 1
      /\ c \notin Waiting(s) /\ c \in Waiting(s)' => Cardinality(Waiting(s)') = Cardinality(Waiting(s)) + 1
  BY <1>1, <1>2, CountChange
<1> QED BY <1>2, <1>3

(* A ticket whose waiters or cancellation change keeps its invariant when    *)
(* what it says of the three fields holds again.                             *)
LEMMA TicketWaiters ==
  ASSUME NEW t \in Tickets, TicketInv(t), UNCHANGED <<tickets, runs, child, journal>>,
         tk'[t].pc = tk[t].pc, tk'[t].id = tk[t].id, tk'[t].starting = tk[t].starting,
         tk'[t].complete = tk[t].complete, tk'[t].aborted = tk[t].aborted, tk'[t].err = tk[t].err,
         tk'[t].descriptor = tk[t].descriptor, tk'[t].result = tk[t].result,
         tk[t].starting => ~tk'[t].abandoned,
         tk'[t].abandoned /\ ~tk[t].complete => tk'[t].canceled,
         tk[t].pc \in {"validate", "validated"} /\ tk'[t].waiters = 0 => tk'[t].canceled
  PROVE  TicketInv(t)'
BY DEF TicketInv

(* A step of a caller that enters or leaves the select of one ticket and     *)
(* changes nothing of that ticket but its waiters and its cancellation.      *)
LEMMA CallerMoves ==
  ASSUME LaunchInv, NEW t \in Tickets, NEW c \in Callers,
         UNCHANGED <<tickets, runs, child, journal, recovery, pending, active>>,
         tk' \in [Tickets -> TicketRecords], OthersKept(t),
         callers' \in [Callers -> CallerRecords], \A d \in Callers \ {c} : callers'[d] = callers[d],
         tk[t].pc # "unused",
         tk'[t].pc = tk[t].pc, tk'[t].id = tk[t].id, tk'[t].starting = tk[t].starting,
         tk'[t].complete = tk[t].complete, tk'[t].aborted = tk[t].aborted, tk'[t].err = tk[t].err,
         tk'[t].descriptor = tk[t].descriptor, tk'[t].result = tk[t].result,
         TicketInv(t)', WaitersCounted',
         callers'[c].pc = "wait" => callers'[c].ticket = t
  PROVE  LaunchInv'
<1>1. LaunchTypeOK'
  BY DEF LaunchInv, LaunchTypeOK
<1>2. ASSUME NEW s \in Tickets PROVE TicketInv(s)'
  <2>1. CASE s # t
    BY <2>1, Known, TicketFrame DEF OthersKept
  <2> QED BY <2>1
<1>3. ReservationAccounting'
  <2>1. (HoldsPending(t)' <=> HoldsPending(t)) /\ (HoldsActive(t)' <=> HoldsActive(t))
    BY DEF HoldsPending, HoldsActive
  <2> QED BY <2>1, Known, Accounting DEF OthersKept
<1>4. TicketMapInv'
  <2> SUFFICES ASSUME NEW i \in RequestIDs, tickets[i] # None
               PROVE  /\ tk'[tickets[i]].id = i
                      /\ tk'[tickets[i]].pc # "unused"
                      /\ ~tk'[tickets[i]].aborted
    BY DEF TicketMapInv
  <2>1. /\ tickets[i] \in Tickets /\ tk[tickets[i]].id = i
        /\ tk[tickets[i]].pc # "unused" /\ ~tk[tickets[i]].aborted
    BY DEF LaunchInv, LaunchTypeOK, TicketMapInv
  <2> QED BY <2>1 DEF OthersKept
<1>5. CallerInv'
  BY DEF LaunchInv, CallerInv, OthersKept
<1>6. pending' + active' <= MaxActiveRuns
  BY DEF LaunchInv
<1> QED BY <1>1, <1>2, <1>3, <1>4, <1>5, <1>6 DEF LaunchInv

(* A caller joins the ticket of its request.                                 *)
LEMMA JoinLaunchStep ==
  ASSUME LaunchInv, NEW c \in Callers, NEW id \in RequestIDs, NEW sel \in Selections,
         JoinLaunch(c, id, sel)
  PROVE  LaunchInv'
<1>0. PICK t \in Tickets : t = tickets[id]
  BY DEF JoinLaunch, LaunchInv, LaunchTypeOK
<1> DEFINE w == [pc |-> "wait", id |-> id, sel |-> sel, ticket |-> t]
<1>1. t \in Tickets /\ tk[t].pc # "unused"
  BY <1>0 DEF JoinLaunch, LaunchInv, TicketMapInv
<1>2. /\ UNCHANGED <<tickets, runs, child, journal, recovery, pending, active>>
      /\ tk' = [tk EXCEPT ![t].waiters = @ + 1]
      /\ callers' = [callers EXCEPT ![c] = w] /\ callers[c].pc # "wait"
  BY <1>0 DEF JoinLaunch, WaitOn, Requesting
<1>3. callers \in [Callers -> CallerRecords] /\ w \in CallerRecords
  BY <1>1 DEF LaunchInv, LaunchTypeOK, CallerRecords
<1>4. /\ callers' \in [Callers -> CallerRecords] /\ \A d \in Callers \ {c} : callers'[d] = callers[d]
      /\ callers'[c].pc = "wait" /\ callers'[c].ticket = t
  BY <1>2, <1>3
<1> HIDE DEF w
<1>5. TicketInv(t) /\ tk[t] \in TicketRecords /\ tk \in [Tickets -> TicketRecords]
  BY <1>1, Known
<1>6. tk[t].waiters \in Nat
  BY <1>1, WaitersKnown
<1>7. [tk[t] EXCEPT !.waiters = tk[t].waiters + 1] \in TicketRecords
  BY <1>5, <1>6 DEF TicketRecords
<1>8. /\ tk' \in [Tickets -> TicketRecords] /\ OthersKept(t)
      /\ tk'[t] = [tk[t] EXCEPT !.waiters = tk[t].waiters + 1]
  BY <1>1, <1>2, <1>5, <1>7 DEF OthersKept
<1>9. /\ tk'[t].pc = tk[t].pc /\ tk'[t].id = tk[t].id /\ tk'[t].starting = tk[t].starting
      /\ tk'[t].complete = tk[t].complete /\ tk'[t].aborted = tk[t].aborted
      /\ tk'[t].abandoned = tk[t].abandoned /\ tk'[t].canceled = tk[t].canceled
      /\ tk'[t].err = tk[t].err /\ tk'[t].descriptor = tk[t].descriptor
      /\ tk'[t].result = tk[t].result /\ tk'[t].waiters = tk[t].waiters + 1
  BY <1>5, <1>8 DEF TicketRecords
<1>10. TicketInv(t)'
  <2>1. tk'[t].waiters # 0
    BY <1>6, <1>9
  <2>2. /\ tk[t].starting => ~tk'[t].abandoned
        /\ tk'[t].abandoned /\ ~tk[t].complete => tk'[t].canceled
    BY <1>5, <1>9 DEF TicketInv
  <2> QED BY <1>1, <1>2, <1>5, <1>9, <2>1, <2>2, TicketWaiters
<1>11. WaitersCounted'
  <2>1. \A s \in Tickets :
          \/ tk'[s].waiters = tk[s].waiters /\ (c \in Waiting(s) <=> c \in Waiting(s)')
          \/ tk'[s].waiters = tk[s].waiters + 1 /\ c \notin Waiting(s) /\ c \in Waiting(s)'
    BY <1>1, <1>2, <1>4, <1>8, <1>9 DEF Waiting, OthersKept
  <2> QED BY <1>4, <2>1, WaitersStep
<1> QED BY <1>1, <1>2, <1>4, <1>8, <1>9, <1>10, <1>11, CallerMoves

(* A call is refused.                                                        *)
LEMMA RefuseLaunchStep ==
  ASSUME LaunchInv, NEW c \in Callers, NEW id \in RequestIDs, NEW sel \in Selections,
         RefuseLaunch(c, id, sel)
  PROVE  LaunchInv'
<1>1. /\ UNCHANGED <<tickets, tk, runs, child, journal, recovery, pending, active>>
      /\ callers' = [callers EXCEPT ![c] = IdleCaller] /\ callers[c].pc # "wait"
  BY DEF RefuseLaunch, Leave, Requesting
<1>2. callers \in [Callers -> CallerRecords] /\ IdleCaller \in CallerRecords /\ IdleCaller.pc # "wait"
  BY DEF LaunchInv, LaunchTypeOK, CallerRecords, IdleCaller
<1>3. /\ callers' \in [Callers -> CallerRecords] /\ \A d \in Callers \ {c} : callers'[d] = callers[d]
      /\ callers'[c].pc # "wait"
  BY <1>1, <1>2
<1>4. LaunchTypeOK'
  BY <1>1, <1>3 DEF LaunchInv, LaunchTypeOK
<1>5. WaitersCounted'
  <2>1. \A s \in Tickets : tk'[s].waiters = tk[s].waiters /\ (c \in Waiting(s) <=> c \in Waiting(s)')
    BY <1>1, <1>3 DEF Waiting
  <2> QED BY <1>3, <2>1, WaitersStep
<1>6. CallerInv' /\ TicketMapInv'
  BY <1>1, <1>3 DEF LaunchInv, CallerInv, TicketMapInv
<1>7. ASSUME NEW s \in Tickets PROVE TicketInv(s)'
  BY <1>1, Known, TicketFrame
<1>8. ReservationAccounting' /\ pending' + active' <= MaxActiveRuns
  <2>1. PendingTickets' = PendingTickets /\ ActiveRuns' = ActiveRuns
    BY <1>1 DEF PendingTickets, ActiveRuns, HoldsPending, HoldsActive
  <2> QED BY <1>1, <2>1 DEF LaunchInv, ReservationAccounting
<1> QED BY <1>4, <1>5, <1>6, <1>7, <1>8 DEF LaunchInv

(* A caller leaves the select: it is answered, or its own context is done.   *)
LEMMA WaiterLeaves ==
  ASSUME LaunchInv, NEW c \in Callers, NEW t \in Tickets,
         callers[c].pc = "wait", callers[c].ticket = t,
         UNCHANGED <<tickets, runs, child, journal, recovery, pending, active>>,
         NEW ab \in BOOLEAN, NEW ca \in BOOLEAN,
         tk' = [tk EXCEPT ![t] = [@ EXCEPT !.waiters = tk[t].waiters - 1,
                                           !.abandoned = ab, !.canceled = ca]],
         NEW r \in CallerRecords, r.pc # "wait", callers' = [callers EXCEPT ![c] = r],
         tk[t].starting => ~ab,
         ab /\ ~tk[t].complete => ca,
         tk[t].pc \in {"validate", "validated"} /\ tk[t].waiters - 1 = 0 => ca
  PROVE  LaunchInv'
<1>1. /\ TicketInv(t) /\ tk[t] \in TicketRecords /\ tk \in [Tickets -> TicketRecords]
      /\ callers \in [Callers -> CallerRecords]
  BY Known DEF LaunchInv, LaunchTypeOK
<1>2. tk[t].pc # "unused"
  BY DEF LaunchInv, CallerInv
<1>3. tk[t].waiters - 1 \in Nat
  BY WaitersKnown DEF Waiting
<1>4. [tk[t] EXCEPT !.waiters = tk[t].waiters - 1, !.abandoned = ab, !.canceled = ca] \in TicketRecords
  BY <1>1, <1>3 DEF TicketRecords
<1>5. /\ tk' \in [Tickets -> TicketRecords] /\ OthersKept(t)
      /\ tk'[t] = [tk[t] EXCEPT !.waiters = tk[t].waiters - 1, !.abandoned = ab, !.canceled = ca]
  BY <1>1, <1>4 DEF OthersKept
<1>6. /\ tk'[t].pc = tk[t].pc /\ tk'[t].id = tk[t].id /\ tk'[t].starting = tk[t].starting
      /\ tk'[t].complete = tk[t].complete /\ tk'[t].aborted = tk[t].aborted
      /\ tk'[t].abandoned = ab /\ tk'[t].canceled = ca
      /\ tk'[t].err = tk[t].err /\ tk'[t].descriptor = tk[t].descriptor
      /\ tk'[t].result = tk[t].result /\ tk'[t].waiters = tk[t].waiters - 1
  BY <1>1, <1>5 DEF TicketRecords
<1>7. TicketInv(t)'
  BY <1>1, <1>6, TicketWaiters
<1>8. /\ callers' \in [Callers -> CallerRecords] /\ \A d \in Callers \ {c} : callers'[d] = callers[d]
      /\ callers'[c].pc # "wait"
  BY <1>1
<1>9. WaitersCounted'
  <2>1. \A s \in Tickets :
          \/ tk'[s].waiters = tk[s].waiters /\ (c \in Waiting(s) <=> c \in Waiting(s)')
          \/ tk'[s].waiters = tk[s].waiters - 1 /\ c \in Waiting(s) /\ c \notin Waiting(s)'
    BY <1>5, <1>6, <1>8 DEF Waiting, OthersKept
  <2> QED BY <1>8, <2>1, WaitersStep
<1> QED BY <1>2, <1>5, <1>6, <1>7, <1>8, <1>9, CallerMoves

(* A caller reads the completed ticket.                                      *)
LEMMA LaunchAnsweredStep ==
  ASSUME LaunchInv, NEW c \in Callers, LaunchAnswered(c)
  PROVE  LaunchInv'
<1>1. PICK t \in Tickets : t = callers[c].ticket
  BY DEF LaunchInv, CallerInv, LaunchAnswered
<1>2. /\ callers[c].pc = "wait" /\ tk[t].complete
      /\ UNCHANGED <<tickets, runs, child, journal, recovery, pending, active>>
      /\ tk' = [tk EXCEPT ![t].waiters = @ - 1]
      /\ \/ callers' = [callers EXCEPT ![c] = [callers[c] EXCEPT !.pc = "retry", !.ticket = None]]
         \/ callers' = [callers EXCEPT ![c] = IdleCaller]
  BY <1>1 DEF LaunchAnswered, Leave
<1>3. /\ TicketInv(t) /\ tk[t] \in TicketRecords /\ tk \in [Tickets -> TicketRecords]
      /\ callers[c] \in CallerRecords
  BY Known DEF LaunchInv, LaunchTypeOK
<1>4. PICK r \in CallerRecords : r.pc # "wait" /\ callers' = [callers EXCEPT ![c] = r]
  <2>1. IdleCaller \in CallerRecords /\ IdleCaller.pc # "wait"
    BY DEF IdleCaller, CallerRecords
  <2>2. /\ [callers[c] EXCEPT !.pc = "retry", !.ticket = None] \in CallerRecords
        /\ [callers[c] EXCEPT !.pc = "retry", !.ticket = None].pc # "wait"
    BY <1>3 DEF CallerRecords
  <2> QED BY <1>2, <2>1, <2>2
<1>5. tk[t].abandoned \in BOOLEAN /\ tk[t].canceled \in BOOLEAN
  BY <1>3 DEF TicketRecords
<1>6. tk' = [tk EXCEPT ![t] = [@ EXCEPT !.waiters = tk[t].waiters - 1,
                                        !.abandoned = tk[t].abandoned, !.canceled = tk[t].canceled]]
  <2>1. [tk[t] EXCEPT !.waiters = tk[t].waiters - 1]
        = [tk[t] EXCEPT !.waiters = tk[t].waiters - 1,
                        !.abandoned = tk[t].abandoned, !.canceled = tk[t].canceled]
    BY <1>3 DEF TicketRecords
  <2> QED BY <1>2, <2>1
<1>7. /\ tk[t].starting => ~tk[t].abandoned
      /\ tk[t].pc \notin {"validate", "validated"}
  BY <1>2, <1>3 DEF TicketInv
<1> QED BY <1>1, <1>2, <1>4, <1>5, <1>6, <1>7, WaiterLeaves

(* A caller gives up; the last one before Start abandons the attempt.        *)
LEMMA LaunchCanceledStep ==
  ASSUME LaunchInv, NEW c \in Callers, LaunchCanceled(c)
  PROVE  LaunchInv'
<1>1. PICK t \in Tickets : t = callers[c].ticket
  BY DEF LaunchInv, CallerInv, LaunchCanceled
<1> DEFINE ab == tk[t].abandoned \/ Abandons(t)
           ca == tk[t].canceled \/ Abandons(t)
<1>2. /\ callers[c].pc = "wait"
      /\ UNCHANGED <<tickets, runs, child, journal, recovery, pending, active>>
      /\ tk' = [tk EXCEPT ![t] = [@ EXCEPT !.waiters = tk[t].waiters - 1,
                                           !.abandoned = ab, !.canceled = ca]]
      /\ callers' = [callers EXCEPT ![c] = IdleCaller]
  BY <1>1 DEF LaunchCanceled, Leave
<1>3. TicketInv(t) /\ tk[t] \in TicketRecords
  BY Known
<1>4. IdleCaller \in CallerRecords /\ IdleCaller.pc # "wait"
  BY DEF IdleCaller, CallerRecords
<1>5. ab \in BOOLEAN /\ ca \in BOOLEAN
  OBVIOUS
<1>6. /\ tk[t].starting => ~ab
      /\ ab /\ ~tk[t].complete => ca
  BY <1>3 DEF TicketInv, Abandons
<1>7. tk[t].pc \in {"validate", "validated"} /\ tk[t].waiters - 1 = 0 => ca
  <2>1. tk[t].waiters \in Nat
    BY WaitersKnown
  <2>2. tk[t].waiters - 1 = 0 => tk[t].waiters = 1
    BY <2>1
  <2>3. tk[t].pc \in {"validate", "validated"} => ~tk[t].starting /\ ~tk[t].complete
    BY <1>3 DEF TicketInv
  <2> QED BY <2>2, <2>3 DEF Abandons
<1> HIDE DEF ab, ca
<1> QED BY <1>1, <1>2, <1>4, <1>5, <1>6, <1>7, WaiterLeaves

(* A new ticket: the object was unreachable, so nobody waits on it and it    *)
(* holds no reservation; admission left room for one.                        *)
LEMMA AdmitLaunchStep ==
  ASSUME LaunchInv, NEW c \in Callers, NEW id \in RequestIDs, NEW sel \in Selections,
         NEW t \in Tickets, AdmitLaunch(c, id, sel, t)
  PROVE  LaunchInv'
<1> DEFINE n == NewTicket(id, sel)
           w == [pc |-> "wait", id |-> id, sel |-> sel, ticket |-> t]
<1>1. /\ TicketInv(t) /\ tk[t] \in TicketRecords /\ tk \in [Tickets -> TicketRecords]
      /\ tickets \in [RequestIDs -> Tickets \cup {None}] /\ callers \in [Callers -> CallerRecords]
      /\ pending \in Nat /\ active \in Nat /\ ReservationAccounting
  BY Known DEF LaunchInv, LaunchTypeOK
<1>2. /\ tickets[id] = None /\ callers[c].pc # "wait"
      /\ tickets' = [tickets EXCEPT ![id] = t] /\ tk' = [tk EXCEPT ![t] = n]
      /\ callers' = [callers EXCEPT ![c] = w]
      /\ pending' = pending + 1 /\ pending + active < MaxActiveRuns
      /\ UNCHANGED <<runs, child, journal, recovery, active>>
  BY DEF AdmitLaunch, WaitOn, Requesting, AdmissionOpen
<1>3. /\ tk[t].pc = "unused" \/ tk[t].aborted
      /\ tk[t].pc \in {"unused", "done"}
      /\ ~tk[t].starting /\ tk[t].waiters = 0
  <2>1. tk[t].pc = "unused" \/ (tk[t].pc = "done" /\ tk[t].aborted /\ tk[t].waiters = 0)
    BY DEF AdmitLaunch, Unreachable
  <2>2. tk[t].pc = "unused" => tk[t].waiters = 0
    BY WaitersKnown
  <2>3. (tk[t].pc = "unused" => ~tk[t].starting) /\ (tk[t].aborted => ~tk[t].starting)
    BY <1>1 DEF TicketInv
  <2> QED BY <2>1, <2>2, <2>3
<1>4. /\ child[t] = "none" /\ runs[t].pc = "absent" /\ journal[t].state = "none"
      /\ ~runs[t].exitKnown
  BY <1>1, <1>3 DEF TicketInv
<1>5. /\ n \in TicketRecords /\ n.pc = "validate" /\ n.id = id /\ n.waiters = 1
      /\ ~n.starting /\ ~n.complete /\ ~n.aborted /\ ~n.abandoned /\ n.err = "none"
  BY DEF NewTicket, UnusedTicket, TicketRecords, CoordinatorSteps, Snapshots, NoSnapshot, RunStates
<1>6. w \in CallerRecords
  BY DEF CallerRecords
<1>7. /\ tk' \in [Tickets -> TicketRecords] /\ OthersKept(t) /\ tk'[t] = n
      /\ tickets' \in [RequestIDs -> Tickets \cup {None}] /\ tickets'[id] = t
      /\ \A i \in RequestIDs \ {id} : tickets'[i] = tickets[i]
  <2> HIDE DEF n
  <2> QED BY <1>1, <1>2, <1>5 DEF OthersKept
<1>8. /\ callers' \in [Callers -> CallerRecords] /\ \A d \in Callers \ {c} : callers'[d] = callers[d]
      /\ callers'[c].pc = "wait" /\ callers'[c].ticket = t
  BY <1>1, <1>2, <1>6
<1> HIDE DEF n, w
<1>9. /\ tk'[t].pc = "validate" /\ tk'[t].id = id /\ tk'[t].waiters = 1 /\ ~tk'[t].starting
      /\ ~tk'[t].complete /\ ~tk'[t].aborted /\ ~tk'[t].abandoned /\ tk'[t].err = "none"
  BY <1>5, <1>7
<1>10. TicketInv(t)'
  <2>1. runs'[t] = runs[t] /\ child'[t] = child[t] /\ journal'[t] = journal[t]
    BY <1>2
  <2>2. tickets'[tk'[t].id] = t
    BY <1>7, <1>9
  <2> QED BY <1>4, <1>9, <2>1, <2>2 DEF TicketInv
<1>11. ASSUME NEW s \in Tickets, s # t PROVE TicketInv(s)'
  <2> TicketInv(s)
    BY Known
  <2>1. tk[s].pc # "unused" /\ ~tk[s].aborted => tickets[tk[s].id] = s /\ tk[s].id \in RequestIDs
    BY DEF TicketInv
  <2>2. tk[s].pc # "unused" /\ ~tk[s].aborted => tickets'[tk[s].id] = tickets[tk[s].id]
    BY <1>2, <1>7, <2>1, ConstantsAssumption
  <2> QED BY <1>2, <1>7, <1>11, <2>2, TicketFrame DEF OthersKept
<1>12. TicketMapInv'
  <2> SUFFICES ASSUME NEW i \in RequestIDs, tickets'[i] # None
               PROVE  /\ tk'[tickets'[i]].id = i
                      /\ tk'[tickets'[i]].pc # "unused"
                      /\ ~tk'[tickets'[i]].aborted
    BY DEF TicketMapInv
  <2>1. CASE i = id
    BY <1>7, <1>9, <2>1
  <2>2. CASE i # id
    <3>1. tickets'[i] = tickets[i]
      BY <1>7, <2>2
    <3>2. /\ tickets[i] \in Tickets /\ tk[tickets[i]].id = i
          /\ tk[tickets[i]].pc # "unused" /\ ~tk[tickets[i]].aborted
      BY <1>1, <3>1 DEF LaunchInv, TicketMapInv
    <3>3. tickets[i] # t
      BY <1>3, <3>2
    <3> QED BY <1>7, <3>1, <3>2, <3>3 DEF OthersKept
  <2> QED BY <2>1, <2>2
<1>13. CallerInv'
  <2> SUFFICES ASSUME NEW d \in Callers, callers'[d].pc = "wait"
               PROVE  callers'[d].ticket \in Tickets /\ tk'[callers'[d].ticket].pc # "unused"
    BY DEF CallerInv
  <2>1. CASE d = c
    BY <1>8, <1>9, <2>1
  <2>2. CASE d # c
    <3>1. callers'[d] = callers[d]
      BY <1>8, <2>2
    <3>2. callers[d].ticket \in Tickets /\ tk[callers[d].ticket].pc # "unused"
      BY <3>1 DEF LaunchInv, CallerInv
    <3> QED BY <1>7, <1>9, <3>1, <3>2 DEF OthersKept
  <2> QED BY <2>1, <2>2
<1>14. WaitersCounted'
  <2>1. ASSUME NEW s \in Tickets
        PROVE  \/ tk'[s].waiters = tk[s].waiters /\ (c \in Waiting(s) <=> c \in Waiting(s)')
               \/ tk'[s].waiters = tk[s].waiters + 1 /\ c \notin Waiting(s) /\ c \in Waiting(s)'
    <3>1. c \notin Waiting(s) /\ (c \in Waiting(s)' <=> s = t)
      BY <1>2, <1>8 DEF Waiting
    <3>2. s # t => tk'[s].waiters = tk[s].waiters
      BY <1>7 DEF OthersKept
    <3>3. tk'[t].waiters = tk[t].waiters + 1
      BY <1>3, <1>9
    <3> QED BY <3>1, <3>2, <3>3
  <2> QED BY <1>8, <2>1, WaitersStep
<1>15. ReservationAccounting' /\ pending' \in Nat /\ active' \in Nat
  <2>1. /\ ~HoldsPending(t) /\ HoldsPending(t)' /\ (HoldsActive(t)' <=> HoldsActive(t))
    BY <1>2, <1>3, <1>9 DEF HoldsPending, HoldsActive
  <2> QED BY <1>1, <1>2, <1>7, <2>1, Accounting DEF OthersKept
<1>16. LaunchTypeOK'
  BY <1>2, <1>7, <1>8, <1>15 DEF LaunchInv, LaunchTypeOK
<1>17. pending' + active' <= MaxActiveRuns
  <2>1. MaxActiveRuns \in Nat
    BY ConstantsAssumption
  <2> QED BY <1>1, <1>2, <2>1
<1> QED BY <1>10, <1>11, <1>12, <1>13, <1>14, <1>15, <1>16, <1>17 DEF LaunchInv

-----------------------------------------------------------------------------
(* The invariant.                                                            *)

(* The owner starts with no ticket, no caller and no child.                  *)
LEMMA LaunchInvInit == StateInit => LaunchInv
<1> SUFFICES ASSUME StateInit PROVE LaunchInv
  OBVIOUS
<1>1. \A t \in Tickets : /\ tk[t] = UnusedTicket /\ runs[t] = AbsentRun
                         /\ child[t] = "none" /\ journal[t] = NoSnapshot
  BY DEF StateInit
<1>2. \A c \in Callers : callers[c] = IdleCaller
  BY DEF StateInit
<1>3. /\ UnusedTicket \in TicketRecords /\ AbsentRun \in RunRecords
      /\ NoSnapshot \in Snapshots /\ IdleCaller \in CallerRecords
  BY DEF UnusedTicket, TicketRecords, CoordinatorSteps, Snapshots, NoSnapshot, RunStates,
         AbsentRun, RunRecords, RunSteps, CallerRecords, IdleCaller
<1>4. LaunchTypeOK
  <2>1. child \in [Tickets -> ChildStates]
    BY DEF StateInit, ChildStates
  <2>2. /\ tk \in [Tickets -> TicketRecords] /\ runs \in [Tickets -> RunRecords]
        /\ journal \in [Tickets -> Snapshots] /\ callers \in [Callers -> CallerRecords]
        /\ tickets \in [RequestIDs -> Tickets \cup {None}]
    BY <1>3 DEF StateInit
  <2>3. recovery \subseteq Tickets /\ pending \in Nat /\ active \in Nat
    BY DEF StateInit
  <2> QED BY <2>1, <2>2, <2>3 DEF LaunchTypeOK
<1>5. ReservationAccounting
  <2>1. \A t \in Tickets : ~HoldsPending(t) /\ ~HoldsActive(t)
    BY <1>1 DEF HoldsPending, HoldsActive, UnusedTicket, AbsentRun
  <2>2. PendingTickets = {} /\ ActiveRuns = {}
    BY <2>1 DEF PendingTickets, ActiveRuns
  <2> QED BY <2>2, FS_EmptySet DEF ReservationAccounting, StateInit
<1>6. pending + active <= MaxActiveRuns
  BY ConstantsAssumption DEF StateInit
<1>7. WaitersCounted
  <2> SUFFICES ASSUME NEW t \in Tickets PROVE tk[t].waiters = Cardinality(Waiting(t))
    BY DEF WaitersCounted, Waiting
  <2>1. Waiting(t) = {}
    BY <1>2 DEF Waiting, IdleCaller
  <2> QED BY <1>1, <2>1, FS_EmptySet DEF UnusedTicket
<1>8. TicketMapInv /\ CallerInv
  BY <1>2 DEF TicketMapInv, CallerInv, StateInit, IdleCaller
<1>9. ASSUME NEW t \in Tickets PROVE TicketInv(t)
  <2>1. /\ tk[t].pc = "unused" /\ ~tk[t].starting /\ ~tk[t].complete /\ ~tk[t].aborted
        /\ ~tk[t].abandoned /\ tk[t].err = "none"
    BY <1>1 DEF UnusedTicket
  <2>2. runs[t].pc = "absent" /\ ~runs[t].exitKnown /\ journal[t].state = "none"
    BY <1>1 DEF AbsentRun, NoSnapshot
  <2>3. child[t] = "none"
    BY <1>1
  <2> QED BY <2>1, <2>2, <2>3 DEF TicketInv
<1> QED BY <1>4, <1>5, <1>6, <1>7, <1>8, <1>9 DEF LaunchInv

(* A step that leaves the launch state alone.                                *)
LEMMA LaunchInvFrame == LaunchInv /\ UNCHANGED launchVars => LaunchInv'
<1> SUFFICES ASSUME LaunchInv, UNCHANGED launchVars PROVE LaunchInv'
  OBVIOUS
<1>1. UNCHANGED <<tickets, tk, callers, runs, child, journal, recovery, pending, active>>
  BY DEF launchVars
<1>2. LaunchTypeOK'
  BY <1>1 DEF LaunchInv, LaunchTypeOK
<1>3. ReservationAccounting'
  <2>1. PendingTickets' = PendingTickets /\ ActiveRuns' = ActiveRuns
    BY <1>1 DEF PendingTickets, ActiveRuns, HoldsPending, HoldsActive
  <2> QED BY <1>1, <2>1 DEF LaunchInv, ReservationAccounting
<1>4. WaitersCounted'
  BY <1>1 DEF LaunchInv, WaitersCounted
<1>5. TicketMapInv' /\ CallerInv' /\ pending' + active' <= MaxActiveRuns
  BY <1>1 DEF LaunchInv, TicketMapInv, CallerInv
<1>6. ASSUME NEW s \in Tickets PROVE TicketInv(s)'
  BY <1>1, Known, TicketFrame
<1> QED BY <1>2, <1>3, <1>4, <1>5, <1>6 DEF LaunchInv

(* Every step of every goroutine of launch coordination preserves LaunchInv. *)
LEMMA LaunchInvStep == LaunchInv /\ LaunchStep => LaunchInv'
<1> SUFFICES ASSUME LaunchInv, LaunchStep PROVE LaunchInv'
  OBVIOUS
<1>1. CASE CallerStep
  <2>1. ASSUME NEW c \in Callers, NEW id \in RequestIDs, NEW sel \in Selections,
               \/ \E t \in Tickets : AdmitLaunch(c, id, sel, t)
               \/ JoinLaunch(c, id, sel) \/ RefuseLaunch(c, id, sel)
        PROVE  LaunchInv'
    BY <2>1, AdmitLaunchStep, JoinLaunchStep, RefuseLaunchStep
  <2>2. ASSUME NEW c \in Callers, LaunchAnswered(c) \/ LaunchCanceled(c)
        PROVE  LaunchInv'
    BY <2>2, LaunchAnsweredStep, LaunchCanceledStep
  <2> QED BY <1>1, <2>1, <2>2 DEF CallerStep
<1>2. ASSUME NEW t \in Tickets, CoordinatorTimeout(t) \/ ChildExits(t) PROVE LaunchInv'
  BY <1>2, CoordinatorTimeoutStep, ChildExitsStep, Zenon
<1>3. ASSUME NEW t \in Tickets, Coordinator(t) PROVE LaunchInv'
  BY <1>3, ValidateTargetStep, CommitStartStep, ReserveLaunchStep, StartStep, AttachChildStep,
     SaveStartedStep, CompleteLaunchStep, FailStep, SaveUncertainFailureStep, FailDoneStep
     DEF Coordinator
<1>4. ASSUME NEW t \in Tickets, Reconcile(t) PROVE LaunchInv'
  BY <1>4, WaitReturnedStep, SaveExitStep, PersistOwnedRecoveryStep, FinishReconcileStep
     DEF Reconcile
<1> QED BY <1>1, <1>2, <1>3, <1>4 DEF LaunchStep

(* LaunchInv is an invariant of launch coordination: the counters, the       *)
(* request map, the waiters and every coordinator, run, child and journal    *)
(* entry of launch.go agree in every reachable state.                        *)
THEOREM LaunchInvariant == Spec => []LaunchInv
<1>1. LaunchInv /\ [Next]_stateVars => LaunchInv'
  <2>1. ASSUME LaunchInv, DisableLaunches PROVE LaunchInv'
    BY <2>1, LaunchInvFrame DEF DisableLaunches
  <2>2. ASSUME LaunchInv, UNCHANGED stateVars PROVE LaunchInv'
    BY <2>2, LaunchInvFrame DEF stateVars
  <2> QED BY <2>1, <2>2, LaunchInvStep DEF Next
<1> QED BY <1>1, LaunchInvInit, PTL DEF Spec

-----------------------------------------------------------------------------
(* What the invariant says of the code.                                      *)

(* pending and active of the runtime owner count exactly the reservations    *)
(* that exist.                                                               *)
THEOREM ReservationsAccounted == Spec => []ReservationAccounting
<1>1. LaunchInv => ReservationAccounting
  BY DEF LaunchInv
<1> QED BY <1>1, LaunchInvariant, PTL

(* Every child that runs or may run holds a reservation.                     *)
LEMMA BoundedByInv == LaunchInv => ChildrenBounded
<1> SUFFICES ASSUME LaunchInv PROVE ChildrenBounded
  OBVIOUS
<1>1. PossibleChildren \subseteq PendingTickets \cup ActiveRuns
  <2> SUFFICES ASSUME NEW t \in Tickets, child[t] \in {"alive", "lost"}
               PROVE  HoldsPending(t) \/ HoldsActive(t)
    BY DEF PossibleChildren, PendingTickets, ActiveRuns
  <2> TicketInv(t) /\ tk[t] \in TicketRecords
    BY Known
  <2>1. CASE runs[t].pc = "absent"
    <3>1. tk[t].pc \in CoordinatorSteps
      BY DEF TicketRecords
    <3> QED BY <2>1, <3>1 DEF TicketInv, HoldsPending, CoordinatorSteps
  <2>2. CASE runs[t].pc # "absent"
    BY <2>2 DEF TicketInv, HoldsActive
  <2> QED BY <2>1, <2>2
<1>2. Cardinality(PossibleChildren) <= Cardinality(PendingTickets \cup ActiveRuns)
  <2>1. IsFiniteSet(PendingTickets \cup ActiveRuns)
    BY ReservationsFinite, FS_Union
  <2> QED BY <1>1, <2>1, FS_Subset
<1>3. /\ Cardinality(PendingTickets \cup ActiveRuns)
         = Cardinality(PendingTickets) + Cardinality(ActiveRuns)
           - Cardinality(PendingTickets \cap ActiveRuns)
      /\ Cardinality(PendingTickets) \in Nat /\ Cardinality(ActiveRuns) \in Nat
      /\ Cardinality(PendingTickets \cap ActiveRuns) \in Nat
  BY ReservationsFinite, FS_Union, FS_Intersection, FS_CardinalityType
<1>4. Cardinality(PendingTickets) + Cardinality(ActiveRuns) <= MaxActiveRuns
  BY DEF LaunchInv, ReservationAccounting
<1>5. Cardinality(PossibleChildren) \in Nat /\ MaxActiveRuns \in Nat
  <2>1. PossibleChildren \subseteq Tickets
    BY DEF PossibleChildren
  <2> QED BY <2>1, FS_Subset, FS_CardinalityType, ConstantsAssumption
<1>6. \A p, u, a, b, i, m \in Int :
        p <= u /\ u = a + b - i /\ i >= 0 /\ a + b <= m => p <= m
  OBVIOUS
<1> HIDE DEF PossibleChildren, PendingTickets, ActiveRuns
<1>7. Cardinality(PossibleChildren) <= MaxActiveRuns
  BY <1>2, <1>3, <1>4, <1>5, <1>6
<1> QED BY <1>7 DEF ChildrenBounded

(* Never more than MaxActiveRuns children run or may run without an owner,   *)
(* for any number of requests, callers and slots.                            *)
THEOREM ChildrenAreBounded == Spec => []ChildrenBounded
BY BoundedByInv, LaunchInvariant, PTL

(* Two children of one request would both be its answer in the map.          *)
LEMMA OneSpawnByInv == LaunchInv => AtMostOneSpawnPerRequest
<1> SUFFICES ASSUME LaunchInv, NEW s \in Tickets, NEW t \in Tickets,
                    child[s] # "none", child[t] # "none", tk[s].id = tk[t].id
             PROVE  s = t
  BY DEF AtMostOneSpawnPerRequest
<1>1. TicketInv(s) /\ TicketInv(t)
  BY Known
<1>2. tickets[tk[s].id] = s /\ tickets[tk[t].id] = t
  BY <1>1 DEF TicketInv
<1> QED BY <1>2

(* No request id is ever answered by two children, whatever abandonments and *)
(* retries happen around its tickets.                                        *)
THEOREM OneSpawnPerRequest == Spec => []AtMostOneSpawnPerRequest
BY OneSpawnByInv, LaunchInvariant, PTL

(* A child exists only after its intent reached the execution journal.       *)
THEOREM IntentBeforeSpawn == Spec => []DurableIntentBeforeSpawn
<1>1. LaunchInv => DurableIntentBeforeSpawn
  <2>1. ASSUME LaunchInv, NEW t \in Tickets, child[t] # "none" PROVE journal[t].state # "none"
    <3>1. TicketInv(t)
      BY <2>1, Known
    <3> QED BY <2>1, <3>1 DEF TicketInv
  <2> QED BY <2>1 DEF DurableIntentBeforeSpawn
<1> QED BY <1>1, LaunchInvariant, PTL

(* A ticket that began to start remains the answer for its request id.       *)
THEOREM StartedRetained == Spec => []StartedTicketRetained
<1>1. LaunchInv => StartedTicketRetained
  <2>1. ASSUME LaunchInv, NEW t \in Tickets, tk[t].starting PROVE tickets[tk[t].id] = t
    <3>1. TicketInv(t)
      BY <2>1, Known
    <3> QED BY <2>1, <3>1 DEF TicketInv
  <2> QED BY <2>1 DEF StartedTicketRetained
<1> QED BY <1>1, LaunchInvariant, PTL

(* The waiter count that decides abandonment is the number of callers in the *)
(* select.                                                                   *)
THEOREM WaitersAreCounted == Spec => []WaitersCounted
<1>1. LaunchInv => WaitersCounted
  BY DEF LaunchInv
<1> QED BY <1>1, LaunchInvariant, PTL

(* No reservation is left, hence no child and no coordinator.                *)
LEMMA IdleByInv == LaunchInv => IdleMeansReconciled
<1> SUFFICES ASSUME LaunchInv, pending + active = 0, NEW t \in Tickets
             PROVE  /\ child[t] \in {"none", "dead"}
                    /\ child[t] = "dead" => runs[t].pc = "done" /\ runs[t].exitKnown
                    /\ tk[t].pc \in {"unused", "done"}
  BY DEF IdleMeansReconciled
<1>1. pending = 0 /\ active = 0
  <2>1. pending \in Nat /\ active \in Nat
    BY Known
  <2> QED BY <2>1
<1>2. PendingTickets = {} /\ ActiveRuns = {}
  BY <1>1, ReservationsFinite, FS_EmptySet DEF LaunchInv, ReservationAccounting
<1>3. ~HoldsPending(t) /\ ~HoldsActive(t)
  BY <1>2 DEF PendingTickets, ActiveRuns
<1>4. TicketInv(t) /\ tk[t].pc \in CoordinatorSteps /\ child[t] \in ChildStates
  <2>1. TicketInv(t) /\ tk[t] \in TicketRecords /\ child \in [Tickets -> ChildStates]
    BY Known
  <2> QED BY <2>1 DEF TicketRecords
<1>5. tk[t].pc \in {"unused", "done"}
  BY <1>3, <1>4 DEF HoldsPending, HoldsActive, TicketInv, CoordinatorSteps
<1>6. CASE runs[t].pc = "absent"
  <2>1. child[t] # "lost"
    BY <1>3, <1>4, <1>5, <1>6 DEF HoldsPending, TicketInv
  <2>2. child[t] \in {"none", "lost"}
    BY <1>4, <1>5, <1>6 DEF TicketInv
  <2> QED BY <1>5, <2>1, <2>2
<1>7. CASE runs[t].pc # "absent"
  <2>1. runs[t].pc = "done" /\ runs[t].exitKnown
    BY <1>3, <1>7 DEF HoldsActive
  <2>2. child[t] = "dead"
    BY <1>4, <2>1 DEF TicketInv
  <2> QED BY <1>5, <2>1, <2>2
<1> QED BY <1>6, <1>7

(* When AwaitIdle may return, no child runs or may run, every started child  *)
(* was waited for and no coordinator will start one.                         *)
THEOREM IdleIsReconciled == Spec => []IdleMeansReconciled
BY IdleByInv, LaunchInvariant, PTL


(* How a step of launch coordination may change the revision.                *)
LEMMA LaunchRevision == LaunchStep => UNCHANGED revisionVars \/ changedLocked(disabled)
<1> SUFFICES ASSUME LaunchStep PROVE UNCHANGED revisionVars \/ changedLocked(disabled)
  OBVIOUS
<1>1. CASE CallerStep
  BY <1>1, Zenon DEF CallerStep, AdmitLaunch, JoinLaunch, RefuseLaunch, LaunchAnswered, LaunchCanceled
<1>2. ASSUME NEW t \in Tickets, Coordinator(t)
      PROVE  UNCHANGED revisionVars \/ changedLocked(disabled)
  <2>1. CASE CommitStart(t)
    BY <2>1, Zenon DEF CommitStart
  <2>2. CASE Fail(t)
    <3>1. UNCHANGED <<pending, revisionVars>> \/ changedLocked(disabled)
      BY <2>2, Zenon DEF Fail
    <3> QED BY <3>1
  <2>3. CASE ValidateTarget(t) \/ ReserveLaunch(t) \/ Start(t) \/ AttachChild(t) \/ SaveStarted(t)
    BY <2>3, Zenon DEF ValidateTarget, ReserveLaunch, Start, AttachChild, SaveStarted
  <2>4. CASE CompleteLaunch(t) \/ SaveUncertainFailure(t) \/ FailDone(t)
    BY <2>4, Zenon DEF CompleteLaunch, SaveUncertainFailure, FailDone
  <2> QED BY <1>2, <2>1, <2>2, <2>3, <2>4, Zenon DEF Coordinator
<1>3. ASSUME NEW t \in Tickets, CoordinatorTimeout(t) \/ ChildExits(t) \/ Reconcile(t)
      PROVE  UNCHANGED revisionVars \/ changedLocked(disabled)
  BY <1>3, Zenon DEF CoordinatorTimeout, ChildExits, Reconcile, WaitReturned, SaveExit,
                     PersistOwnedRecovery, FinishReconcile
<1> QED BY <1>1, <1>2, <1>3, Zenon DEF LaunchStep

(* changedLocked keeps the revision within its width.                        *)
LEMMA RevisionType ==
  ASSUME RevisionTypeOK, UNCHANGED revisionVars \/ changedLocked(disabled) \/ changedLocked(TRUE)
  PROVE  RevisionTypeOK'
<1>1. revision \in 0..MaxRevision /\ revisionExhausted \in BOOLEAN /\ disabled \in BOOLEAN
  BY DEF RevisionTypeOK
<1>2. CASE UNCHANGED revisionVars
  <2>1. revision' = revision /\ revisionExhausted' = revisionExhausted /\ disabled' = disabled
    BY <1>2 DEF revisionVars
  <2> QED BY <1>1, <2>1, Zenon DEF RevisionTypeOK
<1>3. ASSUME changedLocked(disabled) \/ changedLocked(TRUE) PROVE RevisionTypeOK'
  <2>1. revision' \in 0..MaxRevision
    BY <1>1, <1>3, ConstantsAssumption DEF changedLocked
  <2>2. revisionExhausted' \in BOOLEAN /\ disabled' \in BOOLEAN
    BY <1>1, <1>3, Zenon DEF changedLocked
  <2> QED BY <2>1, <2>2 DEF RevisionTypeOK
<1> QED BY <1>2, <1>3

(* Every variable keeps its type; in particular the counters never go        *)
(* negative and the saturating revision never passes its width.              *)
THEOREM TypeCorrect == Spec => []TypeOK
<1> DEFINE Inv == LaunchInv /\ RevisionTypeOK /\ FenceTypeOK
<1>1. StateInit => RevisionTypeOK /\ FenceTypeOK
  <2>1. StateInit => revision \in 0..MaxRevision
    BY ConstantsAssumption DEF StateInit
  <2>2. StateInit => controlsPending \in Nat /\ lifecyclePending \in Nat
    BY DEF StateInit
  <2> QED BY <2>1, <2>2 DEF StateInit, RevisionTypeOK, FenceTypeOK
<1>2. RevisionTypeOK /\ FenceTypeOK /\ [Next]_stateVars => RevisionTypeOK' /\ FenceTypeOK'
  <2> SUFFICES ASSUME RevisionTypeOK, FenceTypeOK, [Next]_stateVars
               PROVE  RevisionTypeOK' /\ FenceTypeOK'
    OBVIOUS
  <2>1. /\ UNCHANGED <<shutdownPreparing, shutdownCommitted, lifecycleStarting>>
        /\ UNCHANGED <<lifecycleBound, lifecycleUncertain, lifecyclePending, controlsPending>>
    <3>1. CASE Next
      BY <3>1 DEF Next, fenceVars
    <3>2. CASE UNCHANGED stateVars
      BY <3>2 DEF stateVars, fenceVars
    <3> QED BY <3>1, <3>2
  <2>2. FenceTypeOK'
    <3>1. controlsPending' \in Nat /\ lifecyclePending' \in Nat
      BY <2>1 DEF FenceTypeOK
    <3>2. /\ shutdownPreparing' \in BOOLEAN /\ shutdownCommitted' \in BOOLEAN
          /\ lifecycleStarting' \in BOOLEAN /\ lifecycleBound' \in BOOLEAN
          /\ lifecycleUncertain' \in BOOLEAN
      BY <2>1 DEF FenceTypeOK
    <3> QED BY <3>1, <3>2 DEF FenceTypeOK
  <2>3. UNCHANGED revisionVars \/ changedLocked(disabled) \/ changedLocked(TRUE)
    <3>1. UNCHANGED stateVars => UNCHANGED revisionVars
      BY DEF stateVars
    <3> QED BY <3>1, LaunchRevision, Zenon DEF Next, DisableLaunches
  <2> QED BY <2>2, <2>3, RevisionType
<1>3. LaunchInv => LaunchTypeOK
  BY DEF LaunchInv
<1>4. Spec => [](RevisionTypeOK /\ FenceTypeOK)
  BY <1>1, <1>2, PTL DEF Spec
<1> QED BY <1>3, <1>4, LaunchInvariant, PTL DEF TypeOK

(* Only CommitStart sets starting.                                           *)
LEMMA OnlyCommitStarts ==
  ASSUME LaunchInv, LaunchStep, NEW t \in Tickets, ~tk[t].starting, tk'[t].starting
  PROVE  CommitStart(t)
<1>1. tk \in [Tickets -> TicketRecords] /\ tk[t] \in TicketRecords
  BY Known
<1>2. ASSUME NEW s \in Tickets, NEW x, x.starting = tk[s].starting,
             tk' = [tk EXCEPT ![s] = x]
      PROVE  FALSE
  BY <1>1, <1>2
<1>3. ASSUME NEW s \in Tickets PROVE tk[s] \in TicketRecords
  BY <1>1
<1>4. ASSUME NEW s \in Tickets, NEW x, Goto(s, x) PROVE FALSE
  <2>1. [tk[s] EXCEPT !.pc = x].starting = tk[s].starting
    BY <1>3 DEF TicketRecords
  <2> QED BY <1>2, <1>4, <2>1 DEF Goto
<1>5. ASSUME NEW s \in Tickets, NEW x, NEW e,
             tk' = [tk EXCEPT ![s] = [@ EXCEPT !.pc = x, !.err = e]]
      PROVE  FALSE
  <2>1. [tk[s] EXCEPT !.pc = x, !.err = e].starting = tk[s].starting
    BY <1>3 DEF TicketRecords
  <2> QED BY <1>2, <1>5, <2>1
<1>6. ASSUME UNCHANGED tk PROVE FALSE
  BY <1>6
<1>7. ASSUME NEW s \in Tickets, NEW n, tk' = [tk EXCEPT ![s].waiters = n] PROVE FALSE
  <2>1. [tk[s] EXCEPT !.waiters = n].starting = tk[s].starting
    BY <1>3 DEF TicketRecords
  <2> QED BY <1>2, <1>7, <2>1
<1>8. ASSUME CallerStep PROVE FALSE
  <2>1. ASSUME NEW c \in Callers, NEW id \in RequestIDs, NEW sel \in Selections, NEW s \in Tickets,
               AdmitLaunch(c, id, sel, s)
        PROVE  FALSE
    <3>1. ~NewTicket(id, sel).starting
      BY DEF NewTicket, UnusedTicket
    <3> QED BY <1>1, <2>1, <3>1 DEF AdmitLaunch
  <2>2. ASSUME NEW c \in Callers, NEW id \in RequestIDs, NEW sel \in Selections,
               JoinLaunch(c, id, sel)
        PROVE  FALSE
    <3>1. PICK s \in Tickets : s = tickets[id]
      BY <2>2 DEF JoinLaunch, LaunchInv, LaunchTypeOK
    <3>2. tk' = [tk EXCEPT ![s].waiters = tk[s].waiters + 1]
      BY <2>2, <3>1 DEF JoinLaunch
    <3> QED BY <1>7, <3>2
  <2>3. ASSUME NEW c \in Callers, LaunchAnswered(c) PROVE FALSE
    <3>1. PICK s \in Tickets : s = callers[c].ticket
      BY <2>3 DEF LaunchInv, CallerInv, LaunchAnswered
    <3>2. tk' = [tk EXCEPT ![s].waiters = tk[s].waiters - 1]
      BY <2>3, <3>1 DEF LaunchAnswered
    <3> QED BY <1>7, <3>2
  <2>4. ASSUME NEW c \in Callers, LaunchCanceled(c) PROVE FALSE
    <3>1. PICK s \in Tickets : s = callers[c].ticket
      BY <2>4 DEF LaunchInv, CallerInv, LaunchCanceled
    <3> DEFINE x == [tk[s] EXCEPT !.waiters = tk[s].waiters - 1,
                                  !.abandoned = tk[s].abandoned \/ Abandons(s),
                                  !.canceled = tk[s].canceled \/ Abandons(s)]
    <3>2. tk' = [tk EXCEPT ![s] = x]
      BY <2>4, <3>1 DEF LaunchCanceled
    <3>3. x.starting = tk[s].starting
      BY <1>3 DEF TicketRecords
    <3> HIDE DEF x
    <3> QED BY <1>2, <3>2, <3>3
  <2> QED BY <1>6, <1>8, <2>1, <2>2, <2>3, <2>4 DEF CallerStep, RefuseLaunch
<1>9. ASSUME NEW s \in Tickets, CoordinatorTimeout(s) \/ ChildExits(s) \/ Reconcile(s) PROVE FALSE
  <2>1. CASE CoordinatorTimeout(s)
    <3>1. [tk[s] EXCEPT !.canceled = TRUE].starting = tk[s].starting
      BY <1>3 DEF TicketRecords
    <3> QED BY <1>2, <2>1, <3>1 DEF CoordinatorTimeout
  <2>2. CASE ChildExits(s) \/ Reconcile(s)
    BY <1>6, <2>2 DEF ChildExits, Reconcile, WaitReturned, SaveExit, PersistOwnedRecovery,
                      FinishReconcile
  <2> QED BY <1>9, <2>1, <2>2
<1>10. ASSUME NEW s \in Tickets, Coordinator(s), ~CommitStart(s) PROVE FALSE
  <2>1. CASE ValidateTarget(s) \/ ReserveLaunch(s)
    <3>1. \/ Goto(s, "validated") \/ Goto(s, "start")
          \/ tk' = [tk EXCEPT ![s] = [@ EXCEPT !.pc = "failing", !.err = "error"]]
      BY <2>1, Zenon DEF ValidateTarget, ReserveLaunch, FailWith
    <3> QED BY <1>4, <1>5, <3>1
  <2>2. CASE Start(s)
    <3>1. PICK x, e : tk' = [tk EXCEPT ![s] = [@ EXCEPT !.pc = x, !.err = e]]
      BY <2>2, Zenon DEF Start, FailWith
    <3> QED BY <1>5, <3>1
  <2>3. CASE SaveUncertainFailure(s)
    <3>1. Goto(s, "failDone")
      BY <2>3 DEF SaveUncertainFailure
    <3> QED BY <1>4, <3>1
  <2>4. CASE SaveStarted(s)
    <3>1. PICK x, e : tk' = [tk EXCEPT ![s] = [@ EXCEPT !.pc = x, !.err = e]]
      BY <2>4, Zenon DEF SaveStarted
    <3> QED BY <1>5, <3>1
  <2>5. CASE FailDone(s)
    <3>1. [tk[s] EXCEPT !.pc = "done", !.complete = TRUE].starting = tk[s].starting
      BY <1>3 DEF TicketRecords
    <3> QED BY <1>2, <2>5, <3>1 DEF FailDone
  <2>6. CASE AttachChild(s)
    <3>1. PICK d : tk' = [tk EXCEPT ![s] = [tk[s] EXCEPT !.pc = "publish", !.descriptor = d]]
      BY <2>6 DEF AttachChild
    <3>2. [tk[s] EXCEPT !.pc = "publish", !.descriptor = d].starting = tk[s].starting
      BY <1>3 DEF TicketRecords
    <3> QED BY <1>2, <3>1, <3>2
  <2>7. CASE CompleteLaunch(s)
    <3>1. PICK r : tk' = [tk EXCEPT ![s] = [tk[s] EXCEPT !.pc = "done", !.complete = TRUE, !.result = r]]
      BY <2>7 DEF CompleteLaunch
    <3>2. [tk[s] EXCEPT !.pc = "done", !.complete = TRUE, !.result = r].starting = tk[s].starting
      BY <1>3 DEF TicketRecords
    <3> QED BY <1>2, <3>1, <3>2
  <2>8. CASE Fail(s)
    <3> DEFINE aborted == ~tk[s].starting /\ tk[s].abandoned
               marked == Snapshot(tk[s].descriptor.state, tk[s].descriptor.uncertain \/ StartUncertain(s))
               failed == [tk[s] EXCEPT !.aborted = aborted,
                                       !.err = IF aborted THEN "none" ELSE tk[s].err,
                                       !.descriptor = marked,
                                       !.result = IF tk[s].starting THEN marked ELSE tk[s].result]
    <3>1. \/ tk' = [tk EXCEPT ![s] = [failed EXCEPT !.pc = "failSave"]]
          \/ tk' = [tk EXCEPT ![s] = [failed EXCEPT !.pc = "done", !.complete = TRUE]]
      BY <2>8, Zenon DEF Fail
    <3> HIDE DEF aborted, marked
    <3>2. /\ [failed EXCEPT !.pc = "failSave"].starting = tk[s].starting
          /\ [failed EXCEPT !.pc = "done", !.complete = TRUE].starting = tk[s].starting
      BY <1>3 DEF TicketRecords
    <3> HIDE DEF failed
    <3> QED BY <1>2, <3>1, <3>2
  <2> QED BY <1>10, <2>1, <2>2, <2>3, <2>4, <2>5, <2>6, <2>7, <2>8 DEF Coordinator
<1>11. ASSUME NEW s \in Tickets, CommitStart(s) PROVE CommitStart(t)
  <2>1. s = t
    BY <1>1, <1>11 DEF CommitStart, FailWith
  <2> QED BY <1>11, <2>1
<1> QED BY <1>8, <1>9, <1>10, <1>11 DEF LaunchStep

(* launch commits to Start only for a ticket somebody waits for and nobody   *)
(* abandoned.                                                                *)
THEOREM CommitsOnlyWhileWanted == Spec => CommitOnlyWhileWanted
<1> DEFINE Wanted == \A t \in Tickets :
                       ~tk[t].starting /\ tk'[t].starting => tk[t].waiters > 0 /\ ~tk[t].abandoned
<1>1. ASSUME LaunchInv, LaunchStep PROVE Wanted
  <2> SUFFICES ASSUME NEW t \in Tickets, ~tk[t].starting, tk'[t].starting
               PROVE  tk[t].waiters > 0 /\ ~tk[t].abandoned
    OBVIOUS
  <2>1. CommitStart(t) /\ TicketInv(t) /\ tk[t].waiters \in Nat
    BY <1>1, OnlyCommitStarts, Known, WaitersKnown
  <2>2. tk[t].pc = "validated" /\ ~tk[t].canceled
    <3>1. tk \in [Tickets -> TicketRecords] /\ tk[t] \in TicketRecords
      BY <1>1, Known
    <3>2. ASSUME FailWith(t, "error") PROVE FALSE
      <4>1. TicketKeeps(t)
        BY <3>1, <3>2, TicketMoves DEF FailWith, CoordinatorSteps, Errors
      <4> QED BY <4>1 DEF TicketKeeps
    <3> QED BY <2>1, <3>2 DEF CommitStart
  <2>3. tk[t].waiters # 0 /\ ~tk[t].abandoned
    BY <2>1, <2>2 DEF TicketInv
  <2> QED BY <2>1, <2>3
<1>2. LaunchInv /\ [Next]_stateVars => [Wanted]_stateVars
  <2>1. ASSUME LaunchInv, DisableLaunches PROVE Wanted
    BY <2>1 DEF DisableLaunches, launchVars
  <2> HIDE DEF Wanted
  <2> QED BY <1>1, <2>1 DEF Next
<1>3. [][Wanted]_stateVars => CommitOnlyWhileWanted
  BY DEF CommitOnlyWhileWanted
<1> QED BY <1>2, <1>3, LaunchInvariant, PTL DEF Spec
=============================================================================
