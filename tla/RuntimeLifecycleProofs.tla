------------------------ MODULE RuntimeLifecycleProofs ------------------------
(*****************************************************************************)
(* Proofs about epoch start, shutdown and clean exit, composed with launch   *)
(* coordination.                                                             *)
(*                                                                           *)
(* The argument: a confirmation finds no launch in flight, and from then on  *)
(* some fence closes admission (preparing, then disabled for good), so no    *)
(* child is spawned behind the confirmed roster; every durable or visible    *)
(* effect of a plan is reached only through the step that made it durable;   *)
(* and the state a clean exit checks under the lock cannot change after it.  *)
(*****************************************************************************)
EXTENDS RuntimeLifecycle, RuntimeOutcomeProofs

-----------------------------------------------------------------------------
(* The inductive invariant.                                                  *)

PlanTypeOK ==
  /\ plans \in [Plans -> PlanRecords]
  /\ closed \subseteq Tickets
  /\ life \in LifecycleRecords

InFlightPlan(p) == plans[p].pc \notin {"none", "done"}

(* What a result that is final, or about to become so, stands for.           *)
ResultInv(p, r) ==
  /\ r \in {"draining", "unknown", "rejected"}
  /\ r = "rejected" => life.shutdowns[p] = "none" /\ ~plans[p].committed /\ plans[p].attempted = {}
  /\ r = "draining" => plans[p].committed /\ plans[p].roster \subseteq closed

(* What each step of performShutdown knows of its plan.                      *)
PlanInv(p) ==
  /\ plans[p].pc = "none" => plans[p] = NoPlan /\ life.shutdowns[p] = "none"
  /\ plans[p].pc \in {"validate", "recheck", "reserve"} => life.shutdowns[p] = "none"
  /\ plans[p].pc \in {"validate", "recheck", "reserve", "commit"} =>
       ~plans[p].committed /\ plans[p].attempted = {}
  /\ plans[p].pc \notin {"none", "finish", "done"} => plans[p].result \in {"pending", "unknown"}
  /\ plans[p].pc \in {"commit", "close"} => life.shutdowns[p] # "none"
  /\ plans[p].pc = "close" => /\ plans[p].committed /\ plans[p].attempted \subseteq plans[p].roster
                              /\ plans[p].result # "unknown" => plans[p].attempted \subseteq closed
  /\ plans[p].pc = "finish" => ResultInv(p, plans[p].result)
  /\ plans[p].pc = "done" => ResultInv(p, plans[p].outcome)
  /\ plans[p].pc # "done" => plans[p].outcome \in {"none", "pending"}
  /\ plans[p].committed => shutdownCommitted /\ life.shutdowns[p] # "none"

(* At most one plan is in flight, and exactly then the fence is up.          *)
FenceInv ==
  /\ \A p, q \in Plans : InFlightPlan(p) /\ InFlightPlan(q) => p = q
  /\ shutdownPreparing <=> \E p \in Plans : InFlightPlan(p)
  /\ lifecyclePending = IF shutdownPreparing THEN 1 ELSE 0

(* From its confirmation a plan that is not rejected finds admission closed, *)
(* nothing pending, and every possible child in its roster.                  *)
InPlay(p) == InFlightPlan(p) \/ plans[p].outcome \in {"draining", "unknown"}
RosterInv ==
  \A p \in Plans :
    /\ InPlay(p) => pending = 0 /\ PossibleChildren \subseteq plans[p].roster
    /\ plans[p].outcome \in {"draining", "unknown"} => disabled

CommittedInv == shutdownCommitted => pending = 0 /\ disabled
EpochInv == lifecycleStarting => KnownRequests = {}

(* Admission is closed for good, nothing runs, no run is uncertain.          *)
Settled ==
  /\ disabled /\ pending = 0 /\ active = 0
  /\ \A t \in Tickets : runs[t].pc # "absent" => ~runs[t].uncertain
ServeInv == serve = "record" \/ life.clean => Settled

ShutdownInv ==
  /\ PlanTypeOK /\ RevisionTypeOK /\ FenceTypeOK
  /\ \A p \in Plans : PlanInv(p)
  /\ FenceInv /\ CloseAfterDurableIntent
  /\ RosterInv /\ CommittedInv /\ EpochInv
  /\ ServeInv
  /\ serve # "serving" => disabled

-----------------------------------------------------------------------------
(* Launch coordination while admission is closed.                            *)

(* With the counter at zero no ticket holds a reservation.                   *)
LEMMA NothingPending ==
  ASSUME LaunchInv, pending = 0, NEW t \in Tickets
  PROVE  ~HoldsPending(t)
<1>1. PendingTickets = {}
  BY ReservationsFinite, FS_EmptySet DEF LaunchInv, ReservationAccounting
<1> QED BY <1>1 DEF PendingTickets

(* With the counter at zero no run holds a slot.                             *)
LEMMA NothingActive ==
  ASSUME LaunchInv, active = 0, NEW t \in Tickets
  PROVE  ~HoldsActive(t)
<1>1. ActiveRuns = {}
  BY ReservationsFinite, FS_EmptySet DEF LaunchInv, ReservationAccounting
<1> QED BY <1>1 DEF ActiveRuns

(* No launch is pending and none is admitted: nothing is spawned.            *)
LEMMA NoSpawnBehindFence ==
  ASSUME LaunchInv, LaunchStep, pending = 0, executionAdmissionClosedLocked
  PROVE  /\ pending' = 0 /\ PossibleChildren' \subseteq PossibleChildren
         /\ \A t \in Tickets : child[t] = "none" => child'[t] = "none"
<1>1. CASE UNCHANGED <<pending, child>>
  BY <1>1 DEF PossibleChildren
<1>2. CASE CallerStep
  <2>1. ASSUME NEW c \in Callers, NEW id \in RequestIDs, NEW sel \in Selections, NEW t \in Tickets,
               AdmitLaunch(c, id, sel, t)
        PROVE  FALSE
    BY <2>1 DEF AdmitLaunch, AdmissionOpen
  <2>2. UNCHANGED <<pending, child>>
    BY <1>2, <2>1 DEF CallerStep, JoinLaunch, RefuseLaunch, LaunchAnswered, LaunchCanceled
  <2> QED BY <1>1, <2>2
<1>3. ASSUME NEW t \in Tickets, CoordinatorTimeout(t) \/ Reconcile(t) PROVE UNCHANGED <<pending, child>>
  BY <1>3 DEF CoordinatorTimeout, Reconcile, WaitReturned, SaveExit, PersistOwnedRecovery,
              FinishReconcile
<1>4. ASSUME NEW t \in Tickets, Coordinator(t) PROVE UNCHANGED <<pending, child>>
  <2>1. tk[t].pc \notin {"validate", "validated", "failing", "reserve", "start", "attach",
                         "failSave", "failDone"}
    BY NothingPending DEF HoldsPending
  <2>2. SaveStarted(t) \/ CompleteLaunch(t)
    BY <1>4, <2>1 DEF Coordinator, ValidateTarget, CommitStart, ReserveLaunch, Start, AttachChild,
                      Fail, SaveUncertainFailure, FailDone
  <2> QED BY <2>2 DEF SaveStarted, CompleteLaunch
<1>5. ASSUME NEW t \in Tickets, ChildExits(t)
      PROVE  /\ pending' = 0 /\ PossibleChildren' \subseteq PossibleChildren
             /\ \A s \in Tickets : child[s] = "none" => child'[s] = "none"
  <2>1. child \in [Tickets -> ChildStates]
    BY Known
  <2> QED BY <1>5, <2>1 DEF ChildExits, PossibleChildren
<1> QED BY <1>1, <1>2, <1>3, <1>4, <1>5 DEF LaunchStep

(* No request id is taken while admission is closed.                         *)
LEMMA NoRequestBehindFence ==
  ASSUME LaunchInv, LaunchStep, executionAdmissionClosedLocked
  PROVE  KnownRequests' \subseteq KnownRequests
<1>1. CASE UNCHANGED tickets
  BY <1>1 DEF KnownRequests
<1>2. CASE CallerStep
  <2>1. ASSUME NEW c \in Callers, NEW id \in RequestIDs, NEW sel \in Selections, NEW t \in Tickets,
               AdmitLaunch(c, id, sel, t)
        PROVE  FALSE
    BY <2>1 DEF AdmitLaunch, AdmissionOpen
  <2>2. UNCHANGED tickets
    BY <1>2, <2>1 DEF CallerStep, JoinLaunch, RefuseLaunch, LaunchAnswered, LaunchCanceled
  <2> QED BY <1>1, <2>2
<1>3. ASSUME NEW t \in Tickets, CoordinatorTimeout(t) \/ Reconcile(t) \/ ChildExits(t)
      PROVE  UNCHANGED tickets
  BY <1>3 DEF CoordinatorTimeout, Reconcile, WaitReturned, SaveExit, PersistOwnedRecovery,
              FinishReconcile, ChildExits
<1>4. ASSUME NEW t \in Tickets, Coordinator(t) PROVE KnownRequests' \subseteq KnownRequests
  <2>1. CASE Fail(t)
    <3>1. tickets' = tickets \/ tickets' = [tickets EXCEPT ![tk[t].id] = None]
      BY <2>1 DEF Fail
    <3>2. tickets \in [RequestIDs -> Tickets \cup {None}]
      BY DEF LaunchInv, LaunchTypeOK
    <3> QED BY <3>1, <3>2 DEF KnownRequests
  <2>2. CASE ~Fail(t)
    <3>1. UNCHANGED tickets
      BY <1>4, <2>2 DEF Coordinator, ValidateTarget, CommitStart, ReserveLaunch, Start, AttachChild,
                        SaveStarted, CompleteLaunch, SaveUncertainFailure, FailDone
    <3> QED BY <1>1, <3>1
  <2> QED BY <2>1, <2>2
<1> QED BY <1>1, <1>2, <1>3, <1>4 DEF LaunchStep

(* Once everything is settled the runs and their journal stay as they are.   *)
LEMMA SettledStays ==
  ASSUME LaunchInv, LaunchStep, Settled
  PROVE  pending' = 0 /\ active' = 0 /\ UNCHANGED runs
<1>1. \A t \in Tickets : /\ runs[t].pc \in {"absent", "done"}
                         /\ tk[t].pc \notin {"validate", "validated", "failing", "reserve", "start",
                                             "attach", "failSave", "failDone", "publish", "complete"}
  <2> SUFFICES ASSUME NEW t \in Tickets
               PROVE  /\ runs[t].pc \in {"absent", "done"}
                      /\ tk[t].pc \notin {"validate", "validated", "failing", "reserve", "start",
                                          "attach", "failSave", "failDone", "publish", "complete"}
    OBVIOUS
  <2>1. ~HoldsPending(t) /\ ~HoldsActive(t) /\ TicketInv(t)
    BY NothingPending, NothingActive, Known DEF Settled
  <2> QED BY <2>1 DEF HoldsPending, HoldsActive, TicketInv
<1>2. CASE CallerStep
  <2>1. ASSUME NEW c \in Callers, NEW id \in RequestIDs, NEW sel \in Selections, NEW t \in Tickets,
               AdmitLaunch(c, id, sel, t)
        PROVE  FALSE
    BY <2>1 DEF AdmitLaunch, AdmissionOpen, Settled, executionAdmissionClosedLocked
  <2>2. UNCHANGED <<pending, active, runs>>
    BY <1>2, <2>1 DEF CallerStep, JoinLaunch, RefuseLaunch, LaunchAnswered, LaunchCanceled
  <2> QED BY <2>2 DEF Settled
<1>3. ASSUME NEW t \in Tickets, Coordinator(t) \/ Reconcile(t) PROVE FALSE
  BY <1>1, <1>3 DEF Coordinator, ValidateTarget, CommitStart, ReserveLaunch, Start, AttachChild,
       SaveStarted, CompleteLaunch, Fail, SaveUncertainFailure, FailDone,
       Reconcile, WaitReturned, SaveExit, PersistOwnedRecovery, FinishReconcile
<1>4. ASSUME NEW t \in Tickets, CoordinatorTimeout(t) \/ ChildExits(t)
      PROVE  UNCHANGED <<pending, active, runs>>
  BY <1>4 DEF CoordinatorTimeout, ChildExits
<1> QED BY <1>2, <1>3, <1>4 DEF LaunchStep, Settled

(* Admission once closed for the epoch stays closed.                         *)
LEMMA DisabledStays ==
  ASSUME NEW off, disabled => off, UNCHANGED revisionVars \/ changedLocked(off)
  PROVE  disabled => disabled'
BY DEF revisionVars, changedLocked

(* Every change of the revision keeps its type.                              *)
LEMMA RevisionMoves ==
  ASSUME RevisionTypeOK, NEW off \in BOOLEAN, changedLocked(off)
  PROVE  RevisionTypeOK'
<1>1. revision \in 0..MaxRevision /\ revisionExhausted \in BOOLEAN
  BY DEF RevisionTypeOK
<1>2. revision' \in 0..MaxRevision
  BY <1>1, ConstantsAssumption DEF changedLocked
<1>3. revisionExhausted' \in BOOLEAN /\ disabled' \in BOOLEAN
  BY <1>1, Zenon DEF changedLocked
<1> QED BY <1>2, <1>3 DEF RevisionTypeOK

-----------------------------------------------------------------------------
(* Launch coordination under ShutdownInv.                                    *)

(* While a plan is in play, or once a shutdown is committed, admission is    *)
(* closed.                                                                   *)
LEMMA FenceUp ==
  ASSUME ShutdownInv, \/ \E p \in Plans : InPlay(p)
                      \/ shutdownCommitted \/ lifecycleStarting \/ Settled
  PROVE  executionAdmissionClosedLocked
<1>1. ASSUME NEW p \in Plans, InPlay(p) PROVE shutdownPreparing \/ disabled
  BY <1>1 DEF ShutdownInv, FenceInv, RosterInv, InPlay
<1> QED BY <1>1 DEF executionAdmissionClosedLocked, Settled

(* The parts of ShutdownInv that only read plans and fences.                 *)
LEMMA PlanPartsKept ==
  ASSUME ShutdownInv, UNCHANGED <<plans, closed, life, shutdownPreparing, shutdownCommitted,
                                  lifecyclePending>>
  PROVE  /\ PlanTypeOK' /\ \A p \in Plans : PlanInv(p)' /\ InPlay(p)' = InPlay(p)
         /\ FenceInv' /\ CloseAfterDurableIntent'
<1>1. PlanTypeOK'
  BY DEF ShutdownInv, PlanTypeOK
<1>2. ASSUME NEW p \in Plans PROVE PlanInv(p)' /\ InPlay(p)' = InPlay(p)
  <2>1. PlanInv(p)
    BY DEF ShutdownInv
  <2> QED BY <2>1 DEF PlanInv, ResultInv, NoPlan, InPlay, InFlightPlan
<1>3. FenceInv'
  BY DEF ShutdownInv, FenceInv, InFlightPlan
<1>4. CloseAfterDurableIntent'
  BY DEF ShutdownInv, CloseAfterDurableIntent
<1> QED BY <1>1, <1>2, <1>3, <1>4

(* Launch coordination preserves ShutdownInv.                                *)
LEMMA LaunchPartStep ==
  ASSUME LaunchInv, ShutdownInv, LaunchPart
  PROVE  ShutdownInv'
<1>1. /\ LaunchStep
      /\ UNCHANGED <<plans, closed, life, serve, controlsPending, shutdownPreparing,
                     shutdownCommitted, lifecycleStarting, lifecycleBound, lifecycleUncertain,
                     lifecyclePending>>
  BY DEF LaunchPart, fenceVars, planVars
<1>2. RevisionTypeOK' /\ (disabled => disabled')
  <2>1. UNCHANGED revisionVars \/ changedLocked(disabled)
    BY <1>1, LaunchRevision
  <2>2. RevisionTypeOK
    BY DEF ShutdownInv
  <2> QED BY <2>1, <2>2, RevisionType, DisabledStays
<1>3. FenceTypeOK'
  BY <1>1 DEF ShutdownInv, FenceTypeOK
<1>4. /\ PlanTypeOK' /\ \A p \in Plans : PlanInv(p)' /\ InPlay(p)' = InPlay(p)
      /\ FenceInv' /\ CloseAfterDurableIntent'
  BY <1>1, PlanPartsKept
<1>5. RosterInv'
  <2> SUFFICES ASSUME NEW p \in Plans
               PROVE  /\ InPlay(p) => pending' = 0 /\ PossibleChildren' \subseteq plans[p].roster
                      /\ plans[p].outcome \in {"draining", "unknown"} => disabled'
    BY <1>1, <1>4 DEF RosterInv
  <2>1. plans[p].outcome \in {"draining", "unknown"} => disabled'
    BY <1>2 DEF ShutdownInv, RosterInv
  <2>2. ASSUME InPlay(p) PROVE pending' = 0 /\ PossibleChildren' \subseteq plans[p].roster
    <3>1. pending = 0 /\ PossibleChildren \subseteq plans[p].roster
      BY <2>2 DEF ShutdownInv, RosterInv
    <3>2. executionAdmissionClosedLocked
      BY <2>2, FenceUp
    <3> QED BY <1>1, <3>1, <3>2, NoSpawnBehindFence
  <2> QED BY <2>1, <2>2
<1>6. CommittedInv'
  <2> SUFFICES ASSUME shutdownCommitted PROVE pending' = 0 /\ disabled'
    BY <1>1 DEF CommittedInv
  <2>1. pending = 0 /\ disabled /\ executionAdmissionClosedLocked
    BY FenceUp DEF ShutdownInv, CommittedInv
  <2> QED BY <1>1, <1>2, <2>1, NoSpawnBehindFence
<1>7. EpochInv'
  <2> SUFFICES ASSUME lifecycleStarting PROVE KnownRequests' = {}
    BY <1>1 DEF EpochInv
  <2>1. KnownRequests = {} /\ executionAdmissionClosedLocked
    BY FenceUp DEF ShutdownInv, EpochInv
  <2> QED BY <1>1, <2>1, NoRequestBehindFence
<1>8. ServeInv'
  <2> SUFFICES ASSUME serve = "record" \/ life.clean PROVE Settled'
    BY <1>1 DEF ServeInv
  <2>1. Settled
    BY DEF ShutdownInv, ServeInv
  <2> QED BY <1>1, <1>2, <2>1, SettledStays DEF Settled
<1>9. (serve # "serving" => disabled)'
  BY <1>1, <1>2 DEF ShutdownInv
<1> QED BY <1>2, <1>3, <1>4, <1>5, <1>6, <1>7, <1>8, <1>9 DEF ShutdownInv

(* A step that leaves the launches, the plans and the fences alone, and at   *)
(* most counts a control or bumps the revision.                              *)
LEMMA ShutdownFrame ==
  ASSUME ShutdownInv, RevisionTypeOK', disabled => disabled', controlsPending' \in Nat,
         UNCHANGED <<launchVars, fenceVars, plans, closed, life, serve>>
  PROVE  ShutdownInv'
<1>1. UNCHANGED <<plans, closed, life, serve, shutdownPreparing, shutdownCommitted,
                  lifecycleStarting, lifecycleBound, lifecycleUncertain, lifecyclePending>>
  BY DEF fenceVars
<1>2. UNCHANGED <<tickets, runs, child, pending, active>>
  BY DEF launchVars
<1>3. FenceTypeOK'
  BY <1>1 DEF ShutdownInv, FenceTypeOK
<1>4. /\ PlanTypeOK' /\ \A p \in Plans : PlanInv(p)' /\ InPlay(p)' = InPlay(p)
      /\ FenceInv' /\ CloseAfterDurableIntent'
  BY <1>1, PlanPartsKept
<1>5. RosterInv' /\ CommittedInv' /\ EpochInv'
  <2>1. PossibleChildren' = PossibleChildren /\ KnownRequests' = KnownRequests
    BY <1>2 DEF PossibleChildren, KnownRequests
  <2>2. RosterInv'
    BY <1>1, <1>2, <1>4, <2>1 DEF ShutdownInv, RosterInv
  <2>3. CommittedInv' /\ EpochInv'
    BY <1>1, <1>2, <2>1 DEF ShutdownInv, CommittedInv, EpochInv
  <2> QED BY <2>2, <2>3
<1>6. ServeInv' /\ (serve # "serving" => disabled)'
  <2>1. Settled => Settled'
    BY <1>2 DEF Settled
  <2> QED BY <1>1, <2>1 DEF ShutdownInv, ServeInv
<1> QED BY <1>3, <1>4, <1>5, <1>6 DEF ShutdownInv

-----------------------------------------------------------------------------
(* The steps of performShutdown.                                             *)

OtherPlansKept(p) ==
  \A q \in Plans \ {p} : plans'[q] = plans[q] /\ life'.shutdowns[q] = life.shutdowns[q]

(* A step of one plan that may add durable intent, the commit and closed     *)
(* terminals, and takes none of them back.                                   *)
PlanAdvances(p) ==
  /\ OtherPlansKept(p)
  /\ plans'[p].roster = plans[p].roster
  /\ plans[p].committed => plans'[p].committed
  /\ life.shutdowns[p] # "none" => life'.shutdowns[p] # "none"
  /\ life'.clean => life.clean
  /\ closed \subseteq closed'
  /\ \A t \in closed' \ closed :
       t \in plans'[p].roster /\ life'.shutdowns[p] # "none" /\ plans'[p].committed
  /\ shutdownCommitted => shutdownCommitted'

(* Such a step keeps what the other plans know, and every closed terminal    *)
(* stays covered by a plan with durable intent.                              *)
LEMMA PlanAdvancesOthers ==
  ASSUME ShutdownInv, NEW p \in Plans, PlanAdvances(p), PlanInv(p)'
  PROVE  (\A q \in Plans : PlanInv(q)') /\ CloseAfterDurableIntent'
<1>1. ASSUME NEW q \in Plans, q # p PROVE PlanInv(q)'
  <2>1. /\ PlanInv(q) /\ plans'[q] = plans[q] /\ life'.shutdowns[q] = life.shutdowns[q]
        /\ closed \subseteq closed' /\ (shutdownCommitted => shutdownCommitted')
    BY <1>1 DEF ShutdownInv, PlanAdvances, OtherPlansKept
  <2> QED BY <2>1 DEF PlanInv, ResultInv, NoPlan
<1>2. CloseAfterDurableIntent'
  <2> SUFFICES ASSUME NEW t \in closed'
               PROVE  \E q \in Plans : /\ t \in plans'[q].roster /\ life'.shutdowns[q] # "none"
                                       /\ plans'[q].committed
    BY DEF CloseAfterDurableIntent
  <2>1. CASE t \notin closed
    BY <2>1 DEF PlanAdvances
  <2>2. CASE t \in closed
    <3>1. PICK q \in Plans : t \in plans[q].roster /\ life.shutdowns[q] # "none" /\ plans[q].committed
      BY <2>2 DEF ShutdownInv, CloseAfterDurableIntent
    <3> QED BY <3>1 DEF PlanAdvances, OtherPlansKept
  <2> QED BY <2>1, <2>2
<1> QED BY <1>1, <1>2

(* What the coordinator of a plan leaves alone until it finishes.            *)
CoordinatorFrame ==
  /\ UNCHANGED launchVars
  /\ UNCHANGED <<controlsPending, shutdownPreparing, lifecycleStarting, lifecycleBound>>
  /\ UNCHANGED <<lifecycleUncertain, lifecyclePending, serve>>
  /\ disabled => disabled'
  /\ shutdownCommitted' \in BOOLEAN
  /\ shutdownCommitted' => shutdownCommitted \/ disabled'

(* A step of the coordinator of a plan that stays in flight.                 *)
LEMMA PlanStep ==
  ASSUME ShutdownInv, NEW p \in Plans, InFlightPlan(p), InFlightPlan(p)', PlanTypeOK',
         RevisionTypeOK', CoordinatorFrame, PlanAdvances(p), PlanInv(p)'
  PROVE  ShutdownInv'
<1>1. /\ UNCHANGED <<tickets, runs, child, pending, active>>
      /\ PossibleChildren' = PossibleChildren /\ KnownRequests' = KnownRequests
  BY DEF CoordinatorFrame, launchVars, PossibleChildren, KnownRequests
<1>2. FenceTypeOK'
  BY DEF ShutdownInv, FenceTypeOK, CoordinatorFrame
<1>3. (\A q \in Plans : PlanInv(q)') /\ CloseAfterDurableIntent'
  BY PlanAdvancesOthers
<1>4. \A q \in Plans : InFlightPlan(q)' <=> InFlightPlan(q)
  BY DEF PlanAdvances, OtherPlansKept, InFlightPlan
<1>5. FenceInv'
  BY <1>4 DEF ShutdownInv, FenceInv, CoordinatorFrame
<1>6. plans'[p].outcome \in {"none", "pending"}
  BY DEF PlanInv, InFlightPlan
<1>7. RosterInv'
  <2> SUFFICES ASSUME NEW q \in Plans
               PROVE  /\ InPlay(q)' => pending' = 0 /\ PossibleChildren' \subseteq plans'[q].roster
                      /\ plans'[q].outcome \in {"draining", "unknown"} => disabled'
    BY DEF RosterInv
  <2>1. /\ InPlay(q) => pending = 0 /\ PossibleChildren \subseteq plans[q].roster
        /\ plans[q].outcome \in {"draining", "unknown"} => disabled
    BY DEF ShutdownInv, RosterInv
  <2>2. CASE q = p
    <3>1. InPlay(q) /\ plans'[q].roster = plans[q].roster
      BY <2>2 DEF InPlay, PlanAdvances
    <3> QED BY <1>1, <1>6, <2>1, <2>2, <3>1
  <2>3. CASE q # p
    <3>1. plans'[q] = plans[q]
      BY <2>3 DEF PlanAdvances, OtherPlansKept
    <3>2. InPlay(q)' <=> InPlay(q)
      BY <3>1 DEF InPlay, InFlightPlan
    <3> QED BY <1>1, <2>1, <3>1, <3>2 DEF CoordinatorFrame
  <2> QED BY <2>2, <2>3
<1>8. CommittedInv'
  <2>1. pending' = 0
    BY <1>1 DEF ShutdownInv, RosterInv, InPlay
  <2> QED BY <2>1 DEF ShutdownInv, CommittedInv, CoordinatorFrame
<1>9. EpochInv'
  BY <1>1 DEF ShutdownInv, EpochInv, CoordinatorFrame
<1>10. ServeInv' /\ (serve # "serving" => disabled)'
  <2>1. Settled => Settled'
    BY <1>1 DEF Settled, CoordinatorFrame
  <2> QED BY <2>1 DEF ShutdownInv, ServeInv, CoordinatorFrame, PlanAdvances
<1> QED BY <1>2, <1>3, <1>5, <1>7, <1>8, <1>9, <1>10 DEF ShutdownInv

(* What ShutdownInv says of one plan.                                        *)
LEMMA PlanKnown ==
  ASSUME ShutdownInv, NEW p \in Plans
  PROVE  /\ plans \in [Plans -> PlanRecords] /\ plans[p] \in PlanRecords
         /\ closed \subseteq Tickets /\ life \in LifecycleRecords /\ PlanInv(p)
         /\ shutdownCommitted \in BOOLEAN /\ disabled \in BOOLEAN /\ RevisionTypeOK
BY DEF ShutdownInv, PlanTypeOK, FenceTypeOK, RevisionTypeOK

(* A plan that only moves on, or goes to its end with a result.              *)
LEMMA PlanGoes ==
  ASSUME plans \in [Plans -> PlanRecords], NEW p \in Plans, NEW x \in PlanSteps,
         plans' = [plans EXCEPT ![p].pc = x]
  PROVE  /\ plans' \in [Plans -> PlanRecords] /\ plans'[p].pc = x
         /\ \A q \in Plans \ {p} : plans'[q] = plans[q]
         /\ plans'[p].roster = plans[p].roster /\ plans'[p].attempted = plans[p].attempted
         /\ plans'[p].result = plans[p].result /\ plans'[p].outcome = plans[p].outcome
         /\ plans'[p].committed = plans[p].committed
<1>1. plans[p] \in PlanRecords
  OBVIOUS
<1>2. [plans[p] EXCEPT !.pc = x] \in PlanRecords
  BY <1>1 DEF PlanRecords
<1>3. plans'[p] = [plans[p] EXCEPT !.pc = x]
  OBVIOUS
<1>4. plans' \in [Plans -> PlanRecords]
  BY <1>2
<1> QED BY <1>1, <1>3, <1>4 DEF PlanRecords

(* What FinishWith writes.                                                   *)
LEMMA PlanFinishes ==
  ASSUME plans \in [Plans -> PlanRecords], NEW p \in Plans, NEW r \in Outcomes, FinishWith(p, r)
  PROVE  /\ plans' \in [Plans -> PlanRecords] /\ plans'[p].pc = "finish" /\ plans'[p].result = r
         /\ \A q \in Plans \ {p} : plans'[q] = plans[q]
         /\ plans'[p].roster = plans[p].roster /\ plans'[p].attempted = plans[p].attempted
         /\ plans'[p].outcome = plans[p].outcome /\ plans'[p].committed = plans[p].committed
<1>1. plans[p] \in PlanRecords
  OBVIOUS
<1>2. [plans[p] EXCEPT !.pc = "finish", !.result = r] \in PlanRecords
  BY <1>1 DEF PlanRecords, PlanSteps
<1>3. plans'[p] = [plans[p] EXCEPT !.pc = "finish", !.result = r]
  BY DEF FinishWith
<1>4. plans' \in [Plans -> PlanRecords]
  BY <1>2 DEF FinishWith
<1>5. \A q \in Plans \ {p} : plans'[q] = plans[q]
  BY DEF FinishWith
<1> QED BY <1>1, <1>3, <1>4, <1>5 DEF PlanRecords

(* A step that only rewrites plans or lifecycle.json.                        *)
LEMMA StateKept ==
  ASSUME ShutdownInv, UNCHANGED <<stateVars, serve>>
  PROVE  CoordinatorFrame /\ RevisionTypeOK' /\ UNCHANGED shutdownCommitted
<1>1. UNCHANGED launchVars /\ UNCHANGED <<revision, revisionExhausted, disabled, controlsPending, serve>>
  BY DEF stateVars, revisionVars
<1>2. UNCHANGED <<shutdownPreparing, shutdownCommitted, lifecycleStarting, lifecycleBound,
                  lifecycleUncertain, lifecyclePending>>
  BY DEF stateVars, fenceVars
<1>3. CoordinatorFrame
  BY <1>1, <1>2 DEF CoordinatorFrame, ShutdownInv, FenceTypeOK
<1>4. RevisionTypeOK'
  BY <1>1 DEF ShutdownInv, RevisionTypeOK
<1> QED BY <1>2, <1>3, <1>4

(* Validation and the recheck only move the plan.                            *)
LEMMA ValidateChildrenStep ==
  ASSUME ShutdownInv, NEW p \in Plans, ValidateChildren(p) \/ RecheckRevision(p)
  PROVE  ShutdownInv'
<1>1. /\ plans \in [Plans -> PlanRecords] /\ PlanInv(p) /\ plans[p].pc \in {"validate", "recheck"}
      /\ closed \subseteq Tickets /\ life \in LifecycleRecords
  BY PlanKnown DEF ValidateChildren, RecheckRevision
<1>2. UNCHANGED <<closed, life>> /\ UNCHANGED <<stateVars, serve>>
  BY DEF ValidateChildren, RecheckRevision
<1>3. CoordinatorFrame /\ RevisionTypeOK' /\ UNCHANGED shutdownCommitted
  BY <1>2, StateKept
<1>4. /\ plans' \in [Plans -> PlanRecords] /\ \A q \in Plans \ {p} : plans'[q] = plans[q]
      /\ plans'[p].roster = plans[p].roster /\ plans'[p].attempted = plans[p].attempted
      /\ plans'[p].outcome = plans[p].outcome /\ plans'[p].committed = plans[p].committed
      /\ \/ plans'[p].pc \in {"recheck", "reserve"} /\ plans'[p].result = plans[p].result
         \/ plans'[p].pc = "finish" /\ plans'[p].result = "rejected"
  <2>1. CASE plans' = [plans EXCEPT ![p].pc = "recheck"]
    BY <1>1, <2>1, PlanGoes DEF PlanSteps
  <2>2. CASE plans' = [plans EXCEPT ![p].pc = "reserve"]
    BY <1>1, <2>2, PlanGoes DEF PlanSteps
  <2>3. CASE FinishWith(p, "rejected")
    BY <1>1, <2>3, PlanFinishes DEF Outcomes
  <2> QED BY <2>1, <2>2, <2>3 DEF ValidateChildren, RecheckRevision
<1>5. PlanInv(p)'
  BY <1>1, <1>2, <1>3, <1>4 DEF PlanInv, ResultInv
<1>6. PlanAdvances(p) /\ PlanTypeOK'
  BY <1>1, <1>2, <1>3, <1>4 DEF PlanAdvances, OtherPlansKept, PlanTypeOK
<1>7. InFlightPlan(p) /\ InFlightPlan(p)'
  BY <1>1, <1>4 DEF InFlightPlan
<1> QED BY <1>3, <1>5, <1>6, <1>7, PlanStep

(* Writes of lifecycle.json for one plan.                                    *)
LEMMA ShutdownRecordMoves ==
  ASSUME life \in LifecycleRecords, NEW p \in Plans, NEW r \in {"none", "pending", "draining", "unknown"},
         life' = [life EXCEPT !.shutdowns[p] = r]
  PROVE  /\ life' \in LifecycleRecords /\ life'.clean = life.clean /\ life'.epoch = life.epoch
         /\ life'.shutdowns[p] = r
         /\ \A q \in Plans \ {p} : life'.shutdowns[q] = life.shutdowns[q]
BY DEF LifecycleRecords

(* The durable intent, a refusal, or an ambiguous answer.                    *)
LEMMA ReserveShutdownStep ==
  ASSUME ShutdownInv, NEW p \in Plans, ReserveShutdown(p)
  PROVE  ShutdownInv'
<1>1. /\ plans \in [Plans -> PlanRecords] /\ PlanInv(p) /\ plans[p].pc = "reserve"
      /\ closed \subseteq Tickets /\ life \in LifecycleRecords
  BY PlanKnown DEF ReserveShutdown
<1>2. UNCHANGED closed /\ UNCHANGED <<stateVars, serve>>
  BY DEF ReserveShutdown
<1>3. CoordinatorFrame /\ RevisionTypeOK' /\ UNCHANGED shutdownCommitted
  BY <1>2, StateKept
<1>4. /\ life' \in LifecycleRecords /\ life'.clean = life.clean
      /\ \A q \in Plans \ {p} : life'.shutdowns[q] = life.shutdowns[q]
      /\ life'.shutdowns[p] = life.shutdowns[p] \/ life'.shutdowns[p] = "pending"
  <2>1. life' = life \/ life' = [life EXCEPT !.shutdowns[p] = "pending"]
    BY DEF ReserveShutdown
  <2> QED BY <1>1, <2>1, ShutdownRecordMoves
<1>5. /\ plans' \in [Plans -> PlanRecords] /\ \A q \in Plans \ {p} : plans'[q] = plans[q]
      /\ plans'[p].roster = plans[p].roster /\ plans'[p].attempted = plans[p].attempted
      /\ plans'[p].outcome = plans[p].outcome /\ plans'[p].committed = plans[p].committed
      /\ \/ plans'[p].pc = "commit" /\ plans'[p].result = plans[p].result
              /\ life'.shutdowns[p] = "pending"
         \/ plans'[p].pc = "finish" /\ plans'[p].result = "rejected" /\ life' = life
         \/ plans'[p].pc = "finish" /\ plans'[p].result = "unknown"
  <2>1. CASE /\ life' = [life EXCEPT !.shutdowns[p] = "pending"]
             /\ plans' = [plans EXCEPT ![p].pc = "commit"]
    BY <1>1, <2>1, PlanGoes, ShutdownRecordMoves DEF PlanSteps
  <2>2. CASE UNCHANGED life /\ FinishWith(p, "rejected")
    BY <1>1, <2>2, PlanFinishes DEF Outcomes
  <2>3. CASE FinishWith(p, "unknown")
    BY <1>1, <2>3, PlanFinishes DEF Outcomes
  <2> QED BY <2>1, <2>2, <2>3 DEF ReserveShutdown
<1>6. PlanInv(p)'
  BY <1>1, <1>2, <1>3, <1>5 DEF PlanInv, ResultInv
<1>7. PlanAdvances(p) /\ PlanTypeOK'
  BY <1>1, <1>2, <1>3, <1>4, <1>5 DEF PlanAdvances, OtherPlansKept, PlanTypeOK
<1>8. InFlightPlan(p) /\ InFlightPlan(p)'
  BY <1>1, <1>5 DEF InFlightPlan
<1> QED BY <1>3, <1>6, <1>7, <1>8, PlanStep

(* The commit closes admission for the epoch.                                *)
LEMMA CommitShutdownStep ==
  ASSUME ShutdownInv, NEW p \in Plans, CommitShutdown(p)
  PROVE  ShutdownInv'
<1>1. /\ plans \in [Plans -> PlanRecords] /\ plans[p] \in PlanRecords /\ PlanInv(p)
      /\ plans[p].pc = "commit" /\ closed \subseteq Tickets /\ life \in LifecycleRecords
      /\ RevisionTypeOK
  BY PlanKnown DEF CommitShutdown
<1>2. /\ UNCHANGED <<closed, life>> /\ UNCHANGED launchVars /\ shutdownCommitted' = TRUE
      /\ UNCHANGED <<controlsPending, serve, shutdownPreparing, lifecycleStarting, lifecycleBound,
                     lifecycleUncertain, lifecyclePending>>
      /\ changedLocked(TRUE)
  BY DEF CommitShutdown
<1>3. RevisionTypeOK' /\ disabled' = TRUE
  BY <1>1, <1>2, RevisionMoves DEF changedLocked
<1>4. CoordinatorFrame
  BY <1>2, <1>3 DEF CoordinatorFrame
<1> DEFINE x == [plans[p] EXCEPT !.pc = "close", !.committed = TRUE]
<1>5. /\ x \in PlanRecords /\ x.pc = "close" /\ x.committed /\ x.roster = plans[p].roster
      /\ x.attempted = plans[p].attempted /\ x.outcome = plans[p].outcome
      /\ x.result = plans[p].result
  BY <1>1 DEF PlanRecords, PlanSteps
<1>6. plans' = [plans EXCEPT ![p] = x]
  BY DEF CommitShutdown
<1> HIDE DEF x
<1>7. plans'[p] = x /\ plans' \in [Plans -> PlanRecords] /\ \A q \in Plans \ {p} : plans'[q] = plans[q]
  BY <1>1, <1>5, <1>6
<1>8. plans[p].attempted = {}
  BY <1>1 DEF PlanInv
<1>9. PlanInv(p)'
  BY <1>1, <1>2, <1>5, <1>7, <1>8 DEF PlanInv
<1>10. PlanAdvances(p) /\ PlanTypeOK'
  BY <1>1, <1>2, <1>5, <1>7 DEF PlanAdvances, OtherPlansKept, PlanTypeOK
<1>11. InFlightPlan(p) /\ InFlightPlan(p)'
  BY <1>1, <1>5, <1>7 DEF InFlightPlan
<1> QED BY <1>3, <1>4, <1>9, <1>10, <1>11, PlanStep

(* One more terminal is attempted, closed or not.                            *)
LEMMA CloseTerminalStep ==
  ASSUME ShutdownInv, NEW p \in Plans, NEW t \in Tickets, CloseTerminal(p, t)
  PROVE  ShutdownInv'
<1>1. /\ plans \in [Plans -> PlanRecords] /\ plans[p] \in PlanRecords /\ PlanInv(p)
      /\ plans[p].pc = "close" /\ closed \subseteq Tickets /\ life \in LifecycleRecords
      /\ t \in plans[p].roster
  BY PlanKnown DEF CloseTerminal
<1>2. UNCHANGED life /\ UNCHANGED <<stateVars, serve>>
  BY DEF CloseTerminal
<1>3. CoordinatorFrame /\ RevisionTypeOK' /\ UNCHANGED shutdownCommitted
  BY <1>2, StateKept
<1>4. /\ plans' \in [Plans -> PlanRecords] /\ \A q \in Plans \ {p} : plans'[q] = plans[q]
      /\ plans'[p].pc = "close" /\ plans'[p].roster = plans[p].roster
      /\ plans'[p].attempted = plans[p].attempted \cup {t}
      /\ plans'[p].outcome = plans[p].outcome /\ plans'[p].committed = plans[p].committed
      /\ \/ plans'[p].result = plans[p].result /\ closed' = closed \cup {t}
         \/ plans'[p].result = "unknown" /\ closed' \in {closed, closed \cup {t}}
  <2>1. CASE /\ closed' = closed \cup {t}
             /\ plans' = [plans EXCEPT ![p].attempted = @ \cup {t}]
    <3> DEFINE a == plans[p].attempted \cup {t}
               x == [plans[p] EXCEPT !.attempted = a]
    <3>1. a \subseteq Tickets
      BY <1>1 DEF PlanRecords
    <3>2. plans' = [plans EXCEPT ![p] = x]
      BY <2>1
    <3> HIDE DEF a
    <3>3. /\ x \in PlanRecords /\ x.pc = plans[p].pc /\ x.roster = plans[p].roster
          /\ x.attempted = a /\ x.outcome = plans[p].outcome /\ x.result = plans[p].result
          /\ x.committed = plans[p].committed
      BY <1>1, <3>1 DEF PlanRecords
    <3> HIDE DEF x
    <3>4. /\ plans'[p] = x /\ plans' \in [Plans -> PlanRecords]
          /\ \A q \in Plans \ {p} : plans'[q] = plans[q]
      BY <1>1, <3>2, <3>3
    <3> QED BY <1>1, <2>1, <3>3, <3>4 DEF a
  <2>2. CASE /\ closed' \in {closed, closed \cup {t}}
             /\ plans' = [plans EXCEPT ![p] = [@ EXCEPT !.attempted = plans[p].attempted \cup {t},
                                                       !.result = "unknown"]]
    <3> DEFINE a == plans[p].attempted \cup {t}
               x == [plans[p] EXCEPT !.attempted = a, !.result = "unknown"]
    <3>1. a \subseteq Tickets
      BY <1>1 DEF PlanRecords
    <3>2. plans' = [plans EXCEPT ![p] = x]
      BY <2>2
    <3> HIDE DEF a
    <3>3. /\ x \in PlanRecords /\ x.pc = plans[p].pc /\ x.roster = plans[p].roster
          /\ x.attempted = a /\ x.outcome = plans[p].outcome /\ x.result = "unknown"
          /\ x.committed = plans[p].committed
      BY <1>1, <3>1 DEF PlanRecords, Outcomes
    <3> HIDE DEF x
    <3>4. /\ plans'[p] = x /\ plans' \in [Plans -> PlanRecords]
          /\ \A q \in Plans \ {p} : plans'[q] = plans[q]
      BY <1>1, <3>2, <3>3
    <3> QED BY <1>1, <2>2, <3>3, <3>4 DEF a
  <2> QED BY <2>1, <2>2 DEF CloseTerminal
<1>5. /\ plans[p].committed /\ plans[p].attempted \subseteq plans[p].roster
      /\ plans[p].result # "unknown" => plans[p].attempted \subseteq closed
      /\ plans[p].result \in {"pending", "unknown"} /\ life.shutdowns[p] # "none"
      /\ plans[p].outcome \in {"none", "pending"} /\ shutdownCommitted
  BY <1>1 DEF PlanInv
<1>6. /\ plans'[p].attempted \subseteq plans'[p].roster
      /\ plans'[p].result # "unknown" => plans'[p].attempted \subseteq closed'
      /\ closed \subseteq closed' /\ closed' \subseteq closed \cup {t} /\ closed' \subseteq Tickets
  BY <1>1, <1>4, <1>5
<1>7. PlanInv(p)'
  BY <1>2, <1>3, <1>4, <1>5, <1>6 DEF PlanInv
<1>8. PlanAdvances(p) /\ PlanTypeOK'
  BY <1>1, <1>2, <1>3, <1>4, <1>5, <1>6 DEF PlanAdvances, OtherPlansKept, PlanTypeOK
<1>9. InFlightPlan(p) /\ InFlightPlan(p)'
  BY <1>1, <1>4 DEF InFlightPlan
<1> QED BY <1>3, <1>7, <1>8, <1>9, PlanStep

(* The joined result is saved.                                               *)
LEMMA SaveShutdownStep ==
  ASSUME ShutdownInv, NEW p \in Plans, SaveShutdown(p)
  PROVE  ShutdownInv'
<1> DEFINE r == IF plans[p].result = "unknown" THEN "unknown" ELSE "draining"
<1>1. /\ plans \in [Plans -> PlanRecords] /\ PlanInv(p) /\ plans[p].pc = "close"
      /\ plans[p].attempted = plans[p].roster
      /\ closed \subseteq Tickets /\ life \in LifecycleRecords
  BY PlanKnown DEF SaveShutdown
<1>2. UNCHANGED closed /\ UNCHANGED <<stateVars, serve>>
  BY DEF SaveShutdown
<1>3. CoordinatorFrame /\ RevisionTypeOK' /\ UNCHANGED shutdownCommitted
  BY <1>2, StateKept
<1>4. /\ life' = life \/ life' = [life EXCEPT !.shutdowns[p] = r]
      /\ FinishWith(p, r) \/ FinishWith(p, "unknown")
  BY DEF SaveShutdown
<1>5. r \in {"draining", "unknown"} /\ (r = "draining" => plans[p].result # "unknown")
  OBVIOUS
<1> HIDE DEF r
<1>6. /\ life' \in LifecycleRecords /\ life'.clean = life.clean
      /\ \A q \in Plans \ {p} : life'.shutdowns[q] = life.shutdowns[q]
      /\ life'.shutdowns[p] = life.shutdowns[p] \/ life'.shutdowns[p] = r
  BY <1>1, <1>4, <1>5, ShutdownRecordMoves
<1>7. /\ plans' \in [Plans -> PlanRecords] /\ \A q \in Plans \ {p} : plans'[q] = plans[q]
      /\ plans'[p].roster = plans[p].roster /\ plans'[p].attempted = plans[p].attempted
      /\ plans'[p].outcome = plans[p].outcome /\ plans'[p].committed = plans[p].committed
      /\ plans'[p].pc = "finish" /\ plans'[p].result \in {r, "unknown"}
  BY <1>1, <1>4, <1>5, PlanFinishes DEF Outcomes
<1>8. PlanInv(p)'
  BY <1>1, <1>2, <1>3, <1>5, <1>6, <1>7 DEF PlanInv, ResultInv
<1>9. PlanAdvances(p) /\ PlanTypeOK'
  BY <1>1, <1>2, <1>3, <1>5, <1>6, <1>7 DEF PlanAdvances, OtherPlansKept, PlanTypeOK
<1>10. InFlightPlan(p) /\ InFlightPlan(p)'
  BY <1>1, <1>7 DEF InFlightPlan
<1> QED BY <1>3, <1>8, <1>9, <1>10, PlanStep

(* The plan ends; its receipt and the fences are published together.         *)
LEMMA finishShutdownStep ==
  ASSUME ShutdownInv, NEW p \in Plans, finishShutdown(p)
  PROVE  ShutdownInv'
<1> DEFINE r == plans[p].result
           off == disabled \/ r = "unknown" \/ plans[p].committed
           x == [plans[p] EXCEPT !.pc = "done", !.outcome = r]
<1>1. /\ plans \in [Plans -> PlanRecords] /\ plans[p] \in PlanRecords /\ PlanInv(p)
      /\ plans[p].pc = "finish" /\ closed \subseteq Tickets /\ life \in LifecycleRecords
      /\ RevisionTypeOK /\ FenceInv /\ FenceTypeOK /\ InFlightPlan(p)
  BY PlanKnown DEF finishShutdown, ShutdownInv, InFlightPlan
<1>2. /\ UNCHANGED <<closed, life, serve>> /\ UNCHANGED launchVars
      /\ UNCHANGED <<controlsPending, lifecycleStarting, lifecycleBound>>
      /\ shutdownPreparing' = FALSE /\ lifecyclePending' = lifecyclePending - 1
      /\ shutdownCommitted' = (shutdownCommitted \/ plans[p].committed)
      /\ lifecycleUncertain' = (lifecycleUncertain \/ r = "unknown")
      /\ changedLocked(off) /\ plans' = [plans EXCEPT ![p] = x]
  BY DEF finishShutdown
<1>3. /\ UNCHANGED <<tickets, runs, child, pending, active>>
      /\ PossibleChildren' = PossibleChildren /\ KnownRequests' = KnownRequests
  BY <1>2 DEF launchVars, PossibleChildren, KnownRequests
<1>4. ResultInv(p, r) /\ (plans[p].committed => shutdownCommitted)
  BY <1>1 DEF PlanInv
<1>5. shutdownCommitted' = shutdownCommitted
  <2>1. shutdownCommitted \in BOOLEAN
    BY <1>1 DEF FenceTypeOK
  <2>2. shutdownCommitted' <=> shutdownCommitted
    BY <1>2, <1>4
  <2>3. shutdownCommitted' \in BOOLEAN
    BY <1>2
  <2> QED BY <2>1, <2>2, <2>3
<1>6. off \in BOOLEAN
  OBVIOUS
<1>7. RevisionTypeOK' /\ (off => disabled') /\ (disabled => disabled')
  <2>1. RevisionTypeOK'
    <3> HIDE DEF off
    <3> QED BY <1>1, <1>2, <1>6, RevisionMoves
  <2>2. off => disabled'
    BY <1>2 DEF changedLocked
  <2> QED BY <2>1, <2>2
<1>8. /\ x \in PlanRecords /\ x.pc = "done" /\ x.outcome = r /\ x.roster = plans[p].roster
      /\ x.attempted = plans[p].attempted /\ x.committed = plans[p].committed
  BY <1>1 DEF PlanRecords, PlanSteps
<1> HIDE DEF x
<1>9. plans'[p] = x /\ plans' \in [Plans -> PlanRecords] /\ \A q \in Plans \ {p} : plans'[q] = plans[q]
  BY <1>1, <1>2, <1>8
<1>10. PlanTypeOK'
  BY <1>1, <1>2, <1>9 DEF PlanTypeOK
<1>11. PlanInv(p)'
  BY <1>1, <1>2, <1>4, <1>5, <1>8, <1>9 DEF PlanInv, ResultInv
<1>12. PlanAdvances(p)
  BY <1>2, <1>5, <1>8, <1>9 DEF PlanAdvances, OtherPlansKept
<1>13. (\A q \in Plans : PlanInv(q)') /\ CloseAfterDurableIntent'
  BY <1>11, <1>12, PlanAdvancesOthers
<1>14. lifecyclePending' = 0 /\ \A q \in Plans : ~InFlightPlan(q)'
  <2>1. lifecyclePending = 1
    BY <1>1 DEF FenceInv
  <2>2. ~InFlightPlan(p)'
    BY <1>8, <1>9 DEF InFlightPlan
  <2>3. \A q \in Plans \ {p} : ~InFlightPlan(q)
    BY <1>1 DEF FenceInv
  <2>4. \A q \in Plans \ {p} : ~InFlightPlan(q)'
    BY <1>9, <2>3 DEF InFlightPlan
  <2> QED BY <1>2, <2>1, <2>2, <2>4
<1>15. FenceInv'
  BY <1>2, <1>14 DEF FenceInv
<1>16. FenceTypeOK'
  <2>1. controlsPending' \in Nat /\ lifecyclePending' \in Nat
    BY <1>1, <1>2, <1>14 DEF FenceTypeOK
  <2>2. /\ shutdownPreparing' \in BOOLEAN /\ shutdownCommitted' \in BOOLEAN
        /\ lifecycleStarting' \in BOOLEAN /\ lifecycleBound' \in BOOLEAN
        /\ lifecycleUncertain' \in BOOLEAN
    BY <1>1, <1>2, Zenon DEF FenceTypeOK
  <2> QED BY <2>1, <2>2 DEF FenceTypeOK
<1>17. RosterInv'
  <2> SUFFICES ASSUME NEW q \in Plans
               PROVE  /\ InPlay(q)' => pending' = 0 /\ PossibleChildren' \subseteq plans'[q].roster
                      /\ plans'[q].outcome \in {"draining", "unknown"} => disabled'
    BY DEF RosterInv
  <2>1. /\ InPlay(q) => pending = 0 /\ PossibleChildren \subseteq plans[q].roster
        /\ plans[q].outcome \in {"draining", "unknown"} => disabled
    BY DEF ShutdownInv, RosterInv
  <2>2. CASE q = p
    <3>1. InPlay(q) /\ plans'[q].roster = plans[q].roster
      BY <1>1, <1>8, <1>9, <2>2 DEF InPlay
    <3>2. plans'[q].outcome \in {"draining", "unknown"} => off
      BY <1>4, <1>8, <1>9, <2>2 DEF ResultInv
    <3> QED BY <1>3, <1>7, <2>1, <3>1, <3>2
  <2>3. CASE q # p
    <3>1. plans'[q] = plans[q]
      BY <1>9, <2>3
    <3>2. InPlay(q)' <=> InPlay(q)
      BY <3>1 DEF InPlay, InFlightPlan
    <3> QED BY <1>3, <1>7, <2>1, <3>1, <3>2
  <2> QED BY <2>2, <2>3
<1>18. CommittedInv' /\ EpochInv'
  BY <1>2, <1>3, <1>5, <1>7 DEF ShutdownInv, CommittedInv, EpochInv
<1>19. ServeInv' /\ (serve # "serving" => disabled)'
  <2>1. Settled => Settled'
    BY <1>3, <1>7 DEF Settled
  <2> QED BY <1>2, <1>7, <2>1 DEF ShutdownInv, ServeInv
<1> QED BY <1>7, <1>10, <1>13, <1>15, <1>16, <1>17, <1>18, <1>19 DEF ShutdownInv

-----------------------------------------------------------------------------
(* Confirmation.                                                             *)

(* With nothing pending and no reconciliation in flight the roster names     *)
(* every possible child.                                                     *)
LEMMA RosterNamesChildren ==
  ASSUME LaunchInv, OutcomesInv, pending = 0
  PROVE  PossibleChildren \subseteq {row.run : row \in shutdownRosterLocked}
<1> SUFFICES ASSUME NEW t \in Tickets, child[t] \in {"alive", "lost"}
             PROVE  \E row \in shutdownRosterLocked : row.run = t
  BY DEF PossibleChildren
<1>1. /\ ~HoldsPending(t) /\ TicketInv(t) /\ OutcomeInv(t)
      /\ tk[t].pc \in CoordinatorSteps /\ runs[t].pc \in RunSteps
  BY NothingPending, OutcomeKnown DEF TicketRecords, RunRecords
<1>2. child[t] # "lost" /\ child[t] = "alive"
  BY <1>1 DEF HoldsPending, TicketInv, CoordinatorSteps
<1>3. runs[t].pc # "absent"
  BY <1>1, <1>2 DEF HoldsPending, TicketInv, CoordinatorSteps
<1>4. runs[t].state # "exited"
  BY <1>1, <1>2 DEF TicketInv, OutcomeInv
<1> DEFINE row == [run |-> t, snapshot |-> Snapshot(runs[t].state, runs[t].uncertain)]
<1>5. row \in listLocked
  BY <1>3 DEF listLocked
<1>6. row.run = t /\ row.snapshot.state # "exited"
  BY <1>4 DEF Snapshot
<1> HIDE DEF row
<1>7. row \in shutdownRosterLocked
  BY <1>5, <1>6 DEF shutdownRosterLocked
<1> QED BY <1>6, <1>7

(* The rows of the roster are tickets.                                       *)
LEMMA RosterType == {row.run : row \in shutdownRosterLocked} \subseteq Tickets
<1>1. ASSUME NEW row \in listLocked PROVE row.run \in Tickets
  BY DEF listLocked
<1>2. shutdownRosterLocked \subseteq listLocked
  BY DEF shutdownRosterLocked
<1> QED BY <1>1, <1>2

(* A confirmed binding is the current one, with nothing pending.             *)
LEMMA ConfirmedBinding ==
  ASSUME LaunchInv, FenceTypeOK, NEW p \in Plans, BindingCurrent(p)
  PROVE  preview.roster = shutdownRosterLocked /\ pending = 0 /\ controlsPending = 0
<1>1. /\ preview = shutdownBindingLocked(p) /\ preview.pendingLaunches = 0
      /\ preview.pendingControls = 0
  BY DEF BindingCurrent
<1>2. /\ preview.roster = shutdownRosterLocked
      /\ preview.pendingLaunches = pending + Cardinality(Publishing)
      /\ preview.pendingControls = controlsPending
  BY <1>1 DEF shutdownBindingLocked
<1>3. Cardinality(Publishing) \in Nat /\ pending \in Nat
  <2>1. Publishing \subseteq Tickets
    BY DEF Publishing
  <2>2. IsFiniteSet(Publishing)
    BY <2>1, FS_Subset, ConstantsAssumption
  <2> QED BY <2>2, FS_CardinalityType DEF LaunchInv, LaunchTypeOK
<1> QED BY <1>1, <1>2, <1>3

(* A confirmation finds nothing pending, and its roster names every child.   *)
LEMMA ConfirmShutdownStep ==
  ASSUME LaunchInv, OutcomesInv, ShutdownInv, NEW p \in Plans, ConfirmShutdown(p)
  PROVE  ShutdownInv'
<1> DEFINE roster == {row.run : row \in preview.roster}
           x == NewPlan(roster, revision + 1)
<1>1. /\ plans \in [Plans -> PlanRecords] /\ PlanInv(p) /\ plans[p].pc = "none"
      /\ closed \subseteq Tickets /\ life \in LifecycleRecords
      /\ RevisionTypeOK /\ FenceInv /\ FenceTypeOK /\ disabled \in BOOLEAN
  BY PlanKnown DEF ConfirmShutdown, ShutdownInv
<1>2. /\ UNCHANGED <<closed, life, serve>> /\ UNCHANGED launchVars
      /\ UNCHANGED <<controlsPending, shutdownCommitted, lifecycleStarting, lifecycleBound,
                     lifecycleUncertain>>
      /\ shutdownPreparing' = TRUE /\ lifecyclePending' = lifecyclePending + 1
      /\ changedLocked(disabled) /\ plans' = [plans EXCEPT ![p] = x]
      /\ ~shutdownPreparing /\ lifecyclePending = 0 /\ BindingCurrent(p)
  BY <1>1 DEF ConfirmShutdown, LifecycleBusy, FenceInv
<1>3. /\ UNCHANGED <<tickets, runs, child, pending, active>>
      /\ PossibleChildren' = PossibleChildren /\ KnownRequests' = KnownRequests
  BY <1>2 DEF launchVars, PossibleChildren, KnownRequests
<1>4. pending = 0 /\ PossibleChildren \subseteq roster /\ roster \subseteq Tickets
  BY <1>1, <1>2, ConfirmedBinding, RosterNamesChildren, RosterType
<1>5. RevisionTypeOK' /\ (disabled => disabled')
  BY <1>1, <1>2, RevisionMoves, DisabledStays
<1>6. revision + 1 \in Nat
  BY <1>1, ConstantsAssumption DEF RevisionTypeOK
<1> HIDE DEF roster
<1>7. /\ x \in PlanRecords /\ x.pc = "validate" /\ x.roster = roster /\ x.attempted = {}
      /\ x.result = "pending" /\ x.outcome = "pending" /\ ~x.committed
  BY <1>4, <1>6 DEF NewPlan, NoPlan, PlanRecords, PlanSteps, Outcomes
<1> HIDE DEF x
<1>8. plans'[p] = x /\ plans' \in [Plans -> PlanRecords] /\ \A q \in Plans \ {p} : plans'[q] = plans[q]
  BY <1>1, <1>2, <1>7
<1>9. PlanTypeOK'
  BY <1>1, <1>2, <1>8 DEF PlanTypeOK
<1>10. ASSUME NEW q \in Plans PROVE PlanInv(q)'
  <2>1. CASE q = p
    <3>1. life'.shutdowns[q] = "none"
      BY <1>1, <1>2, <2>1 DEF PlanInv
    <3> QED BY <1>7, <1>8, <2>1, <3>1 DEF PlanInv
  <2>2. CASE q # p
    <3>1. PlanInv(q) /\ plans'[q] = plans[q]
      BY <1>8, <2>2, PlanKnown
    <3> QED BY <1>2, <3>1 DEF PlanInv, ResultInv, NoPlan
  <2> QED BY <2>1, <2>2
<1>11. ~plans[p].committed
  BY <1>1 DEF PlanInv, NoPlan
<1>12. CloseAfterDurableIntent'
  <2> SUFFICES ASSUME NEW t \in closed
               PROVE  \E q \in Plans : /\ t \in plans'[q].roster /\ life.shutdowns[q] # "none"
                                       /\ plans'[q].committed
    BY <1>2 DEF CloseAfterDurableIntent
  <2>1. PICK q \in Plans : t \in plans[q].roster /\ life.shutdowns[q] # "none" /\ plans[q].committed
    BY DEF ShutdownInv, CloseAfterDurableIntent
  <2> QED BY <1>8, <1>11, <2>1
<1>13. FenceInv'
  <2>1. \A q \in Plans : ~InFlightPlan(q)
    BY <1>1, <1>2 DEF FenceInv
  <2>2. InFlightPlan(p)' /\ \A q \in Plans \ {p} : ~InFlightPlan(q)'
    BY <1>7, <1>8, <2>1 DEF InFlightPlan
  <2>3. lifecyclePending' = 1
    BY <1>2
  <2> QED BY <1>2, <2>2, <2>3 DEF FenceInv
<1>14. FenceTypeOK'
  BY <1>1, <1>2 DEF FenceTypeOK
<1>15. RosterInv'
  <2> SUFFICES ASSUME NEW q \in Plans
               PROVE  /\ InPlay(q)' => pending' = 0 /\ PossibleChildren' \subseteq plans'[q].roster
                      /\ plans'[q].outcome \in {"draining", "unknown"} => disabled'
    BY DEF RosterInv
  <2>1. CASE q = p
    BY <1>3, <1>4, <1>7, <1>8, <2>1
  <2>2. CASE q # p
    <3>1. plans'[q] = plans[q]
      BY <1>8, <2>2
    <3>2. InPlay(q)' <=> InPlay(q)
      BY <3>1 DEF InPlay, InFlightPlan
    <3> QED BY <1>3, <1>5, <3>1, <3>2 DEF ShutdownInv, RosterInv
  <2> QED BY <2>1, <2>2
<1>16. CommittedInv' /\ EpochInv'
  BY <1>2, <1>3, <1>5 DEF ShutdownInv, CommittedInv, EpochInv
<1>17. ServeInv' /\ (serve # "serving" => disabled)'
  <2>1. Settled => Settled'
    BY <1>3, <1>5 DEF Settled
  <2> QED BY <1>2, <1>5, <2>1 DEF ShutdownInv, ServeInv
<1> QED BY <1>5, <1>9, <1>10, <1>12, <1>13, <1>14, <1>15, <1>16, <1>17 DEF ShutdownInv

-----------------------------------------------------------------------------
(* Epoch start and the end of Serve.                                         *)

(* A step that leaves the launches, the plans and the shutdown fences alone. *)
LEMMA EpochStep ==
  ASSUME ShutdownInv, UNCHANGED launchVars, UNCHANGED <<plans, closed, controlsPending>>,
         UNCHANGED <<shutdownPreparing, shutdownCommitted, lifecyclePending>>,
         FenceTypeOK', RevisionTypeOK', disabled => disabled',
         life' \in LifecycleRecords, life'.shutdowns = life.shutdowns,
         EpochInv', ServeInv', (serve # "serving" => disabled)'
  PROVE  ShutdownInv'
<1>1. /\ UNCHANGED <<tickets, runs, child, pending, active>>
      /\ PossibleChildren' = PossibleChildren
  BY DEF launchVars, PossibleChildren
<1>2. PlanTypeOK'
  BY DEF ShutdownInv, PlanTypeOK
<1>3. ASSUME NEW p \in Plans PROVE PlanInv(p)' /\ InPlay(p)' = InPlay(p)
  <2>1. PlanInv(p)
    BY DEF ShutdownInv
  <2> QED BY <2>1 DEF PlanInv, ResultInv, NoPlan, InPlay, InFlightPlan
<1>4. FenceInv'
  BY DEF ShutdownInv, FenceInv, InFlightPlan
<1>5. CloseAfterDurableIntent'
  BY DEF ShutdownInv, CloseAfterDurableIntent
<1>6. RosterInv'
  BY <1>1, <1>3 DEF ShutdownInv, RosterInv
<1>7. CommittedInv'
  BY <1>1 DEF ShutdownInv, CommittedInv
<1> QED BY <1>2, <1>3, <1>4, <1>5, <1>6, <1>7 DEF ShutdownInv

(* What is settled stays so while launches do not move.                      *)
LEMMA SettledFrame ==
  ASSUME UNCHANGED launchVars, disabled => disabled', Settled
  PROVE  Settled'
BY DEF Settled, launchVars

(* The fence of the epoch start goes up before any request is known.         *)
LEMMA InitializeLifecycleStep ==
  ASSUME ShutdownInv, InitializeLifecycle
  PROVE  ShutdownInv'
<1>1. /\ KnownRequests = {} /\ lifecycleStarting' = TRUE /\ changedLocked(disabled)
      /\ UNCHANGED launchVars /\ UNCHANGED <<controlsPending, plans, closed, life, serve>>
      /\ UNCHANGED <<shutdownPreparing, shutdownCommitted, lifecycleBound, lifecycleUncertain,
                     lifecyclePending>>
  BY DEF InitializeLifecycle, planVars
<1>2. RevisionTypeOK /\ disabled \in BOOLEAN /\ FenceTypeOK /\ life \in LifecycleRecords
  BY DEF ShutdownInv, RevisionTypeOK, PlanTypeOK
<1>3. RevisionTypeOK' /\ (disabled => disabled')
  BY <1>1, <1>2, RevisionMoves, DisabledStays
<1>4. FenceTypeOK'
  BY <1>1, <1>2 DEF FenceTypeOK
<1>5. EpochInv'
  BY <1>1 DEF EpochInv, KnownRequests, launchVars
<1>6. ServeInv' /\ (serve # "serving" => disabled)'
  BY <1>1, <1>3, SettledFrame DEF ShutdownInv, ServeInv
<1> QED BY <1>1, <1>2, <1>3, <1>4, <1>5, <1>6, EpochStep

(* The epoch marker is written, refused or ambiguous.                        *)
LEMMA EpochStartedStep ==
  ASSUME ShutdownInv, NEW r \in {"ok", "error", "ambiguous"}, EpochStarted(r)
  PROVE  ShutdownInv'
<1> DEFINE off == disabled \/ r # "ok"
<1>1. /\ lifecycleStarting' = FALSE /\ lifecycleBound' = (r = "ok")
      /\ lifecycleUncertain' = (lifecycleUncertain \/ r = "ambiguous")
      /\ life' = life \/ life' = [life EXCEPT !.epoch = TRUE, !.clean = FALSE]
      /\ UNCHANGED launchVars /\ UNCHANGED <<controlsPending, plans, closed, serve>>
      /\ UNCHANGED <<shutdownPreparing, shutdownCommitted, lifecyclePending>>
      /\ changedLocked(off)
  BY DEF EpochStarted
<1>2. RevisionTypeOK /\ disabled \in BOOLEAN /\ FenceTypeOK /\ life \in LifecycleRecords
  BY DEF ShutdownInv, RevisionTypeOK, PlanTypeOK
<1>3. RevisionTypeOK' /\ (disabled => disabled')
  <2>1. off \in BOOLEAN /\ (disabled => off)
    OBVIOUS
  <2> HIDE DEF off
  <2> QED BY <1>1, <1>2, <2>1, RevisionMoves, DisabledStays
<1>4. FenceTypeOK'
  <2>1. controlsPending' \in Nat /\ lifecyclePending' \in Nat
    BY <1>1, <1>2 DEF FenceTypeOK
  <2>2. /\ shutdownPreparing' \in BOOLEAN /\ shutdownCommitted' \in BOOLEAN
        /\ lifecycleStarting' \in BOOLEAN /\ lifecycleBound' \in BOOLEAN
        /\ lifecycleUncertain' \in BOOLEAN
    BY <1>1, <1>2, Zenon DEF FenceTypeOK
  <2> QED BY <2>1, <2>2 DEF FenceTypeOK
<1>5. /\ life' \in LifecycleRecords /\ life'.shutdowns = life.shutdowns
      /\ life'.clean => life.clean
  BY <1>1, <1>2 DEF LifecycleRecords
<1>6. EpochInv'
  BY <1>1 DEF EpochInv
<1>7. ServeInv' /\ (serve # "serving" => disabled)'
  BY <1>1, <1>3, <1>5, SettledFrame DEF ShutdownInv, ServeInv
<1> QED BY <1>1, <1>3, <1>4, <1>5, <1>6, <1>7, EpochStep

(* Serve stops and closes admission.                                         *)
LEMMA StopServingStep ==
  ASSUME ShutdownInv, StopServing
  PROVE  ShutdownInv'
<1>1. /\ serve' \in {"confirmed", "interrupted"}
      /\ UNCHANGED launchVars /\ UNCHANGED <<controlsPending, plans, closed, life>>
      /\ UNCHANGED <<shutdownPreparing, shutdownCommitted, lifecycleStarting, lifecycleBound,
                     lifecycleUncertain, lifecyclePending>>
  BY DEF StopServing, fenceVars
<1>2. RevisionTypeOK /\ disabled \in BOOLEAN /\ FenceTypeOK /\ life \in LifecycleRecords
  BY DEF ShutdownInv, RevisionTypeOK, PlanTypeOK
<1>3. RevisionTypeOK' /\ disabled' = TRUE
  <2>1. CASE disabled
    <3>1. UNCHANGED revisionVars
      BY <2>1 DEF StopServing
    <3> QED BY <1>2, <2>1, <3>1, RevisionType DEF revisionVars
  <2>2. CASE ~disabled
    <3>1. changedLocked(TRUE)
      BY <2>2 DEF StopServing
    <3> QED BY <1>2, <3>1, RevisionMoves DEF changedLocked
  <2> QED BY <2>1, <2>2
<1>4. FenceTypeOK'
  BY <1>1, <1>2 DEF FenceTypeOK
<1>5. EpochInv'
  BY <1>1 DEF ShutdownInv, EpochInv, KnownRequests, launchVars
<1>6. ServeInv'
  BY <1>1, <1>3, SettledFrame DEF ShutdownInv, ServeInv
<1> QED BY <1>1, <1>2, <1>3, <1>4, <1>5, <1>6, EpochStep

(* AwaitIdle, the check under the lock, and the record after it.             *)
LEMMA ServeEndStep ==
  ASSUME LaunchInv, ShutdownInv, ServeEnd
  PROVE  ShutdownInv'
<1>1. UNCHANGED stateVars /\ UNCHANGED <<plans, closed>>
  BY DEF ServeEnd, AwaitIdle, CheckClean, RecordCleanShutdown
<1>2. /\ UNCHANGED launchVars
      /\ UNCHANGED <<revision, revisionExhausted, disabled, controlsPending, lifecyclePending>>
      /\ UNCHANGED <<shutdownPreparing, shutdownCommitted, lifecycleStarting, lifecycleBound,
                     lifecycleUncertain>>
  BY <1>1 DEF stateVars, revisionVars, fenceVars
<1>3. RevisionTypeOK' /\ FenceTypeOK' /\ life \in LifecycleRecords
  BY <1>2 DEF ShutdownInv, RevisionTypeOK, FenceTypeOK, PlanTypeOK
<1>4. EpochInv'
  BY <1>2 DEF ShutdownInv, EpochInv, KnownRequests, launchVars
<1>5. serve # "serving"
  BY DEF ServeEnd, AwaitIdle, CheckClean, RecordCleanShutdown
<1>6. disabled /\ disabled'
  BY <1>2, <1>5 DEF ShutdownInv
<1>7. life' \in LifecycleRecords /\ life'.shutdowns = life.shutdowns
  <2>1. life' = life \/ life' = [life EXCEPT !.clean = TRUE]
    BY DEF ServeEnd, AwaitIdle, CheckClean, RecordCleanShutdown
  <2> QED BY <1>3, <2>1 DEF LifecycleRecords
<1>8. ServeInv'
  <2>1. CASE AwaitIdle
    BY <1>2, <2>1, SettledFrame DEF AwaitIdle, ShutdownInv, ServeInv
  <2>2. CASE CheckClean
    <3>1. ASSUME serve' = "record" PROVE Settled
      <4>1. pending + active + controlsPending + lifecyclePending = 0 /\ ~hasUncertainLocked
        BY <2>2, <3>1 DEF CheckClean
      <4>2. pending \in Nat /\ active \in Nat /\ controlsPending \in Nat /\ lifecyclePending \in Nat
        BY DEF LaunchInv, LaunchTypeOK, ShutdownInv, FenceTypeOK
      <4>3. pending = 0 /\ active = 0
        BY <4>1, <4>2
      <4> QED BY <1>6, <4>1, <4>3 DEF Settled, hasUncertainLocked
    <3> QED BY <1>2, <2>2, <3>1, SettledFrame DEF CheckClean, ShutdownInv, ServeInv
  <2>3. CASE RecordCleanShutdown
    BY <1>2, <2>3, SettledFrame DEF RecordCleanShutdown, ShutdownInv, ServeInv
  <2> QED BY <2>1, <2>2, <2>3 DEF ServeEnd
<1> QED BY <1>1, <1>2, <1>3, <1>4, <1>6, <1>7, <1>8, EpochStep

-----------------------------------------------------------------------------
(* No step of a shutdown plan, of the epoch marker or of Serve touches the   *)
(* launch state.                                                             *)
LEMMA LifecycleLeavesLaunches == LifecycleStep => UNCHANGED launchVars
<1>1. ASSUME NEW p \in Plans, Plan(p) PROVE UNCHANGED launchVars
  <2>1. CASE ValidateChildren(p) \/ RecheckRevision(p) \/ ReserveShutdown(p) \/ SaveShutdown(p)
    BY <2>1 DEF ValidateChildren, RecheckRevision, ReserveShutdown, SaveShutdown, stateVars
  <2>2. CASE \E t \in Tickets : CloseTerminal(p, t)
    BY <2>2 DEF CloseTerminal, stateVars
  <2>3. CASE CommitShutdown(p) \/ finishShutdown(p)
    BY <2>3 DEF CommitShutdown, finishShutdown
  <2> QED BY <1>1, <2>1, <2>2, <2>3 DEF Plan
<1>2. ASSUME NEW p \in Plans, PreviewShutdown(p) \/ ConfirmShutdown(p) PROVE UNCHANGED launchVars
  BY <1>2 DEF PreviewShutdown, ConfirmShutdown, stateVars
<1>3. ASSUME InitializeLifecycle \/ \E r \in {"ok", "error", "ambiguous"} : EpochStarted(r)
      PROVE  UNCHANGED launchVars
  BY <1>3 DEF InitializeLifecycle, EpochStarted
<1>4. ASSUME CancelShutdown \/ StopServing \/ ServeEnd PROVE UNCHANGED launchVars
  BY <1>4 DEF CancelShutdown, StopServing, ServeEnd, AwaitIdle, CheckClean, RecordCleanShutdown,
              stateVars
<1> QED BY <1>1, <1>2, <1>3, <1>4 DEF LifecycleStep


(* Every step of the composed lifecycle keeps the launch invariants.         *)
LEMMA LifecycleKeepsLaunches ==
  ASSUME LaunchInv, OutcomesInv, [LifecycleNext]_lifecycleVars
  PROVE  LaunchInv' /\ OutcomeKept
<1>1. LaunchStep \/ UNCHANGED launchVars
  BY LifecycleLeavesLaunches DEF LifecycleNext, LaunchPart, lifecycleVars, stateVars
<1> QED BY <1>1, LaunchInvStep, LaunchInvFrame, OutcomeStep, OutcomeStutter

(* ShutdownInv is inductive, given the launch invariants.                    *)
LEMMA ShutdownInvStep ==
  ASSUME LaunchInv, OutcomesInv, ShutdownInv, [LifecycleNext]_lifecycleVars
  PROVE  ShutdownInv'
<1>1. ASSUME UNCHANGED <<stateVars, plans, closed, life, serve>> PROVE ShutdownInv'
  <2>1. /\ UNCHANGED launchVars /\ UNCHANGED fenceVars /\ UNCHANGED revisionVars
        /\ UNCHANGED controlsPending
    BY <1>1 DEF stateVars
  <2>2. RevisionTypeOK' /\ (disabled => disabled')
    BY <2>1, RevisionType DEF ShutdownInv, revisionVars
  <2>3. controlsPending' \in Nat
    BY <2>1 DEF ShutdownInv, FenceTypeOK
  <2> QED BY <1>1, <2>1, <2>2, <2>3, ShutdownFrame
<1>2. CASE UNCHANGED lifecycleVars
  BY <1>1, <1>2 DEF lifecycleVars, planVars
<1>3. CASE LaunchPart
  BY <1>3, LaunchPartStep
<1>4. ASSUME NEW p \in Plans, Plan(p) PROVE ShutdownInv'
  BY <1>4, ValidateChildrenStep, ReserveShutdownStep, CommitShutdownStep, CloseTerminalStep,
     SaveShutdownStep, finishShutdownStep DEF Plan
<1>5. ASSUME NEW p \in Plans, PreviewShutdown(p) PROVE ShutdownInv'
  BY <1>1, <1>5 DEF PreviewShutdown
<1>6. CASE CancelShutdown
  BY <1>1, <1>6 DEF CancelShutdown
<1>7. CASE LifecycleStep
  BY <1>4, <1>5, <1>6, <1>7, InitializeLifecycleStep, EpochStartedStep, ConfirmShutdownStep,
     StopServingStep, ServeEndStep DEF LifecycleStep
<1> QED BY <1>2, <1>3, <1>7 DEF LifecycleNext

(* ShutdownInv holds of a fresh owner.                                       *)
LEMMA ShutdownInvInit == LifecycleInit => LaunchInv /\ OutcomesInv /\ ShutdownInv
<1> SUFFICES ASSUME LifecycleInit PROVE LaunchInv /\ OutcomesInv /\ ShutdownInv
  OBVIOUS
<1>1. StateInit /\ LaunchInv /\ OutcomesInv
  BY LaunchInvInit, OutcomeInit DEF LifecycleInit
<1>2. \A p \in Plans : plans[p] = NoPlan /\ life.shutdowns[p] = "none"
  BY DEF LifecycleInit
<1>3. PlanTypeOK
  <2>1. NoPlan \in PlanRecords
    BY DEF NoPlan, PlanRecords, PlanSteps, Outcomes
  <2> QED BY <2>1 DEF PlanTypeOK, LifecycleInit, LifecycleRecords
<1>4. RevisionTypeOK /\ FenceTypeOK
  <2>1. revision \in 0..MaxRevision /\ controlsPending \in Nat /\ lifecyclePending \in Nat
    BY <1>1, ConstantsAssumption DEF StateInit
  <2> QED BY <1>1, <2>1 DEF StateInit, RevisionTypeOK, FenceTypeOK
<1>5. ASSUME NEW p \in Plans PROVE PlanInv(p)
  <2>1. plans[p] = NoPlan /\ life.shutdowns[p] = "none"
    BY <1>2
  <2> QED BY <2>1 DEF PlanInv, NoPlan
<1>6. FenceInv
  <2>1. \A p \in Plans : ~InFlightPlan(p)
    BY <1>2 DEF InFlightPlan, NoPlan
  <2> QED BY <1>1, <2>1 DEF FenceInv, StateInit
<1>7. RosterInv
  BY <1>2 DEF RosterInv, InPlay, InFlightPlan, NoPlan
<1>8. CommittedInv /\ EpochInv /\ CloseAfterDurableIntent
  BY <1>1 DEF CommittedInv, EpochInv, CloseAfterDurableIntent, LifecycleInit, StateInit
<1>9. ServeInv /\ (serve # "serving" => disabled)
  BY DEF ServeInv, LifecycleInit
<1> QED BY <1>1, <1>3, <1>4, <1>5, <1>6, <1>7, <1>8, <1>9 DEF ShutdownInv

(* The inductive invariant of launches, epoch start, shutdown and clean exit *)
(* together: what lifecycle.go relies on between two critical sections.      *)
THEOREM ShutdownInvariant == LifecycleSpec => [](LaunchInv /\ OutcomesInv /\ ShutdownInv)
<1> DEFINE Inv == LaunchInv /\ OutcomesInv /\ ShutdownInv
<1>1. LifecycleInit => Inv
  BY ShutdownInvInit
<1>2. Inv /\ [LifecycleNext]_lifecycleVars => Inv'
  BY LifecycleKeepsLaunches, ShutdownInvStep DEF OutcomeKept
<1> QED BY <1>1, <1>2, PTL DEF LifecycleSpec

(* The plans in flight, counted.                                             *)
LEMMA OnePlanByInv == ShutdownInv => OnePlanAtATime
<1> SUFFICES ASSUME ShutdownInv PROVE OnePlanAtATime
  OBVIOUS
<1> DEFINE inFlight == {p \in Plans : plans[p].pc \notin {"none", "done"}}
<1>1. /\ \A p \in Plans : p \in inFlight <=> InFlightPlan(p)
      /\ inFlight \subseteq Plans
  BY DEF InFlightPlan
<1>2. FenceInv
  BY DEF ShutdownInv
<1> HIDE DEF inFlight
<1>3. CASE inFlight = {}
  <2>1. ~shutdownPreparing /\ lifecyclePending = 0
    BY <1>1, <1>2, <1>3 DEF FenceInv
  <2>2. Cardinality(inFlight) = 0
    BY <1>3, FS_EmptySet
  <2> QED BY <1>3, <2>1, <2>2 DEF OnePlanAtATime, inFlight
<1>4. CASE inFlight # {}
  <2>1. PICK p \in Plans : p \in inFlight
    BY <1>1, <1>4
  <2>2. inFlight = {p}
    BY <1>1, <1>2, <2>1 DEF FenceInv
  <2>3. Cardinality(inFlight) = 1
    BY <2>2, FS_Singleton
  <2>4. shutdownPreparing /\ lifecyclePending = 1
    BY <1>1, <1>2, <2>1 DEF FenceInv
  <2> QED BY <1>4, <2>3, <2>4 DEF OnePlanAtATime, inFlight
<1> QED BY <1>3, <1>4

(* The roster of a plan in play names every possible child.                  *)
LEMMA RosterByInv == ShutdownInv => ConfirmedRosterComplete
BY DEF ShutdownInv, RosterInv, ConfirmedRosterComplete, InPlay, InFlightPlan

(* A draining plan closed its roster, which names every possible child.      *)
LEMMA DrainingByInv == ShutdownInv => DrainingClosedEverything
<1> SUFFICES ASSUME ShutdownInv, NEW p \in Plans, plans[p].outcome = "draining"
             PROVE  PossibleChildren \subseteq closed
  BY DEF DrainingClosedEverything
<1>1. PlanInv(p) /\ RosterInv
  BY DEF ShutdownInv
<1>2. PossibleChildren \subseteq plans[p].roster
  BY <1>1 DEF RosterInv, InPlay
<1>3. plans[p].pc = "done"
  BY <1>1 DEF PlanInv
<1>4. plans[p].roster \subseteq closed
  BY <1>1, <1>3 DEF PlanInv, ResultInv
<1> QED BY <1>2, <1>4

(* A rejected plan was rejected before its durable intent.                   *)
LEMMA RejectedByInv == ShutdownInv => RejectedPlanHasNoEffect
<1> SUFFICES ASSUME ShutdownInv, NEW p \in Plans, plans[p].outcome = "rejected"
             PROVE  /\ life.shutdowns[p] = "none" /\ ~plans[p].committed
                    /\ plans[p].attempted = {}
  BY DEF RejectedPlanHasNoEffect
<1>1. PlanInv(p)
  BY DEF ShutdownInv
<1>2. plans[p].pc = "done"
  BY <1>1 DEF PlanInv
<1> QED BY <1>1, <1>2 DEF PlanInv, ResultInv

(* The marker was written when everything was settled.                       *)
LEMMA CleanByInv == LaunchInv /\ OutcomesInv /\ ShutdownInv => CleanMeansReconciled
<1> SUFFICES ASSUME LaunchInv, OutcomesInv, ShutdownInv, life.clean
             PROVE  /\ PossibleChildren = {}
                    /\ \A t \in Tickets : child[t] = "dead" => journal[t] = Snapshot("exited", FALSE)
                    /\ disabled
  BY DEF CleanMeansReconciled
<1>1. Settled /\ IdleMeansReconciled
  BY IdleByInv DEF ShutdownInv, ServeInv
<1>2. \A t \in Tickets : /\ child[t] \in {"none", "dead"}
                         /\ child[t] = "dead" => runs[t].pc = "done" /\ runs[t].exitKnown
  <2>1. pending + active = 0
    BY <1>1 DEF Settled
  <2> QED BY <1>1, <2>1 DEF IdleMeansReconciled
<1>3. ASSUME NEW t \in Tickets, child[t] = "dead" PROVE journal[t] = Snapshot("exited", FALSE)
  <2>1. runs[t].pc = "done" /\ runs[t].exitKnown /\ ~runs[t].uncertain
    BY <1>1, <1>2, <1>3 DEF Settled
  <2>2. OutcomeInv(t)
    BY OutcomeKnown
  <2> QED BY <2>1, <2>2 DEF OutcomeInv
<1> QED BY <1>1, <1>2, <1>3 DEF Settled, PossibleChildren

(* Between two critical sections of lifecycle.go: at most one plan, no       *)
(* terminal closed without durable intent, and no process that a plan in     *)
(* flight does not name.                                                     *)
THEOREM LifecycleHolds == LifecycleSpec => []LifecycleInv
<1>1. ShutdownInv => LifecycleInv
  BY OnePlanByInv, RosterByInv DEF LifecycleInv, ShutdownInv
<1> QED BY <1>1, ShutdownInvariant, PTL

(* From confirmShutdown to the end of the plan no child runs, or may run,    *)
(* that the confirmed roster does not name.                                  *)
THEOREM RosterIsComplete == LifecycleSpec => []ConfirmedRosterComplete
BY RosterByInv, ShutdownInvariant, PTL

(* A draining receipt of performShutdown means that every child that still   *)
(* runs lost its terminal.                                                   *)
THEOREM DrainingIsComplete == LifecycleSpec => []DrainingClosedEverything
BY DrainingByInv, ShutdownInvariant, PTL

(* A plan that performShutdown rejects left nothing behind.                  *)
THEOREM RejectionHasNoEffect == LifecycleSpec => []RejectedPlanHasNoEffect
BY RejectedByInv, ShutdownInvariant, PTL

(* The clean marker PublishCleanShutdown writes, after it released the lock, *)
(* is true: nothing runs or may run, every exit is journalled with certainty *)
(* and no launch can be admitted any more.                                   *)
THEOREM CleanIsReconciled == LifecycleSpec => []CleanMeansReconciled
BY CleanByInv, ShutdownInvariant, PTL

(* The epoch marker is only written by EpochStarted.                         *)
LEMMA EpochMarker ==
  ASSUME ShutdownInv, LifecycleStep, ~(\E r \in {"ok", "error", "ambiguous"} : EpochStarted(r))
  PROVE  life'.epoch = life.epoch
<1>1. life \in LifecycleRecords
  BY DEF ShutdownInv, PlanTypeOK
<1>2. \/ life' = life \/ life' = [life EXCEPT !.clean = TRUE]
      \/ \E p \in Plans, r \in {"none", "pending", "draining", "unknown"} :
           life' = [life EXCEPT !.shutdowns[p] = r]
  <2>1. ASSUME NEW p \in Plans, ReserveShutdown(p)
        PROVE  life' = life \/ life' = [life EXCEPT !.shutdowns[p] = "pending"]
    BY <2>1 DEF ReserveShutdown
  <2>2. ASSUME NEW p \in Plans, SaveShutdown(p)
        PROVE  \/ life' = life \/ life' = [life EXCEPT !.shutdowns[p] = "unknown"]
               \/ life' = [life EXCEPT !.shutdowns[p] = "draining"]
    BY <2>2 DEF SaveShutdown
  <2>3. ASSUME NEW p \in Plans, Plan(p), ~ReserveShutdown(p), ~SaveShutdown(p) PROVE life' = life
    BY <2>3 DEF Plan, ValidateChildren, RecheckRevision, CommitShutdown, CloseTerminal, finishShutdown
  <2>4. ASSUME NEW p \in Plans, PreviewShutdown(p) \/ ConfirmShutdown(p) PROVE life' = life
    BY <2>4 DEF PreviewShutdown, ConfirmShutdown
  <2>5. ASSUME ServeEnd PROVE life' = life \/ life' = [life EXCEPT !.clean = TRUE]
    BY <2>5 DEF ServeEnd, AwaitIdle, CheckClean, RecordCleanShutdown
  <2>6. ASSUME InitializeLifecycle \/ CancelShutdown \/ StopServing PROVE life' = life
    BY <2>6 DEF InitializeLifecycle, CancelShutdown, StopServing, planVars
  <2> QED BY <2>1, <2>2, <2>3, <2>4, <2>5, <2>6 DEF LifecycleStep
<1>3. ASSUME NEW p \in Plans, NEW r, life' = [life EXCEPT !.shutdowns[p] = r]
      PROVE  life'.epoch = life.epoch
  BY <1>1, <1>3 DEF LifecycleRecords
<1> QED BY <1>1, <1>2, <1>3 DEF LifecycleRecords

(* InitializeLifecycle never writes the epoch marker once a launch was       *)
(* admitted, and nothing is spawned after CommitShutdown.                    *)
THEOREM SpawnsStayInsideEpoch == LifecycleSpec => SpawnsInsideEpoch
<1> DEFINE Inv == LaunchInv /\ OutcomesInv /\ ShutdownInv
           A == /\ ~life.epoch /\ life'.epoch => KnownRequests = {}
                /\ \A t \in Tickets :
                     shutdownCommitted /\ child[t] = "none" => child'[t] = "none"
<1>1. Inv /\ [LifecycleNext]_lifecycleVars => [A]_lifecycleVars
  <2> SUFFICES ASSUME LaunchInv, ShutdownInv, LifecycleNext PROVE A
    OBVIOUS
  <2>1. CASE LaunchPart
    <3>1. LaunchStep /\ UNCHANGED life
      BY <2>1 DEF LaunchPart, planVars
    <3>2. ASSUME shutdownCommitted, NEW t \in Tickets, child[t] = "none" PROVE child'[t] = "none"
      <4>1. pending = 0 /\ executionAdmissionClosedLocked
        BY <3>2, FenceUp DEF ShutdownInv, CommittedInv
      <4> QED BY <3>1, <3>2, <4>1, NoSpawnBehindFence
    <3> QED BY <3>1, <3>2
  <2>2. CASE LifecycleStep
    <3>1. UNCHANGED child
      BY <2>2, LifecycleLeavesLaunches DEF launchVars
    <3>2. ASSUME NEW r \in {"ok", "error", "ambiguous"}, EpochStarted(r) PROVE KnownRequests = {}
      BY <3>2 DEF EpochStarted, ShutdownInv, EpochInv
    <3> QED BY <2>2, <3>1, <3>2, EpochMarker
  <2> QED BY <2>1, <2>2 DEF LifecycleNext
<1>2. [][A]_lifecycleVars => SpawnsInsideEpoch
  BY DEF SpawnsInsideEpoch
<1> QED BY <1>1, <1>2, ShutdownInvariant, PTL DEF LifecycleSpec
=============================================================================
