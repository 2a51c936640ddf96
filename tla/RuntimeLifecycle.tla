---------------------------- MODULE RuntimeLifecycle ----------------------------
(*****************************************************************************)
(* Epoch start, shutdown preview / confirmation / execution and clean exit   *)
(* (application/runtime/lifecycle.go), with the parts of lifecycle.json they *)
(* write (infrastructure/runtime/lifecycle_store_unix.go) and the end of     *)
(* LocalDaemon.Serve (infrastructure/runtime/daemon_unix.go), composed with  *)
(* launch coordination.                                                      *)
(*                                                                           *)
(* Only the manual purpose of confirmShutdown is here; the update handoff    *)
(* uses the same coordinator.                                                *)
(*****************************************************************************)
EXTENDS RuntimeLaunch

CONSTANT Plans        \* preview identifiers (random nonces)

ASSUME PlansAssumption == IsFiniteSet(Plans) /\ None \notin Plans

VARIABLES
  preview,            \* s.shutdownPreview: the last binding shown, or None
  plans,              \* s.shutdownTickets, with the coordinator's pc
  closed,             \* runs whose terminal master was closed
  life,               \* lifecycle.json
  serve               \* pc of LocalDaemon.Serve

planVars == <<preview, plans, closed, life, serve>>
lifecycleVars == <<stateVars, planVars>>

-----------------------------------------------------------------------------
(* `result` is the coordinator's local result until finishShutdown copies it *)
(* to `outcome`, the one receipts and hasUncertainLocked read.               *)
Outcomes == {"none", "pending", "draining", "unknown", "rejected"}
PlanSteps == {"none", "validate", "recheck", "reserve", "commit", "close", "finish", "done"}
PlanRecords ==
  [pc : PlanSteps, roster : SUBSET Tickets, reservation : Nat, attempted : SUBSET Tickets,
   result : Outcomes, outcome : Outcomes, committed : BOOLEAN]
NoPlan ==
  [pc |-> "none", roster |-> {}, reservation |-> 0, attempted |-> {},
   result |-> "none", outcome |-> "none", committed |-> FALSE]
NewPlan(roster, reservation) ==
  [NoPlan EXCEPT !.pc = "validate", !.roster = roster, !.reservation = reservation,
                 !.result = "pending", !.outcome = "pending"]

LifecycleRecords ==
  [epoch : BOOLEAN, clean : BOOLEAN, shutdowns : [Plans -> {"none", "pending", "draining", "unknown"}]]

LifecycleInit ==
  /\ StateInit
  /\ preview = None
  /\ plans = [p \in Plans |-> NoPlan]
  /\ closed = {}
  /\ life = [epoch |-> FALSE, clean |-> FALSE, shutdowns |-> [p \in Plans |-> "none"]]
  /\ serve = "serving"

-----------------------------------------------------------------------------
(* The roster and the binding a human confirms. The digest in the code       *)
(* stands for the rows themselves.                                           *)
TicketSnapshot(t) ==
  IF tk[t].starting /\ ~tk[t].complete THEN tk[t].descriptor ELSE tk[t].result

Retained(t) == tk[t].pc # "unused" /\ ~tk[t].aborted

(* listLocked: owned runs, and tickets whose start is in flight or uncertain *)
(* without a run.                                                            *)
listLocked ==
  {[run |-> t, snapshot |-> Snapshot(runs[t].state, runs[t].uncertain)] :
     t \in {u \in Tickets : runs[u].pc # "absent"}}
  \cup
  {[run |-> t, snapshot |-> TicketSnapshot(t)] :
     t \in {u \in Tickets : /\ Retained(u) /\ runs[u].pc = "absent"
                            /\ TicketSnapshot(u).state # "none"
                            /\ TicketSnapshot(u).uncertain \/ (tk[u].starting /\ ~tk[u].complete)}}

shutdownRosterLocked ==
  {row \in listLocked : row.snapshot.state # "exited" \/ row.snapshot.uncertain}

Publishing == {t \in Tickets : tk[t].starting /\ ~tk[t].complete /\ runs[t].pc # "absent"}
Reconciling == {t \in Tickets : runs[t].state = "exited" /\ runs[t].pc # "done"}

shutdownBindingLocked(p) ==
  [id |-> p, revision |-> revision, roster |-> shutdownRosterLocked,
   pendingLaunches |-> pending + Cardinality(Publishing),
   pendingControls |-> controlsPending,
   pendingReconciliations |-> Cardinality(Reconciling)]

(* Mutant: only lifecycle uncertainty is looked at, not that of launches.    *)
LifecycleUncertainOnly == lifecycleUncertain \/ \E p \in Plans : plans[p].outcome = "unknown"

hasUncertainLocked ==
  \/ lifecycleUncertain
  \/ \E p \in Plans : plans[p].outcome = "unknown"
  \/ \E t \in Tickets : runs[t].pc # "absent" /\ runs[t].uncertain
  \/ \E t \in Tickets : Retained(t) /\ tk[t].result.uncertain

-----------------------------------------------------------------------------
(* InitializeLifecycle: fence, write the epoch marker outside the lock,      *)
(* then bind or permanently refuse.                                          *)
InitializeLifecycle ==
  /\ ~lifecycleStarting /\ ~lifecycleBound /\ ~disabled
  /\ KnownRequests = {}
  /\ ~shutdownPreparing /\ ~shutdownCommitted
  /\ lifecycleStarting' = TRUE
  /\ changedLocked(disabled)
  /\ UNCHANGED <<launchVars, controlsPending, planVars, shutdownPreparing, shutdownCommitted,
                 lifecycleBound, lifecycleUncertain, lifecyclePending>>

(* The result of RecordEpochStart: written; an error (also of the saved      *)
(* update state, read after the write); or an ambiguous commit.              *)
EpochStarted(result) ==
  LET written == [life EXCEPT !.epoch = TRUE, !.clean = FALSE] IN
  /\ lifecycleStarting
  /\ lifecycleStarting' = FALSE
  /\ life' \in IF result = "ok" THEN {written} ELSE {life, written}
  /\ lifecycleBound' = (result = "ok")
  /\ lifecycleUncertain' = (lifecycleUncertain \/ result = "ambiguous")
  /\ changedLocked(disabled \/ result # "ok")
  /\ UNCHANGED <<launchVars, controlsPending, preview, plans, closed, serve,
                 shutdownPreparing, shutdownCommitted, lifecyclePending>>

-----------------------------------------------------------------------------
(* The state in which neither a preview nor a confirmation is admitted.      *)
LifecycleBusy ==
  shutdownPreparing \/ shutdownCommitted \/ lifecycleStarting \/ lifecyclePending > 0

PreviewShutdown(p) ==
  /\ ~LifecycleBusy /\ ~lifecycleUncertain
  /\ ~revisionExhausted /\ revision # MaxRevision
  /\ plans[p].pc = "none"
  /\ preview' = shutdownBindingLocked(p)
  /\ UNCHANGED <<stateVars, plans, closed, life, serve>>

CancelShutdown ==
  /\ preview # None
  /\ ~(shutdownPreparing \/ shutdownCommitted \/ lifecycleUncertain)
  /\ preview' = None
  /\ UNCHANGED <<stateVars, plans, closed, life, serve>>

(* Mutant: launches in flight do not prevent a confirmation.                 *)
BindingIgnoresPending(p) == preview # None /\ preview = shutdownBindingLocked(p)

(* ShutdownBinding.Confirm: the plan on screen is still exactly the current  *)
(* one and nothing is in flight.                                             *)
BindingCurrent(p) ==
  /\ preview # None
  /\ preview = shutdownBindingLocked(p)
  /\ preview.pendingLaunches = 0
  /\ preview.pendingControls = 0
  /\ preview.pendingReconciliations = 0

ConfirmShutdown(p) ==
  LET roster == {row.run : row \in preview.roster} IN
  /\ plans[p].pc = "none"
  /\ BindingCurrent(p)
  /\ ~revisionExhausted /\ revision # MaxRevision
  /\ ~LifecycleBusy /\ ~hasUncertainLocked
  /\ \A t \in roster : runs[t].pc # "absent"
  /\ Cardinality({q \in Plans : plans[q].pc # "none"}) < MaxLaunchRequests
  /\ plans' = [plans EXCEPT ![p] = NewPlan(roster, revision + 1)]
  /\ shutdownPreparing' = TRUE
  /\ lifecyclePending' = lifecyclePending + 1
  /\ changedLocked(disabled)
  /\ UNCHANGED <<launchVars, controlsPending, preview, closed, life, serve, shutdownCommitted,
                 lifecycleStarting, lifecycleBound, lifecycleUncertain>>

-----------------------------------------------------------------------------
(* performShutdown: the coordinator of one confirmed plan.                   *)

FinishWith(p, r) == plans' = [plans EXCEPT ![p] = [@ EXCEPT !.pc = "finish", !.result = r]]

(* Revalidate, LookupProfile and ValidateTerminalClose for every child.      *)
ValidateChildren(p) ==
  /\ plans[p].pc = "validate"
  /\ \/ plans' = [plans EXCEPT ![p].pc = "recheck"]
     \/ plans[p].roster # {} /\ FinishWith(p, "rejected")
  /\ UNCHANGED <<stateVars, preview, closed, life, serve>>

RecheckRevision(p) ==
  /\ plans[p].pc = "recheck"
  /\ IF revision # plans[p].reservation \/ hasUncertainLocked
     THEN FinishWith(p, "rejected")
     ELSE plans' = [plans EXCEPT ![p].pc = "reserve"]
  /\ UNCHANGED <<stateVars, preview, closed, life, serve>>

(* Mutant: an ambiguous reservation is taken for a refusal.                  *)
AmbiguousIsRefused(p) ==
  /\ plans[p].pc = "reserve"
  /\ life' \in {life, [life EXCEPT !.shutdowns[p] = "pending"]}
  /\ FinishWith(p, "rejected")
  /\ UNCHANGED <<stateVars, preview, closed, serve>>

(* ReserveShutdown, in the store and as its caller classifies it.            *)
ReserveShutdown(p) ==
  LET reserved == [life EXCEPT !.shutdowns[p] = "pending"]
      accepted == life.epoch /\ ~life.clean /\ life.shutdowns[p] = "none" IN
  /\ plans[p].pc = "reserve"
  /\ \/ /\ accepted
        /\ life' = reserved
        /\ plans' = [plans EXCEPT ![p].pc = "commit"]
     \/ UNCHANGED life /\ FinishWith(p, "rejected")
     \/ UNCHANGED life /\ FinishWith(p, "unknown")
     \/ accepted /\ life' = reserved /\ FinishWith(p, "unknown")
  /\ UNCHANGED <<stateVars, preview, closed, serve>>

CommitShutdown(p) ==
  /\ plans[p].pc = "commit"
  /\ plans' = [plans EXCEPT ![p] = [@ EXCEPT !.pc = "close", !.committed = TRUE]]
  /\ shutdownCommitted' = TRUE
  /\ changedLocked(TRUE)
  /\ UNCHANGED <<launchVars, controlsPending, preview, closed, life, serve, shutdownPreparing,
                 lifecycleStarting, lifecycleBound, lifecycleUncertain, lifecyclePending>>

(* Mutant: the error of a close is dropped.                                  *)
CloseErrorIgnored(p, t) ==
  /\ plans[p].pc = "close"
  /\ t \in plans[p].roster \ plans[p].attempted
  /\ closed' \in {closed, closed \cup {t}}
  /\ plans' = [plans EXCEPT ![p].attempted = @ \cup {t}]
  /\ UNCHANGED <<stateVars, preview, life, serve>>

(* One goroutine per child; a failed close may or may not have closed.       *)
CloseTerminal(p, t) ==
  /\ plans[p].pc = "close"
  /\ t \in plans[p].roster \ plans[p].attempted
  /\ \/ /\ closed' = closed \cup {t}
        /\ plans' = [plans EXCEPT ![p].attempted = @ \cup {t}]
     \/ /\ closed' \in {closed, closed \cup {t}}
        /\ plans' = [plans EXCEPT ![p] = [@ EXCEPT !.attempted = plans[p].attempted \cup {t},
                                                 !.result = "unknown"]]
  /\ UNCHANGED <<stateVars, preview, life, serve>>

(* Mutant: a failed close ends the coordinator without an outcome.           *)
SaveOnlyDraining(p) ==
  /\ plans[p].pc = "close" /\ plans[p].attempted = plans[p].roster
  /\ plans[p].result # "unknown"
  /\ life' = [life EXCEPT !.shutdowns[p] = "draining"] /\ FinishWith(p, "draining")
  /\ UNCHANGED <<stateVars, preview, closed, serve>>

(* joined.Wait, then SaveShutdown (completeShutdownRecord in the store).     *)
SaveShutdown(p) ==
  LET r == IF plans[p].result = "unknown" THEN "unknown" ELSE "draining"
      saved == [life EXCEPT !.shutdowns[p] = r]
      accepted == life.epoch /\ ~life.clean /\ life.shutdowns[p] = "pending" IN
  /\ plans[p].pc = "close"
  /\ plans[p].attempted = plans[p].roster
  /\ \/ accepted /\ life' = saved /\ FinishWith(p, r)
     \/ UNCHANGED life /\ FinishWith(p, "unknown")
     \/ accepted /\ life' = saved /\ FinishWith(p, "unknown")
  /\ UNCHANGED <<stateVars, preview, closed, serve>>

(* Mutant: the finished plan stays pending.                                  *)
FinishStaysPending(p) ==
  /\ plans[p].pc = "finish"
  /\ plans' = [plans EXCEPT ![p] = [@ EXCEPT !.pc = "done", !.outcome = plans[p].result]]
  /\ shutdownPreparing' = FALSE
  /\ changedLocked(TRUE)
  /\ UNCHANGED <<launchVars, controlsPending, preview, closed, life, serve, shutdownCommitted,
                 lifecycleStarting, lifecycleBound, lifecycleUncertain, lifecyclePending>>

finishShutdown(p) ==
  LET r == plans[p].result IN
  /\ plans[p].pc = "finish"
  /\ plans' = [plans EXCEPT ![p] = [@ EXCEPT !.pc = "done", !.outcome = r]]
  /\ shutdownPreparing' = FALSE
  /\ lifecycleUncertain' = (lifecycleUncertain \/ r = "unknown")
  /\ shutdownCommitted' = (shutdownCommitted \/ plans[p].committed)
  /\ lifecyclePending' = lifecyclePending - 1
  /\ changedLocked(disabled \/ r = "unknown" \/ plans[p].committed)
  /\ UNCHANGED <<launchVars, controlsPending, preview, closed, life, serve,
                 lifecycleStarting, lifecycleBound>>

-----------------------------------------------------------------------------
(* The end of Serve. The management endpoint stays open throughout.          *)

(* A signal, a transport failure, or AwaitShutdownConfirmation.              *)
StopServing ==
  /\ serve = "serving"
  /\ serve' = IF shutdownCommitted THEN "confirmed" ELSE "interrupted"
  /\ IF disabled THEN UNCHANGED revisionVars ELSE changedLocked(TRUE)
  /\ UNCHANGED <<launchVars, fenceVars, controlsPending, preview, plans, closed, life>>

AwaitIdle ==
  /\ serve \in {"confirmed", "interrupted"}
  /\ pending + active + controlsPending + lifecyclePending = 0
  /\ serve' = "idle"
  /\ UNCHANGED <<stateVars, preview, plans, closed, life>>

(* PublishCleanShutdown: the check under the lock.                           *)
CheckClean ==
  /\ serve = "idle"
  /\ serve' = IF /\ lifecycleBound /\ disabled
                 /\ pending + active + controlsPending + lifecyclePending = 0
                 /\ ~hasUncertainLocked
              THEN "record" ELSE "exited"
  /\ UNCHANGED <<stateVars, preview, plans, closed, life>>

(* RecordCleanShutdown, after the lock was released.                         *)
RecordCleanShutdown ==
  /\ serve = "record"
  /\ \/ life.epoch /\ life' = [life EXCEPT !.clean = TRUE]
     \/ UNCHANGED life
  /\ serve' = "exited"
  /\ UNCHANGED <<stateVars, preview, plans, closed>>

-----------------------------------------------------------------------------
Plan(p) ==
  \/ ValidateChildren(p)
  \/ RecheckRevision(p)
  \/ ReserveShutdown(p)
  \/ CommitShutdown(p)
  \/ \E t \in Tickets : CloseTerminal(p, t)
  \/ SaveShutdown(p)
  \/ finishShutdown(p)

ServeEnd == AwaitIdle \/ CheckClean \/ RecordCleanShutdown

LifecycleStep ==
  \/ InitializeLifecycle
  \/ \E r \in {"ok", "error", "ambiguous"} : EpochStarted(r)
  \/ \E p \in Plans : PreviewShutdown(p) \/ ConfirmShutdown(p) \/ Plan(p)
  \/ CancelShutdown
  \/ StopServing
  \/ ServeEnd

LaunchPart == LaunchStep /\ UNCHANGED <<fenceVars, controlsPending, planVars>>

LifecycleNext == LaunchPart \/ LifecycleStep

LifecycleSpec == LifecycleInit /\ [][LifecycleNext]_lifecycleVars

(* Goroutines of the owner run on; their external calls have deadlines. A    *)
(* child need never exit. Serve only has to notice a committed shutdown.     *)
LifecycleFairness ==
  /\ \A t \in Tickets :
       /\ WF_lifecycleVars(Coordinator(t) /\ UNCHANGED <<fenceVars, controlsPending, planVars>>)
       /\ WF_lifecycleVars(/\ child[t] = "dead" \/ runs[t].pc # "wait"
                           /\ Reconcile(t)
                           /\ UNCHANGED <<fenceVars, controlsPending, planVars>>)
  /\ \A c \in Callers :
       WF_lifecycleVars(LaunchAnswered(c) /\ UNCHANGED <<fenceVars, controlsPending, planVars>>)
  /\ \A p \in Plans : WF_lifecycleVars(Plan(p))
  /\ WF_lifecycleVars(shutdownCommitted /\ StopServing)
  /\ WF_lifecycleVars(ServeEnd)

-----------------------------------------------------------------------------
(* Properties.                                                               *)

(* The plan a human confirmed names every process that may still run, from   *)
(* its admission to its end, unless it was rejected.                         *)
ConfirmedRosterComplete ==
  \A p \in Plans :
    plans[p].pc \notin {"none", "done"} \/ plans[p].outcome \in {"draining", "unknown"} =>
      PossibleChildren \subseteq plans[p].roster

(* Terminals are closed only under a plan whose intent is durable, and only  *)
(* for runs that plan named.                                                 *)
CloseAfterDurableIntent ==
  \A t \in closed : \E p \in Plans :
    t \in plans[p].roster /\ life.shutdowns[p] # "none" /\ plans[p].committed

(* A draining receipt means every child that still runs lost its terminal.   *)
DrainingClosedEverything ==
  \A p \in Plans : plans[p].outcome = "draining" => PossibleChildren \subseteq closed

(* A rejected plan left nothing behind: no durable intent, nothing closed.   *)
RejectedPlanHasNoEffect ==
  \A p \in Plans :
    plans[p].outcome = "rejected" =>
      life.shutdowns[p] = "none" /\ ~plans[p].committed /\ plans[p].attempted = {}

(* The durable clean marker is only written for an epoch that really ended:  *)
(* nothing runs or may run, every exit is journalled with certainty, and no  *)
(* new launch can be admitted.                                               *)
CleanMeansReconciled ==
  life.clean =>
    /\ PossibleChildren = {}
    /\ \A t \in Tickets : child[t] = "dead" => journal[t] = Snapshot("exited", FALSE)
    /\ disabled

(* lifecyclePending counts the plans in flight; there is at most one, and    *)
(* the preparing fence is up exactly while it runs.                          *)
OnePlanAtATime ==
  LET inFlight == {p \in Plans : plans[p].pc \notin {"none", "done"}} IN
  /\ lifecyclePending = Cardinality(inFlight)
  /\ Cardinality(inFlight) <= 1
  /\ shutdownPreparing <=> inFlight # {}

(* What the plans leave between two critical sections of lifecycle.go: one   *)
(* plan at a time, no terminal closed without durable intent, and no process *)
(* that a plan in flight does not name.                                      *)
LifecycleInv ==
  /\ OnePlanAtATime
  /\ CloseAfterDurableIntent
  /\ ConfirmedRosterComplete

(* Children are only spawned inside the epoch: its marker is never written   *)
(* after a launch was admitted, and once a shutdown is committed nothing     *)
(* more is spawned (the preparing fence, the quiescence check and the commit *)
(* leave no gap for a launch).                                               *)
SpawnsInsideEpoch ==
  [][/\ ~life.epoch /\ life'.epoch => KnownRequests = {}
     /\ \A t \in Tickets :
          shutdownCommitted /\ child[t] = "none" => child'[t] = "none"]_lifecycleVars

(* A confirmed plan always gets a receipt other than pending.                *)
PlansEnd ==
  \A p \in Plans : plans[p].pc = "validate" ~> plans[p].pc = "done"

(* After a committed shutdown, once no process is left Serve returns, unless *)
(* the exit of a child could not be observed (its reservation is kept on     *)
(* purpose). Nothing else may keep AwaitIdle waiting.                        *)
ServeReturns ==
  (shutdownCommitted /\ PossibleChildren = {}) ~>
    (serve = "exited" \/ \E t \in Tickets : runs[t].pc = "done" /\ ~runs[t].exitKnown)

(* "Even an empty roster cannot publish a clean marker after an uncertain    *)
(* lifecycle commit" (docs/runtime/daemon-lifecycle.md:42).                  *)
NoCleanAfterUncertainCommit ==
  [][lifecycleUncertain /\ ~life.clean => ~life'.clean]_lifecycleVars
=============================================================================
