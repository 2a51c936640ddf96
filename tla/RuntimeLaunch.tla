------------------------------ MODULE RuntimeLaunch ------------------------------
(*****************************************************************************)
(* Launch admission, the launch coordinator and the reconcile goroutine of   *)
(* the runtime owner (application/runtime/launch.go).                        *)
(*                                                                           *)
(* Callers of Launch share one ticket per request id. A ticket's coordinator *)
(* validates the target, commits to starting, writes durable intent, spawns  *)
(* the child, attaches it and publishes it; any error sends it to fail. A    *)
(* child that was attached is waited for by one reconcile goroutine.         *)
(*****************************************************************************)
EXTENDS RuntimeState

-----------------------------------------------------------------------------
(* Launch: the admission section and the two ways out of its select.         *)

(* A new call, or the `continue` after an aborted ticket.                    *)
Requesting(c, id, sel) ==
  \/ callers[c].pc = "idle"
  \/ callers[c].pc = "retry" /\ callers[c].id = id /\ callers[c].sel = sel

(* A ticket object nobody can reach any more: never used, or aborted (hence  *)
(* deleted from s.tickets) and left by its coordinator and its last waiter.  *)
Unreachable(t) ==
  \/ tk[t].pc = "unused"
  \/ tk[t].pc = "done" /\ tk[t].aborted /\ tk[t].waiters = 0

KnownRequests == {i \in RequestIDs : tickets[i] # None}

AdmissionOpen ==
  /\ ~revisionExhausted /\ revision # MaxRevision
  /\ ~executionAdmissionClosedLocked
  /\ pending + active < MaxActiveRuns
  /\ Cardinality(KnownRequests) < MaxLaunchRequests

WaitOn(c, id, sel, t) ==
  callers' = [callers EXCEPT ![c] = [pc |-> "wait", id |-> id, sel |-> sel, ticket |-> t]]

Leave(c) == callers' = [callers EXCEPT ![c] = IdleCaller]

AdmitLaunch(c, id, sel, t) ==
  /\ Requesting(c, id, sel)
  /\ tickets[id] = None
  /\ AdmissionOpen
  /\ Unreachable(t)
  /\ tickets' = [tickets EXCEPT ![id] = t]
  /\ tk' = [tk EXCEPT ![t] = NewTicket(id, sel)]
  /\ WaitOn(c, id, sel, t)
  /\ pending' = pending + 1
  /\ changedLocked(disabled)
  /\ UNCHANGED <<runs, child, journal, recovery, active>>

JoinLaunch(c, id, sel) ==
  LET t == tickets[id] IN
  /\ Requesting(c, id, sel)
  /\ t # None
  /\ tk[t].sel = sel
  /\ tk' = [tk EXCEPT ![t].waiters = @ + 1]
  /\ WaitOn(c, id, sel, t)
  /\ UNCHANGED <<tickets, runs, child, journal, recovery, pending, active, revisionVars>>

(* ErrChanged, ErrLimit or ErrRuntimeBusy, and a retry whose own context is  *)
(* done: the call returns and nothing changed.                               *)
RefuseLaunch(c, id, sel) ==
  /\ Requesting(c, id, sel)
  /\ \/ tickets[id] # None /\ tk[tickets[id]].sel # sel
     \/ tickets[id] = None /\ ~AdmissionOpen
     \/ callers[c].pc = "retry"
  /\ Leave(c)
  /\ UNCHANGED <<tickets, tk, runs, child, journal, recovery, pending, active, revisionVars>>

(* Mutant: the answered ticket is evicted.                                   *)
AnsweredEvicts(c) ==
  LET t == callers[c].ticket IN
  /\ callers[c].pc = "wait" /\ tk[t].complete
  /\ tickets' = [tickets EXCEPT ![tk[t].id] = None]
  /\ tk' = [tk EXCEPT ![t].waiters = @ - 1]
  /\ Leave(c)
  /\ UNCHANGED <<runs, child, journal, recovery, pending, active, revisionVars>>

(* case <-ticket.done                                                        *)
LaunchAnswered(c) ==
  LET t == callers[c].ticket IN
  /\ callers[c].pc = "wait"
  /\ tk[t].complete
  /\ tk' = [tk EXCEPT ![t].waiters = @ - 1]
  /\ IF tk[t].aborted
     THEN callers' = [callers EXCEPT ![c] = [@ EXCEPT !.pc = "retry", !.ticket = None]]
     ELSE Leave(c)
  /\ UNCHANGED <<tickets, runs, child, journal, recovery, pending, active, revisionVars>>

(* Mutants: the last waiter abandons even a committed start, or never.       *)
AbandonsStarted(t) == ~(tk[t].complete /\ ~tk[t].aborted) /\ tk[t].waiters = 1
NeverAbandons(t) == FALSE

(* The waiter that leaves is the last one and Start is not admitted yet.     *)
Abandons(t) ==
  /\ ~(tk[t].complete /\ ~tk[t].aborted)
  /\ ~tk[t].starting
  /\ tk[t].waiters = 1

(* case <-ctx.Done(): the waiter that abandons cancels the coordinator.      *)
LaunchCanceled(c) ==
  LET t == callers[c].ticket
      abandon == Abandons(t) IN
  /\ callers[c].pc = "wait"
  /\ tk' = [tk EXCEPT ![t] = [@ EXCEPT !.waiters = tk[t].waiters - 1,
                                       !.abandoned = tk[t].abandoned \/ abandon,
                                       !.canceled = tk[t].canceled \/ abandon]]
  /\ Leave(c)
  /\ UNCHANGED <<tickets, runs, child, journal, recovery, pending, active, revisionVars>>

-----------------------------------------------------------------------------
(* launch: the coordinator goroutine of one ticket.                          *)

Goto(t, pc) == tk' = [tk EXCEPT ![t].pc = pc]
FailWith(t, e) == tk' = [tk EXCEPT ![t] = [@ EXCEPT !.pc = "failing", !.err = e]]

(* The coordinator's five second budget runs out. Later expiry only shows as *)
(* an error of the call it interrupts.                                       *)
CoordinatorTimeout(t) ==
  /\ tk[t].pc \in {"validate", "validated"}
  /\ ~tk[t].canceled
  /\ tk' = [tk EXCEPT ![t].canceled = TRUE]
  /\ UNCHANGED <<tickets, callers, runs, child, journal, recovery, pending, active, revisionVars>>

(* Resolve, LookupProfile, the identity checks and Revalidate.               *)
ValidateTarget(t) ==
  /\ tk[t].pc = "validate"
  /\ Goto(t, "validated") \/ FailWith(t, "error")
  /\ UNCHANGED <<tickets, callers, runs, child, journal, recovery, pending, active, revisionVars>>

(* The non-abandonable commit boundary.                                      *)
CommitStart(t) ==
  /\ tk[t].pc = "validated"
  /\ IF tk[t].canceled
     THEN FailWith(t, "error") /\ UNCHANGED revisionVars
     ELSE /\ tk' = [tk EXCEPT ![t] = [@ EXCEPT !.pc = "reserve", !.starting = TRUE,
                                               !.descriptor = Snapshot("reserved", FALSE)]]
          /\ changedLocked(disabled)
  /\ UNCHANGED <<tickets, callers, runs, child, journal, recovery, pending, active>>

(* Durable intent. An error, whatever was written, prevents the start.       *)
ReserveLaunch(t) ==
  /\ tk[t].pc = "reserve"
  /\ \/ /\ journal' = [journal EXCEPT ![t] = tk[t].descriptor]
        /\ Goto(t, "start") \/ FailWith(t, "error")
     \/ UNCHANGED journal /\ FailWith(t, "error")
  /\ UNCHANGED <<tickets, callers, runs, child, recovery, pending, active, revisionVars>>

(* launcher.Start and descriptor.Started: an owned child, with a usable PID  *)
(* or not; a definite error; or an outcome nobody can tell (no handle).      *)
Start(t) ==
  /\ tk[t].pc = "start"
  /\ \/ /\ child' = [child EXCEPT ![t] = "alive"]
        /\ \E e \in {"none", "unknown"} :
             tk' = [tk EXCEPT ![t] = [@ EXCEPT !.pc = "attach", !.err = e]]
     \/ UNCHANGED child /\ FailWith(t, "error")
     \/ /\ child' \in {child, [child EXCEPT ![t] = "lost"]}
        /\ FailWith(t, "unknown")
  /\ UNCHANGED <<tickets, callers, runs, journal, recovery, pending, active, revisionVars>>

(* The child becomes an owned run. Started marked the descriptor live, or    *)
(* uncertain when the child had no usable PID.                               *)
AttachChild(t) ==
  LET started == IF tk[t].err = "none" THEN Snapshot("live", FALSE)
                 ELSE Snapshot("reserved", TRUE) IN
  /\ tk[t].pc = "attach"
  /\ pending' = pending - 1
  /\ active' = active + 1
  /\ runs' = [runs EXCEPT ![t] = [AbsentRun EXCEPT !.pc = "owned",
                                    !.state = started.state,
                                    !.uncertain = started.uncertain]]
  /\ tk' = [tk EXCEPT ![t] = [@ EXCEPT !.pc = "publish", !.descriptor = started]]
  /\ changedLocked(disabled)
  /\ UNCHANGED <<tickets, callers, child, journal, recovery>>

(* Mutant: a failed publication is not noticed.                              *)
SaveStartedUnchecked(t) ==
  /\ tk[t].pc = "publish"
  /\ \E ok \in BOOLEAN : SaveLaunch(t, tk[t].descriptor, ok)
  /\ Goto(t, "complete")
  /\ UNCHANGED <<tickets, callers, runs, child, recovery, pending, active, revisionVars>>

(* SaveLaunch of the started descriptor, outside the lock.                   *)
SaveStarted(t) ==
  /\ tk[t].pc = "publish"
  /\ \E ok \in BOOLEAN :
       /\ SaveLaunch(t, tk[t].descriptor, ok)
       /\ tk' = [tk EXCEPT ![t] = [@ EXCEPT !.pc = "complete",
                                            !.err = IF ok THEN tk[t].err ELSE "unknown"]]
  /\ UNCHANGED <<tickets, callers, runs, child, recovery, pending, active, revisionVars>>

CompleteLaunch(t) ==
  LET uncertain == tk[t].err = "unknown" IN
  /\ tk[t].pc = "complete"
  /\ runs' = [runs EXCEPT ![t] = [@ EXCEPT !.pc = "wait", !.uncertain = runs[t].uncertain \/ uncertain,
                                           !.published = ~uncertain]]
  /\ tk' = [tk EXCEPT ![t] = [@ EXCEPT !.pc = "done", !.complete = TRUE,
                !.result = Snapshot(runs[t].state, runs[t].uncertain \/ uncertain)]]
  /\ changedLocked(disabled)
  /\ UNCHANGED <<tickets, callers, child, journal, recovery, pending, active>>

(* Mutant: a launcher that lost its child counts as a definite failure.      *)
NeverUncertain(t) == FALSE

(* The failed attempt may have left a child behind.                          *)
StartUncertain(t) == tk[t].starting /\ tk[t].err = "unknown"

(* fail: an uncertain start keeps its reservation; an abandoned ticket that  *)
(* never started disappears so that a later waiter may ask again.            *)
Fail(t) ==
  LET uncertain == StartUncertain(t)
      aborted == ~tk[t].starting /\ tk[t].abandoned
      d == tk[t].descriptor
      marked == Snapshot(d.state, d.uncertain \/ uncertain)
      failed == [tk[t] EXCEPT !.aborted = aborted,
                              !.err = IF aborted THEN "none" ELSE tk[t].err,
                              !.descriptor = marked,
                              !.result = IF tk[t].starting THEN marked ELSE tk[t].result] IN
  /\ tk[t].pc = "failing"
  /\ tickets' = IF aborted THEN [tickets EXCEPT ![tk[t].id] = None] ELSE tickets
  /\ IF uncertain
     THEN /\ tk' = [tk EXCEPT ![t] = [failed EXCEPT !.pc = "failSave"]]
          /\ UNCHANGED <<pending, revisionVars>>
     ELSE /\ tk' = [tk EXCEPT ![t] = [failed EXCEPT !.pc = "done", !.complete = TRUE]]
          /\ pending' = pending - 1
          /\ changedLocked(disabled)
  /\ UNCHANGED <<callers, runs, child, journal, recovery, active>>

(* The uncertain failure is saved outside the lock, its error ignored.       *)
SaveUncertainFailure(t) ==
  /\ tk[t].pc = "failSave"
  /\ \E ok \in BOOLEAN : SaveLaunch(t, tk[t].result, ok)
  /\ Goto(t, "failDone")
  /\ UNCHANGED <<tickets, callers, runs, child, recovery, pending, active, revisionVars>>

FailDone(t) ==
  /\ tk[t].pc = "failDone"
  /\ tk' = [tk EXCEPT ![t] = [@ EXCEPT !.pc = "done", !.complete = TRUE]]
  /\ changedLocked(disabled)
  /\ UNCHANGED <<tickets, callers, runs, child, journal, recovery, pending, active>>

-----------------------------------------------------------------------------
(* reconcile: the goroutine that waits for one owned child.                  *)

ChildExits(t) ==
  /\ child[t] = "alive"
  /\ child' = [child EXCEPT ![t] = "dead"]
  /\ UNCHANGED <<tickets, tk, callers, runs, journal, recovery, pending, active, revisionVars>>

(* child.Wait returned. Only an exit of a live descriptor is known; a Wait   *)
(* error, or a descriptor that never became live, latches uncertainty.       *)
WaitReturned(t) ==
  /\ runs[t].pc = "wait"
  /\ \/ /\ child[t] = "dead" /\ runs[t].state = "live"
        /\ runs' = [runs EXCEPT ![t] = [@ EXCEPT !.pc = "save", !.state = "exited",
                                                 !.exitKnown = TRUE]]
     \/ runs' = [runs EXCEPT ![t] = [@ EXCEPT !.pc = "save", !.uncertain = TRUE,
                                              !.published = FALSE]]
  /\ changedLocked(disabled)
  /\ UNCHANGED <<tickets, tk, callers, child, journal, recovery, pending, active>>

AfterSaveExit(t, ok) == IF runs[t].exitKnown /\ ok THEN "recover" ELSE "finish"

SaveExit(t) ==
  /\ runs[t].pc = "save"
  /\ \E ok \in BOOLEAN :
       /\ SaveLaunch(t, Snapshot(runs[t].state, runs[t].uncertain), ok)
       /\ runs' = [runs EXCEPT ![t] = [@ EXCEPT !.saveErr = ~ok,
                     !.pc = AfterSaveExit(t, ok)]]
  /\ UNCHANGED <<tickets, tk, callers, child, recovery, pending, active, revisionVars>>

(* persistOwnedRecovery: optional evidence, its failure is ignored.          *)
PersistOwnedRecovery(t) ==
  /\ runs[t].pc = "recover"
  /\ recovery' \in {recovery, recovery \cup {t}}
  /\ runs' = [runs EXCEPT ![t].pc = "finish"]
  /\ UNCHANGED <<tickets, tk, callers, child, journal, pending, active, revisionVars>>

(* Mutants: a good save clears the uncertainty of the run; a failed save     *)
(* ends the goroutine early.                                                 *)
FinishForgetsUncertainty(t) ==
  /\ runs[t].pc = "finish"
  /\ runs' = [runs EXCEPT ![t] = [@ EXCEPT !.pc = "done", !.uncertain = runs[t].saveErr]]
  /\ active' = IF runs[t].exitKnown THEN active - 1 ELSE active
  /\ changedLocked(disabled)
  /\ UNCHANGED <<tickets, tk, callers, child, journal, recovery, pending>>

FinishOnlySaved(t) == ~runs[t].saveErr /\ FinishForgetsUncertainty(t)

(* Only a known exit gives the reservation back.                             *)
ActiveAfter(t) == IF runs[t].exitKnown THEN active - 1 ELSE active

FinishReconcile(t) ==
  /\ runs[t].pc = "finish"
  /\ runs' = [runs EXCEPT ![t] = [@ EXCEPT !.pc = "done",
                              !.uncertain = runs[t].uncertain \/ runs[t].saveErr,
                              !.published = runs[t].published /\ ~runs[t].saveErr]]
  /\ active' = ActiveAfter(t)
  /\ changedLocked(disabled)
  /\ UNCHANGED <<tickets, tk, callers, child, journal, recovery, pending>>

-----------------------------------------------------------------------------
DisableLaunches ==
  /\ ~disabled
  /\ changedLocked(TRUE)
  /\ UNCHANGED launchVars

CallerStep ==
  \/ \E c \in Callers, id \in RequestIDs, sel \in Selections :
       \/ \E t \in Tickets : AdmitLaunch(c, id, sel, t)
       \/ JoinLaunch(c, id, sel)
       \/ RefuseLaunch(c, id, sel)
  \/ \E c \in Callers : LaunchAnswered(c) \/ LaunchCanceled(c)

Coordinator(t) ==
  \/ ValidateTarget(t)
  \/ CommitStart(t)
  \/ ReserveLaunch(t)
  \/ Start(t)
  \/ AttachChild(t)
  \/ SaveStarted(t)
  \/ CompleteLaunch(t)
  \/ Fail(t)
  \/ SaveUncertainFailure(t)
  \/ FailDone(t)

Reconcile(t) ==
  \/ WaitReturned(t)
  \/ SaveExit(t)
  \/ PersistOwnedRecovery(t)
  \/ FinishReconcile(t)

LaunchStep ==
  \/ CallerStep
  \/ \E t \in Tickets : \/ CoordinatorTimeout(t)
                        \/ Coordinator(t)
                        \/ ChildExits(t)
                        \/ Reconcile(t)

Next == (LaunchStep \/ DisableLaunches) /\ UNCHANGED <<fenceVars, controlsPending>>

(* Coordinators and waiters are runnable goroutines whose external calls are *)
(* bounded by context deadlines; an owned child need never exit, so Wait is  *)
(* fair only once the child is dead.                                         *)
Fairness ==
  /\ \A t \in Tickets :
       /\ WF_stateVars(Coordinator(t) /\ UNCHANGED <<fenceVars, controlsPending>>)
       /\ WF_stateVars(/\ child[t] = "dead" \/ runs[t].pc # "wait"
                       /\ Reconcile(t)
                       /\ UNCHANGED <<fenceVars, controlsPending>>)
  /\ \A c \in Callers :
       WF_stateVars(LaunchAnswered(c) /\ UNCHANGED <<fenceVars, controlsPending>>)

Spec == StateInit /\ [][Next]_stateVars
FairSpec == Spec /\ Fairness

-----------------------------------------------------------------------------
(* Properties.                                                               *)

(* A ticket holds a pending reservation while its coordinator has not        *)
(* attached a child, and for good when it failed without knowing whether one *)
(* was started.                                                              *)
HoldsPending(t) ==
  \/ tk[t].pc \in {"validate", "validated", "failing", "reserve", "start",
                    "attach", "failSave", "failDone"}
  \/ tk[t].pc = "done" /\ tk[t].starting /\ tk[t].err = "unknown" /\ runs[t].pc = "absent"
PendingTickets == {t \in Tickets : HoldsPending(t)}

(* A run holds an active reservation from its attachment until a known exit  *)
(* is reconciled.                                                            *)
HoldsActive(t) ==
  runs[t].pc # "absent" /\ ~(runs[t].pc = "done" /\ runs[t].exitKnown)
ActiveRuns == {t \in Tickets : HoldsActive(t)}

(* pending and active count exactly the reservations that exist, whatever    *)
(* mix of failures, abandonment and exits happened (pending--, active++ and  *)
(* active-- are spread over fail, launch and reconcile).                     *)
ReservationAccounting ==
  /\ pending = Cardinality(PendingTickets)
  /\ active = Cardinality(ActiveRuns)

(* Children that run, or may run without an owner.                           *)
PossibleChildren == {t \in Tickets : child[t] \in {"alive", "lost"}}

(* The admission check on the counters really bounds processes: never more   *)
(* than MaxActiveRuns children run or may run, lost ones included.           *)
ChildrenBounded == Cardinality(PossibleChildren) <= MaxActiveRuns

(* At most one child is ever spawned for a request id, across the tickets    *)
(* that retries after an abandoned attempt create for it.                    *)
AtMostOneSpawnPerRequest ==
  \A s, t \in Tickets :
    child[s] # "none" /\ child[t] # "none" /\ tk[s].id = tk[t].id => s = t

(* A child only exists once its intent is in the execution journal.          *)
DurableIntentBeforeSpawn ==
  \A t \in Tickets : child[t] # "none" => journal[t].state # "none"

(* A ticket that began to start stays the answer for its request id, so no   *)
(* later call with that id can start a second attempt.                       *)
StartedTicketRetained ==
  \A t \in Tickets : tk[t].starting => tickets[tk[t].id] = t

(* A ticket whose callers were told success has a child that was durably     *)
(* published as live.                                                        *)
SuccessIsDurable ==
  \A t \in Tickets :
    tk[t].complete /\ ~tk[t].aborted /\ tk[t].err = "none" =>
      /\ tk[t].result = Snapshot("live", FALSE)
      /\ child[t] \in {"alive", "dead"}
      /\ journal[t].state \in {"live", "exited"}

(* AwaitIdle's condition means what its callers need: no child runs or may   *)
(* run, every started child was waited for, no coordinator will start one.   *)
IdleMeansReconciled ==
  pending + active = 0 =>
    \A t \in Tickets :
      /\ child[t] \in {"none", "dead"}
      /\ child[t] = "dead" => runs[t].pc = "done" /\ runs[t].exitKnown
      /\ tk[t].pc \in {"unused", "done"}

(* A recovery record exists only for a launch whose exit is durable.         *)
RecoveryNeedsDurableExit ==
  \A t \in recovery : child[t] = "dead" /\ journal[t].state = "exited"

(* What outlives the process is true: callers were told success only of a    *)
(* durably published child, and only a durable exit is offered for recovery. *)
DurableOutcomes == SuccessIsDurable /\ RecoveryNeedsDurableExit

(* The waiter count is the number of callers in the select, the count that   *)
(* decides whether an attempt is abandoned.                                  *)
WaitersCounted ==
  \A t \in Tickets :
    tk[t].waiters = Cardinality({c \in Callers : callers[c].pc = "wait" /\ callers[c].ticket = t})

(* What each step of a coordinator knows about its ticket, run and child:    *)
(* the part of the inductive invariant that is local to one ticket.          *)
TicketInv(t) ==
  /\ tk[t].pc \in {"unused", "validate", "validated"} =>
       ~tk[t].starting /\ ~tk[t].aborted /\ ~tk[t].complete /\ tk[t].err = "none"
  /\ tk[t].pc \in {"reserve", "start", "attach", "publish", "complete", "failSave", "failDone"} =>
       tk[t].starting
  /\ tk[t].pc = "done" <=> tk[t].complete
  /\ tk[t].pc # "unused" => tk[t].id \in RequestIDs
  /\ tk[t].pc # "unused" /\ ~tk[t].aborted => tickets[tk[t].id] = t
  /\ tk[t].starting => tk[t].pc # "unused" /\ ~tk[t].aborted /\ ~tk[t].abandoned
  /\ tk[t].aborted => tk[t].pc = "done"
  /\ ~tk[t].starting =>
       child[t] = "none" /\ runs[t].pc = "absent" /\ journal[t].state = "none"
  /\ tk[t].pc \in {"reserve", "start"} =>
       /\ tk[t].err = "none" /\ child[t] = "none"
       /\ tk[t].descriptor = Snapshot("reserved", FALSE)
  /\ tk[t].pc = "start" \/ child[t] # "none" => journal[t].state # "none"
  /\ tk[t].pc \in {"attach", "publish", "complete"} => child[t] \in {"alive", "dead"}
  /\ tk[t].pc \in {"publish", "complete"} =>
       /\ tk[t].err = "none" => tk[t].descriptor = Snapshot("live", FALSE)
       /\ tk[t].descriptor.state # "none"
  /\ tk[t].pc = "failing" =>
       tk[t].err # "none" /\ (tk[t].starting => tk[t].descriptor.state # "none")
  /\ tk[t].pc \in {"failing", "failSave", "failDone"} => child[t] \in {"none", "lost"}
  /\ tk[t].pc = "failSave" => tk[t].result.state # "none"
  /\ tk[t].pc \in {"failSave", "failDone"} => tk[t].err = "unknown"
  /\ tk[t].err = "error" => child[t] = "none"
  /\ child[t] = "lost" => tk[t].err = "unknown" /\ runs[t].pc = "absent"
  /\ runs[t].pc = "owned" <=> tk[t].pc \in {"publish", "complete"}
  /\ runs[t].pc \notin {"absent", "owned"} => tk[t].pc = "done"
  /\ runs[t].pc = "absent" /\ tk[t].pc = "done" => child[t] \in {"none", "lost"}
  /\ runs[t].pc # "absent" =>
       tk[t].starting /\ child[t] \in {"alive", "dead"} /\ runs[t].state # "none"
  /\ runs[t].exitKnown => child[t] = "dead"
  /\ tk[t].pc = "done" /\ tk[t].err = "none" /\ ~tk[t].aborted => runs[t].pc # "absent"
  /\ tk[t].abandoned /\ ~tk[t].complete => tk[t].canceled
  /\ tk[t].pc \in {"validate", "validated"} /\ tk[t].waiters = 0 => tk[t].canceled

(* The map s.tickets and the objects it points to agree.                     *)
TicketMapInv ==
  \A i \in RequestIDs :
    tickets[i] # None =>
      /\ tk[tickets[i]].id = i
      /\ tk[tickets[i]].pc # "unused"
      /\ ~tk[tickets[i]].aborted

(* A caller in the select holds a ticket object that is in use.              *)
CallerInv ==
  \A c \in Callers :
    callers[c].pc = "wait" => callers[c].ticket \in Tickets /\ tk[callers[c].ticket].pc # "unused"

(* The inductive invariant of launch coordination: what every step of every  *)
(* goroutine relies on between two critical sections of launch.go.           *)
LaunchInv ==
  /\ LaunchTypeOK
  /\ ReservationAccounting
  /\ pending + active <= MaxActiveRuns
  /\ WaitersCounted
  /\ TicketMapInv
  /\ CallerInv
  /\ \A t \in Tickets : TicketInv(t)

(* Start is committed only while some caller is waiting for it and nobody    *)
(* gave up on the ticket before.                                             *)
CommitOnlyWhileWanted ==
  [][\A t \in Tickets :
       ~tk[t].starting /\ tk'[t].starting => tk[t].waiters > 0 /\ ~tk[t].abandoned]_stateVars

(* Publication uncertainty of a run or of a journal record is never taken    *)
(* back, and an exited record never becomes anything else.                   *)
UncertaintyLatched ==
  [][\A t \in Tickets :
       /\ runs[t].uncertain => runs'[t].uncertain /\ ~runs'[t].published
       /\ journal[t].uncertain => journal'[t].uncertain
       /\ journal[t].state = "exited" => journal'[t].state = "exited"]_stateVars

(* Every caller in the select gets an answer or a reason to ask again: each  *)
(* path of the coordinator closes the ticket's channel.                      *)
CallersAnswered ==
  \A c \in Callers : callers[c].pc = "wait" ~> callers[c].pc # "wait"

(* Every exit of an attached child is reconciled and closes run.done.        *)
ExitsReconciled ==
  \A t \in Tickets : (runs[t].pc # "absent" /\ child[t] = "dead") ~> runs[t].pc = "done"

(* Every launch comes to an end: its callers are answered, and the exit of   *)
(* its child is reconciled, whatever fails on the way.                       *)
LaunchesEnd == CallersAnswered /\ ExitsReconciled
=============================================================================
