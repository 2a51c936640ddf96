----------------------------- MODULE RuntimeControl -----------------------------
(*****************************************************************************)
(* Explicit controls of an owned child - input, resize, stop -               *)
(* (application/runtime/control.go), the receipt ledger of each run          *)
(* (domain/runtime/control.go), receipts.json (control_store_unix.go) and    *)
(* the admission barrier of the PTY child (pty_control_unix.go), composed    *)
(* with launches and shutdown.                                               *)
(*                                                                           *)
(* Callers that wait on a ticket change nothing when they leave, so they are *)
(* not part of the state.                                                    *)
(*****************************************************************************)
EXTENDS RuntimeLifecycle

CONSTANTS
  ControlIDs,                 \* control request identifiers
  MaxControlCoordinators,     \* domain.MaxControlCoordinators
  MaxControlReceipts,         \* domain.MaxControlReceipts
  ReservedLifecycleReceipts   \* domain.ReservedLifecycleReceipts

ASSUME ControlAssumption ==
  /\ IsFiniteSet(ControlIDs)
  /\ MaxControlCoordinators \in Nat
  /\ MaxControlReceipts \in Nat
  /\ ReservedLifecycleReceipts \in 0..MaxControlReceipts

VARIABLES
  controls,     \* run.controls.tickets, with the coordinator's pc
  busy,         \* run.controls.busy
  ledger,       \* run.controls.ledger
  receipts,     \* receipts.json
  effects       \* native effects performed for a control, counted up to two

controlVars == <<controls, busy, ledger, receipts, effects>>
runtimeVars == <<lifecycleVars, controlVars>>

Kinds == {"input", "resize", "stop"}
Receipts == {"none", "pending", "delivered", "rejected", "unknown"}
ControlSteps == {"none", "validate", "recheck", "reserve", "rollback", "apply", "save",
                 "complete", "finish", "done"}
ControlRecords ==
  [pc : ControlSteps, kind : Kinds \cup {None}, effect : Receipts, outcome : Receipts, drop : BOOLEAN]
NoControl ==
  [pc |-> "none", kind |-> None, effect |-> "none", outcome |-> "none", drop |-> FALSE]

ControlInit ==
  /\ controls = [t \in Tickets |-> [k \in ControlIDs |-> NoControl]]
  /\ busy = [t \in Tickets |-> FALSE]
  /\ ledger = [t \in Tickets |-> [k \in ControlIDs |-> "none"]]
  /\ receipts = [t \in Tickets |-> [k \in ControlIDs |-> "none"]]
  /\ effects = [t \in Tickets |-> [k \in ControlIDs |-> 0]]

(* The type invariant of the composed owner.                                 *)
RuntimeTypeOK ==
  /\ TypeOK
  /\ plans \in [Plans -> PlanRecords]
  /\ closed \subseteq Tickets
  /\ life \in LifecycleRecords
  /\ controls \in [Tickets -> [ControlIDs -> ControlRecords]]
  /\ busy \in [Tickets -> BOOLEAN]
  /\ ledger \in [Tickets -> [ControlIDs -> Receipts]]
  /\ receipts \in [Tickets -> [ControlIDs -> Receipts]]
  /\ effects \in [Tickets -> [ControlIDs -> 0..2]]

-----------------------------------------------------------------------------
(* Mutants: controls admitted while a plan is prepared; any control admitted *)
(* after the commit.                                                         *)
PreparingIgnored(kind) == shutdownCommitted \/ lifecycleUncertain => kind = "stop"
CommitIgnored(kind) == ~shutdownPreparing

CoordinatorFree(t) == controlsPending < MaxControlCoordinators /\ ~busy[t]

(* The lifecycle fences: only stop may still be asked for once a shutdown    *)
(* is committed or a lifecycle outcome is uncertain.                         *)
LifecycleAdmits(kind) ==
  /\ ~shutdownPreparing
  /\ shutdownCommitted \/ lifecycleUncertain => kind = "stop"

(* Control: an existing ticket only answers; a new one needs a live owned    *)
(* run, no lifecycle fence for its kind, and a free coordinator.             *)
Control(t, k, kind) ==
  /\ runs[t].pc # "absent"
  /\ controls[t][k].pc = "none"
  /\ ~revisionExhausted /\ revision # MaxRevision
  /\ LifecycleAdmits(kind)
  /\ runs[t].state = "live"
  /\ kind = "input" => runs[t].published
  /\ CoordinatorFree(t)
  /\ controls' = [controls EXCEPT ![t][k] =
                    [NoControl EXCEPT !.pc = "validate", !.kind = kind, !.outcome = "pending"]]
  /\ busy' = [busy EXCEPT ![t] = TRUE]
  /\ controlsPending' = controlsPending + 1
  /\ changedLocked(disabled)
  /\ UNCHANGED <<launchVars, fenceVars, planVars, ledger, receipts, effects>>

-----------------------------------------------------------------------------
(* performControl: the coordinator of one control.                           *)

Advance(t, k, pc) == controls' = [controls EXCEPT ![t][k].pc = pc]
RejectControl(t, k) ==
  controls' = [controls EXCEPT ![t][k] = [@ EXCEPT !.pc = "finish", !.effect = "rejected", !.drop = TRUE]]
EffectKnown(t, k, r) ==
  controls' = [controls EXCEPT ![t][k] = [@ EXCEPT !.pc = "save", !.effect = r]]

(* Revalidate, LookupProfile, ValidateControl and the context check.         *)
ValidateControl(t, k) ==
  /\ controls[t][k].pc = "validate"
  /\ \/ /\ controls[t][k].kind = "stop" \/ t \notin closed
        /\ Advance(t, k, "recheck")
     \/ RejectControl(t, k)
  /\ UNCHANGED <<stateVars, planVars, busy, ledger, receipts, effects>>

(* ControlLedger.Reserve: lifecycle slots are kept for stop.                 *)
LedgerUsed(t) == {k \in ControlIDs : ledger[t][k] # "none"}
NonLifecycle(t) == {k \in LedgerUsed(t) : controls[t][k].kind # "stop"}
LedgerHasRoom(t, k) ==
  /\ Cardinality(LedgerUsed(t)) < MaxControlReceipts
  /\ controls[t][k].kind # "stop" =>
       Cardinality(NonLifecycle(t)) < MaxControlReceipts - ReservedLifecycleReceipts

(* Mutant: a refused reservation returns without finishing the ticket.       *)
RefusalForgotten(t, k) ==
  /\ controls[t][k].pc = "recheck"
  /\ runs[t].state = "live" /\ LedgerHasRoom(t, k)
  /\ ledger' = [ledger EXCEPT ![t][k] = "pending"]
  /\ Advance(t, k, "reserve")
  /\ UNCHANGED <<stateVars, planVars, busy, receipts, effects>>

ReserveLedger(t, k) ==
  /\ controls[t][k].pc = "recheck"
  /\ IF runs[t].state = "live" /\ LedgerHasRoom(t, k)
     THEN /\ ledger' = [ledger EXCEPT ![t][k] = "pending"]
          /\ Advance(t, k, "reserve")
     ELSE UNCHANGED ledger /\ RejectControl(t, k)
  /\ UNCHANGED <<stateVars, planVars, busy, receipts, effects>>

(* Mutant: an ambiguous reservation is applied.                              *)
AmbiguousIsApplied(t, k) ==
  /\ controls[t][k].pc = "reserve"
  /\ receipts' \in {receipts, [receipts EXCEPT ![t][k] = "pending"]}
  /\ Advance(t, k, "apply")
  /\ UNCHANGED <<stateVars, planVars, busy, ledger, effects>>

(* ReserveControl: durable intent; a definite failure; or an ambiguous one,  *)
(* written or not.                                                           *)
ReserveControl(t, k) ==
  LET reserved == [receipts EXCEPT ![t][k] = "pending"]
      accepted == receipts[t][k] = "none" IN
  /\ controls[t][k].pc = "reserve"
  /\ \/ accepted /\ receipts' = reserved /\ Advance(t, k, "apply")
     \/ UNCHANGED receipts /\ Advance(t, k, "rollback")
     \/ UNCHANGED receipts /\ EffectKnown(t, k, "unknown")
     \/ accepted /\ receipts' = reserved /\ EffectKnown(t, k, "unknown")
  /\ UNCHANGED <<stateVars, planVars, busy, ledger, effects>>

(* rollbackControl: AbandonUncommitted forgets the ledger entry.             *)
RollbackControl(t, k) ==
  /\ controls[t][k].pc = "rollback"
  /\ ledger' = [ledger EXCEPT ![t][k] = "none"]
  /\ RejectControl(t, k)
  /\ UNCHANGED <<stateVars, planVars, busy, receipts, effects>>

(* Mutant: an ambiguous effect is tried again.                               *)
ApplyRetries(t, k) ==
  LET performed == [effects EXCEPT ![t][k] = IF @ = 2 THEN 2 ELSE @ + 1] IN
  /\ controls[t][k].pc = "apply"
  /\ effects' \in {effects, performed}
  /\ EffectKnown(t, k, "delivered") \/ UNCHANGED controls
  /\ UNCHANGED <<stateVars, planVars, busy, ledger, receipts>>

(* ApplyControl: one native effect, or none, behind the child's barrier (no  *)
(* input or resize once the terminal is closing). A short write, an expired  *)
(* context or an adapter error is unknown whether or not it took effect.     *)
ApplyControl(t, k) ==
  LET performed == [effects EXCEPT ![t][k] = IF @ = 2 THEN 2 ELSE @ + 1]
      open == controls[t][k].kind = "stop" \/ t \notin closed IN
  /\ controls[t][k].pc = "apply"
  /\ \/ open /\ effects' = performed /\ EffectKnown(t, k, "delivered")
     \/ open /\ effects' = performed /\ EffectKnown(t, k, "unknown")
     \/ UNCHANGED effects /\ EffectKnown(t, k, "unknown")
     \/ UNCHANGED effects /\ EffectKnown(t, k, "rejected")
  /\ UNCHANGED <<stateVars, planVars, busy, ledger, receipts>>

(* Mutant: a failed save of the receipt is not noticed.                      *)
SaveControlUnchecked(t, k) ==
  /\ controls[t][k].pc = "save"
  /\ receipts' \in {receipts, [receipts EXCEPT ![t][k] = controls[t][k].effect]}
  /\ Advance(t, k, "complete")
  /\ UNCHANGED <<stateVars, planVars, busy, ledger, effects>>

(* completeControl: SaveControl. An error makes the outcome unknown, even if *)
(* the write took place.                                                     *)
SaveControl(t, k) ==
  LET saved == [receipts EXCEPT ![t][k] = controls[t][k].effect]
      accepted == receipts[t][k] \in {"pending", controls[t][k].effect} IN
  /\ controls[t][k].pc = "save"
  /\ \/ accepted /\ receipts' = saved /\ Advance(t, k, "complete")
     \/ /\ receipts' \in {receipts} \cup {r \in {saved} : accepted}
        /\ controls' = [controls EXCEPT ![t][k] = [@ EXCEPT !.pc = "complete", !.effect = "unknown"]]
  /\ UNCHANGED <<stateVars, planVars, busy, ledger, effects>>

(* ControlLedger.Complete: terminal evidence is written once.                *)
CompleteLedger(t, k) ==
  /\ controls[t][k].pc = "complete"
  /\ IF ledger[t][k] \in {"pending", controls[t][k].effect}
     THEN /\ ledger' = [ledger EXCEPT ![t][k] = controls[t][k].effect]
          /\ Advance(t, k, "finish")
     ELSE /\ UNCHANGED ledger
          /\ controls' = [controls EXCEPT ![t][k] = [@ EXCEPT !.pc = "finish", !.effect = "unknown"]]
  /\ UNCHANGED <<stateVars, planVars, busy, receipts, effects>>

(* Mutant: every finished ticket is dropped.                                 *)
FinishDropsReceipt(t, k) ==
  /\ controls[t][k].pc = "finish"
  /\ controls' = [controls EXCEPT ![t][k] = NoControl]
  /\ busy' = [busy EXCEPT ![t] = FALSE]
  /\ controlsPending' = controlsPending - 1
  /\ changedLocked(disabled)
  /\ UNCHANGED <<launchVars, fenceVars, planVars, ledger, receipts, effects>>

(* finishControl: publish the receipt, or drop the ticket of a rejection     *)
(* before any commit.                                                        *)
FinishControl(t, k) ==
  /\ controls[t][k].pc = "finish"
  /\ controls' = [controls EXCEPT ![t][k] =
       IF controls[t][k].drop THEN NoControl
       ELSE [@ EXCEPT !.pc = "done", !.outcome = controls[t][k].effect]]
  /\ busy' = [busy EXCEPT ![t] = FALSE]
  /\ controlsPending' = controlsPending - 1
  /\ changedLocked(disabled)
  /\ UNCHANGED <<launchVars, fenceVars, planVars, ledger, receipts, effects>>

-----------------------------------------------------------------------------
Perform(t, k) ==
  \/ ValidateControl(t, k)
  \/ ReserveLedger(t, k)
  \/ ReserveControl(t, k)
  \/ RollbackControl(t, k)
  \/ ApplyControl(t, k)
  \/ SaveControl(t, k)
  \/ CompleteLedger(t, k)
  \/ FinishControl(t, k)

ControlStep ==
  \E t \in Tickets, k \in ControlIDs :
    \/ \E kind \in Kinds : Control(t, k, kind)
    \/ Perform(t, k)

RuntimeNext ==
  \/ LifecycleNext /\ UNCHANGED controlVars
  \/ ControlStep

RuntimeInit == LifecycleInit /\ ControlInit
RuntimeSpec == RuntimeInit /\ [][RuntimeNext]_runtimeVars

-----------------------------------------------------------------------------
(* Properties.                                                               *)

InFlight(t, k) == controls[t][k].pc \notin {"none", "done"}

(* A control request id causes at most one native effect, whatever was       *)
(* retried after a rejection and whatever the journal answered.              *)
AtMostOneEffect == \A t \in Tickets, k \in ControlIDs : effects[t][k] <= 1

(* No effect without durable intent: a restart finds every control that may  *)
(* have reached the child.                                                   *)
EffectAfterDurableIntent ==
  \A t \in Tickets, k \in ControlIDs : effects[t][k] > 0 => receipts[t][k] # "none"

(* Receipts never lie: delivered means exactly one effect and a durable      *)
(* delivered record; rejected means none.                                    *)
ReceiptsTruthful ==
  \A t \in Tickets, k \in ControlIDs :
    /\ controls[t][k].outcome = "delivered" =>
         effects[t][k] = 1 /\ receipts[t][k] = "delivered" /\ ledger[t][k] = "delivered"
    /\ controls[t][k].outcome = "rejected" => effects[t][k] = 0

(* What the ticket, the ledger and receipts.json say of a control never      *)
(* changes once it is terminal.                                              *)
ReceiptsImmutable ==
  [][\A t \in Tickets, k \in ControlIDs :
       /\ controls[t][k].pc = "done" => controls'[t][k] = controls[t][k]
       /\ ledger[t][k] \notin {"none", "pending"} => ledger'[t][k] = ledger[t][k]
       /\ receipts[t][k] \notin {"none", "pending"} => receipts'[t][k] = receipts[t][k]]_runtimeVars

(* controlsPending counts the coordinators in flight, one per run at most.   *)
ControlAccounting ==
  /\ controlsPending = Cardinality({x \in Tickets \X ControlIDs : InFlight(x[1], x[2])})
  /\ \A t \in Tickets :
       /\ Cardinality({k \in ControlIDs : InFlight(t, k)}) <= 1
       /\ busy[t] <=> \E k \in ControlIDs : InFlight(t, k)

(* Non-stop controls cannot use up a run's receipts: the reserved slots are  *)
(* there for stop, also after rollbacks.                                     *)
StopSlotsReserved ==
  \A t \in Tickets :
    Cardinality(NonLifecycle(t)) <= MaxControlReceipts - ReservedLifecycleReceipts

(* What the controls leave between two critical sections of control.go: the  *)
(* types of the composed state, the accounting of coordinators and receipts, *)
(* and durable intent before every effect.                                   *)
ControlInv ==
  /\ RuntimeTypeOK
  /\ ControlAccounting
  /\ StopSlotsReserved
  /\ EffectAfterDurableIntent

(* Between the confirmation of a shutdown and its commit no control is in    *)
(* flight, so the confirmed plan and the controls never race.                *)
PlanExcludesControls ==
  \A p \in Plans :
    plans[p].pc \in {"validate", "recheck", "reserve", "commit"} => controlsPending = 0

(* Once a shutdown is committed no input or resize reaches any child, also   *)
(* none that was admitted before the commit.                                 *)
OnlyStopAfterCommit ==
  [][\A t \in Tickets, k \in ControlIDs :
       effects'[t][k] > effects[t][k] /\ shutdownCommitted => controls[t][k].kind = "stop"]_runtimeVars

ControlFairness ==
  \A t \in Tickets, k \in ControlIDs : WF_runtimeVars(Perform(t, k))

(* Every admitted control comes to an end and frees its run for the next.    *)
ControlsEnd ==
  \A t \in Tickets, k \in ControlIDs : InFlight(t, k) ~> ~InFlight(t, k)
=============================================================================
