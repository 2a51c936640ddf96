------------------------------ MODULE RuntimeProofs ------------------------------
(*****************************************************************************)
(* Proofs about the composed runtime owner: launches, epoch start, shutdown, *)
(* the end of Serve and controls together.                                   *)
(*                                                                           *)
(* The lifecycle and the controls only read the state of the launches, so    *)
(* LaunchInv and OutcomesInv carry over from RuntimeLaunch step by step, and *)
(* the controls only count themselves, so ShutdownInv carries over too. The  *)
(* argument about controls: what performControl knows of its control at each *)
(* of its steps (ControlOne) bounds the effects by one and ties the receipt  *)
(* to the ledger and to receipts.json; busy keeps a second coordinator off   *)
(* the run; and a plan is confirmed only while no control is in flight, so   *)
(* that at the commit there is none and afterwards only stop is admitted.    *)
(*****************************************************************************)
EXTENDS RuntimeControl, RuntimeLifecycleProofs

-----------------------------------------------------------------------------
(* No step of a control touches the launch state.                            *)
LEMMA ControlLeavesLaunches == ControlStep => UNCHANGED launchVars
<1>1. ASSUME NEW t \in Tickets, NEW k \in ControlIDs, Perform(t, k) PROVE UNCHANGED launchVars
  <2>1. CASE FinishControl(t, k)
    BY <2>1 DEF FinishControl
  <2>2. CASE ~FinishControl(t, k)
    BY <1>1, <2>2 DEF Perform, ValidateControl, ReserveLedger, ReserveControl, RollbackControl,
                      ApplyControl, SaveControl, CompleteLedger, stateVars
  <2> QED BY <2>1, <2>2
<1>2. ASSUME NEW t \in Tickets, NEW k \in ControlIDs, NEW kind \in Kinds, Control(t, k, kind)
      PROVE  UNCHANGED launchVars
  BY <1>2 DEF Control
<1> QED BY <1>1, <1>2 DEF ControlStep

-----------------------------------------------------------------------------
(* The inductive invariant of the controls.                                  *)

ControlTypeOK ==
  /\ controls \in [Tickets -> [ControlIDs -> ControlRecords]]
  /\ busy \in [Tickets -> BOOLEAN]
  /\ ledger \in [Tickets -> [ControlIDs -> Receipts]]
  /\ receipts \in [Tickets -> [ControlIDs -> Receipts]]
  /\ effects \in [Tickets -> [ControlIDs -> 0..2]]

(* Nothing of the control can be found anywhere.                             *)
NoTrace(t, k) == ledger[t][k] = "none" /\ receipts[t][k] = "none" /\ effects[t][k] = 0

(* What an outcome claims of the effect and of receipts.json.                *)
EffectTold(t, k, r) ==
  /\ r \in {"delivered", "rejected", "unknown"}
  /\ effects[t][k] <= 1
  /\ effects[t][k] > 0 => receipts[t][k] # "none"
  /\ r = "delivered" => effects[t][k] = 1
  /\ r = "rejected" => effects[t][k] = 0

(* What each step of performControl knows of its control.                    *)
ControlOne(t, k) ==
  LET c == controls[t][k] IN
  /\ c.pc = "none" => c = NoControl /\ NoTrace(t, k)
  /\ c.pc \in {"validate", "recheck"} => NoTrace(t, k)
  /\ c.pc \in {"reserve", "rollback"} =>
       ledger[t][k] = "pending" /\ receipts[t][k] = "none" /\ effects[t][k] = 0
  /\ c.pc = "apply" =>
       ledger[t][k] = "pending" /\ receipts[t][k] = "pending" /\ effects[t][k] = 0
  /\ c.pc = "save" =>
       /\ EffectTold(t, k, c.effect) /\ ledger[t][k] = "pending"
       /\ receipts[t][k] \in {"none", "pending"}
  /\ c.pc = "complete" =>
       /\ EffectTold(t, k, c.effect) /\ ledger[t][k] = "pending"
       /\ c.effect = "delivered" => receipts[t][k] = "delivered"
  /\ c.pc = "finish" =>
       IF c.drop THEN NoTrace(t, k)
       ELSE /\ EffectTold(t, k, c.effect)
            /\ c.effect = "delivered" => receipts[t][k] = "delivered" /\ ledger[t][k] = "delivered"
  /\ c.pc = "done" =>
       /\ EffectTold(t, k, c.outcome)
       /\ c.outcome = "delivered" => receipts[t][k] = "delivered" /\ ledger[t][k] = "delivered"
  /\ c.drop => c.pc = "finish"
  /\ InFlight(t, k) => c.outcome = "pending"

InFlightControls == {x \in Tickets \X ControlIDs : InFlight(x[1], x[2])}

(* At most one control of a run is in flight, and exactly then it is busy.   *)
BusyInv ==
  /\ controlsPending = Cardinality(InFlightControls)
  /\ \A t \in Tickets :
       /\ \A j, k \in ControlIDs : InFlight(t, j) /\ InFlight(t, k) => j = k
       /\ busy[t] <=> \E k \in ControlIDs : InFlight(t, k)

(* No control is in flight together with a plan, and after the commit only   *)
(* stop is.                                                                  *)
ApartInv ==
  /\ \A p \in Plans : InFlightPlan(p) => controlsPending = 0
  /\ shutdownCommitted => \A t \in Tickets, k \in ControlIDs :
                            InFlight(t, k) => controls[t][k].kind = "stop"

ControlsInv ==
  /\ ControlTypeOK
  /\ \A t \in Tickets, k \in ControlIDs : ControlOne(t, k)
  /\ BusyInv /\ StopSlotsReserved /\ ApartInv

-----------------------------------------------------------------------------
(* Two-level tables: one cell written, the others kept.                      *)

Set2(f, t, k, v) == [f EXCEPT ![t][k] = v]
OthersSame(f, g, t, k) ==
  \A s \in Tickets, j \in ControlIDs : s # t \/ j # k => g[s][j] = f[s][j]

(* What a step of a coordinator writes to its ticket.                        *)
CellIs(t, k, p, e, d) ==
  /\ controls' \in [Tickets -> [ControlIDs -> ControlRecords]]
  /\ OthersSame(controls, controls', t, k)
  /\ controls'[t][k].pc = p /\ controls'[t][k].effect = e /\ (controls'[t][k].drop <=> d)
  /\ controls'[t][k].kind = controls[t][k].kind
  /\ controls'[t][k].outcome = controls[t][k].outcome

(* Advance moves the coordinator and nothing else.                           *)
LEMMA AdvanceCell ==
  ASSUME ControlTypeOK, NEW t \in Tickets, NEW k \in ControlIDs, NEW p \in ControlSteps, Advance(t, k, p)
  PROVE  CellIs(t, k, p, controls[t][k].effect, controls[t][k].drop)
<1> DEFINE x == [controls[t][k] EXCEPT !.pc = p]
<1>1. controls \in [Tickets -> [ControlIDs -> ControlRecords]] /\ controls[t][k] \in ControlRecords
  BY DEF ControlTypeOK
<1>2. /\ x \in ControlRecords /\ x.pc = p /\ x.effect = controls[t][k].effect
      /\ x.drop = controls[t][k].drop /\ x.kind = controls[t][k].kind
      /\ x.outcome = controls[t][k].outcome
  BY <1>1 DEF ControlRecords
<1>3. controls' = Set2(controls, t, k, x)
  BY <1>1 DEF Advance, Set2
<1> HIDE DEF x
<1>4. /\ controls' \in [Tickets -> [ControlIDs -> ControlRecords]] /\ controls'[t][k] = x
      /\ OthersSame(controls, controls', t, k)
  BY <1>1, <1>2, <1>3 DEF Set2, OthersSame
<1> QED BY <1>2, <1>4 DEF CellIs

Tells(t, k, p, r) ==
  controls' = [controls EXCEPT ![t][k] = [@ EXCEPT !.pc = p, !.effect = r]]

(* The effect becomes known.                                                 *)
LEMMA ToldCell ==
  ASSUME ControlTypeOK, NEW t \in Tickets, NEW k \in ControlIDs, NEW p \in ControlSteps,
         NEW r \in Receipts, Tells(t, k, p, r)
  PROVE  CellIs(t, k, p, r, controls[t][k].drop)
<1> DEFINE x == [controls[t][k] EXCEPT !.pc = p, !.effect = r]
<1>1. controls \in [Tickets -> [ControlIDs -> ControlRecords]] /\ controls[t][k] \in ControlRecords
  BY DEF ControlTypeOK
<1>2. /\ x \in ControlRecords /\ x.pc = p /\ x.effect = r
      /\ x.drop = controls[t][k].drop /\ x.kind = controls[t][k].kind
      /\ x.outcome = controls[t][k].outcome
  BY <1>1 DEF ControlRecords
<1>3. controls' = Set2(controls, t, k, x)
  BY <1>1 DEF Tells, Set2
<1> HIDE DEF x
<1>4. /\ controls' \in [Tickets -> [ControlIDs -> ControlRecords]] /\ controls'[t][k] = x
      /\ OthersSame(controls, controls', t, k)
  BY <1>1, <1>2, <1>3 DEF Set2, OthersSame
<1> QED BY <1>2, <1>4 DEF CellIs

(* A rejection will drop its ticket.                                         *)
LEMMA RejectCell ==
  ASSUME ControlTypeOK, NEW t \in Tickets, NEW k \in ControlIDs, RejectControl(t, k)
  PROVE  CellIs(t, k, "finish", "rejected", TRUE)
<1> DEFINE x == [controls[t][k] EXCEPT !.pc = "finish", !.effect = "rejected", !.drop = TRUE]
<1>1. controls \in [Tickets -> [ControlIDs -> ControlRecords]] /\ controls[t][k] \in ControlRecords
  BY DEF ControlTypeOK
<1>2. /\ x \in ControlRecords /\ x.pc = "finish" /\ x.effect = "rejected"
      /\ x.drop = TRUE /\ x.kind = controls[t][k].kind
      /\ x.outcome = controls[t][k].outcome
  BY <1>1 DEF ControlRecords, ControlSteps, Receipts
<1>3. controls' = Set2(controls, t, k, x)
  BY <1>1 DEF RejectControl, Set2
<1> HIDE DEF x
<1>4. /\ controls' \in [Tickets -> [ControlIDs -> ControlRecords]] /\ controls'[t][k] = x
      /\ OthersSame(controls, controls', t, k)
  BY <1>1, <1>2, <1>3 DEF Set2, OthersSame
<1> QED BY <1>2, <1>4 DEF CellIs

-----------------------------------------------------------------------------
(* What a step of one control has to show.                                   *)

TablesOthersSame(t, k) ==
  /\ OthersSame(controls, controls', t, k) /\ OthersSame(ledger, ledger', t, k)
  /\ OthersSame(receipts, receipts', t, k) /\ OthersSame(effects, effects', t, k)

(* Another control is untouched.                                             *)
LEMMA OtherControl ==
  ASSUME NEW t \in Tickets, NEW k \in ControlIDs, TablesOthersSame(t, k), NEW s \in Tickets,
         NEW j \in ControlIDs, s # t \/ j # k, ControlOne(s, j)
  PROVE  ControlOne(s, j)' /\ InFlight(s, j)' = InFlight(s, j)
<1>1. /\ controls'[s][j] = controls[s][j] /\ ledger'[s][j] = ledger[s][j]
      /\ receipts'[s][j] = receipts[s][j] /\ effects'[s][j] = effects[s][j]
  BY DEF TablesOthersSame, OthersSame
<1>2. InFlight(s, j)' = InFlight(s, j)
  BY <1>1 DEF InFlight
<1> QED BY <1>1, <1>2 DEF ControlOne, NoTrace, EffectTold, NoControl, InFlight

(* The slots kept for stop are still there when at most one entry was added, *)
(* and added where Reserve found room.                                       *)
LEMMA SlotsKept ==
  ASSUME StopSlotsReserved, NEW t \in Tickets, NEW k \in ControlIDs, TablesOthersSame(t, k),
         \/ ledger'[t][k] = "none" \/ controls'[t][k].kind = "stop"
         \/ ledger[t][k] # "none" /\ controls[t][k].kind # "stop"
         \/ controls[t][k].kind # "stop" /\ LedgerHasRoom(t, k)
  PROVE  StopSlotsReserved'
<1> SUFFICES ASSUME NEW s \in Tickets
             PROVE  Cardinality(NonLifecycle(s)') <= MaxControlReceipts - ReservedLifecycleReceipts
  BY DEF StopSlotsReserved
<1> DEFINE room == MaxControlReceipts - ReservedLifecycleReceipts
<1>1. room \in Int /\ Cardinality(NonLifecycle(s)) <= room
  BY ControlAssumption DEF StopSlotsReserved
<1>2. IsFiniteSet(NonLifecycle(s))
  <2>1. NonLifecycle(s) \subseteq ControlIDs
    BY DEF NonLifecycle, LedgerUsed
  <2> QED BY <2>1, FS_Subset, ControlAssumption
<1>3. CASE s # t
  <2>1. NonLifecycle(s)' = NonLifecycle(s)
    BY <1>3 DEF NonLifecycle, LedgerUsed, TablesOthersSame, OthersSame
  <2> QED BY <1>1, <2>1
<1>4. CASE s = t
  <2>1. NonLifecycle(s) \ {k} = NonLifecycle(s)' \ {k}
    BY <1>4 DEF NonLifecycle, LedgerUsed, TablesOthersSame, OthersSame
  <2>2. k \in NonLifecycle(s)' =>
          k \in NonLifecycle(s) \/ Cardinality(NonLifecycle(s)) < room
    BY <1>4 DEF NonLifecycle, LedgerUsed, LedgerHasRoom
  <2>3. /\ Cardinality(NonLifecycle(s)) \in Nat /\ Cardinality(NonLifecycle(s)') \in Nat
        /\ (k \in NonLifecycle(s) <=> k \in NonLifecycle(s)') =>
             Cardinality(NonLifecycle(s)') = Cardinality(NonLifecycle(s))
        /\ k \in NonLifecycle(s) /\ k \notin NonLifecycle(s)' =>
             Cardinality(NonLifecycle(s)') = Cardinality(NonLifecycle(s)) - 1
        /\ k \notin NonLifecycle(s) /\ k \in NonLifecycle(s)' =>
             Cardinality(NonLifecycle(s)') = Cardinality(NonLifecycle(s)) + 1
    BY <1>2, <2>1, CountChange
  <2> HIDE DEF room
  <2>4. Cardinality(NonLifecycle(s)') <= room
    BY <1>1, <2>2, <2>3
  <2> QED BY <2>4 DEF room
<1> QED BY <1>3, <1>4

(* The controls in flight can be counted.                                    *)
LEMMA InFlightFinite == IsFiniteSet(InFlightControls)
<1>1. InFlightControls \subseteq Tickets \X ControlIDs
  BY DEF InFlightControls
<1> QED BY <1>1, FS_Product, FS_Subset, ConstantsAssumption, ControlAssumption

(* The steps of a coordinator between its admission and its end.             *)
LEMMA QuietControl ==
  ASSUME ControlsInv, NEW t \in Tickets, NEW k \in ControlIDs,
         ControlTypeOK', TablesOthersSame(t, k), ControlOne(t, k)',
         UNCHANGED <<busy, controlsPending, plans, shutdownCommitted>>,
         InFlight(t, k), InFlight(t, k)', controls'[t][k].kind = controls[t][k].kind,
         ledger'[t][k] = "none" \/ ledger[t][k] # "none" \/ LedgerHasRoom(t, k)
  PROVE  ControlsInv'
<1>1. ASSUME NEW s \in Tickets, NEW j \in ControlIDs PROVE ControlOne(s, j)' /\ InFlight(s, j)' = InFlight(s, j)
  <2>1. CASE s = t /\ j = k
    BY <2>1
  <2>2. CASE s # t \/ j # k
    BY <2>2, OtherControl DEF ControlsInv
  <2> QED BY <2>1, <2>2
<1>2. BusyInv'
  <2>1. InFlightControls' = InFlightControls
    BY <1>1 DEF InFlightControls
  <2>2. BusyInv
    BY DEF ControlsInv
  <2> QED BY <1>1, <2>1, <2>2 DEF BusyInv
<1>3. StopSlotsReserved'
  BY SlotsKept DEF ControlsInv
<1>4. ApartInv'
  <2>1. ASSUME NEW s \in Tickets, NEW j \in ControlIDs PROVE controls'[s][j].kind = controls[s][j].kind
    BY DEF TablesOthersSame, OthersSame
  <2>2. \A p \in Plans : InFlightPlan(p)' = InFlightPlan(p)
    BY DEF InFlightPlan
  <2>3. ApartInv
    BY DEF ControlsInv
  <2> QED BY <1>1, <2>1, <2>2, <2>3 DEF ApartInv
<1> QED BY <1>1, <1>2, <1>3, <1>4 DEF ControlsInv

-----------------------------------------------------------------------------
(* The steps of performControl.                                              *)

(* What no step may do to a control.                                         *)
Immutable(s, j) ==
  /\ controls[s][j].pc = "done" => controls'[s][j] = controls[s][j]
  /\ ledger[s][j] \notin {"none", "pending"} => ledger'[s][j] = ledger[s][j]
  /\ receipts[s][j] \notin {"none", "pending"} => receipts'[s][j] = receipts[s][j]
StopOnly(s, j) ==
  effects'[s][j] > effects[s][j] /\ shutdownCommitted => controls[s][j].kind = "stop"
ControlKept ==
  /\ ControlsInv'
  /\ \A s \in Tickets, j \in ControlIDs : Immutable(s, j) /\ StopOnly(s, j)

(* The invariant, of one control.                                            *)
LEMMA ControlKnown ==
  ASSUME ControlsInv, NEW t \in Tickets, NEW k \in ControlIDs
  PROVE  /\ ControlTypeOK /\ controls[t][k] \in ControlRecords /\ ledger[t][k] \in Receipts
         /\ receipts[t][k] \in Receipts /\ effects[t][k] \in 0..2
         /\ ControlOne(t, k) /\ BusyInv /\ StopSlotsReserved /\ ApartInv
BY DEF ControlsInv, ControlTypeOK

(* A step of one control keeps what it may not touch, if it does so for its  *)
(* own.                                                                      *)
LEMMA KeptByCell ==
  ASSUME ControlsInv, NEW t \in Tickets, NEW k \in ControlIDs, TablesOthersSame(t, k),
         Immutable(t, k), StopOnly(t, k), ControlsInv'
  PROVE  ControlKept
<1> SUFFICES ASSUME NEW s \in Tickets, NEW j \in ControlIDs, s # t \/ j # k
             PROVE  Immutable(s, j) /\ StopOnly(s, j)
  BY DEF ControlKept
<1>1. /\ controls'[s][j] = controls[s][j] /\ ledger'[s][j] = ledger[s][j]
      /\ receipts'[s][j] = receipts[s][j] /\ effects'[s][j] = effects[s][j]
  BY DEF TablesOthersSame, OthersSame
<1>2. effects[s][j] \in 0..2
  BY ControlKnown
<1>3. ~(effects'[s][j] > effects[s][j])
  BY <1>1, <1>2
<1> QED BY <1>1, <1>3 DEF Immutable, StopOnly

(* A coordinator step: the same, with what QuietControl asks for.            *)
LEMMA CoordinatorKept ==
  ASSUME ControlsInv, NEW t \in Tickets, NEW k \in ControlIDs,
         ControlTypeOK', TablesOthersSame(t, k), ControlOne(t, k)',
         UNCHANGED <<busy, controlsPending, plans, shutdownCommitted>>,
         InFlight(t, k), InFlight(t, k)', controls'[t][k].kind = controls[t][k].kind,
         ledger'[t][k] = "none" \/ ledger[t][k] # "none" \/ LedgerHasRoom(t, k),
         ledger[t][k] \notin {"none", "pending"} => ledger'[t][k] = ledger[t][k],
         receipts[t][k] \notin {"none", "pending"} => receipts'[t][k] = receipts[t][k]
  PROVE  ControlKept
<1>1. ControlsInv'
  BY QuietControl
<1>2. Immutable(t, k)
  BY DEF Immutable, InFlight
<1>3. StopOnly(t, k)
  BY ControlKnown DEF ApartInv, StopOnly
<1> QED BY <1>1, <1>2, <1>3, KeptByCell

(* Validation leaves no trace.                                               *)
LEMMA ValidateControlKept ==
  ASSUME ControlsInv, NEW t \in Tickets, NEW k \in ControlIDs, ValidateControl(t, k)
  PROVE  ControlKept
<1>1. /\ ControlTypeOK /\ controls[t][k] \in ControlRecords /\ controls[t][k].pc = "validate"
      /\ NoTrace(t, k) /\ ~controls[t][k].drop /\ controls[t][k].outcome = "pending"
  BY ControlKnown DEF ValidateControl, ControlOne, InFlight
<1>2. /\ UNCHANGED <<ledger, receipts, effects, busy>>
      /\ UNCHANGED <<controlsPending, plans, shutdownCommitted>>
  BY DEF ValidateControl, stateVars, fenceVars, planVars
<1>3. \/ CellIs(t, k, "recheck", controls[t][k].effect, controls[t][k].drop)
      \/ CellIs(t, k, "finish", "rejected", TRUE)
  BY <1>1, AdvanceCell, RejectCell DEF ValidateControl, ControlSteps
<1>4. ControlTypeOK' /\ TablesOthersSame(t, k)
  BY <1>1, <1>2, <1>3 DEF ControlTypeOK, TablesOthersSame, OthersSame, CellIs
<1>5. /\ controls'[t][k].pc \in {"recheck", "finish"} /\ controls'[t][k].outcome = "pending"
      /\ controls'[t][k].drop <=> controls'[t][k].pc = "finish"
      /\ controls'[t][k].kind = controls[t][k].kind
  BY <1>1, <1>3 DEF CellIs
<1>6. ControlOne(t, k)' /\ InFlight(t, k) /\ InFlight(t, k)'
  BY <1>1, <1>2, <1>5 DEF ControlOne, NoTrace, InFlight
<1> QED BY <1>1, <1>2, <1>4, <1>5, <1>6, CoordinatorKept DEF NoTrace

(* A reservation in the ledger takes a slot that Reserve found free.         *)
LEMMA ReserveLedgerKept ==
  ASSUME ControlsInv, NEW t \in Tickets, NEW k \in ControlIDs, ReserveLedger(t, k)
  PROVE  ControlKept
<1>1. /\ ControlTypeOK /\ controls[t][k] \in ControlRecords /\ controls[t][k].pc = "recheck"
      /\ NoTrace(t, k) /\ ~controls[t][k].drop /\ controls[t][k].outcome = "pending"
  BY ControlKnown DEF ReserveLedger, ControlOne, InFlight
<1>2. /\ UNCHANGED <<receipts, effects, busy>>
      /\ UNCHANGED <<controlsPending, plans, shutdownCommitted>>
  BY DEF ReserveLedger, stateVars, fenceVars, planVars
<1>3. CASE Advance(t, k, "reserve") /\ LedgerHasRoom(t, k) /\ ledger' = [ledger EXCEPT ![t][k] = "pending"]
  <2>1. CellIs(t, k, "reserve", controls[t][k].effect, controls[t][k].drop)
    BY <1>1, <1>3, AdvanceCell DEF ControlSteps
  <2>2. /\ ledger' \in [Tickets -> [ControlIDs -> Receipts]] /\ ledger'[t][k] = "pending"
        /\ OthersSame(ledger, ledger', t, k)
    BY <1>1, <1>3 DEF ControlTypeOK, OthersSame, Receipts
  <2>3. ControlTypeOK' /\ TablesOthersSame(t, k)
    BY <1>1, <1>2, <2>1, <2>2 DEF ControlTypeOK, TablesOthersSame, OthersSame, CellIs
  <2>4. /\ controls'[t][k].pc = "reserve" /\ controls'[t][k].outcome = "pending"
        /\ ~controls'[t][k].drop /\ controls'[t][k].kind = controls[t][k].kind
    BY <1>1, <2>1 DEF CellIs
  <2>5. ControlOne(t, k)' /\ InFlight(t, k) /\ InFlight(t, k)'
    BY <1>1, <1>2, <2>2, <2>4 DEF ControlOne, NoTrace, InFlight
  <2> QED BY <1>1, <1>2, <1>3, <2>3, <2>4, <2>5, CoordinatorKept DEF NoTrace
<1>4. CASE RejectControl(t, k) /\ UNCHANGED ledger
  <2>1. CellIs(t, k, "finish", "rejected", TRUE)
    BY <1>1, <1>4, RejectCell
  <2>3. ControlTypeOK' /\ TablesOthersSame(t, k)
    BY <1>1, <1>2, <1>4, <2>1 DEF ControlTypeOK, TablesOthersSame, OthersSame, CellIs
  <2>4. /\ controls'[t][k].pc = "finish" /\ controls'[t][k].outcome = "pending"
        /\ controls'[t][k].drop /\ controls'[t][k].kind = controls[t][k].kind
    BY <1>1, <2>1 DEF CellIs
  <2>5. ControlOne(t, k)' /\ InFlight(t, k) /\ InFlight(t, k)'
    BY <1>1, <1>2, <1>4, <2>4 DEF ControlOne, NoTrace, InFlight
  <2> QED BY <1>1, <1>2, <1>4, <2>3, <2>4, <2>5, CoordinatorKept DEF NoTrace
<1> QED BY <1>3, <1>4 DEF ReserveLedger

(* A rollback wipes the trace of a control that never became durable.        *)
LEMMA RollbackControlKept ==
  ASSUME ControlsInv, NEW t \in Tickets, NEW k \in ControlIDs, RollbackControl(t, k)
  PROVE  ControlKept
<1>1. /\ ControlTypeOK /\ controls[t][k] \in ControlRecords /\ controls[t][k].pc = "rollback"
      /\ ledger[t][k] = "pending" /\ receipts[t][k] = "none" /\ effects[t][k] = 0
      /\ controls[t][k].outcome = "pending"
  BY ControlKnown DEF RollbackControl, ControlOne, InFlight
<1>2. /\ UNCHANGED <<receipts, effects, busy>>
      /\ UNCHANGED <<controlsPending, plans, shutdownCommitted>>
      /\ RejectControl(t, k) /\ ledger' = [ledger EXCEPT ![t][k] = "none"]
  BY DEF RollbackControl, stateVars, fenceVars, planVars
<1>3. CellIs(t, k, "finish", "rejected", TRUE)
  BY <1>1, <1>2, RejectCell
<1>4. /\ ledger' \in [Tickets -> [ControlIDs -> Receipts]] /\ ledger'[t][k] = "none"
      /\ OthersSame(ledger, ledger', t, k)
  BY <1>1, <1>2 DEF ControlTypeOK, OthersSame, Receipts
<1>5. ControlTypeOK' /\ TablesOthersSame(t, k)
  BY <1>1, <1>2, <1>3, <1>4 DEF ControlTypeOK, TablesOthersSame, OthersSame, CellIs
<1>6. /\ controls'[t][k].pc = "finish" /\ controls'[t][k].outcome = "pending"
      /\ controls'[t][k].drop /\ controls'[t][k].kind = controls[t][k].kind
  BY <1>1, <1>3 DEF CellIs
<1>7. ControlOne(t, k)' /\ InFlight(t, k) /\ InFlight(t, k)'
  BY <1>1, <1>2, <1>4, <1>6 DEF ControlOne, NoTrace, InFlight
<1> QED BY <1>1, <1>2, <1>4, <1>5, <1>6, <1>7, CoordinatorKept

(* The durable intent, a definite failure, or an ambiguous answer.           *)
LEMMA ReserveControlKept ==
  ASSUME ControlsInv, NEW t \in Tickets, NEW k \in ControlIDs, ReserveControl(t, k)
  PROVE  ControlKept
<1>1. /\ ControlTypeOK /\ controls[t][k] \in ControlRecords /\ controls[t][k].pc = "reserve"
      /\ ledger[t][k] = "pending" /\ receipts[t][k] = "none" /\ effects[t][k] = 0
      /\ ~controls[t][k].drop /\ controls[t][k].outcome = "pending"
  BY ControlKnown DEF ReserveControl, ControlOne, InFlight
<1>2. /\ UNCHANGED <<ledger, effects, busy>>
      /\ UNCHANGED <<controlsPending, plans, shutdownCommitted>>
  BY DEF ReserveControl, stateVars, fenceVars, planVars
<1>3. \/ CellIs(t, k, "apply", controls[t][k].effect, controls[t][k].drop)
           /\ receipts' = [receipts EXCEPT ![t][k] = "pending"]
      \/ CellIs(t, k, "rollback", controls[t][k].effect, controls[t][k].drop) /\ UNCHANGED receipts
      \/ CellIs(t, k, "save", "unknown", controls[t][k].drop)
           /\ (UNCHANGED receipts \/ receipts' = [receipts EXCEPT ![t][k] = "pending"])
  <2>1. CASE Advance(t, k, "apply") /\ receipts' = [receipts EXCEPT ![t][k] = "pending"]
    BY <1>1, <2>1, AdvanceCell DEF ControlSteps
  <2>2. CASE Advance(t, k, "rollback") /\ UNCHANGED receipts
    BY <1>1, <2>2, AdvanceCell DEF ControlSteps
  <2>3. CASE EffectKnown(t, k, "unknown") /\ (UNCHANGED receipts \/ receipts' = [receipts EXCEPT ![t][k] = "pending"])
    <3>1. Tells(t, k, "save", "unknown")
      BY <2>3 DEF EffectKnown, Tells
    <3> QED BY <1>1, <2>3, <3>1, ToldCell DEF ControlSteps, Receipts
  <2> QED BY <2>1, <2>2, <2>3 DEF ReserveControl
<1>4. /\ receipts' \in [Tickets -> [ControlIDs -> Receipts]] /\ OthersSame(receipts, receipts', t, k)
      /\ receipts'[t][k] \in {"none", "pending"}
      /\ controls'[t][k].pc = "apply" => receipts'[t][k] = "pending"
      /\ controls'[t][k].pc = "rollback" => receipts'[t][k] = "none"
  <2>1. CASE UNCHANGED receipts
    BY <1>1, <1>3, <2>1 DEF ControlTypeOK, OthersSame, CellIs
  <2>2. CASE receipts' = [receipts EXCEPT ![t][k] = "pending"]
    <3>1. /\ receipts' \in [Tickets -> [ControlIDs -> Receipts]] /\ OthersSame(receipts, receipts', t, k)
          /\ receipts'[t][k] = "pending" /\ receipts' # receipts
      BY <1>1, <2>2 DEF ControlTypeOK, OthersSame, Receipts
    <3> QED BY <1>3, <3>1 DEF CellIs
  <2> QED BY <1>3, <2>1, <2>2
<1>5. ControlTypeOK' /\ TablesOthersSame(t, k)
  BY <1>1, <1>2, <1>3, <1>4 DEF ControlTypeOK, TablesOthersSame, OthersSame, CellIs
<1>6. /\ controls'[t][k].pc \in {"apply", "rollback", "save"} /\ controls'[t][k].outcome = "pending"
      /\ controls'[t][k].pc = "save" => controls'[t][k].effect = "unknown"
      /\ ~controls'[t][k].drop /\ controls'[t][k].kind = controls[t][k].kind
  BY <1>1, <1>3 DEF CellIs
<1>7. ControlOne(t, k)' /\ InFlight(t, k) /\ InFlight(t, k)'
  BY <1>1, <1>2, <1>4, <1>6 DEF ControlOne, EffectTold, InFlight
<1> QED BY <1>1, <1>2, <1>5, <1>6, <1>7, CoordinatorKept

(* The one step that may reach the child, from a control without effect.     *)
LEMMA ApplyControlKept ==
  ASSUME ControlsInv, NEW t \in Tickets, NEW k \in ControlIDs, ApplyControl(t, k)
  PROVE  ControlKept
<1>1. /\ ControlTypeOK /\ controls[t][k] \in ControlRecords /\ controls[t][k].pc = "apply"
      /\ ledger[t][k] = "pending" /\ receipts[t][k] = "pending" /\ effects[t][k] = 0
      /\ ~controls[t][k].drop /\ controls[t][k].outcome = "pending"
  BY ControlKnown DEF ApplyControl, ControlOne, InFlight
<1>2. /\ UNCHANGED <<ledger, receipts, busy>>
      /\ UNCHANGED <<controlsPending, plans, shutdownCommitted>>
  BY DEF ApplyControl, stateVars, fenceVars, planVars
<1> DEFINE performed == [effects EXCEPT ![t][k] = IF @ = 2 THEN 2 ELSE @ + 1]
<1>3. /\ performed \in [Tickets -> [ControlIDs -> 0..2]] /\ performed[t][k] = 1
      /\ OthersSame(effects, performed, t, k)
  BY <1>1 DEF ControlTypeOK, OthersSame
<1>4. \/ effects' = performed /\ EffectKnown(t, k, "delivered")
      \/ effects' \in {effects, performed} /\ EffectKnown(t, k, "unknown")
      \/ effects' = effects /\ EffectKnown(t, k, "rejected")
  BY DEF ApplyControl
<1> HIDE DEF performed
<1>5. PICK r \in {"delivered", "unknown", "rejected"} :
        /\ effects' = performed \/ effects' = effects
        /\ r = "delivered" => effects' = performed
        /\ r = "rejected" => effects' = effects
        /\ CellIs(t, k, "save", r, controls[t][k].drop)
  <2>1. ASSUME NEW r \in {"delivered", "unknown", "rejected"}, EffectKnown(t, k, r)
        PROVE  CellIs(t, k, "save", r, controls[t][k].drop)
    <3>1. Tells(t, k, "save", r)
      BY <2>1 DEF EffectKnown, Tells
    <3> QED BY <1>1, <3>1, ToldCell DEF ControlSteps, Receipts
  <2> QED BY <1>4, <2>1
<1>6. /\ effects' \in [Tickets -> [ControlIDs -> 0..2]] /\ OthersSame(effects, effects', t, k)
      /\ effects'[t][k] \in {0, 1}
      /\ r = "delivered" => effects'[t][k] = 1
      /\ r = "rejected" => effects'[t][k] = 0
  BY <1>1, <1>3, <1>5 DEF ControlTypeOK, OthersSame
<1>7. ControlTypeOK' /\ TablesOthersSame(t, k)
  BY <1>1, <1>2, <1>5, <1>6 DEF ControlTypeOK, TablesOthersSame, OthersSame, CellIs
<1>8. /\ controls'[t][k].pc = "save" /\ controls'[t][k].outcome = "pending"
      /\ controls'[t][k].effect = r
      /\ ~controls'[t][k].drop /\ controls'[t][k].kind = controls[t][k].kind
  BY <1>1, <1>5 DEF CellIs
<1>9. ControlOne(t, k)' /\ InFlight(t, k) /\ InFlight(t, k)'
  BY <1>1, <1>2, <1>6, <1>8 DEF ControlOne, EffectTold, InFlight
<1> QED BY <1>1, <1>2, <1>7, <1>8, <1>9, CoordinatorKept

(* The outcome is saved, or becomes unknown.                                 *)
LEMMA SaveControlKept ==
  ASSUME ControlsInv, NEW t \in Tickets, NEW k \in ControlIDs, SaveControl(t, k)
  PROVE  ControlKept
<1>1. /\ ControlTypeOK /\ controls[t][k] \in ControlRecords /\ controls[t][k].pc = "save"
      /\ EffectTold(t, k, controls[t][k].effect) /\ ledger[t][k] = "pending"
      /\ receipts[t][k] \in {"none", "pending"}
      /\ ~controls[t][k].drop /\ controls[t][k].outcome = "pending"
  BY ControlKnown DEF SaveControl, ControlOne, InFlight
<1>2. /\ UNCHANGED <<ledger, effects, busy>>
      /\ UNCHANGED <<controlsPending, plans, shutdownCommitted>>
  BY DEF SaveControl, stateVars, fenceVars, planVars
<1> DEFINE saved == [receipts EXCEPT ![t][k] = controls[t][k].effect]
<1>3. /\ saved \in [Tickets -> [ControlIDs -> Receipts]] /\ saved[t][k] = controls[t][k].effect
      /\ OthersSame(receipts, saved, t, k) /\ controls[t][k].effect # "none"
  BY <1>1 DEF ControlTypeOK, OthersSame, EffectTold, ControlRecords
<1>4. \/ receipts' = saved /\ Advance(t, k, "complete")
      \/ receipts' \in {receipts, saved} /\ Tells(t, k, "complete", "unknown")
  BY DEF SaveControl, Tells
<1> HIDE DEF saved
<1>5. PICK r \in {controls[t][k].effect, "unknown"} :
        /\ receipts' = saved \/ receipts' = receipts
        /\ r = "delivered" => receipts' = saved
        /\ CellIs(t, k, "complete", r, controls[t][k].drop)
  <2>1. CASE receipts' = saved /\ Advance(t, k, "complete")
    BY <1>1, <2>1, AdvanceCell DEF ControlSteps
  <2>2. CASE receipts' \in {receipts, saved} /\ Tells(t, k, "complete", "unknown")
    <3>1. CellIs(t, k, "complete", "unknown", controls[t][k].drop)
      BY <1>1, <2>2, ToldCell DEF ControlSteps, Receipts
    <3> QED BY <2>2, <3>1
  <2> QED BY <1>4, <2>1, <2>2
<1>6. /\ receipts' \in [Tickets -> [ControlIDs -> Receipts]] /\ OthersSame(receipts, receipts', t, k)
      /\ r = "delivered" => receipts'[t][k] = "delivered"
      /\ receipts[t][k] # "none" => receipts'[t][k] # "none"
  BY <1>1, <1>3, <1>5 DEF ControlTypeOK, OthersSame
<1>7. ControlTypeOK' /\ TablesOthersSame(t, k)
  BY <1>1, <1>2, <1>5, <1>6 DEF ControlTypeOK, TablesOthersSame, OthersSame, CellIs
<1>8. /\ controls'[t][k].pc = "complete" /\ controls'[t][k].outcome = "pending"
      /\ controls'[t][k].effect = r
      /\ ~controls'[t][k].drop /\ controls'[t][k].kind = controls[t][k].kind
  BY <1>1, <1>5 DEF CellIs
<1>9. ControlOne(t, k)' /\ InFlight(t, k) /\ InFlight(t, k)'
  <2>1. EffectTold(t, k, r)'
    BY <1>1, <1>2, <1>6 DEF EffectTold
  <2> QED BY <1>1, <1>2, <1>6, <1>8, <2>1 DEF ControlOne, EffectTold, InFlight
<1> QED BY <1>1, <1>2, <1>7, <1>8, <1>9, CoordinatorKept

(* The ledger takes the outcome over.                                        *)
LEMMA CompleteLedgerKept ==
  ASSUME ControlsInv, NEW t \in Tickets, NEW k \in ControlIDs, CompleteLedger(t, k)
  PROVE  ControlKept
<1>1. /\ ControlTypeOK /\ controls[t][k] \in ControlRecords /\ controls[t][k].pc = "complete"
      /\ EffectTold(t, k, controls[t][k].effect) /\ ledger[t][k] = "pending"
      /\ controls[t][k].effect = "delivered" => receipts[t][k] = "delivered"
      /\ ~controls[t][k].drop /\ controls[t][k].outcome = "pending"
  BY ControlKnown DEF CompleteLedger, ControlOne, InFlight
<1>2. /\ UNCHANGED <<receipts, effects, busy>>
      /\ UNCHANGED <<controlsPending, plans, shutdownCommitted>>
      /\ Advance(t, k, "finish") /\ ledger' = [ledger EXCEPT ![t][k] = controls[t][k].effect]
  BY <1>1 DEF CompleteLedger, stateVars, fenceVars, planVars
<1>3. CellIs(t, k, "finish", controls[t][k].effect, controls[t][k].drop)
  BY <1>1, <1>2, AdvanceCell DEF ControlSteps
<1>4. /\ ledger' \in [Tickets -> [ControlIDs -> Receipts]] /\ ledger'[t][k] = controls[t][k].effect
      /\ OthersSame(ledger, ledger', t, k)
  BY <1>1, <1>2 DEF ControlTypeOK, OthersSame, ControlRecords
<1>5. ControlTypeOK' /\ TablesOthersSame(t, k)
  BY <1>1, <1>2, <1>3, <1>4 DEF ControlTypeOK, TablesOthersSame, OthersSame, CellIs
<1>6. /\ controls'[t][k].pc = "finish" /\ controls'[t][k].outcome = "pending"
      /\ controls'[t][k].effect = controls[t][k].effect
      /\ ~controls'[t][k].drop /\ controls'[t][k].kind = controls[t][k].kind
  BY <1>1, <1>3 DEF CellIs
<1>7. ControlOne(t, k)' /\ InFlight(t, k) /\ InFlight(t, k)'
  <2>1. EffectTold(t, k, controls[t][k].effect)'
    BY <1>1, <1>2, <1>6 DEF EffectTold
  <2> QED BY <1>1, <1>2, <1>4, <1>6, <2>1 DEF ControlOne, InFlight
<1> QED BY <1>1, <1>2, <1>5, <1>6, <1>7, CoordinatorKept

-----------------------------------------------------------------------------
(* The admission and the end of a control.                                   *)

(* The empty ticket has the type of a ticket.                                *)
LEMMA NoControlTyped == NoControl \in ControlRecords
BY DEF NoControl, ControlRecords, ControlSteps, Receipts

(* Admission finds the run without a coordinator and no plan in flight.      *)
LEMMA AdmitControlKept ==
  ASSUME ControlsInv, ShutdownInv, NEW t \in Tickets, NEW k \in ControlIDs, NEW kind \in Kinds,
         Control(t, k, kind)
  PROVE  ControlKept
<1> DEFINE x == [NoControl EXCEPT !.pc = "validate", !.kind = kind, !.outcome = "pending"]
<1>1. /\ ControlTypeOK /\ controls[t][k].pc = "none" /\ NoTrace(t, k) /\ BusyInv /\ ApartInv
      /\ ~busy[t] /\ LifecycleAdmits(kind)
  BY ControlKnown DEF Control, ControlOne, CoordinatorFree
<1>2. /\ UNCHANGED <<ledger, receipts, effects>> /\ UNCHANGED <<plans, shutdownCommitted>>
      /\ controlsPending' = controlsPending + 1 /\ busy' = [busy EXCEPT ![t] = TRUE]
  BY DEF Control, fenceVars, planVars
<1>3. /\ x \in ControlRecords /\ x.pc = "validate" /\ x.kind = kind /\ x.outcome = "pending"
      /\ x.drop = FALSE
  BY NoControlTyped DEF NoControl, ControlRecords, ControlSteps, Receipts
<1>4. controls' = Set2(controls, t, k, x)
  BY DEF Control, Set2
<1> HIDE DEF x
<1>5. /\ controls' \in [Tickets -> [ControlIDs -> ControlRecords]] /\ controls'[t][k] = x
      /\ OthersSame(controls, controls', t, k)
  BY <1>1, <1>3, <1>4 DEF ControlTypeOK, Set2, OthersSame
<1>6. /\ busy' \in [Tickets -> BOOLEAN] /\ busy'[t] = TRUE
      /\ \A s \in Tickets \ {t} : busy'[s] = busy[s]
  BY <1>1, <1>2 DEF ControlTypeOK
<1>7. ControlTypeOK' /\ TablesOthersSame(t, k)
  BY <1>1, <1>2, <1>5, <1>6 DEF ControlTypeOK, TablesOthersSame, OthersSame
<1>8. ControlOne(t, k)' /\ ~InFlight(t, k) /\ InFlight(t, k)'
  BY <1>1, <1>2, <1>3, <1>5 DEF ControlOne, NoTrace, InFlight
<1>9. \A s \in Tickets, j \in ControlIDs :
        s # t \/ j # k => ControlOne(s, j)' /\ InFlight(s, j)' = InFlight(s, j)
  BY <1>7, OtherControl DEF ControlsInv
<1>10. BusyInv'
  <2>1. \A j \in ControlIDs : ~InFlight(t, j)
    BY <1>1 DEF BusyInv
  <2>2. controlsPending' = Cardinality(InFlightControls')
    <3>1. InFlightControls \ {<<t, k>>} = InFlightControls' \ {<<t, k>>}
      BY <1>9 DEF InFlightControls
    <3>2. <<t, k>> \notin InFlightControls /\ <<t, k>> \in InFlightControls'
      BY <1>8 DEF InFlightControls
    <3>3. Cardinality(InFlightControls') = Cardinality(InFlightControls) + 1
      BY <3>1, <3>2, CountChange, InFlightFinite
    <3> QED BY <1>1, <1>2, <3>3 DEF BusyInv
  <2>3. ASSUME NEW s \in Tickets
        PROVE  /\ \A j, l \in ControlIDs : InFlight(s, j)' /\ InFlight(s, l)' => j = l
               /\ busy'[s] <=> \E j \in ControlIDs : InFlight(s, j)'
    <3>1. CASE s = t
      BY <1>6, <1>8, <1>9, <2>1, <3>1
    <3>2. CASE s # t
      BY <1>1, <1>6, <1>9, <3>2 DEF BusyInv
    <3> QED BY <3>1, <3>2
  <2> QED BY <2>2, <2>3 DEF BusyInv
<1>11. StopSlotsReserved'
  BY <1>1, <1>2, <1>7, SlotsKept DEF ControlsInv, NoTrace
<1>12. ApartInv'
  <2>1. \A p \in Plans : ~InFlightPlan(p)'
    <3>1. \A p \in Plans : ~InFlightPlan(p)
      BY <1>1 DEF ShutdownInv, FenceInv, LifecycleAdmits
    <3> QED BY <1>2, <3>1 DEF InFlightPlan
  <2>2. ASSUME shutdownCommitted, NEW s \in Tickets, NEW j \in ControlIDs, InFlight(s, j)'
        PROVE  controls'[s][j].kind = "stop"
    <3>1. CASE s = t /\ j = k
      BY <1>1, <1>3, <1>5, <2>2, <3>1 DEF LifecycleAdmits
    <3>2. CASE s # t \/ j # k
      BY <1>1, <1>5, <1>9, <2>2, <3>2 DEF ApartInv, OthersSame
    <3> QED BY <3>1, <3>2
  <2> QED BY <1>2, <2>1, <2>2 DEF ApartInv
<1>13. ControlsInv'
  <2>1. \A s \in Tickets, j \in ControlIDs : ControlOne(s, j)'
    BY <1>8, <1>9
  <2> QED BY <1>7, <1>10, <1>11, <1>12, <2>1 DEF ControlsInv
<1>14. Immutable(t, k) /\ StopOnly(t, k)
  <2>1. effects[t][k] \in 0..2
    BY ControlKnown
  <2>2. ~(effects'[t][k] > effects[t][k])
    BY <1>2, <2>1
  <2> QED BY <1>1, <1>2, <2>2 DEF Immutable, StopOnly
<1> QED BY <1>7, <1>13, <1>14, KeptByCell

(* The end of a control frees its run; while it was in flight no plan was.   *)
LEMMA FinishControlKept ==
  ASSUME ControlsInv, NEW t \in Tickets, NEW k \in ControlIDs, FinishControl(t, k)
  PROVE  ControlKept
<1> DEFINE c == controls[t][k]
           d == [c EXCEPT !.pc = "done", !.outcome = c.effect]
           x == IF c.drop THEN NoControl ELSE d
<1>1. /\ ControlTypeOK /\ c \in ControlRecords /\ c.pc = "finish" /\ BusyInv /\ ApartInv
      /\ c.drop => NoTrace(t, k)
      /\ ~c.drop => /\ EffectTold(t, k, c.effect)
                    /\ c.effect = "delivered" => receipts[t][k] = "delivered" /\ ledger[t][k] = "delivered"
  BY ControlKnown DEF FinishControl, ControlOne
<1>2. /\ UNCHANGED <<ledger, receipts, effects>> /\ UNCHANGED <<plans, shutdownCommitted>>
      /\ controlsPending' = controlsPending - 1 /\ busy' = [busy EXCEPT ![t] = FALSE]
  BY DEF FinishControl, fenceVars, planVars
<1>3. /\ d \in ControlRecords /\ d.pc = "done" /\ d.kind = c.kind /\ d.outcome = c.effect
      /\ d.drop = c.drop
  BY <1>1 DEF ControlRecords, ControlSteps
<1>4. controls' = Set2(controls, t, k, x)
  BY DEF FinishControl, Set2
<1> HIDE DEF d
<1>5. x \in ControlRecords /\ x.pc \in {"none", "done"}
  BY <1>3, NoControlTyped DEF NoControl
<1> HIDE DEF x
<1>6. /\ controls' \in [Tickets -> [ControlIDs -> ControlRecords]] /\ controls'[t][k] = x
      /\ OthersSame(controls, controls', t, k)
  BY <1>1, <1>4, <1>5 DEF ControlTypeOK, Set2, OthersSame
<1>7. /\ busy' \in [Tickets -> BOOLEAN] /\ busy'[t] = FALSE
      /\ \A s \in Tickets \ {t} : busy'[s] = busy[s]
  BY <1>1, <1>2 DEF ControlTypeOK
<1>8. ControlTypeOK' /\ TablesOthersSame(t, k)
  BY <1>1, <1>2, <1>6, <1>7 DEF ControlTypeOK, TablesOthersSame, OthersSame
<1>9. ControlOne(t, k)' /\ InFlight(t, k) /\ ~InFlight(t, k)'
  <2>1. InFlight(t, k) /\ ~InFlight(t, k)'
    BY <1>1, <1>5, <1>6 DEF InFlight
  <2>2. CASE c.drop
    <3>1. controls'[t][k] = NoControl /\ NoTrace(t, k)'
      BY <1>1, <1>2, <1>6, <2>2 DEF x, NoTrace
    <3> QED BY <2>1, <3>1 DEF ControlOne, NoControl, InFlight
  <2>3. CASE ~c.drop
    <3>1. controls'[t][k] = d
      BY <1>6, <2>3 DEF x
    <3>2. /\ controls'[t][k].pc = "done" /\ controls'[t][k].outcome = c.effect
          /\ ~controls'[t][k].drop
      BY <1>3, <2>3, <3>1
    <3>3. EffectTold(t, k, controls[t][k].outcome)'
      BY <1>1, <1>2, <2>3, <3>2 DEF EffectTold
    <3> QED BY <1>1, <1>2, <2>1, <2>3, <3>2, <3>3 DEF ControlOne
  <2> QED BY <2>1, <2>2, <2>3
<1>10. \A s \in Tickets, j \in ControlIDs :
        s # t \/ j # k => ControlOne(s, j)' /\ InFlight(s, j)' = InFlight(s, j)
  BY <1>8, OtherControl DEF ControlsInv
<1>11. <<t, k>> \in InFlightControls /\ <<t, k>> \notin InFlightControls'
  BY <1>9 DEF InFlightControls
<1>12. BusyInv'
  <2>1. controlsPending' = Cardinality(InFlightControls')
    <3>1. InFlightControls \ {<<t, k>>} = InFlightControls' \ {<<t, k>>}
      BY <1>10 DEF InFlightControls
    <3>2. Cardinality(InFlightControls') = Cardinality(InFlightControls) - 1
      BY <1>11, <3>1, CountChange, InFlightFinite
    <3> QED BY <1>1, <1>2, <3>2 DEF BusyInv
  <2>2. ASSUME NEW s \in Tickets
        PROVE  /\ \A j, l \in ControlIDs : InFlight(s, j)' /\ InFlight(s, l)' => j = l
               /\ busy'[s] <=> \E j \in ControlIDs : InFlight(s, j)'
    <3>1. CASE s = t
      BY <1>1, <1>7, <1>9, <1>10, <3>1 DEF BusyInv
    <3>2. CASE s # t
      BY <1>1, <1>7, <1>10, <3>2 DEF BusyInv
    <3> QED BY <3>1, <3>2
  <2> QED BY <2>1, <2>2 DEF BusyInv
<1>13. StopSlotsReserved'
  <2>1. CASE c.drop
    BY <1>1, <1>2, <1>8, <2>1, SlotsKept DEF ControlsInv, NoTrace
  <2>2. CASE ~c.drop
    <3>1. controls'[t][k].kind = c.kind
      BY <1>3, <1>6, <2>2 DEF x
    <3> QED BY <1>2, <1>8, <3>1, SlotsKept DEF ControlsInv
  <2> QED BY <2>1, <2>2
<1>14. ApartInv'
  <2>1. \A p \in Plans : ~InFlightPlan(p)'
    <3>1. controlsPending # 0
      BY <1>1, <1>11, InFlightFinite, FS_EmptySet DEF BusyInv
    <3>2. \A p \in Plans : ~InFlightPlan(p)
      BY <1>1, <3>1 DEF ApartInv
    <3> QED BY <1>2, <3>2 DEF InFlightPlan
  <2>2. ASSUME shutdownCommitted, NEW s \in Tickets, NEW j \in ControlIDs, InFlight(s, j)'
        PROVE  controls'[s][j].kind = "stop"
    <3>1. s # t \/ j # k
      BY <1>9, <2>2
    <3> QED BY <1>1, <1>6, <1>10, <2>2, <3>1 DEF ApartInv, OthersSame
  <2> QED BY <1>2, <2>1, <2>2 DEF ApartInv
<1>15. ControlsInv'
  <2>1. \A s \in Tickets, j \in ControlIDs : ControlOne(s, j)'
    BY <1>9, <1>10
  <2> QED BY <1>8, <1>12, <1>13, <1>14, <2>1 DEF ControlsInv
<1>16. Immutable(t, k) /\ StopOnly(t, k)
  <2>1. effects[t][k] \in 0..2
    BY ControlKnown
  <2>2. ~(effects'[t][k] > effects[t][k])
    BY <1>2, <2>1
  <2> QED BY <1>1, <1>2, <2>2 DEF Immutable, StopOnly
<1> QED BY <1>8, <1>15, <1>16, KeptByCell

-----------------------------------------------------------------------------
(* Launches and shutdown next to the controls.                               *)

(* Nothing is counted when nothing is in flight.                             *)
LEMMA NoneInFlight ==
  ASSUME BusyInv, controlsPending = 0, NEW t \in Tickets, NEW k \in ControlIDs
  PROVE  ~InFlight(t, k)
<1>1. InFlightControls = {}
  BY InFlightFinite, FS_EmptySet DEF BusyInv
<1>2. InFlight(t, k) => <<t, k>> \in InFlightControls
  BY DEF InFlightControls
<1> QED BY <1>1, <1>2

(* The coordinator of a plan rewrites its own plan, which was in flight.     *)
LEMMA OwnPlanMoves ==
  ASSUME ShutdownInv, NEW p \in Plans, Plan(p)
  PROVE  InFlightPlan(p) /\ \A q \in Plans \ {p} : plans'[q] = plans[q]
<1>1. plans \in [Plans -> PlanRecords]
  BY DEF ShutdownInv, PlanTypeOK
<1>2. CASE ValidateChildren(p) \/ RecheckRevision(p) \/ ReserveShutdown(p) \/ SaveShutdown(p)
  BY <1>1, <1>2 DEF ValidateChildren, RecheckRevision, ReserveShutdown, SaveShutdown, FinishWith,
                    InFlightPlan
<1>3. ASSUME NEW t \in Tickets, CloseTerminal(p, t)
      PROVE  InFlightPlan(p) /\ \A q \in Plans \ {p} : plans'[q] = plans[q]
  BY <1>1, <1>3 DEF CloseTerminal, InFlightPlan
<1>4. CASE CommitShutdown(p) \/ finishShutdown(p)
  BY <1>1, <1>4 DEF CommitShutdown, finishShutdown, InFlightPlan
<1> QED BY <1>2, <1>3, <1>4 DEF Plan

(* No step outside control.go counts a control; a plan is confirmed, and a   *)
(* shutdown committed, only while none is in flight.                         *)
LEMMA LifecycleApart ==
  ASSUME LaunchInv, ShutdownInv, ApartInv, LifecycleNext
  PROVE  /\ UNCHANGED controlsPending
         /\ \A p \in Plans : InFlightPlan(p)' => InFlightPlan(p) \/ controlsPending = 0
         /\ shutdownCommitted' => shutdownCommitted \/ controlsPending = 0
<1>1. CASE UNCHANGED <<controlsPending, plans, shutdownCommitted>>
  BY <1>1 DEF InFlightPlan
<1>2. CASE LaunchPart \/ InitializeLifecycle \/ CancelShutdown \/ StopServing \/ ServeEnd
  <2>1. UNCHANGED <<controlsPending, plans, shutdownCommitted>>
    BY <1>2 DEF LaunchPart, InitializeLifecycle, CancelShutdown, StopServing, ServeEnd, AwaitIdle,
                CheckClean, RecordCleanShutdown, stateVars, fenceVars, planVars
  <2> QED BY <1>1, <2>1
<1>3. ASSUME NEW r \in {"ok", "error", "ambiguous"}, EpochStarted(r)
      PROVE  UNCHANGED <<controlsPending, plans, shutdownCommitted>>
  BY <1>3 DEF EpochStarted
<1>4. ASSUME NEW p \in Plans, PreviewShutdown(p)
      PROVE  UNCHANGED <<controlsPending, plans, shutdownCommitted>>
  BY <1>4 DEF PreviewShutdown, stateVars, fenceVars
<1>5. ASSUME NEW p \in Plans, ConfirmShutdown(p)
      PROVE  controlsPending = 0 /\ UNCHANGED <<controlsPending, shutdownCommitted>>
  BY <1>5, ConfirmedBinding DEF ConfirmShutdown, ShutdownInv
<1>6. ASSUME NEW p \in Plans, Plan(p)
      PROVE  /\ UNCHANGED controlsPending
             /\ \A q \in Plans : InFlightPlan(q)' => InFlightPlan(q) \/ controlsPending = 0
             /\ shutdownCommitted' => shutdownCommitted \/ controlsPending = 0
  <2>1. InFlightPlan(p) /\ \A q \in Plans \ {p} : plans'[q] = plans[q]
    BY <1>6, OwnPlanMoves
  <2>2. \A q \in Plans : InFlightPlan(q)' => InFlightPlan(q)
    BY <2>1 DEF InFlightPlan
  <2>3. controlsPending = 0
    BY <2>1 DEF ApartInv
  <2>4. UNCHANGED controlsPending
    <3>1. CASE ValidateChildren(p) \/ RecheckRevision(p) \/ ReserveShutdown(p) \/ SaveShutdown(p)
      BY <3>1 DEF ValidateChildren, RecheckRevision, ReserveShutdown, SaveShutdown, stateVars
    <3>2. ASSUME NEW t \in Tickets, CloseTerminal(p, t) PROVE UNCHANGED controlsPending
      BY <3>2 DEF CloseTerminal, stateVars
    <3>3. CASE CommitShutdown(p) \/ finishShutdown(p)
      BY <3>3 DEF CommitShutdown, finishShutdown
    <3> QED BY <1>6, <3>1, <3>2, <3>3 DEF Plan
  <2> QED BY <2>2, <2>3, <2>4
<1> QED BY <1>1, <1>2, <1>3, <1>4, <1>5, <1>6 DEF LifecycleNext, LifecycleStep

(* Launch coordination and shutdown preserve ControlsInv.                    *)
LEMMA LifecycleKeepsControls ==
  ASSUME LaunchInv, ShutdownInv, ControlsInv, [LifecycleNext]_lifecycleVars, UNCHANGED controlVars
  PROVE  ControlKept
<1>1. UNCHANGED <<controls, busy, ledger, receipts, effects>> /\ BusyInv /\ ApartInv
  BY DEF controlVars, ControlsInv
<1>2. /\ UNCHANGED controlsPending
      /\ \A p \in Plans : InFlightPlan(p)' => InFlightPlan(p) \/ controlsPending = 0
      /\ shutdownCommitted' => shutdownCommitted \/ controlsPending = 0
  <2>1. CASE UNCHANGED lifecycleVars
    BY <2>1 DEF lifecycleVars, stateVars, fenceVars, planVars, InFlightPlan
  <2> QED BY <1>1, <2>1, LifecycleApart
<1>3. ControlTypeOK'
  BY <1>1 DEF ControlsInv, ControlTypeOK
<1>4. ASSUME NEW t \in Tickets, NEW k \in ControlIDs
      PROVE  ControlOne(t, k)' /\ InFlight(t, k)' = InFlight(t, k)
  <2>1. ControlOne(t, k)
    BY ControlKnown
  <2> QED BY <1>1, <2>1 DEF ControlOne, NoTrace, EffectTold, NoControl, InFlight
<1>5. BusyInv'
  <2>1. InFlightControls' = InFlightControls
    BY <1>4 DEF InFlightControls
  <2> QED BY <1>1, <1>2, <1>4, <2>1 DEF BusyInv
<1>6. StopSlotsReserved'
  <2>1. \A t \in Tickets : NonLifecycle(t)' = NonLifecycle(t)
    BY <1>1 DEF NonLifecycle, LedgerUsed
  <2> QED BY <2>1 DEF ControlsInv, StopSlotsReserved
<1>7. ApartInv'
  <2>1. ASSUME NEW p \in Plans, InFlightPlan(p)' PROVE controlsPending' = 0
    BY <1>1, <1>2, <2>1 DEF ApartInv
  <2>2. ASSUME shutdownCommitted', NEW t \in Tickets, NEW k \in ControlIDs, InFlight(t, k)'
        PROVE  controls'[t][k].kind = "stop"
    <3>1. InFlight(t, k)
      BY <1>4, <2>2
    <3>2. shutdownCommitted
      BY <1>1, <1>2, <2>2, <3>1, NoneInFlight
    <3> QED BY <1>1, <3>1, <3>2 DEF ApartInv
  <2> QED BY <2>1, <2>2 DEF ApartInv
<1>8. ControlsInv'
  BY <1>3, <1>4, <1>5, <1>6, <1>7 DEF ControlsInv
<1>9. ASSUME NEW t \in Tickets, NEW k \in ControlIDs PROVE Immutable(t, k) /\ StopOnly(t, k)
  <2>1. effects[t][k] \in 0..2
    BY ControlKnown
  <2>2. ~(effects'[t][k] > effects[t][k])
    BY <1>1, <2>1
  <2> QED BY <1>1, <2>2 DEF Immutable, StopOnly
<1> QED BY <1>8, <1>9 DEF ControlKept

(* Every step of control.go preserves ControlsInv.                           *)
LEMMA ControlStepKept ==
  ASSUME ShutdownInv, ControlsInv, ControlStep
  PROVE  ControlKept
<1>1. ASSUME NEW t \in Tickets, NEW k \in ControlIDs, Perform(t, k) PROVE ControlKept
  BY <1>1, ValidateControlKept, ReserveLedgerKept, ReserveControlKept, RollbackControlKept,
     ApplyControlKept, SaveControlKept, CompleteLedgerKept, FinishControlKept DEF Perform
<1> QED BY <1>1, AdmitControlKept DEF ControlStep

(* The controls leave the plans, the fences and the end of Serve alone.      *)
LEMMA ControlKeepsShutdown ==
  ASSUME ShutdownInv, ControlsInv, ControlStep, ControlsInv'
  PROVE  ShutdownInv'
<1>1. UNCHANGED launchVars
  BY ControlLeavesLaunches
<1>2. /\ UNCHANGED <<fenceVars, plans, closed, life, serve>>
      /\ UNCHANGED revisionVars \/ changedLocked(disabled)
  <2>1. ASSUME NEW t \in Tickets, NEW k \in ControlIDs, Perform(t, k)
        PROVE  /\ UNCHANGED <<fenceVars, plans, closed, life, serve>>
               /\ UNCHANGED revisionVars \/ changedLocked(disabled)
    <3>1. CASE FinishControl(t, k)
      BY <3>1 DEF FinishControl, planVars
    <3>2. CASE ~FinishControl(t, k)
      BY <2>1, <3>2 DEF Perform, ValidateControl, ReserveLedger, ReserveControl, RollbackControl,
                        ApplyControl, SaveControl, CompleteLedger, stateVars, planVars
    <3> QED BY <3>1, <3>2
  <2>2. ASSUME NEW t \in Tickets, NEW k \in ControlIDs, NEW kind \in Kinds, Control(t, k, kind)
        PROVE  /\ UNCHANGED <<fenceVars, plans, closed, life, serve>>
               /\ UNCHANGED revisionVars \/ changedLocked(disabled)
    BY <2>2 DEF Control, planVars
  <2> QED BY <2>1, <2>2 DEF ControlStep
<1>3. RevisionTypeOK' /\ (disabled => disabled')
  <2>1. RevisionTypeOK /\ disabled \in BOOLEAN
    BY DEF ShutdownInv, RevisionTypeOK
  <2> QED BY <1>2, <2>1, RevisionType, DisabledStays
<1>4. controlsPending' \in Nat
  <2>1. InFlightControls' \subseteq Tickets \X ControlIDs
    BY DEF InFlightControls
  <2>2. IsFiniteSet(InFlightControls')
    BY <2>1, FS_Product, FS_Subset, ConstantsAssumption, ControlAssumption
  <2> QED BY <2>2, FS_CardinalityType DEF ControlsInv, BusyInv
<1> QED BY <1>1, <1>2, <1>3, <1>4, ShutdownFrame

-----------------------------------------------------------------------------
(* The invariant of the composed owner.                                      *)

RuntimeInv == LaunchInv /\ OutcomesInv /\ ShutdownInv /\ ControlsInv

(* The invariant holds of a fresh owner.                                     *)
LEMMA ControlsInvInit == RuntimeInit => RuntimeInv
<1> SUFFICES ASSUME RuntimeInit PROVE RuntimeInv
  OBVIOUS
<1>1. /\ LaunchInv /\ OutcomesInv /\ ShutdownInv
      /\ controlsPending = 0 /\ shutdownCommitted = FALSE
  BY ShutdownInvInit DEF RuntimeInit, LifecycleInit, StateInit
<1>2. /\ \A t \in Tickets, k \in ControlIDs :
           /\ controls[t][k] = NoControl /\ ledger[t][k] = "none"
           /\ receipts[t][k] = "none" /\ effects[t][k] = 0
      /\ \A t \in Tickets : busy[t] = FALSE
  BY DEF RuntimeInit, ControlInit
<1>3. ControlTypeOK
  <2>1. "none" \in Receipts /\ 0 \in 0..2
    BY DEF Receipts
  <2> QED BY <2>1, NoControlTyped DEF RuntimeInit, ControlInit, ControlTypeOK
<1>4. \A t \in Tickets, k \in ControlIDs : ~InFlight(t, k)
  BY <1>2 DEF InFlight, NoControl
<1>5. ASSUME NEW t \in Tickets, NEW k \in ControlIDs PROVE ControlOne(t, k)
  <2>1. controls[t][k] = NoControl /\ NoTrace(t, k) /\ ~InFlight(t, k)
    BY <1>2, <1>4 DEF NoTrace
  <2>2. NoControl.pc = "none" /\ NoControl.drop = FALSE
    BY DEF NoControl
  <2> QED BY <2>1, <2>2 DEF ControlOne
<1>6. BusyInv
  <2>1. InFlightControls = {}
    BY <1>4 DEF InFlightControls
  <2> QED BY <1>1, <1>2, <1>4, <2>1, FS_EmptySet DEF BusyInv
<1>7. StopSlotsReserved
  <2>1. \A t \in Tickets : NonLifecycle(t) = {}
    BY <1>2 DEF NonLifecycle, LedgerUsed
  <2> QED BY <2>1, FS_EmptySet, ControlAssumption DEF StopSlotsReserved
<1>8. ApartInv
  BY <1>1, <1>4 DEF ApartInv
<1> QED BY <1>1, <1>3, <1>5, <1>6, <1>7, <1>8 DEF RuntimeInv, ControlsInv

(* The invariant is inductive.                                               *)
LEMMA RuntimeInvStep ==
  ASSUME RuntimeInv, [RuntimeNext]_runtimeVars
  PROVE  RuntimeInv' /\ ControlKept
<1>1. LaunchInv /\ OutcomesInv /\ ShutdownInv /\ ControlsInv
  BY DEF RuntimeInv
<1>2. CASE [LifecycleNext]_lifecycleVars /\ UNCHANGED controlVars
  <2>1. LaunchInv' /\ OutcomeKept /\ ShutdownInv' /\ ControlKept
    BY <1>1, <1>2, LifecycleKeepsLaunches, ShutdownInvStep, LifecycleKeepsControls
  <2> QED BY <2>1 DEF RuntimeInv, OutcomeKept, ControlKept
<1>3. CASE ControlStep
  <2>1. UNCHANGED launchVars
    BY <1>3, ControlLeavesLaunches
  <2>2. LaunchInv' /\ OutcomeKept
    BY <1>1, <2>1, LaunchInvFrame, OutcomeStutter
  <2>3. ControlKept
    BY <1>1, <1>3, ControlStepKept
  <2>4. ControlsInv'
    BY <2>3 DEF ControlKept
  <2>5. ShutdownInv'
    BY <1>1, <1>3, <2>4, ControlKeepsShutdown
  <2> QED BY <2>2, <2>3, <2>4, <2>5 DEF RuntimeInv, OutcomeKept
<1> QED BY <1>2, <1>3 DEF RuntimeNext, runtimeVars

(* The four invariants hold together of the composed owner: launches, plans, *)
(* controls and the end of Serve, interleaved in any way.                    *)
THEOREM RuntimeInvariant == RuntimeSpec => []RuntimeInv
<1>1. RuntimeInv /\ [RuntimeNext]_runtimeVars => RuntimeInv'
  BY RuntimeInvStep
<1> QED BY <1>1, ControlsInvInit, PTL DEF RuntimeSpec

-----------------------------------------------------------------------------
(* What the invariant says of controls.                                      *)

(* The controls in flight, counted as the code counts them.                  *)
LEMMA AccountingByInv == RuntimeInv => ControlAccounting
<1> SUFFICES ASSUME RuntimeInv PROVE ControlAccounting
  OBVIOUS
<1>1. BusyInv
  BY DEF RuntimeInv, ControlsInv
<1>2. ASSUME NEW t \in Tickets PROVE Cardinality({k \in ControlIDs : InFlight(t, k)}) <= 1
  <2> DEFINE flying == {k \in ControlIDs : InFlight(t, k)}
  <2>1. \A j, k \in flying : j = k
    BY <1>1 DEF BusyInv
  <2> HIDE DEF flying
  <2>2. CASE flying = {}
    BY <2>2, FS_EmptySet DEF flying
  <2>3. CASE flying # {}
    <3>1. PICK k \in flying : TRUE
      BY <2>3
    <3>2. flying = {k}
      BY <2>1, <3>1
    <3>3. Cardinality({k}) = 1
      BY FS_Singleton
    <3> QED BY <3>2, <3>3 DEF flying
  <2> QED BY <2>2, <2>3
<1> QED BY <1>1, <1>2 DEF ControlAccounting, BusyInv, InFlightControls

(* What each control may have done by the time anyone can see it.            *)
LEMMA EffectsByInv ==
  ASSUME RuntimeInv, NEW t \in Tickets, NEW k \in ControlIDs
  PROVE  /\ effects[t][k] <= 1
         /\ effects[t][k] > 0 => receipts[t][k] # "none"
         /\ controls[t][k].outcome = "delivered" =>
              effects[t][k] = 1 /\ receipts[t][k] = "delivered" /\ ledger[t][k] = "delivered"
         /\ controls[t][k].outcome = "rejected" => effects[t][k] = 0
<1>1. ControlOne(t, k) /\ controls[t][k] \in ControlRecords /\ effects[t][k] \in 0..2
  BY ControlKnown DEF RuntimeInv
<1>2. CASE controls[t][k].pc = "none"
  <2>1. controls[t][k].outcome = "none" /\ effects[t][k] = 0
    BY <1>1, <1>2 DEF ControlOne, NoTrace, NoControl
  <2> QED BY <2>1
<1>3. CASE controls[t][k].pc = "done"
  BY <1>1, <1>3 DEF ControlOne, EffectTold
<1>4. CASE controls[t][k].pc \notin {"none", "done"}
  <2>1. controls[t][k].outcome = "pending"
    BY <1>1, <1>4 DEF ControlOne, InFlight
  <2>2. controls[t][k].pc \in {"validate", "recheck", "reserve", "rollback", "apply", "save",
                               "complete", "finish"}
    BY <1>1, <1>4 DEF ControlRecords, ControlSteps
  <2>3. effects[t][k] <= 1 /\ (effects[t][k] > 0 => receipts[t][k] # "none")
    BY <1>1, <2>2 DEF ControlOne, NoTrace, EffectTold
  <2> QED BY <2>1, <2>3
<1> QED BY <1>2, <1>3, <1>4

(* control.go keeps its accounting: one coordinator per run, the reserved    *)
(* receipts of stop untouched, durable intent before every effect.           *)
THEOREM ControlsHold == RuntimeSpec => []ControlInv
<1>1. RuntimeInv => ControlInv
  <2> SUFFICES ASSUME RuntimeInv PROVE ControlInv
    OBVIOUS
  <2>1. RuntimeTypeOK
    BY DEF RuntimeInv, RuntimeTypeOK, TypeOK, LaunchInv, ShutdownInv, PlanTypeOK, ControlsInv,
           ControlTypeOK
  <2>2. EffectAfterDurableIntent
    BY EffectsByInv DEF EffectAfterDurableIntent
  <2> QED BY <2>1, <2>2, AccountingByInv DEF ControlInv, RuntimeInv, ControlsInv
<1> QED BY <1>1, RuntimeInvariant, PTL

(* performControl never applies a control request id twice, whatever was     *)
(* rejected, rolled back, retried or answered ambiguously before.            *)
THEOREM EffectsAtMostOnce == RuntimeSpec => []AtMostOneEffect
<1>1. RuntimeInv => AtMostOneEffect
  BY EffectsByInv DEF AtMostOneEffect
<1> QED BY <1>1, RuntimeInvariant, PTL

(* The receipt a caller reads tells what happened to the child.              *)
THEOREM ReceiptsAreTruthful == RuntimeSpec => []ReceiptsTruthful
<1>1. RuntimeInv => ReceiptsTruthful
  BY EffectsByInv DEF ReceiptsTruthful
<1> QED BY <1>1, RuntimeInvariant, PTL

(* confirmShutdown and Control exclude each other: no control is in flight   *)
(* between the confirmation of a plan and its commit.                        *)
THEOREM PlansExcludeControls == RuntimeSpec => []PlanExcludesControls
<1>1. RuntimeInv => PlanExcludesControls
  BY DEF RuntimeInv, ControlsInv, ApartInv, InFlightPlan, PlanExcludesControls
<1> QED BY <1>1, RuntimeInvariant, PTL

(* Tickets, ledgers and receipts.json never revise a terminal receipt.       *)
THEOREM ReceiptsStay == RuntimeSpec => ReceiptsImmutable
<1> DEFINE A == \A t \in Tickets, k \in ControlIDs : Immutable(t, k)
<1>1. RuntimeInv /\ [RuntimeNext]_runtimeVars => [A]_runtimeVars
  BY RuntimeInvStep DEF ControlKept
<1>2. [][A]_runtimeVars => ReceiptsImmutable
  BY DEF ReceiptsImmutable, Immutable
<1> QED BY <1>1, <1>2, RuntimeInvariant, PTL DEF RuntimeSpec

(* After CommitShutdown no input and no resize reaches any child, also none  *)
(* that was admitted before.                                                 *)
THEOREM StopAloneAfterCommit == RuntimeSpec => OnlyStopAfterCommit
<1> DEFINE A == \A t \in Tickets, k \in ControlIDs : StopOnly(t, k)
<1>1. RuntimeInv /\ [RuntimeNext]_runtimeVars => [A]_runtimeVars
  BY RuntimeInvStep DEF ControlKept
<1>2. [][A]_runtimeVars => OnlyStopAfterCommit
  BY DEF OnlyStopAfterCommit, StopOnly
<1> QED BY <1>1, <1>2, RuntimeInvariant, PTL DEF RuntimeSpec

-----------------------------------------------------------------------------
(* What carries over from launches and shutdown to the composed owner.       *)

(* The launch invariant holds of the composed owner: shutdown plans, the     *)
(* epoch marker, controls and the end of Serve cannot break it.              *)
THEOREM RuntimeLaunchInvariant == RuntimeSpec => []LaunchInv
<1>1. RuntimeInv => LaunchInv
  BY DEF RuntimeInv
<1> QED BY <1>1, RuntimeInvariant, PTL

(* Also with shutdowns and controls going on, never more than MaxActiveRuns  *)
(* children run or may run.                                                  *)
THEOREM RuntimeChildrenBounded == RuntimeSpec => []ChildrenBounded
<1>1. RuntimeInv => ChildrenBounded
  BY BoundedByInv DEF RuntimeInv
<1> QED BY <1>1, RuntimeInvariant, PTL

(* The counters AwaitIdle reads before Serve returns mean what PublishClean- *)
(* Shutdown needs, whatever plans and controls did.                          *)
THEOREM RuntimeIdleIsReconciled == RuntimeSpec => []IdleMeansReconciled
<1>1. RuntimeInv => IdleMeansReconciled
  BY IdleByInv DEF RuntimeInv
<1> QED BY <1>1, RuntimeInvariant, PTL

(* With controls in play too, the clean marker is true and the confirmed     *)
(* roster names every process.                                               *)
THEOREM RuntimeShutdownHolds == RuntimeSpec => [](CleanMeansReconciled /\ ConfirmedRosterComplete)
<1>1. RuntimeInv => CleanMeansReconciled /\ ConfirmedRosterComplete
  BY CleanByInv, RosterByInv DEF RuntimeInv
<1> QED BY <1>1, RuntimeInvariant, PTL
=============================================================================
