------------------------- MODULE RuntimeOutcomeProofs -------------------------
(*****************************************************************************)
(* Proofs about what a launch leaves behind: its result, its run, its        *)
(* snapshot in execution.json and its recovery record.                       *)
(*                                                                           *)
(* The argument: the run is a copy of the started descriptor until reconcile *)
(* knows the exit, success is only told after an accepted save, SaveLaunch   *)
(* never replaces an exited or an uncertain snapshot by a weaker one, and a  *)
(* save that returned no error left exactly the run in the journal.          *)
(*****************************************************************************)
EXTENDS RuntimeLaunchProofs

-----------------------------------------------------------------------------
(* What outlives the process.                                                *)

(* What the journal, the run and the ticket of one launch know of each other *)
(* between two steps: the run copies the started descriptor, success follows *)
(* an accepted save, and a save that returned no error left exactly the run. *)
OutcomeInv(t) ==
  /\ runs[t].pc = "absent" => runs[t] = AbsentRun
  /\ ~tk[t].starting \/ tk[t].pc = "reserve" => journal[t] = NoSnapshot
  /\ runs[t].pc = "owned" => /\ runs[t].state = tk[t].descriptor.state
                             /\ runs[t].uncertain = tk[t].descriptor.uncertain
  /\ runs[t].pc \in {"owned", "wait"} => ~runs[t].exitKnown
  /\ runs[t].uncertain => ~runs[t].published
  /\ runs[t].exitKnown <=> runs[t].state = "exited"
  /\ tk[t].pc \in {"attach", "publish", "complete"} => tk[t].err \in {"none", "unknown"}
  /\ tk[t].pc = "complete" /\ tk[t].err = "none" => journal[t].state = "live"
  /\ tk[t].complete /\ ~tk[t].aborted /\ tk[t].err = "none" =>
       /\ tk[t].result = Snapshot("live", FALSE)
       /\ runs[t].state \in {"live", "exited"} /\ journal[t].state \in {"live", "exited"}
  /\ runs[t].pc = "recover" => runs[t].exitKnown /\ ~runs[t].saveErr
  /\ runs[t].pc \in {"recover", "finish"} /\ ~runs[t].saveErr =>
       journal[t] = Snapshot(runs[t].state, runs[t].uncertain)
  /\ runs[t].pc = "done" /\ ~runs[t].uncertain => journal[t] = Snapshot(runs[t].state, FALSE)
  /\ t \in recovery =>
       runs[t].pc \in {"finish", "done"} /\ runs[t].exitKnown /\ journal[t].state = "exited"

OutcomesInv == \A t \in Tickets : OutcomeInv(t)

(* What a step may never take back of one launch.                            *)
Latched(t) ==
  /\ runs[t].uncertain => runs'[t].uncertain /\ ~runs'[t].published
  /\ journal[t].uncertain => journal'[t].uncertain
  /\ journal[t].state = "exited" => journal'[t].state = "exited"

(* A step that leaves one launch alone.                                      *)
Untouched(s) ==
  /\ tk'[s] = tk[s] /\ runs'[s] = runs[s] /\ journal'[s] = journal[s]
  /\ s \in recovery' <=> s \in recovery

OnlyTouches(t) == \A s \in Tickets \ {t} : Untouched(s)

(* A step of the callers of one launch: only its waiters and the marks they  *)
(* leave when they give up.                                                  *)
SameOutcome(s) ==
  /\ tk'[s].pc = tk[s].pc /\ tk'[s].starting = tk[s].starting
  /\ tk'[s].complete = tk[s].complete /\ tk'[s].aborted = tk[s].aborted
  /\ tk'[s].err = tk[s].err /\ tk'[s].descriptor = tk[s].descriptor
  /\ tk'[s].result = tk[s].result

(* A launch whose outcome is not touched keeps what is known of it.          *)
LEMMA OutcomeFrame ==
  ASSUME NEW s \in Tickets, OutcomeInv(s), runs \in [Tickets -> RunRecords],
         SameOutcome(s), runs'[s] = runs[s], journal'[s] = journal[s],
         s \in recovery' <=> s \in recovery
  PROVE  OutcomeInv(s)' /\ Latched(s)
<1>1. OutcomeInv(s)'
  <2>1. s \in recovery' => s \in recovery
    OBVIOUS
  <2> QED BY <2>1 DEF OutcomeInv, SameOutcome, AbsentRun, Snapshot, NoSnapshot
<1>2. Latched(s)
  BY DEF Latched, OutcomeInv
<1> QED BY <1>1, <1>2

(* A launch whose records do not change keeps its outcome.                   *)
LEMMA UntouchedSame == ASSUME NEW s \in Tickets, Untouched(s) PROVE SameOutcome(s)
BY DEF Untouched, SameOutcome

(* A step that touches one launch keeps what is known of the others.         *)
LEMMA OutcomeOthers ==
  ASSUME LaunchInv, OutcomesInv, NEW t \in Tickets, OnlyTouches(t), OutcomeInv(t)', Latched(t)
  PROVE  OutcomesInv' /\ \A s \in Tickets : Latched(s)
<1>1. ASSUME NEW s \in Tickets PROVE OutcomeInv(s)' /\ Latched(s)
  <2>1. CASE s # t
    <3>1. Untouched(s) /\ OutcomeInv(s) /\ runs \in [Tickets -> RunRecords]
      BY <2>1, Known DEF OnlyTouches, OutcomesInv
    <3> QED BY <3>1, OutcomeFrame, UntouchedSame DEF Untouched
  <2> QED BY <2>1
<1> QED BY <1>1 DEF OutcomesInv

(* What is known of a launch before one of its steps.                        *)
LEMMA OutcomeKnown ==
  ASSUME LaunchInv, OutcomesInv, NEW t \in Tickets
  PROVE  /\ tk \in [Tickets -> TicketRecords] /\ tk[t] \in TicketRecords
         /\ runs \in [Tickets -> RunRecords] /\ runs[t] \in RunRecords
         /\ journal \in [Tickets -> Snapshots] /\ journal[t] \in Snapshots
         /\ recovery \subseteq Tickets /\ TicketInv(t) /\ OutcomeInv(t)
BY Known DEF OutcomesInv, LaunchInv, LaunchTypeOK

OutcomeKept == OutcomesInv' /\ \A s \in Tickets : Latched(s)

(* The journal entry of a launch stays, is the first one, or replaces one    *)
(* SaveLaunch lets it replace.                                               *)
JournalMoves(t) ==
  \/ journal'[t] = journal[t]
  \/ journal[t] = NoSnapshot
  \/ SaveLaunchAccepts(journal[t], journal'[t])

(* A step of a coordinator that has no run yet.                              *)
LEMMA OutcomeWithoutRun ==
  ASSUME LaunchInv, OutcomesInv, NEW t \in Tickets, OthersKept(t), UNCHANGED <<runs, recovery>>,
         \A s \in Tickets \ {t} : journal'[s] = journal[s], JournalMoves(t),
         runs[t].pc = "absent", tk'[t].pc \notin {"publish", "complete"},
         tk'[t].pc = "attach" => tk'[t].err \in {"none", "unknown"},
         ~(tk'[t].complete /\ ~tk'[t].aborted /\ tk'[t].err = "none"),
         ~tk'[t].starting \/ tk'[t].pc = "reserve" => journal'[t] = NoSnapshot
  PROVE  OutcomeKept
<1>1. runs[t] = AbsentRun /\ runs'[t] = AbsentRun /\ t \notin recovery'
  BY OutcomeKnown DEF OutcomeInv
<1>2. /\ runs'[t].pc = "absent" /\ ~runs'[t].exitKnown /\ runs'[t].state # "exited"
      /\ ~runs'[t].uncertain /\ ~runs[t].uncertain
  BY <1>1 DEF AbsentRun
<1>3. OutcomeInv(t)'
  BY <1>1, <1>2 DEF OutcomeInv, AbsentRun, NoSnapshot
<1>4. Latched(t)
  BY <1>2 DEF Latched, JournalMoves, SaveLaunchAccepts, NoSnapshot
<1>5. OnlyTouches(t)
  BY DEF OnlyTouches, Untouched, OthersKept
<1> QED BY <1>3, <1>4, <1>5, OutcomeOthers DEF OutcomeKept

(* The coordinator of a launch, step by step: nothing is journalled before   *)
(* the reservation.                                                          *)
LEMMA ValidateTargetOutcome ==
  ASSUME LaunchInv, OutcomesInv, NEW t \in Tickets, ValidateTarget(t)
  PROVE  OutcomeKept
<1>1. /\ tk[t].pc = "validate" /\ ~tk[t].starting /\ ~tk[t].complete /\ runs[t].pc = "absent"
      /\ journal[t] = NoSnapshot
  BY OutcomeKnown DEF ValidateTarget, TicketInv, OutcomeInv
<1>2. OthersKept(t) /\ TicketKeeps(t) /\ tk'[t].pc \in {"validated", "failing"}
  <2>1. CASE Goto(t, "validated")
    BY <2>1, Known, TicketGoes DEF CoordinatorSteps
  <2>2. CASE FailWith(t, "error")
    BY <2>2, Known, TicketMoves DEF FailWith, CoordinatorSteps, Errors
  <2> QED BY <2>1, <2>2 DEF ValidateTarget
<1>3. UNCHANGED <<runs, journal, recovery>>
  BY DEF ValidateTarget
<1> QED BY <1>1, <1>2, <1>3, OutcomeWithoutRun DEF TicketKeeps, JournalMoves

(* commitStart fixes the reserved descriptor.                                *)
LEMMA CommitStartOutcome ==
  ASSUME LaunchInv, OutcomesInv, NEW t \in Tickets, CommitStart(t)
  PROVE  OutcomeKept
<1>1. /\ tk[t].pc = "validated" /\ ~tk[t].starting /\ ~tk[t].complete /\ runs[t].pc = "absent"
      /\ journal[t] = NoSnapshot /\ tk[t] \in TicketRecords /\ tk \in [Tickets -> TicketRecords]
  BY OutcomeKnown DEF CommitStart, TicketInv, OutcomeInv
<1>2. OthersKept(t) /\ tk'[t].pc \in {"reserve", "failing"} /\ ~tk'[t].complete
  <2>1. CASE tk[t].canceled
    BY <1>1, <2>1, TicketMoves DEF CommitStart, FailWith, CoordinatorSteps, Errors, TicketKeeps
  <2>2. CASE ~tk[t].canceled
    <3> DEFINE d == Snapshot("reserved", FALSE)
               x == [tk[t] EXCEPT !.pc = "reserve", !.starting = TRUE, !.descriptor = d]
    <3>1. tk' = [tk EXCEPT ![t] = x]
      BY <2>2 DEF CommitStart
    <3> HIDE DEF d
    <3>2. x.pc = "reserve" /\ x.complete = tk[t].complete
      BY <1>1 DEF TicketRecords
    <3> HIDE DEF x
    <3> QED BY <1>1, <3>1, <3>2 DEF OthersKept
  <2> QED BY <2>1, <2>2
<1>3. UNCHANGED <<runs, journal, recovery>>
  BY DEF CommitStart
<1> QED BY <1>1, <1>2, <1>3, OutcomeWithoutRun DEF JournalMoves

(* The reservation puts that descriptor in the journal, or not.              *)
LEMMA ReserveLaunchOutcome ==
  ASSUME LaunchInv, OutcomesInv, NEW t \in Tickets, ReserveLaunch(t)
  PROVE  OutcomeKept
<1>1. /\ tk[t].pc = "reserve" /\ tk[t].starting /\ ~tk[t].complete /\ runs[t].pc = "absent"
      /\ journal[t] = NoSnapshot /\ journal \in [Tickets -> Snapshots]
  BY OutcomeKnown DEF ReserveLaunch, TicketInv, OutcomeInv, RunRecords, RunSteps
<1>2. OthersKept(t) /\ TicketKeeps(t) /\ tk'[t].pc \in {"start", "failing"}
  <2>1. CASE Goto(t, "start")
    BY <2>1, Known, TicketGoes DEF CoordinatorSteps
  <2>2. CASE FailWith(t, "error")
    BY <2>2, Known, TicketMoves DEF FailWith, CoordinatorSteps, Errors
  <2> QED BY <2>1, <2>2 DEF ReserveLaunch
<1>3. UNCHANGED <<runs, recovery>> /\ \A s \in Tickets \ {t} : journal'[s] = journal[s]
  BY <1>1 DEF ReserveLaunch
<1> QED BY <1>1, <1>2, <1>3, OutcomeWithoutRun DEF TicketKeeps, JournalMoves

(* The launcher is called; the journal stays.                                *)
LEMMA StartOutcome ==
  ASSUME LaunchInv, OutcomesInv, NEW t \in Tickets, Start(t)
  PROVE  OutcomeKept
<1>1. /\ tk[t].pc = "start" /\ tk[t].starting /\ ~tk[t].complete /\ runs[t].pc = "absent"
  BY OutcomeKnown DEF Start, TicketInv, OutcomeInv, RunRecords, RunSteps
<1>2. /\ OthersKept(t) /\ TicketKeeps(t) /\ tk'[t].pc \in {"attach", "failing"}
      /\ tk'[t].pc = "attach" => tk'[t].err \in {"none", "unknown"}
  <2>1. CASE \E e \in {"none", "unknown"} :
               tk' = [tk EXCEPT ![t] = [@ EXCEPT !.pc = "attach", !.err = e]]
    BY <2>1, Known, TicketMoves DEF CoordinatorSteps, Errors
  <2>2. CASE FailWith(t, "error") \/ FailWith(t, "unknown")
    BY <2>2, Known, TicketMoves DEF FailWith, CoordinatorSteps, Errors
  <2> QED BY <2>1, <2>2 DEF Start
<1>3. UNCHANGED <<runs, journal, recovery>>
  BY DEF Start
<1> QED BY <1>1, <1>2, <1>3, OutcomeWithoutRun DEF TicketKeeps, JournalMoves

(* The uncertain failure may reach the journal.                              *)
LEMMA SaveUncertainFailureOutcome ==
  ASSUME LaunchInv, OutcomesInv, NEW t \in Tickets, SaveUncertainFailure(t)
  PROVE  OutcomeKept
<1>1. /\ tk[t].pc = "failSave" /\ tk[t].starting /\ ~tk[t].complete
      /\ runs[t].pc = "absent" /\ journal \in [Tickets -> Snapshots]
  BY OutcomeKnown DEF SaveUncertainFailure, TicketInv, RunRecords, RunSteps
<1>2. OthersKept(t) /\ TicketKeeps(t) /\ tk'[t].pc = "failDone"
  BY Known, TicketGoes DEF CoordinatorSteps, SaveUncertainFailure
<1>3. /\ UNCHANGED <<runs, recovery>> /\ JournalMoves(t)
      /\ \A s \in Tickets \ {t} : journal'[s] = journal[s]
  BY <1>1 DEF SaveUncertainFailure, SaveLaunch, JournalMoves
<1> QED BY <1>1, <1>2, <1>3, OutcomeWithoutRun DEF TicketKeeps

(* It completes with the unknown error.                                      *)
LEMMA FailDoneOutcome ==
  ASSUME LaunchInv, OutcomesInv, NEW t \in Tickets, FailDone(t)
  PROVE  OutcomeKept
<1>1. /\ tk[t].pc = "failDone" /\ tk[t].starting /\ tk[t].err = "unknown" /\ runs[t].pc = "absent"
      /\ tk[t] \in TicketRecords /\ tk \in [Tickets -> TicketRecords]
  BY OutcomeKnown DEF FailDone, TicketInv, RunRecords, RunSteps
<1>2. OthersKept(t) /\ tk'[t].pc = "done" /\ tk'[t].starting /\ tk'[t].err = "unknown"
  <2> DEFINE x == [tk[t] EXCEPT !.pc = "done", !.complete = TRUE]
  <2>1. tk' = [tk EXCEPT ![t] = x]
    BY DEF FailDone
  <2>2. x.pc = "done" /\ x.starting = tk[t].starting /\ x.err = tk[t].err
    BY <1>1 DEF TicketRecords
  <2> HIDE DEF x
  <2> QED BY <1>1, <2>1, <2>2 DEF OthersKept
<1>3. UNCHANGED <<runs, journal, recovery>>
  BY DEF FailDone
<1> QED BY <1>1, <1>2, <1>3, OutcomeWithoutRun DEF JournalMoves

(* A failure before or without a child.                                      *)
LEMMA FailOutcome ==
  ASSUME LaunchInv, OutcomesInv, NEW t \in Tickets, Fail(t)
  PROVE  OutcomeKept
<1>1. /\ tk[t].pc = "failing" /\ tk[t].err # "none" /\ ~tk[t].complete /\ runs[t].pc = "absent"
      /\ tk[t] \in TicketRecords /\ tk \in [Tickets -> TicketRecords]
      /\ ~tk[t].starting => journal[t] = NoSnapshot
  BY OutcomeKnown DEF Fail, TicketInv, OutcomeInv, RunRecords, RunSteps
<1> DEFINE aborted == ~tk[t].starting /\ tk[t].abandoned
           marked == Snapshot(tk[t].descriptor.state, tk[t].descriptor.uncertain \/ StartUncertain(t))
           result == IF tk[t].starting THEN marked ELSE tk[t].result
           failed == [tk[t] EXCEPT !.aborted = aborted,
                                   !.err = IF aborted THEN "none" ELSE tk[t].err,
                                   !.descriptor = marked, !.result = result]
<1>2. \/ tk' = [tk EXCEPT ![t] = [failed EXCEPT !.pc = "failSave"]]
      \/ tk' = [tk EXCEPT ![t] = [failed EXCEPT !.pc = "done", !.complete = TRUE]]
  BY Zenon DEF Fail
<1> HIDE DEF marked, result
<1>3. /\ failed.starting = tk[t].starting /\ failed.complete = tk[t].complete
      /\ failed.aborted \/ failed.err = tk[t].err
      /\ [failed EXCEPT !.pc = "failSave"].pc = "failSave"
      /\ [failed EXCEPT !.pc = "failSave"].starting = failed.starting
      /\ [failed EXCEPT !.pc = "failSave"].complete = failed.complete
      /\ [failed EXCEPT !.pc = "done", !.complete = TRUE].pc = "done"
      /\ [failed EXCEPT !.pc = "done", !.complete = TRUE].starting = failed.starting
      /\ [failed EXCEPT !.pc = "done", !.complete = TRUE].aborted = failed.aborted
      /\ [failed EXCEPT !.pc = "done", !.complete = TRUE].err = failed.err
  BY <1>1 DEF TicketRecords
<1> HIDE DEF failed
<1>4. /\ OthersKept(t) /\ tk'[t].pc \in {"failSave", "done"} /\ tk'[t].starting = tk[t].starting
      /\ ~(tk'[t].complete /\ ~tk'[t].aborted /\ tk'[t].err = "none")
  BY <1>1, <1>2, <1>3 DEF OthersKept
<1>5. UNCHANGED <<runs, journal, recovery>>
  BY DEF Fail
<1> QED BY <1>1, <1>4, <1>5, OutcomeWithoutRun DEF JournalMoves

(* The child becomes a run that copies the started descriptor.               *)
LEMMA AttachChildOutcome ==
  ASSUME LaunchInv, OutcomesInv, NEW t \in Tickets, AttachChild(t)
  PROVE  OutcomeKept
<1>1. /\ tk[t].pc = "attach" /\ tk[t].starting /\ ~tk[t].complete
      /\ tk[t].err \in {"none", "unknown"} /\ runs[t].pc = "absent" /\ runs[t] = AbsentRun
      /\ tk[t] \in TicketRecords /\ tk \in [Tickets -> TicketRecords]
      /\ runs \in [Tickets -> RunRecords] /\ t \notin recovery
  BY OutcomeKnown DEF AttachChild, TicketInv, OutcomeInv, RunRecords, RunSteps
<1> DEFINE started == IF tk[t].err = "none" THEN Snapshot("live", FALSE)
                      ELSE Snapshot("reserved", TRUE)
           run == [AbsentRun EXCEPT !.pc = "owned", !.state = started.state,
                                    !.uncertain = started.uncertain]
           x == [tk[t] EXCEPT !.pc = "publish", !.descriptor = started]
<1>2. runs' = [runs EXCEPT ![t] = run] /\ tk' = [tk EXCEPT ![t] = x]
  BY DEF AttachChild
<1>3. UNCHANGED <<journal, recovery>>
  BY DEF AttachChild
<1>4. started.state # "exited"
  BY DEF Snapshot
<1> HIDE DEF started
<1>5. /\ run.pc = "owned" /\ run.state = started.state /\ run.uncertain = started.uncertain
      /\ ~run.published /\ ~run.exitKnown /\ ~AbsentRun.uncertain
  BY DEF AbsentRun
<1>6. /\ x.pc = "publish" /\ x.descriptor = started /\ x.starting = tk[t].starting
      /\ x.complete = tk[t].complete /\ x.err = tk[t].err
  BY <1>1 DEF TicketRecords
<1> HIDE DEF run, x
<1>7. runs'[t] = run /\ tk'[t] = x /\ OnlyTouches(t)
  BY <1>1, <1>2, <1>3 DEF OnlyTouches, Untouched
<1>8. OutcomeInv(t)'
  BY <1>1, <1>3, <1>4, <1>5, <1>6, <1>7 DEF OutcomeInv, AbsentRun, NoSnapshot, Snapshot
<1>9. Latched(t)
  BY <1>1, <1>3, <1>5 DEF Latched
<1> QED BY <1>7, <1>8, <1>9, OutcomeOthers DEF OutcomeKept

(* The started descriptor is saved; without an error it is the journal's.    *)
LEMMA SaveStartedOutcome ==
  ASSUME LaunchInv, OutcomesInv, NEW t \in Tickets, SaveStarted(t)
  PROVE  OutcomeKept
<1>1. /\ tk[t].pc = "publish" /\ tk[t].starting /\ ~tk[t].complete /\ runs[t].pc = "owned"
      /\ tk[t].err = "none" => tk[t].descriptor = Snapshot("live", FALSE)
      /\ tk[t].err \in {"none", "unknown"}
      /\ OutcomeInv(t) /\ runs \in [Tickets -> RunRecords] /\ t \notin recovery
      /\ journal \in [Tickets -> Snapshots]
  BY OutcomeKnown DEF SaveStarted, TicketInv, OutcomeInv
<1>2. PICK ok \in BOOLEAN :
        /\ SaveLaunch(t, tk[t].descriptor, ok)
        /\ tk' = [tk EXCEPT ![t] = [@ EXCEPT !.pc = "complete",
                                             !.err = IF ok THEN tk[t].err ELSE "unknown"]]
  BY DEF SaveStarted
<1> DEFINE e == IF ok THEN tk[t].err ELSE "unknown"
<1>3. e \in {"none", "unknown"} /\ (e = "none" => ok /\ tk[t].err = "none")
  BY <1>1
<1>4. tk' = [tk EXCEPT ![t] = [@ EXCEPT !.pc = "complete", !.err = e]]
  BY <1>2
<1> HIDE DEF e
<1>5. OthersKept(t) /\ TicketKeeps(t) /\ tk'[t].pc = "complete" /\ tk'[t].err = e
  BY <1>3, <1>4, Known, TicketMoves DEF CoordinatorSteps, Errors
<1>6. UNCHANGED <<runs, recovery>>
  BY DEF SaveStarted
<1>7. /\ \A s \in Tickets \ {t} : journal'[s] = journal[s]
      /\ JournalMoves(t) /\ (ok => journal'[t] = tk[t].descriptor)
  BY <1>1, <1>2 DEF SaveLaunch, JournalMoves
<1>8. tk'[t].err = "none" => journal'[t].state = "live"
  BY <1>1, <1>3, <1>5, <1>7 DEF Snapshot
<1>9. OutcomeInv(t)'
  BY <1>1, <1>3, <1>5, <1>6, <1>8 DEF OutcomeInv, TicketKeeps, AbsentRun, NoSnapshot, Snapshot
<1>10. Latched(t)
  BY <1>1, <1>6, <1>7 DEF Latched, JournalMoves, SaveLaunchAccepts, NoSnapshot, OutcomeInv
<1>11. OnlyTouches(t)
  BY <1>5, <1>6, <1>7 DEF OnlyTouches, Untouched, OthersKept
<1> QED BY <1>9, <1>10, <1>11, OutcomeOthers DEF OutcomeKept

(* The callers get their answer: success only if the save went well.         *)
LEMMA CompleteLaunchOutcome ==
  ASSUME LaunchInv, OutcomesInv, NEW t \in Tickets, CompleteLaunch(t)
  PROVE  OutcomeKept
<1>1. /\ tk[t].pc = "complete" /\ tk[t].starting /\ runs[t].pc = "owned"
      /\ tk[t].err = "none" => tk[t].descriptor = Snapshot("live", FALSE)
      /\ tk[t].err = "none" => journal[t].state = "live"
      /\ tk[t].err \in {"none", "unknown"}
      /\ runs[t].state = tk[t].descriptor.state /\ runs[t].uncertain = tk[t].descriptor.uncertain
      /\ ~runs[t].exitKnown /\ (runs[t].exitKnown <=> runs[t].state = "exited")
      /\ runs \in [Tickets -> RunRecords] /\ runs[t] \in RunRecords /\ t \notin recovery
      /\ tk[t] \in TicketRecords /\ tk \in [Tickets -> TicketRecords]
  BY OutcomeKnown DEF CompleteLaunch, TicketInv, OutcomeInv
<1> DEFINE u == runs[t].uncertain \/ tk[t].err = "unknown"
           r == Snapshot(runs[t].state, u)
           p == ~(tk[t].err = "unknown")
           run == [runs[t] EXCEPT !.pc = "wait", !.uncertain = u, !.published = p]
           x == [tk[t] EXCEPT !.pc = "done", !.complete = TRUE, !.result = r]
<1>2. runs' = [runs EXCEPT ![t] = run] /\ tk' = [tk EXCEPT ![t] = x]
  BY DEF CompleteLaunch
<1>3. UNCHANGED <<journal, recovery>>
  BY DEF CompleteLaunch
<1>4. /\ tk[t].err = "none" => r = Snapshot("live", FALSE) /\ runs[t].state = "live"
      /\ u => ~p
      /\ runs[t].uncertain => u
  <2>1. tk[t].err = "none" => runs[t].state = "live" /\ runs[t].uncertain = FALSE
    BY <1>1 DEF Snapshot
  <2>2. tk[t].err = "none" => u = FALSE
    <3> SUFFICES ASSUME tk[t].err = "none" PROVE u = FALSE
      OBVIOUS
    <3>1. runs[t].uncertain = FALSE /\ tk[t].err # "unknown"
      BY <2>1
    <3> QED BY <3>1, Zenon
  <2>3. tk[t].err = "none" => r = Snapshot("live", FALSE)
    <3> HIDE DEF u
    <3> QED BY <2>1, <2>2
  <2>4. u => tk[t].err = "unknown"
    BY <1>1, <2>1
  <2> QED BY <2>1, <2>3, <2>4
<1> HIDE DEF u, r, p
<1>5. /\ run.pc = "wait" /\ run.state = runs[t].state /\ run.uncertain = u /\ run.published = p
      /\ run.exitKnown = runs[t].exitKnown
  BY <1>1 DEF RunRecords
<1>6. /\ x.pc = "done" /\ x.result = r /\ x.starting = tk[t].starting /\ x.err = tk[t].err
  BY <1>1 DEF TicketRecords
<1> HIDE DEF run, x
<1>7. runs'[t] = run /\ tk'[t] = x /\ OnlyTouches(t)
  BY <1>1, <1>2, <1>3 DEF OnlyTouches, Untouched
<1>8. OutcomeInv(t)'
  <2>1. /\ runs'[t].pc = "wait" /\ ~runs'[t].exitKnown /\ runs'[t].state # "exited"
        /\ runs'[t].uncertain => ~runs'[t].published
        /\ tk'[t].pc = "done" /\ tk'[t].starting /\ t \notin recovery'
    BY <1>1, <1>3, <1>4, <1>5, <1>6, <1>7
  <2>2. tk'[t].err = "none" =>
          /\ tk'[t].result = Snapshot("live", FALSE)
          /\ runs'[t].state = "live" /\ journal'[t].state = "live"
    BY <1>1, <1>3, <1>4, <1>5, <1>6, <1>7
  <2> QED BY <2>1, <2>2 DEF OutcomeInv, Snapshot
<1>9. Latched(t)
  BY <1>3, <1>4, <1>5, <1>7 DEF Latched
<1> QED BY <1>7, <1>8, <1>9, OutcomeOthers DEF OutcomeKept

(* A step of the reconcile goroutine: only the run, its journal entry and    *)
(* its recovery record.                                                      *)
LEMMA OutcomeOfRun ==
  ASSUME LaunchInv, OutcomesInv, NEW t \in Tickets, UNCHANGED tk, runs[t].pc \notin {"absent", "owned"},
         \A s \in Tickets \ {t} : runs'[s] = runs[s] /\ journal'[s] = journal[s],
         \A s \in Tickets \ {t} : s \in recovery' <=> s \in recovery,
         JournalMoves(t),
         runs'[t].pc \notin {"absent", "owned"},
         runs'[t].pc = "wait" => ~runs'[t].exitKnown,
         runs[t].uncertain => runs'[t].uncertain,
         runs'[t].uncertain => ~runs'[t].published,
         runs'[t].exitKnown <=> runs'[t].state = "exited",
         runs'[t].state \in {runs[t].state, "exited"},
         journal'[t].state \in {journal[t].state, runs[t].state},
         runs'[t].pc = "recover" => runs'[t].exitKnown /\ ~runs'[t].saveErr,
         runs'[t].pc \in {"recover", "finish"} /\ ~runs'[t].saveErr =>
           journal'[t] = Snapshot(runs'[t].state, runs'[t].uncertain),
         runs'[t].pc = "done" /\ ~runs'[t].uncertain => journal'[t] = Snapshot(runs'[t].state, FALSE),
         t \in recovery' => /\ runs'[t].pc \in {"finish", "done"} /\ runs'[t].exitKnown
                            /\ journal'[t].state = "exited"
  PROVE  OutcomeKept
<1>1. TicketInv(t) /\ OutcomeInv(t) /\ tk[t].pc = "done" /\ tk[t].starting
  BY OutcomeKnown DEF TicketInv
<1>2. tk[t].complete /\ ~tk[t].aborted /\ tk[t].err = "none" =>
        /\ tk[t].result = Snapshot("live", FALSE)
        /\ runs'[t].state \in {"live", "exited"} /\ journal'[t].state \in {"live", "exited"}
  BY <1>1 DEF OutcomeInv
<1>3. OutcomeInv(t)'
  BY <1>1, <1>2 DEF OutcomeInv, Snapshot
<1>4. journal[t].state # "none"
  BY <1>1 DEF TicketInv
<1>5. Latched(t)
  BY <1>4 DEF Latched, JournalMoves, SaveLaunchAccepts, NoSnapshot
<1>6. OnlyTouches(t)
  BY DEF OnlyTouches, Untouched
<1> QED BY <1>3, <1>5, <1>6, OutcomeOthers DEF OutcomeKept

(* reconcile, step by step: the exit is known or the wait failed.            *)
LEMMA WaitReturnedOutcome ==
  ASSUME LaunchInv, OutcomesInv, NEW t \in Tickets, WaitReturned(t)
  PROVE  OutcomeKept
<1>1. /\ runs[t].pc = "wait" /\ runs \in [Tickets -> RunRecords] /\ runs[t] \in RunRecords
      /\ ~runs[t].exitKnown /\ OutcomeInv(t)
  BY OutcomeKnown DEF WaitReturned, OutcomeInv
<1>2. UNCHANGED <<tk, journal, recovery>>
  BY DEF WaitReturned
<1>3. CASE runs' = [runs EXCEPT ![t] = [@ EXCEPT !.pc = "save", !.state = "exited", !.exitKnown = TRUE]]
  <2> DEFINE run == [runs[t] EXCEPT !.pc = "save", !.state = "exited", !.exitKnown = TRUE]
  <2>1. /\ run.pc = "save" /\ run.state = "exited" /\ run.exitKnown
        /\ run.uncertain = runs[t].uncertain /\ run.published = runs[t].published
    BY <1>1 DEF RunRecords
  <2>2. runs' = [runs EXCEPT ![t] = run]
    BY <1>3
  <2> HIDE DEF run
  <2>3. runs'[t] = run /\ \A s \in Tickets \ {t} : runs'[s] = runs[s]
    BY <1>1, <2>2
  <2>4. t \notin recovery /\ (runs[t].uncertain => ~runs[t].published)
    BY <1>1 DEF OutcomeInv
  <2> QED BY <1>1, <1>2, <2>1, <2>3, <2>4, OutcomeOfRun DEF JournalMoves
<1>4. CASE runs' = [runs EXCEPT ![t] = [@ EXCEPT !.pc = "save", !.uncertain = TRUE, !.published = FALSE]]
  <2> DEFINE run == [runs[t] EXCEPT !.pc = "save", !.uncertain = TRUE, !.published = FALSE]
  <2>1. /\ run.pc = "save" /\ run.state = runs[t].state /\ run.exitKnown = runs[t].exitKnown
        /\ run.uncertain /\ ~run.published
    BY <1>1 DEF RunRecords
  <2>2. runs' = [runs EXCEPT ![t] = run]
    BY <1>4
  <2> HIDE DEF run
  <2>3. runs'[t] = run /\ \A s \in Tickets \ {t} : runs'[s] = runs[s]
    BY <1>1, <2>2
  <2>4. t \notin recovery /\ runs[t].state # "exited"
    BY <1>1 DEF OutcomeInv
  <2> QED BY <1>1, <1>2, <2>1, <2>3, <2>4, OutcomeOfRun DEF JournalMoves
<1> QED BY <1>3, <1>4 DEF WaitReturned

(* The exit is saved; an error keeps saveErr.                                *)
LEMMA SaveExitOutcome ==
  ASSUME LaunchInv, OutcomesInv, NEW t \in Tickets, SaveExit(t)
  PROVE  OutcomeKept
<1>1. /\ runs[t].pc = "save" /\ runs \in [Tickets -> RunRecords] /\ runs[t] \in RunRecords
      /\ journal \in [Tickets -> Snapshots] /\ OutcomeInv(t)
  BY OutcomeKnown DEF SaveExit
<1>2. UNCHANGED <<tk, recovery>>
  BY DEF SaveExit
<1> DEFINE snapshot == Snapshot(runs[t].state, runs[t].uncertain)
<1>3. PICK ok \in BOOLEAN :
        /\ SaveLaunch(t, snapshot, ok)
        /\ runs' = [runs EXCEPT ![t] = [@ EXCEPT !.saveErr = ~ok, !.pc = AfterSaveExit(t, ok)]]
  BY DEF SaveExit
<1>4. snapshot.state = runs[t].state
  BY DEF Snapshot
<1> DEFINE pc == AfterSaveExit(t, ok)
           run == [runs[t] EXCEPT !.saveErr = ~ok, !.pc = pc]
<1>5. pc \in {"recover", "finish"} /\ (pc = "recover" => ok /\ runs[t].exitKnown)
  BY DEF AfterSaveExit
<1>6. runs' = [runs EXCEPT ![t] = run]
  BY <1>3
<1> HIDE DEF pc
<1>7. /\ run.pc = pc /\ run.state = runs[t].state /\ run.exitKnown = runs[t].exitKnown
      /\ run.uncertain = runs[t].uncertain /\ run.published = runs[t].published
      /\ run.saveErr = ~ok
  BY <1>1 DEF RunRecords
<1> HIDE DEF run
<1>8. runs'[t] = run /\ \A s \in Tickets \ {t} : runs'[s] = runs[s]
  BY <1>1, <1>6
<1> HIDE DEF snapshot
<1>9. /\ \A s \in Tickets \ {t} : journal'[s] = journal[s]
      /\ JournalMoves(t) /\ (ok => journal'[t] = snapshot)
      /\ journal'[t] \in {journal[t], snapshot}
  BY <1>1, <1>3 DEF SaveLaunch, JournalMoves
<1>10. /\ t \notin recovery /\ (runs[t].uncertain => ~runs[t].published)
       /\ runs[t].exitKnown <=> runs[t].state = "exited"
  BY <1>1 DEF OutcomeInv
<1>11. ~runs'[t].saveErr => journal'[t] = Snapshot(runs'[t].state, runs'[t].uncertain)
  BY <1>7, <1>8, <1>9 DEF snapshot
<1> QED BY <1>1, <1>2, <1>4, <1>5, <1>7, <1>8, <1>9, <1>10, <1>11, OutcomeOfRun

(* The recovery record follows an exit that was saved.                       *)
LEMMA PersistOwnedRecoveryOutcome ==
  ASSUME LaunchInv, OutcomesInv, NEW t \in Tickets, PersistOwnedRecovery(t)
  PROVE  OutcomeKept
<1>1. /\ runs[t].pc = "recover" /\ runs \in [Tickets -> RunRecords] /\ runs[t] \in RunRecords
      /\ OutcomeInv(t) /\ runs[t].exitKnown /\ ~runs[t].saveErr /\ runs[t].state = "exited"
      /\ journal[t] = Snapshot(runs[t].state, runs[t].uncertain)
      /\ runs[t].uncertain => ~runs[t].published
  BY OutcomeKnown DEF PersistOwnedRecovery, OutcomeInv
<1>2. UNCHANGED <<tk, journal>> /\ \A s \in Tickets \ {t} : s \in recovery' <=> s \in recovery
  BY DEF PersistOwnedRecovery
<1> DEFINE run == [runs[t] EXCEPT !.pc = "finish"]
<1>3. /\ run.pc = "finish" /\ run.state = runs[t].state /\ run.exitKnown = runs[t].exitKnown
      /\ run.uncertain = runs[t].uncertain /\ run.published = runs[t].published
      /\ run.saveErr = runs[t].saveErr
  BY <1>1 DEF RunRecords
<1>4. runs' = [runs EXCEPT ![t] = run]
  BY DEF PersistOwnedRecovery
<1> HIDE DEF run
<1>5. runs'[t] = run /\ \A s \in Tickets \ {t} : runs'[s] = runs[s]
  BY <1>1, <1>4
<1>6. journal[t].state = "exited"
  BY <1>1 DEF Snapshot
<1> QED BY <1>1, <1>2, <1>3, <1>5, <1>6, OutcomeOfRun DEF JournalMoves

(* The end of reconcile latches uncertainty.                                 *)
LEMMA FinishReconcileOutcome ==
  ASSUME LaunchInv, OutcomesInv, NEW t \in Tickets, FinishReconcile(t)
  PROVE  OutcomeKept
<1>1. /\ runs[t].pc = "finish" /\ runs \in [Tickets -> RunRecords] /\ runs[t] \in RunRecords
      /\ OutcomeInv(t)
  BY OutcomeKnown DEF FinishReconcile
<1>2. UNCHANGED <<tk, journal, recovery>>
  BY DEF FinishReconcile
<1> DEFINE u == runs[t].uncertain \/ runs[t].saveErr
           p == runs[t].published /\ ~runs[t].saveErr
           run == [runs[t] EXCEPT !.pc = "done", !.uncertain = u, !.published = p]
<1>3. runs' = [runs EXCEPT ![t] = run]
  BY DEF FinishReconcile
<1>4. /\ runs[t].uncertain => u /\ ~p
      /\ u => ~p
      /\ ~u => ~runs[t].uncertain /\ ~runs[t].saveErr
      /\ runs[t].exitKnown <=> runs[t].state = "exited"
      /\ t \in recovery => runs[t].exitKnown /\ journal[t].state = "exited"
  BY <1>1 DEF OutcomeInv
<1>5. ~u => journal[t] = Snapshot(runs[t].state, FALSE)
  <2>1. ~u => journal[t] = Snapshot(runs[t].state, runs[t].uncertain) /\ runs[t].uncertain = FALSE
    <3>1. runs[t].uncertain \in BOOLEAN
      BY <1>1 DEF RunRecords
    <3> QED BY <1>1, <1>4, <3>1 DEF OutcomeInv
  <2> QED BY <2>1
<1> HIDE DEF u, p
<1>6. /\ run.pc = "done" /\ run.state = runs[t].state /\ run.exitKnown = runs[t].exitKnown
      /\ run.uncertain = u /\ run.published = p
  BY <1>1 DEF RunRecords
<1> HIDE DEF run
<1>7. runs'[t] = run /\ \A s \in Tickets \ {t} : runs'[s] = runs[s]
  BY <1>1, <1>3
<1> QED BY <1>1, <1>2, <1>4, <1>5, <1>6, <1>7, OutcomeOfRun DEF JournalMoves

(* A step that leaves the outcome of every launch alone.                     *)
LEMMA OutcomeAllSame ==
  ASSUME LaunchInv, OutcomesInv, \A s \in Tickets : SameOutcome(s),
         UNCHANGED <<runs, journal, recovery>>
  PROVE  OutcomeKept
<1>1. ASSUME NEW s \in Tickets PROVE OutcomeInv(s)' /\ Latched(s)
  BY OutcomeKnown, OutcomeFrame
<1> QED BY <1>1 DEF OutcomeKept, OutcomesInv

(* A step that rewrites other fields of one ticket.                          *)
LEMMA OutcomeTicketSame ==
  ASSUME LaunchInv, OutcomesInv, NEW t \in Tickets, NEW x, tk' = [tk EXCEPT ![t] = x],
         x.pc = tk[t].pc, x.starting = tk[t].starting, x.complete = tk[t].complete,
         x.aborted = tk[t].aborted, x.err = tk[t].err, x.descriptor = tk[t].descriptor,
         x.result = tk[t].result, UNCHANGED <<runs, journal, recovery>>
  PROVE  OutcomeKept
<1>1. tk \in [Tickets -> TicketRecords]
  BY Known
<1>2. ASSUME NEW s \in Tickets PROVE SameOutcome(s)
  BY <1>1 DEF SameOutcome
<1> QED BY <1>2, OutcomeAllSame

(* Callers join, leave and admit; no outcome moves.                          *)
LEMMA CallerStepOutcome ==
  ASSUME LaunchInv, OutcomesInv, CallerStep
  PROVE  OutcomeKept
<1>1. tk \in [Tickets -> TicketRecords] /\ \A s \in Tickets : tk[s] \in TicketRecords
  BY Known DEF LaunchInv, LaunchTypeOK
<1>2. ASSUME NEW s \in Tickets, NEW n, tk' = [tk EXCEPT ![s].waiters = n],
             UNCHANGED <<runs, journal, recovery>>
      PROVE  OutcomeKept
  <2> DEFINE x == [tk[s] EXCEPT !.waiters = n]
  <2>1. /\ x.pc = tk[s].pc /\ x.starting = tk[s].starting /\ x.complete = tk[s].complete
        /\ x.aborted = tk[s].aborted /\ x.err = tk[s].err /\ x.descriptor = tk[s].descriptor
        /\ x.result = tk[s].result
    BY <1>1 DEF TicketRecords
  <2>2. tk' = [tk EXCEPT ![s] = x]
    BY <1>2
  <2> HIDE DEF x
  <2> QED BY <1>2, <2>1, <2>2, OutcomeTicketSame
<1>3. ASSUME NEW c \in Callers, NEW id \in RequestIDs, NEW sel \in Selections, NEW t \in Tickets,
             AdmitLaunch(c, id, sel, t)
      PROVE  OutcomeKept
  <2>1. UNCHANGED <<runs, journal, recovery>> /\ tk' = [tk EXCEPT ![t] = NewTicket(id, sel)]
    BY <1>3 DEF AdmitLaunch
  <2>2. TicketInv(t) /\ OutcomeInv(t)
    BY OutcomeKnown
  <2>3. ~tk[t].starting
    BY <1>3, <2>2 DEF AdmitLaunch, Unreachable, TicketInv
  <2>4. runs[t].pc = "absent" /\ journal[t] = NoSnapshot
    BY <2>2, <2>3 DEF TicketInv, OutcomeInv
  <2>5. /\ NewTicket(id, sel).pc = "validate" /\ ~NewTicket(id, sel).complete
        /\ ~NewTicket(id, sel).starting
    BY DEF NewTicket, UnusedTicket
  <2>6. OthersKept(t) /\ tk'[t] = NewTicket(id, sel)
    BY <1>1, <2>1 DEF OthersKept
  <2> QED BY <2>1, <2>4, <2>5, <2>6, OutcomeWithoutRun DEF JournalMoves
<1>4. ASSUME NEW c \in Callers, NEW id \in RequestIDs, NEW sel \in Selections, JoinLaunch(c, id, sel)
      PROVE  OutcomeKept
  <2>1. PICK s \in Tickets : s = tickets[id]
    BY <1>4 DEF JoinLaunch, LaunchInv, LaunchTypeOK
  <2>2. /\ tk' = [tk EXCEPT ![s].waiters = tk[s].waiters + 1]
        /\ UNCHANGED <<runs, journal, recovery>>
    BY <1>4, <2>1 DEF JoinLaunch
  <2> QED BY <1>2, <2>2
<1>5. ASSUME NEW c \in Callers, LaunchAnswered(c) PROVE OutcomeKept
  <2>1. PICK s \in Tickets : s = callers[c].ticket
    BY <1>5 DEF LaunchInv, CallerInv, LaunchAnswered
  <2>2. /\ tk' = [tk EXCEPT ![s].waiters = tk[s].waiters - 1]
        /\ UNCHANGED <<runs, journal, recovery>>
    BY <1>5, <2>1 DEF LaunchAnswered
  <2> QED BY <1>2, <2>2
<1>6. ASSUME NEW c \in Callers, LaunchCanceled(c) PROVE OutcomeKept
  <2>1. PICK s \in Tickets : s = callers[c].ticket
    BY <1>6 DEF LaunchInv, CallerInv, LaunchCanceled
  <2> DEFINE x == [tk[s] EXCEPT !.waiters = tk[s].waiters - 1,
                                !.abandoned = tk[s].abandoned \/ Abandons(s),
                                !.canceled = tk[s].canceled \/ Abandons(s)]
  <2>2. tk' = [tk EXCEPT ![s] = x] /\ UNCHANGED <<runs, journal, recovery>>
    BY <1>6, <2>1 DEF LaunchCanceled
  <2>3. /\ x.pc = tk[s].pc /\ x.starting = tk[s].starting /\ x.complete = tk[s].complete
        /\ x.aborted = tk[s].aborted /\ x.err = tk[s].err /\ x.descriptor = tk[s].descriptor
        /\ x.result = tk[s].result
    BY <1>1 DEF TicketRecords
  <2> HIDE DEF x
  <2> QED BY <2>2, <2>3, OutcomeTicketSame
<1>7. ASSUME NEW c \in Callers, NEW id \in RequestIDs, NEW sel \in Selections, RefuseLaunch(c, id, sel)
      PROVE  OutcomeKept
  <2>1. UNCHANGED <<tk, runs, journal, recovery>>
    BY <1>7 DEF RefuseLaunch
  <2> QED BY <2>1, OutcomeAllSame DEF SameOutcome
<1> QED BY <1>3, <1>4, <1>5, <1>6, <1>7 DEF CallerStep

(* Every step of launch coordination keeps what is known of the outcomes and *)
(* takes no uncertainty and no exit back.                                    *)
LEMMA OutcomeStep == ASSUME LaunchInv, OutcomesInv, LaunchStep PROVE OutcomeKept
<1>1. ASSUME NEW t \in Tickets, CoordinatorTimeout(t) PROVE OutcomeKept
  <2> DEFINE x == [tk[t] EXCEPT !.canceled = TRUE]
  <2>1. /\ x.pc = tk[t].pc /\ x.starting = tk[t].starting /\ x.complete = tk[t].complete
        /\ x.aborted = tk[t].aborted /\ x.err = tk[t].err /\ x.descriptor = tk[t].descriptor
        /\ x.result = tk[t].result
    BY Known DEF TicketRecords
  <2>2. tk' = [tk EXCEPT ![t] = x] /\ UNCHANGED <<runs, journal, recovery>>
    BY <1>1 DEF CoordinatorTimeout
  <2> HIDE DEF x
  <2> QED BY <2>1, <2>2, OutcomeTicketSame
<1>2. ASSUME NEW t \in Tickets, ChildExits(t) PROVE OutcomeKept
  <2>1. UNCHANGED <<tk, runs, journal, recovery>>
    BY <1>2 DEF ChildExits
  <2> QED BY <2>1, OutcomeAllSame DEF SameOutcome
<1>3. ASSUME NEW t \in Tickets, Coordinator(t) PROVE OutcomeKept
  BY <1>3, ValidateTargetOutcome, CommitStartOutcome, ReserveLaunchOutcome, StartOutcome,
     AttachChildOutcome, SaveStartedOutcome, CompleteLaunchOutcome, FailOutcome,
     SaveUncertainFailureOutcome, FailDoneOutcome DEF Coordinator
<1>4. ASSUME NEW t \in Tickets, Reconcile(t) PROVE OutcomeKept
  BY <1>4, WaitReturnedOutcome, SaveExitOutcome, PersistOwnedRecoveryOutcome,
     FinishReconcileOutcome DEF Reconcile
<1> QED BY <1>1, <1>2, <1>3, <1>4, CallerStepOutcome DEF LaunchStep

(* Nor does it when no launch moves.                                         *)
LEMMA OutcomeStutter == ASSUME LaunchInv, OutcomesInv, UNCHANGED launchVars PROVE OutcomeKept
<1>1. UNCHANGED <<tk, runs, journal, recovery>>
  BY DEF launchVars
<1> QED BY <1>1, OutcomeAllSame DEF SameOutcome

(* No launch, no outcome.                                                    *)
LEMMA OutcomeInit == StateInit => OutcomesInv
<1> SUFFICES ASSUME StateInit, NEW t \in Tickets PROVE OutcomeInv(t)
  BY DEF OutcomesInv
<1>1. /\ tk[t] = UnusedTicket /\ runs[t] = AbsentRun /\ journal[t] = NoSnapshot /\ recovery = {}
  BY DEF StateInit
<1> QED BY <1>1 DEF OutcomeInv, UnusedTicket, AbsentRun

(* The outcomes of all launches, from the invariants.                        *)
LEMMA DurableByInv == LaunchInv /\ OutcomesInv => DurableOutcomes
<1> SUFFICES ASSUME LaunchInv, OutcomesInv PROVE DurableOutcomes
  OBVIOUS
<1>1. ASSUME NEW t \in Tickets, tk[t].complete, ~tk[t].aborted, tk[t].err = "none"
      PROVE  /\ tk[t].result = Snapshot("live", FALSE) /\ child[t] \in {"alive", "dead"}
             /\ journal[t].state \in {"live", "exited"}
  <2>1. TicketInv(t) /\ OutcomeInv(t)
    BY OutcomeKnown
  <2>2. runs[t].pc # "absent"
    BY <1>1, <2>1 DEF TicketInv
  <2> QED BY <1>1, <2>1, <2>2 DEF TicketInv, OutcomeInv
<1>2. ASSUME NEW t \in recovery PROVE child[t] = "dead" /\ journal[t].state = "exited"
  <2>1. t \in Tickets
    BY DEF LaunchInv, LaunchTypeOK
  <2>2. TicketInv(t) /\ OutcomeInv(t)
    BY <2>1, OutcomeKnown
  <2> QED BY <2>2 DEF TicketInv, OutcomeInv
<1> QED BY <1>1, <1>2 DEF DurableOutcomes, SuccessIsDurable, RecoveryNeedsDurableExit

(* OutcomesInv is inductive relative to LaunchInv.                           *)
LEMMA OutcomesInvariant == Spec => [](LaunchInv /\ OutcomesInv)
<1>1. StateInit => OutcomesInv
  BY OutcomeInit
<1>2. LaunchInv /\ OutcomesInv /\ [Next]_stateVars => OutcomesInv'
  <2> SUFFICES ASSUME LaunchInv, OutcomesInv, [Next]_stateVars PROVE OutcomesInv'
    OBVIOUS
  <2>1. LaunchStep \/ UNCHANGED launchVars
    BY DEF Next, DisableLaunches, stateVars
  <2> QED BY <2>1, OutcomeStep, OutcomeStutter DEF OutcomeKept
<1> QED BY <1>1, <1>2, LaunchInvariant, PTL DEF Spec

(* Callers of Launch are told success only of a child that SaveLaunch        *)
(* published, and only a launch whose exit is durable is offered for         *)
(* recovery.                                                                 *)
THEOREM OutcomesAreDurable == Spec => []DurableOutcomes
BY OutcomesInvariant, DurableByInv, PTL

(* Neither the coordinator, nor reconcile, nor the store takes back the      *)
(* uncertainty of a run or a journalled exit.                                *)
THEOREM UncertaintyIsLatched == Spec => UncertaintyLatched
<1> DEFINE A == \A t \in Tickets : Latched(t)
<1>1. LaunchInv /\ OutcomesInv /\ [Next]_stateVars => [A]_stateVars
  <2> SUFFICES ASSUME LaunchInv, OutcomesInv, Next PROVE A
    OBVIOUS
  <2>1. LaunchStep \/ UNCHANGED launchVars
    BY DEF Next, DisableLaunches
  <2> QED BY <2>1, OutcomeStep, OutcomeStutter DEF OutcomeKept
<1>2. [][A]_stateVars => UncertaintyLatched
  BY DEF UncertaintyLatched, Latched
<1> QED BY <1>1, <1>2, OutcomesInvariant, PTL DEF Spec
=============================================================================
