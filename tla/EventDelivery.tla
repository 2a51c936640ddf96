------------------------------ MODULE EventDelivery ------------------------------
(*****************************************************************************)
(* Saving events and session boundaries in the store                         *)
(* (infrastructure/sqlite/event_delivery_store.go, session_datasource.go,    *)
(* attestation_store.go, application/usecase/session_usecase_impl.go): one   *)
(* transaction that decides whether a delivery is new, records the event,    *)
(* its receipt, its workspace observation, its attestation link and the      *)
(* session row, tried three times, then the anchor, then the answer. A       *)
(* process that opens the store first catches the observations up with the   *)
(* events already there (workspace_observation_backfill.go).                 *)
(*                                                                           *)
(* One session. SQLite in WAL mode with deferred transactions (sqliteDSN):   *)
(* the first SELECT fixes a snapshot, the first write takes the one writer   *)
(* lock, and a write after a SELECT fails with BUSY_SNAPSHOT when another    *)
(* transaction committed in between. The reads made before the lock are kept *)
(* in the call; the writes under it appear with the commit. Times, bodies    *)
(* and the row shape before migration 76 are left out.                       *)
(*****************************************************************************)
EXTENDS AttestationAnchor, FiniteSets, FiniteSetsExt

CONSTANTS
  Writers,        \* processes that save events
  Calls,          \* the saves they may ask for
  MaxEvents,      \* bound on calls: each proposes a fresh event id; two openings of
                  \* the store may take the place of one
  MaxAttempts,    \* maxDeliveryDecisionAttempts
  BatchSize,      \* workspaceObservationCatchUpBatchSize
  None

EventIDs == 1..MaxEvents
Kinds == {"prompt", "transcript", "start", "one_shot", "end", "finish"}

(* What a call carries: its kind, the identity and the fingerprint of its    *)
(* delivery (id None: none), its workspace and, for "finish", the reason.    *)
(* The fingerprint covers everything but the workspace.                      *)
ASSUME DeliveryAssumption ==
  /\ MaxEvents \in Nat /\ MaxAttempts \in Nat \ {0} /\ BatchSize \in Nat \ {0}
  /\ \A c \in Calls : c.kind \in Kinds
  /\ \A c, d \in Calls :
       c.id # None /\ c.id = d.id /\ c.fp = d.fp => c.kind = d.kind /\ c.reason = d.reason

(* None is none of the values it stands in for.                              *)
ASSUME NoneAssumption ==
  /\ None \notin Writers /\ None \notin [status : {"accepted", "conflict"}, event : EventIDs]
  /\ \A c \in Calls : <<c.id, c.fp>> # None /\ (c.kind = "finish" => c.reason # None)

DeliveryRecordID(c) == IF c.id = None THEN None ELSE <<c.id, c.fp>>
Deliveries == {DeliveryRecordID(c) : c \in Calls} \ {None}

VARIABLES
  rows,           \* events: id -> the call that recorded it
  ledger,         \* hook_deliveries: record -> status and observed event
  attempts,       \* hook_delivery_attempts: <<record, proposed id>> -> outcome
  observations,   \* session_workspace_observations: key -> count, record, attribution
  chain,          \* attestation_links in seq order: event ids
  session,        \* the sessions row: mode ("none": no row), workspace, terminal reason
  version,        \* transactions committed
  holder,         \* who holds SQLite's writer lock
  calls,          \* per process, the save going on
  issued,         \* event ids given out
  removed,        \* transcripts deleted, with their calls (history)
  answers,        \* answers given (history)
  told,           \* terminal reasons reported as applied (history)
  catchup,        \* workspace_observation_catchup_state (frontier 0: none) and the openings
  opening         \* per process, the catch-up going on

store == <<rows, ledger, attempts, observations, chain, session>>
catchUpVars == <<catchup, opening>>
deliveryVars ==
  <<store, version, holder, calls, issued, removed, answers, told, anchorVars, catchUpVars>>

NoCall ==
  [pc |-> "idle", call |-> None, ev |-> 0, attempt |-> 0, snapshot |-> 0,
   found |-> None, accepted |-> FALSE, event |-> 0, head |-> None]

OpeningAt(pc, frontier, batch, canonical) ==
  [pc |-> pc, frontier |-> frontier, batch |-> batch, canonical |-> canonical]
NoOpening == OpeningAt("idle", 0, {}, None)

NoSession == [mode |-> "none", ws |-> None, ended |-> None]
Empty == [x \in {} |-> None]
With(f, k, v) == [x \in DOMAIN f \cup {k} |-> IF x = k THEN v ELSE f[x]]

DeliveryInit ==
  /\ rows = Empty /\ ledger = Empty /\ attempts = Empty /\ observations = Empty
  /\ chain = <<>> /\ session = NoSession /\ version = 0 /\ holder = None
  /\ calls = [w \in Writers |-> NoCall]
  /\ issued = 0 /\ removed = Empty /\ answers = {} /\ told = {}
  /\ AnchorInit
  /\ catchup = [exhausted |-> FALSE, frontier |-> 0, opens |-> 0]
  /\ opening = [w \in Writers |-> NoOpening]

-----------------------------------------------------------------------------
(* The use cases look the session up before they save a boundary.            *)
Admitted(c) ==
  CASE c.kind \in {"start", "one_shot"} ->
         session = NoSession \/ (c.kind = "start" /\ session.mode = "interactive" /\ session.ws = c.ws)
    [] c.kind = "end" -> session.mode = "interactive"
    [] c.kind = "finish" -> session.mode = "one_shot" /\ session.ended = None
    [] OTHER -> TRUE

Call(w, c) ==
  /\ calls[w].pc = "idle" /\ opening[w].pc = "idle" /\ Admitted(c)
  /\ issued < MaxEvents /\ catchup.opens <= 2 * (MaxEvents - issued - 1)
  /\ issued' = issued + 1
  /\ calls' = [calls EXCEPT ![w] = [NoCall EXCEPT !.pc = "begin", !.call = c, !.ev = issued + 1,
                                                  !.attempt = 1]]
  /\ UNCHANGED <<store, version, holder, removed, answers, told, anchorVars, catchUpVars>>

(* FinalizeOneShot of a session that already ended.                          *)
AlreadyEnded(c) ==
  /\ c.kind = "finish" /\ session.mode = "one_shot" /\ session.ended = c.reason
  /\ told' = told \cup {c.reason}
  /\ UNCHANGED <<store, version, holder, calls, issued, removed, answers, anchorVars, catchUpVars>>

-----------------------------------------------------------------------------
(* saveGuardedEventTransaction, one attempt. An event with a delivery first  *)
(* looks for it; a boundary first reserves the writer lock.                  *)
Boundary(c) == c.kind \in {"start", "one_shot", "end", "finish"}
ReadsFirst(c) == c.id # None /\ ~Boundary(c)

findHookDeliveryByFingerprint(c) ==
  IF DeliveryRecordID(c) \in DOMAIN ledger THEN ledger[DeliveryRecordID(c)] ELSE None
findAcceptedHookDelivery(c) ==
  \E r \in DOMAIN ledger : r[1] = c.id /\ ledger[r].status = "accepted"

Looked(w) ==
  [calls[w] EXCEPT !.snapshot = version,
     !.found = findHookDeliveryByFingerprint(calls[w].call),
     !.accepted = findAcceptedHookDelivery(calls[w].call)]

Look(w) ==
  /\ calls[w].pc = "begin" /\ ReadsFirst(calls[w].call)
  /\ calls' = [calls EXCEPT ![w] = [Looked(w) EXCEPT !.pc = "read"]]
  /\ UNCHANGED <<store, version, holder, issued, removed, answers, told, anchorVars, catchUpVars>>

(* The first write: the lock is free and the snapshot still the newest.      *)
WriteLock(w) ==
  /\ holder = None
  /\ \/ calls[w].pc = "read" /\ calls[w].snapshot = version
        /\ calls' = [calls EXCEPT ![w].pc = "write"]
     \/ calls[w].pc = "begin" /\ ~ReadsFirst(calls[w].call)
        /\ calls' = [calls EXCEPT ![w] = [Looked(w) EXCEPT !.pc = "write"]]
  /\ holder' = w
  /\ UNCHANGED <<store, version, issued, removed, answers, told, anchorVars, catchUpVars>>

(* A retryable attempt, rolled back: the next one starts from nothing.       *)
Retried(w) ==
  IF calls[w].attempt < MaxAttempts
  THEN [calls EXCEPT ![w] = [NoCall EXCEPT !.pc = "begin", !.call = calls[w].call,
                               !.ev = calls[w].ev, !.attempt = calls[w].attempt + 1]]
  ELSE [calls EXCEPT ![w] = NoCall]

Busy(w) ==
  /\ \/ calls[w].pc \in {"begin", "read"} /\ holder # None
     \/ calls[w].pc = "read" /\ calls[w].snapshot # version
  /\ calls' = Retried(w)
  /\ UNCHANGED <<store, version, holder, issued, removed, answers, told, anchorVars, catchUpVars>>

-----------------------------------------------------------------------------
(* The writes of the transaction.                                            *)

(* A workspace against the session's; None is the empty one.                 *)
ClassifyWorkspaceRelationship(canonical, ws) ==
  IF canonical = None \/ ws = None THEN "unknown"
  ELSE IF canonical = ws THEN "exact" ELSE "conflict"

(* workspaceRelationshipForEvent, with no reviewed alias.                    *)
relationship(c) ==
  ClassifyWorkspaceRelationship(
    IF session # NoSession THEN session.ws
    ELSE IF c.kind \in {"start", "one_shot"} THEN c.ws ELSE None, c.ws)

(* upsertWorkspaceObservation: one row per key with a count; a delivery and  *)
(* attribution that some row still names is not counted again.               *)
upsertWorkspaceObservation(c, kind) ==
  LET rec == DeliveryRecordID(c)
      key == <<c.ws, relationship(c), c.kind, kind>>
      n == IF key \in DOMAIN observations THEN observations[key].count ELSE 0
      known == rec # None /\ \E k \in DOMAIN observations :
                               observations[k].rec = rec /\ observations[k].attr = c.ws
  IN observations' = IF known THEN observations
                     ELSE With(observations, key, [count |-> n + 1, rec |-> rec, attr |-> c.ws])

(* INSERT OR IGNORE on the record and the proposed id.                       *)
insertHookDeliveryAttempt(c, e, outcome) ==
  LET k == <<DeliveryRecordID(c), e>>
  IN attempts' = IF c.id = None \/ k \in DOMAIN attempts THEN attempts
                 ELSE With(attempts, k, outcome)

Status(w) == IF calls[w].accepted THEN "conflict" ELSE "accepted"

(* The unique keys of hook_deliveries.                                       *)
identityRace(w) ==
  LET c == calls[w].call
  IN /\ c.id # None /\ calls[w].found = None
     /\ \/ DeliveryRecordID(c) \in DOMAIN ledger
        \/ Status(w) = "accepted" /\ findAcceptedHookDelivery(c)

insertHookDelivery(w, e) ==
  LET c == calls[w].call
  IN ledger' = IF c.id = None THEN ledger
               ELSE With(ledger, DeliveryRecordID(c), [status |-> Status(w), event |-> e])

Attested(c) == c.kind = "prompt"
appendAttestationLink(c, e) == chain' = IF Attested(c) THEN Append(chain, e) ELSE chain

(* afterInsert: the session row a boundary leaves behind.                    *)
insertSessionRowIfMissing(c) ==
  IF session # NoSession THEN session
  ELSE [mode |-> IF c.kind = "one_shot" THEN "one_shot" ELSE "interactive", ws |-> c.ws, ended |-> None]
saveSessionBoundary(c) ==
  session' = CASE c.kind = "finish" -> [session EXCEPT !.ended = c.reason]
               [] Boundary(c) /\ c.kind # "finish" -> insertSessionRowIfMissing(c)
               [] OTHER -> session

(* The start event a repeated ordinary registration is answered with.        *)
Starts(ws) == {e \in DOMAIN rows : rows[e].kind \in {"start", "one_shot"} /\ rows[e].ws = ws}
NeverRegistered(c) == FALSE
Registered(c) == c.kind = "start" /\ session.mode = "interactive"
                 /\ session.ws = c.ws /\ Starts(c.ws) # {}

(* A boundary that guardOrdinaryRegistration, guardSessionBoundaryOwnership  *)
(* or saveSessionBoundary refuses.                                           *)
RefusedBy(c, redelivered) ==
  CASE c.kind = "start" -> session # NoSession /\ (session.mode = "one_shot" \/ session.ws # c.ws)
    [] c.kind = "one_shot" -> session # NoSession
    [] c.kind = "end" -> session.mode = "one_shot"
    [] c.kind = "finish" -> \/ session.mode # "one_shot"
                            \/ session.ended # None /\ (session.ended # c.reason \/ ~redelivered)
    [] OTHER -> FALSE

Writing(w) == calls[w].pc = "write" /\ holder' = None
Committed(w, e, head) ==
  /\ version' = version + 1
  /\ calls' = [calls EXCEPT ![w].pc = "committed", ![w].event = e, ![w].head = head]

\* records the event of a redelivery again
RedeliverInserts(w) ==
  LET c == calls[w].call IN
  /\ Writing(w) /\ calls[w].found # None /\ ~RefusedBy(c, TRUE) /\ ~Registered(c)
  /\ insertHookDeliveryAttempt(c, calls[w].ev, "exact_redelivery")
  /\ upsertWorkspaceObservation(c, "supplemental")
  /\ rows' = With(rows, calls[w].ev, c)
  /\ Committed(w, calls[w].found.event, None)
  /\ UNCHANGED <<ledger, chain, session, issued, removed, answers, told, anchorVars, catchUpVars>>

(* An exact redelivery: a receipt, perhaps a new attribution, no event.      *)
Redeliver(w) ==
  LET c == calls[w].call IN
  /\ Writing(w) /\ calls[w].found # None /\ ~RefusedBy(c, TRUE) /\ ~Registered(c)
  /\ insertHookDeliveryAttempt(c, calls[w].ev, "exact_redelivery")
  /\ upsertWorkspaceObservation(c, "supplemental")
  /\ Committed(w, calls[w].found.event, None)
  /\ UNCHANGED <<rows, ledger, chain, session, issued, removed, answers, told, anchorVars, catchUpVars>>

(* recordRegistrationDelivery: a session that is registered already; the     *)
(* receipt binds the delivery to the start event that is there.              *)
Reregister(w) ==
  LET c == calls[w].call
      canonical == Min(Starts(c.ws))
      outcome == IF calls[w].found # None THEN "exact_redelivery" ELSE Status(w)
  IN
  /\ Writing(w) /\ Registered(c) /\ ~identityRace(w)
  /\ IF calls[w].found # None THEN ledger' = ledger ELSE insertHookDelivery(w, canonical)
  /\ insertHookDeliveryAttempt(c, calls[w].ev, outcome)
  /\ IF c.id = None THEN observations' = observations
     ELSE upsertWorkspaceObservation(c, "supplemental")
  /\ Committed(w, canonical, None)
  /\ UNCHANGED <<rows, chain, session, issued, removed, answers, told, anchorVars, catchUpVars>>

(* A new event and everything that is atomic with it.                        *)
Insert(w) ==
  LET c == calls[w].call
      e == calls[w].ev
  IN
  /\ Writing(w) /\ calls[w].found = None /\ ~RefusedBy(c, FALSE) /\ ~Registered(c)
  /\ ~identityRace(w)
  /\ insertHookDelivery(w, e) /\ insertHookDeliveryAttempt(c, e, Status(w))
  /\ rows' = With(rows, e, c)
  /\ appendAttestationLink(c, e)
  /\ upsertWorkspaceObservation(c, "primary")
  /\ saveSessionBoundary(c)
  /\ Committed(w, e, IF Attested(c) THEN chain' ELSE None)
  /\ UNCHANGED <<issued, removed, answers, told, anchorVars, catchUpVars>>

(* errHookDeliveryIdentityRace is retried, a refusal is not; FinalizeOneShot *)
(* looks at the session once more after it (reconcileOneShotTerminalState).  *)
RollBack(w) ==
  LET c == calls[w].call
      refused == RefusedBy(c, calls[w].found # None)
  IN
  /\ Writing(w) /\ (refused \/ identityRace(w))
  /\ calls' = IF ~refused THEN Retried(w)
              ELSE IF c.kind = "finish" THEN [calls EXCEPT ![w].pc = "reconcile"]
              ELSE [calls EXCEPT ![w] = NoCall]
  /\ UNCHANGED <<store, version, issued, removed, answers, told, anchorVars, catchUpVars>>

\* takes the conflict for its own result
ReconcileBlindly(w) ==
  /\ calls[w].pc = "reconcile"
  /\ told' = told \cup {calls[w].call.reason}
  /\ calls' = [calls EXCEPT ![w] = NoCall]
  /\ UNCHANGED <<store, version, holder, issued, removed, answers, anchorVars, catchUpVars>>

Reconcile(w) ==
  /\ calls[w].pc = "reconcile"
  /\ told' = IF session.ended = calls[w].call.reason THEN told \cup {calls[w].call.reason} ELSE told
  /\ calls' = [calls EXCEPT ![w] = NoCall]
  /\ UNCHANGED <<store, version, holder, issued, removed, answers, anchorVars, catchUpVars>>

(* publishAttestationAnchorAfterCommit, whose failure is not reported, then  *)
(* the answer to the caller.                                                 *)
Answer(w) ==
  LET c == calls[w].call IN
  /\ calls[w].pc = "committed"
  /\ IF calls[w].head = None THEN anchor' = anchor ELSE publishAttestationAnchor(calls[w].head)
  /\ answers' = answers \cup {[proposed |-> calls[w].ev, delivery |-> DeliveryRecordID(c),
                               event |-> calls[w].event]}
  /\ told' = IF c.kind = "finish" THEN told \cup {c.reason} ELSE told
  /\ calls' = [calls EXCEPT ![w] = NoCall]
  /\ UNCHANGED <<store, version, holder, issued, removed, doctor, catchUpVars>>

(* A statement or the commit fails, the context ends, or the process dies;   *)
(* SQLite rolls an open transaction back.                                    *)
Stop(w) ==
  /\ calls[w].pc # "idle"
  /\ holder' = IF holder = w THEN None ELSE holder
  /\ calls' = [calls EXCEPT ![w] = NoCall]
  /\ UNCHANGED <<store, version, issued, removed, answers, told, anchorVars, catchUpVars>>

\* deletes an event of any kind
DeleteAny(e) ==
  /\ holder = None /\ e \in DOMAIN rows
  /\ rows' = [x \in DOMAIN rows \ {e} |-> rows[x]]
  /\ removed' = With(removed, e, rows[e])
  /\ version' = version + 1
  /\ UNCHANGED <<ledger, attempts, observations, chain, session, holder, calls, issued, answers,
                 told, anchorVars, catchUpVars>>

(* DeleteTranscript, a statement of its own; the receipt stays.              *)
DeleteTranscript(e) ==
  /\ holder = None /\ e \in DOMAIN rows /\ rows[e].kind = "transcript"
  /\ rows' = [x \in DOMAIN rows \ {e} |-> rows[x]]
  /\ removed' = With(removed, e, rows[e])
  /\ version' = version + 1
  /\ UNCHANGED <<ledger, attempts, observations, chain, session, holder, calls, issued, answers,
                 told, anchorVars, catchUpVars>>

-----------------------------------------------------------------------------
(* backfillWorkspaceObservationsBatch, which every initialization of the     *)
(* store runs: one batch of events older than the frontier, newest first,    *)
(* selected outside the transaction that writes its observations. A failure  *)
(* is logged and the opening goes on; ids are in the order of created_at.    *)
Recorded == DOMAIN rows \cup DOMAIN removed
RecordedCall(e) == IF e \in DOMAIN rows THEN rows[e] ELSE removed[e]

At(w, pc) == opening[w].pc = pc
OpeningTo(w, step) == opening' = [opening EXCEPT ![w] = step]
Opened(w) == OpeningTo(w, NoOpening)
NotSaving == UNCHANGED <<rows, ledger, attempts, chain, session, calls, issued, removed, answers,
                         told, anchorVars>>
NothingStored == NotSaving /\ UNCHANGED <<observations, version, holder>>

(* workspaceObservationBackfillIsExhausted.                                  *)
OpenStore(w) ==
  /\ At(w, "idle") /\ calls[w].pc = "idle" /\ ~catchup.exhausted
  /\ catchup.opens < 2 * (MaxEvents - issued)
  /\ OpeningTo(w, OpeningAt("frontier", 0, {}, None))
  /\ catchup' = [catchup EXCEPT !.opens = @ + 1]
  /\ NothingStored

(* readWorkspaceObservationCatchUpState.                                     *)
ReadFrontier(w) ==
  /\ At(w, "frontier")
  /\ OpeningTo(w, OpeningAt("select", catchup.frontier, {}, None))
  /\ UNCHANGED catchup /\ NothingStored

(* The batch, and the session's workspace as it is now.                      *)
Older(f) == {e \in DOMAIN rows : f = 0 \/ e < f}
Newest(S) == {e \in S : Cardinality({x \in S : x > e}) < BatchSize}
SelectBatch(w) ==
  LET batch == Newest(Older(opening[w].frontier)) IN
  /\ At(w, "select")
  /\ OpeningTo(w, IF batch = {} THEN OpeningAt("probe", 0, {}, None)
                  ELSE OpeningAt("begin", 0, batch, session.ws))
  /\ UNCHANGED catchup /\ NothingStored

(* The first upsert takes the writer lock; the transaction read nothing      *)
(* before it. A busy store is tried again from the frontier.                 *)
BeginBatch(w) ==
  /\ At(w, "begin") /\ holder = None /\ holder' = w
  /\ OpeningTo(w, OpeningAt("write", 0, opening[w].batch, opening[w].canonical))
  /\ UNCHANGED <<catchup, observations, version>> /\ NotSaving
BusyBatch(w) ==
  /\ At(w, "begin") /\ holder # None
  /\ OpeningTo(w, OpeningAt("frontier", 0, {}, None))
  /\ UNCHANGED catchup /\ NothingStored

(* upsertWorkspaceObservation with origin backfill: a row that is there      *)
(* stays as it is.                                                           *)
backfillKey(e, canonical) ==
  LET c == RecordedCall(e)
  IN <<c.ws, ClassifyWorkspaceRelationship(canonical, c.ws), c.kind, "primary">>
\* counts the events of the batch again
BackfillCounts(batch, canonical) ==
  LET keys == {backfillKey(e, canonical) : e \in batch}
  IN [k \in DOMAIN observations \cup keys |->
        [count |-> 1 + (IF k \in DOMAIN observations THEN observations[k].count ELSE 0),
         rec |-> None, attr |-> k[1]]]
backfilled(batch, canonical) ==
  LET keys == {backfillKey(e, canonical) : e \in batch}
  IN [k \in DOMAIN observations \cup keys |->
        IF k \in DOMAIN observations THEN observations[k]
        ELSE [count |-> 1, rec |-> None, attr |-> k[1]]]

CommitBatch(w) ==
  /\ At(w, "write") /\ holder' = None
  /\ observations' = backfilled(opening[w].batch, opening[w].canonical)
  /\ catchup' = [catchup EXCEPT !.frontier = Min(opening[w].batch)]
  /\ version' = version + 1
  /\ Opened(w) /\ NotSaving

(* Nothing was selected: the catch-up is over if there is any event at all.  *)
ProbeEvents(w) ==
  /\ At(w, "probe")
  /\ IF DOMAIN rows = {} THEN Opened(w) ELSE OpeningTo(w, OpeningAt("mark", 0, {}, None))
  /\ UNCHANGED catchup /\ NothingStored

(* markWorkspaceObservationCatchUpExhausted.                                 *)
MarkExhausted(w) ==
  /\ At(w, "mark") /\ holder = None
  /\ catchup' = [catchup EXCEPT !.exhausted = TRUE]
  /\ version' = version + 1
  /\ Opened(w) /\ UNCHANGED <<observations, holder>> /\ NotSaving

(* A statement fails, the attempts are used up, or the process dies.         *)
StopOpening(w) ==
  /\ ~At(w, "idle")
  /\ holder' = IF holder = w THEN None ELSE holder
  /\ Opened(w) /\ UNCHANGED <<catchup, observations, version>> /\ NotSaving

CatchUpStep(w) ==
  \/ OpenStore(w) \/ ReadFrontier(w) \/ SelectBatch(w) \/ BeginBatch(w) \/ BusyBatch(w)
  \/ CommitBatch(w) \/ ProbeEvents(w) \/ MarkExhausted(w) \/ StopOpening(w)

-----------------------------------------------------------------------------
Doctor ==
  /\ DoctorStep(chain)
  /\ UNCHANGED <<store, version, holder, calls, issued, removed, answers, told, catchUpVars>>

SaveStep(w) ==
  \/ Look(w) \/ WriteLock(w) \/ Busy(w) \/ Redeliver(w) \/ Reregister(w) \/ Insert(w)
  \/ RollBack(w) \/ Reconcile(w) \/ Answer(w)

DeliveryNext ==
  \/ \E w \in Writers :
       SaveStep(w) \/ Stop(w) \/ CatchUpStep(w) \/ \E c \in Calls : Call(w, c)
  \/ \E c \in Calls : AlreadyEnded(c)
  \/ \E e \in EventIDs : DeleteTranscript(e)
  \/ Doctor
DeliverySpec == DeliveryInit /\ [][DeliveryNext]_deliveryVars

-----------------------------------------------------------------------------
(* Properties.                                                               *)

(* Types, and the writer lock is held by the one process that is writing.    *)
DeliveryTypeOK ==
  /\ DOMAIN rows \subseteq EventIDs /\ \A e \in DOMAIN rows : rows[e] \in Calls
  /\ DOMAIN ledger \subseteq Deliveries
  /\ \A r \in DOMAIN ledger :
       ledger[r] \in [status : {"accepted", "conflict"}, event : EventIDs]
  /\ chain \in Seq(EventIDs)
  /\ holder \in Writers \cup {None}
  /\ \A w \in Writers : calls[w].pc = "write" \/ At(w, "write") <=> holder = w

(* Saving implements RecordOnce: an event is recorded whole or not at all, a *)
(* delivery is bound to one event for good, and every answer names it.       *)
DeliveryOf(e) == DeliveryRecordID(RecordedCall(e))
Once == INSTANCE RecordOnce WITH
  log <- [e \in Recorded |-> DeliveryOf(e)],
  bound <- [r \in DOMAIN ledger |-> ledger[r].event]
RecordsOnce == Once!OnceSpec

(* The receipts add up: a reported identity has one accepted receipt and the *)
(* others are conflicts, in whichever order their writers looked; a receipt  *)
(* was entered by one attempt with its status, the others are redeliveries.  *)
ReceiptsAddUp ==
  /\ \A r \in DOMAIN ledger :
       Cardinality({s \in DOMAIN ledger : s[1] = r[1] /\ ledger[s].status = "accepted"}) = 1
  /\ \A r \in DOMAIN ledger :
       Cardinality({k \in DOMAIN attempts : k[1] = r /\ attempts[k] = ledger[r].status}) = 1
  /\ \A k \in DOMAIN attempts :
       k[1] \in DOMAIN ledger /\ attempts[k] \in {ledger[k[1]].status, "exact_redelivery"}

Workspaces == {c.ws : c \in Calls}
ObservationKeys ==
  Workspaces \X {"unknown", "exact", "conflict"} \X Kinds \X {"primary", "supplemental"}
Counted(ws, rel, kind) ==
  LET key == <<ws, rel, kind, "primary">>
  IN IF key \in DOMAIN observations THEN observations[key].count ELSE 0
EventsOf(ws, kind) ==
  {e \in Recorded : RecordedCall(e).ws = ws /\ RecordedCall(e).kind = kind}
Total(ws, kind) ==
  Counted(ws, "unknown", kind) + Counted(ws, "exact", kind) + Counted(ws, "conflict", kind)

(* What the catch-up is documented to leave behind, and does not: one        *)
(* primary observation of each event.                                        *)
CountedOnce ==
  \A ws \in Workspaces, kind \in Kinds : Total(ws, kind) = Cardinality(EventsOf(ws, kind))

(* The primary observations count the events: of each workspace and kind as  *)
(* many as were recorded, however often these were retried, redelivered,     *)
(* caught up with or since deleted. The catch-up counts one of them twice    *)
(* where it finds a session that was not there when the event came: once for *)
(* a workspace and kind, which then have a row of both relationships.        *)
PrimaryCountsEvents ==
  /\ DOMAIN observations \subseteq ObservationKeys
  /\ \A ws \in Workspaces, kind \in Kinds :
       LET n == Cardinality(EventsOf(ws, kind)) IN
       \/ Total(ws, kind) = n
       \/ /\ Total(ws, kind) = n + 1
          /\ Counted(ws, "unknown", kind) > 0
          /\ Counted(ws, "exact", kind) + Counted(ws, "conflict", kind) > 0

(* The books of the store balance: types, receipts and their attempts, and   *)
(* the counts of the workspaces observed.                                    *)
DeliveryInv == DeliveryTypeOK /\ ReceiptsAddUp /\ PrimaryCountsEvents

(* The chain attests each prompt in the store once, and nothing else.        *)
ChainAttestsEvents ==
  /\ IsInjective(chain)
  /\ Range(chain) = {e \in DOMAIN rows : Attested(rows[e])}

(* The session was started once and, when it is one-shot, ended by one event *)
(* of the supervisor, the one whose reason it keeps: concurrent starts and   *)
(* finalizers agree.                                                         *)
OneStartOneEnd ==
  /\ Cardinality({e \in DOMAIN rows : rows[e].kind \in {"start", "one_shot"}}) <= 1
  /\ Cardinality({e \in DOMAIN rows : rows[e].kind = "finish"}) <= 1
  /\ \A e \in DOMAIN rows : rows[e].kind = "finish" => session.ended = rows[e].reason

(* A caller that was told its terminal reason was applied was told the truth.*)
ToldTheTruth == told \subseteq {session.ended}

(* The anchor file is a history of the chain.                                *)
PublishedHistory == AnchorIsHistory(chain)
=============================================================================
