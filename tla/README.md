# Formal models of traceary

TLA+ models, TLC configurations and TLAPS proofs for the parts of traceary
whose correctness depends on the order in which things happen. File and line
references are to the Go sources of this repository.

Contents: [the system](#1-the-system), [the models](#2-the-models),
[the runs](#3-the-runs), [fairness](#4-fairness), [the proofs](#5-the-proofs),
[what the checks found](#6-what-the-checks-found),
[what is left out](#7-what-is-left-out), [plan](#8-plan).

## 1. The system

traceary records what coding agents do (events, commands, sessions, usage) in a
local SQLite store, distils memories from them, and runs a local daemon that
owns agent processes attached to terminals. The parts, the state each keeps,
and what is hard about it:

| Component | State | Operations | Interacts with | Hard behaviour |
|---|---|---|---|---|
| Launch coordination (`application/runtime/launch.go`) | `tickets`, `runs`, counters `pending`, `active`, `revision`, all under `s.mu` | `Launch`, coordinator `launch`, `fail`, `reconcile`, `AwaitIdle` | journal, recovery store, launcher, child | callers share one attempt; a waiter leaving races the commit; every external call can fail with or without effect |
| Lifecycle (`application/runtime/lifecycle.go`) | preview, shutdown tickets, fences, uncertainty | `InitializeLifecycle`, `PreviewShutdown`, `CancelShutdown`, `ConfirmShutdown`, `PublishCleanShutdown` | launches, controls, lifecycle store, children | a human confirms a plan that must still be true when it is carried out |
| Controls (`application/runtime/control.go`, `domain/runtime/control.go`) | tickets, busy flag and receipt ledger of each run | `Control`, `Receipt` | lifecycle fences, control store, child | an effect on a terminal cannot be undone or repeated; receipts must not lie |
| Update deferral (`application/runtime/update.go`) | deferred update, notice | `AttemptUpdate`, `HandoffUpdate`, notices | lifecycle coordinator, launch fences | quiescence seen and then used |
| Resume and recovery (`application/runtime/resume.go`, `recovery.go`) | resume tickets, recovery records | `Resume`, roster, classification | launch counters, recovery store | a second way to start a child |
| Stores of the runtime (`infrastructure/runtime/*_store_unix.go`) | `execution.json`, `recovery.json`, `receipts.json`, `lifecycle.json`, registry | reserve, save, record epoch / clean | every coordinator | an ambiguous rename; records of a dead epoch |
| Daemon (`infrastructure/runtime/daemon_unix.go`) | socket, connections | `Serve` and request dispatch | owner | order of the steps that stop it |
| PTY child (`infrastructure/runtime/pty*_unix.go`) | master descriptor, watch goroutine, closing flag | start, control, close, wait | owner, output stream | close races control and exit |
| Output stream (`application/runtime/output.go`) | ring buffer, cursors, resize acknowledgements | append, subscribe, read, finish | PTY child, readers | slow readers and a bounded ring |
| Observation gate and projection (`observation*.go`, `projection.go`) | samples, revisions, gap state | sample, invalidate, project | daemon readers | concurrent readers share a sample that may be stale |
| Hook spool (`presentation/cli/hook_spool.go`) | spool directory, modification times | publish, promote, clear, recover, claim, replay, requeue, bury, doctor's requeue and prune | hook processes and doctor share the directory without a lock; the event store | owners are told from orphans by age only; a process dies at any call |
| Event delivery (`infrastructure/sqlite/event_delivery_store.go`, `event_datasource.go`, `workspace_observation_backfill.go`) | events, `hook_deliveries` and their attempts, workspace observations, the frontier of their catch-up | decide and save a delivery, retry, redeliver, delete a transcript, catch the observations up when the store is opened | hooks, spool replays, CLI | concurrent and repeated deliveries; a decision read from a snapshot that is old when it is written; a second writer of the observations |
| Sessions (`application/usecase/session_usecase_impl.go`, `infrastructure/sqlite/session_datasource.go`) | `sessions` rows, boundary events | start, register again, end, finish a one-shot session | event delivery | two starts or two finalizers between a check and a write |
| Attestation (`domain/attestation`, `infrastructure/sqlite/attestation_*.go`) | `attestation_links`, the anchor file `{store}.attest` | link, publish, doctor's verification and repair | event delivery, doctor | the anchor is written after the commit by whoever comes first |
| Memories and usage (`application/usecase`, `infrastructure/sqlite/memory_datasource.go`, `usage_*.go`) | SQLite tables | propose, accept, expire; observe | hooks, CLI, MCP | late events |
| Store compaction and prepared upgrade (`application/usecase/store_compaction.go`, `prepared_store_upgrade.go`, `infrastructure/sqlite/compaction_files.go`) | one journal per run, the candidate and retained files, the directory | compact, resume, roll back, abandon, upgrade, doctor's sweep | store lease, hooks that write meanwhile | a kill or a power loss between any two system calls |
| Store lease (`infrastructure/sqlite/store_lease*.go`) | an advisory lock beside the store, the compact-pending marker | connect, acquire and release exclusively | everything that opens the store | a stale marker; a writer that yields too late |
| Reports, bundles, redaction, CLI, tooling | none of their own | conversions | | sequential |

The runtime owner (the first four rows) carries the concurrency of the program:
one mutex, four kinds of goroutine (launch coordinators, reconcilers, control
coordinators, shutdown coordinators), and the daemon. It is modelled first.
The hook spool, where processes meet with nothing but file renames between them, comes
second. The store is the third place: its maintenance replaces the database under the
hooks that write to it, and its delivery transaction is where what the hooks repeat
becomes one record.
`PROJECT.json` lists every component with its status, and every hazard with the
line where it bites and the properties aimed at it.

How the owner's goroutines interact:

- Every caller of `Launch` with the same request id waits on the same ticket.
  The ticket's coordinator validates, commits under the lock, writes intent to
  `execution.json`, starts the child, attaches it, publishes it and closes the
  ticket's channel. Failures go to `fail`, which either drops the ticket (nothing
  was committed) or keeps it for ever.
- An attached child has one reconcile goroutine: `Wait`, save the exit, write
  recovery evidence, release the reservation.
- A shutdown is previewed, confirmed with exactly the previewed binding, and
  carried out by a coordinator that raises `shutdownPreparing`, validates the
  children outside the lock, re-checks the revision, reserves durably, commits,
  closes the terminals concurrently and saves the outcome.
- A control is admitted only between shutdowns (only `stop` after a commit), one
  at a time per run: it reserves a ledger slot, reserves durably, performs one native
  effect, saves and publishes its receipt.
- A hook's delivery is spooled, handled and removed from the spool; the handler saves it
  in one transaction, publishes the new head of the attestation chain and answers. What
  is left in the spool is replayed and recognised by its receipt.
- A connection holds the store's lock shared. A maintenance command takes it
  exclusively for its whole life; a writer that sees the pending marker waits.
- `Serve` stops on a signal or a committed shutdown: it disables launches,
  waits for `pending + active + controlsPending + lifecyclePending = 0` and asks
  `PublishCleanShutdown` for the clean marker.

## 2. The models

Each `Runtime` module extends the one above it. `StoreCompaction` extends `StoreLease`,
`EventDelivery` extends `AttestationAnchor` and implements `RecordOnce`; `HookSpool` stands alone.

| Module | Models | Code |
|---|---|---|
| `RuntimeState` | the variables of `Runtime`, records, `changedLocked`, `executionAdmissionClosedLocked`, `SaveLaunch` | `launch.go`, `execution_store_unix.go` |
| `RuntimeLaunch` | callers, coordinator, `fail`, child, reconciler | `launch.go`, `domain/runtime/launch.go` |
| `RuntimeLifecycle` | epoch start, plans, `lifecycle.json`, the end of `Serve` | `lifecycle.go`, `lifecycle_store_unix.go`, `daemon_unix.go` |
| `RuntimeControl` | control coordinators, ledger, `receipts.json`, the terminal barrier; `RuntimeSpec` is the whole owner | `control.go`, `domain/runtime/control.go`, `control_store_unix.go`, `pty_control_unix.go` |
| `HookSpool` | the spool directory, hook and doctor processes | `hook_spool.go`, `event_delivery_store.go` |
| `StoreLease` | the lock, the marker, connections and maintenance calls | `store_lease.go`, `store_lease_pending.go`, `store_lease_unix.go` |
| `StoreCompaction` | compaction, rollback, abandonment, the prepared upgrade, doctor's sweep, hooks that write, kills and power losses | `store_compaction.go`, `prepared_store_upgrade.go` (both layers), `compaction_files.go`, `doctor_compact_leftovers.go`, `doctor_store_size.go` |
| `AttestationAnchor` | the anchor file, its publishers, doctor's inspection | `attestation/anchor.go`, `attestation_anchor.go` |
| `EventDelivery` | the delivery transaction, its retries, session boundaries, the chain, the catch-up of observations | `event_delivery_store.go`, `workspace_observation_backfill.go`, `session_datasource.go`, `session_usecase_impl.go`, `attestation_store.go` |
| `RecordOnce` | what saving promises: an abstract specification of three actions | |
| `MCLaunch`, `MCLifecycle`, `MCDrain`, `MCControl`, `MCSpool`, `MCCompaction`, `MCDelivery` | instances for TLC | |
| `RuntimeLaunchProofs`, `RuntimeOutcomeProofs`, `RuntimeLifecycleProofs`, `RuntimeProofs`, `HookSpoolProofs`, `EventDeliveryProofs`, `StoreLeaseProofs`, `StoreCompactionProofs` | proofs (section 5) | |

Conventions:

- **Steps.** A section that runs under `s.mu` is one step. Each call made outside the
  lock is a step of its own, so anything may happen between two of them. A
  goroutine's position is a `pc` in the record of the object it serves: `tk[t].pc`
  for a launch coordinator, `runs[t].pc` for a reconciler, `plans[p].pc` and
  `controls[t][k].pc` for the others.
- **Failures.** A durable write has four outcomes where the code can tell them apart:
  written and reported; refused; failed with a definite error; failed
  ambiguously, with the write done or not. Where the code sees only an error,
  "written" and "not written" are both possible behind it. A start has the outcomes of
  `ErrLaunchUnknown`: a handle, a proof that nothing runs, or neither (`"lost"`).
- **Identity.** A ticket object stands for the run it starts. A ticket that was
  aborted, left by its coordinator and by its last waiter is unreachable in the code and is
  reused by the model; this keeps three tickets enough for any number of retries.
- **Data.** Snapshots keep the process state and the latched uncertainty.
  A worktree and profile is a `Selection`. A binding's digest is the rows it digests.
  A preview nonce is a plan identifier that is used for one confirmation.
- **Revision.** `revision` saturates at `MaxRevision` exactly as the 64-bit counter
  does: the step that meets the limit exhausts the owner and closes admission. The
  bound of the model is therefore also a behaviour of the code, and the runs reach it.
- **Mutants.** An operator introduced by a `Mutant` comment, or by a `\*` line that says what
  it forgets, is a plausible wrong version of the definition that follows. No action uses
  it; it shows that a property can fail.

`closed` records the runs whose terminal master was closed; `effects` counts
native effects of a control and saturates at two, enough to see a repetition. Both
are observations of the outside world and no guard but the child's own barrier
reads `closed`.

**The spool.** `files` maps the names in the directory to records; a record keeps its
delivery, whether it still has its receipt, its attempts, whether its last error may be
requeued, and the age of the file. `procs[p]` is a process with its position, the path
and record it works on, and what is left of its listing. Every `ReadDir`, `Lstat`, `Rename`,
`Chtimes`, read, write and `Remove` is a step, so two processes interleave between any two
calls. Listing a directory and reading the ages of its files is one step. A call fails without
effect when its file is gone, or as one of `MaxFaults` faults; a crash is a fault, and so
is a live process that keeps a file beyond the stale age (one minute, against a
soft deadline of eight seconds). That a *pending* file grows old is not. A handler that reports an error
may have committed. `Handle` is the event store's decision: a receipt that was recorded is
recognised. `LaterHook` is the hook of a delivery outside `Deliveries`, which succeeded and
goes on to the backlog. `older` keeps which base names were in use
when a `zz-retry` name was given, the order they sort in. The caps of 200
records per doctor batch are not reached by the instances.

**The lease.** The kernel's lock is not a variable: it is held by whoever is in `"locked"`, `"held"` or
`"unlocking"` of `excl`, or `"open"` of `conn`, and disappears with the process. Reading the marker, removing
a stale one and asking for the lock are separate steps, so a marker may be overwritten or removed under a
new owner; a writer that reads the marker of a live process is refused.

**Compaction.** `inode` holds files (records, content version, whether they are complete and synced), `dir` the
names, `durable` the directory as last synced. An identity is an inode with its version, as `StoreFileIdentity`
is; `SameInode` compares the first half. A command is a *list of system calls and journal phases*, `task.todo`,
computed where the code computes it: `ApplySteps` for a fresh run, `RecoverySteps` from the phase and the inodes
observed (`RecoveryActions`), `RollbackSteps` after the guard. `Step` performs the first one; a phase the journal
does not allow, or a fence that finds another identity, ends the command. The process may be killed between any two
steps. A power loss leaves the directory as it is or as it was last synced, and tears any file that was
not; a journal append is synced by the call that makes it. Doctor's sweep works without the lease, as in the
code. `acked`, `exposed` and `swept` are history: what hosts were told is stored, which of it was told in the window
of the known loss (section 6) or before the exchange was durable, and which runs in flight lost a file to a sweep.

**Delivery.** SQLite in WAL mode: a transaction that reads first has a snapshot and fails with `BUSY` when
somebody committed before its first write; one writer at a time. What a call read before it took the lock is
kept in its record, its writes appear together at the commit, and the retry loop of `maxDeliveryDecisionAttempts`
is kept. A boundary is checked by the use case and then again in the transaction, and the two may disagree. The
process may end or fail at each step, after the commit too.
Workspace observations have a second writer: every process that opens the store runs `backfillWorkspaceObservationsBatch`
(`OpenStore` to `MarkExhausted`, one action per statement whose result another process can change). It selects a batch of events older than the frontier, newest
first, with the session's workspace as it is then, and writes their observations in a transaction of its own later (`CommitBatch`); a row that is there stays as
it is, but the relationship is part of its key. `opening` is the opening of each process, `catchup` the stored frontier; a process either opens or saves.
The head of the attestation chain is a digest over all links, so it is modelled by the sequence it covers.
`RecordOnce` is what a caller may rely on: `Record` (a new event with its delivery), `Attach` (a delivery that adds
nothing) and `Reply`. The refinement mapping of `EventDelivery` takes the log from the rows (deleted transcripts
included) and the binding from `hook_deliveries`; every other step is a stutter.

## 3. The runs

| Run | Instance | Properties |
|---|---|---|
| `launch` | 2 callers, 2 requests, 2 selections, 3 tickets, room for one run, revision to 8 | `LaunchInv`, `AtMostOneSpawnPerRequest`, `IdleMeansReconciled`, `DurableOutcomes`, `CommitOnlyWhileWanted`, `UncertaintyLatched` |
| `lifecycle` | from the first state: 1 request with retry, 2 plans, revision to 14 | `LifecycleInv`, `DrainingClosedEverything`, `RejectedPlanHasNoEffect`, `CleanMeansReconciled`, `SpawnsInsideEpoch` |
| `drain` | one owned run, a second launch in flight, one plan, fair | `ConfirmedRosterComplete`; `PlansEnd`, `ServeReturns`, `LaunchesEnd` |
| `controls` | one owned run, two control ids of any kind, fair | `ControlInv`, `AtMostOneEffect`, `ReceiptsTruthful`, `ReceiptsImmutable`; `ControlsEnd` |
| `controls_shutdown` | one owned run, one control, one plan | `PlanExcludesControls`, `OnlyStopAfterCommit` |
| `clean_race` | one request, one plan | violated: `NoCleanAfterUncertainCommit` (section 6) |
| `spool` | 2 deliveries, 3 processes that run once each, 1 fault, 2 attempts, 1 claim per drain | `SpoolInv`, `EventOnce` |
| `spool_live` | 2 deliveries, processes one after the other for ever, 1 fault, fair | `Settles` |
| `compaction` | one hook, one operator, 2 runs, 1 record, 3 files; compact, rollback, doctor; 2 power losses | `CompactionInv`, `LeaseExclusion`, `StoreAlwaysWhole`, `OnlyRollbackWindowLoses`, `JournalNotAhead`, `OriginalKept`, `CrashLeavesResumable` |
| `maintenance` | the same processes, 2 files; compact, upgrade, sweep; 1 kill | `NoAcknowledgedLoss`, `NoDisplacedWriter` |
| `compaction_loss` | compact and rollback, 1 kill, no power loss | violated: `NoAcknowledgedLoss` (section 6) |
| `delivery` | 2 processes, 3 calls of any kind, or 2 openings of the store in the place of a call, batches of one event, 2 attempts each, doctor | `DeliveryInv`, `ChainAttestsEvents`, `OneStartOneEnd`, `ToldTheTruth`, `PublishedHistory`; `RecordsOnce` (refinement) |

Some properties are conjunctions of named parts, each with its own comment in its module:

| Property | Parts |
|---|---|
| `LaunchInv` | types, `ReservationAccounting`, the bound on reservations, `WaitersCounted`, the map of tickets, what callers may rely on, `TicketInv`; it implies `ChildrenBounded`, `DurableIntentBeforeSpawn` and `StartedTicketRetained` (section 5) |
| `DurableOutcomes` | `SuccessIsDurable`: a caller told success finds the run in the journal; `RecoveryNeedsDurableExit` |
| `LaunchesEnd` | `CallersAnswered`, `ExitsReconciled` |
| `LifecycleInv` | `OnePlanAtATime`, `CloseAfterDurableIntent`, `ConfirmedRosterComplete` |
| `SpawnsInsideEpoch` | a child is started only after the epoch marker and before a shutdown is committed |
| `ControlInv` | types, `ControlAccounting`, `StopSlotsReserved`, `EffectAfterDurableIntent` |
| `SpoolInv` | types, `NothingLost` |
| `CompactionInv` | types, a command at work holds the lease, `AtMostOneForwardRun` |
| `DeliveryInv` | types, `ReceiptsAddUp`, `PrimaryCountsEvents`: per workspace and kind, the primary observations count the recorded events, or one more when there are both an unknown and a known relationship |

**Bounds.** Two callers are enough for sharing, for one leaving while the
other stays, and for the last one leaving. Three tickets over two requests allow an
aborted attempt to be retried while another request is in flight. `MaxActiveRuns`
is one in `launch`, so that the limit is reached and a failed accounting step on any path lets a
second process in; the proofs cover any number of slots.
Each launch consumes four revisions and a plan three, so `MaxRevision` is chosen to let the
longest interesting sequence finish and then to run into saturation. Ledgers have two
slots of which one is reserved for `stop`: the limit is met by the second control.

In the spool three processes are the fewest that publish a delivery, claim it and overtake
the claim; each runs once (`Respawn = FALSE`), because duplicated files could otherwise multiply
without end. Two attempts give both a retry and a dead letter, one claim per drain makes
the order of the queue matter, and two names for moved files are enough for two deliveries
handled by one process at a time (three when processes overlap; when no name is free the call fails,
as it does when `rand.Read` fails).

In the store's runs one operator is enough, because the lease admits one command at a time (which is proved for
any number); a kill lets another command follow. A power loss that keeps the directory is, for the one command at
work, a kill, so the two of `compaction` are any two interruptions, the second one of the recovery of the first. The second run of `compaction` is there for a compaction after an
interrupted one and for a rollback beside it, and the third file for its candidate. One record shows a loss; two
content versions tell a file that was written to after a fence from one that was not. `maintenance` needs no power
loss: what it asks is whether the sweep, the upgrade and the compaction harm each other. In
`delivery` three calls are a delivery, its redelivery and a call that interferes with either; two attempts give one
retry and one failure; the calls cover a redelivery, two contents of one identity, two workspaces, every kind of boundary and two
terminal reasons. Two openings in the place of a call leave two calls for an event that comes before its session and the session itself, and let the
openings overlap each other and them; with batches of one event a second opening continues where the first stopped. The ids stand for the order of `created_at`.

**Starting states.** `MCDrain` and `MCControl` begin after the epoch was
bound and one launch succeeded, a state that `lifecycle` reaches from the first one, so that
their depth goes into the shutdown and the controls. The revision is the one that prefix leaves.

**Deadlock** is checked in the launch, lifecycle and drain runs, where an idle caller can always ask
again. The control runs have no callers: when every control is
finished and `Serve` has returned nothing more can happen, and that is the system's end. The spool runs
with processes that run once end when all of them have ended, and `delivery` when its event ids are
used up. The compaction runs check deadlock: a connection can always be opened or given up.

**Symmetry** is used only in runs without liveness properties, over sets
whose elements the specification never distinguishes.

## 4. Fairness

- `Coordinator(t)`, `Plan(p)`, `Perform(t, k)`: weak fairness. They are
  goroutines that hold no lock across an external call, and each such call carries a context
  deadline (five seconds for a launch, and the control and shutdown budgets), after
  which it returns with an error. An error is one of the modelled outcomes.
- `Reconcile(t)`: weak fairness only once the child is dead or `Wait` has returned. A
  child need never exit.
- `LaunchAnswered(c)`: weak fairness; the `select` on a closed channel is ready and stays ready.
- `Serve`: it must notice a *committed* shutdown (`AwaitShutdownConfirmation`);
  nothing forces a signal. Its own remaining steps are fair.
- `HookSpool`: weak fairness for the steps of a process (the operating system
  schedules it until it ends or is killed) and for the ageing of files outside `dead/`; strong fairness for `LaterHook`: an agent in use
  keeps firing hooks however often doctor runs. The last one is needed: `countHookSpoolPendingPaths`
  does not count claims, so doctor alone never recovers an orphaned claim. `Settles` is checked for
  processes that follow one another. Two drainers that race without end can keep releasing each
  other's claim (the race of section 6), which no scheduling assumption of the code excludes.
- The compaction and delivery runs check safety only and assume nothing.
- No fairness for callers, admissions, child exits, previews, confirmations, or the
  choice between success and failure of any call.

`ServeReturns` has the exception the code makes on purpose: a run whose exit
could not be observed keeps its reservation, and `AwaitIdle` waits for it.

## 5. The proofs

`tlapm` checks eight modules. The constants are arbitrary: finite sets of any size for callers, requests, tickets,
plans and controls, any processes, deliveries, calls, runs and records, any limits. The assumptions:

| Assumption | Says |
|---|---|
| `ConstantsAssumption`, `PlansAssumption`, `ControlAssumption` | the sets of the runtime are finite, `None` is in none of them, limits are natural numbers, the receipts reserved for the lifecycle are among all receipts |
| `LeaseAssumption`, `CompactionAssumption` | a dead pid is no process, writers and operators are processes, `None` is no run, bounds are natural numbers, the store is a file |
| `SpoolAssumption`, `NoneAssumption` of `HookSpool` | the retry cap and the batch are positive, `None` is no name, the bases of a requeue are not those of a first delivery |
| `DeliveryAssumption`, `NoneAssumption` of `EventDelivery` | a call is of one of the kinds, two calls with the same id and fingerprint say the same, at least one attempt and one event in a batch, `None` is none of the values it stands in for |

Proved of `Spec` (launches alone) in `RuntimeLaunchProofs` and `RuntimeOutcomeProofs`:

| Theorem | Statement |
|---|---|
| `LaunchInvariant` | the inductive invariant `LaunchInv` |
| `TypeCorrect` | `TypeOK`, the saturating revision included |
| `ReservationsAccounted` | `pending` and `active` count the reservations |
| `ChildrenAreBounded` | at most `MaxActiveRuns` processes, lost ones included |
| `OneSpawnPerRequest` | one process per request id for ever |
| `IntentBeforeSpawn`, `StartedRetained`, `WaitersAreCounted`, `IdleIsReconciled` | the invariants of the same names |
| `CommitsOnlyWhileWanted` | the action property: a start is committed only while somebody waits |
| `OutcomesAreDurable` | `DurableOutcomes`: what a caller was told of a launch, execution.json or a recovery record says too |
| `UncertaintyIsLatched` | `UncertaintyLatched`: an uncertain or exited snapshot is never replaced by a weaker one |

Proved of `LifecycleSpec` (launches, epoch start and shutdown) in `RuntimeLifecycleProofs`:

| Theorem | Statement |
|---|---|
| `ShutdownInvariant` | `LaunchInv`, `OutcomesInv` and `ShutdownInv` together |
| `LifecycleHolds` | `LifecycleInv`: types, one plan at a time, the fences agree with it |
| `RosterIsComplete` | `ConfirmedRosterComplete`: no live child is outside the roster that was confirmed |
| `DrainingIsComplete` | `DrainingClosedEverything`: draining is reported when every terminal of the roster is closed |
| `RejectionHasNoEffect` | `RejectedPlanHasNoEffect`: a plan that is rejected closed nothing |
| `CleanIsReconciled` | `CleanMeansReconciled`: a clean exit leaves no child and no unwritten outcome |
| `SpawnsStayInsideEpoch` | `SpawnsInsideEpoch`: no child before the epoch is durable, none after it ended |

Proved of `RuntimeSpec` (controls as well) in `RuntimeProofs`:

| Theorem | Statement |
|---|---|
| `RuntimeInvariant` | `RuntimeInv`: the invariants above and `ControlsInv` |
| `ControlsHold` | `ControlInv`: types, one coordinator per run, the slots kept for stop |
| `EffectsAtMostOnce` | `AtMostOneEffect`: a control has at most one native effect, its retries included |
| `ReceiptsAreTruthful` | `ReceiptsTruthful`: a receipt that says "no effect" or "done" is right |
| `PlansExcludeControls` | `PlanExcludesControls`: no control is in flight behind a confirmed plan |
| `ReceiptsStay`, `StopAloneAfterCommit` | the action properties `ReceiptsImmutable` and `OnlyStopAfterCommit` |
| `RuntimeLaunchInvariant`, `RuntimeChildrenBounded`, `RuntimeIdleIsReconciled`, `RuntimeShutdownHolds` | what is proved above of launches and of shutdown, with controls beside them |

Proved of `SpoolSpec` in `HookSpoolProofs`, and of `DeliverySpec` in `EventDeliveryProofs`:

| Theorem | Statement |
|---|---|
| `SpoolInvariant`, `SpoolHolds` | `SpoolInv`: types, and a delivery that was published and not handled has a file or a process that will write it back |
| `ReplayedOnce` | `EventOnce`: replays, requeues and races of drainers record one event per delivery |
| `NamesNeverMix` | `SharedBase`: two records under one base name are of the same delivery |
| `SaveInvariant` | the inductive invariant `SaveInv` |
| `ReceiptsAlwaysAddUp` | types, and the attempts of a receipt add up to the calls that committed |
| `BooksAlwaysBalance` | `DeliveryInv`: the above, and for each workspace and kind the primary observations count the events recorded, or one more where an event was observed as unknown and the catch-up found its session later |
| `ChainAlwaysAttests` | `ChainAttestsEvents`: the chain has each prompt once and nothing else |
| `SessionStartsAndEndsOnce` | `OneStartOneEnd`: concurrent starts and finishes leave one of each |
| `CallersToldTheTruth` | `ToldTheTruth`: an answer names the event that carries the delivery |
| `AnchorAlwaysHistory` | `PublishedHistory`: the anchor file is a state the chain was in |
| `SavingRecordsOnce` | the refinement: `EventDelivery` implements `RecordOnce` |

Proved of the store's lease in `StoreLeaseProofs`, and of its maintenance in `StoreCompactionProofs`:

| Theorem | Statement |
|---|---|
| `LeaseExclusionHolds` | `LeaseSpec`: who holds the lock exclusively is alone, whatever becomes of the marker |
| `MaintenanceIsAlone` | the same of `CompactionSpec`, where kills and power losses release the lock |
| `WritersAreOnTheStore` | `NoDisplacedWriter`: every open connection is on the file the store's path names |
| `StoreIsAlwaysWhole` | `StoreAlwaysWhole`: that file is a complete database, now and after a power loss |
| `CompactionHolds` | `CompactionInv`: types, a command works under the lease, one compaction is on its way |
| `OriginalIsKept` | `OriginalKept`: from the exchange on, the displaced store is there, under one name and as it was planned, until an operator rolls back or a sweep removes it |
| `JournalIsNotAhead` | `JournalNotAhead`: what the journal says of the exchange and of the move is so in the synced directory, where no upgrade is among the commands |
| `OnlyRollbacksLose` | `OnlyRollbackWindowLoses`: an acknowledged record that is missing was stored while a rollback was intended or an exchange not yet durable |
| `NoRollbackNoLoss` | `NoAcknowledgedLoss`: no acknowledged record is missing, where no rollback is among the commands and no power is lost |
| `CrashesAreResumable` | `CrashLeavesResumable`: the run in flight is stale, or the next `store compact` resumes or abandons it, or it is in one of six states (section 6), for any commands |

**The inductive invariant of launches.** None of the safety properties is inductive. That `ChildrenBounded`
survives an admission needs `pending + active <= MaxActiveRuns` *and* that every
child that may run holds a reservation; that the latter survives `fail`
needs to know that a coordinator which reports a definite error spawned nothing. `LaunchInv`
therefore consists of the types, the accounting of the two counters, the bound on their sum,
the counting of waiters, the agreement of `s.tickets` with the objects it names, and
`TicketInv(t)`: for every `pc`, what the coordinator of `t` may rely on about its ticket, run,
child and journal record.

**The argument.** A step of a coordinator or reconciler changes one ticket only.
`OwnStepLemma` reduces preservation of `LaunchInv` by such a step to
`TicketInv(t)'`, the change of the two counters and the waiter count of that ticket;
`TicketFrame` says that other tickets keep `TicketInv`; `Accounting` turns "this ticket
stops (or starts) to hold a reservation and the counter goes down (or up) by one" into the
cardinality equations, from `CountChange` about one element entering or leaving a finite set.
`TicketMoves`, `TicketGoes`, `QuietStep` and `RunStep` are the common cases. Each action
has a lemma of its own. Caller steps go through `WaitersStep` and `WaiterLeaves`. `AdmitLaunch`
is the one action that changes the map, and needs that a reused ticket object is pointed to by nobody.

**Outcomes.** `OutcomesInv` ties the four records of one launch together: the run is a copy of the started descriptor until
`reconcile` knows the exit, success is told only after an accepted save, and a save that returned no
error left exactly the run in the journal. `SaveLaunch` refuses to weaken a snapshot, which gives the action property.

**Shutdown.** `ShutdownInv` says for every step of `performShutdown` what it knows of its plan (`PlanInv`). The
roster stays complete because a confirmation finds no launch in flight (`LaunchInv` turns `pending = 0` into
"no ticket holds a reservation") and from then on a fence closes admission: first the plan that prepares, then
`disabled`, for good. What a clean exit checks under the lock cannot change after it for the same reason.

**Controls and composition.** Shutdown and controls read the launch state and write none of it, so `LaunchInv` and
`OutcomesInv` carry over (`LaunchInvFrame`, `LifecycleLeavesLaunches`, `ControlLeavesLaunches`), and the controls
only count themselves, so `ShutdownInv` does too. `ControlOne(t, k)` is what `performControl` knows at each step: it bounds the effects by
one and ties the receipt to the ledger and to receipts.json; `BusyInv` keeps a second coordinator off the run.

**The spool.** Processes rename, rewrite and remove files they no longer own. This is safe because a base name
belongs to one delivery for as long as anybody mentions it: a rename or a write may replace a file, but only
one of the same delivery. `SpoolIInv` says so with an *assignment* of deliveries to base names that the files and the
records in the hands of processes respect. A step keeps the assignment, or changes it at a fresh base, which nobody
mentions, to the delivery of the file that is moved there.

**The delivery.** What a transaction read is still true when it writes (`SnapshotOK`): its snapshot is the
newest when it takes the writer lock, and nobody commits while it holds it. `BooksInv` adds what receipts,
committed calls, answers and the session row say about the events that are there, and who may hold the lock: a process that is saving or one that is catching
observations up, and never one that does neither (`LockOK`). The refinement is proved action
by action: a commit that adds an event is `Record`, one that finds an event `Attach`, an answer `Reply`, and
every other step leaves the mapped variables alone.

**The counts.** `upsertWorkspaceObservation` does not count a delivery that some row still names, and a row keeps only the last
delivery that was counted in it. For a new event to be counted nevertheless, no row may name its delivery yet. `ObservedOK` says that every delivery a row names has a
receipt; the transaction has found no receipt for its own, and by `SnapshotOK` there still is none. An insertion therefore adds one to the events and one to
a count of their workspace and kind (`PrimaryTally`); a redelivery or a repeated registration changes only supplemental rows, and a deleted
transcript is still among the recorded events. The catch-up may add a row, and what bounds it is that a session keeps the workspace it once has: a primary
row is `unknown` or has the relationship its workspace has to the session's now (`RelatedOK`), so of the two known relationships one never occurs. A batch
that waits for the lock was classified by no workspace or by that same one, and what it has as unknown is there already (`BatchOK`). A row it adds is therefore the first of
the known relationship; until then all events of that workspace and kind had been counted under `unknown`, exactly, and from then on the sum is one too high
for good (`BackfillTally`). `TallyInv` is the conjunction.

**The store.** `LeaseInv` is the types with the exclusion and is inductive. `NoDisplacedWriter` is not: an exchange
changes `dir.source`, so the proof has to know that no connection is open then. `OwnedInv` adds `TaskOwned` (a
command at work is one of a process that *holds* the lock) and `StoreShape` (the directory is a record with
the three fields). `StepHasFrame` says once for all system calls of a command what they may touch: the command
keeps its owner, and the lease and the connections stay as they are. A step of a command then finds no connection (by
`LeaseExclusion`), and every other step leaves `dir.source` alone or, as a power loss does, closes all of them.

**A whole store.** `StoreAlwaysWhole` speaks of two files, and the exchange, a rollback or a power loss may bring a third
one to the path. `FilesInv` calls a file *kept* when a directory has it as the store or a journal has
fenced it as source or candidate, and says that every kept file is complete and synced (`KeptComplete`). An exchange or a power loss only
brings kept files to the path, as the fences compare identities with the journal. What remains is that a
copy never goes to a kept file, and that a candidate is fenced only when it is complete: while a run builds, its candidate
is no kept file and no other run's (`CandidatesApart`); and `WorkOK` says what the steps *left* of a command rely on:
a copy comes only in the phase `candidate_prepared`, `candidate_synced` is recorded with both directory entries synced,
`candidate_verified` with the candidate whole. `WorkHead` reads from this what may follow the first step, `FilesStep`
is the preservation for all steps that only improve files and move names, and `Append1`, `PlanRun` and the copy have their own lemmas.
One compaction at a time follows from the same `WorkOK`: a run is planned when none is on its way, or
after the one that is has been recorded as abandoned.

**The original and the journal.** `KeptInv`, on top of these two, says first that every file has at most one name in each directory
(`Unique`). A displaced store is therefore not the store, and hooks only write to the store (`NoDisplacedWriter`), copies only to files
no journal fenced: it stays as it was (`DisplacedUntouched`). It says then that a run in a phase between the exchange and its end has the displaced
file under one of its two names, in the directory *and* in the synced one (`Held`). That a phase is recorded only when
this is so is `CallsOK`: a command that is left with `sync_dir`, `swapped` has done the exchange, or a recovery has found it
done by comparing identities (`ObservedSwapped`), and one left with `swapped` has synced it. A sweep may remove the file
under a command at work; the run is then in `swept`, which `CallsOK` allows everywhere. That the *store* is the
run's candidate holds only where no upgrade runs: an upgrade does not look at compactions and may replace the store while
one is interrupted, which is why `JournalIsNotAhead` has the hypothesis. It is satisfied by `compaction`, the run that checks the property.
Two more facts are needed for it: the inodes of two fenced candidates differ (`CandidatesTold`), so that the fence of
a rollback lets none pass while another run's candidate is the store; and before the exchange no rollback name is taken (`NoRollbackYet`).

**Acknowledged records.** `LossInv`, on top of `KeptInv`, speaks of the records that must *last*: the acknowledged ones without those
that were exposed, or all of them where there is no rollback and no power loss. The store has them, and so has the store
as it was synced. An exchange brings another file to the path, so each journal has to say what that file holds (`RunHolds`): a candidate that is
fenced has what its source had when it was verified, *if the source is still at the version that was fenced*, and the original has what the candidate
had when its rollback was intended. The condition is what the fence of the exchange compares; it is
sound because versions only grow, so that a version a journal fenced does not come back once the store is written to (`SourceFenced`).
`ToldOK` is what a command has established under the lease just before it records either of the two phases: the
candidate was compared with the source, the guard found nothing new in the published store. Between that record and the
exchange the lease may be lost with the process: a record stored then makes the fence refuse on the way forward, and is in `exposed` on the way
back. This is why the theorem without exceptions excludes the rollback, and the run `maintenance`, which checks it, has the same hypotheses.

**Resumable runs.** What the rerun does depends on the phase in the journal and on where the run's files are; the phases and placements are
many, and most of their combinations are refused. `PlaceInv`, on top of `KeptInv`, says which of them arise. `Journalled` is what the
journal alone says (no prepared file before the copy is intended, no fenced candidate before it is verified). `Placed` says where the candidate and the
retained file may be in each phase, in the directory *and* in the synced one, since a power loss makes the second the first.
`Ahead` relates the two: a prepared candidate that is there is synced, and a synced exchange is still there. `Fixed` says which files have the version that was
fenced. To keep this, `Builds` follows the calls a command has left: creating, copying and removing a candidate rely on the phase and on
what the earlier calls did. `ObservedAt` and `Resumes` then compute `Observe` and `RecoverySteps` for every place
`Placed` and `Held` allow, and `RunResumes` finds that only the six exceptions are left. The theorem has no hypothesis on the commands.

Only model-checked:

- every liveness property (`PlansEnd`, `ServeReturns`, `LaunchesEnd`, `ControlsEnd`, `Settles`): fairness is outside the prover's reach;
- `NoAcknowledgedLoss` with rollbacks and `NoCleanAfterUncertainCommit` are false: `compaction_loss` and `clean_race` show it.

Every invariant and every action property of a passing run is stated by a theorem.

## 6. What the checks found

Two runs end in a violation, `clean_race` and `compaction_loss`. The other sequences of this section were found with the
properties named, which are kept in their modules and belong to no run: each is violated by the instance given.

### Shutdown

`PublishCleanShutdown` (`application/runtime/lifecycle.go:485`) checks under the lock that nothing is
uncertain, releases the lock, and then writes the clean marker. The management endpoint is still open then: a
preview and a confirmation of an empty roster fit into that window, and if reserving that
plan fails ambiguously the owner is uncertain when the marker is written.
`docs/runtime/daemon-lifecycle.md:42` says "Even an empty roster cannot publish a clean marker
after an uncertain lifecycle commit". The run `clean_race` shows the sequence. No process is
left behind by it (`CleanMeansReconciled` holds in every run): what is lost is the evidence of
the uncertain plan.

### Compaction

**An interrupted rollback loses records.** `Rollback` asks its guard whether the published store holds records that
the retained file never saw (`application/usecase/store_compaction.go:605`: "Refuse the swap when the published store
holds records the retained rollback inode never saw") and then appends `rollback_swap_intent`. A process killed after
that append leaves the lease to the hooks, which store records in the published store and report success. The next `store compact`
finds the run in flight and finishes it with `ActionRollbackExchange` (line 532), without the guard. The records are in
the displaced file. The comment at line 43 says "a missing guard can never silently discard post-commit records". The run
`compaction_loss` shows the sequence; `OnlyRollbackWindowLoses` shows that this window, and the one before an
exchange is durable, are the only ones.

**States that cannot be resumed.** `docs/storage/safe-compaction.md:82` says "After interruption, rerun `traceary store
compact`; it resumes an in-flight journal". `CrashLeavesResumable` holds with six exceptions, in which the rerun refuses, and `CrashesAreResumable` shows that there is no seventh:
a candidate that was created and not yet recorded (`Unrecorded`); a store that was written to, or replaced by another
run's rollback, between the copy and the swap (`SourceMoved`); a candidate that an abandonment removed before it was recorded, or that was written to as the store before a power loss undid its exchange (`CandidateMoved`); a
restored store written to before the rollback was recorded (`OriginalWritten`); a rollback whose exchange a power
loss undid, since `Rollback` at line 625 records `rollback_swapped` without syncing the directory
(`RollbackUndone`); and a retained file that a sweep took from a rollback that had just begun (`RetainedSwept`, below). In all of them the store itself is whole.

**The sweep and work in flight.** Doctor reads which runs are in flight, lists the files and removes them, without the
lease. A run that starts in between loses its candidate, although the hint in
`presentation/cli/doctor_compact_inflight.go:87` says "In-flight work files are never deleted." (`InFlightFilesKept`, with
`Commands = {"compact", "sweep"}` and no kill). No acknowledged record is lost by it (`maintenance`, and `NoRollbackNoLoss` for any
constants). The same race takes the retained file of a committed run from a rollback that has just passed its guard: the rollback
records `rollback_swap_intent`, and after a kill the rerun finds nothing to restore and refuses (with
`Commands = {"compact", "rollback", "sweep"}`, two files and one kill). This is the exception `RetainedSwept`.

**A second upgrade.** `FindActive` "finds exactly one non-terminal run" (`infrastructure/sqlite/compaction_files.go:213`)
but skips only rolled-back ones (line 251): a committed upgrade is found beside an interrupted later one with the same
operation, target and binding, and the rerun reports "ambiguous active prepared upgrade" (`UnfinishedUpgradeFound`, with
`Commands = {"upgrade"}`).

Read off the model: a rollback of a run at `swapped` is always refused, because the retained file is still under the
candidate's name where the guard does not look; `rollback` does not notice a run in flight; a compaction does not notice an
interrupted upgrade; and a stale marker may be removed or overwritten under its new owner, which costs the writers'
courtesy and not the exclusion.

### Delivery and anchor

**Doctor beside a writer.** Doctor reads the anchor, then the chain, then publishes. A head that a writer publishes in between makes
its own append an error, or a file read late appear ahead, and the check fails once, although `CHANGELOG.md:428` says "a missing or
behind file is published and then passes" (`DoctorHeals`, with `Which = {"prompt"}`). The file stays a history of the chain (`PublishedHistory`).

**An event counted twice.** `docs/operations/workspace-identity-contract.md:281` says the catch-up will "insert one primary observation with
`observation_origin=backfill` for each event that has no primary observation" and that "an existing primary observation or backfill ID is an idempotent
already-complete result". The code does not look for an observation of the event: it classifies the event by the session's workspace as it is now and upserts the row of that
relationship (`workspace_observation_backfill.go:242`). A hook saves a prompt before its session is registered, and it is observed as `unknown`;
another one saves the start; the next process to open the store adds an `exact` row for the same prompt. `CountedOnce` is violated by the instance of `delivery`.
It goes no further: `PrimaryCountsEvents` shows at most one too many for a workspace and kind, however many openings follow, and none where there is no row of both relationships.

Read off the code: the anchor is synced while the WAL is not (`synchronous=NORMAL`), so after a power loss the file may be
ahead of the store; the spawn order of a child session is read outside its transaction; a delivery that alternates
between two workspaces may count a supplemental observation again.

### Spool

`claimHookSpoolRecord` (`presentation/cli/hook_spool.go:727`) renames a pending record and refreshes its
time in a second call. Rename keeps the old time, so a record that was pending for a minute is a
stale claim for an instant. A drainer that lists claims in that instant puts it back, and both
processes may replay the delivery. If the first owner then fails and rewrites its record in place, it
creates the claim path again beside the released file. `hook_spool_test.go:2454` says "Regardless of
scheduling ... the exclusive claim must keep a single retained file and never resurrect the original
basename as a duplicate replayable copy". `OneFilePerDelivery` is violated by one delivery and three
processes; the sequence needs no crash
and no slow process, only a replay that fails. All copies carry the same receipt, so the event stays single (`EventOnce`
holds in every run).

`NothingLost` excepts a delivery whose dead letter `doctor --fix` pruned after fourteen days. The comment at
`hook_spool.go:58` says so; `docs/hooks/README.md:219` ("Traceary does not delete records based
on age alone") does not mention it.

All other properties hold.

## 7. What is left out

- `List`, `Inspect`, `Receipt` and awaiting a control ticket: they read.
- The update purpose of `confirmShutdown`, and resumes: planned (section 8). Until then no
  theorem about `RuntimeSpec` speaks of them.
- What a store does with the records of an earlier epoch: planned. One epoch is
  modelled, so a daemon crash is not yet an action.
- Socket setup, peer credentials, JSON framing, native command lines, transcript formats,
  service files: input, output and conversions.
- Reports, bundles, redaction, CLI rendering, SQL queries, installers, repository tooling: sequential code that keeps no
  state between calls. It is most of the repository by lines.
- In the store's maintenance: recipes and approvals, the library entry points `Plan`, `Apply` and `Resume` (the
  commands compose them), filters, sidecar files, hard links, the work directory, a journal append torn in half, the
  guard of the retired index.
- In the delivery: redaction and audit payloads (and so the attested commands), rows from before migration 76, child sessions, labels, models,
  the relationships `descendant`, `ancestor` and `explicit_alias`, the garbage collection of unreachable observations and empty sessions,
  `writeEndRefinement`, stores of 2 GiB and more (doctor then reads the anchor only), and a power loss under SQLite's WAL.
- Abstractions of the delivery: a line of the anchor file is appended in one step, so none is torn; the catch-up retries a busy store any number of times (in the code
  three); a process either opens the store or saves.
- Abstractions of the store's maintenance: a power loss keeps the directory as it is or as it was last synced, as a whole, and the journal's directory is durable once it
  is made; `Build` fails at once when a sweep has removed the candidate, where `VACUUM INTO` creates it again and the fence refuses it later, and an upgrade's clone, migration and copy are
  one `Build`; a hook's write changes the identity of the main file at once, where in WAL mode a checkpoint does.
- Abstractions of the controls: the ledger's counters are taken from the set of its entries (`LedgerUsed`, `NonLifecycle`), so that a counter that drifts from its entries
  would not show.
- Abstractions of the spool: `Handle` recognises a delivery by its receipt, where the store uses session, reported id and fingerprint, and the receipt only without a native id;
  a drain that lists claims ends when a stale one has vanished, in the code also when a fresh one has.
- Memories and usage: planned and not begun.
- In the spool: orphaned `*.tmp` files, unparsable records, doctor's diagnostics, and the observation
  delivered after a successful hook.

## 8. Plan

Modules, in order:

1. `RuntimeUpdate` (on `RuntimeControl`): `AttemptUpdate`, the notice, `HandoffUpdate`, with the update
   purpose of a plan. Properties: no launch between the quiescence check and the handoff; a deferred
   update is never lost.
2. `RuntimeResume`: the second coordinator. Properties: the counters stay exact; one child per resume;
   no resume of a launch whose exit is not durable.
3. `RuntimeEpochs`: the stores over several epochs with crashes anywhere. Properties: no effect of a dead
   epoch is forgotten or reported as certain. An abstract specification of a journalled effect
   (`Intent`, `Effect`, `Outcome`, `Crash`) that launches, controls and shutdowns implement.
4. `OutputStream`, `PtyChild`, `ObservationGate`: one module each.
5. `MemoryLifecycle`, and the parts of sessions that `EventDelivery` leaves out: status machines driven by late events.

Theorems: the safety properties of the runs are proved. What comes next belongs to the modules above: that a crash between the intent and
the outcome of an effect is never reported as certain (`RuntimeEpochs`), and that resumes keep `LaunchInv`.
