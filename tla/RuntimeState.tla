------------------------------ MODULE RuntimeState ------------------------------
(*****************************************************************************)
(* The state of one epoch of the runtime owner (type Runtime and the types   *)
(* it holds, application/runtime/launch.go), shared by the modules that      *)
(* model its operations: RuntimeLaunch, RuntimeControl, RuntimeLifecycle.    *)
(*                                                                           *)
(* Every section the code runs under s.mu is one step; every call it makes   *)
(* outside s.mu (journal, launcher, child.Wait) is a step of its own, so     *)
(* any other goroutine may run in between.                                   *)
(*****************************************************************************)
EXTENDS Integers, FiniteSets

CONSTANTS
  RequestIDs,         \* launch request identifiers
  Selections,         \* (worktree, profile) pairs a request may name
  Callers,            \* concurrent callers of Launch
  Tickets,            \* launchTicket objects; a started one names its run
  None,
  MaxActiveRuns,      \* domain.MaxActiveRuns
  MaxLaunchRequests,  \* domain.MaxLaunchRequests
  MaxRevision         \* math.MaxUint64

ASSUME ConstantsAssumption ==
  /\ IsFiniteSet(Tickets) /\ IsFiniteSet(Callers) /\ IsFiniteSet(RequestIDs)
  /\ None \notin Tickets /\ None \notin RequestIDs /\ None \notin Selections
  /\ MaxActiveRuns \in Nat /\ MaxLaunchRequests \in Nat /\ MaxRevision \in Nat

VARIABLES
  tickets,            \* s.tickets: request id -> ticket object or None
  tk,                 \* the launchTicket objects, with their coordinator's pc
  callers,            \* the goroutines inside Launch
  runs,               \* s.runs, keyed by the ticket that started the run
  child,              \* the operating system's view of each started child
  journal,            \* execution.json: the durable snapshot of each launch
  recovery,           \* recovery.json: launches with a durable recovery record
  pending, active,    \* reservation counters
  controlsPending, lifecyclePending,
  revision, revisionExhausted,
  disabled,           \* new launches refused for the rest of the epoch
  shutdownPreparing, shutdownCommitted,
  lifecycleStarting, lifecycleBound, lifecycleUncertain

launchVars == <<tickets, tk, callers, runs, child, journal, recovery, pending, active>>
revisionVars == <<revision, revisionExhausted, disabled>>
fenceVars == <<shutdownPreparing, shutdownCommitted, lifecycleStarting,
               lifecycleBound, lifecycleUncertain, lifecyclePending>>
stateVars == <<launchVars, revisionVars, fenceVars, controlsPending>>

-----------------------------------------------------------------------------
(* RunSnapshot, reduced to what decides anything: process state and the      *)
(* latched publication uncertainty.                                          *)
RunStates == {"none", "reserved", "live", "exited"}
Snapshots == [state : RunStates, uncertain : BOOLEAN]
NoSnapshot == [state |-> "none", uncertain |-> FALSE]
Snapshot(s, u) == [state |-> s, uncertain |-> u]

(* launchTicket. `err` is the coordinator's local error until the ticket is  *)
(* complete and the ticket's err afterwards; complete and the closed channel *)
(* done change in one critical section.                                      *)
CoordinatorSteps == {"unused", "validate", "validated", "failing", "reserve",
                     "start", "attach", "publish", "complete",
                     "failSave", "failDone", "done"}
TicketRecords ==
  [pc : CoordinatorSteps, id : RequestIDs \cup {None}, sel : Selections \cup {None},
   waiters : Nat, starting : BOOLEAN, complete : BOOLEAN, aborted : BOOLEAN,
   abandoned : BOOLEAN, canceled : BOOLEAN, err : {"none", "error", "unknown"},
   descriptor : Snapshots, result : Snapshots]
UnusedTicket ==
  [pc |-> "unused", id |-> None, sel |-> None, waiters |-> 0, starting |-> FALSE,
   complete |-> FALSE, aborted |-> FALSE, abandoned |-> FALSE, canceled |-> FALSE,
   err |-> "none", descriptor |-> NoSnapshot, result |-> NoSnapshot]
NewTicket(id, sel) ==
  [UnusedTicket EXCEPT !.pc = "validate", !.id = id, !.sel = sel, !.waiters = 1]

(* ownedRun, with the program counter of its reconcile goroutine. A run is   *)
(* in s.runs from the step that moves its pc from "absent" to "owned".       *)
RunSteps == {"absent", "owned", "wait", "save", "recover", "finish", "done"}
RunRecords ==
  [pc : RunSteps, state : RunStates, uncertain : BOOLEAN, published : BOOLEAN,
   exitKnown : BOOLEAN, saveErr : BOOLEAN]
AbsentRun ==
  [pc |-> "absent", state |-> "none", uncertain |-> FALSE, published |-> FALSE,
   exitKnown |-> FALSE, saveErr |-> FALSE]

(* "lost": the launcher gave up without a handle and without a proof that    *)
(* nothing was started.                                                      *)
ChildStates == {"none", "alive", "dead", "lost"}

CallerRecords ==
  [pc : {"idle", "wait", "retry"}, id : RequestIDs \cup {None},
   sel : Selections \cup {None}, ticket : Tickets \cup {None}]
IdleCaller == [pc |-> "idle", id |-> None, sel |-> None, ticket |-> None]

StateInit ==
  /\ tickets = [i \in RequestIDs |-> None]
  /\ tk = [t \in Tickets |-> UnusedTicket]
  /\ callers = [c \in Callers |-> IdleCaller]
  /\ runs = [t \in Tickets |-> AbsentRun]
  /\ child = [t \in Tickets |-> "none"]
  /\ journal = [t \in Tickets |-> NoSnapshot]
  /\ recovery = {}
  /\ pending = 0 /\ active = 0 /\ controlsPending = 0 /\ lifecyclePending = 0
  /\ revision = 0 /\ revisionExhausted = FALSE /\ disabled = FALSE
  /\ shutdownPreparing = FALSE /\ shutdownCommitted = FALSE
  /\ lifecycleStarting = FALSE /\ lifecycleBound = FALSE
  /\ lifecycleUncertain = FALSE

LaunchTypeOK ==
  /\ tickets \in [RequestIDs -> Tickets \cup {None}]
  /\ tk \in [Tickets -> TicketRecords]
  /\ callers \in [Callers -> CallerRecords]
  /\ runs \in [Tickets -> RunRecords]
  /\ child \in [Tickets -> ChildStates]
  /\ journal \in [Tickets -> Snapshots]
  /\ recovery \subseteq Tickets
  /\ pending \in Nat /\ active \in Nat
RevisionTypeOK ==
  revision \in 0..MaxRevision /\ revisionExhausted \in BOOLEAN /\ disabled \in BOOLEAN
FenceTypeOK ==
  /\ controlsPending \in Nat /\ lifecyclePending \in Nat
  /\ shutdownPreparing \in BOOLEAN /\ shutdownCommitted \in BOOLEAN
  /\ lifecycleStarting \in BOOLEAN /\ lifecycleBound \in BOOLEAN
  /\ lifecycleUncertain \in BOOLEAN

(* Every variable keeps its type; the counters never go negative and the     *)
(* revision never passes its width.                                          *)
TypeOK == LaunchTypeOK /\ RevisionTypeOK /\ FenceTypeOK

-----------------------------------------------------------------------------
(* changedLocked: a saturating revision; the saturated owner also closes     *)
(* admission. `off` is the value the caller's section leaves in disabled.    *)
changedLocked(off) ==
  IF revision = MaxRevision
  THEN revisionExhausted' = TRUE /\ disabled' = TRUE /\ UNCHANGED revision
  ELSE revision' = revision + 1 /\ disabled' = off /\ UNCHANGED revisionExhausted

(* Mutant: admission forgets the plan that is being prepared.                *)
FenceWithoutPreparing == disabled \/ shutdownCommitted \/ lifecycleStarting

executionAdmissionClosedLocked ==
  disabled \/ shutdownPreparing \/ shutdownCommitted \/ lifecycleStarting

(* ExecutionStore.SaveLaunch: which snapshot may replace which.              *)
SaveLaunchAccepts(old, new) ==
  /\ old.state # "none"
  /\ old.uncertain => new.uncertain
  /\ old.state = "exited" => new.state = "exited"
  /\ old.state # "reserved" => new.state # "reserved"

(* One SaveLaunch call. An accepted write may still fail, before or after    *)
(* the rename; the owner only sees the error.                                *)
SaveLaunch(t, snapshot, ok) ==
  \/ /\ ok /\ SaveLaunchAccepts(journal[t], snapshot)
     /\ journal' = [journal EXCEPT ![t] = snapshot]
  \/ ~ok /\ UNCHANGED journal
  \/ /\ ~ok /\ SaveLaunchAccepts(journal[t], snapshot)
     /\ journal' = [journal EXCEPT ![t] = snapshot]
=============================================================================
