----------------------------- MODULE StoreCompaction -----------------------------
(*****************************************************************************)
(* `store compact`, `store compact rollback`, doctor's repair of a stale run *)
(* and doctor's offline upgrade (application/usecase/store_compaction.go and *)
(* prepared_store_upgrade.go), over the journal and the files of             *)
(* infrastructure/sqlite/compaction_files.go and the lease of StoreLease.    *)
(*                                                                           *)
(* A command holds the exclusive lease for its whole life. Between two of    *)
(* its system calls the process may end, or the machine may lose power: an   *)
(* fsynced journal record survives, the directory is either as it is or as   *)
(* it was last synced, and bytes never synced may be torn. A failed call     *)
(* ends the command as an exit does. Doctor's sweep of leftover files runs   *)
(* beside all this, without the lease (presentation/cli/                     *)
(* doctor_compact_leftovers.go, doctor_store_size.go). Left out: free space  *)
(* beyond "enough or not", sidecar files, hard links, the retired index a    *)
(* candidate of this binary cannot carry, and a journal append torn in half. *)
(*****************************************************************************)
EXTENDS StoreLease, Sequences

CONSTANTS
  RunIDs,       \* identifiers of journaled runs
  Records,      \* records that hooks write
  Operators,    \* the processes that run commands; the others write
  Commands,     \* the commands they run, a subset of CommandNames
  MaxInode,     \* bound on the files ever created, the store included
  MaxVersion,   \* bound on the content versions of a file
  MaxExits,     \* bound on processes that are killed
  MaxPowerLoss  \* bound on power failures

CommandNames == {"compact", "rollback", "doctor", "upgrade", "sweep"}

ASSUME CompactionAssumption ==
  /\ Operators \subseteq Procs /\ Commands \subseteq CommandNames /\ None \notin RunIDs
  /\ MaxInode \in Nat \ {0} /\ MaxVersion \in Nat
  /\ MaxExits \in Nat /\ MaxPowerLoss \in Nat

VARIABLES
  dir,        \* which inode each path names, 0 for none
  durable,    \* the directory as last synced
  inode,      \* the files
  runs,       \* the journals, one per run
  task,       \* the command of the process that holds the exclusive lease
  sweep,      \* doctor's sweep of leftover files
  opened,     \* the inode each connection was opened on
  acked,      \* records whose write was acknowledged to the host
  exposed,    \* acknowledged into a store a rollback or a power loss may discard
  swept,      \* runs whose files a sweep removed while they were in flight
  exits, losses

storeVars == <<dir, durable, inode, runs, task>>
historyVars == <<sweep, opened, acked, exposed, swept, exits, losses>>
compactionVars == <<leaseVars, storeVars, historyVars>>

-----------------------------------------------------------------------------
(* The run and its phases (domain/prepared_store_upgrade.go).                *)
PrePublication == {"planned", "copy_intent", "copy_retry_intent", "candidate_prepared"}
Unverified == {"copy_complete", "candidate_sync_intent", "candidate_synced", "scrub_in_progress"}
Terminal == {"committed", "rolled_back", "abandoned"}
Phases ==
  PrePublication \cup Unverified \cup Terminal
  \cup {"candidate_verified", "swap_intent", "swapped", "rollback_publish_intent",
        "rollback_ready", "rollback_swap_intent", "rollback_swapped"}

Transitions ==
  [planned |-> {"copy_intent", "abandoned"},
   copy_intent |-> {"candidate_prepared", "abandoned"},
   copy_retry_intent |-> {"candidate_prepared", "abandoned"},
   candidate_prepared |-> {"copy_complete", "copy_retry_intent", "abandoned"},
   copy_complete |-> {"candidate_sync_intent"},
   candidate_sync_intent |-> {"candidate_synced"},
   candidate_synced |-> {"scrub_in_progress"},
   scrub_in_progress |-> {"candidate_verified"},
   candidate_verified |-> {"swap_intent"},
   swap_intent |-> {"swapped"},
   swapped |-> {"rollback_publish_intent"},
   rollback_publish_intent |-> {"rollback_ready"},
   rollback_ready |-> {"committed", "rollback_swap_intent"},
   committed |-> {"rollback_swap_intent"},
   rollback_swap_intent |-> {"rollback_swapped"},
   rollback_swapped |-> {"rolled_back"},
   rolled_back |-> {}, abandoned |-> {}]

\* a store told from another by its inode, whatever was written to it
IdentityByInode(i) == <<i, 0>>

(* StoreFileIdentity: SameInode compares the first part only.                *)
Identity(i) == <<i, inode[i].ver>>
NoIdentity == <<0, 0>>

NoRun == [phase |-> "none", op |-> "none", source |-> NoIdentity,
          prepared |-> 0, candidate |-> NoIdentity]
Exists(r) == runs[r].phase # "none"

Advance(r, phase) ==
  /\ phase \in Transitions[runs[r].phase]
  /\ ~(runs[r].op = "upgrade" /\ runs[r].phase = "committed")

NoFile == [recs |-> {}, ver |-> 0, whole |-> FALSE, safe |-> TRUE, made |-> FALSE]
FreshInode == CHOOSE i \in 1..MaxInode : ~inode[i].made
InodeLeft == \E i \in 1..MaxInode : ~inode[i].made

NoTask == [owner |-> None, kind |-> "none", run |-> None, todo |-> <<>>, result |-> "none"]

NoSweep == [stage |-> "none", kind |-> "none", live |-> {}, paths |-> {}]

Original == [NoFile EXCEPT !.whole = TRUE, !.made = TRUE]
CompactionInit ==
  /\ LeaseInit
  /\ dir = [source |-> 1, candidate |-> [r \in RunIDs |-> 0], rollback |-> [r \in RunIDs |-> 0]]
  /\ durable = dir
  /\ inode = [i \in 1..MaxInode |-> IF i = 1 THEN Original ELSE NoFile]
  /\ runs = [r \in RunIDs |-> NoRun]
  /\ task = NoTask
  /\ sweep = NoSweep
  /\ opened = [p \in Procs |-> 0]
  /\ acked = {} /\ exposed = {} /\ swept = {} /\ exits = 0 /\ losses = 0

-----------------------------------------------------------------------------
\* a published store must be as it was verified
SameContent(i, identity) == Identity(i) = identity

samePublishedFile(i, identity) == i = identity[1]

(* Observe: where the fenced inodes are. A published store may have changed  *)
(* content (samePublishedFile); every other file must be exactly as fenced.  *)
Observe(r) ==
  LET run == runs[r]
      source == Identity(dir.source)
      cand == dir.candidate[r]
      back == dir.rollback[r]
      fenced == run.candidate # NoIdentity
      original == source = run.source
      published == fenced /\ samePublishedFile(dir.source, run.candidate)
  IN  IF run.phase \in Unverified /\ (cand = 0 \/ cand # run.prepared) THEN "unknown"
      ELSE
      CASE original /\ cand = 0 /\ back = 0 -> "source_original"
        [] original /\ cand # 0 /\ back = 0 ->
             IF fenced /\ Identity(cand) # run.candidate THEN "unknown" ELSE "candidate_ready"
        [] published /\ cand # 0 /\ back = 0 /\ Identity(cand) = run.source -> "swapped"
        [] published /\ cand = 0 /\ back # 0 /\ Identity(back) = run.source -> "rollback_ready"
        [] original /\ cand = 0 /\ back # 0 /\ samePublishedFile(back, run.candidate) -> "rolled_back"
        [] OTHER -> "unknown"

(* VerifyPair: the candidate is a complete store with the source's events.   *)
VerifyPair(r) ==
  /\ dir.candidate[r] # 0
  /\ inode[dir.candidate[r]].whole
  /\ inode[dir.candidate[r]].recs = inode[dir.source].recs

(* What a command still has to do is a sequence of system calls and of       *)
(* phases to append to the journal. NextAction, and what applyLeased does.   *)
ApplySteps ==
  [planned |-> <<"recheck", "copy_intent">>,
   copy_intent |-> <<"create", "sync_dir", "candidate_prepared">>,
   copy_retry_intent |-> <<"create", "sync_dir", "candidate_prepared">>,
   candidate_prepared |-> <<"copy", "vacuum", "copy_complete">>,
   copy_complete |-> <<"candidate_sync_intent">>,
   candidate_sync_intent |-> <<"sync_file", "sync_dir", "candidate_synced">>,
   candidate_synced |-> <<"scrub_in_progress">>,
   scrub_in_progress |-> <<"verify", "candidate_verified">>,
   candidate_verified |-> <<"swap_intent">>,
   swap_intent |-> <<"exchange", "sync_dir", "swapped">>,
   swapped |-> <<"rollback_publish_intent">>,
   rollback_publish_intent |-> <<"publish", "sync_dir", "rollback_ready">>,
   rollback_ready |-> <<"committed">>]

(* RecoveryActions and what resumeLeased does for each of them; "refuse" for *)
(* a combination of placement and phase the aggregate does not know.         *)
RecoverySteps(r) ==
  LET run == runs[r]
      phase == run.phase
      ours == dir.candidate[r] = run.prepared
      remove == <<"recheck", "unlink", "sync_dir">>
  IN  CASE Observe(r) = "swapped" ->
             (CASE phase = "candidate_verified" -> <<"swap_intent", "sync_dir", "swapped">>
                [] phase = "swap_intent" -> <<"sync_dir", "swapped">>
                [] phase \in {"swapped", "rollback_publish_intent"} -> <<>>
                [] OTHER -> <<"refuse">>)
        [] Observe(r) = "rollback_ready" ->
             (CASE phase = "swapped" -> <<"rollback_publish_intent", "sync_dir", "rollback_ready">>
                [] phase = "rollback_publish_intent" -> <<"sync_dir", "rollback_ready">>
                [] phase \in {"rollback_ready", "committed"} -> <<>>
                [] phase = "rollback_swap_intent" ->
                     <<"exchange", "sync_dir", "rollback_swapped", "rolled_back">>
                [] OTHER -> <<"refuse">>)
        [] Observe(r) = "rolled_back" ->
             (CASE phase = "rollback_swap_intent" -> <<"sync_dir", "rollback_swapped", "rolled_back">>
                [] phase = "rollback_swapped" -> <<"rolled_back">>
                [] phase = "rolled_back" -> <<>>
                [] OTHER -> <<"refuse">>)
        [] Observe(r) = "source_original" ->
             (IF phase \in {"planned", "copy_intent", "copy_retry_intent"} THEN <<>> ELSE <<"refuse">>)
        [] Observe(r) = "candidate_ready" ->
             (CASE phase = "copy_retry_intent" /\ ours -> remove
                [] phase = "candidate_prepared" /\ ours ->
                     IF VerifyPair(r) THEN <<"copy_complete">> ELSE <<"copy_retry_intent">> \o remove
                [] phase \in Unverified \cup {"candidate_verified"} -> <<>>
                [] phase = "swap_intent" -> <<"exchange", "sync_dir", "swapped">>
                [] OTHER -> <<"refuse">>)
        [] OTHER -> <<"refuse">>

(* Rollback: the guard compares the records of the published store with the  *)
(* retained file's, which it must be able to open. It fails on a run at      *)
(* "swapped", whose retained file is still under the candidate's name, so    *)
(* the branch that would publish that file first is never taken.             *)
RollbackPhases ==
  {"swapped", "rollback_ready", "committed", "rollback_swap_intent", "rollback_swapped"}

\* the guard against discarding records is not consulted
NoneAtRisk(r) == {}

AtRisk(r) == inode[dir.source].recs \ inode[dir.rollback[r]].recs

RollbackSteps(r) ==
  LET phase == runs[r].phase
  IN  IF phase \notin RollbackPhases \/ dir.rollback[r] = 0 \/ AtRisk(r) # {} THEN <<"refuse">>
      ELSE
      CASE Observe(r) = "rolled_back" /\ phase = "rollback_swap_intent" ->
             <<"rollback_swapped", "rolled_back">>
        [] Observe(r) = "rolled_back" /\ phase = "rollback_swapped" -> <<"rolled_back">>
        [] Observe(r) = "rollback_ready" ->
             (IF phase = "rollback_swap_intent" THEN <<>> ELSE <<"rollback_swap_intent">>)
             \o <<"exchange", "sync_dir", "rollback_swapped", "rolled_back">>
        [] OTHER -> <<"refuse">>

-----------------------------------------------------------------------------
(* A command begins once its process holds the exclusive lease.              *)
InFlight == {r \in RunIDs : Exists(r) /\ runs[r].op = "compaction" /\ runs[r].phase \notin Terminal}
Active == {r \in RunIDs : Exists(r) /\ runs[r].op = "upgrade" /\ runs[r].phase # "rolled_back"}

(* ShouldAbandonForStaleSource. *)
Stale(r) == runs[r].phase \in PrePublication /\ Identity(dir.source) # runs[r].source

(* The loops of applyLeased, prepare and publishLeased: a command with       *)
(* nothing left to do for its run in this phase goes on to the next phase.   *)
Continue(command, phase, todo) ==
  IF todo # <<>> THEN [command EXCEPT !.todo = todo]
  ELSE IF command.kind \in {"compact", "upgrade"} /\ phase \in DOMAIN ApplySteps
       THEN [command EXCEPT !.todo = ApplySteps[phase]]
       ELSE [command EXCEPT !.todo = <<>>, !.result = "done"]

Begin(p, kind, r, todo) ==
  /\ excl[p] = "held" /\ task = NoTask /\ kind \in Commands
  /\ task' = Continue([NoTask EXCEPT !.owner = p, !.kind = kind, !.run = r],
                      IF r = None THEN "none" ELSE runs[r].phase, todo)
  /\ UNCHANGED <<leaseVars, dir, durable, inode, runs, historyVars>>

\* a compaction that does not look for one in flight
PlanAnother(p) == Begin(p, "compact", None, <<"plan">>)

(* compactLeased and FindInFlight.                                           *)
Compact(p) ==
  \/ InFlight = {} /\ Begin(p, "compact", None, <<"plan">>)
  \/ Cardinality(InFlight) > 1 /\ Begin(p, "compact", None, <<"refuse">>)
  \/ \E r \in RunIDs :
       /\ InFlight = {r}
       /\ Begin(p, "compact", r,
            IF Stale(r) THEN <<"abandon", "abandoned", "plan">> ELSE RecoverySteps(r))

Rollback(p) ==
  \E r \in RunIDs :
    Exists(r) /\ runs[r].op = "compaction" /\ Begin(p, "rollback", r, RollbackSteps(r))

AbandonStalePrePublication(p) ==
  \E r \in RunIDs :
    /\ InFlight = {r}
    /\ Begin(p, "doctor", r, IF Stale(r) THEN <<"abandon", "abandoned">> ELSE <<>>)

(* RunUpgrade and FindActive: a verified candidate goes to its swap intent   *)
(* before anything is observed.                                              *)
RunUpgrade(p) ==
  \/ /\ Cardinality(Active) \leq 1 /\ \A r \in Active : runs[r].phase \in Terminal
     /\ Begin(p, "upgrade", None, <<"plan">>)
  \/ Cardinality(Active) > 1 /\ Begin(p, "upgrade", None, <<"refuse">>)
  \/ \E r \in RunIDs :
       /\ Active = {r} /\ runs[r].phase \notin Terminal
       /\ Begin(p, "upgrade", r,
            IF runs[r].phase = "candidate_verified" THEN <<"swap_intent">> ELSE RecoverySteps(r))

-----------------------------------------------------------------------------
(* The steps of a command.                                                   *)
Busy(p) == task.owner = p /\ task.result = "none"
At(p, step) == Busy(p) /\ task.todo # <<>> /\ Head(task.todo) = step
Pop(phase) == task' = Continue(task, phase, Tail(task.todo))
End(result) == task' = [task EXCEPT !.todo = <<>>, !.result = result]

(* Exchange fences both files, the published one by its inode only.          *)
ExchangeFence(r) ==
  LET run == runs[r]
  IN  IF run.phase = "rollback_swap_intent"
      THEN /\ samePublishedFile(dir.source, run.candidate) /\ dir.rollback[r] # 0
           /\ Identity(dir.rollback[r]) = run.source
      ELSE /\ Identity(dir.source) = run.source /\ dir.candidate[r] # 0
           /\ Identity(dir.candidate[r]) = run.candidate

(* What a step checks before it acts; a check that fails ends the command.   *)
Permits(step, r) ==
  CASE step = "recheck" -> Identity(dir.source) = runs[r].source
    [] step = "create" -> dir.candidate[r] = 0 /\ InodeLeft
    [] step = "copy" -> dir.candidate[r] # 0 /\ inode[dir.candidate[r]].ver = 0
    [] step \in {"vacuum", "sync_file"} -> dir.candidate[r] # 0
    [] step = "verify" -> VerifyPair(r) /\ dir.candidate[r] = runs[r].prepared
    [] step = "exchange" -> ExchangeFence(r)
    [] step = "publish" -> dir.rollback[r] = 0 /\ dir.candidate[r] # 0
    [] step = "unlink" -> /\ dir.rollback[r] = 0
                          /\ Identity(dir.source) = runs[r].source
                          /\ dir.candidate[r] # 0 /\ dir.candidate[r] = runs[r].prepared
    [] step = "abandon" -> dir.rollback[r] = 0
    [] step \in Phases -> /\ Advance(r, step)
                          /\ step = "candidate_prepared" => dir.candidate[r] # 0
                          /\ step = "candidate_verified" => dir.candidate[r] = runs[r].prepared
    [] step = "refuse" -> FALSE
    [] OTHER -> TRUE

Refuse(p) ==
  /\ Busy(p) /\ task.todo # <<>> /\ ~Permits(Head(task.todo), task.run)
  /\ End("failed")
  /\ UNCHANGED <<leaseVars, dir, durable, inode, runs, historyVars>>

(* Journal.Append: fsynced, with the identity of the prepared or verified    *)
(* candidate where the phase records one.                                    *)
Append1(p, phase) ==
  LET r == task.run
  IN  /\ At(p, phase) /\ Permits(phase, r)
      /\ runs' = [runs EXCEPT
           ![r].phase = phase,
           ![r].prepared = IF phase = "candidate_prepared" THEN dir.candidate[r] ELSE @,
           ![r].candidate = IF phase = "candidate_verified" THEN Identity(dir.candidate[r]) ELSE @]
      /\ Pop(phase)
      /\ UNCHANGED <<leaseVars, dir, durable, inode, historyVars>>

(* Calls that change the directory; none is durable before sync_dir.         *)
Relink(p, step, entries) ==
  /\ At(p, step) /\ Permits(step, task.run)
  /\ dir' = entries
  /\ Pop(runs[task.run].phase)
  /\ UNCHANGED <<leaseVars, durable, runs, historyVars>>

Exchange(p) ==
  LET r == task.run
  IN  /\ Relink(p, "exchange",
           IF runs[r].phase = "rollback_swap_intent"
           THEN [dir EXCEPT !.source = dir.rollback[r], !.rollback[r] = dir.source]
           ELSE [dir EXCEPT !.source = dir.candidate[r], !.candidate[r] = dir.source])
      /\ UNCHANGED inode

PublishRollback(p) ==
  LET r == task.run
  IN  /\ Relink(p, "publish", [dir EXCEPT !.rollback[r] = dir.candidate[r], !.candidate[r] = 0])
      /\ UNCHANGED inode

(* RemoveOwnedPartialCandidate and RemoveAbandonedCandidate.                 *)
RemoveCandidate(p, step) ==
  Relink(p, step, [dir EXCEPT !.candidate[task.run] = 0]) /\ UNCHANGED inode

PrepareCandidate(p) ==
  /\ Relink(p, "create", [dir EXCEPT !.candidate[task.run] = FreshInode])
  /\ inode' = [inode EXCEPT ![FreshInode].made = TRUE]

\* a directory that is never synced
NoDirectorySync(p) ==
  /\ At(p, "sync_dir")
  /\ Pop(runs[task.run].phase)
  /\ UNCHANGED <<leaseVars, dir, durable, inode, runs, historyVars>>

SyncDir(p) ==
  /\ At(p, "sync_dir")
  /\ durable' = dir
  /\ Pop(runs[task.run].phase)
  /\ UNCHANGED <<leaseVars, dir, inode, runs, historyVars>>

(* Build: VACUUM INTO writes the candidate, whole only when it returns.      *)
Build(p, step) ==
  LET c == dir.candidate[task.run]
  IN  /\ At(p, step) /\ Permits(step, task.run)
      /\ inode' = IF step = "copy"
                  THEN [inode EXCEPT ![c].ver = 1, ![c].safe = FALSE]
                  ELSE [inode EXCEPT ![c].whole = TRUE, ![c].recs = inode[dir.source].recs]
      /\ Pop(runs[task.run].phase)
      /\ UNCHANGED <<leaseVars, dir, durable, runs, historyVars>>

(* An interrupt cancels the build of a compaction, which is then abandoned.  *)
CancelBuild(p) ==
  /\ At(p, "copy") \/ At(p, "vacuum")
  /\ task.kind = "compact"
  /\ task' = [task EXCEPT !.kind = "doctor", !.todo = <<"abandon", "abandoned">>]
  /\ UNCHANGED <<leaseVars, dir, durable, inode, runs, historyVars>>

\* a candidate whose bytes are never synced
NoFileSync(p) ==
  /\ At(p, "sync_file")
  /\ Pop(runs[task.run].phase)
  /\ UNCHANGED <<leaseVars, dir, durable, inode, runs, historyVars>>

SyncCandidate(p) ==
  /\ At(p, "sync_file") /\ Permits("sync_file", task.run)
  /\ inode' = [inode EXCEPT ![dir.candidate[task.run]].safe = TRUE]
  /\ Pop(runs[task.run].phase)
  /\ UNCHANGED <<leaseVars, dir, durable, runs, historyVars>>

Inspect(p, step) ==
  /\ At(p, step) /\ Permits(step, task.run)
  /\ Pop(runs[task.run].phase)
  /\ UNCHANGED <<leaseVars, dir, durable, inode, runs, historyVars>>

(* planLeased: the source is fenced as it is now and the journal created.    *)
NextRunID == CHOOSE r \in RunIDs : ~Exists(r)
PlanRun(p) ==
  /\ At(p, "plan") /\ \E r \in RunIDs : ~Exists(r)
  /\ runs' = [runs EXCEPT ![NextRunID] =
       [NoRun EXCEPT !.phase = "planned", !.source = Identity(dir.source),
                     !.op = IF task.kind = "upgrade" THEN "upgrade" ELSE "compaction"]]
  /\ task' = Continue([task EXCEPT !.run = NextRunID], "planned", <<>>)
  /\ UNCHANGED <<leaseVars, dir, durable, inode, historyVars>>

(* Plan refuses for want of space: compaction falls back to the store        *)
(* itself, keeping every record but not its identity; an upgrade fails.      *)
CompactInPlace(p) ==
  /\ At(p, "plan") /\ task.kind = "compact" /\ inode[dir.source].ver < MaxVersion
  /\ inode' = [inode EXCEPT ![dir.source].ver = @ + 1]
  /\ End("done")
  /\ UNCHANGED <<leaseVars, dir, durable, runs, historyVars>>

PlanRefused(p) ==
  /\ At(p, "plan")
  /\ End("failed")
  /\ UNCHANGED <<leaseVars, dir, durable, inode, runs, historyVars>>

Step(p) ==
  \/ Refuse(p) \/ SyncDir(p) \/ Exchange(p) \/ PublishRollback(p)
  \/ PrepareCandidate(p) \/ SyncCandidate(p) \/ PlanRun(p) \/ PlanRefused(p)
  \/ CompactInPlace(p) \/ CancelBuild(p)
  \/ \E phase \in Phases : Append1(p, phase)
  \/ \E step \in {"unlink", "abandon"} : RemoveCandidate(p, step)
  \/ \E step \in {"copy", "vacuum"} : Build(p, step)
  \/ \E step \in {"recheck", "verify"} : Inspect(p, step)

(* The deferred release of every command, of one that found nothing to do    *)
(* too.                                                                      *)
Finish(p) ==
  /\ task = NoTask \/ (task.owner = p /\ task.result # "none")
  /\ ReleaseExclusive(p)
  /\ task' = NoTask
  /\ UNCHANGED <<dir, durable, inode, runs, historyVars>>

-----------------------------------------------------------------------------
(* Doctor's sweep: the journals in flight, then the files of every other     *)
(* run, then their removal one by one, all without the lease.                *)
SweepRead(kind) ==
  /\ sweep = NoSweep /\ "sweep" \in Commands
  /\ sweep' = [NoSweep EXCEPT !.stage = "read", !.kind = kind, !.live = InFlight]
  /\ UNCHANGED <<leaseVars, storeVars, opened, acked, exposed, swept, exits, losses>>

Leftovers(kind, live) ==
  {r \in RunIDs \ live : runs[r].op = "compaction" /\ dir[kind][r] # 0}
SweepList ==
  /\ sweep.stage = "read"
  /\ LET found == Leftovers(sweep.kind, sweep.live)
     IN  sweep' = IF found = {} THEN NoSweep
                  ELSE [sweep EXCEPT !.stage = "remove", !.paths = found, !.live = {}]
  /\ UNCHANGED <<leaseVars, storeVars, opened, acked, exposed, swept, exits, losses>>

SweepRemove(r) ==
  /\ sweep.stage = "remove" /\ r \in sweep.paths
  /\ dir' = [dir EXCEPT ![sweep.kind][r] = 0]
  /\ swept' = IF r \in InFlight /\ dir[sweep.kind][r] # 0 THEN swept \cup {r} ELSE swept
  /\ sweep' = IF sweep.paths = {r} THEN NoSweep ELSE [sweep EXCEPT !.paths = @ \ {r}]
  /\ UNCHANGED <<leaseVars, durable, inode, runs, task, opened, acked, exposed, exits, losses>>

(* Doctor stops on the way.                                                  *)
SweepEnd ==
  /\ sweep.stage = "remove"
  /\ sweep' = NoSweep
  /\ UNCHANGED <<leaseVars, storeVars, opened, acked, exposed, swept, exits, losses>>

-----------------------------------------------------------------------------
(* Hooks, and the end of processes and of the machine.                       *)
Open(p) ==
  /\ FlockShared(p)
  /\ opened' = [opened EXCEPT ![p] = dir.source]
  /\ UNCHANGED <<storeVars, sweep, acked, exposed, swept, exits, losses>>

CloseStore(p) ==
  /\ CloseConn(p)
  /\ opened' = [opened EXCEPT ![p] = 0]
  /\ UNCHANGED <<storeVars, sweep, acked, exposed, swept, exits, losses>>

(* The store a rollback in progress is about to replace.                     *)
RollbackIntended ==
  \E r \in RunIDs : runs[r].phase = "rollback_swap_intent" /\ dir.source = runs[r].candidate[1]

Write(p, rec) ==
  LET i == opened[p]
  IN  /\ conn[p] = "open" /\ rec \notin acked /\ inode[i].ver < MaxVersion
      /\ inode' = [inode EXCEPT ![i].recs = @ \cup {rec}, ![i].ver = @ + 1]
      /\ acked' = acked \cup {rec}
      /\ exposed' = IF RollbackIntended \/ dir.source # durable.source
                    THEN exposed \cup {rec} ELSE exposed
      /\ UNCHANGED <<leaseVars, dir, durable, runs, task, sweep, opened, swept, exits, losses>>

(* A hook that is killed is one that closed its connection.                  *)
Killed(p) ==
  /\ p \in Operators
  /\ exits < MaxExits /\ exits' = exits + 1
  /\ Exit(p)
  /\ task' = IF task.owner = p THEN NoTask ELSE task
  /\ opened' = [opened EXCEPT ![p] = 0]
  /\ UNCHANGED <<dir, durable, inode, runs, sweep, acked, exposed, swept, losses>>

PowerLoss ==
  /\ losses < MaxPowerLoss /\ losses' = losses + 1
  /\ excl' = [p \in Procs |-> "none"] /\ conn' = [p \in Procs |-> "none"]
  /\ marker' = IF marker \in Procs THEN DeadPid ELSE marker
  /\ dir' \in {dir, durable} /\ durable' = dir'
  /\ \E torn \in SUBSET {i \in 1..MaxInode : ~inode[i].safe} :
       inode' = [i \in 1..MaxInode |-> IF i \in torn THEN [inode[i] EXCEPT !.whole = FALSE] ELSE inode[i]]
  /\ task' = NoTask
  /\ opened' = [p \in Procs |-> 0] /\ sweep' = NoSweep
  /\ UNCHANGED <<runs, acked, exposed, swept, exits>>

(* Lease steps that touch nothing else.                                      *)
LeaseStep(p) ==
  /\ IF p \in Operators THEN ExclusiveStep(p) ELSE ConnectStep(p)
  /\ UNCHANGED <<storeVars, historyVars>>

CommandStart(p) ==
  Compact(p) \/ Rollback(p) \/ AbandonStalePrePublication(p) \/ RunUpgrade(p)
Sweeping ==
  \/ SweepList \/ SweepEnd
  \/ \E kind \in {"candidate", "rollback"} : SweepRead(kind)
  \/ \E r \in RunIDs : SweepRemove(r)
HookStep(p) == Open(p) \/ CloseStore(p) \/ \E rec \in Records : Write(p, rec)

CompactionNext ==
  \/ \E p \in Procs :
       LeaseStep(p) \/ CommandStart(p) \/ Step(p) \/ Finish(p) \/ HookStep(p) \/ Killed(p)
  \/ Sweeping \/ PowerLoss
CompactionSpec == CompactionInit /\ [][CompactionNext]_compactionVars

-----------------------------------------------------------------------------
(* Properties.                                                               *)
InodeNo == 0..MaxInode
(* The types of the state; a command at work holds the exclusive lease.      *)
CompactionTypeOK ==
  /\ LeaseTypeOK
  /\ \A d \in {dir, durable} :
       /\ d.source \in InodeNo \ {0}
       /\ d.candidate \in [RunIDs -> InodeNo] /\ d.rollback \in [RunIDs -> InodeNo]
  /\ \A r \in RunIDs :
       /\ runs[r].phase \in Phases \cup {"none"}
       /\ runs[r].source[1] \in InodeNo /\ runs[r].candidate[1] \in InodeNo
  /\ task.owner \in {p \in Operators : excl[p] = "held"} \cup {None} /\ task.run \in RunIDs \cup {None}
  /\ acked \subseteq Records /\ exposed \subseteq acked /\ swept \subseteq RunIDs

(* Whatever step of a build, an exchange or a recovery is cut short, and     *)
(* whatever of the directory survives a power loss, the path of the store    *)
(* names a complete database: never the empty or half-written candidate.     *)
StoreAlwaysWhole == inode[dir.source].whole /\ inode[durable.source].whole

(* A record a host was told is stored stays in the store across compaction,  *)
(* upgrade, rollback, abandonment, crash and power loss, unless it was       *)
(* written to a published store whose rollback had been intended and then    *)
(* interrupted, or to one whose exchange was not yet durable.                *)
OnlyRollbackWindowLoses == acked \subseteq inode[dir.source].recs \cup exposed

(* No acknowledged record is ever discarded by a rollback (the comment of    *)
(* NewStoreCompactionUsecase).                                               *)
NoAcknowledgedLoss == acked \subseteq inode[dir.source].recs

(* The journal never claims a placement that a power loss could undo: a run  *)
(* recorded as swapped or rollback-ready is so in the synced directory.      *)
JournalNotAhead ==
  \A r \in RunIDs \ swept :
    LET run == runs[r]
    IN  /\ run.phase \in {"swapped", "rollback_publish_intent"} =>
             durable.source = run.candidate[1]
        /\ run.phase = "rollback_ready" =>
             durable.source = run.candidate[1] /\ durable.rollback[r] = run.source[1]

(* From the swap on, the file a rollback would restore is kept, as it was    *)
(* when the run was planned, under the candidate's or the rollback's name,   *)
(* until an operator rolls back: no late writer reaches it.                  *)
OriginalKept ==
  \A r \in RunIDs \ swept :
    LET run == runs[r]
        kept == {dir.candidate[r], dir.rollback[r]} \ {0}
    IN  run.phase \in {"swapped", "rollback_publish_intent", "rollback_ready"} =>
          kept = {run.source[1]} /\ Identity(run.source[1]) = run.source

(* Two compactions never rewrite the store at once, not even as an           *)
(* interrupted one and its successor, which would be ambiguous for ever. A   *)
(* rollback of an earlier run is the one thing that may be in flight beside. *)
AtMostOneForwardRun ==
  Cardinality({r \in InFlight : runs[r].phase \notin {"rollback_swap_intent", "rollback_swapped"}})
    \leq 1

(* The types of the state, the lease of a command at work, and one run at a  *)
(* time.                                                                     *)
CompactionInv == CompactionTypeOK /\ AtMostOneForwardRun

(* No connection writes to a file that an exchange has moved away from the   *)
(* path of the store: its records would vanish from every later reader.      *)
NoDisplacedWriter == \A p \in Procs : conn[p] = "open" => opened[p] = dir.source

(* Where a rerun of `store compact` cannot resume. A candidate created but   *)
(* not recorded.                                                             *)
Unrecorded(r) ==
  /\ runs[r].phase \in {"copy_intent", "copy_retry_intent"}
  /\ dir.candidate[r] \notin {0, runs[r].prepared}
(* A store written to after the copy, or replaced by another run.            *)
SourceMoved(r) ==
  dir.source # runs[r].candidate[1] /\ Identity(dir.source) # runs[r].source
(* A candidate that an abandonment removed before it was recorded, or that   *)
(* was written to as the store before a power loss undid its exchange.       *)
CandidateMoved(r) ==
  \/ runs[r].phase = "candidate_prepared" /\ dir.candidate[r] = 0
  \/ /\ runs[r].phase = "swap_intent" /\ dir.candidate[r] = runs[r].candidate[1]
     /\ Identity(dir.candidate[r]) # runs[r].candidate
(* A restored store written to before the rollback was recorded.             *)
OriginalWritten(r) ==
  /\ runs[r].phase \in {"rollback_swap_intent", "rollback_swapped"}
  /\ Identity(runs[r].source[1]) # runs[r].source
(* A rollback recorded without syncing its exchange, which a power loss      *)
(* undid.                                                                    *)
RollbackUndone(r) ==
  runs[r].phase = "rollback_swapped" /\ dir.source = runs[r].candidate[1]
(* A retained file that doctor listed when its run had ended, and removed    *)
(* from the rollback that began since.                                       *)
RetainedSwept(r) ==
  /\ "sweep" \in Commands /\ dir.rollback[r] = 0
  /\ runs[r].phase \in {"rollback_swap_intent", "rollback_swapped"}

(* The one compaction in flight is resumed or abandoned by the next one in   *)
(* every state a crash can leave, but for six: those above and no other.     *)
CrashLeavesResumable ==
  \A r \in InFlight \ swept :
    task = NoTask /\ InFlight = {r} =>
      \/ Stale(r) \/ RecoverySteps(r) # <<"refuse">>
      \/ Unrecorded(r) \/ SourceMoved(r) \/ CandidateMoved(r)
      \/ OriginalWritten(r) \/ RollbackUndone(r) \/ RetainedSwept(r)

(* The one upgrade that has not ended is the one RunUpgrade finds (the       *)
(* comment of FindActive), so that it resumes it.                            *)
UnfinishedUpgradeFound ==
  \A r \in Active : runs[r].phase \notin Terminal => Active = {r}

(* Doctor's sweep removes no file of a run in flight (the hint of            *)
(* inspectCompactInFlightJournalsWithFix).                                   *)
InFlightFilesKept == swept = {}
=============================================================================
