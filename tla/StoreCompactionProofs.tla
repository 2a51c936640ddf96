-------------------------- MODULE StoreCompactionProofs --------------------------
(*****************************************************************************)
(* For any number of processes, runs, records, crashes and power losses:     *)
(* maintenance of the store is alone, no connection is left on a file that   *)
(* an exchange moved away, the path of the store always names a complete     *)
(* database, one compaction at a time is on its way, the store it displaced  *)
(* is kept as it was, the journal is not ahead of the synced directory, no   *)
(* record is lost but those written in the window of a rollback, and a run   *)
(* that a crash cut short is resumed but for six states of its files.        *)
(*                                                                           *)
(* Every step of a command is taken by the owner of the task, the owner      *)
(* holds the exclusive lease, and while that is held no connection is open:  *)
(* so the path of the store only changes when nobody has it open. What it is *)
(* changed to is a file some journal fenced, and a journal fences a          *)
(* candidate only when the steps before it made it complete and synced. The  *)
(* displaced file has one name and is nobody's store, so nothing writes to   *)
(* it, and the steps left of a command say what the disk already holds. An   *)
(* exchange fences the version of the store it replaces: a record written    *)
(* since the candidate was verified would have changed it. And each phase of *)
(* a journal leaves the files of its run few places to be, now and on disk.  *)
(*****************************************************************************)
EXTENDS StoreCompaction, StoreLeaseProofs, FiniteSetTheorems, SequenceTheorems

(* The records the state is made of, whatever their fields hold.             *)
IsTask(c) ==
  c = [owner |-> c.owner, kind |-> c.kind, run |-> c.run, todo |-> c.todo, result |-> c.result]
IsDir(d) == "source" \in DOMAIN d
IsSweep(s) == s = [stage |-> s.stage, kind |-> s.kind, live |-> s.live, paths |-> s.paths]

StoreShape ==
  /\ IsDir(dir) /\ IsDir(durable)
  /\ IsSweep(sweep) /\ sweep.kind \in {"none", "candidate", "rollback"}
  /\ opened = [p \in Procs |-> opened[p]]

(* A command at work belongs to a process that holds the lease.              *)
TaskOwned ==
  /\ IsTask(task)
  /\ task.owner \in Procs \cup {None}
  /\ task.owner # None => excl[task.owner] = "held"

(* The inductive invariant.                                                  *)
OwnedInv == LeaseInv /\ StoreShape /\ TaskOwned /\ NoDisplacedWriter

-----------------------------------------------------------------------------
(* No task is nobody's.                                                      *)
LEMMA NoTaskIsTask == IsTask(NoTask) /\ NoTask.owner = None
BY DEF IsTask, NoTask

(* A command with another owner, kind or run is a command.                   *)
LEMMA TaskExcept ==
  ASSUME NEW c, NEW x, IsTask(c)
  PROVE  /\ IsTask([c EXCEPT !.owner = x]) /\ [c EXCEPT !.owner = x].owner = x
         /\ IsTask([c EXCEPT !.kind = x]) /\ [c EXCEPT !.kind = x].owner = c.owner
         /\ IsTask([c EXCEPT !.run = x]) /\ [c EXCEPT !.run = x].owner = c.owner
BY DEF IsTask

(* Going on with a command does not change whose it is.                      *)
LEMMA ContinueKeepsOwner ==
  ASSUME NEW c, NEW phase, NEW todo, IsTask(c)
  PROVE  IsTask(Continue(c, phase, todo)) /\ Continue(c, phase, todo).owner = c.owner
BY DEF IsTask, Continue

(* Ending it neither.                                                        *)
LEMMA PopKeepsOwner ==
  ASSUME IsTask(task), NEW phase, Pop(phase)
  PROVE  IsTask(task') /\ task'.owner = task.owner
BY ContinueKeepsOwner DEF Pop

(* Nor does an early end.                                                    *)
LEMMA EndKeepsOwner ==
  ASSUME IsTask(task), NEW result, End(result)
  PROVE  IsTask(task') /\ task'.owner = task.owner
BY DEF End, IsTask

(* What a step of a command may do: it is taken by the owner, who stays, and *)
(* it leaves the lease and the connections alone.                            *)
StepFrame(p) ==
  /\ task.owner = p
  /\ IsTask(task') /\ task'.owner = task.owner
  /\ UNCHANGED <<leaseVars, historyVars>>
  /\ IsDir(dir') /\ IsDir(durable')

(* A change of the directory is a step of the owner.                         *)
LEMMA RelinkFrame ==
  ASSUME NEW p, NEW step, NEW entries, IsTask(task), IsDir(durable), IsDir(entries),
         Relink(p, step, entries)
  PROVE  StepFrame(p)
<1>1. task.owner = p
  BY DEF Relink, At, Busy
<1>2. IsTask(task') /\ task'.owner = task.owner
  BY PopKeepsOwner DEF Relink
<1> QED BY <1>1, <1>2 DEF Relink, StepFrame

(* Every step of a command is one of its owner.                              *)
LEMMA StepHasFrame ==
  ASSUME NEW p \in Procs, IsTask(task), IsDir(dir), IsDir(durable), Step(p)
  PROVE  StepFrame(p)
<1>1. CASE Refuse(p)
  BY <1>1, EndKeepsOwner DEF Refuse, Busy, StepFrame
<1>2. CASE SyncDir(p)
  BY <1>2, PopKeepsOwner DEF SyncDir, At, Busy, StepFrame
<1>3. CASE Exchange(p)
  <2>1. CASE runs[task.run].phase = "rollback_swap_intent"
    <3> DEFINE entries == [dir EXCEPT !.source = dir.rollback[task.run], !.rollback[task.run] = dir.source]
    <3>1. IsDir(entries)
      BY DEF IsDir
    <3>2. Relink(p, "exchange", entries)
      BY <1>3, <2>1 DEF Exchange
    <3> HIDE DEF entries
    <3> QED BY <3>1, <3>2, RelinkFrame
  <2>2. CASE runs[task.run].phase # "rollback_swap_intent"
    <3> DEFINE entries == [dir EXCEPT !.source = dir.candidate[task.run], !.candidate[task.run] = dir.source]
    <3>1. IsDir(entries)
      BY DEF IsDir
    <3>2. Relink(p, "exchange", entries)
      BY <1>3, <2>2 DEF Exchange
    <3> HIDE DEF entries
    <3> QED BY <3>1, <3>2, RelinkFrame
  <2> QED BY <2>1, <2>2
<1>4. CASE PublishRollback(p)
  <2> DEFINE entries == [dir EXCEPT !.rollback[task.run] = dir.candidate[task.run], !.candidate[task.run] = 0]
  <2>1. IsDir(entries)
    BY DEF IsDir
  <2>2. Relink(p, "publish", entries)
    BY <1>4 DEF PublishRollback
  <2> HIDE DEF entries
  <2> QED BY <2>1, <2>2, RelinkFrame
<1>5. CASE PrepareCandidate(p)
  <2> DEFINE entries == [dir EXCEPT !.candidate[task.run] = FreshInode]
  <2>1. IsDir(entries)
    BY DEF IsDir
  <2>2. Relink(p, "create", entries)
    BY <1>5 DEF PrepareCandidate
  <2> HIDE DEF entries
  <2> QED BY <2>1, <2>2, RelinkFrame
<1>6. CASE SyncCandidate(p)
  BY <1>6, PopKeepsOwner DEF SyncCandidate, At, Busy, StepFrame
<1>7. CASE PlanRun(p)
  <2>1. IsTask([task EXCEPT !.run = NextRunID]) /\ [task EXCEPT !.run = NextRunID].owner = task.owner
    BY DEF IsTask
  <2>2. IsTask(task') /\ task'.owner = task.owner
    <3> DEFINE c == [task EXCEPT !.run = NextRunID]
    <3>1. task' = Continue(c, "planned", <<>>)
      BY <1>7 DEF PlanRun
    <3> HIDE DEF c
    <3> QED BY <2>1, <3>1, ContinueKeepsOwner DEF c
  <2> QED BY <1>7, <2>2 DEF PlanRun, At, Busy, StepFrame
<1>8. CASE PlanRefused(p)
  BY <1>8, EndKeepsOwner DEF PlanRefused, At, Busy, StepFrame
<1>9. CASE CompactInPlace(p)
  BY <1>9, EndKeepsOwner DEF CompactInPlace, At, Busy, StepFrame
<1>10. CASE CancelBuild(p)
  <2>1. IsTask(task') /\ task'.owner = task.owner
    BY <1>10 DEF CancelBuild, IsTask
  <2> QED BY <1>10, <2>1 DEF CancelBuild, At, Busy, StepFrame
<1>11. ASSUME NEW phase \in Phases, Append1(p, phase) PROVE StepFrame(p)
  BY <1>11, PopKeepsOwner DEF Append1, At, Busy, StepFrame
<1>12. ASSUME NEW step \in {"unlink", "abandon"}, RemoveCandidate(p, step) PROVE StepFrame(p)
  <2> DEFINE entries == [dir EXCEPT !.candidate[task.run] = 0]
  <2>1. IsDir(entries)
    BY DEF IsDir
  <2>2. Relink(p, step, entries)
    BY <1>12 DEF RemoveCandidate
  <2> HIDE DEF entries
  <2> QED BY <2>1, <2>2, RelinkFrame
<1>13. ASSUME NEW step \in {"copy", "vacuum"}, Build(p, step) PROVE StepFrame(p)
  BY <1>13, PopKeepsOwner DEF Build, At, Busy, StepFrame
<1>14. ASSUME NEW step \in {"recheck", "verify"}, Inspect(p, step) PROVE StepFrame(p)
  BY <1>14, PopKeepsOwner DEF Inspect, At, Busy, StepFrame
<1> QED
  BY <1>1, <1>2, <1>3, <1>4, <1>5, <1>6, <1>7, <1>8, <1>9, <1>10, <1>11, <1>12, <1>13, <1>14
  DEF Step

-----------------------------------------------------------------------------
(* OwnedInv holds of a store nobody uses yet.                                *)
LEMMA OwnedInvInit == CompactionInit => OwnedInv
<1> SUFFICES ASSUME CompactionInit PROVE OwnedInv
  OBVIOUS
<1>1. LeaseInv
  BY LeaseInitInv DEF CompactionInit
<1>2. StoreShape
  BY DEF CompactionInit, StoreShape, IsDir, IsSweep, NoSweep
<1>3. TaskOwned
  BY NoTaskIsTask DEF CompactionInit, TaskOwned
<1>4. NoDisplacedWriter
  BY DEF CompactionInit, LeaseInit, NoDisplacedWriter
<1> QED BY <1>1, <1>2, <1>3, <1>4 DEF OwnedInv

(* A step of a command: its owner holds the lease, so nothing is connected.  *)
LEMMA StepKeepsInv ==
  ASSUME OwnedInv, NEW p \in Procs, Step(p)
  PROVE  OwnedInv'
<1>1. StepFrame(p)
  BY StepHasFrame DEF OwnedInv, StoreShape, TaskOwned
<1>2. excl[p] = "held"
  BY <1>1, LeaseAssumption DEF OwnedInv, TaskOwned, StepFrame
<1>3. \A q \in Procs : conn[q] # "open"
  BY <1>2 DEF OwnedInv, LeaseInv
<1>4. UNCHANGED leaseVars
  BY <1>1 DEF StepFrame
<1>5. LeaseInv'
  BY <1>4, LeaseStepInv DEF OwnedInv
<1>6. StoreShape'
  BY <1>1 DEF OwnedInv, StoreShape, StepFrame, historyVars
<1>7. TaskOwned'
  BY <1>1, <1>4 DEF OwnedInv, TaskOwned, StepFrame, leaseVars
<1>8. NoDisplacedWriter'
  BY <1>3, <1>4 DEF NoDisplacedWriter, leaseVars
<1> QED BY <1>5, <1>6, <1>7, <1>8 DEF OwnedInv

(* The start of a command: the process that begins holds the lease.          *)
LEMMA StartKeepsInv ==
  ASSUME OwnedInv, NEW p \in Procs, CommandStart(p)
  PROVE  OwnedInv'
<1>1. PICK kind, r, todo : Begin(p, kind, r, todo)
  BY DEF CommandStart, Compact, Rollback, AbandonStalePrePublication, RunUpgrade
<1> DEFINE c == [NoTask EXCEPT !.owner = p, !.kind = kind, !.run = r]
<1>2. IsTask(c) /\ c.owner = p
  <2> DEFINE a == [NoTask EXCEPT !.owner = p]
             b == [a EXCEPT !.kind = kind]
  <2>1. IsTask(a) /\ a.owner = p
    BY NoTaskIsTask, TaskExcept
  <2> HIDE DEF a
  <2>2. IsTask(b) /\ b.owner = p
    BY <2>1, TaskExcept
  <2> HIDE DEF b
  <2>3. IsTask([b EXCEPT !.run = r]) /\ [b EXCEPT !.run = r].owner = p
    BY <2>2, TaskExcept
  <2>4. c = [b EXCEPT !.run = r]
    BY DEF a, b
  <2> QED BY <2>3, <2>4
<1>3. task' = Continue(c, IF r = None THEN "none" ELSE runs[r].phase, todo)
  BY <1>1 DEF Begin
<1> HIDE DEF c
<1>4. IsTask(task') /\ task'.owner = p
  BY <1>2, <1>3, ContinueKeepsOwner
<1>5. UNCHANGED <<leaseVars, dir, durable, historyVars>> /\ excl[p] = "held"
  BY <1>1 DEF Begin
<1>6. LeaseInv'
  BY <1>5, LeaseStepInv DEF OwnedInv
<1>7. StoreShape'
  BY <1>5 DEF OwnedInv, StoreShape, historyVars
<1>8. TaskOwned'
  BY <1>4, <1>5 DEF TaskOwned, leaseVars
<1>9. NoDisplacedWriter'
  BY <1>5 DEF OwnedInv, NoDisplacedWriter, leaseVars, historyVars
<1> QED BY <1>6, <1>7, <1>8, <1>9 DEF OwnedInv

(* The lease alone: a holder keeps it, and nothing is newly connected.       *)
LEMMA LeaseKeepsInv ==
  ASSUME OwnedInv, NEW p \in Procs, LeaseStep(p)
  PROVE  OwnedInv'
<1>1. UNCHANGED <<storeVars, historyVars>>
  BY DEF LeaseStep
<1>2. ExclusiveStep(p) \/ ConnectStep(p)
  BY DEF LeaseStep
<1>3. LeaseInv'
  BY <1>2, LeaseStepInv DEF OwnedInv, LeaseNext
<1>4. \A q \in Procs : excl[q] = "held" => excl'[q] = "held"
  BY <1>2 DEF OwnedInv, LeaseInv, LeaseTypeOK, ExclusiveStep, ConnectStep, AcquireExclusive,
              FlockExclusive, HoldExclusive, GiveUpExclusive, FlockRelease, Connect,
              ConsultMarker, ReapMarker, FlockWouldBlock, GiveUpConnect
<1>5. \A q \in Procs : conn'[q] = "open" => conn[q] = "open"
  <2>1. CASE ExclusiveStep(p)
    BY <2>1 DEF ExclusiveStep, AcquireExclusive, FlockExclusive, HoldExclusive, GiveUpExclusive,
                FlockRelease
  <2>2. AfterConsult # "open"
    BY DEF AfterConsult
  <2>3. CASE ConnectStep(p)
    BY <2>2, <2>3 DEF OwnedInv, LeaseInv, LeaseTypeOK, ConnectStep, Connect, ConsultMarker,
                      ReapMarker, FlockWouldBlock, GiveUpConnect
  <2> QED BY <1>2, <2>1, <2>3
<1>6. StoreShape'
  BY <1>1 DEF OwnedInv, StoreShape, historyVars, storeVars
<1>7. TaskOwned'
  BY <1>1, <1>4 DEF OwnedInv, TaskOwned, storeVars
<1>8. NoDisplacedWriter'
  BY <1>1, <1>5 DEF OwnedInv, NoDisplacedWriter, storeVars, historyVars
<1> QED BY <1>3, <1>6, <1>7, <1>8 DEF OwnedInv

(* The release of the lease ends the task.                                   *)
LEMMA FinishKeepsInv ==
  ASSUME OwnedInv, NEW p \in Procs, Finish(p)
  PROVE  OwnedInv'
<1>1. UNCHANGED <<dir, durable, historyVars>> /\ task' = NoTask /\ ReleaseExclusive(p)
  BY DEF Finish
<1>2. LeaseInv'
  BY <1>1, LeaseStepInv DEF OwnedInv, LeaseNext
<1>3. StoreShape'
  BY <1>1 DEF OwnedInv, StoreShape, historyVars
<1>4. TaskOwned'
  BY <1>1, NoTaskIsTask DEF TaskOwned
<1>5. NoDisplacedWriter'
  BY <1>1 DEF OwnedInv, NoDisplacedWriter, ReleaseExclusive, historyVars
<1> QED BY <1>2, <1>3, <1>4, <1>5 DEF OwnedInv

(* Hooks: a connection is opened on the file the path names.                 *)
LEMMA HookKeepsInv ==
  ASSUME OwnedInv, NEW p \in Procs, HookStep(p)
  PROVE  OwnedInv'
<1>1. CASE Open(p)
  <2>1. FlockShared(p) /\ opened' = [opened EXCEPT ![p] = dir.source] /\ UNCHANGED <<storeVars, sweep>>
    BY <1>1 DEF Open
  <2>2. LeaseInv'
    BY <2>1, LeaseStepInv DEF OwnedInv, LeaseNext
  <2>3. StoreShape'
    BY <2>1 DEF OwnedInv, StoreShape, storeVars
  <2>4. TaskOwned'
    BY <2>1 DEF OwnedInv, TaskOwned, storeVars, FlockShared
  <2>5. NoDisplacedWriter'
    BY <2>1 DEF OwnedInv, NoDisplacedWriter, StoreShape, LeaseInv, LeaseTypeOK, FlockShared,
                storeVars
  <2> QED BY <2>2, <2>3, <2>4, <2>5 DEF OwnedInv
<1>2. CASE CloseStore(p)
  <2>1. CloseConn(p) /\ opened' = [opened EXCEPT ![p] = 0] /\ UNCHANGED <<storeVars, sweep>>
    BY <1>2 DEF CloseStore
  <2>2. LeaseInv'
    BY <2>1, LeaseStepInv DEF OwnedInv, LeaseNext
  <2>3. StoreShape'
    BY <2>1 DEF OwnedInv, StoreShape, storeVars
  <2>4. TaskOwned'
    BY <2>1 DEF OwnedInv, TaskOwned, storeVars, CloseConn
  <2>5. NoDisplacedWriter'
    BY <2>1 DEF OwnedInv, NoDisplacedWriter, StoreShape, LeaseInv, LeaseTypeOK, CloseConn, storeVars
  <2> QED BY <2>2, <2>3, <2>4, <2>5 DEF OwnedInv
<1>3. ASSUME NEW rec \in Records, Write(p, rec) PROVE OwnedInv'
  <2>1. UNCHANGED <<leaseVars, dir, durable, task, sweep, opened>>
    BY <1>3 DEF Write
  <2>2. LeaseInv'
    BY <2>1, LeaseStepInv DEF OwnedInv
  <2> QED BY <2>1, <2>2 DEF OwnedInv, StoreShape, TaskOwned, NoDisplacedWriter, leaseVars
<1> QED BY <1>1, <1>2, <1>3 DEF HookStep

(* A process that is killed takes its task and its connection with it.       *)
LEMMA KilledKeepsInv ==
  ASSUME OwnedInv, NEW p \in Procs, Killed(p)
  PROVE  OwnedInv'
<1>1. /\ Exit(p) /\ UNCHANGED <<dir, durable, sweep>>
      /\ task' = IF task.owner = p THEN NoTask ELSE task
      /\ opened' = [opened EXCEPT ![p] = 0]
  BY DEF Killed
<1>2. LeaseInv'
  BY <1>1, LeaseStepInv DEF OwnedInv, LeaseNext
<1>3. StoreShape'
  BY <1>1 DEF OwnedInv, StoreShape
<1>4. TaskOwned'
  <2>1. CASE task.owner = p
    BY <1>1, <2>1, NoTaskIsTask DEF TaskOwned
  <2>2. CASE task.owner # p
    BY <1>1, <2>2 DEF OwnedInv, TaskOwned, LeaseInv, LeaseTypeOK, Exit
  <2> QED BY <2>1, <2>2
<1>5. NoDisplacedWriter'
  BY <1>1 DEF OwnedInv, NoDisplacedWriter, StoreShape, LeaseInv, LeaseTypeOK, Exit
<1> QED BY <1>2, <1>3, <1>4, <1>5 DEF OwnedInv

(* Doctor's sweep removes work files, never the store itself.                *)
LEMMA SweepKeepsInv ==
  ASSUME OwnedInv, Sweeping
  PROVE  OwnedInv'
<1>1. UNCHANGED <<leaseVars, durable, task, opened>>
  BY DEF Sweeping, SweepList, SweepEnd, SweepRead, SweepRemove, storeVars
<1>2. LeaseInv'
  BY <1>1, LeaseStepInv DEF OwnedInv
<1>3. IsDir(dir') /\ dir'.source = dir.source
  BY DEF OwnedInv, StoreShape, IsDir, Sweeping, SweepList, SweepEnd, SweepRead, SweepRemove, storeVars
<1>4. IsSweep(sweep') /\ sweep'.kind \in {"none", "candidate", "rollback"}
  <2>1. CASE SweepList
    BY <2>1 DEF OwnedInv, StoreShape, IsSweep, SweepList, NoSweep
  <2>2. CASE SweepEnd
    BY <2>2 DEF SweepEnd, NoSweep, IsSweep
  <2>3. ASSUME NEW kind \in {"candidate", "rollback"}, SweepRead(kind)
        PROVE  IsSweep(sweep') /\ sweep'.kind \in {"none", "candidate", "rollback"}
    BY <2>3 DEF SweepRead, NoSweep, IsSweep
  <2>4. ASSUME NEW r \in RunIDs, SweepRemove(r)
        PROVE  IsSweep(sweep') /\ sweep'.kind \in {"none", "candidate", "rollback"}
    BY <2>4 DEF OwnedInv, StoreShape, IsSweep, SweepRemove, NoSweep
  <2> QED BY <2>1, <2>2, <2>3, <2>4 DEF Sweeping
<1>5. StoreShape'
  BY <1>1, <1>3, <1>4 DEF OwnedInv, StoreShape
<1>6. TaskOwned'
  BY <1>1 DEF OwnedInv, TaskOwned, leaseVars
<1>7. NoDisplacedWriter'
  BY <1>1, <1>3 DEF OwnedInv, NoDisplacedWriter, leaseVars
<1> QED BY <1>2, <1>5, <1>6, <1>7 DEF OwnedInv

(* A power loss ends every process.                                          *)
LEMMA PowerLossKeepsInv ==
  ASSUME OwnedInv, PowerLoss
  PROVE  OwnedInv'
<1>1. LeaseInv'
  BY LeaseAssumption DEF OwnedInv, LeaseInv, LeaseTypeOK, ExclStates, ConnStates, PowerLoss
<1>2. StoreShape'
  BY DEF OwnedInv, StoreShape, PowerLoss, NoSweep, IsSweep, IsDir
<1>3. TaskOwned'
  BY NoTaskIsTask DEF PowerLoss, TaskOwned
<1>4. NoDisplacedWriter'
  BY DEF PowerLoss, NoDisplacedWriter
<1> QED BY <1>1, <1>2, <1>3, <1>4 DEF OwnedInv

(* OwnedInv is inductive.                                                    *)
LEMMA OwnedInvStep == OwnedInv /\ [CompactionNext]_compactionVars => OwnedInv'
<1> SUFFICES ASSUME OwnedInv, [CompactionNext]_compactionVars PROVE OwnedInv'
  OBVIOUS
<1>1. CASE UNCHANGED compactionVars
  <2>1. UNCHANGED <<leaseVars, dir, durable, task, sweep, opened>>
    BY <1>1 DEF compactionVars, storeVars, historyVars
  <2>2. LeaseInv'
    BY <2>1, LeaseStepInv DEF OwnedInv
  <2> QED BY <2>1, <2>2 DEF OwnedInv, StoreShape, TaskOwned, NoDisplacedWriter, leaseVars
<1> QED
  BY <1>1, StepKeepsInv, StartKeepsInv, LeaseKeepsInv, FinishKeepsInv, HookKeepsInv,
     KilledKeepsInv, SweepKeepsInv, PowerLossKeepsInv DEF CompactionNext

(* The invariant holds of every behaviour of maintenance.                    *)
LEMMA OwnedInvariant == CompactionSpec => []OwnedInv
BY OwnedInvInit, OwnedInvStep, PTL DEF CompactionSpec

(* Maintenance of the store is alone, whichever commands run, are killed or  *)
(* lose power: no connection is open and no other process holds the lock     *)
(* from the grant of flock(LOCK_EX) to its release.                          *)
THEOREM MaintenanceIsAlone == CompactionSpec => []LeaseExclusion
<1>1. OwnedInv => LeaseExclusion
  BY DEF OwnedInv, LeaseInv, LeaseExclusion, LockedBy, Connected
<1> QED BY <1>1, OwnedInvariant, PTL

(* Every open connection is on the file that the path of the store names:    *)
(* no exchange, removal, rollback or sweep leaves a writer on a displaced    *)
(* file, whose records no later reader would see.                            *)
THEOREM WritersAreOnTheStore == CompactionSpec => []NoDisplacedWriter
<1>1. OwnedInv => NoDisplacedWriter
  BY DEF OwnedInv
<1> QED BY <1>1, OwnedInvariant, PTL

-----------------------------------------------------------------------------
(* What the files and the journals say about each other.                     *)

Inodes == 1..MaxInode
Files == [recs : SUBSET Records, ver : Nat, whole : BOOLEAN, safe : BOOLEAN, made : BOOLEAN]
Directories ==
  [source : Inodes, candidate : [RunIDs -> InodeNo], rollback : [RunIDs -> InodeNo]]
Journals ==
  [phase : Phases \cup {"none"}, op : {"none", "compaction", "upgrade"},
   source : InodeNo \X Nat, prepared : InodeNo, candidate : InodeNo \X Nat]

(* Before its candidate is verified a run has not touched the store.         *)
Building == {"none"} \cup PrePublication \cup Unverified
Built == {"candidate_prepared", "copy_retry_intent"} \cup Unverified
SyncedPhases == {"candidate_synced", "scrub_in_progress"}

(* A run on its way to a new store, as AtMostOneForwardRun counts them.      *)
IsForward(run) ==
  /\ run.op = "compaction"
  /\ run.phase \notin Terminal \cup {"none", "rollback_swap_intent", "rollback_swapped"}

StateOK ==
  /\ inode \in [Inodes -> Files]
  /\ dir \in Directories /\ durable \in Directories
  /\ runs \in [RunIDs -> Journals]

(* The files the path of the store names, now or after a power loss, and     *)
(* those a journal has fenced for it to name.                                *)
IsKept(i) ==
  \/ i = dir.source \/ i = durable.source
  \/ \E r \in RunIDs : i = runs[r].source[1] \/ i = runs[r].candidate[1]
Named(r, i) == i = dir.candidate[r] \/ i = durable.candidate[r]

(* A file that no power loss can tear.                                       *)
Complete(i) == inode[i].made = TRUE /\ inode[i].whole = TRUE /\ inode[i].safe = TRUE

KeptComplete == \A i \in Inodes : IsKept(i) => Complete(i)
CandidatesMade == \A r \in RunIDs : \A i \in Inodes : Named(r, i) => inode[i].made = TRUE
FreshSafe == \A i \in Inodes : inode[i].made = FALSE => inode[i].safe = TRUE
(* The candidate under construction is no other run's file, and not a store. *)
CandidatesApart ==
  \A r \in RunIDs : runs[r].phase \in Building =>
    \A i \in Inodes : Named(r, i) =>
      ~IsKept(i) /\ \A q \in RunIDs : Named(q, i) => q = r
PreparedNamed == \A r \in RunIDs : runs[r].phase \in Built => runs[r].prepared # 0
CandidatesSynced ==
  \A r \in RunIDs : runs[r].phase \in SyncedPhases =>
    \A i \in Inodes : Named(r, i) => inode[i].safe = TRUE
OneForward == \A q, r \in RunIDs : IsForward(runs[q]) /\ IsForward(runs[r]) => q = r

FilesOK ==
  /\ StateOK /\ KeptComplete /\ CandidatesMade /\ FreshSafe /\ CandidatesApart
  /\ PreparedNamed /\ CandidatesSynced /\ OneForward

-----------------------------------------------------------------------------
(* What is left of a command, given the journals, the directory, the synced  *)
(* directory and the files: any sequence of steps that need nothing of what  *)
(* came before, or the rest of one of the sequences that do.                 *)
PlainSteps ==
  (Phases \ {"candidate_synced", "candidate_verified"})
  \cup {"recheck", "create", "sync_dir", "vacuum", "exchange", "publish", "unlink", "abandon", "refuse"}

(* A new run is planned when no other is on its way.                         *)
PlanWork(run, kind, todo, rs) ==
  \/ /\ todo = <<"plan">>
     /\ kind # "upgrade" => \A r \in RunIDs : ~IsForward(rs[r])
  \/ /\ todo \in {<<"abandon", "abandoned", "plan">>, <<"abandoned", "plan">>}
     /\ kind # "upgrade" /\ run # None
     /\ \A r \in RunIDs : IsForward(rs[r]) => r = run
(* The candidate is copied into while it is nobody's store,                  *)
BuildWork(run, todo, rs) ==
  rs[run].phase = "candidate_prepared" /\ todo = <<"copy", "vacuum", "copy_complete">>
(* recorded as synced once it is, under both names,                          *)
SyncWork(run, todo, rs, d, dd, f) ==
  /\ rs[run].phase = "candidate_sync_intent"
  /\ \/ todo = <<"sync_file", "sync_dir", "candidate_synced">>
     \/ /\ todo = <<"sync_dir", "candidate_synced">>
        /\ \A i \in Inodes : i = d.candidate[run] => f[i].safe = TRUE
     \/ /\ todo = <<"candidate_synced">>
        /\ \A i \in Inodes : i = d.candidate[run] \/ i = dd.candidate[run] => f[i].safe = TRUE
(* and as verified when it is a complete store.                              *)
VerifyWork(run, todo, rs, d, f) ==
  /\ rs[run].phase = "scrub_in_progress"
  /\ \/ todo = <<"verify", "candidate_verified">>
     \/ /\ todo = <<"candidate_verified">>
        /\ \A i \in Inodes : i = d.candidate[run] => f[i].whole = TRUE

Work(run, kind, todo, rs, d, dd, f) ==
  /\ run \in RunIDs \cup {None}
  /\ run = None => todo \in {<<>>, <<"plan">>, <<"refuse">>}
  /\ run # None /\ todo # <<>> => rs[run].phase # "none"
  /\ \/ todo \in Seq(PlainSteps)
     \/ PlanWork(run, kind, todo, rs)
     \/ run # None /\ BuildWork(run, todo, rs)
     \/ run # None /\ SyncWork(run, todo, rs, d, dd, f)
     \/ run # None /\ VerifyWork(run, todo, rs, d, f)

WorkOK == Work(task.run, task.kind, task.todo, runs, dir, durable, inode)

(* Commands are run by operators, and only what was written is acknowledged. *)
HistoryOK ==
  /\ acked \subseteq Records /\ exposed \subseteq acked /\ swept \subseteq RunIDs
  /\ \A p \in Procs : excl[p] # "none" => p \in Operators

(* The inductive invariant.                                                  *)
FilesInv == FilesOK /\ WorkOK /\ HistoryOK

-----------------------------------------------------------------------------
(* A number that is not zero names a file.                                   *)
LEMMA InodeFacts ==
  /\ Inodes \subseteq InodeNo /\ 0 \notin Inodes /\ 0 \in InodeNo
  /\ \A i \in InodeNo : i # 0 => i \in Inodes
  /\ 1 \in Inodes
BY CompactionAssumption DEF Inodes, InodeNo

(* The store and the files a journal names, by their types.                  *)
LEMMA SourceKept ==
  ASSUME StateOK
  PROVE  /\ dir.source \in Inodes /\ durable.source \in Inodes
         /\ IsKept(dir.source) /\ IsKept(durable.source)
BY DEF StateOK, Directories, IsKept

(* What a step may do to the files without touching a store: no file is      *)
(* unmade, and none that is synced is torn or loses its sync.                *)
FilesImprove ==
  /\ inode' \in [Inodes -> Files]
  /\ \A i \in Inodes :
       /\ inode[i].made = TRUE => inode'[i].made = TRUE
       /\ inode[i].safe = TRUE => inode'[i].safe = TRUE
       /\ inode[i].safe = TRUE /\ inode[i].whole = TRUE => inode'[i].whole = TRUE

(* What it may do to the directory: the store is a file that was kept, and a *)
(* candidate is one that already was, a store that was moved away by a run   *)
(* which is not building, or a new file.                                     *)
NamesFollow ==
  /\ dir' \in Directories /\ durable' \in Directories
  /\ \A i \in Inodes : IsKept(i)' => IsKept(i)
  /\ \A r \in RunIDs : \A i \in Inodes : Named(r, i)' =>
       \/ Named(r, i)
       \/ IsKept(i) /\ runs[r].phase \notin Building
       \/ inode[i].made = FALSE /\ inode'[i].made = TRUE /\ r = task.run

(* Such a step keeps what the files and the journals say.                    *)
LEMMA FilesStep ==
  ASSUME FilesOK, FilesImprove, NamesFollow, UNCHANGED runs
  PROVE  FilesOK'
<1>1. StateOK'
  BY DEF FilesOK, StateOK, FilesImprove, NamesFollow
<1>2. KeptComplete'
  BY DEF FilesOK, KeptComplete, Complete, FilesImprove, NamesFollow
<1>3. CandidatesMade'
  BY DEF FilesOK, CandidatesMade, KeptComplete, Complete, FilesImprove, NamesFollow
<1>4. FreshSafe'
  <2> SUFFICES ASSUME NEW i \in Inodes, inode'[i].made = FALSE PROVE inode'[i].safe = TRUE
    BY DEF FreshSafe
  <2>1. inode[i].made \in BOOLEAN
    BY DEF FilesOK, StateOK, Files
  <2>2. inode[i].made = FALSE
    BY <2>1 DEF FilesImprove
  <2> QED BY <2>2 DEF FilesOK, FreshSafe, FilesImprove
<1>5. ASSUME NEW i \in Inodes, inode[i].made = FALSE
      PROVE  ~IsKept(i) /\ \A r \in RunIDs : ~Named(r, i)
  BY <1>5 DEF FilesOK, KeptComplete, Complete, CandidatesMade
<1>6. CandidatesApart'
  <2> SUFFICES ASSUME NEW r \in RunIDs, runs[r].phase \in Building,
                      NEW i \in Inodes, Named(r, i)'
               PROVE  ~IsKept(i)' /\ \A q \in RunIDs : Named(q, i)' => q = r
    BY DEF CandidatesApart, Building, PrePublication, Unverified
  <2>1. Named(r, i) \/ (inode[i].made = FALSE /\ r = task.run)
    BY DEF NamesFollow
  <2>2. ~IsKept(i)
    BY <2>1, <1>5 DEF FilesOK, CandidatesApart
  <2>3. ~IsKept(i)'
    BY <2>2 DEF NamesFollow
  <2>4. ASSUME NEW q \in RunIDs, Named(q, i)' PROVE q = r
    <3>1. Named(q, i) \/ (inode[i].made = FALSE /\ q = task.run)
      BY <2>2, <2>4 DEF NamesFollow
    <3> QED BY <2>1, <3>1, <1>5 DEF FilesOK, CandidatesApart
  <2> QED BY <2>3, <2>4
<1>7. PreparedNamed'
  BY DEF FilesOK, PreparedNamed, Built, Unverified
<1>8. CandidatesSynced'
  <2> SUFFICES ASSUME NEW r \in RunIDs, runs[r].phase \in SyncedPhases,
                      NEW i \in Inodes, Named(r, i)'
               PROVE  inode'[i].safe = TRUE
    BY DEF CandidatesSynced, SyncedPhases
  <2>1. runs[r].phase \in Building
    BY DEF SyncedPhases, Building, Unverified
  <2>2. Named(r, i) \/ inode[i].made = FALSE
    BY <2>1 DEF NamesFollow
  <2>3. inode[i].safe = TRUE
    BY <2>2 DEF FilesOK, CandidatesSynced, FreshSafe
  <2> QED BY <2>3 DEF FilesImprove
<1>9. OneForward'
  BY DEF FilesOK, OneForward, IsForward, Terminal
<1> QED BY <1>1, <1>2, <1>3, <1>4, <1>6, <1>7, <1>8, <1>9 DEF FilesOK

(* When the files stay as they are, nothing is lost.                         *)
LEMMA SameFiles == ASSUME FilesOK, UNCHANGED inode PROVE FilesImprove
BY DEF FilesOK, StateOK, FilesImprove

(* Nor when the directory and the journals do.                               *)
LEMMA SameNames == ASSUME FilesOK, UNCHANGED <<dir, durable, runs>> PROVE NamesFollow
BY DEF FilesOK, StateOK, NamesFollow, IsKept, Named

-----------------------------------------------------------------------------
(* The steps that need nothing of what came before them.                     *)
LEMMA PlainFacts ==
  /\ Phases \ {"candidate_synced", "candidate_verified"} \subseteq PlainSteps
  /\ {"recheck", "create", "sync_dir", "vacuum", "exchange", "publish", "unlink", "abandon", "refuse"}
       \subseteq PlainSteps
  /\ {"planned", "copy_intent", "copy_retry_intent", "candidate_prepared", "copy_complete",
      "candidate_sync_intent", "scrub_in_progress", "swap_intent", "swapped",
      "rollback_publish_intent", "rollback_ready", "committed", "rollback_swap_intent",
      "rollback_swapped", "rolled_back", "abandoned"} \subseteq PlainSteps
  /\ \A s \in {"plan", "copy", "sync_file", "verify", "candidate_synced", "candidate_verified"} :
       s \notin PlainSteps
BY DEF PlainSteps, Phases, PrePublication, Unverified, Terminal

(* Sequences of them.                                                        *)
LEMMA PlainTuples ==
  /\ <<>> \in Seq(PlainSteps)
  /\ \A a \in PlainSteps : <<a>> \in Seq(PlainSteps)
  /\ \A a, b \in PlainSteps : <<a, b>> \in Seq(PlainSteps)
  /\ \A a, b, c \in PlainSteps : <<a, b, c>> \in Seq(PlainSteps)
  /\ \A a, b, c, d \in PlainSteps : <<a, b, c, d>> \in Seq(PlainSteps)
OBVIOUS

(* Phases are told from the steps that are system calls.                     *)
LEMMA PhaseFacts ==
  /\ "none" \notin Phases
  /\ \A s \in {"plan", "copy", "sync_file", "verify", "recheck", "create", "sync_dir", "vacuum",
               "exchange", "publish", "unlink", "abandon", "refuse"} : s \notin Phases
  /\ {"planned", "copy_intent", "copy_retry_intent", "candidate_prepared", "copy_complete",
      "candidate_sync_intent", "candidate_synced", "scrub_in_progress", "candidate_verified",
      "swap_intent", "swapped", "rollback_publish_intent", "rollback_ready", "committed",
      "rollback_swap_intent", "rollback_swapped", "rolled_back", "abandoned"} = Phases
BY DEF Phases, PrePublication, Unverified, Terminal

(* What a run still has to do in a phase needs nothing, or is the start of   *)
(* one of the sequences that do.                                             *)
LEMMA ApplyWork ==
  ASSUME NEW run \in RunIDs, run # None, NEW kind, NEW rs, NEW d, NEW dd, NEW f,
         rs[run].phase \in DOMAIN ApplySteps
  PROVE  Work(run, kind, ApplySteps[rs[run].phase], rs, d, dd, f)
<1> DEFINE phase == rs[run].phase
           todo == ApplySteps[phase]
<1>1. phase # "none"
  BY DEF ApplySteps
<1>2. phase = "candidate_prepared" => BuildWork(run, todo, rs)
  BY DEF ApplySteps, BuildWork
<1>3. phase = "candidate_sync_intent" => SyncWork(run, todo, rs, d, dd, f)
  BY DEF ApplySteps, SyncWork
<1>4. phase = "scrub_in_progress" => VerifyWork(run, todo, rs, d, f)
  BY DEF ApplySteps, VerifyWork
<1>5. ASSUME phase \notin {"candidate_prepared", "candidate_sync_intent", "scrub_in_progress"}
      PROVE  todo \in Seq(PlainSteps)
  <2>1. CASE phase = "planned"
    <3>1. todo = <<"recheck", "copy_intent">>
      BY <2>1 DEF ApplySteps
    <3> QED BY <3>1, PlainFacts, PlainTuples
  <2>2. CASE phase \in {"copy_intent", "copy_retry_intent"}
    <3>1. todo = <<"create", "sync_dir", "candidate_prepared">>
      BY <2>2 DEF ApplySteps
    <3> QED BY <3>1, PlainFacts, PlainTuples
  <2>3. CASE phase \in {"copy_complete", "candidate_synced", "candidate_verified", "swapped"}
    <3>1. todo \in {<<"candidate_sync_intent">>, <<"scrub_in_progress">>, <<"swap_intent">>,
                    <<"rollback_publish_intent">>}
      BY <2>3 DEF ApplySteps
    <3> QED BY <3>1, PlainFacts, PlainTuples
  <2>4. CASE phase = "swap_intent"
    <3>1. todo = <<"exchange", "sync_dir", "swapped">>
      BY <2>4 DEF ApplySteps
    <3> QED BY <3>1, PlainFacts, PlainTuples
  <2>5. CASE phase = "rollback_publish_intent"
    <3>1. todo = <<"publish", "sync_dir", "rollback_ready">>
      BY <2>5 DEF ApplySteps
    <3> QED BY <3>1, PlainFacts, PlainTuples
  <2>6. CASE phase = "rollback_ready"
    <3>1. todo = <<"committed">>
      BY <2>6 DEF ApplySteps
    <3> QED BY <3>1, PlainFacts, PlainTuples
  <2> QED BY <1>5, <2>1, <2>2, <2>3, <2>4, <2>5, <2>6 DEF ApplySteps
<1> HIDE DEF phase, todo
<1> QED BY <1>1, <1>2, <1>3, <1>4, <1>5 DEF Work, phase, todo

(* Steps that need nothing are work in any state of a run that exists.       *)
LEMMA PlainWork ==
  ASSUME NEW run \in RunIDs, run # None, NEW kind, NEW todo \in Seq(PlainSteps),
         NEW rs, NEW d, NEW dd, NEW f, rs[run].phase # "none"
  PROVE  Work(run, kind, todo, rs, d, dd, f)
BY DEF Work

(* Nothing to do is work too.                                                *)
LEMMA NoWork ==
  ASSUME NEW run \in RunIDs \cup {None}, NEW kind, NEW rs, NEW d, NEW dd, NEW f
  PROVE  Work(run, kind, <<>>, rs, d, dd, f)
BY DEF Work

(* Going on with a command whose rest is work leaves it with work.           *)
LEMMA ContinueWork ==
  ASSUME NEW c, IsTask(c), NEW phase, NEW todo, NEW rs, NEW d, NEW dd, NEW f,
         Work(c.run, c.kind, todo, rs, d, dd, f),
         c.run # None => phase = rs[c.run].phase,
         c.run = None => phase = "none"
  PROVE  LET n == Continue(c, phase, todo)
         IN  Work(n.run, n.kind, n.todo, rs, d, dd, f)
<1> DEFINE n == Continue(c, phase, todo)
<1>1. n.run = c.run /\ n.kind = c.kind
  BY DEF IsTask, Continue
<1>2. c.run \in RunIDs \cup {None}
  BY DEF Work
<1>3. \/ n.todo = todo \/ n.todo = <<>>
      \/ n.todo = ApplySteps[phase] /\ phase \in DOMAIN ApplySteps
  BY DEF IsTask, Continue
<1>4. phase \in DOMAIN ApplySteps => c.run \in RunIDs /\ c.run # None
  BY <1>2 DEF ApplySteps
<1> HIDE DEF n
<1>5. Work(c.run, c.kind, n.todo, rs, d, dd, f)
  BY <1>2, <1>3, <1>4, NoWork, ApplyWork
<1> QED BY <1>1, <1>5 DEF n

(* So does a step that takes the first of what is left.                      *)
LEMMA PopWork ==
  ASSUME IsTask(task), NEW phase, Pop(phase), task.run \in RunIDs, task.run # None,
         phase = runs'[task.run].phase,
         Work(task.run, task.kind, Tail(task.todo), runs', dir', durable', inode')
  PROVE  WorkOK'
<1>1. task' = Continue(task, phase, Tail(task.todo))
  BY DEF Pop
<1>2. Work(task'.run, task'.kind, task'.todo, runs', dir', durable', inode')
  BY <1>1, ContinueWork
<1> QED BY <1>2 DEF WorkOK

(* A command that ends has nothing left to do.                               *)
LEMMA EndWork ==
  ASSUME IsTask(task), WorkOK, NEW result, End(result)
  PROVE  WorkOK'
<1>1. task'.todo = <<>> /\ task'.run = task.run /\ task'.kind = task.kind
  BY DEF End, IsTask
<1>2. task.run \in RunIDs \cup {None}
  BY DEF WorkOK, Work
<1>3. Work(task'.run, task'.kind, task'.todo, runs', dir', durable', inode')
  BY <1>1, <1>2, NoWork
<1> QED BY <1>3 DEF WorkOK

(* What the first of the steps left says about the rest.                     *)
HeadSays(step, rest, run, kind, rs, d, dd, f) ==
  LET plain == rest \in Seq(PlainSteps)
  IN  /\ step \notin {"plan", "refuse"} =>
           run \in RunIDs /\ run # None /\ rs[run].phase # "none"
      /\ step \in PlainSteps \ {"sync_dir", "abandon", "abandoned"} => plain
      /\ step = "plan" => (kind # "upgrade" => \A r \in RunIDs : ~IsForward(rs[r]))
      /\ step = "abandon" =>
           plain \/ (rest = <<"abandoned", "plan">> /\ PlanWork(run, kind, rest, rs))
      /\ step = "abandoned" =>
           \/ plain
           \/ /\ rest = <<"plan">>
              /\ kind # "upgrade" /\ \A r \in RunIDs : IsForward(rs[r]) => r = run
      /\ step = "copy" => rs[run].phase = "candidate_prepared" /\ plain
      /\ step = "sync_file" =>
           rs[run].phase = "candidate_sync_intent" /\ rest = <<"sync_dir", "candidate_synced">>
      /\ step = "sync_dir" =>
           \/ plain
           \/ /\ rs[run].phase = "candidate_sync_intent" /\ rest = <<"candidate_synced">>
              /\ \A i \in Inodes : i = d.candidate[run] => f[i].safe = TRUE
      /\ step = "candidate_synced" =>
           /\ plain /\ rs[run].phase = "candidate_sync_intent"
           /\ \A i \in Inodes :
                i = d.candidate[run] \/ i = dd.candidate[run] => f[i].safe = TRUE
      /\ step = "verify" =>
           rs[run].phase = "scrub_in_progress" /\ rest = <<"candidate_verified">>
      /\ step = "candidate_verified" =>
           /\ plain /\ rs[run].phase = "scrub_in_progress"
           /\ \A i \in Inodes : i = d.candidate[run] => f[i].whole = TRUE

(* Work left says it.                                                        *)
LEMMA WorkHead ==
  ASSUME NEW run, NEW kind, NEW todo, NEW rs, NEW d, NEW dd, NEW f,
         Work(run, kind, todo, rs, d, dd, f), todo # <<>>
  PROVE  HeadSays(Head(todo), Tail(todo), run, kind, rs, d, dd, f)
<1> DEFINE step == Head(todo)
           rest == Tail(todo)
           plain == rest \in Seq(PlainSteps)
<1>1. run = None => step \in {"plan", "refuse"}
  BY DEF Work
<1>2. step \notin {"plan", "refuse"} => run \in RunIDs /\ run # None /\ rs[run].phase # "none"
  BY <1>1 DEF Work
<1>3. CASE todo \in Seq(PlainSteps)
  <2>1. step \in PlainSteps /\ plain
    BY <1>3, HeadTailProperties
  <2> HIDE DEF step, rest
  <2> QED BY <1>2, <2>1, PlainFacts DEF HeadSays, step, rest
<1>4. CASE PlanWork(run, kind, todo, rs)
  <2>1. CASE todo = <<"plan">>
    <3>1. step = "plan" /\ rest = <<>>
      BY <2>1
    <3>2. kind # "upgrade" => \A r \in RunIDs : ~IsForward(rs[r])
      BY <1>4, <2>1 DEF PlanWork
    <3> HIDE DEF step, rest
    <3> QED BY <3>1, <3>2, <1>2, PlainFacts DEF HeadSays, step, rest
  <2>2. CASE todo = <<"abandon", "abandoned", "plan">>
    <3>1. step = "abandon" /\ rest = <<"abandoned", "plan">>
      BY <2>2
    <3>2. PlanWork(run, kind, rest, rs)
      BY <1>4, <2>2, <3>1 DEF PlanWork
    <3> HIDE DEF step, rest
    <3> QED BY <3>1, <3>2, <1>2, PlainFacts DEF HeadSays, step, rest
  <2>3. CASE todo = <<"abandoned", "plan">>
    <3>1. step = "abandoned" /\ rest = <<"plan">>
      BY <2>3
    <3>2. kind # "upgrade" /\ \A r \in RunIDs : IsForward(rs[r]) => r = run
      BY <1>4, <2>3 DEF PlanWork
    <3> HIDE DEF step, rest
    <3> QED BY <3>1, <3>2, <1>2, PlainFacts DEF HeadSays, step, rest
  <2> QED BY <1>4, <2>1, <2>2, <2>3 DEF PlanWork
<1>5. CASE BuildWork(run, todo, rs)
  <2>1. step = "copy" /\ rest = <<"vacuum", "copy_complete">> /\ rs[run].phase = "candidate_prepared"
    BY <1>5 DEF BuildWork
  <2> HIDE DEF step, rest
  <2>2. "vacuum" \in PlainSteps /\ "copy_complete" \in PlainSteps
    BY PlainFacts
  <2>3. rest \in Seq(PlainSteps)
    BY <2>1, <2>2, PlainTuples
  <2> QED BY <2>1, <2>3, <1>2, PlainFacts DEF HeadSays, step, rest
<1>6. CASE SyncWork(run, todo, rs, d, dd, f)
  <2>1. CASE todo = <<"sync_file", "sync_dir", "candidate_synced">>
    <3>1. step = "sync_file" /\ rest = <<"sync_dir", "candidate_synced">>
      BY <2>1
    <3>2. rs[run].phase = "candidate_sync_intent"
      BY <1>6 DEF SyncWork
    <3> HIDE DEF step, rest
    <3> QED BY <3>1, <3>2, <1>2, PlainFacts DEF HeadSays, step, rest
  <2>2. CASE todo = <<"sync_dir", "candidate_synced">>
    <3>1. step = "sync_dir" /\ rest = <<"candidate_synced">>
      BY <2>2
    <3>2. rs[run].phase = "candidate_sync_intent" /\ \A i \in Inodes : i = d.candidate[run] => f[i].safe = TRUE
      BY <1>6, <2>2 DEF SyncWork
    <3> HIDE DEF step, rest
    <3> QED BY <3>1, <3>2, <1>2, PlainFacts DEF HeadSays, step, rest
  <2>3. CASE todo = <<"candidate_synced">>
    <3>1. step = "candidate_synced" /\ rest = <<>>
      BY <2>3
    <3>2. /\ rs[run].phase = "candidate_sync_intent"
          /\ \A i \in Inodes : i = d.candidate[run] \/ i = dd.candidate[run] => f[i].safe = TRUE
      BY <1>6, <2>3 DEF SyncWork
    <3>3. plain
      BY <3>1, PlainTuples
    <3> HIDE DEF step, rest
    <3> QED BY <3>1, <3>2, <3>3, <1>2, PlainFacts DEF HeadSays, step, rest
  <2> QED BY <1>6, <2>1, <2>2, <2>3 DEF SyncWork
<1>7. CASE VerifyWork(run, todo, rs, d, f)
  <2>1. CASE todo = <<"verify", "candidate_verified">>
    <3>1. step = "verify" /\ rest = <<"candidate_verified">>
      BY <2>1
    <3>2. rs[run].phase = "scrub_in_progress"
      BY <1>7 DEF VerifyWork
    <3> HIDE DEF step, rest
    <3> QED BY <3>1, <3>2, <1>2, PlainFacts DEF HeadSays, step, rest
  <2>2. CASE todo = <<"candidate_verified">>
    <3>1. step = "candidate_verified" /\ rest = <<>>
      BY <2>2
    <3>2. /\ rs[run].phase = "scrub_in_progress"
          /\ \A i \in Inodes : i = d.candidate[run] => f[i].whole = TRUE
      BY <1>7, <2>2 DEF VerifyWork
    <3>3. plain
      BY <3>1, PlainTuples
    <3> HIDE DEF step, rest
    <3> QED BY <3>1, <3>2, <3>3, <1>2, PlainFacts DEF HeadSays, step, rest
  <2> QED BY <1>7, <2>1, <2>2 DEF VerifyWork
<1> QED BY <1>3, <1>4, <1>5, <1>6, <1>7 DEF Work

-----------------------------------------------------------------------------
(* What one phase to the next means for the invariant.                       *)
PhaseOrder(from, to) ==
  /\ to \in Phases
  /\ to \in Building => from \in Building
  /\ to \in Built => to = "candidate_prepared" \/ from \in Built
  /\ to \in SyncedPhases => to = "candidate_synced" \/ from \in SyncedPhases
  /\ to \notin Terminal \cup {"none", "rollback_swap_intent", "rollback_swapped"} =>
       from \notin Terminal \cup {"none", "rollback_swap_intent", "rollback_swapped"}

(* A run never returns to building its candidate, nor to being on its way.   *)
LEMMA TransitionFacts ==
  ASSUME NEW from \in Phases, NEW to \in Transitions[from]
  PROVE  PhaseOrder(from, to)
<1>1. CASE from \in {"planned", "copy_intent"}
  <2>1. to \in {"copy_intent", "candidate_prepared", "abandoned"}
    BY <1>1 DEF Transitions
  <2> QED BY <1>1, <2>1 DEF PhaseOrder, Phases, Building, Built, SyncedPhases, Terminal, PrePublication, Unverified
<1>2. CASE from \in {"copy_retry_intent", "candidate_prepared"}
  <2>1. to \in {"candidate_prepared", "abandoned"} \/ (from = "candidate_prepared" /\ to \in {"copy_complete", "copy_retry_intent"})
    BY <1>2 DEF Transitions
  <2> QED BY <1>2, <2>1 DEF PhaseOrder, Phases, Building, Built, SyncedPhases, Terminal, PrePublication, Unverified
<1>3. CASE from \in {"copy_complete", "candidate_sync_intent"}
  <2>1. to \in {"candidate_sync_intent", "candidate_synced"}
    BY <1>3 DEF Transitions
  <2> QED BY <1>3, <2>1 DEF PhaseOrder, Phases, Building, Built, SyncedPhases, Terminal, PrePublication, Unverified
<1>4. CASE from \in {"candidate_synced", "scrub_in_progress"}
  <2>1. to \in {"scrub_in_progress", "candidate_verified"}
    BY <1>4 DEF Transitions
  <2> QED BY <1>4, <2>1 DEF PhaseOrder, Phases, Building, Built, SyncedPhases, Terminal, PrePublication, Unverified
<1>5. CASE from \in {"candidate_verified", "swap_intent", "swapped", "rollback_publish_intent"}
  <2>1. to \in {"swap_intent", "swapped", "rollback_publish_intent", "rollback_ready"}
    BY <1>5 DEF Transitions
  <2> QED BY <1>5, <2>1 DEF PhaseOrder, Phases, Building, Built, SyncedPhases, Terminal, PrePublication, Unverified
<1>6. CASE from \in {"rollback_ready", "committed", "rollback_swap_intent", "rollback_swapped"}
  <2>1. to \in {"committed", "rollback_swap_intent", "rollback_swapped", "rolled_back"}
    BY <1>6 DEF Transitions
  <2> QED BY <1>6, <2>1 DEF PhaseOrder, Phases, Building, Built, SyncedPhases, Terminal, PrePublication, Unverified
<1>7. CASE from \in {"rolled_back", "abandoned"}
  BY <1>7 DEF Transitions
<1> QED BY <1>1, <1>2, <1>3, <1>4, <1>5, <1>6, <1>7, PhaseFacts

(* Recovery of a run needs nothing of what came before it.                   *)
LEMMA RecoveryIsPlain == ASSUME NEW r PROVE RecoverySteps(r) \in Seq(PlainSteps)
<1>1. /\ <<"swap_intent", "sync_dir", "swapped">> \in Seq(PlainSteps)
      /\ <<"sync_dir", "swapped">> \in Seq(PlainSteps)
      /\ <<>> \in Seq(PlainSteps) /\ <<"refuse">> \in Seq(PlainSteps)
  BY PlainFacts, PlainTuples
<1>2. /\ <<"rollback_publish_intent", "sync_dir", "rollback_ready">> \in Seq(PlainSteps)
      /\ <<"sync_dir", "rollback_ready">> \in Seq(PlainSteps)
      /\ <<"exchange", "sync_dir", "rollback_swapped", "rolled_back">> \in Seq(PlainSteps)
  BY PlainFacts, PlainTuples
<1>3. /\ <<"sync_dir", "rollback_swapped", "rolled_back">> \in Seq(PlainSteps)
      /\ <<"rolled_back">> \in Seq(PlainSteps)
  BY PlainFacts, PlainTuples
<1>4. /\ <<"recheck", "unlink", "sync_dir">> \in Seq(PlainSteps)
      /\ <<"copy_retry_intent">> \in Seq(PlainSteps) /\ <<"copy_complete">> \in Seq(PlainSteps)
      /\ <<"exchange", "sync_dir", "swapped">> \in Seq(PlainSteps)
  BY PlainFacts, PlainTuples
<1>5. <<"copy_retry_intent">> \o <<"recheck", "unlink", "sync_dir">> \in Seq(PlainSteps)
  BY <1>4, ConcatProperties
<1> DEFINE phase == runs[r].phase
           placement == Observe(r)
           pair == VerifyPair(r)
           ours == dir.candidate[r] = runs[r].prepared
<1>6. CASE placement = "swapped"
  <2>1. RecoverySteps(r) =
          CASE phase = "candidate_verified" -> <<"swap_intent", "sync_dir", "swapped">>
            [] phase = "swap_intent" -> <<"sync_dir", "swapped">>
            [] phase \in {"swapped", "rollback_publish_intent"} -> <<>>
            [] OTHER -> <<"refuse">>
    BY <1>6 DEF RecoverySteps
  <2> HIDE DEF phase
  <2> QED BY <1>1, <2>1
<1>7. CASE placement = "rollback_ready"
  <2>1. RecoverySteps(r) =
          CASE phase = "swapped" -> <<"rollback_publish_intent", "sync_dir", "rollback_ready">>
            [] phase = "rollback_publish_intent" -> <<"sync_dir", "rollback_ready">>
            [] phase \in {"rollback_ready", "committed"} -> <<>>
            [] phase = "rollback_swap_intent" ->
                 <<"exchange", "sync_dir", "rollback_swapped", "rolled_back">>
            [] OTHER -> <<"refuse">>
    BY <1>7 DEF RecoverySteps
  <2> HIDE DEF phase
  <2> QED BY <1>1, <1>2, <2>1
<1>8. CASE placement = "rolled_back"
  <2>1. RecoverySteps(r) =
          CASE phase = "rollback_swap_intent" -> <<"sync_dir", "rollback_swapped", "rolled_back">>
            [] phase = "rollback_swapped" -> <<"rolled_back">>
            [] phase = "rolled_back" -> <<>>
            [] OTHER -> <<"refuse">>
    BY <1>8 DEF RecoverySteps
  <2> HIDE DEF phase
  <2> QED BY <1>1, <1>3, <2>1
<1>9. CASE placement = "source_original"
  <2>1. RecoverySteps(r) \in {<<>>, <<"refuse">>}
    BY <1>9 DEF RecoverySteps
  <2> QED BY <1>1, <2>1
<1>10. CASE placement = "candidate_ready"
  <2>1. RecoverySteps(r) =
          CASE phase = "copy_retry_intent" /\ ours -> <<"recheck", "unlink", "sync_dir">>
            [] phase = "candidate_prepared" /\ ours ->
                 IF pair THEN <<"copy_complete">>
                 ELSE <<"copy_retry_intent">> \o <<"recheck", "unlink", "sync_dir">>
            [] phase \in Unverified \cup {"candidate_verified"} -> <<>>
            [] phase = "swap_intent" -> <<"exchange", "sync_dir", "swapped">>
            [] OTHER -> <<"refuse">>
    BY <1>10 DEF RecoverySteps
  <2> HIDE DEF phase, pair, ours
  <2> QED BY <1>1, <1>4, <1>5, <2>1 DEF Unverified
<1>11. CASE placement \notin
             {"swapped", "rollback_ready", "rolled_back", "source_original", "candidate_ready"}
  <2>1. RecoverySteps(r) = <<"refuse">>
    BY <1>11 DEF RecoverySteps
  <2> QED BY <1>1, <2>1
<1> QED BY <1>6, <1>7, <1>8, <1>9, <1>10, <1>11

(* So does a rollback.                                                       *)
LEMMA RollbackIsPlain == ASSUME NEW r PROVE RollbackSteps(r) \in Seq(PlainSteps)
<1>1. /\ <<>> \in Seq(PlainSteps) /\ <<"refuse">> \in Seq(PlainSteps)
      /\ <<"rollback_swapped", "rolled_back">> \in Seq(PlainSteps)
      /\ <<"rolled_back">> \in Seq(PlainSteps) /\ <<"rollback_swap_intent">> \in Seq(PlainSteps)
      /\ <<"exchange", "sync_dir", "rollback_swapped", "rolled_back">> \in Seq(PlainSteps)
  BY PlainFacts, PlainTuples
<1>2. /\ <<>> \o <<"exchange", "sync_dir", "rollback_swapped", "rolled_back">> \in Seq(PlainSteps)
      /\ <<"rollback_swap_intent">> \o <<"exchange", "sync_dir", "rollback_swapped", "rolled_back">>
           \in Seq(PlainSteps)
  BY <1>1, ConcatProperties
<1> DEFINE phase == runs[r].phase
           placement == Observe(r)
           refused == phase \notin RollbackPhases \/ dir.rollback[r] = 0 \/ AtRisk(r) # {}
<1>3. CASE refused
  <2>1. RollbackSteps(r) = <<"refuse">>
    BY <1>3 DEF RollbackSteps
  <2> QED BY <1>1, <2>1
<1>4. CASE ~refused
  <2>1. RollbackSteps(r) =
          CASE placement = "rolled_back" /\ phase = "rollback_swap_intent" ->
                 <<"rollback_swapped", "rolled_back">>
            [] placement = "rolled_back" /\ phase = "rollback_swapped" -> <<"rolled_back">>
            [] placement = "rollback_ready" ->
                 (IF phase = "rollback_swap_intent" THEN <<>> ELSE <<"rollback_swap_intent">>)
                 \o <<"exchange", "sync_dir", "rollback_swapped", "rolled_back">>
            [] OTHER -> <<"refuse">>
    BY <1>4 DEF RollbackSteps
  <2> HIDE DEF phase, placement, refused
  <2> QED BY <1>1, <1>2, <2>1
<1> QED BY <1>3, <1>4

(* The command that begins.                                                  *)
LEMMA BeginTask ==
  ASSUME NEW p, NEW kind, NEW r, NEW todo, Begin(p, kind, r, todo)
  PROVE  \E c : /\ IsTask(c) /\ c.owner = p /\ c.run = r /\ c.kind = kind
                /\ task' = Continue(c, IF r = None THEN "none" ELSE runs[r].phase, todo)
<1> DEFINE a == [NoTask EXCEPT !.owner = p]
           b == [a EXCEPT !.kind = kind]
           c == [b EXCEPT !.run = r]
<1>1. task' = Continue(c, IF r = None THEN "none" ELSE runs[r].phase, todo)
  BY DEF Begin
<1>2. IsTask(a) /\ a.owner = p
  BY NoTaskIsTask, TaskExcept DEF NoTask
<1> HIDE DEF a
<1>3. IsTask(b) /\ b.kind = kind /\ b.owner = p
  BY <1>2 DEF IsTask
<1> HIDE DEF b
<1>4. IsTask(c) /\ c.run = r /\ c.kind = kind /\ c.owner = p
  BY <1>3 DEF IsTask
<1> HIDE DEF c
<1> QED BY <1>1, <1>4

-----------------------------------------------------------------------------
(* A command begins with work to do: a new run is planned only when none is  *)
(* on its way, or after the one that is has been abandoned.                  *)
LEMMA BeginWork ==
  ASSUME NEW p, NEW kind, NEW r \in RunIDs \cup {None}, NEW todo, Begin(p, kind, r, todo),
         Work(r, kind, todo, runs, dir, durable, inode)
  PROVE  WorkOK'
<1> DEFINE phase == IF r = None THEN "none" ELSE runs[r].phase
<1>1. PICK c : IsTask(c) /\ c.run = r /\ c.kind = kind /\ task' = Continue(c, phase, todo)
  BY BeginTask
<1>2. c.run # None => phase = runs[c.run].phase
  BY <1>1
<1>3. c.run = None => phase = "none"
  BY <1>1
<1>4. Work(c.run, c.kind, todo, runs, dir, durable, inode)
  BY <1>1
<1> HIDE DEF phase
<1>5. Work(task'.run, task'.kind, task'.todo, runs, dir, durable, inode)
  BY <1>1, <1>2, <1>3, <1>4, ContinueWork
<1>6. UNCHANGED <<runs, dir, durable, inode>>
  BY DEF Begin
<1> QED BY <1>5, <1>6 DEF WorkOK

(* The runs on their way are in flight.                                      *)
LEMMA ForwardInFlight ==
  ASSUME NEW r \in RunIDs, IsForward(runs[r])
  PROVE  r \in InFlight
BY DEF IsForward, InFlight, Exists

(* The start of a command.                                                   *)
LEMMA StartKeepsFiles ==
  ASSUME FilesOK, WorkOK, NEW p \in Procs, CommandStart(p)
  PROVE  FilesOK' /\ WorkOK'
<1>1. \A kind, r, todo : Begin(p, kind, r, todo) => UNCHANGED <<runs, dir, durable, inode>>
  BY DEF Begin
<1>2. UNCHANGED <<runs, dir, durable, inode>>
  BY <1>1 DEF CommandStart, Compact, Rollback, AbandonStalePrePublication, RunUpgrade
<1>3. FilesOK'
  BY <1>2, FilesStep, SameFiles, SameNames
<1> SUFFICES WorkOK'
  BY <1>3
<1>4. \A r \in InFlight \cup Active : r \in RunIDs /\ r # None /\ runs[r].phase # "none"
  BY CompactionAssumption DEF InFlight, Active, Exists
<1>5. ASSUME NEW kind, NEW r \in RunIDs, Exists(r), NEW todo \in Seq(PlainSteps), Begin(p, kind, r, todo)
      PROVE  WorkOK'
  <2>1. Work(r, kind, todo, runs, dir, durable, inode)
    BY <1>5, PlainWork, CompactionAssumption DEF Exists
  <2> QED BY <1>5, <2>1, BeginWork
<1>6. ASSUME NEW kind, NEW todo \in {<<"plan">>, <<"refuse">>}, Begin(p, kind, None, todo),
             todo = <<"plan">> => (kind # "upgrade" => InFlight = {})
      PROVE  WorkOK'
  <2>1. todo = <<"plan">> \/ todo \in Seq(PlainSteps)
    BY PlainFacts, PlainTuples
  <2>2. Work(None, kind, todo, runs, dir, durable, inode)
    BY <1>6, <2>1, ForwardInFlight DEF Work, PlanWork
  <2> QED BY <1>6, <2>2, BeginWork
<1>7. CASE Compact(p)
  <2>1. ASSUME NEW r \in RunIDs, InFlight = {r}, Stale(r),
               Begin(p, "compact", r, <<"abandon", "abandoned", "plan">>)
        PROVE  WorkOK'
    <3> DEFINE todo == <<"abandon", "abandoned", "plan">>
    <3>1. PlanWork(r, "compact", todo, runs)
      BY <1>4, <2>1, ForwardInFlight DEF PlanWork
    <3>2. Work(r, "compact", todo, runs, dir, durable, inode)
      BY <1>4, <2>1, <3>1 DEF Work
    <3> QED BY <2>1, <3>2, BeginWork
  <2>2. ASSUME NEW r \in RunIDs, InFlight = {r}, Begin(p, "compact", r, RecoverySteps(r))
        PROVE  WorkOK'
    BY <2>2, <1>5, RecoveryIsPlain DEF InFlight
  <2>3. ASSUME NEW r \in RunIDs, InFlight = {r},
               Begin(p, "compact", r,
                 IF Stale(r) THEN <<"abandon", "abandoned", "plan">> ELSE RecoverySteps(r))
        PROVE  WorkOK'
    <3>1. CASE Stale(r)
      BY <2>1, <2>3, <3>1
    <3>2. CASE ~Stale(r)
      BY <2>2, <2>3, <3>2
    <3> QED BY <3>1, <3>2
  <2>4. CASE InFlight = {} /\ Begin(p, "compact", None, <<"plan">>)
    BY <1>6, <2>4
  <2>5. CASE Begin(p, "compact", None, <<"refuse">>)
    <3>1. <<"refuse">> # <<"plan">>
      OBVIOUS
    <3> QED BY <1>6, <2>5, <3>1
  <2> QED BY <1>7, <2>3, <2>4, <2>5 DEF Compact
<1>8. CASE Rollback(p)
  <2>1. PICK r \in RunIDs : Exists(r) /\ Begin(p, "rollback", r, RollbackSteps(r))
    BY <1>8 DEF Rollback
  <2>2. RollbackSteps(r) \in Seq(PlainSteps)
    BY RollbackIsPlain
  <2> QED BY <1>5, <2>1, <2>2
<1>9. CASE AbandonStalePrePublication(p)
  <2>1. <<"abandon", "abandoned">> \in Seq(PlainSteps) /\ <<>> \in Seq(PlainSteps)
    BY PlainFacts, PlainTuples
  <2>2. PICK r \in RunIDs : InFlight = {r}
          /\ Begin(p, "doctor", r, IF Stale(r) THEN <<"abandon", "abandoned">> ELSE <<>>)
    BY <1>9 DEF AbandonStalePrePublication
  <2>3. Exists(r)
    BY <2>2 DEF InFlight
  <2>4. CASE Stale(r)
    BY <1>5, <2>1, <2>2, <2>3, <2>4
  <2>5. CASE ~Stale(r)
    BY <1>5, <2>1, <2>2, <2>3, <2>5
  <2> QED BY <2>4, <2>5
<1>10. CASE RunUpgrade(p)
  <2>1. <<"swap_intent">> \in Seq(PlainSteps)
    BY PlainFacts, PlainTuples
  <2>2. ASSUME NEW r \in RunIDs, Active = {r},
               Begin(p, "upgrade", r,
                 IF runs[r].phase = "candidate_verified" THEN <<"swap_intent">> ELSE RecoverySteps(r))
        PROVE  WorkOK'
    <3>1. Exists(r)
      BY <2>2 DEF Active
    <3>2. RecoverySteps(r) \in Seq(PlainSteps)
      BY RecoveryIsPlain
    <3>3. CASE runs[r].phase = "candidate_verified"
      BY <1>5, <2>1, <2>2, <3>1, <3>3
    <3>4. CASE runs[r].phase # "candidate_verified"
      BY <1>5, <2>2, <3>1, <3>2, <3>4
    <3> QED BY <3>3, <3>4
  <2>3. CASE Begin(p, "upgrade", None, <<"plan">>)
    BY <1>6, <2>3
  <2>4. CASE Begin(p, "upgrade", None, <<"refuse">>)
    <3>1. <<"refuse">> # <<"plan">>
      OBVIOUS
    <3> QED BY <1>6, <2>4, <3>1
  <2> QED BY <1>10, <2>2, <2>3, <2>4 DEF RunUpgrade
<1> QED BY <1>7, <1>8, <1>9, <1>10 DEF CommandStart

-----------------------------------------------------------------------------
(* A step at its first call: the run it works for exists.                    *)
LEMMA AtRun ==
  ASSUME FilesOK, WorkOK, NEW p, NEW step, At(p, step), step \notin {"plan", "refuse"}
  PROVE  /\ task.run \in RunIDs /\ task.run # None
         /\ runs[task.run] \in Journals /\ runs[task.run].phase \in Phases
<1>1. Head(task.todo) = step /\ task.todo # <<>>
  BY DEF At
<1>2. task.run \in RunIDs /\ task.run # None /\ runs[task.run].phase # "none"
  BY <1>1, WorkHead DEF WorkOK, HeadSays
<1> QED BY <1>2 DEF FilesOK, StateOK, Journals

(* A call that needs nothing leaves calls that need nothing.                 *)
LEMMA PlainPop ==
  ASSUME FilesOK, WorkOK, IsTask(task), NEW p, NEW step, At(p, step), step \notin {"plan", "refuse"},
         Tail(task.todo) \in Seq(PlainSteps), Pop(runs'[task.run].phase),
         runs'[task.run].phase # "none"
  PROVE  WorkOK'
<1>1. task.run \in RunIDs /\ task.run # None
  BY AtRun
<1>2. Work(task.run, task.kind, Tail(task.todo), runs', dir', durable', inode')
  BY <1>1, PlainWork
<1> QED BY <1>1, <1>2, PopWork

(* The phase of the run, when the journals stay as they are.                 *)
LEMMA SamePhase ==
  ASSUME FilesOK, WorkOK, NEW p, NEW step, At(p, step), step \notin {"plan", "refuse"}, UNCHANGED runs
  PROVE  runs'[task.run].phase = runs[task.run].phase /\ runs'[task.run].phase # "none"
BY AtRun, PhaseFacts

(* Checks that fail, and a plan that is refused, end the command.            *)
LEMMA RefuseKeepsFiles ==
  ASSUME FilesOK, WorkOK, IsTask(task), NEW p, Refuse(p) \/ PlanRefused(p)
  PROVE  FilesOK' /\ WorkOK'
<1>1. UNCHANGED <<dir, durable, inode, runs>> /\ End("failed")
  BY DEF Refuse, PlanRefused
<1>2. FilesOK'
  BY <1>1, FilesStep, SameFiles, SameNames
<1> QED BY <1>1, <1>2, EndWork

(* Compaction in place writes to the store, which stays whole.               *)
LEMMA InPlaceKeepsFiles ==
  ASSUME FilesOK, WorkOK, IsTask(task), NEW p, CompactInPlace(p)
  PROVE  FilesOK' /\ WorkOK'
<1>1. UNCHANGED <<dir, durable, runs>> /\ End("done")
      /\ inode' = [inode EXCEPT ![dir.source].ver = @ + 1]
  BY DEF CompactInPlace
<1>2. FilesImprove
  <2>1. dir.source \in Inodes /\ inode \in [Inodes -> Files]
    BY SourceKept DEF FilesOK, StateOK
  <2> QED BY <1>1, <2>1 DEF FilesImprove, Files
<1>3. FilesOK'
  BY <1>1, <1>2, FilesStep, SameNames
<1> QED BY <1>1, <1>3, EndWork

(* A build that is cancelled is abandoned.                                   *)
LEMMA CancelKeepsFiles ==
  ASSUME FilesOK, WorkOK, IsTask(task), NEW p, CancelBuild(p)
  PROVE  FilesOK' /\ WorkOK'
<1>1. UNCHANGED <<dir, durable, inode, runs>>
  BY DEF CancelBuild
<1>2. task.run \in RunIDs /\ task.run # None /\ runs[task.run].phase # "none"
  BY AtRun, PhaseFacts DEF CancelBuild
<1>3. task'.run = task.run /\ task'.todo = <<"abandon", "abandoned">>
  BY DEF CancelBuild, IsTask
<1>4. task'.todo \in Seq(PlainSteps)
  <2>1. "abandon" \in PlainSteps /\ "abandoned" \in PlainSteps
    BY PlainFacts
  <2> QED BY <1>3, <2>1, PlainTuples
<1>5. Work(task'.run, task'.kind, task'.todo, runs', dir', durable', inode')
  BY <1>1, <1>2, <1>3, <1>4, PlainWork
<1>6. FilesOK'
  BY <1>1, FilesStep, SameFiles, SameNames
<1> QED BY <1>5, <1>6 DEF WorkOK

(* Checks that pass: a candidate is verified when it is whole.               *)
LEMMA InspectKeepsFiles ==
  ASSUME FilesOK, WorkOK, IsTask(task), NEW p, NEW step \in {"recheck", "verify"}, Inspect(p, step)
  PROVE  FilesOK' /\ WorkOK'
<1>1. UNCHANGED <<dir, durable, inode, runs>> /\ At(p, step) /\ Permits(step, task.run)
      /\ Pop(runs[task.run].phase)
  BY DEF Inspect
<1>2. FilesOK'
  BY <1>1, FilesStep, SameFiles, SameNames
<1>3. task.run \in RunIDs /\ task.run # None /\ runs[task.run].phase # "none"
  BY <1>1, AtRun, PhaseFacts
<1>4. Head(task.todo) = step /\ task.todo # <<>>
  BY <1>1 DEF At
<1>5. CASE step = "recheck"
  <2>1. Tail(task.todo) \in Seq(PlainSteps)
    BY <1>4, <1>5, WorkHead, PlainFacts DEF WorkOK, HeadSays
  <2> QED BY <1>1, <1>2, <1>5, <2>1, SamePhase, PlainPop
<1>6. CASE step = "verify"
  <2>1. runs[task.run].phase = "scrub_in_progress" /\ Tail(task.todo) = <<"candidate_verified">>
    BY <1>4, <1>6, WorkHead DEF WorkOK, HeadSays
  <2>2. VerifyPair(task.run)
    BY <1>1, <1>6, PhaseFacts DEF Permits
  <2>3. \A i \in Inodes : i = dir.candidate[task.run] => inode[i].whole = TRUE
    <3> SUFFICES ASSUME NEW i \in Inodes, i = dir.candidate[task.run] PROVE inode[i].whole = TRUE
      OBVIOUS
    <3>1. inode[i].whole
      BY <2>2 DEF VerifyPair
    <3>2. inode[i].whole \in BOOLEAN
      BY DEF FilesOK, StateOK, Files
    <3> QED BY <3>1, <3>2
  <2>4. VerifyWork(task.run, Tail(task.todo), runs, dir, inode)
    BY <2>1, <2>3 DEF VerifyWork
  <2>5. Work(task.run, task.kind, Tail(task.todo), runs, dir, durable, inode)
    BY <1>3, <2>4 DEF Work
  <2>6. Work(task.run, task.kind, Tail(task.todo), runs', dir', durable', inode')
    BY <1>1, <2>5
  <2> QED BY <1>1, <1>2, <1>3, <2>6, PopWork
<1> QED BY <1>5, <1>6

(* What each step checks before it acts.                                     *)
LEMMA PermitFacts ==
  ASSUME NEW step, NEW r, Permits(step, r)
  PROVE  /\ step = "create" => dir.candidate[r] = 0 /\ InodeLeft
         /\ step \in {"copy", "vacuum", "sync_file", "publish", "unlink"} => dir.candidate[r] # 0
         /\ step = "exchange" => ExchangeFence(r)
         /\ step \in Phases => /\ Advance(r, step)
                               /\ step = "candidate_prepared" => dir.candidate[r] # 0
                               /\ step = "candidate_verified" => dir.candidate[r] = runs[r].prepared
<1>1. CASE step \in Phases
  BY <1>1, PhaseFacts DEF Permits
<1>2. CASE step \notin Phases
  BY <1>2 DEF Permits
<1> QED BY <1>1, <1>2

(* The sync of the directory: what it names now it names for good.           *)
LEMMA SyncDirKeepsFiles ==
  ASSUME FilesOK, WorkOK, IsTask(task), NEW p, SyncDir(p)
  PROVE  FilesOK' /\ WorkOK'
<1>1. UNCHANGED <<dir, inode, runs>> /\ durable' = dir /\ At(p, "sync_dir") /\ Pop(runs[task.run].phase)
  BY DEF SyncDir
<1>2. NamesFollow
  BY <1>1 DEF FilesOK, StateOK, NamesFollow, IsKept, Named
<1>3. FilesOK'
  BY <1>1, <1>2, FilesStep, SameFiles
<1>4. task.run \in RunIDs /\ task.run # None /\ runs[task.run].phase # "none"
  BY <1>1, AtRun, PhaseFacts
<1>5. Head(task.todo) = "sync_dir" /\ task.todo # <<>>
  BY <1>1 DEF At
<1>6. CASE Tail(task.todo) \in Seq(PlainSteps)
  BY <1>1, <1>3, <1>6, SamePhase, PlainPop
<1>7. CASE /\ runs[task.run].phase = "candidate_sync_intent" /\ Tail(task.todo) = <<"candidate_synced">>
           /\ \A i \in Inodes : i = dir.candidate[task.run] => inode[i].safe = TRUE
  <2>1. SyncWork(task.run, Tail(task.todo), runs, dir, dir, inode)
    BY <1>7 DEF SyncWork
  <2>2. Work(task.run, task.kind, Tail(task.todo), runs, dir, dir, inode)
    BY <1>4, <2>1 DEF Work
  <2>3. Work(task.run, task.kind, Tail(task.todo), runs', dir', durable', inode')
    BY <1>1, <2>2
  <2> QED BY <1>1, <1>3, <1>4, <2>3, PopWork
<1>8. \/ Tail(task.todo) \in Seq(PlainSteps)
      \/ /\ runs[task.run].phase = "candidate_sync_intent" /\ Tail(task.todo) = <<"candidate_synced">>
         /\ \A i \in Inodes : i = dir.candidate[task.run] => inode[i].safe = TRUE
  <2> DEFINE rest == Tail(task.todo)
  <2>1. HeadSays("sync_dir", rest, task.run, task.kind, runs, dir, durable, inode)
    BY <1>5, WorkHead DEF WorkOK
  <2> HIDE DEF rest
  <2>2. \/ rest \in Seq(PlainSteps)
        \/ /\ runs[task.run].phase = "candidate_sync_intent" /\ rest = <<"candidate_synced">>
           /\ \A i \in Inodes : i = dir.candidate[task.run] => inode[i].safe = TRUE
    BY <2>1, Zenon DEF HeadSays
  <2> QED BY <2>2 DEF rest
<1> QED BY <1>6, <1>7, <1>8

(* The sync of the candidate's bytes.                                        *)
LEMMA SyncFileKeepsFiles ==
  ASSUME FilesOK, WorkOK, IsTask(task), NEW p, SyncCandidate(p)
  PROVE  FilesOK' /\ WorkOK'
<1> DEFINE c == dir.candidate[task.run]
<1>1. /\ UNCHANGED <<dir, durable, runs>> /\ At(p, "sync_file") /\ Pop(runs[task.run].phase)
      /\ Permits("sync_file", task.run) /\ inode' = [inode EXCEPT ![c].safe = TRUE]
  BY DEF SyncCandidate
<1>2. task.run \in RunIDs /\ task.run # None /\ runs[task.run].phase # "none"
  BY <1>1, AtRun, PhaseFacts
<1>3. c \in Inodes /\ inode \in [Inodes -> Files]
  <2>1. c \in InodeNo /\ c # 0
    BY <1>1, <1>2, PermitFacts DEF FilesOK, StateOK, Directories
  <2> QED BY <2>1, InodeFacts DEF FilesOK, StateOK
<1> HIDE DEF c
<1>4. FilesImprove
  BY <1>1, <1>3 DEF FilesImprove, Files
<1>5. FilesOK'
  BY <1>1, <1>4, FilesStep, SameNames
<1>6. Head(task.todo) = "sync_file" /\ task.todo # <<>>
  BY <1>1 DEF At
<1>7. /\ runs[task.run].phase = "candidate_sync_intent"
      /\ Tail(task.todo) = <<"sync_dir", "candidate_synced">>
  BY <1>6, WorkHead DEF WorkOK, HeadSays
<1>8. inode'[c].safe = TRUE
  BY <1>1, <1>3 DEF Files
<1>9. SyncWork(task.run, Tail(task.todo), runs, dir, durable, inode')
  BY <1>7, <1>8 DEF SyncWork, c
<1>10. Work(task.run, task.kind, Tail(task.todo), runs, dir, durable, inode')
  BY <1>2, <1>9 DEF Work
<1>11. Work(task.run, task.kind, Tail(task.todo), runs', dir', durable', inode')
  BY <1>1, <1>10
<1> QED BY <1>1, <1>2, <1>5, <1>11, PopWork

(* The copy: it tears the candidate, which is nobody's store and no other    *)
(* run's file.                                                               *)
LEMMA CopyKeepsFiles ==
  ASSUME FilesOK, WorkOK, IsTask(task), NEW p, Build(p, "copy")
  PROVE  FilesOK' /\ WorkOK'
<1> DEFINE c == dir.candidate[task.run]
<1>1. /\ UNCHANGED <<dir, durable, runs>> /\ At(p, "copy") /\ Pop(runs[task.run].phase)
      /\ Permits("copy", task.run) /\ inode' = [inode EXCEPT ![c].ver = 1, ![c].safe = FALSE]
  BY DEF Build
<1>2. task.run \in RunIDs /\ task.run # None /\ runs[task.run].phase # "none"
  BY <1>1, AtRun, PhaseFacts
<1>3. c \in Inodes /\ inode \in [Inodes -> Files] /\ Named(task.run, c)
  <2>1. c \in InodeNo /\ c # 0
    BY <1>1, <1>2, PermitFacts DEF FilesOK, StateOK, Directories
  <2> QED BY <2>1, InodeFacts DEF FilesOK, StateOK, Named
<1>4. Head(task.todo) = "copy" /\ task.todo # <<>>
  BY <1>1 DEF At
<1>5. runs[task.run].phase = "candidate_prepared" /\ Tail(task.todo) \in Seq(PlainSteps)
  BY <1>4, WorkHead DEF WorkOK, HeadSays
<1>6. ~IsKept(c) /\ \A q \in RunIDs : Named(q, c) => q = task.run
  BY <1>2, <1>3, <1>5 DEF FilesOK, CandidatesApart, Building, PrePublication
<1> HIDE DEF c
<1>7. /\ inode' \in [Inodes -> Files]
      /\ inode'[c].made = inode[c].made
      /\ \A i \in Inodes \ {c} : inode'[i] = inode[i]
  BY <1>1, <1>3 DEF Files
<1>8. \A i \in Inodes : IsKept(i)' <=> IsKept(i)
  BY <1>1 DEF IsKept
<1>9. \A r \in RunIDs : \A i \in Inodes : Named(r, i)' <=> Named(r, i)
  BY <1>1 DEF Named
<1>10. StateOK'
  BY <1>1, <1>7 DEF FilesOK, StateOK
<1>11. KeptComplete'
  BY <1>6, <1>7, <1>8 DEF FilesOK, KeptComplete, Complete
<1>12. CandidatesMade'
  BY <1>3, <1>7, <1>9 DEF FilesOK, CandidatesMade
<1>13. FreshSafe'
  <2>1. inode[c].made = TRUE
    BY <1>2, <1>3 DEF FilesOK, CandidatesMade
  <2> QED BY <1>7, <2>1 DEF FilesOK, FreshSafe
<1>14. CandidatesApart'
  BY <1>1, <1>8, <1>9 DEF FilesOK, CandidatesApart, Building, PrePublication, Unverified
<1>15. PreparedNamed'
  BY <1>1 DEF FilesOK, PreparedNamed, Built, Unverified
<1>16. CandidatesSynced'
  <2> SUFFICES ASSUME NEW r \in RunIDs, runs[r].phase \in SyncedPhases, NEW i \in Inodes, Named(r, i)
               PROVE  inode'[i].safe = TRUE
    BY <1>1, <1>9 DEF CandidatesSynced, SyncedPhases
  <2>1. r # task.run
    BY <1>5 DEF SyncedPhases
  <2>2. i # c
    BY <1>6, <2>1
  <2> QED BY <1>7, <2>2 DEF FilesOK, CandidatesSynced
<1>17. OneForward'
  BY <1>1 DEF FilesOK, OneForward, IsForward, Terminal
<1>18. FilesOK'
  BY <1>10, <1>11, <1>12, <1>13, <1>14, <1>15, <1>16, <1>17 DEF FilesOK
<1> QED BY <1>1, <1>5, <1>18, SamePhase, PlainPop

(* The end of the copy: the candidate is a whole database, as yet unsynced.  *)
LEMMA VacuumKeepsFiles ==
  ASSUME FilesOK, WorkOK, IsTask(task), NEW p, Build(p, "vacuum")
  PROVE  FilesOK' /\ WorkOK'
<1> DEFINE c == dir.candidate[task.run]
<1>1. /\ UNCHANGED <<dir, durable, runs>> /\ At(p, "vacuum") /\ Pop(runs[task.run].phase)
      /\ Permits("vacuum", task.run)
      /\ inode' = [inode EXCEPT ![c].whole = TRUE, ![c].recs = inode[dir.source].recs]
  BY DEF Build
<1>2. task.run \in RunIDs /\ task.run # None /\ runs[task.run].phase # "none"
  BY <1>1, AtRun, PhaseFacts
<1>3. c \in Inodes /\ inode \in [Inodes -> Files] /\ dir.source \in Inodes
  <2>1. c \in InodeNo /\ c # 0
    BY <1>1, <1>2, PermitFacts DEF FilesOK, StateOK, Directories
  <2> QED BY <2>1, InodeFacts, SourceKept DEF FilesOK, StateOK
<1> HIDE DEF c
<1>4. FilesImprove
  BY <1>1, <1>3 DEF FilesImprove, Files
<1>5. FilesOK'
  BY <1>1, <1>4, FilesStep, SameNames
<1>6. Head(task.todo) = "vacuum" /\ task.todo # <<>>
  BY <1>1 DEF At
<1>7. Tail(task.todo) \in Seq(PlainSteps)
  BY <1>6, WorkHead, PlainFacts DEF WorkOK, HeadSays
<1> QED BY <1>1, <1>5, <1>7, SamePhase, PlainPop

(* A change of the directory pops a call that needs nothing.                 *)
LEMMA RelinkPop ==
  ASSUME FilesOK, WorkOK, IsTask(task), NEW p, NEW entries,
         NEW step \in {"exchange", "publish", "unlink", "create"}, Relink(p, step, entries)
  PROVE  WorkOK'
<1>1. At(p, step) /\ Pop(runs[task.run].phase) /\ UNCHANGED runs
  BY DEF Relink
<1>2. Head(task.todo) = step /\ task.todo # <<>>
  BY <1>1 DEF At
<1>3. Tail(task.todo) \in Seq(PlainSteps)
  BY <1>2, WorkHead, PlainFacts DEF WorkOK, HeadSays
<1> QED BY <1>1, <1>3, SamePhase, PlainPop

(* The exchange: what it moves to the path of the store is what a journal    *)
(* has fenced, and what it moves away is a store.                            *)
LEMMA ExchangeKeepsFiles ==
  ASSUME FilesOK, WorkOK, IsTask(task), NEW p, Exchange(p)
  PROVE  FilesOK' /\ WorkOK'
<1> DEFINE r == task.run
           back == [dir EXCEPT !.source = dir.rollback[r], !.rollback[r] = dir.source]
           fore == [dir EXCEPT !.source = dir.candidate[r], !.candidate[r] = dir.source]
           entries == IF runs[r].phase = "rollback_swap_intent" THEN back ELSE fore
<1>1. Relink(p, "exchange", entries) /\ UNCHANGED inode
  BY DEF Exchange
<1>2. dir' = entries /\ UNCHANGED <<durable, runs>> /\ At(p, "exchange") /\ Permits("exchange", r)
  BY <1>1 DEF Relink
<1>3. r \in RunIDs /\ runs[r] \in Journals
  BY <1>2, AtRun
<1>4. ExchangeFence(r)
  BY <1>2, PermitFacts
<1>5. dir \in Directories /\ dir.source \in Inodes /\ dir.rollback[r] \in InodeNo /\ dir.candidate[r] \in InodeNo
  BY <1>3 DEF FilesOK, StateOK, Directories
<1>6. WorkOK'
  <2> HIDE DEF entries
  <2> QED BY <1>1, RelinkPop
<1> HIDE DEF r
<1>7. CASE runs[r].phase = "rollback_swap_intent"
  <2>1. dir.rollback[r] # 0 /\ Identity(dir.rollback[r]) = runs[r].source
    BY <1>4, <1>7 DEF ExchangeFence
  <2>2. dir.rollback[r] \in Inodes /\ dir.rollback[r] = runs[r].source[1]
    BY <1>5, <2>1, InodeFacts DEF Identity
  <2>3. /\ dir'.source = dir.rollback[r] /\ dir'.candidate = dir.candidate
        /\ dir' \in Directories
    BY <1>2, <1>3, <1>5, <1>7, <2>2, InodeFacts DEF Directories
  <2>4. NamesFollow
    <3>1. \A i \in Inodes : IsKept(i)' => IsKept(i)
      BY <1>2, <1>3, <2>2, <2>3 DEF IsKept
    <3>2. \A q \in RunIDs : \A i \in Inodes : Named(q, i)' => Named(q, i)
      BY <1>2, <2>3 DEF Named
    <3> QED BY <1>2, <2>3, <3>1, <3>2 DEF NamesFollow, FilesOK, StateOK
  <2> QED BY <1>1, <1>2, <1>6, <2>4, FilesStep, SameFiles
<1>8. CASE runs[r].phase # "rollback_swap_intent"
  <2>1. dir.candidate[r] # 0 /\ Identity(dir.candidate[r]) = runs[r].candidate
    BY <1>4, <1>8 DEF ExchangeFence
  <2>2. dir.candidate[r] \in Inodes /\ dir.candidate[r] = runs[r].candidate[1]
    BY <1>5, <2>1, InodeFacts DEF Identity
  <2>3. /\ dir'.source = dir.candidate[r] /\ dir'.candidate = [dir.candidate EXCEPT ![r] = dir.source]
        /\ dir' \in Directories
    BY <1>2, <1>3, <1>5, <1>8, <2>2, InodeFacts DEF Directories
  <2>4. runs[r].phase \notin Building
    <3>1. IsKept(dir.candidate[r]) /\ Named(r, dir.candidate[r])
      BY <1>3, <2>2 DEF IsKept, Named
    <3> QED BY <1>3, <2>2, <3>1 DEF FilesOK, CandidatesApart
  <2>5. NamesFollow
    <3>1. \A i \in Inodes : IsKept(i)' => IsKept(i)
      BY <1>2, <1>3, <2>2, <2>3 DEF IsKept
    <3>2. \A q \in RunIDs : \A i \in Inodes : Named(q, i)' => Named(q, i) \/ (i = dir.source /\ q = r)
      BY <1>2, <1>3, <1>5, <2>3 DEF Named, Directories
    <3>3. IsKept(dir.source)
      BY DEF IsKept
    <3> QED BY <1>2, <2>3, <2>4, <3>1, <3>2, <3>3 DEF NamesFollow, FilesOK, StateOK
  <2> QED BY <1>1, <1>2, <1>6, <2>5, FilesStep, SameFiles
<1> QED BY <1>7, <1>8

(* Work files that are moved or removed.                                     *)
LEMMA UnnameKeepsFiles ==
  ASSUME FilesOK, UNCHANGED <<durable, inode, runs>>, dir' \in Directories, dir'.source = dir.source,
         \A r \in RunIDs : dir'.candidate[r] \in {0, dir.candidate[r]}
  PROVE  FilesOK'
<1>1. \A i \in Inodes : IsKept(i)' => IsKept(i)
  BY DEF IsKept
<1>2. \A q \in RunIDs : \A i \in Inodes : Named(q, i)' => Named(q, i)
  BY InodeFacts DEF Named
<1>3. NamesFollow
  BY <1>1, <1>2 DEF NamesFollow, FilesOK, StateOK
<1> QED BY <1>3, FilesStep, SameFiles

(* The displaced store gets the name rollback looks for.                     *)
LEMMA PublishKeepsFiles ==
  ASSUME FilesOK, WorkOK, IsTask(task), NEW p, PublishRollback(p)
  PROVE  FilesOK' /\ WorkOK'
<1> DEFINE r == task.run
           entries == [dir EXCEPT !.rollback[r] = dir.candidate[r], !.candidate[r] = 0]
<1>1. Relink(p, "publish", entries) /\ UNCHANGED inode
  BY DEF PublishRollback
<1>2. dir' = entries /\ UNCHANGED <<durable, runs>> /\ At(p, "publish")
  BY <1>1 DEF Relink
<1>3. r \in RunIDs
  BY <1>2, AtRun
<1>4. dir \in Directories /\ dir.candidate[r] \in InodeNo
  BY <1>3 DEF FilesOK, StateOK, Directories
<1>5. WorkOK'
  <2> HIDE DEF entries
  <2> QED BY <1>1, RelinkPop
<1> HIDE DEF r
<1>6. dir' \in Directories /\ dir'.source = dir.source /\ dir'.candidate = [dir.candidate EXCEPT ![r] = 0]
  BY <1>2, <1>3, <1>4, InodeFacts DEF Directories
<1>7. \A q \in RunIDs : dir'.candidate[q] \in {0, dir.candidate[q]}
  BY <1>3, <1>4, <1>6 DEF Directories
<1> QED BY <1>1, <1>2, <1>5, <1>6, <1>7, UnnameKeepsFiles

(* A candidate is removed, by a recovery or by an abandonment, which goes on *)
(* to end the run and may then plan another.                                 *)
LEMMA RemoveKeepsFiles ==
  ASSUME FilesOK, WorkOK, IsTask(task), NEW p, NEW step \in {"unlink", "abandon"},
         RemoveCandidate(p, step)
  PROVE  FilesOK' /\ WorkOK'
<1> DEFINE r == task.run
           entries == [dir EXCEPT !.candidate[r] = 0]
<1>1. Relink(p, step, entries) /\ UNCHANGED inode
  BY DEF RemoveCandidate
<1>2. dir' = entries /\ UNCHANGED <<durable, runs>> /\ At(p, step) /\ Pop(runs[r].phase)
  BY <1>1 DEF Relink
<1>3. r \in RunIDs /\ r # None /\ runs[r].phase # "none"
  BY <1>2, AtRun, PhaseFacts
<1>4. dir \in Directories
  BY DEF FilesOK, StateOK
<1>5. WorkOK'
  <2> HIDE DEF entries
  <2>1. Head(task.todo) = step /\ task.todo # <<>>
    BY <1>2 DEF At
  <2>2. CASE Tail(task.todo) \in Seq(PlainSteps)
    BY <1>2, <2>2, SamePhase, PlainPop
  <2>3. CASE Tail(task.todo) = <<"abandoned", "plan">> /\ PlanWork(r, task.kind, Tail(task.todo), runs)
    <3>1. Work(r, task.kind, Tail(task.todo), runs, dir', durable', inode')
      BY <1>3, <2>3 DEF Work
    <3>2. Work(r, task.kind, Tail(task.todo), runs', dir', durable', inode')
      BY <1>2, <3>1
    <3> QED BY <1>2, <1>3, <3>2, PopWork
  <2>4. \/ Tail(task.todo) \in Seq(PlainSteps)
        \/ Tail(task.todo) = <<"abandoned", "plan">> /\ PlanWork(r, task.kind, Tail(task.todo), runs)
    <3> DEFINE rest == Tail(task.todo)
    <3>1. HeadSays(step, rest, r, task.kind, runs, dir, durable, inode)
      BY <2>1, WorkHead DEF WorkOK
    <3>2. step = "unlink" => step \in PlainSteps \ {"sync_dir", "abandon", "abandoned"}
      BY PlainFacts
    <3> HIDE DEF rest
    <3> QED BY <3>1, <3>2 DEF HeadSays, rest
  <2> QED BY <2>2, <2>3, <2>4
<1> HIDE DEF r
<1>6. dir' \in Directories /\ dir'.source = dir.source /\ dir'.candidate = [dir.candidate EXCEPT ![r] = 0]
  BY <1>2, <1>3, <1>4, InodeFacts DEF Directories
<1>7. \A q \in RunIDs : dir'.candidate[q] \in {0, dir.candidate[q]}
  BY <1>3, <1>4, <1>6 DEF Directories
<1> QED BY <1>1, <1>2, <1>5, <1>6, <1>7, UnnameKeepsFiles

(* A candidate is created: a new file, which nothing else names.             *)
LEMMA CreateKeepsFiles ==
  ASSUME FilesOK, WorkOK, IsTask(task), NEW p, PrepareCandidate(p)
  PROVE  FilesOK' /\ WorkOK'
<1> DEFINE r == task.run
           n == FreshInode
           entries == [dir EXCEPT !.candidate[r] = n]
<1>1. Relink(p, "create", entries) /\ inode' = [inode EXCEPT ![n].made = TRUE]
  BY DEF PrepareCandidate
<1>2. dir' = entries /\ UNCHANGED <<durable, runs>> /\ At(p, "create") /\ Permits("create", r)
  BY <1>1 DEF Relink
<1>3. r \in RunIDs
  BY <1>2, AtRun
<1>4. dir \in Directories /\ inode \in [Inodes -> Files]
  BY DEF FilesOK, StateOK
<1>5. n \in Inodes /\ inode[n].made = FALSE
  <2>1. InodeLeft
    BY <1>2, PermitFacts
  <2>2. n \in Inodes /\ ~inode[n].made
    BY <2>1 DEF InodeLeft, FreshInode, Inodes
  <2>3. inode[n].made \in BOOLEAN
    BY <1>4, <2>2 DEF Files
  <2> QED BY <2>2, <2>3
<1>6. WorkOK'
  <2> HIDE DEF entries
  <2> QED BY <1>1, RelinkPop
<1> HIDE DEF r, n
<1>7. dir' \in Directories /\ dir'.source = dir.source /\ dir'.candidate = [dir.candidate EXCEPT ![r] = n]
  BY <1>2, <1>3, <1>4, <1>5, InodeFacts DEF Directories
<1>8. FilesImprove /\ inode'[n].made = TRUE
  BY <1>1, <1>4, <1>5 DEF FilesImprove, Files
<1>9. NamesFollow
  <2>1. \A i \in Inodes : IsKept(i)' => IsKept(i)
    BY <1>2, <1>7 DEF IsKept
  <2>2. \A q \in RunIDs : \A i \in Inodes : Named(q, i)' => Named(q, i) \/ (i = n /\ q = r)
    BY <1>2, <1>3, <1>4, <1>7 DEF Named, Directories
  <2> QED BY <1>2, <1>5, <1>7, <1>8, <2>1, <2>2 DEF NamesFollow, FilesOK, StateOK, r
<1> QED BY <1>2, <1>6, <1>8, <1>9, FilesStep

(* A new run is planned: it fences the store as it is.                       *)
LEMMA PlanFacts ==
  ASSUME FilesOK, NEW p, PlanRun(p)
  PROVE  LET n == NextRunID
         IN  /\ UNCHANGED <<dir, durable, inode, sweep, swept>> /\ At(p, "plan")
             /\ n \in RunIDs /\ n # None /\ runs[n].phase = "none"
             /\ task' = Continue([task EXCEPT !.run = n], "planned", <<>>)
             /\ runs' \in [RunIDs -> Journals] /\ \A r \in RunIDs \ {n} : runs'[r] = runs[r]
             /\ runs'[n].phase = "planned" /\ runs'[n].source = <<dir.source, inode[dir.source].ver>>
             /\ runs'[n].op = (IF task.kind = "upgrade" THEN "upgrade" ELSE "compaction")
             /\ runs'[n].prepared = 0 /\ runs'[n].candidate = <<0, 0>>
<1> DEFINE n == NextRunID
           op == IF task.kind = "upgrade" THEN "upgrade" ELSE "compaction"
           new == [NoRun EXCEPT !.phase = "planned", !.source = Identity(dir.source), !.op = op]
<1>1. /\ UNCHANGED <<dir, durable, inode, sweep, swept>> /\ At(p, "plan")
      /\ runs' = [runs EXCEPT ![n] = new] /\ task' = Continue([task EXCEPT !.run = n], "planned", <<>>)
  BY DEF PlanRun, historyVars
<1>2. n \in RunIDs /\ ~Exists(n) /\ n # None
  BY CompactionAssumption DEF PlanRun, NextRunID
<1>3. runs[n].phase = "none" /\ runs \in [RunIDs -> Journals]
  BY <1>2 DEF Exists, FilesOK, StateOK
<1>4. dir.source \in Inodes /\ inode[dir.source].ver \in Nat
  BY SourceKept DEF FilesOK, StateOK, Files
<1>5. /\ new.phase = "planned" /\ new.source = <<dir.source, inode[dir.source].ver>>
      /\ new.op = op /\ new.prepared = 0 /\ new.candidate = <<0, 0>> /\ new \in Journals
  <2>1. new = [phase |-> "planned", op |-> op, source |-> Identity(dir.source),
               prepared |-> 0, candidate |-> <<0, 0>>]
    <3> DEFINE a == [NoRun EXCEPT !.phase = "planned"]
               b == [a EXCEPT !.source = Identity(dir.source)]
    <3>1. a = [phase |-> "planned", op |-> "none", source |-> <<0, 0>>, prepared |-> 0, candidate |-> <<0, 0>>]
      BY DEF NoRun, NoIdentity
    <3> HIDE DEF a
    <3>2. b = [phase |-> "planned", op |-> "none", source |-> Identity(dir.source), prepared |-> 0,
               candidate |-> <<0, 0>>]
      BY <3>1
    <3> HIDE DEF b
    <3>3. new = [b EXCEPT !.op = op]
      BY DEF a, b
    <3> HIDE DEF new
    <3> QED BY <3>2, <3>3
  <2>2. Identity(dir.source) \in InodeNo \X Nat
    BY <1>4, InodeFacts DEF Identity
  <2>3. <<0, 0>> \in InodeNo \X Nat /\ "planned" \in Phases /\ 0 \in InodeNo
    BY InodeFacts, PhaseFacts
  <2> HIDE DEF new
  <2> QED BY <2>1, <2>2, <2>3 DEF Journals, Identity
<1> HIDE DEF n, new
<1>6. /\ runs' \in [RunIDs -> Journals] /\ runs'[n] = new
      /\ \A r \in RunIDs \ {n} : runs'[r] = runs[r]
  BY <1>1, <1>2, <1>3, <1>5
<1> QED BY <1>1, <1>2, <1>3, <1>5, <1>6 DEF n

(* No other run is on its way then, unless this one is an upgrade.           *)
LEMMA PlanKeepsFiles ==
  ASSUME FilesOK, WorkOK, IsTask(task), NEW p, PlanRun(p)
  PROVE  FilesOK' /\ WorkOK'
<1> DEFINE n == NextRunID
           new == runs'[n]
           c == [task EXCEPT !.run = n]
<1>1. UNCHANGED <<dir, durable, inode>> /\ At(p, "plan") /\ task' = Continue(c, "planned", <<>>)
  BY PlanFacts
<1>2. n \in RunIDs /\ n # None
  BY PlanFacts
<1>3. runs[n].phase = "none"
  BY PlanFacts
<1>5. /\ new.phase = "planned" /\ new.source = <<dir.source, inode[dir.source].ver>>
      /\ new.op = (IF task.kind = "upgrade" THEN "upgrade" ELSE "compaction")
      /\ new.prepared = 0 /\ new.candidate = <<0, 0>>
  BY PlanFacts
<1>6. IsTask(c) /\ c.run = n /\ c.kind = task.kind
  BY DEF IsTask
<1>7. Head(task.todo) = "plan" /\ task.todo # <<>>
  BY <1>1 DEF At
<1>8. task.kind # "upgrade" => \A r \in RunIDs : ~IsForward(runs[r])
  <2> DEFINE rest == Tail(task.todo)
  <2>1. HeadSays("plan", rest, task.run, task.kind, runs, dir, durable, inode)
    BY <1>7, WorkHead DEF WorkOK
  <2> HIDE DEF rest
  <2> QED BY <2>1 DEF HeadSays
<1>9. /\ runs' \in [RunIDs -> Journals] /\ runs'[n] = new
      /\ \A r \in RunIDs \ {n} : runs'[r] = runs[r]
  BY PlanFacts
<1> HIDE DEF n, new, c
<1>10. WorkOK'
  <2>1. Work(c.run, c.kind, <<>>, runs', dir', durable', inode')
    BY <1>2, <1>6, NoWork
  <2>2. Work(task'.run, task'.kind, task'.todo, runs', dir', durable', inode')
    BY <1>1, <1>2, <1>5, <1>6, <1>9, <2>1, ContinueWork
  <2> QED BY <2>2 DEF WorkOK
<1>11. \A i \in Inodes : IsKept(i)' => IsKept(i)
  BY <1>1, <1>5, <1>9, InodeFacts DEF IsKept
<1>12. \A r \in RunIDs : \A i \in Inodes : Named(r, i)' <=> Named(r, i)
  BY <1>1 DEF Named
<1>13. StateOK'
  BY <1>1, <1>9 DEF FilesOK, StateOK
<1>14. KeptComplete'
  BY <1>1, <1>11 DEF FilesOK, KeptComplete, Complete
<1>15. CandidatesMade' /\ FreshSafe'
  BY <1>1, <1>12 DEF FilesOK, CandidatesMade, FreshSafe
<1>16. CandidatesApart'
  <2> SUFFICES ASSUME NEW r \in RunIDs, runs'[r].phase \in Building, NEW i \in Inodes, Named(r, i)'
               PROVE  ~IsKept(i)' /\ \A q \in RunIDs : Named(q, i)' => q = r
    BY DEF CandidatesApart, Building, PrePublication, Unverified
  <2>1. runs[r].phase \in Building
    BY <1>3, <1>9 DEF Building
  <2> QED BY <1>11, <1>12, <2>1 DEF FilesOK, CandidatesApart
<1>17. PreparedNamed'
  BY <1>5, <1>9 DEF FilesOK, PreparedNamed, Built, Unverified
<1>18. CandidatesSynced'
  BY <1>1, <1>5, <1>9, <1>12 DEF FilesOK, CandidatesSynced, SyncedPhases
<1>19. OneForward'
  <2>1. CASE task.kind = "upgrade"
    <3>1. ~IsForward(runs'[n])
      BY <1>5, <1>9, <2>1 DEF IsForward
    <3> QED BY <1>9, <3>1 DEF FilesOK, OneForward, IsForward, Terminal
  <2>2. CASE task.kind # "upgrade"
    <3>1. \A r \in RunIDs \ {n} : ~IsForward(runs'[r])
      BY <1>8, <1>9, <2>2
    <3> QED BY <3>1 DEF OneForward, IsForward, Terminal
  <2> QED BY <2>1, <2>2
<1> QED BY <1>10, <1>13, <1>14, <1>15, <1>16, <1>17, <1>18, <1>19 DEF FilesOK

(* A phase is recorded. What it says of the candidate is what the sequence   *)
(* of steps before it has established.                                       *)
LEMMA AppendFacts ==
  ASSUME FilesOK, WorkOK, NEW p, NEW phase \in Phases, Append1(p, phase)
  PROVE  LET r == task.run
             from == runs[r].phase
         IN  /\ UNCHANGED <<dir, durable, inode, sweep, swept>>
             /\ At(p, phase) /\ Permits(phase, r) /\ Pop(phase) /\ phase \notin {"plan", "refuse"}
             /\ r \in RunIDs /\ r # None /\ from \in Phases /\ PhaseOrder(from, phase)
             /\ phase = "candidate_verified" => /\ dir.candidate[r] \in Inodes
                                                /\ Complete(dir.candidate[r])
                                                /\ from = "scrub_in_progress"
             /\ runs' \in [RunIDs -> Journals] /\ \A q \in RunIDs \ {r} : runs'[q] = runs[q]
             /\ runs'[r].phase = phase
             /\ runs'[r].prepared =
                  (IF phase = "candidate_prepared" THEN dir.candidate[r] ELSE runs[r].prepared)
             /\ runs'[r].candidate =
                  (IF phase = "candidate_verified" THEN Identity(dir.candidate[r]) ELSE runs[r].candidate)
             /\ runs'[r].op = runs[r].op /\ runs'[r].source = runs[r].source
<1> DEFINE r == task.run
           from == runs[r].phase
           prepared == IF phase = "candidate_prepared" THEN dir.candidate[r] ELSE runs[r].prepared
           candidate == IF phase = "candidate_verified" THEN Identity(dir.candidate[r]) ELSE runs[r].candidate
           rest == Tail(task.todo)
<1>1. /\ UNCHANGED <<dir, durable, inode, sweep, swept>> /\ At(p, phase) /\ Permits(phase, r) /\ Pop(phase)
      /\ runs' = [runs EXCEPT ![r].phase = phase, ![r].prepared = prepared, ![r].candidate = candidate]
  BY DEF Append1, historyVars
<1>2. phase \notin {"plan", "refuse"}
  BY PhaseFacts
<1>3. r \in RunIDs /\ r # None /\ runs[r] \in Journals /\ from \in Phases
  BY <1>1, <1>2, AtRun
<1>4. /\ runs \in [RunIDs -> Journals] /\ inode \in [Inodes -> Files]
      /\ dir.candidate[r] \in InodeNo /\ durable.candidate[r] \in InodeNo
  BY <1>3 DEF FilesOK, StateOK, Directories
<1>5. PhaseOrder(from, phase)
  BY <1>1, <1>3, PermitFacts, TransitionFacts DEF Advance
<1>6. HeadSays(phase, rest, r, task.kind, runs, dir, durable, inode)
  <2>1. Head(task.todo) = phase /\ task.todo # <<>>
    BY <1>1 DEF At
  <2> QED BY <2>1, WorkHead DEF WorkOK
<1>8. phase = "candidate_verified" => dir.candidate[r] \in Inodes /\ Complete(dir.candidate[r])
                                      /\ from = "scrub_in_progress"
  <2> SUFFICES ASSUME phase = "candidate_verified"
               PROVE  dir.candidate[r] \in Inodes /\ Complete(dir.candidate[r]) /\ from = "scrub_in_progress"
    OBVIOUS
  <2>1. /\ from = "scrub_in_progress"
        /\ \A i \in Inodes : i = dir.candidate[r] => inode[i].whole = TRUE
    <3> HIDE DEF rest
    <3> QED BY <1>6 DEF HeadSays
  <2>2. dir.candidate[r] = runs[r].prepared /\ runs[r].prepared # 0
    BY <1>1, <1>3, <2>1, PermitFacts DEF FilesOK, PreparedNamed, Built, Unverified
  <2>3. dir.candidate[r] \in Inodes /\ Named(r, dir.candidate[r])
    BY <1>4, <2>2, InodeFacts DEF Named
  <2>4. inode[dir.candidate[r]].made = TRUE /\ inode[dir.candidate[r]].safe = TRUE
    BY <1>3, <2>1, <2>3 DEF FilesOK, CandidatesMade, CandidatesSynced, SyncedPhases
  <2> QED BY <2>1, <2>3, <2>4 DEF Complete
<1>9. prepared \in InodeNo /\ candidate \in InodeNo \X Nat
  <2>1. runs[r].prepared \in InodeNo /\ runs[r].candidate \in InodeNo \X Nat
    BY <1>3 DEF Journals
  <2>2. phase = "candidate_verified" => Identity(dir.candidate[r]) \in InodeNo \X Nat
    BY <1>4, <1>8 DEF Identity, Files
  <2> QED BY <1>4, <2>1, <2>2
<1>10. /\ runs' \in [RunIDs -> Journals]
       /\ runs'[r].phase = phase /\ runs'[r].prepared = prepared /\ runs'[r].candidate = candidate
       /\ runs'[r].op = runs[r].op /\ runs'[r].source = runs[r].source
       /\ \A q \in RunIDs \ {r} : runs'[q] = runs[q]
  <2> HIDE DEF r, prepared, candidate
  <2> QED BY <1>1, <1>3, <1>4, <1>9 DEF Journals
<1> QED BY <1>1, <1>2, <1>3, <1>5, <1>8, <1>10

(* So recording a phase keeps the files, and leaves work.                    *)
LEMMA AppendKeepsFiles ==
  ASSUME FilesOK, WorkOK, IsTask(task), NEW p, NEW phase \in Phases, Append1(p, phase)
  PROVE  FilesOK' /\ WorkOK'
<1> DEFINE r == task.run
           from == runs[r].phase
           prepared == IF phase = "candidate_prepared" THEN dir.candidate[r] ELSE runs[r].prepared
           candidate == IF phase = "candidate_verified" THEN Identity(dir.candidate[r]) ELSE runs[r].candidate
           rest == Tail(task.todo)
<1>1. UNCHANGED <<dir, durable, inode>> /\ At(p, phase) /\ Permits(phase, r) /\ Pop(phase)
  BY AppendFacts
<1>2. phase \notin {"plan", "refuse"}
  BY AppendFacts
<1>3. r \in RunIDs /\ r # None /\ from \in Phases
  BY AppendFacts
<1>5. PhaseOrder(from, phase)
  BY AppendFacts
<1>6. HeadSays(phase, rest, r, task.kind, runs, dir, durable, inode)
  <2>1. Head(task.todo) = phase /\ task.todo # <<>>
    BY <1>1 DEF At
  <2> QED BY <2>1, WorkHead DEF WorkOK
<1>7. phase = "candidate_prepared" => dir.candidate[r] # 0
  BY <1>1, PermitFacts
<1>8. phase = "candidate_verified" => dir.candidate[r] \in Inodes /\ Complete(dir.candidate[r])
                                      /\ from = "scrub_in_progress"
  BY AppendFacts
<1>10. /\ runs' \in [RunIDs -> Journals]
       /\ runs'[r].phase = phase /\ runs'[r].prepared = prepared /\ runs'[r].candidate = candidate
       /\ runs'[r].op = runs[r].op /\ runs'[r].source = runs[r].source
       /\ \A q \in RunIDs \ {r} : runs'[q] = runs[q]
  BY AppendFacts
<1> HIDE DEF r
<1>11. \A i \in Inodes : IsKept(i)' => IsKept(i) \/ (phase = "candidate_verified" /\ i = dir.candidate[r])
  <2> SUFFICES ASSUME NEW i \in Inodes, IsKept(i)'
               PROVE  IsKept(i) \/ (phase = "candidate_verified" /\ i = dir.candidate[r])
    OBVIOUS
  <2>1. CASE i = dir.source \/ i = durable.source
    BY <2>1 DEF IsKept
  <2>2. ASSUME NEW q \in RunIDs, i = runs'[q].source[1]
        PROVE  IsKept(i)
    BY <1>10, <2>2 DEF IsKept
  <2>3. ASSUME NEW q \in RunIDs, i = runs'[q].candidate[1]
        PROVE  IsKept(i) \/ (phase = "candidate_verified" /\ i = dir.candidate[r])
    BY <1>10, <2>3 DEF IsKept, Identity
  <2> QED BY <1>1, <2>1, <2>2, <2>3 DEF IsKept
<1>12. \A q \in RunIDs : \A i \in Inodes : Named(q, i)' <=> Named(q, i)
  BY <1>1 DEF Named
<1>13. StateOK'
  BY <1>1, <1>10 DEF FilesOK, StateOK
<1>14. KeptComplete'
  BY <1>1, <1>8, <1>11 DEF FilesOK, KeptComplete, Complete
<1>15. CandidatesMade' /\ FreshSafe'
  BY <1>1, <1>12 DEF FilesOK, CandidatesMade, FreshSafe
<1>16. CandidatesApart'
  <2> SUFFICES ASSUME NEW q \in RunIDs, runs'[q].phase \in Building, NEW i \in Inodes, Named(q, i)'
               PROVE  ~IsKept(i)' /\ \A s \in RunIDs : Named(s, i)' => s = q
    BY DEF CandidatesApart, Building, PrePublication, Unverified
  <2>1. runs[q].phase \in Building
    BY <1>5, <1>10 DEF PhaseOrder, from
  <2>2. ~IsKept(i) /\ \A s \in RunIDs : Named(s, i) => s = q
    BY <1>12, <2>1 DEF FilesOK, CandidatesApart
  <2>3. ASSUME phase = "candidate_verified", i = dir.candidate[r] PROVE FALSE
    <3>1. q # r
      BY <1>10, <2>3 DEF Building, PrePublication, Unverified
    <3>2. Named(r, i)
      BY <2>3 DEF Named
    <3> QED BY <1>3, <2>2, <3>1, <3>2
  <2> QED BY <1>11, <1>12, <2>2, <2>3
<1>17. PreparedNamed'
  <2> SUFFICES ASSUME NEW q \in RunIDs, runs'[q].phase \in Built PROVE runs'[q].prepared # 0
    BY DEF PreparedNamed, Built, Unverified
  <2>1. CASE q # r
    BY <1>10, <2>1 DEF FilesOK, PreparedNamed
  <2>2. CASE q = r
    BY <1>3, <1>5, <1>7, <1>10, <2>2 DEF FilesOK, PreparedNamed, PhaseOrder, from, prepared
  <2> QED BY <2>1, <2>2
<1>18. CandidatesSynced'
  <2> SUFFICES ASSUME NEW q \in RunIDs, runs'[q].phase \in SyncedPhases, NEW i \in Inodes, Named(q, i)
               PROVE  inode[i].safe = TRUE
    BY <1>1, <1>12 DEF CandidatesSynced, SyncedPhases
  <2>1. CASE runs[q].phase \in SyncedPhases
    BY <2>1 DEF FilesOK, CandidatesSynced
  <2>2. CASE q = r /\ phase = "candidate_synced"
    <3>1. \A j \in Inodes : j = dir.candidate[r] \/ j = durable.candidate[r] => inode[j].safe = TRUE
      <4> HIDE DEF rest
      <4> QED BY <1>6, <2>2 DEF HeadSays
    <3> QED BY <2>2, <3>1 DEF Named
  <2> QED BY <1>5, <1>10, <2>1, <2>2 DEF PhaseOrder, from
<1>19. \A q \in RunIDs : IsForward(runs'[q]) => IsForward(runs[q])
  BY <1>5, <1>10 DEF PhaseOrder, IsForward, from
<1>20. OneForward'
  BY <1>19 DEF FilesOK, OneForward, IsForward, Terminal
<1>21. WorkOK'
  <2>1. phase # "none" /\ runs'[r].phase = phase
    BY <1>10, PhaseFacts
  <2>2. CASE rest \in Seq(PlainSteps)
    BY <1>1, <1>2, <2>1, <2>2, PlainPop DEF r
  <2>3. CASE /\ phase = "abandoned" /\ rest = <<"plan">>
             /\ task.kind # "upgrade" /\ \A q \in RunIDs : IsForward(runs[q]) => q = r
    <3>1. ~IsForward(runs'[r])
      BY <2>1, <2>3 DEF IsForward, Terminal
    <3>2. \A q \in RunIDs : ~IsForward(runs'[q])
      BY <1>19, <2>3, <3>1
    <3>3. PlanWork(r, task.kind, rest, runs')
      BY <2>3, <3>2 DEF PlanWork
    <3>4. Work(r, task.kind, rest, runs', dir', durable', inode')
      BY <1>3, <2>1, <3>3 DEF Work
    <3> QED BY <1>1, <1>3, <2>1, <3>4, PopWork DEF r
  <2>4. \/ rest \in Seq(PlainSteps)
        \/ /\ phase = "abandoned" /\ rest = <<"plan">>
           /\ task.kind # "upgrade" /\ \A q \in RunIDs : IsForward(runs[q]) => q = r
    <3>1. phase \in PlainSteps \ {"sync_dir", "abandon", "abandoned"}
          \/ phase \in {"abandoned", "candidate_synced", "candidate_verified"}
      BY PlainFacts, PhaseFacts
    <3> HIDE DEF rest
    <3> QED BY <1>6, <3>1 DEF HeadSays
  <2> QED BY <2>2, <2>3, <2>4
<1> QED BY <1>13, <1>14, <1>15, <1>16, <1>17, <1>18, <1>20, <1>21 DEF FilesOK

(* Every step of a command keeps the files and leaves work.                  *)
LEMMA StepKeepsFiles ==
  ASSUME FilesOK, WorkOK, IsTask(task), NEW p, Step(p)
  PROVE  FilesOK' /\ WorkOK'
<1>1. CASE Refuse(p) \/ PlanRefused(p)
  BY <1>1, RefuseKeepsFiles
<1>2. CASE SyncDir(p)
  BY <1>2, SyncDirKeepsFiles
<1>3. CASE Exchange(p)
  BY <1>3, ExchangeKeepsFiles
<1>4. CASE PublishRollback(p)
  BY <1>4, PublishKeepsFiles
<1>5. CASE PrepareCandidate(p)
  BY <1>5, CreateKeepsFiles
<1>6. CASE SyncCandidate(p)
  BY <1>6, SyncFileKeepsFiles
<1>7. CASE PlanRun(p)
  BY <1>7, PlanKeepsFiles
<1>8. CASE CompactInPlace(p)
  BY <1>8, InPlaceKeepsFiles
<1>9. CASE CancelBuild(p)
  BY <1>9, CancelKeepsFiles
<1>10. ASSUME NEW phase \in Phases, Append1(p, phase) PROVE FilesOK' /\ WorkOK'
  BY <1>10, AppendKeepsFiles
<1>11. ASSUME NEW step \in {"unlink", "abandon"}, RemoveCandidate(p, step) PROVE FilesOK' /\ WorkOK'
  BY <1>11, RemoveKeepsFiles
<1>12. ASSUME NEW step \in {"copy", "vacuum"}, Build(p, step) PROVE FilesOK' /\ WorkOK'
  BY <1>12, CopyKeepsFiles, VacuumKeepsFiles
<1>13. ASSUME NEW step \in {"recheck", "verify"}, Inspect(p, step) PROVE FilesOK' /\ WorkOK'
  BY <1>13, InspectKeepsFiles
<1> QED
  BY <1>1, <1>2, <1>3, <1>4, <1>5, <1>6, <1>7, <1>8, <1>9, <1>10, <1>11, <1>12, <1>13 DEF Step

-----------------------------------------------------------------------------
(* What the other processes may do to a command at work: they leave its run, *)
(* they remove its candidate or leave it, and they unsync and tear no file.  *)
LEMMA OthersKeepWork ==
  ASSUME FilesOK, WorkOK, FilesImprove, UNCHANGED <<runs, durable, task>>,
         \A r \in RunIDs : dir'.candidate[r] \in {0, dir.candidate[r]},
         \A i \in Inodes : inode[i].whole = TRUE => inode'[i].whole = TRUE
  PROVE  WorkOK'
<1> DEFINE run == task.run
           kind == task.kind
           todo == task.todo
<1>1. Work(run, kind, todo, runs, dir, durable, inode)
  BY DEF WorkOK
<1>2. \A i \in Inodes : inode[i].safe = TRUE => inode'[i].safe = TRUE
  BY DEF FilesImprove
<1>3. run \in RunIDs => \A i \in Inodes : i = dir'.candidate[run] => i = dir.candidate[run]
  BY InodeFacts
<1>4. run # None => run \in RunIDs
  BY <1>1 DEF Work
<1> HIDE DEF run, kind, todo
<1>5. run # None /\ SyncWork(run, todo, runs, dir, durable, inode)
        => SyncWork(run, todo, runs, dir', durable, inode')
  BY <1>2, <1>3, <1>4 DEF SyncWork
<1>6. run # None /\ VerifyWork(run, todo, runs, dir, inode) => VerifyWork(run, todo, runs, dir', inode')
  BY <1>3, <1>4 DEF VerifyWork
<1>7. Work(run, kind, todo, runs, dir', durable, inode')
  BY <1>1, <1>5, <1>6 DEF Work
<1>8. Work(run, kind, todo, runs', dir', durable', inode')
  BY <1>7
<1> QED BY <1>8 DEF WorkOK, run, kind, todo

(* A hook writes to the store it has open.                                   *)
LEMMA HookKeepsFiles ==
  ASSUME OwnedInv, FilesOK, WorkOK, NEW p \in Procs, HookStep(p)
  PROVE  FilesOK' /\ WorkOK'
<1>1. UNCHANGED <<dir, durable, runs, task>>
  BY DEF HookStep, Open, CloseStore, Write, storeVars
<1>2. FilesImprove /\ \A i \in Inodes : inode[i].whole = TRUE => inode'[i].whole = TRUE
  <2>1. CASE Open(p) \/ CloseStore(p)
    <3>1. UNCHANGED inode
      BY <2>1 DEF Open, CloseStore, storeVars
    <3> QED BY <3>1, SameFiles
  <2>2. ASSUME NEW rec \in Records, Write(p, rec)
        PROVE  FilesImprove /\ \A i \in Inodes : inode[i].whole = TRUE => inode'[i].whole = TRUE
    <3> DEFINE s == opened[p]
    <3>1. s \in Inodes /\ inode \in [Inodes -> Files]
      BY <2>2, SourceKept DEF Write, OwnedInv, NoDisplacedWriter, FilesOK, StateOK
    <3>2. inode' = [inode EXCEPT ![s].recs = @ \cup {rec}, ![s].ver = @ + 1]
      BY <2>2 DEF Write
    <3> HIDE DEF s
    <3> QED BY <3>1, <3>2 DEF FilesImprove, Files
  <2> QED BY <2>1, <2>2 DEF HookStep
<1>3. FilesOK'
  BY <1>1, <1>2, FilesStep, SameNames
<1>4. WorkOK'
  BY <1>1, <1>2, OthersKeepWork
<1> QED BY <1>3, <1>4

(* Doctor's sweep takes work files away.                                     *)
LEMMA SweepKeepsFiles ==
  ASSUME OwnedInv, FilesOK, WorkOK, Sweeping
  PROVE  FilesOK' /\ WorkOK'
<1>1. UNCHANGED <<durable, inode, runs, task>>
  BY DEF Sweeping, SweepList, SweepEnd, SweepRead, SweepRemove, storeVars
<1>2. dir \in Directories
  BY DEF FilesOK, StateOK
<1>3. /\ dir' \in Directories /\ dir'.source = dir.source
      /\ \A q \in RunIDs : dir'.candidate[q] \in {0, dir.candidate[q]}
  <2>1. CASE UNCHANGED dir
    BY <1>2, <2>1 DEF Directories
  <2>2. ASSUME NEW r \in RunIDs, SweepRemove(r)
        PROVE  /\ dir' \in Directories /\ dir'.source = dir.source
               /\ \A q \in RunIDs : dir'.candidate[q] \in {0, dir.candidate[q]}
    <3>1. dir' = [dir EXCEPT ![sweep.kind][r] = 0] /\ sweep.kind \in {"none", "candidate", "rollback"}
      BY <2>2 DEF SweepRemove, OwnedInv, StoreShape
    <3>2. CASE sweep.kind = "none"
      <4>1. dir' = dir
        BY <1>2, <3>1, <3>2 DEF Directories
      <4> QED BY <1>2, <4>1 DEF Directories
    <3>3. CASE sweep.kind = "candidate"
      BY <1>2, <3>1, <3>3, InodeFacts DEF Directories
    <3>4. CASE sweep.kind = "rollback"
      BY <1>2, <3>1, <3>4, InodeFacts DEF Directories
    <3> QED BY <3>1, <3>2, <3>3, <3>4
  <2> QED BY <2>1, <2>2 DEF Sweeping, SweepList, SweepEnd, SweepRead, storeVars
<1>4. FilesOK'
  BY <1>1, <1>3, UnnameKeepsFiles
<1>5. WorkOK'
  BY <1>1, <1>3, OthersKeepWork, SameFiles
<1> QED BY <1>4, <1>5

(* No command, no work.                                                      *)
LEMMA NoTaskWork == ASSUME task' = NoTask PROVE WorkOK'
<1>1. task'.run = None /\ task'.todo = <<>>
  BY DEF NoTask
<1>2. Work(task'.run, task'.kind, task'.todo, runs', dir', durable', inode')
  BY <1>1, NoWork
<1> QED BY <1>2 DEF WorkOK

(* A power loss tears only what was not synced, and the directory is as it   *)
(* is or as it was synced.                                                   *)
LEMMA PowerLossKeepsFiles ==
  ASSUME FilesOK, PowerLoss
  PROVE  FilesOK' /\ WorkOK'
<1>1. dir' \in {dir, durable} /\ durable' = dir' /\ UNCHANGED runs /\ task' = NoTask
  BY DEF PowerLoss
<1>2. PICK torn \in SUBSET {i \in 1..MaxInode : ~inode[i].safe} :
        inode' = [i \in 1..MaxInode |-> IF i \in torn THEN [inode[i] EXCEPT !.whole = FALSE] ELSE inode[i]]
  BY DEF PowerLoss
<1>3. inode \in [Inodes -> Files]
  BY DEF FilesOK, StateOK
<1>4. FilesImprove
  <2>1. ASSUME NEW i \in Inodes
        PROVE  /\ inode'[i] \in Files /\ inode'[i].made = inode[i].made /\ inode'[i].safe = inode[i].safe
               /\ inode[i].safe = TRUE => inode'[i] = inode[i]
    <3>1. CASE i \in torn
      <4>1. inode'[i] = [inode[i] EXCEPT !.whole = FALSE] /\ ~inode[i].safe
        BY <1>2, <2>1, <3>1 DEF Inodes
      <4> QED BY <1>3, <2>1, <4>1 DEF Files
    <3>2. CASE i \notin torn
      <4>1. inode'[i] = inode[i]
        BY <1>2, <2>1, <3>2 DEF Inodes
      <4> QED BY <1>3, <2>1, <4>1
    <3> QED BY <3>1, <3>2
  <2>2. inode' = [i \in Inodes |-> inode'[i]]
    BY <1>2 DEF Inodes
  <2>3. inode' \in [Inodes -> Files]
    BY <2>1, <2>2
  <2> QED BY <2>1, <2>3 DEF FilesImprove
<1>5. NamesFollow
  <2>1. \A i \in Inodes : IsKept(i)' => IsKept(i)
    BY <1>1 DEF IsKept
  <2>2. \A q \in RunIDs : \A i \in Inodes : Named(q, i)' => Named(q, i)
    BY <1>1 DEF Named
  <2> QED BY <1>1, <2>1, <2>2 DEF NamesFollow, FilesOK, StateOK
<1>6. FilesOK'
  BY <1>1, <1>4, <1>5, FilesStep
<1> QED BY <1>1, <1>6, NoTaskWork

(* The steps that leave the files and the journals alone.                    *)
LEMMA IdleKeepsFiles ==
  ASSUME FilesOK, WorkOK, UNCHANGED <<dir, durable, inode, runs>>, task' \in {task, NoTask}
  PROVE  FilesOK' /\ WorkOK'
<1>1. FilesOK'
  BY FilesStep, SameFiles, SameNames
<1>2. CASE task' = task
  BY <1>1, <1>2 DEF WorkOK
<1>3. CASE task' = NoTask
  BY <1>1, <1>3, NoTaskWork
<1> QED BY <1>2, <1>3

(* Only operators take the exclusive lease, and what is acknowledged was     *)
(* written.                                                                  *)
LEMMA HistoryStep ==
  ASSUME OwnedInv, HistoryOK, [CompactionNext]_compactionVars
  PROVE  HistoryOK'
<1> DEFINE same == UNCHANGED <<acked, exposed, swept>>
           holders == \A q \in Procs : excl'[q] # "none" => excl[q] # "none"
<1>1. excl \in [Procs -> ExclStates]
  BY DEF OwnedInv, LeaseInv, LeaseTypeOK
<1>2. ASSUME same, holders PROVE HistoryOK'
  BY <1>2 DEF HistoryOK
<1>3. CASE UNCHANGED compactionVars
  BY <1>2, <1>3 DEF compactionVars, leaseVars, historyVars
<1>4. ASSUME NEW p \in Procs, LeaseStep(p) PROVE HistoryOK'
  <2>1. same
    BY <1>4 DEF LeaseStep, historyVars
  <2>2. CASE p \in Operators
    <3>1. \A q \in Procs : excl'[q] # "none" => excl[q] # "none" \/ q = p
      BY <1>1, <1>4, <2>2 DEF LeaseStep, ExclusiveStep, AcquireExclusive, FlockExclusive,
                              HoldExclusive, GiveUpExclusive, FlockRelease
    <3> QED BY <2>1, <2>2, <3>1 DEF HistoryOK
  <2>3. CASE p \notin Operators
    <3>1. holders
      BY <1>4, <2>3 DEF LeaseStep, ConnectStep, Connect, ConsultMarker, ReapMarker,
                        FlockWouldBlock, GiveUpConnect
    <3> QED BY <1>2, <2>1, <3>1
  <2> QED BY <2>2, <2>3
<1>5. ASSUME NEW p \in Procs, CommandStart(p) PROVE HistoryOK'
  <2>1. \A kind, r, todo : Begin(p, kind, r, todo) => UNCHANGED <<leaseVars, historyVars>>
    BY DEF Begin
  <2>2. UNCHANGED <<leaseVars, historyVars>>
    BY <1>5, <2>1 DEF CommandStart, Compact, Rollback, AbandonStalePrePublication, RunUpgrade
  <2> QED BY <1>2, <2>2 DEF leaseVars, historyVars
<1>6. ASSUME NEW p \in Procs, Step(p) PROVE HistoryOK'
  <2>1. StepFrame(p)
    BY <1>6, StepHasFrame DEF OwnedInv, StoreShape, TaskOwned
  <2> QED BY <1>2, <2>1 DEF StepFrame, leaseVars, historyVars
<1>7. ASSUME NEW p \in Procs, Finish(p) PROVE HistoryOK'
  <2>1. same
    BY <1>7 DEF Finish, historyVars
  <2>2. holders
    BY <1>1, <1>7 DEF Finish, ReleaseExclusive
  <2> QED BY <1>2, <2>1, <2>2
<1>8. ASSUME NEW p \in Procs, HookStep(p) PROVE HistoryOK'
  <2>1. UNCHANGED excl
    BY <1>8 DEF HookStep, Open, CloseStore, Write, FlockShared, CloseConn, leaseVars
  <2>2. CASE Open(p) \/ CloseStore(p)
    BY <1>2, <2>1, <2>2 DEF Open, CloseStore
  <2>3. ASSUME NEW rec \in Records, Write(p, rec) PROVE HistoryOK'
    BY <2>1, <2>3 DEF Write, HistoryOK
  <2> QED BY <1>8, <2>2, <2>3 DEF HookStep
<1>9. ASSUME NEW p \in Procs, Killed(p) PROVE HistoryOK'
  <2>1. same
    BY <1>9 DEF Killed
  <2>2. holders
    BY <1>1, <1>9 DEF Killed, Exit
  <2> QED BY <1>2, <2>1, <2>2
<1>10. CASE Sweeping
  <2>1. UNCHANGED <<excl, acked, exposed>>
    BY <1>10 DEF Sweeping, SweepList, SweepEnd, SweepRead, SweepRemove, leaseVars
  <2>2. swept' \subseteq RunIDs
    BY <1>10 DEF Sweeping, SweepList, SweepEnd, SweepRead, SweepRemove, HistoryOK
  <2> QED BY <2>1, <2>2 DEF HistoryOK
<1>11. CASE PowerLoss
  BY <1>2, <1>11 DEF PowerLoss
<1> QED BY <1>3, <1>4, <1>5, <1>6, <1>7, <1>8, <1>9, <1>10, <1>11 DEF CompactionNext

(* FilesInv holds of a store nobody compacted yet.                           *)
LEMMA FilesInvInit == CompactionInit => FilesInv
<1> SUFFICES ASSUME CompactionInit PROVE FilesInv
  OBVIOUS
<1>1. /\ dir.source = 1 /\ dir = durable /\ dir \in Directories
      /\ \A r \in RunIDs : dir.candidate[r] = 0
  BY InodeFacts DEF CompactionInit, Directories
<1>2. inode = [i \in Inodes |-> IF i = 1 THEN Original ELSE NoFile]
  BY DEF CompactionInit, Inodes
<1>3. /\ Original \in Files /\ NoFile \in Files
      /\ Original.made = TRUE /\ Original.whole = TRUE /\ Original.safe = TRUE /\ NoFile.safe = TRUE
  BY DEF Files, Original, NoFile
<1>4. runs = [r \in RunIDs |-> NoRun]
  BY DEF CompactionInit
<1>5. NoRun \in Journals /\ NoRun.phase = "none" /\ NoRun.source[1] = 0 /\ NoRun.candidate[1] = 0
  BY InodeFacts DEF NoRun, NoIdentity, Journals
<1>6. StateOK
  BY <1>1, <1>2, <1>3, <1>4, <1>5 DEF StateOK
<1>7. \A i \in Inodes : IsKept(i) => i = 1
  BY <1>1, <1>4, <1>5, InodeFacts DEF IsKept
<1>8. \A r \in RunIDs : \A i \in Inodes : ~Named(r, i)
  BY <1>1, InodeFacts DEF Named
<1>9. KeptComplete
  BY <1>2, <1>3, <1>7, InodeFacts DEF KeptComplete, Complete
<1>10. FreshSafe
  BY <1>2, <1>3 DEF FreshSafe
<1>11. CandidatesMade /\ CandidatesApart /\ CandidatesSynced
  BY <1>8 DEF CandidatesMade, CandidatesApart, CandidatesSynced
<1>12. PreparedNamed
  BY <1>4, <1>5 DEF PreparedNamed, Built, Unverified
<1>13. OneForward
  BY <1>4, <1>5 DEF OneForward, IsForward
<1>14. WorkOK
  <2>1. task.run = None /\ task.todo = <<>>
    BY DEF CompactionInit, NoTask
  <2>2. Work(task.run, task.kind, task.todo, runs, dir, durable, inode)
    BY <2>1, NoWork
  <2> QED BY <2>2 DEF WorkOK
<1>15. HistoryOK
  BY DEF CompactionInit, LeaseInit, HistoryOK
<1> QED BY <1>6, <1>9, <1>10, <1>11, <1>12, <1>13, <1>14, <1>15 DEF FilesInv, FilesOK

(* FilesInv is inductive, given that the owner of a task holds the lease.    *)
LEMMA FilesInvStep == OwnedInv /\ FilesInv /\ [CompactionNext]_compactionVars => FilesInv'
<1> SUFFICES ASSUME OwnedInv, FilesInv, [CompactionNext]_compactionVars PROVE FilesInv'
  OBVIOUS
<1>1. FilesOK /\ WorkOK /\ IsTask(task)
  BY DEF FilesInv, OwnedInv, TaskOwned
<1>2. HistoryOK'
  BY HistoryStep DEF FilesInv
<1>3. ASSUME NEW p \in Procs, LeaseStep(p) PROVE FilesOK' /\ WorkOK'
  BY <1>1, <1>3, IdleKeepsFiles DEF LeaseStep, storeVars
<1>4. ASSUME NEW p \in Procs, Finish(p) PROVE FilesOK' /\ WorkOK'
  BY <1>1, <1>4, IdleKeepsFiles DEF Finish
<1>5. ASSUME NEW p \in Procs, Killed(p) PROVE FilesOK' /\ WorkOK'
  BY <1>1, <1>5, IdleKeepsFiles DEF Killed
<1>6. FilesOK' /\ WorkOK'
  <2>1. CASE UNCHANGED compactionVars
    BY <1>1, <2>1, IdleKeepsFiles DEF compactionVars, storeVars
  <2> QED
    BY <1>1, <1>3, <1>4, <1>5, <2>1, StartKeepsFiles, StepKeepsFiles, HookKeepsFiles,
       SweepKeepsFiles, PowerLossKeepsFiles DEF CompactionNext
<1> QED BY <1>2, <1>6 DEF FilesInv

(* The invariant of the files holds of every behaviour of maintenance.       *)
LEMMA FilesInvariant == CompactionSpec => [](OwnedInv /\ FilesInv)
<1>1. CompactionInit => OwnedInv /\ FilesInv
  BY OwnedInvInit, FilesInvInit
<1>2. OwnedInv /\ FilesInv /\ [CompactionNext]_compactionVars => (OwnedInv /\ FilesInv)'
  BY OwnedInvStep, FilesInvStep
<1> QED BY <1>1, <1>2, PTL DEF CompactionSpec

(* The path of the store names a complete database, in the directory as it   *)
(* is and as a power loss would leave it, at every point between two calls   *)
(* of a build, an exchange, a recovery, a rollback or an upgrade.            *)
THEOREM StoreIsAlwaysWhole == CompactionSpec => []StoreAlwaysWhole
<1>1. FilesInv => StoreAlwaysWhole
  <2> SUFFICES ASSUME FilesInv PROVE StoreAlwaysWhole
    OBVIOUS
  <2>1. Complete(dir.source) /\ Complete(durable.source)
    BY SourceKept DEF FilesInv, FilesOK, KeptComplete
  <2> QED BY <2>1 DEF Complete, StoreAlwaysWhole
<1> QED BY <1>1, FilesInvariant, PTL

(* Types, a command that works under the lease, and one run on its way: two  *)
(* compactions never rewrite the store at once, not even an interrupted one  *)
(* and its successor.                                                        *)
THEOREM CompactionHolds == CompactionSpec => []CompactionInv
<1>1. OwnedInv /\ FilesInv => CompactionTypeOK
  <2> SUFFICES ASSUME OwnedInv, FilesInv PROVE CompactionTypeOK
    OBVIOUS
  <2>1. LeaseTypeOK
    BY DEF OwnedInv, LeaseInv
  <2>2. ASSUME NEW d \in {dir, durable}
        PROVE  /\ d.source \in InodeNo \ {0}
               /\ d.candidate \in [RunIDs -> InodeNo] /\ d.rollback \in [RunIDs -> InodeNo]
    <3>1. d \in Directories
      BY <2>2 DEF FilesInv, FilesOK, StateOK
    <3>2. Inodes \subseteq InodeNo \ {0}
      BY InodeFacts
    <3> QED BY <3>1, <3>2 DEF Directories
  <2>3. \A r \in RunIDs : /\ runs[r].phase \in Phases \cup {"none"}
                          /\ runs[r].source[1] \in InodeNo /\ runs[r].candidate[1] \in InodeNo
    BY DEF FilesInv, FilesOK, StateOK, Journals
  <2>4. task.owner \in {p \in Operators : excl[p] = "held"} \cup {None}
    BY DEF OwnedInv, TaskOwned, FilesInv, HistoryOK
  <2>5. task.run \in RunIDs \cup {None}
    BY DEF FilesInv, WorkOK, Work
  <2>6. acked \subseteq Records /\ exposed \subseteq acked /\ swept \subseteq RunIDs
    BY DEF FilesInv, HistoryOK
  <2> QED BY <2>1, <2>2, <2>3, <2>4, <2>5, <2>6 DEF CompactionTypeOK
<1>2. FilesInv => AtMostOneForwardRun
  <2> SUFFICES ASSUME FilesInv PROVE AtMostOneForwardRun
    OBVIOUS
  <2> DEFINE S == {r \in InFlight : runs[r].phase \notin {"rollback_swap_intent", "rollback_swapped"}}
  <2>1. \A q, r \in S : q = r
    <3>1. \A r \in S : r \in RunIDs /\ IsForward(runs[r])
      BY DEF InFlight, Exists, IsForward
    <3> HIDE DEF S
    <3> QED BY <3>1 DEF FilesInv, FilesOK, OneForward
  <2> HIDE DEF S
  <2>2. S = {} \/ \E x : S = {x}
    BY <2>1
  <2>3. Cardinality(S) \leq 1
    BY <2>2, FS_EmptySet, FS_Singleton
  <2> QED BY <2>3 DEF AtMostOneForwardRun, S
<1>3. OwnedInv /\ FilesInv => CompactionInv
  BY <1>1, <1>2 DEF CompactionInv
<1> QED BY <1>3, FilesInvariant, PTL

-----------------------------------------------------------------------------
(* The original is kept, and the journal does not run ahead of the disk.     *)

(* Phases before the exchange, and after it until an operator rolls back.    *)
PreSwap == Building \cup {"candidate_verified", "swap_intent"}
Displaced == {"swapped", "rollback_publish_intent", "rollback_ready"}

(* No upgrade comes between a compaction's exchange and its end.             *)
NoUpgrade == "upgrade" \notin Commands

(* Every file has at most one name.                                          *)
Unique(d) ==
  /\ \A r \in RunIDs : d.candidate[r] # d.source /\ d.rollback[r] # d.source
  /\ \A q, r \in RunIDs : d.candidate[q] = d.candidate[r] => d.candidate[q] = 0 \/ q = r
  /\ \A q, r \in RunIDs : d.rollback[q] = d.rollback[r] => d.rollback[q] = 0 \/ q = r
  /\ \A q, r \in RunIDs : d.candidate[q] = d.rollback[r] => d.candidate[q] = 0

(* The file a run displaced is as it was planned, under one of the two       *)
(* names, and the run's candidate is the store.                              *)
Swapped(d, r, run, f) ==
  /\ run.source[1] \in Inodes /\ f[run.source[1]].ver = run.source[2]
  /\ \/ d.candidate[r] = run.source[1] /\ d.rollback[r] = 0
     \/ d.candidate[r] = 0 /\ d.rollback[r] = run.source[1]
  /\ NoUpgrade => d.source = run.candidate[1]
Ready(d, r, run, f) == Swapped(d, r, run, f) /\ d.rollback[r] = run.source[1]

(* The journal says so only when it is so on disk.                           *)
Held(r, run, d, dd, f) ==
  /\ run.phase \in Displaced => Swapped(d, r, run, f) /\ Swapped(dd, r, run, f)
  /\ run.phase = "rollback_ready" => Ready(d, r, run, f) /\ Ready(dd, r, run, f)

OriginalsHeld == \A r \in RunIDs : r \notin swept => Held(r, runs[r], dir, durable, inode)
RollbacksMade ==
  \A r \in RunIDs : \A i \in Inodes :
    i = dir.rollback[r] \/ i = durable.rollback[r] => inode[i].made = TRUE
NoRollbackYet ==
  \A r \in RunIDs : runs[r].phase \in PreSwap => dir.rollback[r] = 0 /\ durable.rollback[r] = 0
CandidatesTold ==
  \A q, r \in RunIDs :
    runs[q].candidate[1] = runs[r].candidate[1] => runs[q].candidate[1] = 0 \/ q = r
OpsKnown ==
  /\ \A r \in RunIDs : runs[r].phase = "none" <=> runs[r].op = "none"
  /\ NoUpgrade => task.kind # "upgrade" /\ \A r \in RunIDs : runs[r].op # "upgrade"
  /\ \A r \in sweep.paths : r \in RunIDs /\ runs[r].op = "compaction"

KeptOK ==
  /\ Unique(dir) /\ Unique(durable) /\ RollbacksMade /\ NoRollbackYet
  /\ OriginalsHeld /\ CandidatesTold /\ OpsKnown

(* What a command has still to do, given what it relies on: steps that rely  *)
(* on nothing, calls on a candidate under construction, or the rest of an    *)
(* exchange or of a move.                                                    *)
QuietSteps ==
  (Phases \ {"swapped", "rollback_ready", "rollback_swap_intent"})
  \cup {"recheck", "sync_dir", "unlink", "refuse", "sync_file", "verify", "plan"}

CandidateCalls ==
  {<<"create", "sync_dir", "candidate_prepared">>, <<"copy", "vacuum", "copy_complete">>,
   <<"vacuum", "copy_complete">>, <<"abandon", "abandoned">>, <<"abandon", "abandoned", "plan">>}

ReturnSteps == <<"exchange", "sync_dir", "rollback_swapped", "rolled_back">>

SwapCalls(r, todo, run, d, dd, f, sw) ==
  \/ run.phase = "swap_intent" /\ todo = <<"exchange", "sync_dir", "swapped">>
  \/ /\ r \in sw \/ Swapped(d, r, run, f)
     /\ \/ run.phase = "candidate_verified" /\ todo = <<"swap_intent", "sync_dir", "swapped">>
        \/ run.phase = "swap_intent" /\ todo = <<"sync_dir", "swapped">>
        \/ /\ run.phase = "swap_intent" /\ todo = <<"swapped">>
           /\ r \in sw \/ Swapped(dd, r, run, f)
PublishCalls(r, todo, run, d, dd, f, sw) ==
  \/ run.phase = "rollback_publish_intent" /\ todo = <<"publish", "sync_dir", "rollback_ready">>
  \/ /\ r \in sw \/ Ready(d, r, run, f)
     /\ \/ /\ run.phase = "swapped"
           /\ todo = <<"rollback_publish_intent", "sync_dir", "rollback_ready">>
        \/ run.phase = "rollback_publish_intent" /\ todo = <<"sync_dir", "rollback_ready">>
        \/ /\ run.phase = "rollback_publish_intent" /\ todo = <<"rollback_ready">>
           /\ r \in sw \/ Ready(dd, r, run, f)
ReturnCalls(todo, run) ==
  \/ run.phase = "rollback_swap_intent" /\ todo = ReturnSteps
  \/ todo = <<"rollback_swap_intent">> \o ReturnSteps

Calls(r, todo, rs, d, dd, f, sw) ==
  \/ todo \in Seq(QuietSteps)
  \/ /\ r # None
     /\ \/ rs[r].phase \in PrePublication /\ todo \in CandidateCalls
        \/ SwapCalls(r, todo, rs[r], d, dd, f, sw)
        \/ PublishCalls(r, todo, rs[r], d, dd, f, sw)
        \/ ReturnCalls(todo, rs[r])
CallsOK == Calls(task.run, task.todo, runs, dir, durable, inode, swept)

(* The inductive invariant, on top of FilesInv.                              *)
KeptInv == KeptOK /\ CallsOK

-----------------------------------------------------------------------------
(* Names that are taken away leave the others unique.                        *)
LEMMA UniqueRemoved ==
  ASSUME NEW d \in Directories, NEW e \in Directories, Unique(d), e.source = d.source,
         \A r \in RunIDs : e.candidate[r] \in {0, d.candidate[r]},
         \A r \in RunIDs : e.rollback[r] \in {0, d.rollback[r]}
  PROVE  Unique(e)
<1>1. d.source # 0
  BY InodeFacts DEF Directories
<1>2. \A r \in RunIDs : e.candidate[r] # e.source /\ e.rollback[r] # e.source
  BY <1>1 DEF Unique
<1>3. \A q, r \in RunIDs : e.candidate[q] = e.candidate[r] => e.candidate[q] = 0 \/ q = r
  BY DEF Unique
<1>4. \A q, r \in RunIDs : e.rollback[q] = e.rollback[r] => e.rollback[q] = 0 \/ q = r
  BY DEF Unique
<1>5. \A q, r \in RunIDs : e.candidate[q] = e.rollback[r] => e.candidate[q] = 0
  BY DEF Unique
<1> QED BY <1>2, <1>3, <1>4, <1>5 DEF Unique

(* So does the exchange of the store and a candidate,                        *)
LEMMA UniqueSwapped ==
  ASSUME NEW d \in Directories, NEW e \in Directories, Unique(d), NEW r \in RunIDs,
         d.candidate[r] # 0, e.source = d.candidate[r],
         e.candidate = [d.candidate EXCEPT ![r] = d.source], e.rollback = d.rollback
  PROVE  Unique(e)
<1>1. /\ d.candidate \in [RunIDs -> InodeNo] /\ d.rollback \in [RunIDs -> InodeNo]
      /\ d.source # 0
  BY InodeFacts DEF Directories
<1>2. e.candidate[r] = d.source /\ \A q \in RunIDs \ {r} : e.candidate[q] = d.candidate[q]
  BY <1>1
<1>3. \A q \in RunIDs : e.candidate[q] # e.source /\ e.rollback[q] # e.source
  BY <1>1, <1>2 DEF Unique
<1>4. \A q, s \in RunIDs : e.candidate[q] = e.candidate[s] => e.candidate[q] = 0 \/ q = s
  BY <1>1, <1>2 DEF Unique
<1>5. \A q, s \in RunIDs : e.rollback[q] = e.rollback[s] => e.rollback[q] = 0 \/ q = s
  BY DEF Unique
<1>6. \A q, s \in RunIDs : e.candidate[q] = e.rollback[s] => e.candidate[q] = 0
  BY <1>1, <1>2 DEF Unique
<1> QED BY <1>3, <1>4, <1>5, <1>6 DEF Unique

(* of the store and a displaced one,                                         *)
LEMMA UniqueReturned ==
  ASSUME NEW d \in Directories, NEW e \in Directories, Unique(d), NEW r \in RunIDs,
         d.rollback[r] # 0, e.source = d.rollback[r],
         e.rollback = [d.rollback EXCEPT ![r] = d.source], e.candidate = d.candidate
  PROVE  Unique(e)
<1>1. /\ d.candidate \in [RunIDs -> InodeNo] /\ d.rollback \in [RunIDs -> InodeNo]
      /\ d.source # 0
  BY InodeFacts DEF Directories
<1>2. e.rollback[r] = d.source /\ \A q \in RunIDs \ {r} : e.rollback[q] = d.rollback[q]
  BY <1>1
<1>3. \A q \in RunIDs : e.candidate[q] # e.source /\ e.rollback[q] # e.source
  BY <1>1, <1>2 DEF Unique
<1>4. \A q, s \in RunIDs : e.candidate[q] = e.candidate[s] => e.candidate[q] = 0 \/ q = s
  BY DEF Unique
<1>5. \A q, s \in RunIDs : e.rollback[q] = e.rollback[s] => e.rollback[q] = 0 \/ q = s
  BY <1>1, <1>2 DEF Unique
<1>6. \A q, s \in RunIDs : e.candidate[q] = e.rollback[s] => e.candidate[q] = 0
  BY <1>1, <1>2 DEF Unique
<1> QED BY <1>3, <1>4, <1>5, <1>6 DEF Unique

(* the move of a displaced store to its other name,                          *)
LEMMA UniquePublished ==
  ASSUME NEW d \in Directories, NEW e \in Directories, Unique(d), NEW r \in RunIDs,
         d.rollback[r] = 0, d.candidate[r] # 0, e.source = d.source,
         e.candidate = [d.candidate EXCEPT ![r] = 0],
         e.rollback = [d.rollback EXCEPT ![r] = d.candidate[r]]
  PROVE  Unique(e)
<1>1. /\ d.candidate \in [RunIDs -> InodeNo] /\ d.rollback \in [RunIDs -> InodeNo]
      /\ d.source # 0
  BY InodeFacts DEF Directories
<1>2. /\ e.rollback[r] = d.candidate[r] /\ \A q \in RunIDs \ {r} : e.rollback[q] = d.rollback[q]
      /\ e.candidate[r] = 0 /\ \A q \in RunIDs \ {r} : e.candidate[q] = d.candidate[q]
  BY <1>1
<1>3. \A q \in RunIDs : e.candidate[q] # e.source /\ e.rollback[q] # e.source
  BY <1>1, <1>2 DEF Unique
<1>4. \A q, s \in RunIDs : e.candidate[q] = e.candidate[s] => e.candidate[q] = 0 \/ q = s
  BY <1>1, <1>2 DEF Unique
<1>5. \A q, s \in RunIDs : e.rollback[q] = e.rollback[s] => e.rollback[q] = 0 \/ q = s
  BY <1>1, <1>2 DEF Unique
<1>6. \A q, s \in RunIDs : e.candidate[q] = e.rollback[s] => e.candidate[q] = 0
  BY <1>1, <1>2 DEF Unique
<1> QED BY <1>3, <1>4, <1>5, <1>6 DEF Unique

(* and a new file.                                                           *)
LEMMA UniqueCreated ==
  ASSUME NEW d \in Directories, NEW e \in Directories, Unique(d), NEW r \in RunIDs, NEW i,
         d.source # i, \A q \in RunIDs : d.candidate[q] # i /\ d.rollback[q] # i,
         e.source = d.source, e.candidate = [d.candidate EXCEPT ![r] = i], e.rollback = d.rollback
  PROVE  Unique(e)
<1>1. d.candidate \in [RunIDs -> InodeNo] /\ d.rollback \in [RunIDs -> InodeNo]
  BY DEF Directories
<1>2. e.candidate[r] = i /\ \A q \in RunIDs \ {r} : e.candidate[q] = d.candidate[q]
  BY <1>1
<1>3. \A q \in RunIDs : e.candidate[q] # e.source /\ e.rollback[q] # e.source
  BY <1>2 DEF Unique
<1>4. \A q, s \in RunIDs : e.candidate[q] = e.candidate[s] => e.candidate[q] = 0 \/ q = s
  BY <1>2 DEF Unique
<1>5. \A q, s \in RunIDs : e.rollback[q] = e.rollback[s] => e.rollback[q] = 0 \/ q = s
  BY DEF Unique
<1>6. \A q, s \in RunIDs : e.candidate[q] = e.rollback[s] => e.candidate[q] = 0
  BY <1>2 DEF Unique
<1> QED BY <1>3, <1>4, <1>5, <1>6 DEF Unique

-----------------------------------------------------------------------------
(* What a directory says of one run.                                         *)
LooksLike(e, d, r) ==
  /\ e.candidate[r] = d.candidate[r] /\ e.rollback[r] = d.rollback[r]
  /\ NoUpgrade => e.source = d.source

(* Only the store is written to, and files no journal has fenced.            *)
Untouched == \A i \in Inodes : IsKept(i) /\ i # dir.source => inode'[i].ver = inode[i].ver

(* A displaced store is not the store: it is not written to.                 *)
LEMMA DisplacedUntouched ==
  ASSUME Unique(dir), Untouched, NEW r \in RunIDs, Swapped(dir, r, runs[r], inode)
  PROVE  inode'[runs[r].source[1]].ver = runs[r].source[2]
<1> DEFINE s == runs[r].source[1]
<1>1. s \in Inodes /\ inode[s].ver = runs[r].source[2]
  BY DEF Swapped
<1>2. s # dir.source
  BY DEF Swapped, Unique
<1>3. IsKept(s)
  BY DEF IsKept
<1> QED BY <1>1, <1>2, <1>3 DEF Untouched

(* It is kept by a directory that says the same of the run.                  *)
LEMMA SwappedStays ==
  ASSUME NEW d, NEW e, NEW r, NEW run, NEW f, NEW g, Swapped(d, r, run, f), LooksLike(e, d, r),
         g[run.source[1]].ver = run.source[2]
  PROVE  Swapped(e, r, run, g) /\ (Ready(d, r, run, f) => Ready(e, r, run, g))
BY DEF Swapped, Ready, LooksLike

(* A step after which both directories say of a run what one of them said.   *)
LEMMA HeldPoint ==
  ASSUME KeptOK, Untouched, NEW r \in RunIDs, r \notin swept,
         runs[r].phase \in Displaced =>
           /\ LooksLike(dir', dir, r) \/ LooksLike(dir', durable, r)
           /\ LooksLike(durable', dir, r) \/ LooksLike(durable', durable, r)
  PROVE  Held(r, runs[r], dir', durable', inode')
<1>1. Held(r, runs[r], dir, durable, inode)
  BY DEF KeptOK, OriginalsHeld
<1>2. CASE runs[r].phase \in Displaced
  <2>1. Swapped(dir, r, runs[r], inode) /\ Swapped(durable, r, runs[r], inode)
    BY <1>1, <1>2 DEF Held
  <2>2. inode'[runs[r].source[1]].ver = runs[r].source[2]
    BY <2>1, DisplacedUntouched DEF KeptOK
  <2>3. Swapped(dir', r, runs[r], inode') /\ Swapped(durable', r, runs[r], inode')
    BY <1>2, <2>1, <2>2, SwappedStays
  <2>4. ASSUME runs[r].phase = "rollback_ready"
        PROVE  Ready(dir', r, runs[r], inode') /\ Ready(durable', r, runs[r], inode')
    <3>1. Ready(dir, r, runs[r], inode) /\ Ready(durable, r, runs[r], inode)
      BY <1>1, <2>4 DEF Held
    <3> QED BY <1>2, <2>1, <2>2, <3>1, SwappedStays
  <2> QED BY <2>3, <2>4 DEF Held
<1>3. CASE runs[r].phase \notin Displaced
  BY <1>3 DEF Held, Displaced
<1> QED BY <1>2, <1>3

(* The same of every run.                                                    *)
LEMMA HeldStep ==
  ASSUME KeptOK, Untouched, UNCHANGED runs, swept \subseteq swept',
         \A r \in RunIDs : r \notin swept' /\ runs[r].phase \in Displaced =>
           /\ LooksLike(dir', dir, r) \/ LooksLike(dir', durable, r)
           /\ LooksLike(durable', dir, r) \/ LooksLike(durable', durable, r)
  PROVE  OriginalsHeld'
<1> SUFFICES ASSUME NEW r \in RunIDs, r \notin swept'
             PROVE  Held(r, runs[r], dir', durable', inode')
  BY DEF OriginalsHeld
<1> QED BY HeldPoint

-----------------------------------------------------------------------------
(* The steps that rely on nothing.                                           *)
LEMMA QuietFacts ==
  /\ Phases \ {"swapped", "rollback_ready", "rollback_swap_intent"} \subseteq QuietSteps
  /\ {"recheck", "sync_dir", "unlink", "refuse", "sync_file", "verify", "plan"} \subseteq QuietSteps
  /\ {"planned", "copy_intent", "copy_retry_intent", "candidate_prepared", "copy_complete",
      "candidate_sync_intent", "candidate_synced", "scrub_in_progress", "candidate_verified",
      "swap_intent", "rollback_publish_intent", "committed",
      "rollback_swapped", "rolled_back", "abandoned"} \subseteq QuietSteps
  /\ \A s \in {"create", "copy", "vacuum", "abandon", "exchange", "publish", "swapped", "rollback_ready",
               "rollback_swap_intent"} :
       s \notin QuietSteps
BY DEF QuietSteps, Phases, PrePublication, Unverified, Terminal

(* Sequences of them.                                                        *)
LEMMA QuietTuples ==
  /\ <<>> \in Seq(QuietSteps)
  /\ \A a \in QuietSteps : <<a>> \in Seq(QuietSteps)
  /\ \A a, b \in QuietSteps : <<a, b>> \in Seq(QuietSteps)
  /\ \A a, b, c \in QuietSteps : <<a, b, c>> \in Seq(QuietSteps)
OBVIOUS

(* The rests that occur.                                                     *)
LEMMA QuietRests ==
  /\ <<"recheck", "copy_intent">> \in Seq(QuietSteps)
  /\ <<"sync_file", "sync_dir", "candidate_synced">> \in Seq(QuietSteps)
  /\ <<"verify", "candidate_verified">> \in Seq(QuietSteps)
  /\ <<"sync_dir", "candidate_prepared">> \in Seq(QuietSteps)
  /\ <<"abandoned", "plan">> \in Seq(QuietSteps)
  /\ <<"sync_dir", "rollback_swapped", "rolled_back">> \in Seq(QuietSteps)
  /\ <<"rollback_swapped", "rolled_back">> \in Seq(QuietSteps)
  /\ <<"recheck", "unlink", "sync_dir">> \in Seq(QuietSteps)
  /\ \A s \in {"candidate_sync_intent", "scrub_in_progress", "swap_intent", "rollback_publish_intent",
               "committed", "copy_complete", "copy_retry_intent", "abandoned", "rolled_back",
               "refuse", "plan"} :
       <<s>> \in Seq(QuietSteps)
BY QuietFacts, QuietTuples

(* What a run still has to do in a phase.                                    *)
LEMMA ApplyCalls ==
  ASSUME NEW r, r # None, NEW rs, NEW d, NEW dd, NEW f, NEW sw, rs[r].phase \in DOMAIN ApplySteps
  PROVE  Calls(r, ApplySteps[rs[r].phase], rs, d, dd, f, sw)
<1> DEFINE phase == rs[r].phase
           todo == ApplySteps[phase]
<1>1. CASE phase \in {"copy_intent", "copy_retry_intent", "candidate_prepared"}
  <2>1. todo \in CandidateCalls
    BY <1>1 DEF ApplySteps, CandidateCalls
  <2> QED BY <1>1, <2>1 DEF Calls, PrePublication
<1>2. CASE phase = "swap_intent"
  <2>1. todo = <<"exchange", "sync_dir", "swapped">>
    BY <1>2 DEF ApplySteps
  <2> QED BY <1>2, <2>1 DEF Calls, SwapCalls
<1>3. CASE phase = "rollback_publish_intent"
  <2>1. todo = <<"publish", "sync_dir", "rollback_ready">>
    BY <1>3 DEF ApplySteps
  <2> QED BY <1>3, <2>1 DEF Calls, PublishCalls
<1>4. CASE phase \in {"planned", "candidate_sync_intent", "scrub_in_progress"}
  <2>1. todo \in {<<"recheck", "copy_intent">>, <<"sync_file", "sync_dir", "candidate_synced">>,
                  <<"verify", "candidate_verified">>}
    BY <1>4 DEF ApplySteps
  <2>2. todo \in Seq(QuietSteps)
    BY <2>1, QuietRests
  <2> QED BY <2>2 DEF Calls
<1>5. CASE phase \in {"copy_complete", "candidate_synced", "candidate_verified", "swapped", "rollback_ready"}
  <2>1. todo \in {<<"candidate_sync_intent">>, <<"scrub_in_progress">>, <<"swap_intent">>,
                  <<"rollback_publish_intent">>, <<"committed">>}
    BY <1>5 DEF ApplySteps
  <2>2. todo \in Seq(QuietSteps)
    BY <2>1, QuietRests
  <2> QED BY <2>2 DEF Calls
<1> QED BY <1>1, <1>2, <1>3, <1>4, <1>5 DEF ApplySteps

(* Going on with a command.                                                  *)
LEMMA ContinueCalls ==
  ASSUME NEW c, IsTask(c), NEW phase, NEW todo, NEW rs, NEW d, NEW dd, NEW f, NEW sw,
         Calls(c.run, todo, rs, d, dd, f, sw),
         c.run # None => phase = rs[c.run].phase,
         c.run = None => phase = "none"
  PROVE  LET n == Continue(c, phase, todo)
         IN  Calls(n.run, n.todo, rs, d, dd, f, sw) /\ n.kind = c.kind
<1> DEFINE n == Continue(c, phase, todo)
<1>1. n.run = c.run /\ n.kind = c.kind
  BY DEF IsTask, Continue
<1>2. \/ n.todo = todo \/ n.todo = <<>>
      \/ n.todo = ApplySteps[phase] /\ phase \in DOMAIN ApplySteps
  BY DEF IsTask, Continue
<1>3. phase \in DOMAIN ApplySteps => c.run # None
  BY DEF ApplySteps
<1>4. Calls(c.run, <<>>, rs, d, dd, f, sw)
  BY QuietTuples DEF Calls
<1> HIDE DEF n
<1>5. Calls(c.run, n.todo, rs, d, dd, f, sw)
  BY <1>2, <1>3, <1>4, ApplyCalls
<1> QED BY <1>1, <1>5 DEF n

(* A step that takes the first of what is left.                              *)
LEMMA PopCalls ==
  ASSUME IsTask(task), NEW phase, Pop(phase), task.run # None,
         phase = runs'[task.run].phase,
         Calls(task.run, Tail(task.todo), runs', dir', durable', inode', swept')
  PROVE  CallsOK' /\ task'.kind = task.kind
<1>1. task' = Continue(task, phase, Tail(task.todo))
  BY DEF Pop
<1>2. Calls(task'.run, task'.todo, runs', dir', durable', inode', swept') /\ task'.kind = task.kind
  BY <1>1, ContinueCalls
<1> QED BY <1>2 DEF CallsOK

(* The end of a command.                                                     *)
LEMMA EndCalls ==
  ASSUME IsTask(task), NEW result, End(result)
  PROVE  CallsOK' /\ task'.kind = task.kind
<1>1. task'.todo = <<>> /\ task'.kind = task.kind
  BY DEF End, IsTask
<1>2. Calls(task'.run, task'.todo, runs', dir', durable', inode', swept')
  BY <1>1, QuietTuples DEF Calls
<1> QED BY <1>1, <1>2 DEF CallsOK

(* No command.                                                               *)
LEMMA NoTaskCalls == ASSUME task' = NoTask PROVE CallsOK' /\ task'.kind # "upgrade"
<1>1. task'.todo = <<>> /\ task'.kind = "none"
  BY DEF NoTask
<1>2. Calls(task'.run, task'.todo, runs', dir', durable', inode', swept')
  BY <1>1, QuietTuples DEF Calls
<1> QED BY <1>1, <1>2 DEF CallsOK

(* A sequence with one more call in front.                                   *)
LEMMA ConsFacts ==
  ASSUME NEW S, NEW a \in S, NEW s \in Seq(S)
  PROVE  Head(<<a>> \o s) = a /\ Tail(<<a>> \o s) = s /\ <<a>> \o s # <<>>
<1> DEFINE t == <<a>> \o s
<1>1. <<a>> \in Seq(S) /\ Len(<<a>>) = 1 /\ <<a>>[1] = a
  OBVIOUS
<1>2. /\ t \in Seq(S) /\ Len(t) = 1 + Len(s)
      /\ \A i \in 1..(1 + Len(s)) : t[i] = IF i <= 1 THEN <<a>>[i] ELSE s[i - 1]
  BY <1>1, ConcatProperties
<1> HIDE DEF t
<1>3. Len(s) \in Nat
  OBVIOUS
<1>4. t # <<>> /\ t[1] = a
  BY <1>1, <1>2, <1>3
<1>5. Head(t) = a
  BY <1>2, <1>4
<1>6. /\ Tail(t) \in Seq(S) /\ Len(Tail(t)) = Len(t) - 1
      /\ \A i \in 1..Len(Tail(t)) : Tail(t)[i] = t[i + 1]
  BY <1>2, <1>4, HeadTailProperties
<1>7. Len(Tail(t)) = Len(s)
  BY <1>2, <1>3, <1>6
<1>8. \A i \in 1..Len(s) : Tail(t)[i] = s[i]
  BY <1>2, <1>3, <1>6, <1>7
<1>9. Tail(t) = s
  BY <1>6, <1>7, <1>8, SeqEqual
<1> QED BY <1>4, <1>5, <1>9 DEF t

(* What the first of the steps left says of the run and of the rest.         *)
CallSays(step, rest, r, run, d, dd, f, sw) ==
  /\ step \in {"create", "copy", "vacuum", "abandon"} => run.phase \in PrePublication
  /\ step = "exchange" =>
       \/ run.phase = "swap_intent" /\ rest = <<"sync_dir", "swapped">>
       \/ run.phase = "rollback_swap_intent" /\ rest \in Seq(QuietSteps)
  /\ step = "publish" =>
       run.phase = "rollback_publish_intent" /\ rest = <<"sync_dir", "rollback_ready">>
  /\ step = "swapped" =>
       /\ run.phase = "swap_intent" /\ rest = <<>>
       /\ r \in sw \/ (Swapped(d, r, run, f) /\ Swapped(dd, r, run, f))
  /\ step = "rollback_ready" =>
       /\ run.phase = "rollback_publish_intent" /\ rest = <<>>
       /\ r \in sw \/ (Ready(d, r, run, f) /\ Ready(dd, r, run, f))
  /\ \/ rest \in Seq(QuietSteps)
     \/ step = "copy" /\ rest = <<"vacuum", "copy_complete">>
     \/ step \in {"exchange", "publish"}
     \/ /\ step = "sync_dir" /\ run.phase = "swap_intent" /\ rest = <<"swapped">>
        /\ r \in sw \/ Swapped(d, r, run, f)
     \/ /\ step = "swap_intent" /\ run.phase = "candidate_verified" /\ rest = <<"sync_dir", "swapped">>
        /\ r \in sw \/ Swapped(d, r, run, f)
     \/ /\ step = "sync_dir" /\ run.phase = "rollback_publish_intent" /\ rest = <<"rollback_ready">>
        /\ r \in sw \/ Ready(d, r, run, f)
     \/ /\ step = "rollback_publish_intent" /\ run.phase = "swapped"
        /\ rest = <<"sync_dir", "rollback_ready">>
        /\ r \in sw \/ Ready(d, r, run, f)
     \/ step = "rollback_swap_intent" /\ rest = ReturnSteps

(* The calls left say it.                                                    *)
LEMMA CallsHead ==
  ASSUME NEW r, NEW todo, NEW rs, NEW d, NEW dd, NEW f, NEW sw,
         Calls(r, todo, rs, d, dd, f, sw), todo # <<>>
  PROVE  CallSays(Head(todo), Tail(todo), r, rs[r], d, dd, f, sw)
<1> DEFINE step == Head(todo)
           rest == Tail(todo)
<1>1. CASE todo \in Seq(QuietSteps)
  <2>1. step \in QuietSteps /\ rest \in Seq(QuietSteps)
    BY <1>1, HeadTailProperties
  <2> HIDE DEF step, rest
  <2> QED BY <2>1, QuietFacts DEF CallSays, step, rest
<1>2. CASE rs[r].phase \in PrePublication /\ todo \in CandidateCalls
  <2>1. \/ step = "create" /\ rest = <<"sync_dir", "candidate_prepared">>
        \/ step = "copy" /\ rest = <<"vacuum", "copy_complete">>
        \/ step = "vacuum" /\ rest = <<"copy_complete">>
        \/ step = "abandon" /\ rest \in {<<"abandoned">>, <<"abandoned", "plan">>}
    <3>1. /\ Head(<<"create", "sync_dir", "candidate_prepared">>) = "create"
          /\ Tail(<<"create", "sync_dir", "candidate_prepared">>) = <<"sync_dir", "candidate_prepared">>
          /\ Head(<<"copy", "vacuum", "copy_complete">>) = "copy"
          /\ Tail(<<"copy", "vacuum", "copy_complete">>) = <<"vacuum", "copy_complete">>
          /\ Head(<<"vacuum", "copy_complete">>) = "vacuum"
          /\ Tail(<<"vacuum", "copy_complete">>) = <<"copy_complete">>
      OBVIOUS
    <3>2. /\ Head(<<"abandon", "abandoned">>) = "abandon"
          /\ Tail(<<"abandon", "abandoned">>) = <<"abandoned">>
          /\ Head(<<"abandon", "abandoned", "plan">>) = "abandon"
          /\ Tail(<<"abandon", "abandoned", "plan">>) = <<"abandoned", "plan">>
      OBVIOUS
    <3> QED BY <1>2, <3>1, <3>2, Zenon DEF CandidateCalls
  <2> HIDE DEF step, rest
  <2>2. step = "copy" \/ rest \in Seq(QuietSteps)
    BY <2>1, QuietRests
  <2> QED BY <1>2, <2>1, <2>2 DEF CallSays, step, rest
<1>3. CASE SwapCalls(r, todo, rs[r], d, dd, f, sw)
  <2>1. \/ rs[r].phase = "swap_intent" /\ step = "exchange" /\ rest = <<"sync_dir", "swapped">>
        \/ /\ r \in sw \/ Swapped(d, r, rs[r], f)
           /\ \/ rs[r].phase = "candidate_verified" /\ step = "swap_intent" /\ rest = <<"sync_dir", "swapped">>
              \/ rs[r].phase = "swap_intent" /\ step = "sync_dir" /\ rest = <<"swapped">>
              \/ /\ rs[r].phase = "swap_intent" /\ step = "swapped" /\ rest = <<>>
                 /\ r \in sw \/ Swapped(dd, r, rs[r], f)
    <3>1. /\ Head(<<"exchange", "sync_dir", "swapped">>) = "exchange"
          /\ Tail(<<"exchange", "sync_dir", "swapped">>) = <<"sync_dir", "swapped">>
          /\ Head(<<"swap_intent", "sync_dir", "swapped">>) = "swap_intent"
          /\ Tail(<<"swap_intent", "sync_dir", "swapped">>) = <<"sync_dir", "swapped">>
      OBVIOUS
    <3>2. /\ Head(<<"sync_dir", "swapped">>) = "sync_dir" /\ Tail(<<"sync_dir", "swapped">>) = <<"swapped">>
          /\ Head(<<"swapped">>) = "swapped" /\ Tail(<<"swapped">>) = <<>>
      OBVIOUS
    <3> QED BY <1>3, <3>1, <3>2, Zenon DEF SwapCalls
  <2> HIDE DEF step, rest
  <2>2. step = "swapped" => rest \in Seq(QuietSteps)
    BY <2>1, QuietTuples
  <2> QED BY <2>1, <2>2 DEF CallSays, step, rest
<1>4. CASE PublishCalls(r, todo, rs[r], d, dd, f, sw)
  <2>1. \/ rs[r].phase = "rollback_publish_intent" /\ step = "publish" /\ rest = <<"sync_dir", "rollback_ready">>
        \/ /\ r \in sw \/ Ready(d, r, rs[r], f)
           /\ \/ rs[r].phase = "swapped" /\ step = "rollback_publish_intent" /\ rest = <<"sync_dir", "rollback_ready">>
              \/ rs[r].phase = "rollback_publish_intent" /\ step = "sync_dir" /\ rest = <<"rollback_ready">>
              \/ /\ rs[r].phase = "rollback_publish_intent" /\ step = "rollback_ready" /\ rest = <<>>
                 /\ r \in sw \/ Ready(dd, r, rs[r], f)
    <3>1. /\ Head(<<"publish", "sync_dir", "rollback_ready">>) = "publish"
          /\ Tail(<<"publish", "sync_dir", "rollback_ready">>) = <<"sync_dir", "rollback_ready">>
          /\ Head(<<"rollback_publish_intent", "sync_dir", "rollback_ready">>) = "rollback_publish_intent"
          /\ Tail(<<"rollback_publish_intent", "sync_dir", "rollback_ready">>) =
               <<"sync_dir", "rollback_ready">>
      OBVIOUS
    <3>2. /\ Head(<<"sync_dir", "rollback_ready">>) = "sync_dir"
          /\ Tail(<<"sync_dir", "rollback_ready">>) = <<"rollback_ready">>
          /\ Head(<<"rollback_ready">>) = "rollback_ready" /\ Tail(<<"rollback_ready">>) = <<>>
      OBVIOUS
    <3> QED BY <1>4, <3>1, <3>2, Zenon DEF PublishCalls
  <2> HIDE DEF step, rest
  <2>2. step = "rollback_ready" => rest \in Seq(QuietSteps)
    BY <2>1, QuietTuples
  <2> QED BY <2>1, <2>2 DEF CallSays, step, rest
<1>5. CASE ReturnCalls(todo, rs[r])
  <2>1. /\ Head(<<"rollback_swap_intent">> \o ReturnSteps) = "rollback_swap_intent"
        /\ Tail(<<"rollback_swap_intent">> \o ReturnSteps) = ReturnSteps
    <3>1. "rollback_swap_intent" \in PlainSteps /\ ReturnSteps \in Seq(PlainSteps)
      BY PlainFacts, PlainTuples DEF ReturnSteps
    <3> QED BY <3>1, ConsFacts
  <2>2. \/ /\ rs[r].phase = "rollback_swap_intent" /\ step = "exchange"
           /\ rest = <<"sync_dir", "rollback_swapped", "rolled_back">>
        \/ step = "rollback_swap_intent" /\ rest = ReturnSteps
    <3>1. Head(ReturnSteps) = "exchange" /\ Tail(ReturnSteps) = <<"sync_dir", "rollback_swapped", "rolled_back">>
      BY DEF ReturnSteps
    <3> QED BY <1>5, <2>1, <3>1 DEF ReturnCalls
  <2> HIDE DEF step, rest
  <2>3. step = "exchange" => rest \in Seq(QuietSteps)
    BY <2>2, QuietRests
  <2> QED BY <2>2, <2>3 DEF CallSays, step, rest
<1> QED BY <1>1, <1>2, <1>3, <1>4, <1>5 DEF Calls

-----------------------------------------------------------------------------
(* What a placement says of the files.                                       *)
LEMMA ObserveFacts ==
  ASSUME NEW r
  PROVE  /\ Observe(r) = "swapped" =>
              /\ dir.source = runs[r].candidate[1] /\ dir.candidate[r] # 0 /\ dir.rollback[r] = 0
              /\ Identity(dir.candidate[r]) = runs[r].source
         /\ Observe(r) = "rollback_ready" =>
              /\ dir.source = runs[r].candidate[1] /\ dir.candidate[r] = 0 /\ dir.rollback[r] # 0
              /\ Identity(dir.rollback[r]) = runs[r].source
<1> DEFINE run == runs[r]
           cand == dir.candidate[r]
           back == dir.rollback[r]
           lost == run.phase \in Unverified /\ (cand = 0 \/ cand # run.prepared)
           fenced == run.candidate # NoIdentity
           original == Identity(dir.source) = run.source
           inCand == Identity(cand) = run.source
           inBack == Identity(back) = run.source
           ready == fenced /\ Identity(cand) # run.candidate
           published == fenced /\ samePublishedFile(dir.source, run.candidate)
           returned == samePublishedFile(back, run.candidate)
<1>1. Observe(r) =
        IF lost THEN "unknown"
        ELSE
        CASE original /\ cand = 0 /\ back = 0 -> "source_original"
          [] original /\ cand # 0 /\ back = 0 -> IF ready THEN "unknown" ELSE "candidate_ready"
          [] published /\ cand # 0 /\ back = 0 /\ inCand -> "swapped"
          [] published /\ cand = 0 /\ back # 0 /\ inBack -> "rollback_ready"
          [] original /\ cand = 0 /\ back # 0 /\ returned -> "rolled_back"
          [] OTHER -> "unknown"
  BY DEF Observe
<1>2. published => dir.source = run.candidate[1]
  BY DEF samePublishedFile
<1> HIDE DEF lost, original, inCand, inBack, ready, published, returned, cand, back, run
<1>3. Observe(r) = "swapped" => published /\ cand # 0 /\ back = 0 /\ inCand
  BY <1>1
<1>4. Observe(r) = "rollback_ready" => published /\ cand = 0 /\ back # 0 /\ inBack
  BY <1>1
<1> QED BY <1>2, <1>3, <1>4 DEF inCand, inBack, cand, back, run

(* A displaced store found where it should be.                               *)
LEMMA ObservedSwapped ==
  ASSUME FilesOK, NEW r \in RunIDs
  PROVE  /\ Observe(r) = "swapped" => Swapped(dir, r, runs[r], inode)
         /\ Observe(r) = "rollback_ready" => Ready(dir, r, runs[r], inode)
<1>1. dir.candidate[r] \in InodeNo /\ dir.rollback[r] \in InodeNo
  BY DEF FilesOK, StateOK, Directories
<1>2. ASSUME NEW i \in InodeNo, i # 0, Identity(i) = runs[r].source
      PROVE  i \in Inodes /\ runs[r].source[1] = i /\ runs[r].source[2] = inode[i].ver
  BY <1>2, InodeFacts DEF Identity
<1>3. ASSUME Observe(r) = "swapped" PROVE Swapped(dir, r, runs[r], inode)
  BY <1>1, <1>2, <1>3, ObserveFacts DEF Swapped
<1>4. ASSUME Observe(r) = "rollback_ready" PROVE Ready(dir, r, runs[r], inode)
  BY <1>1, <1>2, <1>4, ObserveFacts DEF Swapped, Ready
<1> QED BY <1>3, <1>4

(* A command that will not record the intent to roll back first.             *)
NoIntent(todo) == todo # <<>> => Head(todo) # "rollback_swap_intent"

(* The calls of a recovery: it goes on from an exchange or a move it has     *)
(* found done.                                                               *)
LEMMA RecoveryCalls ==
  ASSUME FilesOK, NEW r \in RunIDs, r # None
  PROVE  Calls(r, RecoverySteps(r), runs, dir, durable, inode, swept) /\ NoIntent(RecoverySteps(r))
<1> DEFINE phase == runs[r].phase
           placement == Observe(r)
           pair == VerifyPair(r)
           ours == dir.candidate[r] = runs[r].prepared
           ok(todo) == Calls(r, todo, runs, dir, durable, inode, swept) /\ NoIntent(todo)
<1>1. \A todo \in Seq(QuietSteps) : ok(todo)
  BY HeadTailProperties, QuietFacts DEF Calls, NoIntent
<1>2. ok(<<>>) /\ ok(<<"refuse">>) /\ ok(<<"rolled_back">>) /\ ok(<<"copy_complete">>)
  BY <1>1, QuietTuples, QuietRests
<1>3. CASE placement = "swapped"
  <2>1. RecoverySteps(r) =
          CASE phase = "candidate_verified" -> <<"swap_intent", "sync_dir", "swapped">>
            [] phase = "swap_intent" -> <<"sync_dir", "swapped">>
            [] phase \in {"swapped", "rollback_publish_intent"} -> <<>>
            [] OTHER -> <<"refuse">>
    BY <1>3 DEF RecoverySteps
  <2>2. Swapped(dir, r, runs[r], inode)
    BY <1>3, ObservedSwapped
  <2>3. phase = "candidate_verified" => ok(<<"swap_intent", "sync_dir", "swapped">>)
    BY <2>2 DEF Calls, SwapCalls, NoIntent
  <2>4. phase = "swap_intent" => ok(<<"sync_dir", "swapped">>)
    BY <2>2 DEF Calls, SwapCalls, NoIntent
  <2> HIDE DEF phase, ok
  <2>5. ok(RecoverySteps(r))
    BY <1>2, <2>1, <2>3, <2>4
  <2> QED BY <2>5 DEF ok
<1>4. CASE placement = "rollback_ready"
  <2>1. RecoverySteps(r) =
          CASE phase = "swapped" -> <<"rollback_publish_intent", "sync_dir", "rollback_ready">>
            [] phase = "rollback_publish_intent" -> <<"sync_dir", "rollback_ready">>
            [] phase \in {"rollback_ready", "committed"} -> <<>>
            [] phase = "rollback_swap_intent" -> ReturnSteps
            [] OTHER -> <<"refuse">>
    BY <1>4 DEF RecoverySteps, ReturnSteps
  <2>2. Ready(dir, r, runs[r], inode)
    BY <1>4, ObservedSwapped
  <2>3. phase = "swapped" => ok(<<"rollback_publish_intent", "sync_dir", "rollback_ready">>)
    BY <2>2 DEF Calls, PublishCalls, NoIntent
  <2>4. phase = "rollback_publish_intent" => ok(<<"sync_dir", "rollback_ready">>)
    BY <2>2 DEF Calls, PublishCalls, NoIntent
  <2>5. phase = "rollback_swap_intent" => ok(ReturnSteps)
    BY DEF Calls, ReturnCalls, NoIntent, ReturnSteps
  <2> HIDE DEF phase, ok
  <2>6. ok(RecoverySteps(r))
    BY <1>2, <2>1, <2>3, <2>4, <2>5
  <2> QED BY <2>6 DEF ok
<1>5. CASE placement = "rolled_back"
  <2>1. RecoverySteps(r) =
          CASE phase = "rollback_swap_intent" -> <<"sync_dir", "rollback_swapped", "rolled_back">>
            [] phase = "rollback_swapped" -> <<"rolled_back">>
            [] phase = "rolled_back" -> <<>>
            [] OTHER -> <<"refuse">>
    BY <1>5 DEF RecoverySteps
  <2>2. ok(<<"sync_dir", "rollback_swapped", "rolled_back">>)
    BY <1>1, QuietRests
  <2> HIDE DEF phase, ok
  <2>3. ok(RecoverySteps(r))
    BY <1>2, <2>1, <2>2
  <2> QED BY <2>3 DEF ok
<1>6. CASE placement = "source_original"
  <2>1. RecoverySteps(r) \in {<<>>, <<"refuse">>}
    BY <1>6 DEF RecoverySteps
  <2> HIDE DEF phase, ok
  <2>2. ok(RecoverySteps(r))
    BY <1>2, <2>1
  <2> QED BY <2>2 DEF ok
<1>7. CASE placement = "candidate_ready"
  <2>1. RecoverySteps(r) =
          CASE phase = "copy_retry_intent" /\ ours -> <<"recheck", "unlink", "sync_dir">>
            [] phase = "candidate_prepared" /\ ours ->
                 IF pair THEN <<"copy_complete">>
                 ELSE <<"copy_retry_intent">> \o <<"recheck", "unlink", "sync_dir">>
            [] phase \in Unverified \cup {"candidate_verified"} -> <<>>
            [] phase = "swap_intent" -> <<"exchange", "sync_dir", "swapped">>
            [] OTHER -> <<"refuse">>
    BY <1>7 DEF RecoverySteps
  <2>2. /\ ok(<<"recheck", "unlink", "sync_dir">>)
        /\ ok(<<"copy_retry_intent">> \o <<"recheck", "unlink", "sync_dir">>)
    <3>1. /\ <<"recheck", "unlink", "sync_dir">> \in Seq(QuietSteps)
          /\ <<"copy_retry_intent">> \in Seq(QuietSteps)
      BY QuietRests
    <3>2. <<"copy_retry_intent">> \o <<"recheck", "unlink", "sync_dir">> \in Seq(QuietSteps)
      BY <3>1, ConcatProperties
    <3> QED BY <1>1, <3>1, <3>2
  <2>3. phase = "swap_intent" => ok(<<"exchange", "sync_dir", "swapped">>)
    BY DEF Calls, SwapCalls, NoIntent
  <2> HIDE DEF phase, pair, ours, ok
  <2>4. ok(RecoverySteps(r))
    BY <1>2, <2>1, <2>2, <2>3 DEF Unverified
  <2> QED BY <2>4 DEF ok
<1>8. CASE placement \notin
            {"swapped", "rollback_ready", "rolled_back", "source_original", "candidate_ready"}
  <2>1. RecoverySteps(r) = <<"refuse">>
    BY <1>8 DEF RecoverySteps
  <2> QED BY <1>2, <2>1
<1> QED BY <1>3, <1>4, <1>5, <1>6, <1>7, <1>8

(* The calls of a rollback.                                                  *)
LEMMA RollbackCalls ==
  ASSUME NEW r \in RunIDs, r # None
  PROVE  Calls(r, RollbackSteps(r), runs, dir, durable, inode, swept)
<1> DEFINE phase == runs[r].phase
           placement == Observe(r)
           refused == phase \notin RollbackPhases \/ dir.rollback[r] = 0 \/ AtRisk(r) # {}
           ok(todo) == Calls(r, todo, runs, dir, durable, inode, swept)
           back == (IF phase = "rollback_swap_intent" THEN <<>> ELSE <<"rollback_swap_intent">>) \o ReturnSteps
<1>1. \A todo \in Seq(QuietSteps) : ok(todo)
  BY DEF Calls
<1>2. ok(<<"refuse">>) /\ ok(<<"rolled_back">>) /\ ok(<<"rollback_swapped", "rolled_back">>)
  BY <1>1, QuietRests
<1>3. ok(back)
  <2>1. CASE phase = "rollback_swap_intent"
    <3>1. ReturnSteps \in Seq(PlainSteps)
      BY PlainFacts, PlainTuples DEF ReturnSteps
    <3>2. back = ReturnSteps
      BY <2>1, <3>1, ConcatEmptySeq
    <3> QED BY <2>1, <3>2 DEF Calls, ReturnCalls
  <2>2. CASE phase # "rollback_swap_intent"
    <3>1. back = <<"rollback_swap_intent">> \o ReturnSteps
      BY <2>2
    <3> QED BY <3>1 DEF Calls, ReturnCalls
  <2> QED BY <2>1, <2>2
<1>4. CASE refused
  <2>1. RollbackSteps(r) = <<"refuse">>
    BY <1>4 DEF RollbackSteps
  <2> QED BY <1>2, <2>1
<1>5. CASE ~refused
  <2>1. RollbackSteps(r) =
          CASE placement = "rolled_back" /\ phase = "rollback_swap_intent" ->
                 <<"rollback_swapped", "rolled_back">>
            [] placement = "rolled_back" /\ phase = "rollback_swapped" -> <<"rolled_back">>
            [] placement = "rollback_ready" -> back
            [] OTHER -> <<"refuse">>
    BY <1>5 DEF RollbackSteps, ReturnSteps
  <2> HIDE DEF phase, placement, refused, back, ok
  <2>2. ok(RollbackSteps(r))
    BY <1>2, <1>3, <2>1
  <2> QED BY <2>2 DEF ok
<1> QED BY <1>4, <1>5

(* A command begins.                                                         *)
LEMMA BeginCalls ==
  ASSUME NEW p, NEW kind, NEW r \in RunIDs \cup {None}, NEW todo, Begin(p, kind, r, todo),
         Calls(r, todo, runs, dir, durable, inode, swept)
  PROVE  CallsOK' /\ task'.kind = kind /\ kind \in Commands
<1> DEFINE phase == IF r = None THEN "none" ELSE runs[r].phase
<1>1. PICK c : IsTask(c) /\ c.run = r /\ c.kind = kind /\ task' = Continue(c, phase, todo)
  BY BeginTask
<1>2. c.run # None => phase = runs[c.run].phase
  BY <1>1
<1>3. c.run = None => phase = "none"
  BY <1>1
<1>4. Calls(c.run, todo, runs, dir, durable, inode, swept)
  BY <1>1
<1> HIDE DEF phase
<1>5. Calls(task'.run, task'.todo, runs, dir, durable, inode, swept) /\ task'.kind = kind
  BY <1>1, <1>2, <1>3, <1>4, ContinueCalls
<1>6. UNCHANGED <<runs, dir, durable, inode, swept>> /\ kind \in Commands
  BY DEF Begin, historyVars
<1> QED BY <1>5, <1>6 DEF CallsOK

-----------------------------------------------------------------------------
(* Steps that leave the journals as they are.                                *)
LEMMA KeptStep ==
  ASSUME KeptOK, UNCHANGED runs, Unique(dir'), Unique(durable'), OriginalsHeld', OpsKnown',
         \A i \in Inodes : inode[i].made = TRUE => inode'[i].made = TRUE,
         \A r \in RunIDs : \A i \in Inodes :
           i = dir'.rollback[r] \/ i = durable'.rollback[r] => inode[i].made = TRUE,
         \A r \in RunIDs : runs[r].phase \in PreSwap =>
           dir'.rollback[r] = 0 /\ durable'.rollback[r] = 0
  PROVE  KeptOK'
<1>1. RollbacksMade'
  BY DEF RollbacksMade
<1>2. NoRollbackYet'
  BY DEF NoRollbackYet, PreSwap, Building, PrePublication, Unverified
<1>3. CandidatesTold'
  BY DEF KeptOK, CandidatesTold
<1>4. Unique(dir)' /\ Unique(durable)'
  OBVIOUS
<1> QED BY <1>1, <1>2, <1>3, <1>4 DEF KeptOK

(* Those after which a directory names no rollback it did not.               *)
LEMMA KeptFollows ==
  ASSUME KeptOK, Untouched, UNCHANGED runs, swept \subseteq swept',
         Unique(dir'), Unique(durable'), OpsKnown',
         \A i \in Inodes : inode[i].made = TRUE => inode'[i].made = TRUE,
         \A r \in RunIDs : /\ dir'.rollback[r] \in {0, dir.rollback[r], durable.rollback[r]}
                           /\ durable'.rollback[r] \in {0, dir.rollback[r], durable.rollback[r]},
         \A r \in RunIDs : r \notin swept' /\ runs[r].phase \in Displaced =>
           /\ LooksLike(dir', dir, r) \/ LooksLike(dir', durable, r)
           /\ LooksLike(durable', dir, r) \/ LooksLike(durable', durable, r)
  PROVE  KeptOK'
<1>1. OriginalsHeld'
  BY HeldStep
<1>2. \A r \in RunIDs : \A i \in Inodes :
        i = dir'.rollback[r] \/ i = durable'.rollback[r] => inode[i].made = TRUE
  BY InodeFacts DEF KeptOK, RollbacksMade
<1>3. \A r \in RunIDs : runs[r].phase \in PreSwap => dir'.rollback[r] = 0 /\ durable'.rollback[r] = 0
  BY DEF KeptOK, NoRollbackYet
<1> QED BY <1>1, <1>2, <1>3, KeptStep

(* Those that leave the directories alone too.                               *)
LEMMA KeptSame ==
  ASSUME KeptOK, Untouched, UNCHANGED <<dir, durable, runs, swept>>, OpsKnown',
         \A i \in Inodes : inode[i].made = TRUE => inode'[i].made = TRUE
  PROVE  KeptOK'
<1>1. Unique(dir') /\ Unique(durable')
  BY DEF KeptOK
<1>2. \A r : LooksLike(dir', dir, r) /\ LooksLike(durable', durable, r)
  BY DEF LooksLike
<1> QED BY <1>1, <1>2, KeptFollows

(* Which commands there are, after a step that is no plan.                   *)
LEMMA OpsStep ==
  ASSUME OpsKnown, UNCHANGED <<runs, sweep>>, NoUpgrade => task'.kind # "upgrade"
  PROVE  OpsKnown'
BY DEF OpsKnown, NoUpgrade

(* Of what the next call of a command relies on.                             *)
LEMMA HeadCall ==
  ASSUME CallsOK, NEW p, NEW step, At(p, step)
  PROVE  CallSays(step, Tail(task.todo), task.run, runs[task.run], dir, durable, inode, swept)
<1>1. Head(task.todo) = step /\ task.todo # <<>>
  BY DEF At
<1> QED BY <1>1, CallsHead DEF CallsOK

(* A rest that relies on nothing.                                            *)
LEMMA QuietPop ==
  ASSUME FilesOK, WorkOK, IsTask(task), NEW p, NEW step, At(p, step), step \notin {"plan", "refuse"},
         Tail(task.todo) \in Seq(QuietSteps), Pop(runs'[task.run].phase)
  PROVE  CallsOK' /\ task'.kind = task.kind
<1>1. task.run # None
  BY AtRun
<1>2. Calls(task.run, Tail(task.todo), runs', dir', durable', inode', swept')
  BY DEF Calls
<1> QED BY <1>1, <1>2, PopCalls

(* A command that ends, and one that compacts in place.                      *)
LEMMA EndsKeepOriginal ==
  ASSUME FilesOK, KeptInv, IsTask(task), NEW p, Refuse(p) \/ PlanRefused(p) \/ CompactInPlace(p)
  PROVE  KeptInv'
<1>1. inode' = inode \/ inode' = [inode EXCEPT ![dir.source].ver = @ + 1]
  BY DEF Refuse, PlanRefused, CompactInPlace
<1>2. UNCHANGED <<dir, durable, runs, sweep, swept>>
  BY DEF Refuse, PlanRefused, CompactInPlace, historyVars
<1>3. End("failed") \/ End("done")
  BY DEF Refuse, PlanRefused, CompactInPlace
<1>4. CallsOK' /\ task'.kind = task.kind
  BY <1>3, EndCalls
<1>5. OpsKnown'
  BY <1>2, <1>4, OpsStep DEF KeptInv, KeptOK, OpsKnown
<1>6. dir.source \in Inodes /\ inode \in [Inodes -> Files]
  BY SourceKept DEF FilesOK, StateOK
<1>7. Untouched /\ \A i \in Inodes : inode[i].made = TRUE => inode'[i].made = TRUE
  <2>1. CASE inode' = inode
    BY <2>1 DEF Untouched
  <2>2. CASE inode' = [inode EXCEPT ![dir.source].ver = @ + 1]
    BY <1>6, <2>2 DEF Untouched, Files
  <2> QED BY <1>1, <2>1, <2>2
<1> QED BY <1>2, <1>4, <1>5, <1>7, KeptSame DEF KeptInv

(* A build that is cancelled.                                                *)
LEMMA CancelKeepsOriginal ==
  ASSUME FilesOK, WorkOK, KeptInv, IsTask(task), NEW p, CancelBuild(p)
  PROVE  KeptInv'
<1>1. UNCHANGED <<dir, durable, inode, runs, sweep, swept>>
  BY DEF CancelBuild, historyVars
<1>2. PICK step \in {"copy", "vacuum"} : At(p, step)
  BY DEF CancelBuild
<1>3. task.run # None
  BY <1>2, AtRun
<1>4. runs[task.run].phase \in PrePublication
  BY <1>2, HeadCall DEF KeptInv, CallSays
<1>5. task'.run = task.run /\ task'.todo = <<"abandon", "abandoned">> /\ task'.kind = "doctor"
  BY DEF CancelBuild, IsTask
<1>6. Calls(task'.run, task'.todo, runs', dir', durable', inode', swept')
  BY <1>1, <1>3, <1>4, <1>5 DEF Calls, CandidateCalls
<1>7. OpsKnown'
  BY <1>1, <1>5, OpsStep DEF KeptInv, KeptOK
<1>8. KeptOK'
  BY <1>1, <1>7, KeptSame DEF KeptInv, Untouched
<1> QED BY <1>6, <1>8 DEF KeptInv, CallsOK

(* Checks, the sync of the candidate's bytes and the end of the copy.        *)
LEMMA WorkKeepsOriginal ==
  ASSUME FilesOK, WorkOK, KeptInv, IsTask(task), NEW p,
         NEW step \in {"recheck", "verify", "sync_file", "vacuum", "copy"}, At(p, step),
         UNCHANGED <<dir, durable, runs, sweep, swept>>, Pop(runs[task.run].phase), Untouched,
         \A i \in Inodes : inode[i].made = TRUE => inode'[i].made = TRUE
  PROVE  KeptInv'
<1>1. task.run # None
  BY AtRun
<1>2. /\ step = "copy" => runs[task.run].phase \in PrePublication
      /\ \/ Tail(task.todo) \in Seq(QuietSteps)
         \/ step = "copy" /\ Tail(task.todo) = <<"vacuum", "copy_complete">>
  <2> DEFINE rest == Tail(task.todo)
  <2>1. CallSays(step, rest, task.run, runs[task.run], dir, durable, inode, swept)
    BY HeadCall DEF KeptInv
  <2> HIDE DEF rest
  <2>2. /\ step = "copy" => runs[task.run].phase \in PrePublication
        /\ rest \in Seq(QuietSteps) \/ (step = "copy" /\ rest = <<"vacuum", "copy_complete">>)
    BY <2>1 DEF CallSays
  <2> QED BY <2>2 DEF rest
<1>3. Calls(task.run, Tail(task.todo), runs', dir', durable', inode', swept')
  <2>1. CASE Tail(task.todo) \in Seq(QuietSteps)
    BY <2>1 DEF Calls
  <2>2. CASE step = "copy" /\ Tail(task.todo) = <<"vacuum", "copy_complete">>
    <3>1. Tail(task.todo) \in CandidateCalls
      BY <2>2 DEF CandidateCalls
    <3> QED BY <1>1, <1>2, <2>2, <3>1 DEF Calls
  <2> QED BY <1>2, <2>1, <2>2
<1>4. Pop(runs'[task.run].phase)
  OBVIOUS
<1>5. CallsOK' /\ task'.kind = task.kind
  BY <1>1, <1>3, <1>4, PopCalls
<1>6. OpsKnown'
  BY <1>5, OpsStep DEF KeptInv, KeptOK, OpsKnown
<1> QED BY <1>5, <1>6, KeptSame DEF KeptInv

(* The calls on the candidate are such steps: it is no displaced store.      *)
LEMMA CandidateKeepsOriginal ==
  ASSUME FilesOK, WorkOK, KeptInv, IsTask(task), NEW p,
         \/ \E step \in {"recheck", "verify"} : Inspect(p, step)
         \/ SyncCandidate(p)
         \/ \E step \in {"copy", "vacuum"} : Build(p, step)
  PROVE  KeptInv'
<1>1. inode \in [Inodes -> Files]
  BY DEF FilesOK, StateOK
<1>2. ASSUME NEW step \in {"recheck", "verify"}, Inspect(p, step) PROVE KeptInv'
  <2>1. /\ UNCHANGED <<dir, durable, inode, runs, sweep, swept>>
        /\ At(p, step) /\ Pop(runs[task.run].phase)
    BY <1>2 DEF Inspect, historyVars
  <2>2. Untouched
    BY <2>1 DEF Untouched
  <2> QED BY <2>1, <2>2, WorkKeepsOriginal
<1> DEFINE c == dir.candidate[task.run]
<1>3. ASSUME NEW step \in {"copy", "vacuum", "sync_file"}, At(p, step), Permits(step, task.run)
      PROVE  c \in Inodes /\ Named(task.run, c) /\ task.run \in RunIDs
  <2>1. task.run \in RunIDs
    BY <1>3, AtRun
  <2>2. c \in InodeNo /\ c # 0
    BY <1>3, <2>1, PermitFacts DEF FilesOK, StateOK, Directories
  <2> QED BY <2>1, <2>2, InodeFacts DEF Named
<1>4. CASE SyncCandidate(p)
  <2>1. /\ UNCHANGED <<dir, durable, runs, sweep, swept>>
        /\ At(p, "sync_file") /\ Pop(runs[task.run].phase) /\ Permits("sync_file", task.run)
        /\ inode' = [inode EXCEPT ![c].safe = TRUE]
    BY <1>4 DEF SyncCandidate, historyVars
  <2>2. c \in Inodes
    BY <1>3, <2>1
  <2> HIDE DEF c
  <2>3. Untouched /\ \A i \in Inodes : inode[i].made = TRUE => inode'[i].made = TRUE
    BY <1>1, <2>1, <2>2 DEF Untouched, Files
  <2> QED BY <2>1, <2>3, WorkKeepsOriginal
<1>5. CASE Build(p, "vacuum")
  <2>1. /\ UNCHANGED <<dir, durable, runs, sweep, swept>>
        /\ At(p, "vacuum") /\ Pop(runs[task.run].phase) /\ Permits("vacuum", task.run)
        /\ inode' = [inode EXCEPT ![c].whole = TRUE, ![c].recs = inode[dir.source].recs]
    BY <1>5 DEF Build, historyVars
  <2>2. c \in Inodes
    BY <1>3, <2>1
  <2> HIDE DEF c
  <2>3. Untouched /\ \A i \in Inodes : inode[i].made = TRUE => inode'[i].made = TRUE
    BY <1>1, <2>1, <2>2 DEF Untouched, Files
  <2> QED BY <2>1, <2>3, WorkKeepsOriginal
<1>6. CASE Build(p, "copy")
  <2>1. /\ UNCHANGED <<dir, durable, runs, sweep, swept>>
        /\ At(p, "copy") /\ Pop(runs[task.run].phase) /\ Permits("copy", task.run)
        /\ inode' = [inode EXCEPT ![c].ver = 1, ![c].safe = FALSE]
    BY <1>6 DEF Build, historyVars
  <2>2. c \in Inodes /\ Named(task.run, c) /\ task.run \in RunIDs
    BY <1>3, <2>1
  <2>3. runs[task.run].phase \in PrePublication
    BY <2>1, HeadCall DEF KeptInv, CallSays
  <2>4. ~IsKept(c)
    BY <2>2, <2>3 DEF FilesOK, CandidatesApart, Building
  <2> HIDE DEF c
  <2>5. Untouched /\ \A i \in Inodes : inode[i].made = TRUE => inode'[i].made = TRUE
    BY <1>1, <2>1, <2>2, <2>4 DEF Untouched, Files
  <2> QED BY <2>1, <2>5, WorkKeepsOriginal
<1> QED BY <1>2, <1>4, <1>5, <1>6

(* The sync of the directory: the rest relies on what is now on disk.        *)
LEMMA SyncDirKeepsOriginal ==
  ASSUME FilesOK, WorkOK, KeptInv, IsTask(task), NEW p, SyncDir(p)
  PROVE  KeptInv'
<1> DEFINE r == task.run
           run == runs[r]
           rest == Tail(task.todo)
<1>1. /\ UNCHANGED <<dir, inode, runs, sweep, swept>> /\ durable' = dir
      /\ At(p, "sync_dir") /\ Pop(runs[task.run].phase)
  BY DEF SyncDir, historyVars
<1>2. r # None
  BY <1>1, AtRun
<1>3. CallSays("sync_dir", rest, r, run, dir, durable, inode, swept)
  BY <1>1, HeadCall DEF KeptInv
<1>4. Calls(r, rest, runs, dir, dir, inode, swept)
  <2> HIDE DEF r, run, rest
  <2>1. \/ rest \in Seq(QuietSteps)
        \/ /\ run.phase = "swap_intent" /\ rest = <<"swapped">>
           /\ r \in swept \/ Swapped(dir, r, run, inode)
        \/ /\ run.phase = "rollback_publish_intent" /\ rest = <<"rollback_ready">>
           /\ r \in swept \/ Ready(dir, r, run, inode)
    BY <1>3 DEF CallSays
  <2>2. \/ rest \in Seq(QuietSteps) \/ SwapCalls(r, rest, run, dir, dir, inode, swept)
        \/ PublishCalls(r, rest, run, dir, dir, inode, swept)
    BY <2>1 DEF SwapCalls, PublishCalls
  <2> QED BY <1>2, <2>2 DEF Calls, run
<1>5. Calls(r, rest, runs', dir', durable', inode', swept')
  BY <1>1, <1>4
<1>6. Pop(runs'[task.run].phase)
  BY <1>1
<1>7. CallsOK' /\ task'.kind = task.kind
  BY <1>2, <1>5, <1>6, PopCalls
<1>8. OpsKnown'
  BY <1>1, <1>7, OpsStep DEF KeptInv, KeptOK, OpsKnown
<1>9. Untouched /\ Unique(dir') /\ Unique(durable')
  BY <1>1 DEF Untouched, KeptInv, KeptOK
<1>10. \A q : LooksLike(dir', dir, q) /\ LooksLike(durable', dir, q)
  BY <1>1 DEF LooksLike
<1>11. KeptOK'
  BY <1>1, <1>8, <1>9, <1>10, KeptFollows DEF KeptInv
<1> QED BY <1>7, <1>11 DEF KeptInv

(* A change of the directory leaves the rest of the state alone.             *)
LEMMA RelinkKeeps ==
  ASSUME FilesOK, WorkOK, KeptInv, IsTask(task), NEW p, NEW entries,
         NEW step \in {"exchange", "publish", "unlink", "abandon", "create"}, Relink(p, step, entries)
  PROVE  /\ dir' = entries /\ UNCHANGED <<durable, runs, sweep, swept>> /\ Unique(durable')
         /\ Permits(step, task.run) /\ Pop(runs'[task.run].phase)
         /\ task.run \in RunIDs /\ task.run # None
         /\ task'.kind = task.kind /\ OpsKnown'
         /\ CallSays(step, Tail(task.todo), task.run, runs[task.run], dir, durable, inode, swept)
<1>1. /\ dir' = entries /\ UNCHANGED <<durable, runs, sweep, swept>>
      /\ Permits(step, task.run) /\ Pop(runs[task.run].phase) /\ At(p, step)
  BY DEF Relink, historyVars
<1>2. task.run \in RunIDs /\ task.run # None
  BY <1>1, AtRun
<1>3. CallSays(step, Tail(task.todo), task.run, runs[task.run], dir, durable, inode, swept)
  BY <1>1, HeadCall DEF KeptInv
<1>4. task'.kind = task.kind
  BY <1>1 DEF Pop, Continue, IsTask
<1>5. OpsKnown'
  BY <1>1, <1>4, OpsStep DEF KeptInv, KeptOK, OpsKnown
<1>6. Unique(durable') /\ Pop(runs'[task.run].phase)
  BY <1>1 DEF KeptInv, KeptOK
<1> QED BY <1>1, <1>2, <1>3, <1>4, <1>5, <1>6

(* The exchange displaces the store, as it was planned, under the name of    *)
(* the candidate. No other run has displaced a store by then, unless an      *)
(* upgrade has come between.                                                 *)
LEMMA SwapKeepsOriginal ==
  ASSUME FilesOK, WorkOK, KeptInv, IsTask(task), NEW p, Exchange(p),
         runs[task.run].phase # "rollback_swap_intent"
  PROVE  KeptInv'
<1> DEFINE r == task.run
           entries == [dir EXCEPT !.source = dir.candidate[r], !.candidate[r] = dir.source]
<1>1. Relink(p, "exchange", entries) /\ UNCHANGED inode
  BY DEF Exchange
<1>2. /\ dir' = entries /\ UNCHANGED <<durable, runs, sweep, swept>> /\ Unique(durable')
      /\ Permits("exchange", r) /\ Pop(runs'[r].phase) /\ r \in RunIDs /\ r # None /\ OpsKnown'
  <2> HIDE DEF entries
  <2> QED BY <1>1, RelinkKeeps
<1>3. CallSays("exchange", Tail(task.todo), r, runs[r], dir, durable, inode, swept)
  <2> HIDE DEF entries
  <2> QED BY <1>1, RelinkKeeps
<1>4. runs[r].phase = "swap_intent" /\ Tail(task.todo) = <<"sync_dir", "swapped">>
  BY <1>3 DEF CallSays
<1>5. /\ Identity(dir.source) = runs[r].source /\ dir.candidate[r] # 0
      /\ Identity(dir.candidate[r]) = runs[r].candidate
  BY <1>2, PermitFacts DEF ExchangeFence
<1>6. /\ runs[r].source[1] = dir.source /\ inode[dir.source].ver = runs[r].source[2]
      /\ runs[r].candidate[1] = dir.candidate[r]
  BY <1>5 DEF Identity
<1>7. /\ dir \in Directories /\ dir.source \in Inodes /\ dir.candidate[r] \in Inodes
      /\ dir.candidate \in [RunIDs -> InodeNo]
  BY <1>2, <1>5, InodeFacts DEF FilesOK, StateOK, Directories
<1>8. dir.rollback[r] = 0
  BY <1>2, <1>4 DEF KeptInv, KeptOK, NoRollbackYet, PreSwap
<1> HIDE DEF r
<1>9. /\ dir' \in Directories /\ dir'.source = dir.candidate[r] /\ dir'.rollback = dir.rollback
      /\ dir'.candidate = [dir.candidate EXCEPT ![r] = dir.source]
  BY <1>2, <1>7, InodeFacts DEF Directories
<1> HIDE DEF entries
<1>10. dir'.candidate[r] = dir.source /\ \A q \in RunIDs \ {r} : dir'.candidate[q] = dir.candidate[q]
  BY <1>2, <1>7, <1>9
<1>11. Unique(dir')
  BY <1>2, <1>5, <1>7, <1>9, UniqueSwapped DEF KeptInv, KeptOK
<1>12. Swapped(dir', r, runs[r], inode')
  BY <1>1, <1>6, <1>7, <1>8, <1>9, <1>10 DEF Swapped
<1>13. Calls(r, Tail(task.todo), runs', dir', durable', inode', swept')
  BY <1>2, <1>4, <1>12 DEF Calls, SwapCalls
<1>14. CallsOK'
  BY <1>2, <1>13, PopCalls DEF r
<1>15. ASSUME NEW q \in RunIDs, q \notin swept, runs[q].phase \in Displaced
       PROVE  LooksLike(dir', dir, q)
  <2>1. q # r
    BY <1>4, <1>15 DEF Displaced
  <2>2. ~NoUpgrade
    <3> SUFFICES ASSUME NoUpgrade PROVE FALSE
      OBVIOUS
    <3>1. runs[q].op \in {"compaction", "upgrade", "none"} /\ runs[r].op \in {"compaction", "upgrade", "none"}
      BY <1>2, <1>15 DEF FilesOK, StateOK, Journals
    <3>2. runs[q].phase # "none" /\ runs[r].phase # "none"
      BY <1>4, <1>15 DEF Displaced
    <3>3. runs[q].op = "compaction" /\ runs[r].op = "compaction"
      BY <1>2, <1>15, <3>1, <3>2 DEF KeptInv, KeptOK, OpsKnown
    <3>4. IsForward(runs[q]) /\ IsForward(runs[r])
      BY <1>4, <1>15, <3>3 DEF IsForward, Displaced, Terminal
    <3> QED BY <1>2, <1>15, <2>1, <3>4 DEF FilesOK, OneForward
  <2> QED BY <1>9, <1>10, <2>1, <2>2 DEF LooksLike
<1>16. \A q \in RunIDs : LooksLike(durable', durable, q)
  BY <1>2 DEF LooksLike
<1>17. KeptOK'
  BY <1>1, <1>2, <1>9, <1>11, <1>15, <1>16, KeptFollows DEF KeptInv, Untouched
<1> QED BY <1>14, <1>17 DEF KeptInv

(* A rollback exchanges the store of its own run, which no other run's is.   *)
LEMMA ReturnKeepsOriginal ==
  ASSUME FilesOK, WorkOK, KeptInv, IsTask(task), NEW p, Exchange(p),
         runs[task.run].phase = "rollback_swap_intent"
  PROVE  KeptInv'
<1> DEFINE r == task.run
           entries == [dir EXCEPT !.source = dir.rollback[r], !.rollback[r] = dir.source]
<1>1. Relink(p, "exchange", entries) /\ UNCHANGED inode
  BY DEF Exchange
<1>2. /\ dir' = entries /\ UNCHANGED <<durable, runs, sweep, swept>> /\ Unique(durable')
      /\ Permits("exchange", r) /\ Pop(runs'[r].phase) /\ r \in RunIDs /\ r # None /\ OpsKnown'
  <2> HIDE DEF entries
  <2> QED BY <1>1, RelinkKeeps
<1>3. CallSays("exchange", Tail(task.todo), r, runs[r], dir, durable, inode, swept)
  <2> HIDE DEF entries
  <2> QED BY <1>1, RelinkKeeps
<1>4. Tail(task.todo) \in Seq(QuietSteps)
  BY <1>3 DEF CallSays
<1>5. dir.source = runs[r].candidate[1] /\ dir.rollback[r] # 0
  BY <1>2, PermitFacts DEF ExchangeFence, samePublishedFile
<1>6. /\ dir \in Directories /\ dir.source \in Inodes /\ dir.source # 0 /\ dir.rollback[r] \in Inodes
      /\ dir.rollback \in [RunIDs -> InodeNo]
  BY <1>2, <1>5, InodeFacts DEF FilesOK, StateOK, Directories
<1>7. inode[dir.source].made = TRUE
  BY <1>6, SourceKept DEF FilesOK, KeptComplete, Complete
<1> HIDE DEF r
<1>8. /\ dir' \in Directories /\ dir'.source = dir.rollback[r] /\ dir'.candidate = dir.candidate
      /\ dir'.rollback = [dir.rollback EXCEPT ![r] = dir.source]
  BY <1>2, <1>6, InodeFacts DEF Directories
<1> HIDE DEF entries
<1>9. dir'.rollback[r] = dir.source /\ \A q \in RunIDs \ {r} : dir'.rollback[q] = dir.rollback[q]
  BY <1>2, <1>6, <1>8
<1>10. Unique(dir')
  BY <1>2, <1>5, <1>6, <1>8, UniqueReturned DEF KeptInv, KeptOK
<1>11. Calls(r, Tail(task.todo), runs', dir', durable', inode', swept')
  BY <1>4 DEF Calls
<1>12. CallsOK'
  BY <1>2, <1>11, PopCalls DEF r
<1>13. ASSUME NEW q \in RunIDs, q \notin swept, runs[q].phase \in Displaced
       PROVE  LooksLike(dir', dir, q)
  <2>1. q # r
    BY <1>13 DEF Displaced, r
  <2>2. Swapped(dir, q, runs[q], inode)
    BY <1>13 DEF KeptInv, KeptOK, OriginalsHeld, Held
  <2>3. NoUpgrade => dir.source = runs[q].candidate[1]
    BY <2>2 DEF Swapped
  <2>4. ~NoUpgrade
    BY <1>2, <1>5, <1>6, <1>13, <2>1, <2>3 DEF KeptInv, KeptOK, CandidatesTold
  <2> QED BY <1>8, <1>9, <2>1, <2>4 DEF LooksLike
<1>14. \A q \in RunIDs : LooksLike(durable', durable, q)
  BY <1>2 DEF LooksLike
<1>15. OriginalsHeld'
  BY <1>1, <1>2, <1>13, <1>14, HeldStep DEF KeptInv, Untouched
<1>16. \A q \in RunIDs : \A i \in Inodes :
         i = dir'.rollback[q] \/ i = durable'.rollback[q] => inode[i].made = TRUE
  BY <1>2, <1>7, <1>9 DEF KeptInv, KeptOK, RollbacksMade
<1>17. \A q \in RunIDs : runs[q].phase \in PreSwap => dir'.rollback[q] = 0 /\ durable'.rollback[q] = 0
  <2>1. runs[r].phase \notin PreSwap
    BY DEF r, PreSwap, Building, PrePublication, Unverified
  <2> QED BY <1>2, <1>9, <2>1 DEF KeptInv, KeptOK, NoRollbackYet
<1>18. KeptOK'
  BY <1>1, <1>2, <1>10, <1>15, <1>16, <1>17, KeptStep DEF KeptInv
<1> QED BY <1>12, <1>18 DEF KeptInv

(* The move of the displaced store keeps it, under its other name.           *)
LEMMA PublishKeepsOriginal ==
  ASSUME FilesOK, WorkOK, KeptInv, IsTask(task), NEW p, PublishRollback(p)
  PROVE  KeptInv'
<1> DEFINE r == task.run
           entries == [dir EXCEPT !.rollback[r] = dir.candidate[r], !.candidate[r] = 0]
<1>1. Relink(p, "publish", entries) /\ UNCHANGED inode
  BY DEF PublishRollback
<1>2. /\ dir' = entries /\ UNCHANGED <<durable, runs, sweep, swept>> /\ Unique(durable')
      /\ Permits("publish", r) /\ Pop(runs'[r].phase) /\ r \in RunIDs /\ r # None /\ OpsKnown'
  <2> HIDE DEF entries
  <2> QED BY <1>1, RelinkKeeps
<1>3. CallSays("publish", Tail(task.todo), r, runs[r], dir, durable, inode, swept)
  <2> HIDE DEF entries
  <2> QED BY <1>1, RelinkKeeps
<1>4. runs[r].phase = "rollback_publish_intent" /\ Tail(task.todo) = <<"sync_dir", "rollback_ready">>
  BY <1>3 DEF CallSays
<1>5. dir.rollback[r] = 0 /\ dir.candidate[r] # 0
  BY <1>2, PhaseFacts DEF Permits
<1>6. /\ dir \in Directories /\ dir.candidate[r] \in Inodes
      /\ dir.candidate \in [RunIDs -> InodeNo] /\ dir.rollback \in [RunIDs -> InodeNo]
  BY <1>2, <1>5, InodeFacts DEF FilesOK, StateOK, Directories
<1>7. inode[dir.candidate[r]].made = TRUE
  BY <1>2, <1>6 DEF FilesOK, CandidatesMade, Named
<1> HIDE DEF r
<1>8. /\ dir' \in Directories /\ dir'.source = dir.source
      /\ dir'.candidate = [dir.candidate EXCEPT ![r] = 0]
      /\ dir'.rollback = [dir.rollback EXCEPT ![r] = dir.candidate[r]]
  BY <1>2, <1>6, InodeFacts DEF Directories
<1> HIDE DEF entries
<1>9. /\ dir'.candidate[r] = 0 /\ dir'.rollback[r] = dir.candidate[r]
      /\ \A q \in RunIDs \ {r} :
           dir'.candidate[q] = dir.candidate[q] /\ dir'.rollback[q] = dir.rollback[q]
  BY <1>2, <1>6, <1>8
<1>10. Unique(dir')
  BY <1>2, <1>5, <1>6, <1>8, UniquePublished DEF KeptInv, KeptOK
<1>11. Untouched
  BY <1>1 DEF Untouched
<1>12. ASSUME r \notin swept
       PROVE  Ready(dir', r, runs[r], inode') /\ Swapped(durable', r, runs[r], inode')
  <2>1. Swapped(dir, r, runs[r], inode) /\ Swapped(durable, r, runs[r], inode)
    BY <1>2, <1>4, <1>12 DEF KeptInv, KeptOK, OriginalsHeld, Held, Displaced
  <2>2. dir.candidate[r] = runs[r].source[1]
    BY <1>5, <2>1 DEF Swapped
  <2> QED BY <1>1, <1>2, <1>8, <1>9, <2>1, <2>2 DEF Swapped, Ready
<1>13. OriginalsHeld'
  <2> SUFFICES ASSUME NEW q \in RunIDs, q \notin swept
               PROVE  Held(q, runs[q], dir', durable', inode')
    BY <1>2 DEF OriginalsHeld
  <2>1. CASE q = r
    BY <1>4, <1>12, <2>1 DEF Held, Ready
  <2>2. CASE q # r
    <3>1. LooksLike(dir', dir, q) /\ LooksLike(durable', durable, q)
      BY <1>2, <1>8, <1>9, <2>2 DEF LooksLike
    <3> QED BY <1>11, <3>1, HeldPoint DEF KeptInv
  <2> QED BY <2>1, <2>2
<1>14. Calls(r, Tail(task.todo), runs', dir', durable', inode', swept')
  BY <1>2, <1>4, <1>12 DEF Calls, PublishCalls
<1>15. CallsOK'
  BY <1>2, <1>14, PopCalls DEF r
<1>16. \A q \in RunIDs : \A i \in Inodes :
         i = dir'.rollback[q] \/ i = durable'.rollback[q] => inode[i].made = TRUE
  BY <1>2, <1>7, <1>9 DEF KeptInv, KeptOK, RollbacksMade
<1>17. \A q \in RunIDs : runs[q].phase \in PreSwap => dir'.rollback[q] = 0 /\ durable'.rollback[q] = 0
  <2>1. runs[r].phase \notin PreSwap
    BY <1>4 DEF PreSwap, Building, PrePublication, Unverified
  <2> QED BY <1>2, <1>9, <2>1 DEF KeptInv, KeptOK, NoRollbackYet
<1>18. KeptOK'
  BY <1>1, <1>2, <1>10, <1>13, <1>16, <1>17, KeptStep DEF KeptInv
<1> QED BY <1>15, <1>18 DEF KeptInv

(* A candidate that is removed is no displaced store: an abandonment is of a *)
(* run that has not verified its candidate, and a recovery that removes a    *)
(* partial one has found the original in place.                              *)
LEMMA RemoveKeepsOriginal ==
  ASSUME FilesOK, WorkOK, KeptInv, IsTask(task), NEW p, NEW step \in {"unlink", "abandon"},
         RemoveCandidate(p, step)
  PROVE  KeptInv'
<1> DEFINE r == task.run
           entries == [dir EXCEPT !.candidate[r] = 0]
           rest == Tail(task.todo)
<1>1. Relink(p, step, entries) /\ UNCHANGED inode
  BY DEF RemoveCandidate
<1>2. /\ dir' = entries /\ UNCHANGED <<durable, runs, sweep, swept>> /\ Unique(durable')
      /\ Permits(step, r) /\ Pop(runs'[r].phase) /\ r \in RunIDs /\ r # None /\ OpsKnown'
  <2> HIDE DEF entries
  <2> QED BY <1>1, RelinkKeeps
<1>3. CallSays(step, rest, r, runs[r], dir, durable, inode, swept)
  <2> HIDE DEF entries
  <2> QED BY <1>1, RelinkKeeps
<1>4. rest \in Seq(QuietSteps) /\ (step = "abandon" => runs[r].phase \in PrePublication)
  <2> HIDE DEF rest, r
  <2> QED BY <1>3 DEF CallSays
<1>5. step = "unlink" => runs[r].source[1] = dir.source
  BY <1>2, PhaseFacts DEF Permits, Identity
<1>6. dir \in Directories /\ dir.candidate \in [RunIDs -> InodeNo]
  BY DEF FilesOK, StateOK, Directories
<1>7. r \in swept \/ runs[r].phase \notin Displaced
  <2>1. CASE step = "abandon"
    BY <1>4, <2>1 DEF PrePublication, Displaced
  <2>2. CASE step = "unlink"
    <3> SUFFICES ASSUME r \notin swept, runs[r].phase \in Displaced PROVE FALSE
      OBVIOUS
    <3>1. Swapped(dir, r, runs[r], inode)
      BY <1>2 DEF KeptInv, KeptOK, OriginalsHeld, Held
    <3> QED BY <1>2, <1>5, <2>2, <3>1 DEF Swapped, KeptInv, KeptOK, Unique
  <2> QED BY <2>1, <2>2
<1> HIDE DEF r, rest
<1>8. /\ dir' \in Directories /\ dir'.source = dir.source /\ dir'.rollback = dir.rollback
      /\ dir'.candidate = [dir.candidate EXCEPT ![r] = 0]
  BY <1>2, <1>6, InodeFacts DEF Directories
<1> HIDE DEF entries
<1>9. \A q \in RunIDs : /\ dir'.candidate[q] \in {0, dir.candidate[q]}
                        /\ q # r => dir'.candidate[q] = dir.candidate[q]
  BY <1>2, <1>6, <1>8
<1>10. Unique(dir')
  BY <1>6, <1>8, <1>9, UniqueRemoved DEF KeptInv, KeptOK
<1>11. \A q \in RunIDs : q \notin swept /\ runs[q].phase \in Displaced => LooksLike(dir', dir, q)
  BY <1>7, <1>8, <1>9 DEF LooksLike
<1>12. \A q \in RunIDs : LooksLike(durable', durable, q)
  BY <1>2 DEF LooksLike
<1>13. KeptOK'
  BY <1>1, <1>2, <1>8, <1>10, <1>11, <1>12, KeptFollows DEF KeptInv, Untouched
<1>14. Calls(r, rest, runs', dir', durable', inode', swept')
  BY <1>4 DEF Calls
<1>15. CallsOK'
  BY <1>2, <1>14, PopCalls DEF r, rest
<1> QED BY <1>13, <1>15 DEF KeptInv

(* A new candidate has no other name, and its run has displaced nothing.     *)
LEMMA CreateKeepsOriginal ==
  ASSUME FilesOK, WorkOK, KeptInv, IsTask(task), NEW p, PrepareCandidate(p)
  PROVE  KeptInv'
<1> DEFINE r == task.run
           n == FreshInode
           entries == [dir EXCEPT !.candidate[r] = n]
           rest == Tail(task.todo)
<1>1. Relink(p, "create", entries) /\ inode' = [inode EXCEPT ![n].made = TRUE]
  BY DEF PrepareCandidate
<1>2. /\ dir' = entries /\ UNCHANGED <<durable, runs, sweep, swept>> /\ Unique(durable')
      /\ Permits("create", r) /\ Pop(runs'[r].phase) /\ r \in RunIDs /\ r # None /\ OpsKnown'
  <2> HIDE DEF entries
  <2> QED BY <1>1, RelinkKeeps
<1>3. CallSays("create", rest, r, runs[r], dir, durable, inode, swept)
  <2> HIDE DEF entries
  <2> QED BY <1>1, RelinkKeeps
<1>4. rest \in Seq(QuietSteps) /\ runs[r].phase \in PrePublication
  <2> HIDE DEF rest, r
  <2> QED BY <1>3 DEF CallSays
<1>5. /\ dir \in Directories /\ dir.candidate \in [RunIDs -> InodeNo] /\ dir.rollback \in [RunIDs -> InodeNo]
      /\ inode \in [Inodes -> Files]
  BY DEF FilesOK, StateOK, Directories
<1>6. n \in Inodes /\ inode[n].made = FALSE
  <2>1. InodeLeft
    BY <1>2, PermitFacts
  <2>2. n \in Inodes /\ ~inode[n].made
    BY <2>1 DEF InodeLeft, FreshInode, Inodes
  <2>3. inode[n].made \in BOOLEAN
    BY <1>5, <2>2 DEF Files
  <2> QED BY <2>2, <2>3
<1> HIDE DEF r, n, rest
<1>7. dir.source # n /\ \A q \in RunIDs : dir.candidate[q] # n /\ dir.rollback[q] # n
  <2>1. dir.source # n
    BY <1>6, SourceKept DEF FilesOK, KeptComplete, Complete
  <2> QED BY <1>6, <2>1 DEF FilesOK, CandidatesMade, Named, KeptInv, KeptOK, RollbacksMade
<1>8. /\ dir' \in Directories /\ dir'.source = dir.source /\ dir'.rollback = dir.rollback
      /\ dir'.candidate = [dir.candidate EXCEPT ![r] = n]
  BY <1>2, <1>5, <1>6, InodeFacts DEF Directories
<1> HIDE DEF entries
<1>9. Unique(dir')
  BY <1>2, <1>5, <1>7, <1>8, UniqueCreated DEF KeptInv, KeptOK
<1>10. \A q \in RunIDs : q \notin swept /\ runs[q].phase \in Displaced => LooksLike(dir', dir, q)
  <2>1. runs[r].phase \notin Displaced
    BY <1>4 DEF PrePublication, Displaced
  <2>2. \A q \in RunIDs \ {r} : dir'.candidate[q] = dir.candidate[q]
    BY <1>5, <1>8
  <2> QED BY <1>8, <2>1, <2>2 DEF LooksLike
<1>11. \A q \in RunIDs : LooksLike(durable', durable, q)
  BY <1>2 DEF LooksLike
<1>12. Untouched /\ \A i \in Inodes : inode[i].made = TRUE => inode'[i].made = TRUE
  BY <1>1, <1>5, <1>6 DEF Untouched, Files
<1>13. KeptOK'
  BY <1>2, <1>8, <1>9, <1>10, <1>11, <1>12, KeptFollows DEF KeptInv
<1>14. Calls(r, rest, runs', dir', durable', inode', swept')
  BY <1>4 DEF Calls
<1>15. CallsOK'
  BY <1>2, <1>14, PopCalls DEF r, rest
<1> QED BY <1>13, <1>15 DEF KeptInv

-----------------------------------------------------------------------------
(* What one phase to the next means for the displaced store.                 *)
LEMMA AdvanceFacts ==
  ASSUME NEW from \in Phases, NEW to \in Transitions[from]
  PROVE  /\ to \in PreSwap => from \in PreSwap
         /\ to = "rollback_publish_intent" => from = "swapped"
         /\ to = "swap_intent" => from = "candidate_verified"
<1>1. CASE from \in PreSwap
  <2>1. to # "rollback_publish_intent" /\ (to = "swap_intent" => from = "candidate_verified")
    BY <1>1, PhaseFacts DEF Transitions, PreSwap, Building, PrePublication, Unverified
  <2> QED BY <1>1, <2>1
<1>2. CASE from \notin PreSwap
  <2>1. from \in {"swapped", "rollback_publish_intent", "rollback_ready", "committed",
                  "rollback_swap_intent", "rollback_swapped", "rolled_back", "abandoned"}
    BY <1>2, PhaseFacts DEF PreSwap, Building, PrePublication, Unverified
  <2>2. /\ to \in {"rollback_publish_intent", "rollback_ready", "committed", "rollback_swap_intent",
                   "rollback_swapped", "rolled_back"}
        /\ to = "rollback_publish_intent" => from = "swapped"
    BY <2>1 DEF Transitions
  <2> QED BY <2>2 DEF PreSwap, Building, PrePublication, Unverified
<1> QED BY <1>1, <1>2

(* A phase is recorded: the exchange and the move once they are synced.      *)
LEMMA AppendKeepsOriginal ==
  ASSUME FilesOK, WorkOK, KeptInv, IsTask(task), NEW p, NEW phase \in Phases, Append1(p, phase)
  PROVE  KeptInv'
<1> DEFINE r == task.run
           from == runs[r].phase
           rest == Tail(task.todo)
<1>1. /\ UNCHANGED <<dir, durable, inode, sweep, swept>> /\ At(p, phase) /\ Permits(phase, r)
      /\ Pop(phase) /\ r \in RunIDs /\ r # None /\ from \in Phases
  BY AppendFacts
<1>2. phase = "candidate_verified" => dir.candidate[r] \in Inodes /\ from = "scrub_in_progress"
  BY AppendFacts
<1>3. /\ \A q \in RunIDs \ {r} : runs'[q] = runs[q]
      /\ runs'[r].phase = phase
      /\ runs'[r].candidate =
           (IF phase = "candidate_verified" THEN Identity(dir.candidate[r]) ELSE runs[r].candidate)
      /\ runs'[r].op = runs[r].op /\ runs'[r].source = runs[r].source
  BY AppendFacts
<1>4. /\ phase \in PreSwap => from \in PreSwap
      /\ phase = "rollback_publish_intent" => from = "swapped"
  BY <1>1, PermitFacts, AdvanceFacts DEF Advance
<1>5. CallSays(phase, rest, r, runs[r], dir, durable, inode, swept)
  BY <1>1, HeadCall DEF KeptInv
<1>6. phase \notin {"copy", "exchange", "publish", "sync_dir"} /\ phase # "none" /\ from # "none"
  BY <1>1, PhaseFacts
<1>7. KeptOK /\ CallsOK
  BY DEF KeptInv
<1> HIDE DEF r, from, rest
<1>8. ASSUME phase # "candidate_verified", NEW d
      PROVE  /\ Swapped(d, r, runs[r], inode) => Swapped(d, r, runs'[r], inode')
             /\ Ready(d, r, runs[r], inode) => Ready(d, r, runs'[r], inode')
  BY <1>1, <1>3, <1>8 DEF Swapped, Ready
<1>9. r \notin swept => Held(r, runs'[r], dir', durable', inode')
  <2> SUFFICES ASSUME r \notin swept, phase \in Displaced
               PROVE  /\ Swapped(dir, r, runs'[r], inode') /\ Swapped(durable, r, runs'[r], inode')
                      /\ phase = "rollback_ready" =>
                           Ready(dir, r, runs'[r], inode') /\ Ready(durable, r, runs'[r], inode')
    BY <1>1, <1>3 DEF Held, Displaced
  <2>1. phase # "candidate_verified"
    BY DEF Displaced
  <2>2. CASE phase = "swapped"
    <3>1. Swapped(dir, r, runs[r], inode) /\ Swapped(durable, r, runs[r], inode)
      BY <1>5, <2>2 DEF CallSays
    <3> QED BY <1>8, <2>1, <2>2, <3>1
  <2>3. CASE phase = "rollback_ready"
    <3>1. Ready(dir, r, runs[r], inode) /\ Ready(durable, r, runs[r], inode)
      BY <1>5, <2>3 DEF CallSays
    <3>2. Ready(dir, r, runs'[r], inode') /\ Ready(durable, r, runs'[r], inode')
      BY <1>8, <2>1, <3>1
    <3> QED BY <3>2 DEF Ready
  <2>4. CASE phase = "rollback_publish_intent"
    <3>1. Held(r, runs[r], dir, durable, inode)
      BY <1>1, <1>7 DEF KeptOK, OriginalsHeld
    <3>2. Swapped(dir, r, runs[r], inode) /\ Swapped(durable, r, runs[r], inode)
      BY <1>4, <2>4, <3>1 DEF Held, Displaced, from
    <3> QED BY <1>8, <2>1, <2>4, <3>2
  <2> QED BY <2>2, <2>3, <2>4 DEF Displaced
<1>10. OriginalsHeld'
  <2> SUFFICES ASSUME NEW q \in RunIDs, q \notin swept
               PROVE  Held(q, runs'[q], dir', durable', inode')
    BY <1>1 DEF OriginalsHeld
  <2>1. CASE q = r
    BY <1>9, <2>1
  <2>2. CASE q # r
    <3>1. runs'[q] = runs[q] /\ Held(q, runs[q], dir, durable, inode)
      BY <1>3, <1>7, <2>2 DEF KeptOK, OriginalsHeld
    <3> QED BY <1>1, <3>1
  <2> QED BY <2>1, <2>2
<1>11. RollbacksMade' /\ Unique(dir)' /\ Unique(durable)'
  BY <1>1, <1>7 DEF KeptOK, RollbacksMade
<1>12. NoRollbackYet'
  <2> SUFFICES ASSUME NEW q \in RunIDs, runs'[q].phase \in PreSwap
               PROVE  dir.rollback[q] = 0 /\ durable.rollback[q] = 0
    BY <1>1 DEF NoRollbackYet, PreSwap, Building, PrePublication, Unverified
  <2>1. runs[q].phase \in PreSwap
    BY <1>3, <1>4 DEF from
  <2> QED BY <1>7, <2>1 DEF KeptOK, NoRollbackYet
<1>13. CandidatesTold'
  <2>1. CASE phase # "candidate_verified"
    <3>1. \A q \in RunIDs : runs'[q].candidate = runs[q].candidate
      BY <1>3, <2>1
    <3> QED BY <1>7, <3>1 DEF KeptOK, CandidatesTold
  <2>2. CASE phase = "candidate_verified"
    <3>1. runs'[r].candidate[1] = dir.candidate[r]
      BY <1>3, <2>2 DEF Identity
    <3>2. ~IsKept(dir.candidate[r])
      BY <1>1, <1>2, <2>2 DEF FilesOK, CandidatesApart, Named, Building, Unverified, from
    <3>3. \A q \in RunIDs : runs[q].candidate[1] # dir.candidate[r]
      BY <3>2 DEF IsKept
    <3>4. \A q \in RunIDs \ {r} : runs'[q].candidate[1] = runs[q].candidate[1]
      BY <1>3
    <3> QED BY <1>7, <3>1, <3>3, <3>4 DEF KeptOK, CandidatesTold
  <2> QED BY <2>1, <2>2
<1>14. Calls(r, rest, runs', dir', durable', inode', swept')
  <2>1. CASE rest \in Seq(QuietSteps)
    BY <2>1 DEF Calls
  <2>2. CASE /\ phase = "swap_intent" /\ rest = <<"sync_dir", "swapped">>
             /\ r \in swept \/ Swapped(dir, r, runs[r], inode)
    <3>1. r \in swept' \/ Swapped(dir', r, runs'[r], inode')
      BY <1>1, <1>8, <2>2
    <3> QED BY <1>1, <1>3, <2>2, <3>1 DEF Calls, SwapCalls
  <2>3. CASE /\ phase = "rollback_publish_intent" /\ rest = <<"sync_dir", "rollback_ready">>
             /\ r \in swept \/ Ready(dir, r, runs[r], inode)
    <3>1. r \in swept' \/ Ready(dir', r, runs'[r], inode')
      BY <1>1, <1>8, <2>3
    <3> QED BY <1>1, <1>3, <2>3, <3>1 DEF Calls, PublishCalls
  <2>4. CASE phase = "rollback_swap_intent" /\ rest = ReturnSteps
    BY <1>1, <1>3, <2>4 DEF Calls, ReturnCalls
  <2> QED BY <1>5, <1>6, <2>1, <2>2, <2>3, <2>4 DEF CallSays
<1>15. CallsOK' /\ task'.kind = task.kind
  BY <1>1, <1>3, <1>14, PopCalls DEF r, rest
<1>16. OpsKnown'
  <2>1. \A q \in RunIDs : runs'[q].op = runs[q].op /\ (runs'[q].phase = "none" <=> runs[q].phase = "none")
    BY <1>3, <1>6 DEF from
  <2> QED BY <1>1, <1>7, <1>15, <2>1 DEF KeptOK, OpsKnown, NoUpgrade
<1> QED BY <1>10, <1>11, <1>12, <1>13, <1>15, <1>16 DEF KeptInv, KeptOK

(* A new run has displaced nothing.                                          *)
LEMMA PlanKeepsOriginal ==
  ASSUME FilesOK, WorkOK, KeptInv, IsTask(task), NEW p, PlanRun(p)
  PROVE  KeptInv'
<1> DEFINE n == NextRunID
           c == [task EXCEPT !.run = n]
<1>1. /\ UNCHANGED <<dir, durable, inode, sweep, swept>>
      /\ n \in RunIDs /\ n # None /\ runs[n].phase = "none"
      /\ task' = Continue(c, "planned", <<>>)
  BY PlanFacts
<1>2. /\ \A r \in RunIDs \ {n} : runs'[r] = runs[r]
      /\ runs'[n].phase = "planned" /\ runs'[n].candidate = <<0, 0>>
      /\ runs'[n].op = (IF task.kind = "upgrade" THEN "upgrade" ELSE "compaction")
  BY PlanFacts
<1>3. IsTask(c) /\ c.run = n /\ c.kind = task.kind
  BY DEF IsTask
<1>4. KeptOK
  BY DEF KeptInv
<1> HIDE DEF n, c
<1>5. CallsOK' /\ task'.kind = task.kind
  <2>1. Calls(c.run, <<>>, runs', dir', durable', inode', swept')
    BY QuietTuples DEF Calls
  <2>2. Calls(task'.run, task'.todo, runs', dir', durable', inode', swept') /\ task'.kind = task.kind
    BY <1>1, <1>2, <1>3, <2>1, ContinueCalls
  <2> QED BY <2>2 DEF CallsOK
<1>6. OriginalsHeld'
  <2> SUFFICES ASSUME NEW q \in RunIDs, q \notin swept
               PROVE  Held(q, runs'[q], dir', durable', inode')
    BY <1>1 DEF OriginalsHeld
  <2>1. CASE q = n
    BY <1>2, <2>1 DEF Held, Displaced
  <2>2. CASE q # n
    <3>1. runs'[q] = runs[q] /\ Held(q, runs[q], dir, durable, inode)
      BY <1>2, <1>4, <2>2 DEF KeptOK, OriginalsHeld
    <3> QED BY <1>1, <3>1
  <2> QED BY <2>1, <2>2
<1>7. RollbacksMade' /\ Unique(dir)' /\ Unique(durable)'
  BY <1>1, <1>4 DEF KeptOK, RollbacksMade
<1>8. NoRollbackYet'
  <2> SUFFICES ASSUME NEW q \in RunIDs, runs'[q].phase \in PreSwap
               PROVE  dir.rollback[q] = 0 /\ durable.rollback[q] = 0
    BY <1>1 DEF NoRollbackYet, PreSwap, Building, PrePublication, Unverified
  <2>1. runs[q].phase \in PreSwap
    BY <1>1, <1>2 DEF PreSwap, Building
  <2> QED BY <1>4, <2>1 DEF KeptOK, NoRollbackYet
<1>9. CandidatesTold'
  <2>1. runs'[n].candidate[1] = 0 /\ \A q \in RunIDs \ {n} : runs'[q].candidate[1] = runs[q].candidate[1]
    BY <1>2
  <2> QED BY <1>4, <2>1 DEF KeptOK, CandidatesTold
<1>10. OpsKnown'
  <2>1. OpsKnown /\ runs[n].op = "none"
    BY <1>1, <1>4 DEF KeptOK, OpsKnown
  <2>2. \A r \in RunIDs : runs'[r].phase = "none" <=> runs'[r].op = "none"
    BY <1>2, <2>1 DEF OpsKnown
  <2>3. NoUpgrade => task'.kind # "upgrade" /\ \A r \in RunIDs : runs'[r].op # "upgrade"
    BY <1>2, <1>5, <2>1 DEF OpsKnown
  <2>4. \A r \in sweep'.paths : r \in RunIDs /\ runs'[r].op = "compaction"
    BY <1>1, <1>2, <2>1 DEF OpsKnown
  <2> QED BY <2>2, <2>3, <2>4 DEF OpsKnown, NoUpgrade
<1> QED BY <1>5, <1>6, <1>7, <1>8, <1>9, <1>10 DEF KeptInv, KeptOK

(* Every step of a command keeps the original.                               *)
LEMMA StepKeepsOriginal ==
  ASSUME FilesOK, WorkOK, KeptInv, IsTask(task), NEW p, Step(p)
  PROVE  KeptInv'
<1>1. CASE Refuse(p) \/ PlanRefused(p) \/ CompactInPlace(p)
  BY <1>1, EndsKeepOriginal
<1>2. CASE SyncDir(p)
  BY <1>2, SyncDirKeepsOriginal
<1>3. CASE Exchange(p)
  BY <1>3, SwapKeepsOriginal, ReturnKeepsOriginal
<1>4. CASE PublishRollback(p)
  BY <1>4, PublishKeepsOriginal
<1>5. CASE PrepareCandidate(p)
  BY <1>5, CreateKeepsOriginal
<1>6. CASE \/ \E step \in {"recheck", "verify"} : Inspect(p, step)
           \/ SyncCandidate(p)
           \/ \E step \in {"copy", "vacuum"} : Build(p, step)
  BY <1>6, CandidateKeepsOriginal
<1>7. CASE PlanRun(p)
  BY <1>7, PlanKeepsOriginal
<1>8. CASE CancelBuild(p)
  BY <1>8, CancelKeepsOriginal
<1>9. ASSUME NEW phase \in Phases, Append1(p, phase) PROVE KeptInv'
  BY <1>9, AppendKeepsOriginal
<1>10. ASSUME NEW step \in {"unlink", "abandon"}, RemoveCandidate(p, step) PROVE KeptInv'
  BY <1>10, RemoveKeepsOriginal
<1> QED
  BY <1>1, <1>2, <1>3, <1>4, <1>5, <1>6, <1>7, <1>8, <1>9, <1>10 DEF Step

(* The start of a command.                                                   *)
LEMMA StartKeepsOriginal ==
  ASSUME FilesOK, KeptInv, NEW p \in Procs, CommandStart(p)
  PROVE  KeptInv'
<1>1. ASSUME NEW kind, NEW r \in RunIDs \cup {None}, NEW todo, Begin(p, kind, r, todo),
             Calls(r, todo, runs, dir, durable, inode, swept)
      PROVE  KeptInv'
  <2>1. UNCHANGED <<dir, durable, inode, runs, sweep, swept>>
    BY <1>1 DEF Begin, historyVars
  <2>2. CallsOK' /\ task'.kind = kind /\ kind \in Commands
    BY <1>1, BeginCalls
  <2>3. OpsKnown'
    BY <2>1, <2>2, OpsStep DEF KeptInv, KeptOK, NoUpgrade
  <2>4. KeptOK'
    BY <2>1, <2>3, KeptSame DEF KeptInv, Untouched
  <2> QED BY <2>2, <2>4 DEF KeptInv
<1>2. \A r : \A todo \in Seq(QuietSteps) : Calls(r, todo, runs, dir, durable, inode, swept)
  BY DEF Calls
<1>3. \A r \in RunIDs : r # None
  BY CompactionAssumption
<1>4. ASSUME NEW kind, NEW todo \in {<<"plan">>, <<"refuse">>}, Begin(p, kind, None, todo)
      PROVE  KeptInv'
  BY <1>1, <1>2, <1>4, QuietRests
<1>5. ASSUME NEW r \in RunIDs, Stale(r),
             NEW todo \in {<<"abandon", "abandoned">>, <<"abandon", "abandoned", "plan">>}
      PROVE  Calls(r, todo, runs, dir, durable, inode, swept)
  <2>1. todo \in CandidateCalls
    BY <1>5 DEF CandidateCalls
  <2> QED BY <1>3, <1>5, <2>1 DEF Calls, Stale
<1>6. CASE Compact(p)
  <2>1. ASSUME NEW r \in RunIDs,
               Begin(p, "compact", r,
                 IF Stale(r) THEN <<"abandon", "abandoned", "plan">> ELSE RecoverySteps(r))
        PROVE  KeptInv'
    <3>1. CASE Stale(r)
      BY <1>1, <1>5, <2>1, <3>1
    <3>2. CASE ~Stale(r)
      BY <1>1, <1>3, <2>1, <3>2, RecoveryCalls
    <3> QED BY <3>1, <3>2
  <2> QED BY <1>4, <1>6, <2>1 DEF Compact
<1>7. CASE Rollback(p)
  BY <1>1, <1>3, <1>7, RollbackCalls DEF Rollback
<1>8. CASE AbandonStalePrePublication(p)
  <2>1. PICK r \in RunIDs : Begin(p, "doctor", r, IF Stale(r) THEN <<"abandon", "abandoned">> ELSE <<>>)
    BY <1>8 DEF AbandonStalePrePublication
  <2>2. CASE Stale(r)
    BY <1>1, <1>5, <2>1, <2>2
  <2>3. CASE ~Stale(r)
    BY <1>1, <1>2, <2>1, <2>3, QuietTuples
  <2> QED BY <2>2, <2>3
<1>9. CASE RunUpgrade(p)
  <2>1. ASSUME NEW r \in RunIDs,
               Begin(p, "upgrade", r,
                 IF runs[r].phase = "candidate_verified" THEN <<"swap_intent">> ELSE RecoverySteps(r))
        PROVE  KeptInv'
    <3>1. CASE runs[r].phase = "candidate_verified"
      BY <1>1, <1>2, <2>1, <3>1, QuietRests
    <3>2. CASE runs[r].phase # "candidate_verified"
      BY <1>1, <1>3, <2>1, <3>2, RecoveryCalls
    <3> QED BY <3>1, <3>2
  <2> QED BY <1>4, <1>9, <2>1 DEF RunUpgrade
<1> QED BY <1>6, <1>7, <1>8, <1>9 DEF CommandStart

-----------------------------------------------------------------------------
(* What the other processes may do to a command at work: they leave its run  *)
(* and the displaced store, unless a sweep removes it.                       *)
LEMMA OthersKeepCalls ==
  ASSUME WorkOK, KeptInv, Untouched, UNCHANGED <<runs, durable, task>>, swept \subseteq swept',
         \A r \in RunIDs :
           r \notin swept' /\ runs[r].phase \notin Terminal => LooksLike(dir', dir, r)
  PROVE  CallsOK'
<1> DEFINE r == task.run
           todo == task.todo
           run == runs[r]
<1>1. Calls(r, todo, runs, dir, durable, inode, swept)
  BY DEF KeptInv, CallsOK
<1>2. r # None => r \in RunIDs
  BY DEF WorkOK, Work
<1>3. ASSUME r \in RunIDs, r \notin swept', run.phase \notin Terminal, Swapped(dir, r, run, inode)
      PROVE  /\ Swapped(dir', r, run, inode') /\ (Ready(dir, r, run, inode) => Ready(dir', r, run, inode'))
             /\ Swapped(durable, r, run, inode) => Swapped(durable, r, run, inode')
             /\ Ready(durable, r, run, inode) => Ready(durable, r, run, inode')
  <2>1. inode'[run.source[1]].ver = run.source[2]
    BY <1>3, DisplacedUntouched DEF KeptInv, KeptOK
  <2>2. LooksLike(dir', dir, r) /\ LooksLike(durable, durable, r)
    BY <1>3 DEF LooksLike
  <2> HIDE DEF run
  <2>3. Swapped(dir', r, run, inode') /\ (Ready(dir, r, run, inode) => Ready(dir', r, run, inode'))
    BY <1>3, <2>1, <2>2, SwappedStays
  <2>4. Swapped(durable, r, run, inode) => Swapped(durable, r, run, inode')
    BY <2>1 DEF Swapped
  <2> QED BY <2>3, <2>4 DEF Ready
<1> HIDE DEF r, todo
<1>4. ASSUME r # None, SwapCalls(r, todo, run, dir, durable, inode, swept)
      PROVE  SwapCalls(r, todo, run, dir', durable, inode', swept')
  <2>1. run.phase \notin Terminal
    BY <1>4 DEF SwapCalls, Terminal
  <2>2. r \in swept \/ Swapped(dir, r, run, inode) => r \in swept' \/ Swapped(dir', r, run, inode')
    BY <1>2, <1>3, <1>4, <2>1
  <2>3. (r \in swept \/ Swapped(dir, r, run, inode)) /\ (r \in swept \/ Swapped(durable, r, run, inode))
          => r \in swept' \/ Swapped(durable, r, run, inode')
    BY <1>2, <1>3, <1>4, <2>1
  <2> QED BY <1>4, <2>2, <2>3 DEF SwapCalls
<1>5. ASSUME r # None, PublishCalls(r, todo, run, dir, durable, inode, swept)
      PROVE  PublishCalls(r, todo, run, dir', durable, inode', swept')
  <2>1. run.phase \notin Terminal
    BY <1>5 DEF PublishCalls, Terminal
  <2>2. r \in swept \/ Ready(dir, r, run, inode) => r \in swept' \/ Ready(dir', r, run, inode')
    BY <1>2, <1>3, <1>5, <2>1 DEF Ready
  <2>3. (r \in swept \/ Ready(dir, r, run, inode)) /\ (r \in swept \/ Ready(durable, r, run, inode))
          => r \in swept' \/ Ready(durable, r, run, inode')
    BY <1>2, <1>3, <1>5, <2>1 DEF Ready
  <2> QED BY <1>5, <2>2, <2>3 DEF PublishCalls
<1>6. Calls(r, todo, runs, dir', durable, inode', swept')
  BY <1>1, <1>4, <1>5 DEF Calls
<1>7. Calls(r, todo, runs', dir', durable', inode', swept')
  BY <1>6
<1> QED BY <1>7 DEF CallsOK, r, todo

(* A hook writes to the store, which is no displaced one.                    *)
LEMMA HookKeepsOriginal ==
  ASSUME OwnedInv, FilesOK, WorkOK, KeptInv, NEW p \in Procs, HookStep(p)
  PROVE  KeptInv'
<1>1. UNCHANGED <<dir, durable, runs, task, sweep, swept>>
  BY DEF HookStep, Open, CloseStore, Write, storeVars
<1>2. Untouched /\ \A i \in Inodes : inode[i].made = TRUE => inode'[i].made = TRUE
  <2>1. CASE Open(p) \/ CloseStore(p)
    BY <2>1 DEF Open, CloseStore, storeVars, Untouched
  <2>2. ASSUME NEW rec \in Records, Write(p, rec)
        PROVE  Untouched /\ \A i \in Inodes : inode[i].made = TRUE => inode'[i].made = TRUE
    <3> DEFINE s == opened[p]
    <3>1. s \in Inodes /\ s = dir.source /\ inode \in [Inodes -> Files]
      BY <2>2, SourceKept DEF Write, OwnedInv, NoDisplacedWriter, FilesOK, StateOK
    <3>2. inode' = [inode EXCEPT ![s].recs = @ \cup {rec}, ![s].ver = @ + 1]
      BY <2>2 DEF Write
    <3> HIDE DEF s
    <3> QED BY <3>1, <3>2 DEF Untouched, Files
  <2> QED BY <2>1, <2>2 DEF HookStep
<1>3. OpsKnown'
  BY <1>1, OpsStep DEF KeptInv, KeptOK, OpsKnown
<1>4. KeptOK'
  BY <1>1, <1>2, <1>3, KeptSame DEF KeptInv
<1>5. CallsOK'
  BY <1>1, <1>2, OthersKeepCalls DEF LooksLike
<1> QED BY <1>4, <1>5 DEF KeptInv

(* What a sweep removes is of a run that has ended, or is in swept.          *)
LEMMA RemovedBySweep ==
  ASSUME OwnedInv, FilesOK, KeptOK, NEW r \in RunIDs, SweepRemove(r)
  PROVE  /\ dir' \in Directories /\ dir'.source = dir.source /\ swept \subseteq swept'
         /\ \A q \in RunIDs : /\ dir'.candidate[q] \in {0, dir.candidate[q]}
                              /\ dir'.rollback[q] \in {0, dir.rollback[q]}
         /\ \A q \in RunIDs : q \notin swept' /\ runs[q].phase \notin Terminal => LooksLike(dir', dir, q)
<1>1. /\ dir' = [dir EXCEPT ![sweep.kind][r] = 0] /\ sweep.kind \in {"none", "candidate", "rollback"}
      /\ swept' = IF r \in InFlight /\ dir[sweep.kind][r] # 0 THEN swept \cup {r} ELSE swept
      /\ r \in sweep.paths
  BY DEF SweepRemove, OwnedInv, StoreShape
<1>2. dir \in Directories
  BY DEF FilesOK, StateOK
<1>3. runs[r].phase \notin Terminal => r \in InFlight
  BY <1>1 DEF KeptOK, OpsKnown, InFlight, Exists
<1>4. CASE sweep.kind = "none"
  <2>1. dir' = dir
    BY <1>1, <1>2, <1>4 DEF Directories
  <2> QED BY <1>1, <1>2, <2>1 DEF Directories, LooksLike
<1>5. CASE sweep.kind = "candidate"
  <2>1. /\ dir' \in Directories /\ dir'.source = dir.source /\ dir'.rollback = dir.rollback
        /\ dir'.candidate = [dir.candidate EXCEPT ![r] = 0]
    BY <1>1, <1>2, <1>5, InodeFacts DEF Directories
  <2>2. dir.candidate \in [RunIDs -> InodeNo]
    BY <1>2 DEF Directories
  <2>3. dir'.candidate[r] = 0 /\ \A q \in RunIDs \ {r} : dir'.candidate[q] = dir.candidate[q]
    BY <2>1, <2>2
  <2>4. r \notin swept' /\ runs[r].phase \notin Terminal => dir.candidate[r] = 0
    BY <1>1, <1>3, <1>5
  <2> QED BY <1>1, <2>1, <2>3, <2>4 DEF LooksLike
<1>6. CASE sweep.kind = "rollback"
  <2>1. /\ dir' \in Directories /\ dir'.source = dir.source /\ dir'.candidate = dir.candidate
        /\ dir'.rollback = [dir.rollback EXCEPT ![r] = 0]
    BY <1>1, <1>2, <1>6, InodeFacts DEF Directories
  <2>2. dir.rollback \in [RunIDs -> InodeNo]
    BY <1>2 DEF Directories
  <2>3. dir'.rollback[r] = 0 /\ \A q \in RunIDs \ {r} : dir'.rollback[q] = dir.rollback[q]
    BY <2>1, <2>2
  <2>4. r \notin swept' /\ runs[r].phase \notin Terminal => dir.rollback[r] = 0
    BY <1>1, <1>3, <1>6
  <2> QED BY <1>1, <2>1, <2>3, <2>4 DEF LooksLike
<1> QED BY <1>1, <1>4, <1>5, <1>6

(* Doctor's sweep.                                                           *)
LEMMA SweepKeepsOriginal ==
  ASSUME OwnedInv, FilesOK, WorkOK, KeptInv, Sweeping
  PROVE  KeptInv'
<1>1. UNCHANGED <<durable, inode, runs, task>>
  BY DEF Sweeping, SweepList, SweepEnd, SweepRead, SweepRemove, storeVars
<1>2. KeptOK /\ OpsKnown /\ dir \in Directories
  BY DEF KeptInv, KeptOK, FilesOK, StateOK
<1>3. /\ dir' \in Directories /\ dir'.source = dir.source /\ swept \subseteq swept'
      /\ \A q \in RunIDs : /\ dir'.candidate[q] \in {0, dir.candidate[q]}
                           /\ dir'.rollback[q] \in {0, dir.rollback[q]}
      /\ \A q \in RunIDs : q \notin swept' /\ runs[q].phase \notin Terminal => LooksLike(dir', dir, q)
  <2>1. CASE UNCHANGED <<dir, swept>>
    BY <1>2, <2>1 DEF LooksLike
  <2>2. ASSUME NEW r \in RunIDs, SweepRemove(r)
        PROVE  /\ dir' \in Directories /\ dir'.source = dir.source /\ swept \subseteq swept'
               /\ \A q \in RunIDs : /\ dir'.candidate[q] \in {0, dir.candidate[q]}
                                    /\ dir'.rollback[q] \in {0, dir.rollback[q]}
               /\ \A q \in RunIDs :
                    q \notin swept' /\ runs[q].phase \notin Terminal => LooksLike(dir', dir, q)
    BY <1>2, <2>2, RemovedBySweep
  <2> QED BY <2>1, <2>2 DEF Sweeping, SweepList, SweepEnd, SweepRead, storeVars
<1>4. \A r \in sweep'.paths : r \in RunIDs /\ runs[r].op = "compaction"
  <2>1. \A r \in sweep.paths : r \in RunIDs /\ runs[r].op = "compaction"
    BY <1>2 DEF OpsKnown
  <2>2. IsSweep(sweep) /\ NoSweep.paths = {}
    BY DEF OwnedInv, StoreShape, NoSweep
  <2>3. CASE SweepList
    <3> DEFINE found == Leftovers(sweep.kind, sweep.live)
    <3>1. \A r \in found : r \in RunIDs /\ runs[r].op = "compaction"
      BY DEF Leftovers
    <3>2. sweep' = IF found = {} THEN NoSweep
                   ELSE [sweep EXCEPT !.stage = "remove", !.paths = found, !.live = {}]
      BY <2>3 DEF SweepList
    <3> HIDE DEF found
    <3>3. sweep'.paths = {} \/ sweep'.paths = found
      BY <2>2, <3>2 DEF IsSweep
    <3> QED BY <3>1, <3>3
  <2>4. CASE SweepEnd
    BY <2>2, <2>4 DEF SweepEnd
  <2>5. ASSUME NEW kind, SweepRead(kind) PROVE sweep'.paths = {}
    BY <2>5 DEF SweepRead, NoSweep
  <2>6. ASSUME NEW r, SweepRemove(r) PROVE sweep'.paths \subseteq sweep.paths
    <3>1. sweep' = IF sweep.paths = {r} THEN NoSweep ELSE [sweep EXCEPT !.paths = sweep.paths \ {r}]
      BY <2>6 DEF SweepRemove
    <3>2. sweep'.paths = {} \/ sweep'.paths = sweep.paths \ {r}
      BY <2>2, <3>1 DEF IsSweep
    <3> QED BY <3>2
  <2> QED BY <2>1, <2>3, <2>4, <2>5, <2>6 DEF Sweeping
<1>5. OpsKnown'
  BY <1>1, <1>2, <1>4 DEF OpsKnown, NoUpgrade
<1>6. Unique(dir') /\ Unique(durable')
  BY <1>1, <1>2, <1>3, UniqueRemoved DEF KeptOK
<1>7. Untouched
  BY <1>1 DEF Untouched
<1>8. \A r \in RunIDs : r \notin swept' /\ runs[r].phase \in Displaced =>
        LooksLike(dir', dir, r) /\ LooksLike(durable', durable, r)
  BY <1>1, <1>3 DEF Displaced, Terminal, LooksLike
<1>9. KeptOK'
  BY <1>1, <1>2, <1>3, <1>5, <1>6, <1>7, <1>8, KeptFollows
<1>10. CallsOK'
  BY <1>1, <1>3, <1>7, OthersKeepCalls
<1> QED BY <1>9, <1>10 DEF KeptInv

(* A power loss changes no version, and both directories held the original.  *)
LEMMA PowerLossKeepsOriginal ==
  ASSUME FilesOK, KeptInv, PowerLoss
  PROVE  KeptInv'
<1>1. /\ dir' \in {dir, durable} /\ durable' = dir' /\ UNCHANGED <<runs, swept>>
      /\ task' = NoTask /\ sweep' = NoSweep
  BY DEF PowerLoss
<1>2. PICK torn \in SUBSET {i \in 1..MaxInode : ~inode[i].safe} :
        inode' = [i \in 1..MaxInode |-> IF i \in torn THEN [inode[i] EXCEPT !.whole = FALSE] ELSE inode[i]]
  BY DEF PowerLoss
<1>3. inode \in [Inodes -> Files]
  BY DEF FilesOK, StateOK
<1>4. ASSUME NEW i \in Inodes PROVE inode'[i].ver = inode[i].ver /\ inode'[i].made = inode[i].made
  <2>1. inode'[i] = [inode[i] EXCEPT !.whole = FALSE] \/ inode'[i] = inode[i]
    BY <1>2, <1>4 DEF Inodes
  <2> QED BY <1>3, <1>4, <2>1 DEF Files
<1>5. CallsOK' /\ task'.kind # "upgrade"
  BY <1>1, NoTaskCalls
<1>6. OpsKnown'
  BY <1>1, <1>5 DEF KeptInv, KeptOK, OpsKnown, NoSweep, NoUpgrade
<1>7. Untouched /\ \A i \in Inodes : inode[i].made = TRUE => inode'[i].made = TRUE
  BY <1>4 DEF Untouched
<1>8. Unique(dir') /\ Unique(durable')
  BY <1>1 DEF KeptInv, KeptOK
<1>9. \A r \in RunIDs : /\ LooksLike(dir', dir, r) \/ LooksLike(dir', durable, r)
                        /\ LooksLike(durable', dir, r) \/ LooksLike(durable', durable, r)
  BY <1>1 DEF LooksLike
<1>10. KeptOK'
  BY <1>1, <1>6, <1>7, <1>8, <1>9, KeptFollows DEF KeptInv
<1> QED BY <1>5, <1>10 DEF KeptInv

(* The steps that leave the files and the journals alone.                    *)
LEMMA IdleKeepsOriginal ==
  ASSUME KeptInv, UNCHANGED <<dir, durable, inode, runs, sweep, swept>>, task' \in {task, NoTask}
  PROVE  KeptInv'
<1>1. CallsOK' /\ (task'.kind = task.kind \/ task'.kind # "upgrade")
  <2>1. CASE task' = task
    BY <2>1 DEF KeptInv, CallsOK
  <2>2. CASE task' = NoTask
    BY <2>2, NoTaskCalls
  <2> QED BY <2>1, <2>2
<1>2. OpsKnown'
  BY <1>1, OpsStep DEF KeptInv, KeptOK, OpsKnown
<1>3. KeptOK'
  BY <1>2, KeptSame DEF KeptInv, Untouched
<1> QED BY <1>1, <1>3 DEF KeptInv

(* Nothing is displaced at first.                                            *)
LEMMA KeptInvInit == CompactionInit => KeptInv
<1> SUFFICES ASSUME CompactionInit PROVE KeptInv
  OBVIOUS
<1>1. /\ dir.source = 1 /\ dir = durable
      /\ \A r \in RunIDs : dir.candidate[r] = 0 /\ dir.rollback[r] = 0
  BY DEF CompactionInit
<1>2. \A r \in RunIDs : runs[r].phase = "none" /\ runs[r].op = "none" /\ runs[r].candidate[1] = 0
  BY DEF CompactionInit, NoRun, NoIdentity
<1>3. task.kind = "none" /\ task.todo = <<>> /\ sweep.paths = {}
  BY DEF CompactionInit, NoTask, NoSweep
<1>4. Unique(dir) /\ Unique(durable)
  BY <1>1 DEF Unique
<1>5. RollbacksMade /\ NoRollbackYet
  BY <1>1, InodeFacts DEF RollbacksMade, NoRollbackYet
<1>6. OriginalsHeld
  BY <1>2 DEF OriginalsHeld, Held, Displaced
<1>7. CandidatesTold /\ OpsKnown
  BY <1>2, <1>3 DEF CandidatesTold, OpsKnown
<1>8. CallsOK
  BY <1>3, QuietTuples DEF CallsOK, Calls
<1> QED BY <1>4, <1>5, <1>6, <1>7, <1>8 DEF KeptInv, KeptOK

(* KeptInv is inductive, given the two invariants before it.                 *)
LEMMA KeptInvStep == OwnedInv /\ FilesInv /\ KeptInv /\ [CompactionNext]_compactionVars => KeptInv'
<1> SUFFICES ASSUME OwnedInv, FilesInv, KeptInv, [CompactionNext]_compactionVars PROVE KeptInv'
  OBVIOUS
<1>1. FilesOK /\ WorkOK /\ IsTask(task)
  BY DEF FilesInv, OwnedInv, TaskOwned
<1>2. ASSUME NEW p \in Procs, LeaseStep(p) \/ Finish(p) \/ Killed(p) PROVE KeptInv'
  BY <1>2, IdleKeepsOriginal DEF LeaseStep, Finish, Killed, storeVars, historyVars
<1>3. CASE UNCHANGED compactionVars
  BY <1>3, IdleKeepsOriginal DEF compactionVars, storeVars, historyVars
<1> QED
  BY <1>1, <1>2, <1>3, StartKeepsOriginal, StepKeepsOriginal, HookKeepsOriginal,
     SweepKeepsOriginal, PowerLossKeepsOriginal DEF CompactionNext

(* The invariant of the originals holds of every behaviour of maintenance.   *)
LEMMA KeptInvariant == CompactionSpec => [](OwnedInv /\ FilesInv /\ KeptInv)
<1>1. CompactionInit => KeptInv
  BY KeptInvInit
<1>2. OwnedInv /\ FilesInv /\ KeptInv /\ [CompactionNext]_compactionVars => KeptInv'
  BY KeptInvStep
<1> QED BY <1>1, <1>2, FilesInvariant, PTL DEF CompactionSpec

(* From the exchange on, until an operator rolls back, the file that a       *)
(* rollback would restore is there, under exactly one of its two names, and  *)
(* as it was when the run was planned: no write, recovery, abandonment,      *)
(* later run, upgrade or power loss reaches it. Only a sweep beside a run in *)
(* flight can remove it, and that run is then in swept.                      *)
THEOREM OriginalIsKept == CompactionSpec => []OriginalKept
<1>1. FilesInv /\ KeptInv => OriginalKept
  <2> SUFFICES ASSUME FilesInv, KeptInv, NEW r \in RunIDs \ swept, runs[r].phase \in Displaced
               PROVE  /\ {dir.candidate[r], dir.rollback[r]} \ {0} = {runs[r].source[1]}
                      /\ Identity(runs[r].source[1]) = runs[r].source
    BY DEF OriginalKept, Displaced
  <2>1. Swapped(dir, r, runs[r], inode)
    BY DEF KeptInv, KeptOK, OriginalsHeld, Held
  <2>2. runs[r].source[1] # 0 /\ inode[runs[r].source[1]].ver = runs[r].source[2]
    BY <2>1, InodeFacts DEF Swapped
  <2>3. runs[r].source = <<runs[r].source[1], runs[r].source[2]>>
    BY DEF FilesInv, FilesOK, StateOK, Journals
  <2> QED BY <2>1, <2>2, <2>3 DEF Swapped, Identity
<1> QED BY <1>1, KeptInvariant, PTL

(* The journal never claims a placement that a power loss could undo, where  *)
(* no upgrade replaces the store between the exchange of a compaction and    *)
(* its end: a run recorded as swapped or rollback-ready is so in the synced  *)
(* directory, whichever of its calls was the last before the failure.        *)
THEOREM JournalIsNotAhead ==
  ASSUME "upgrade" \notin Commands
  PROVE  CompactionSpec => []JournalNotAhead
<1>1. KeptInv => JournalNotAhead
  <2> SUFFICES ASSUME KeptInv, NEW r \in RunIDs \ swept, runs[r].phase \in Displaced
               PROVE  /\ durable.source = runs[r].candidate[1]
                      /\ runs[r].phase = "rollback_ready" => durable.rollback[r] = runs[r].source[1]
    BY DEF JournalNotAhead, Displaced
  <2>1. Held(r, runs[r], dir, durable, inode)
    BY DEF KeptInv, KeptOK, OriginalsHeld
  <2> QED BY <2>1 DEF Held, Swapped, Ready, NoUpgrade
<1> QED BY <1>1, KeptInvariant, PTL

-----------------------------------------------------------------------------
(* What a host was told is stored stays stored.                              *)

(* Without rollbacks and power losses no record is at risk; with them, those *)
(* that were exposed are.                                                    *)
Gentle == "rollback" \notin Commands /\ MaxPowerLoss = 0
Lasting(a, e) == IF Gentle THEN a ELSE a \ e

StoreHolds ==
  /\ Lasting(acked, exposed) \subseteq inode[dir.source].recs
  /\ ~Gentle => Lasting(acked, exposed) \subseteq inode[durable.source].recs
OnlyAcked == \A i \in Inodes : inode[i].recs \subseteq acked

(* A version that a journal fenced does not come back once it is left.       *)
SourceFenced(run, f) == run.source[1] \in Inodes /\ run.source[2] <= f[run.source[1]].ver
(* The candidate has what the source had when it was verified,               *)
ForwardHolds(run, f, S) ==
  run.phase \in {"candidate_verified", "swap_intent"} =>
    /\ run.candidate[1] \in Inodes
    /\ f[run.source[1]].ver = run.source[2] /\ S \subseteq f[run.source[1]].recs =>
         S \subseteq f[run.candidate[1]].recs
(* and the original what the candidate had when its rollback was intended.   *)
ReturnHolds(run, f, S) ==
  run.phase = "rollback_swap_intent" =>
    /\ run.candidate[1] \in Inodes /\ ~Gentle
    /\ S \subseteq f[run.candidate[1]].recs => S \subseteq f[run.source[1]].recs
RunHolds(run, f, S) ==
  /\ run.phase # "none" => SourceFenced(run, f)
  /\ ForwardHolds(run, f, S) /\ ReturnHolds(run, f, S)

RecordsOK ==
  /\ StoreHolds /\ OnlyAcked /\ losses \in Nat
  /\ \A r \in RunIDs : RunHolds(runs[r], inode, Lasting(acked, exposed))

(* What a command has established of the records, under the lease, before it *)
(* records a candidate as verified or a rollback as intended.                *)
Told(r, todo, rs, d, f) ==
  todo # <<>> =>
    /\ Head(todo) = "candidate_verified" =>
         \A i \in Inodes : i = d.candidate[r] => f[i].recs = f[d.source].recs
    /\ Head(todo) = "rollback_swap_intent" =>
         /\ rs[r].candidate[1] \in Inodes /\ ~Gentle
         /\ f[rs[r].candidate[1]].recs \subseteq f[rs[r].source[1]].recs
ToldOK ==
  /\ Told(task.run, task.todo, runs, dir, inode)
  /\ task.todo # <<>> => task.owner # None

(* The inductive invariant, on top of KeptInv.                               *)
LossInv == RecordsOK /\ ToldOK

-----------------------------------------------------------------------------
(* What a step may do to the records: the files that are kept lose none and  *)
(* get none, and their versions do not go back.                              *)
RecordsStay ==
  \A i \in Inodes : IsKept(i) => inode'[i].recs = inode[i].recs /\ inode[i].ver <= inode'[i].ver

(* Then what the journals say of the records stays.                          *)
LEMMA RunStays ==
  ASSUME StateOK, inode' \in [Inodes -> Files], RecordsStay, NEW r \in RunIDs, NEW S,
         RunHolds(runs[r], inode, S)
  PROVE  RunHolds(runs[r], inode', S)
<1> DEFINE run == runs[r]
           s == run.source[1]
           c == run.candidate[1]
<1>1. ASSUME s \in Inodes
      PROVE  /\ inode'[s].recs = inode[s].recs /\ inode[s].ver <= inode'[s].ver
             /\ inode[s].ver \in Nat /\ inode'[s].ver \in Nat
  <2>1. IsKept(s)
    BY DEF IsKept
  <2> QED BY <1>1, <2>1 DEF RecordsStay, StateOK, Files
<1>2. ASSUME c \in Inodes PROVE inode'[c].recs = inode[c].recs
  <2>1. IsKept(c)
    BY DEF IsKept
  <2> QED BY <1>2, <2>1 DEF RecordsStay
<1>3. run.source[2] \in Nat
  BY DEF StateOK, Journals
<1>4. run.phase # "none" => SourceFenced(run, inode')
  BY <1>1, <1>3 DEF RunHolds, SourceFenced
<1>5. run.phase # "none" => s \in Inodes /\ run.source[2] <= inode[s].ver
  BY DEF RunHolds, SourceFenced
<1>6. ForwardHolds(run, inode', S)
  <2> SUFFICES ASSUME run.phase \in {"candidate_verified", "swap_intent"}
               PROVE  /\ c \in Inodes
                      /\ inode'[s].ver = run.source[2] /\ S \subseteq inode'[s].recs =>
                           S \subseteq inode'[c].recs
    BY DEF ForwardHolds
  <2>1. /\ c \in Inodes
        /\ inode[s].ver = run.source[2] /\ S \subseteq inode[s].recs => S \subseteq inode[c].recs
    BY DEF RunHolds, ForwardHolds
  <2> HIDE DEF run, s, c
  <2> QED BY <1>1, <1>2, <1>3, <1>5, <2>1
<1>7. ReturnHolds(run, inode', S)
  <2> SUFFICES ASSUME run.phase = "rollback_swap_intent"
               PROVE  /\ c \in Inodes /\ ~Gentle
                      /\ S \subseteq inode'[c].recs => S \subseteq inode'[s].recs
    BY DEF ReturnHolds
  <2>1. /\ c \in Inodes /\ ~Gentle
        /\ S \subseteq inode[c].recs => S \subseteq inode[s].recs
    BY DEF RunHolds, ReturnHolds
  <2> QED BY <1>1, <1>2, <1>5, <2>1
<1> QED BY <1>4, <1>6, <1>7 DEF RunHolds

(* Steps that leave the journals and what was acknowledged as they are, and  *)
(* the store where it is or where it was synced.                             *)
LEMMA RecordsQuiet ==
  ASSUME StateOK, StateOK', RecordsOK, RecordsStay, OnlyAcked', losses' \in Nat,
         UNCHANGED <<runs, acked, exposed>>,
         dir'.source = dir.source \/ (~Gentle /\ dir'.source = durable.source),
         durable'.source = dir.source \/ durable'.source = durable.source
  PROVE  RecordsOK'
<1> DEFINE S == Lasting(acked, exposed)
<1>1. \A r \in RunIDs : RunHolds(runs[r], inode', S)
  BY RunStays DEF RecordsOK, StateOK
<1>2. /\ inode'[dir.source].recs = inode[dir.source].recs
      /\ inode'[durable.source].recs = inode[durable.source].recs
  BY SourceKept DEF RecordsStay
<1>3. S \subseteq inode[dir.source].recs /\ (~Gentle => S \subseteq inode[durable.source].recs)
  BY DEF RecordsOK, StoreHolds
<1> HIDE DEF S
<1>4. S \subseteq inode'[dir'.source].recs /\ (~Gentle => S \subseteq inode'[durable'.source].recs)
  BY <1>2, <1>3
<1>5. StoreHolds'
  BY <1>4 DEF StoreHolds, S, Lasting, Gentle
<1>6. \A r \in RunIDs : RunHolds(runs[r], inode, Lasting(acked, exposed))'
  BY <1>1 DEF S, Lasting, Gentle, RunHolds, SourceFenced, ForwardHolds, ReturnHolds
<1> QED BY <1>5, <1>6 DEF RecordsOK

(* Files whose records stay.                                                 *)
LEMMA SameRecords ==
  ASSUME StateOK, \A i \in Inodes : inode'[i].recs = inode[i].recs /\ inode[i].ver <= inode'[i].ver,
         OnlyAcked, UNCHANGED acked
  PROVE  RecordsStay /\ OnlyAcked'
BY DEF RecordsStay, OnlyAcked

(* The candidate that is copied into is no kept file.                        *)
LEMMA BuildApart ==
  ASSUME FilesOK, WorkOK, CallsOK, NEW p, NEW step \in {"copy", "vacuum"}, At(p, step),
         Permits(step, task.run)
  PROVE  dir.candidate[task.run] \in Inodes /\ ~IsKept(dir.candidate[task.run])
<1> DEFINE c == dir.candidate[task.run]
<1>1. task.run \in RunIDs
  BY AtRun
<1>2. c \in InodeNo /\ c # 0
  BY <1>1, PermitFacts DEF FilesOK, StateOK, Directories
<1>3. c \in Inodes /\ Named(task.run, c)
  BY <1>2, InodeFacts DEF Named
<1>4. runs[task.run].phase \in Building
  BY HeadCall DEF CallSays, Building
<1> QED BY <1>1, <1>3, <1>4 DEF FilesOK, CandidatesApart

(* What a build does to the records.                                         *)
LEMMA BuildRecords ==
  ASSUME FilesOK, WorkOK, CallsOK, OnlyAcked, UNCHANGED acked, NEW p,
         NEW step \in {"copy", "vacuum"}, Build(p, step)
  PROVE  RecordsStay /\ OnlyAcked'
<1> DEFINE c == dir.candidate[task.run]
<1>1. c \in Inodes /\ ~IsKept(c)
  BY BuildApart DEF Build
<1>2. inode \in [Inodes -> Files] /\ dir.source \in Inodes
  BY SourceKept DEF FilesOK, StateOK
<1>3. CASE step = "copy"
  <2>1. inode' = [inode EXCEPT ![c].ver = 1, ![c].safe = FALSE]
    BY <1>3 DEF Build
  <2> HIDE DEF c
  <2>2. inode'[c].recs = inode[c].recs /\ \A i \in Inodes \ {c} : inode'[i] = inode[i]
    BY <1>1, <1>2, <2>1 DEF Files
  <2> QED BY <1>1, <1>2, <2>2 DEF RecordsStay, OnlyAcked, Files
<1>4. CASE step = "vacuum"
  <2>1. inode' = [inode EXCEPT ![c].whole = TRUE, ![c].recs = inode[dir.source].recs]
    BY <1>4 DEF Build
  <2> HIDE DEF c
  <2>2. inode'[c].recs = inode[dir.source].recs /\ \A i \in Inodes \ {c} : inode'[i] = inode[i]
    BY <1>1, <1>2, <2>1 DEF Files
  <2> QED BY <1>1, <1>2, <2>2 DEF RecordsStay, OnlyAcked, Files
<1> QED BY <1>3, <1>4

(* No step of a command writes a record to a kept file.                      *)
LEMMA StepRecords ==
  ASSUME FilesOK, WorkOK, CallsOK, OnlyAcked, UNCHANGED acked, NEW p, Step(p)
  PROVE  RecordsStay /\ OnlyAcked'
<1>1. inode \in [Inodes -> Files] /\ dir.source \in Inodes /\ StateOK
  BY SourceKept DEF FilesOK, StateOK
<1>2. \A i \in Inodes : inode[i].ver \in Nat
  BY <1>1 DEF Files
<1>3. CASE UNCHANGED inode
  BY <1>1, <1>2, <1>3, SameRecords
<1>4. CASE CompactInPlace(p)
  <2>1. inode' = [inode EXCEPT ![dir.source].ver = @ + 1]
    BY <1>4 DEF CompactInPlace
  <2>2. \A i \in Inodes : inode'[i].recs = inode[i].recs /\ inode[i].ver <= inode'[i].ver
    BY <1>1, <1>2, <2>1 DEF Files
  <2> QED BY <1>1, <2>2, SameRecords
<1>5. CASE PrepareCandidate(p)
  <2> DEFINE n == FreshInode
  <2>1. inode' = [inode EXCEPT ![n].made = TRUE]
    BY <1>5 DEF PrepareCandidate
  <2> HIDE DEF n
  <2>2. \A i \in Inodes : inode'[i].recs = inode[i].recs /\ inode'[i].ver = inode[i].ver
    BY <1>1, <2>1 DEF Files
  <2> QED BY <1>1, <1>2, <2>2, SameRecords
<1>6. CASE SyncCandidate(p)
  <2> DEFINE c == dir.candidate[task.run]
  <2>1. inode' = [inode EXCEPT ![c].safe = TRUE]
    BY <1>6 DEF SyncCandidate
  <2> HIDE DEF c
  <2>2. \A i \in Inodes : inode'[i].recs = inode[i].recs /\ inode'[i].ver = inode[i].ver
    BY <1>1, <2>1 DEF Files
  <2> QED BY <1>1, <1>2, <2>2, SameRecords
<1>7. CASE \E step \in {"copy", "vacuum"} : Build(p, step)
  BY <1>7, BuildRecords
<1> QED
  BY <1>3, <1>4, <1>5, <1>6, <1>7
  DEF Step, Refuse, SyncDir, Exchange, PublishRollback, PlanRun, PlanRefused, CancelBuild, Append1,
      RemoveCandidate, Inspect

(* Only an exchange changes the path of the store.                           *)
LEMMA StepSource ==
  ASSUME FilesOK, NEW p, Step(p), ~Exchange(p)
  PROVE  /\ dir'.source = dir.source
         /\ durable'.source = dir.source \/ durable'.source = durable.source
<1>1. dir \in Directories
  BY DEF FilesOK, StateOK
<1>2. CASE UNCHANGED dir
  BY <1>2 DEF Step, Refuse, SyncDir, PublishRollback, PrepareCandidate, SyncCandidate, PlanRun, PlanRefused,
              CompactInPlace, CancelBuild, Append1, RemoveCandidate, Build, Inspect, Relink
<1>3. CASE PublishRollback(p)
  <2>1. /\ dir' = [dir EXCEPT !.rollback[task.run] = dir.candidate[task.run], !.candidate[task.run] = 0]
        /\ UNCHANGED durable
    BY <1>3 DEF PublishRollback, Relink
  <2> QED BY <1>1, <2>1 DEF Directories
<1>4. CASE PrepareCandidate(p)
  <2> DEFINE n == FreshInode
  <2>1. dir' = [dir EXCEPT !.candidate[task.run] = n] /\ UNCHANGED durable
    BY <1>4 DEF PrepareCandidate, Relink
  <2> HIDE DEF n
  <2> QED BY <1>1, <2>1 DEF Directories
<1>5. ASSUME NEW step, RemoveCandidate(p, step)
      PROVE  dir'.source = dir.source /\ UNCHANGED durable
  <2>1. dir' = [dir EXCEPT !.candidate[task.run] = 0] /\ UNCHANGED durable
    BY <1>5 DEF RemoveCandidate, Relink
  <2> QED BY <1>1, <2>1 DEF Directories
<1> QED
  BY <1>2, <1>3, <1>4, <1>5
  DEF Step, Refuse, SyncDir, SyncCandidate, PlanRun, PlanRefused,
      CompactInPlace, CancelBuild, Append1, Build, Inspect

(* What was acknowledged stays the same.                                     *)
LEMMA StepHistory ==
  ASSUME IsTask(task), IsDir(dir), IsDir(durable), NEW p \in Procs, Step(p)
  PROVE  UNCHANGED <<acked, exposed, losses>> /\ task'.owner = task.owner /\ IsTask(task')
BY StepHasFrame DEF StepFrame, historyVars

(* The exchange: what it makes the store has the records that last.          *)
LEMMA ExchangeRecords ==
  ASSUME FilesOK, FilesOK', WorkOK, CallsOK, RecordsOK, UNCHANGED <<acked, exposed, losses>>,
         NEW p, Exchange(p)
  PROVE  RecordsOK'
<1> DEFINE r == task.run
           run == runs[r]
           S == Lasting(acked, exposed)
           fore == [dir EXCEPT !.source = dir.candidate[r], !.candidate[r] = dir.source]
           back == [dir EXCEPT !.source = dir.rollback[r], !.rollback[r] = dir.source]
<1>1. UNCHANGED <<inode, durable, runs>> /\ At(p, "exchange") /\ Permits("exchange", r)
      /\ dir' = IF run.phase = "rollback_swap_intent" THEN back ELSE fore
  BY DEF Exchange, Relink
<1>2. r \in RunIDs
  BY <1>1, AtRun
<1>3. ExchangeFence(r)
  BY <1>1, PermitFacts
<1>4. run.phase = "swap_intent" \/ run.phase = "rollback_swap_intent"
  BY <1>1, HeadCall DEF CallSays
<1>5. dir \in Directories /\ S \subseteq inode[dir.source].recs
  BY DEF FilesOK, StateOK, RecordsOK, StoreHolds
<1>6. RunHolds(run, inode, S)
  BY <1>2 DEF RecordsOK
<1>7. S \subseteq inode[dir'.source].recs
  <2>1. CASE run.phase = "swap_intent"
    <3>1. dir'.source = dir.candidate[r]
      BY <1>1, <1>5, <2>1 DEF Directories
    <3>2. Identity(dir.source) = run.source /\ Identity(dir.candidate[r]) = run.candidate
      BY <1>3, <2>1 DEF ExchangeFence
    <3>3. run.source[1] = dir.source /\ inode[dir.source].ver = run.source[2]
          /\ run.candidate[1] = dir.candidate[r]
      BY <3>2 DEF Identity
    <3>4. inode[run.source[1]].ver = run.source[2] /\ S \subseteq inode[run.source[1]].recs =>
            S \subseteq inode[run.candidate[1]].recs
      BY <1>6, <2>1 DEF RunHolds, ForwardHolds
    <3> QED BY <1>5, <3>1, <3>3, <3>4
  <2>2. CASE run.phase = "rollback_swap_intent"
    <3>1. dir'.source = dir.rollback[r]
      BY <1>1, <1>5, <2>2 DEF Directories
    <3>2. dir.source = run.candidate[1] /\ Identity(dir.rollback[r]) = run.source
      BY <1>3, <2>2 DEF ExchangeFence, samePublishedFile
    <3>3. run.source[1] = dir.rollback[r]
      BY <3>2 DEF Identity
    <3>4. S \subseteq inode[run.candidate[1]].recs => S \subseteq inode[run.source[1]].recs
      BY <1>6, <2>2 DEF RunHolds, ReturnHolds
    <3> QED BY <1>5, <3>1, <3>2, <3>3, <3>4
  <2> QED BY <1>4, <2>1, <2>2
<1>8. StoreHolds'
  BY <1>1, <1>7 DEF RecordsOK, StoreHolds, Lasting, Gentle
<1>9. OnlyAcked' /\ losses' \in Nat
  BY <1>1 DEF RecordsOK, OnlyAcked
<1>10. \A q \in RunIDs : RunHolds(runs[q], inode, Lasting(acked, exposed))'
  <2>1. UNCHANGED <<runs, inode, acked, exposed>>
    BY <1>1
  <2> QED BY <2>1 DEF RecordsOK, Lasting, Gentle, RunHolds, SourceFenced, ForwardHolds, ReturnHolds
<1> QED BY <1>8, <1>9, <1>10 DEF RecordsOK

(* A phase is recorded: a candidate as verified when it has the records of   *)
(* the store, a rollback as intended when it discards none.                  *)
LEMMA AppendRecords ==
  ASSUME FilesOK, WorkOK, LossInv, UNCHANGED <<acked, exposed, losses>>, NEW p,
         NEW phase \in Phases, Append1(p, phase)
  PROVE  RecordsOK'
<1> DEFINE r == task.run
           run == runs'[r]
           from == runs[r].phase
           S == Lasting(acked, exposed)
<1>1. /\ UNCHANGED <<dir, durable, inode>> /\ At(p, phase) /\ Permits(phase, r)
      /\ r \in RunIDs /\ from \in Phases
  BY AppendFacts
<1>2. /\ phase = "candidate_verified" => dir.candidate[r] \in Inodes
      /\ \A q \in RunIDs \ {r} : runs'[q] = runs[q]
      /\ run.phase = phase /\ run.source = runs[r].source
      /\ run.candidate =
           (IF phase = "candidate_verified" THEN Identity(dir.candidate[r]) ELSE runs[r].candidate)
  BY AppendFacts
<1>3. phase = "swap_intent" => from = "candidate_verified"
  BY <1>1, PermitFacts, AdvanceFacts DEF Advance
<1>4. Told(r, task.todo, runs, dir, inode) /\ Head(task.todo) = phase /\ task.todo # <<>>
  BY <1>1 DEF LossInv, ToldOK, At
<1>5. RunHolds(runs[r], inode, S) /\ S \subseteq inode[dir.source].recs
  BY <1>1 DEF LossInv, RecordsOK, StoreHolds
<1>6. from # "none"
  BY <1>1, PhaseFacts
<1> HIDE DEF S
<1>7. SourceFenced(run, inode)
  BY <1>2, <1>5, <1>6 DEF RunHolds, SourceFenced
<1>8. ForwardHolds(run, inode, S)
  <2>1. CASE phase = "candidate_verified"
    <3>1. run.candidate[1] = dir.candidate[r]
      BY <1>2, <2>1 DEF Identity
    <3>2. inode[dir.candidate[r]].recs = inode[dir.source].recs
      BY <1>2, <1>4, <2>1 DEF Told
    <3> QED BY <1>2, <1>5, <2>1, <3>1, <3>2 DEF ForwardHolds
  <2>2. CASE phase = "swap_intent"
    BY <1>2, <1>3, <1>5, <2>2 DEF RunHolds, ForwardHolds
  <2>3. CASE phase \notin {"candidate_verified", "swap_intent"}
    BY <1>2, <2>3 DEF ForwardHolds
  <2> QED BY <2>1, <2>2, <2>3
<1>9. ReturnHolds(run, inode, S)
  <2>1. CASE phase = "rollback_swap_intent"
    <3>1. /\ runs[r].candidate[1] \in Inodes /\ ~Gentle
          /\ inode[runs[r].candidate[1]].recs \subseteq inode[runs[r].source[1]].recs
      BY <1>4, <2>1 DEF Told
    <3> QED BY <1>2, <2>1, <3>1 DEF ReturnHolds
  <2>2. CASE phase # "rollback_swap_intent"
    BY <1>2, <2>2 DEF ReturnHolds
  <2> QED BY <2>1, <2>2
<1>10. RunHolds(run, inode, S)
  BY <1>7, <1>8, <1>9 DEF RunHolds
<1> HIDE DEF r, from
<1>11. \A q \in RunIDs : RunHolds(runs'[q], inode', S)
  BY <1>1, <1>2, <1>10 DEF LossInv, RecordsOK, S
<1>12. StoreHolds' /\ OnlyAcked' /\ losses' \in Nat
  BY <1>1 DEF LossInv, RecordsOK, StoreHolds, OnlyAcked, Lasting, Gentle
<1>13. \A q \in RunIDs : RunHolds(runs[q], inode, Lasting(acked, exposed))'
  BY <1>11 DEF S, Lasting, Gentle, RunHolds, SourceFenced, ForwardHolds, ReturnHolds
<1> QED BY <1>12, <1>13 DEF RecordsOK

(* A new run fences the store as it is.                                      *)
LEMMA PlanRecords ==
  ASSUME FilesOK, RecordsOK, UNCHANGED <<acked, exposed, losses>>, NEW p, PlanRun(p)
  PROVE  RecordsOK'
<1> DEFINE n == NextRunID
           S == Lasting(acked, exposed)
<1>1. /\ UNCHANGED <<dir, durable, inode>> /\ n \in RunIDs
      /\ \A r \in RunIDs \ {n} : runs'[r] = runs[r]
      /\ runs'[n].phase = "planned" /\ runs'[n].source = <<dir.source, inode[dir.source].ver>>
  BY PlanFacts
<1>2. dir.source \in Inodes /\ inode[dir.source].ver \in Nat
  BY SourceKept DEF FilesOK, StateOK, Files
<1>3. RunHolds(runs'[n], inode, S)
  BY <1>1, <1>2 DEF RunHolds, SourceFenced, ForwardHolds, ReturnHolds
<1> HIDE DEF n
<1>4. \A r \in RunIDs : RunHolds(runs'[r], inode', S)
  BY <1>1, <1>3 DEF RecordsOK
<1>5. StoreHolds' /\ OnlyAcked' /\ losses' \in Nat
  BY <1>1 DEF RecordsOK, StoreHolds, OnlyAcked, Lasting, Gentle
<1>6. \A q \in RunIDs : RunHolds(runs[q], inode, Lasting(acked, exposed))'
  BY <1>4 DEF Lasting, Gentle, RunHolds, SourceFenced, ForwardHolds, ReturnHolds
<1> QED BY <1>5, <1>6 DEF RecordsOK

(* So no step of a command loses a record.                                   *)
LEMMA StepLosesNone ==
  ASSUME FilesOK, FilesOK', WorkOK, CallsOK, LossInv, UNCHANGED <<acked, exposed, losses>>, NEW p, Step(p)
  PROVE  RecordsOK'
<1>1. CASE Exchange(p)
  BY <1>1, ExchangeRecords DEF LossInv
<1>2. CASE PlanRun(p)
  BY <1>2, PlanRecords DEF LossInv
<1>3. ASSUME NEW phase \in Phases, Append1(p, phase) PROVE RecordsOK'
  BY <1>3, AppendRecords
<1>4. CASE UNCHANGED runs /\ ~Exchange(p)
  <2>1. RecordsStay /\ OnlyAcked'
    BY StepRecords DEF LossInv, RecordsOK
  <2>2. /\ dir'.source = dir.source
        /\ durable'.source = dir.source \/ durable'.source = durable.source
    BY <1>4, StepSource
  <2>3. losses' \in Nat
    BY DEF LossInv, RecordsOK
  <2> QED BY <1>4, <2>1, <2>2, <2>3, RecordsQuiet DEF LossInv, FilesOK
<1> QED
  BY <1>1, <1>2, <1>3, <1>4
  DEF Step, Refuse, SyncDir, PublishRollback, PrepareCandidate, SyncCandidate, PlanRefused,
      CompactInPlace, CancelBuild, RemoveCandidate, Build, Inspect, Relink

-----------------------------------------------------------------------------
(* A connection is open only while no command is at work.                    *)
LEMMA WritersAreAlone ==
  ASSUME OwnedInv, NEW p \in Procs, conn[p] = "open"
  PROVE  task.owner = None
<1>1. ASSUME task.owner # None PROVE FALSE
  <2>1. task.owner \in Procs /\ excl[task.owner] = "held"
    BY <1>1 DEF OwnedInv, TaskOwned
  <2> QED BY <2>1 DEF OwnedInv, LeaseInv
<1> QED BY <1>1

(* A write: what the journals say of the records that last stays true of the *)
(* new one, which is in no other file, and which changes what it is written  *)
(* to or is exposed.                                                         *)
LEMMA WriteHolds ==
  ASSUME StateOK, NEW r \in RunIDs, NEW S, NEW T, NEW rec, NEW i \in Inodes,
         RunHolds(runs[r], inode, S), S \subseteq T, T \subseteq S \cup {rec},
         \A j \in Inodes : rec \notin inode[j].recs, rec \notin S,
         runs[r].phase = "rollback_swap_intent" /\ i = runs[r].candidate[1] => T = S,
         inode'[i].recs = inode[i].recs \cup {rec}, inode'[i].ver = inode[i].ver + 1,
         \A j \in Inodes \ {i} : inode'[j] = inode[j]
  PROVE  RunHolds(runs[r], inode', T)
<1> DEFINE run == runs[r]
           s == run.source[1]
           c == run.candidate[1]
<1>1. run.source[2] \in Nat /\ \A j \in Inodes : inode[j].ver \in Nat
  BY DEF StateOK, Journals, Files
<1>2. run.phase # "none" => s \in Inodes /\ run.source[2] <= inode[s].ver
  BY DEF RunHolds, SourceFenced
<1>3. T = S \/ rec \in T
  OBVIOUS
<1>4. ForwardHolds(run, inode, S) /\ ReturnHolds(run, inode, S)
  BY DEF RunHolds
<1> HIDE DEF run
<1>5. run.phase # "none" => SourceFenced(run, inode')
  BY <1>1, <1>2 DEF SourceFenced
<1>6. ForwardHolds(run, inode', T)
  <2> SUFFICES ASSUME run.phase \in {"candidate_verified", "swap_intent"}
               PROVE  /\ c \in Inodes
                      /\ inode'[s].ver = run.source[2] /\ T \subseteq inode'[s].recs =>
                           T \subseteq inode'[c].recs
    BY DEF ForwardHolds
  <2>1. /\ c \in Inodes
        /\ inode[s].ver = run.source[2] /\ S \subseteq inode[s].recs => S \subseteq inode[c].recs
    BY <1>4 DEF ForwardHolds
  <2>2. s \in Inodes /\ run.source[2] <= inode[s].ver
    BY <1>2
  <2>3. CASE s = i
    <3>1. inode'[s].ver # run.source[2]
      BY <1>1, <2>2, <2>3
    <3> QED BY <2>1, <3>1
  <2>4. CASE s # i
    <3>1. inode'[s] = inode[s] /\ rec \notin inode[s].recs
      BY <2>2, <2>4
    <3>2. inode[c].recs \subseteq inode'[c].recs
      BY <2>1
    <3>3. CASE T = S
      BY <2>1, <3>1, <3>2, <3>3
    <3>4. CASE rec \in T
      BY <2>1, <3>1, <3>4
    <3> QED BY <1>3, <3>3, <3>4
  <2> QED BY <2>3, <2>4
<1>7. ReturnHolds(run, inode', T)
  <2> SUFFICES ASSUME run.phase = "rollback_swap_intent"
               PROVE  /\ c \in Inodes /\ ~Gentle
                      /\ T \subseteq inode'[c].recs => T \subseteq inode'[s].recs
    BY DEF ReturnHolds
  <2>1. /\ c \in Inodes /\ ~Gentle
        /\ S \subseteq inode[c].recs => S \subseteq inode[s].recs
    BY <1>4 DEF ReturnHolds
  <2>2. s \in Inodes /\ inode[s].recs \subseteq inode'[s].recs
    BY <1>2
  <2>3. T = S \/ i # c
    BY DEF run
  <2>4. CASE T = S
    <3>1. S \subseteq inode'[c].recs => S \subseteq inode[c].recs
      BY <2>1
    <3> QED BY <2>1, <2>2, <2>4, <3>1
  <2>5. CASE i # c /\ rec \in T
    <3>1. inode'[c] = inode[c] /\ rec \notin inode[c].recs
      BY <2>1, <2>5
    <3> QED BY <2>1, <2>5, <3>1
  <2> QED BY <1>3, <2>3, <2>4, <2>5
<1> QED BY <1>5, <1>6, <1>7 DEF RunHolds, run

(* A hook's write: the record is in the store, and is exposed where a power  *)
(* loss or an intended rollback could discard it.                            *)
LEMMA WriteRecords ==
  ASSUME OwnedInv, FilesOK, HistoryOK, RecordsOK, NEW p \in Procs, NEW rec \in Records, Write(p, rec)
  PROVE  RecordsOK'
<1> DEFINE i == opened[p]
           S == Lasting(acked, exposed)
           T == Lasting(acked', exposed')
           lost == RollbackIntended \/ dir.source # durable.source
<1>1. i = dir.source /\ i \in Inodes /\ durable.source \in Inodes /\ inode \in [Inodes -> Files]
  BY SourceKept DEF Write, OwnedInv, NoDisplacedWriter, FilesOK, StateOK
<1>2. /\ rec \notin acked /\ acked' = acked \cup {rec}
      /\ exposed' = IF lost THEN exposed \cup {rec} ELSE exposed
      /\ UNCHANGED <<dir, durable, runs, losses>>
  BY DEF Write
<1>3. inode' = [inode EXCEPT ![i].recs = @ \cup {rec}, ![i].ver = @ + 1]
  BY DEF Write
<1>4. exposed \subseteq acked
  BY DEF HistoryOK
<1>5. \A j \in Inodes : inode[j].recs \subseteq acked
  BY DEF RecordsOK, OnlyAcked
<1>6. S \subseteq inode[dir.source].recs /\ (~Gentle => S \subseteq inode[durable.source].recs)
  BY DEF RecordsOK, StoreHolds
<1> HIDE DEF i, lost
<1>7. /\ inode'[i].recs = inode[i].recs \cup {rec} /\ inode'[i].ver = inode[i].ver + 1
      /\ \A j \in Inodes \ {i} : inode'[j] = inode[j]
  BY <1>1, <1>3 DEF Files
<1>8. /\ S \subseteq T /\ T \subseteq S \cup {rec} /\ rec \notin S
      /\ ~Gentle /\ lost => T = S
  BY <1>2, <1>4 DEF Lasting
<1> HIDE DEF S, T
<1>9. T \subseteq inode'[dir.source].recs
  BY <1>1, <1>6, <1>7, <1>8
<1>10. ~Gentle => T \subseteq inode'[durable.source].recs
  <2>1. CASE dir.source = durable.source
    BY <1>9, <2>1
  <2>2. CASE dir.source # durable.source
    <3>1. lost /\ inode'[durable.source] = inode[durable.source]
      BY <1>1, <1>7, <2>2 DEF lost
    <3> QED BY <1>6, <1>8, <3>1
  <2> QED BY <2>1, <2>2
<1>11. ASSUME NEW r \in RunIDs PROVE RunHolds(runs[r], inode', T)
  <2>1. RunHolds(runs[r], inode, S)
    BY DEF RecordsOK, S
  <2>2. runs[r].phase = "rollback_swap_intent" /\ i = runs[r].candidate[1] => T = S
    <3> SUFFICES ASSUME runs[r].phase = "rollback_swap_intent", i = runs[r].candidate[1]
                 PROVE  T = S
      OBVIOUS
    <3>1. ~Gentle
      BY <2>1 DEF RunHolds, ReturnHolds
    <3>2. lost
      BY <1>1 DEF lost, RollbackIntended
    <3> QED BY <1>8, <3>1, <3>2
  <2>3. \A j \in Inodes : rec \notin inode[j].recs
    BY <1>2, <1>5
  <2> QED BY <1>1, <1>7, <1>8, <2>1, <2>2, <2>3, WriteHolds DEF FilesOK
<1>12. StoreHolds'
  BY <1>2, <1>9, <1>10 DEF StoreHolds, T, Lasting, Gentle
<1>13. OnlyAcked' /\ losses' \in Nat
  BY <1>1, <1>2, <1>5, <1>7 DEF RecordsOK, OnlyAcked
<1>14. \A r \in RunIDs : RunHolds(runs[r], inode, Lasting(acked, exposed))'
  BY <1>2, <1>11 DEF T, Lasting, Gentle, RunHolds, SourceFenced, ForwardHolds, ReturnHolds
<1> QED BY <1>12, <1>13, <1>14 DEF RecordsOK

(* Nothing is claimed by a command that has nothing to do.                   *)
LEMMA NothingTold ==
  ASSUME task'.todo = <<>>
  PROVE  ToldOK'
<1>1. Told(task'.run, task'.todo, runs', dir', inode')
  BY DEF Told
<1> QED BY <1>1 DEF ToldOK

(* The steps that leave the files and the journals alone.                    *)
LEMMA IdleLosesNone ==
  ASSUME FilesOK, FilesOK', LossInv, UNCHANGED <<dir, durable, inode, runs, acked, exposed, losses>>,
         task' \in {task, NoTask}
  PROVE  LossInv'
<1>1. RecordsStay /\ OnlyAcked'
  <2>1. \A i \in Inodes : inode[i].ver \in Nat
    BY DEF FilesOK, StateOK, Files
  <2> QED BY <2>1 DEF RecordsStay, LossInv, RecordsOK, OnlyAcked
<1>2. RecordsOK'
  BY <1>1, RecordsQuiet DEF LossInv, RecordsOK, FilesOK
<1>3. CASE task' = task
  <2>1. Told(task.run, task.todo, runs, dir, inode)' /\ (task.todo # <<>> => task.owner # None)'
    BY <1>3 DEF LossInv, ToldOK
  <2> QED BY <1>2, <2>1 DEF LossInv, ToldOK
<1>4. CASE task' = NoTask
  BY <1>2, <1>4, NothingTold DEF LossInv, NoTask
<1> QED BY <1>3, <1>4

(* Hooks open, write and close while no command is at work.                  *)
LEMMA HookLosesNone ==
  ASSUME OwnedInv, FilesOK, FilesOK', HistoryOK, LossInv, NEW p \in Procs, HookStep(p)
  PROVE  LossInv'
<1>1. CASE Open(p) \/ CloseStore(p)
  BY <1>1, IdleLosesNone DEF Open, CloseStore, storeVars
<1>2. ASSUME NEW rec \in Records, Write(p, rec) PROVE LossInv'
  <2>1. UNCHANGED task /\ conn[p] = "open"
    BY <1>2 DEF Write
  <2>2. task'.todo = <<>>
    BY <2>1, WritersAreAlone DEF LossInv, ToldOK
  <2> QED BY <1>2, <2>2, NothingTold, WriteRecords DEF LossInv
<1> QED BY <1>1, <1>2 DEF HookStep

(* A sweep removes names, and no file that is kept.                          *)
LEMMA SweepLosesNone ==
  ASSUME OwnedInv, FilesOK, FilesOK', WorkOK, KeptOK, LossInv, Sweeping
  PROVE  LossInv'
<1>1. UNCHANGED <<durable, inode, runs, task, acked, exposed, losses>>
  BY DEF Sweeping, SweepList, SweepEnd, SweepRead, SweepRemove, storeVars
<1>2. /\ dir'.source = dir.source
      /\ \A q \in RunIDs : dir'.candidate[q] \in {0, dir.candidate[q]}
  <2>1. CASE UNCHANGED dir
    BY <2>1
  <2>2. ASSUME NEW r \in RunIDs, SweepRemove(r)
        PROVE  /\ dir'.source = dir.source
               /\ \A q \in RunIDs : dir'.candidate[q] \in {0, dir.candidate[q]}
    BY <2>2, RemovedBySweep
  <2> QED BY <2>1, <2>2 DEF Sweeping, SweepList, SweepEnd, SweepRead, storeVars
<1>3. RecordsStay /\ OnlyAcked'
  <2>1. \A i \in Inodes : inode[i].ver \in Nat
    BY DEF FilesOK, StateOK, Files
  <2> QED BY <1>1, <2>1 DEF RecordsStay, LossInv, RecordsOK, OnlyAcked
<1>4. RecordsOK'
  BY <1>1, <1>2, <1>3, RecordsQuiet DEF LossInv, RecordsOK, FilesOK
<1>5. Told(task.run, task.todo, runs, dir', inode)
  <2>1. task.run # None => task.run \in RunIDs
    BY DEF WorkOK, Work
  <2>2. task.run = None => task.todo \in {<<>>, <<"plan">>, <<"refuse">>}
    BY DEF WorkOK, Work
  <2>3. task.todo # <<>> /\ Head(task.todo) = "candidate_verified" => task.run \in RunIDs
    BY <2>1, <2>2
  <2> QED BY <1>2, <2>3, InodeFacts DEF LossInv, ToldOK, Told
<1>6. ToldOK'
  BY <1>1, <1>5 DEF LossInv, ToldOK
<1> QED BY <1>4, <1>6 DEF LossInv

(* A power loss tears no kept file, and the store it finds on disk has the   *)
(* records that were not exposed.                                            *)
LEMMA PowerLossLosesNone ==
  ASSUME FilesOK, FilesOK', LossInv, PowerLoss
  PROVE  LossInv'
<1>1. /\ dir' \in {dir, durable} /\ durable' = dir' /\ UNCHANGED <<runs, acked, exposed>>
      /\ task' = NoTask /\ losses < MaxPowerLoss /\ losses' = losses + 1
  BY DEF PowerLoss
<1>2. losses \in Nat /\ OnlyAcked /\ RecordsOK
  BY DEF LossInv, RecordsOK
<1>3. ~Gentle /\ losses' \in Nat
  BY <1>1, <1>2 DEF Gentle
<1>4. PICK torn \in SUBSET {i \in 1..MaxInode : ~inode[i].safe} :
        inode' = [i \in 1..MaxInode |-> IF i \in torn THEN [inode[i] EXCEPT !.whole = FALSE] ELSE inode[i]]
  BY DEF PowerLoss
<1>5. inode \in [Inodes -> Files]
  BY DEF FilesOK, StateOK
<1>6. ASSUME NEW i \in Inodes PROVE inode'[i].recs = inode[i].recs /\ inode[i].ver <= inode'[i].ver
  <2>1. inode'[i] = [inode[i] EXCEPT !.whole = FALSE] \/ inode'[i] = inode[i]
    BY <1>4, <1>6 DEF Inodes
  <2>2. inode'[i].recs = inode[i].recs /\ inode'[i].ver = inode[i].ver
    BY <1>5, <1>6, <2>1 DEF Files
  <2>3. inode[i].ver \in Nat
    BY <1>5, <1>6 DEF Files
  <2> QED BY <2>2, <2>3
<1>7. RecordsStay /\ OnlyAcked'
  BY <1>1, <1>2, <1>6, SameRecords DEF FilesOK
<1>8. RecordsOK'
  BY <1>1, <1>2, <1>3, <1>7, RecordsQuiet DEF FilesOK
<1>9. ToldOK'
  BY <1>1, NothingTold DEF NoTask
<1> QED BY <1>8, <1>9 DEF LossInv

-----------------------------------------------------------------------------
(* What a command has established when it comes to what is left.             *)

(* Nothing, of what a run has to do in a phase.                              *)
LEMMA ApplyTold ==
  ASSUME NEW phase \in DOMAIN ApplySteps
  PROVE  /\ ApplySteps[phase] # <<>>
         /\ Head(ApplySteps[phase]) \notin {"candidate_verified", "rollback_swap_intent"}
<1> DEFINE todo == ApplySteps[phase]
<1>1. todo \in {<<"recheck", "copy_intent">>, <<"create", "sync_dir", "candidate_prepared">>,
                <<"copy", "vacuum", "copy_complete">>, <<"candidate_sync_intent">>,
                <<"sync_file", "sync_dir", "candidate_synced">>, <<"scrub_in_progress">>,
                <<"verify", "candidate_verified">>, <<"swap_intent">>,
                <<"exchange", "sync_dir", "swapped">>, <<"rollback_publish_intent">>,
                <<"publish", "sync_dir", "rollback_ready">>, <<"committed">>}
  <2>1. phase \in {"planned", "copy_intent", "copy_retry_intent", "candidate_prepared", "copy_complete",
                   "candidate_sync_intent", "candidate_synced", "scrub_in_progress", "candidate_verified",
                   "swap_intent", "swapped", "rollback_publish_intent", "rollback_ready"}
    BY DEF ApplySteps
  <2> QED BY <2>1 DEF ApplySteps
<1> HIDE DEF todo
<1>2. todo # <<>> /\ Head(todo) \notin {"candidate_verified", "rollback_swap_intent"}
  BY <1>1
<1> QED BY <1>2 DEF todo

(* Going on with a command.                                                  *)
LEMMA ContinueTold ==
  ASSUME NEW c, IsTask(c), NEW phase, NEW todo, NEW rs, NEW d, NEW f, Told(c.run, todo, rs, d, f)
  PROVE  LET n == Continue(c, phase, todo)
         IN  Told(n.run, n.todo, rs, d, f) /\ n.owner = c.owner
<1> DEFINE n == Continue(c, phase, todo)
<1>1. n.run = c.run /\ n.owner = c.owner
  BY DEF IsTask, Continue
<1>2. \/ n.todo = todo \/ n.todo = <<>>
      \/ n.todo = ApplySteps[phase] /\ phase \in DOMAIN ApplySteps
  BY DEF IsTask, Continue
<1> HIDE DEF n
<1>3. CASE n.todo = todo
  BY <1>1, <1>3 DEF n
<1>4. CASE n.todo = <<>>
  BY <1>1, <1>4 DEF Told, n
<1>5. CASE n.todo = ApplySteps[phase] /\ phase \in DOMAIN ApplySteps
  <2>1. Head(n.todo) \notin {"candidate_verified", "rollback_swap_intent"}
    BY <1>5, ApplyTold
  <2> QED BY <1>1, <2>1 DEF Told, n
<1> QED BY <1>2, <1>3, <1>4, <1>5

(* A step that takes the first of what is left.                              *)
LEMMA PopTold ==
  ASSUME IsTask(task), task.owner # None, NEW phase, Pop(phase),
         Told(task.run, Tail(task.todo), runs', dir', inode')
  PROVE  ToldOK'
<1>1. task' = Continue(task, phase, Tail(task.todo))
  BY DEF Pop
<1>2. Told(task'.run, task'.todo, runs', dir', inode') /\ task'.owner = task.owner
  BY <1>1, ContinueTold
<1> QED BY <1>2 DEF ToldOK

(* After a step that is no check of the candidate, what is left claims       *)
(* nothing.                                                                  *)
LEMMA RestTold ==
  ASSUME WorkOK, CallsOK, NEW p, NEW step, At(p, step),
         step \in PlainSteps \cup {"copy", "sync_file", "candidate_synced", "candidate_verified"},
         NEW rs, NEW d, NEW f
  PROVE  Told(task.run, Tail(task.todo), rs, d, f)
<1> DEFINE rest == Tail(task.todo)
<1>1. CallSays(step, rest, task.run, runs[task.run], dir, durable, inode, swept)
  BY HeadCall
<1>2. HeadSays(step, rest, task.run, task.kind, runs, dir, durable, inode)
  <2>1. Head(task.todo) = step /\ task.todo # <<>>
    BY DEF At
  <2> QED BY <2>1, WorkHead DEF WorkOK
<1> HIDE DEF rest
<1>3. \/ rest \in Seq(PlainSteps)
      \/ rest \in {<<"abandoned", "plan">>, <<"plan">>, <<"sync_dir", "candidate_synced">>,
                   <<"candidate_synced">>}
  BY <1>2, PlainFacts DEF HeadSays
<1>4. \/ rest \in Seq(QuietSteps)
      \/ rest \in {<<"vacuum", "copy_complete">>, <<"sync_dir", "swapped">>, <<"swapped">>,
                   <<"sync_dir", "rollback_ready">>, <<"rollback_ready">>, ReturnSteps}
  BY <1>1 DEF CallSays
<1>5. rest # <<>> => Head(rest) # "candidate_verified"
  <2>1. CASE rest \in Seq(PlainSteps)
    BY <2>1, HeadTailProperties, PlainFacts
  <2>2. CASE rest \in {<<"abandoned", "plan">>, <<"plan">>, <<"sync_dir", "candidate_synced">>,
                       <<"candidate_synced">>}
    BY <2>2
  <2> QED BY <1>3, <2>1, <2>2
<1>6. rest # <<>> => Head(rest) # "rollback_swap_intent"
  <2>1. CASE rest \in Seq(QuietSteps)
    BY <2>1, HeadTailProperties, QuietFacts
  <2>2. CASE rest \in {<<"vacuum", "copy_complete">>, <<"sync_dir", "swapped">>, <<"swapped">>,
                       <<"sync_dir", "rollback_ready">>, <<"rollback_ready">>, ReturnSteps}
    BY <2>2 DEF ReturnSteps
  <2> QED BY <1>4, <2>1, <2>2
<1> QED BY <1>5, <1>6 DEF Told, rest

(* A candidate that passes its check has the records of the store.           *)
LEMMA VerifyTold ==
  ASSUME FilesOK, WorkOK, IsTask(task), task.owner # None, NEW p, Inspect(p, "verify")
  PROVE  ToldOK'
<1>1. /\ UNCHANGED <<dir, inode, runs>> /\ At(p, "verify") /\ Permits("verify", task.run)
      /\ Pop(runs[task.run].phase)
  BY DEF Inspect
<1>2. VerifyPair(task.run)
  BY <1>1, PhaseFacts DEF Permits
<1>3. Tail(task.todo) = <<"candidate_verified">>
  <2>1. Head(task.todo) = "verify" /\ task.todo # <<>>
    BY <1>1 DEF At
  <2> QED BY <2>1, WorkHead DEF WorkOK, HeadSays
<1>4. Head(Tail(task.todo)) = "candidate_verified"
  <2>1. Head(<<"candidate_verified">>) = "candidate_verified"
    OBVIOUS
  <2> QED BY <1>3, <2>1, Zenon
<1>5. Told(task.run, Tail(task.todo), runs, dir, inode)
  BY <1>2, <1>4 DEF Told, VerifyPair
<1> QED BY <1>1, <1>5, PopTold

(* Every step of a command.                                                  *)
LEMMA StepTold ==
  ASSUME FilesOK, WorkOK, CallsOK, IsTask(task), task.owner # None, NEW p, Step(p)
  PROVE  ToldOK'
<1>1. ASSUME NEW step, At(p, step),
             step \in PlainSteps \cup {"copy", "sync_file", "candidate_synced", "candidate_verified"},
             NEW phase, Pop(phase)
      PROVE  ToldOK'
  BY <1>1, RestTold, PopTold
<1>2. CASE Refuse(p) \/ PlanRefused(p) \/ CompactInPlace(p)
  <2>1. End("failed") \/ End("done")
    BY <1>2 DEF Refuse, PlanRefused, CompactInPlace
  <2>2. task'.todo = <<>>
    BY <2>1 DEF End, IsTask
  <2> QED BY <2>2, NothingTold
<1>3. CASE SyncDir(p)
  BY <1>1, <1>3, PlainFacts DEF SyncDir
<1>4. ASSUME NEW step \in {"exchange", "publish", "create", "unlink", "abandon"}, NEW entries,
             Relink(p, step, entries)
      PROVE  ToldOK'
  BY <1>1, <1>4, PlainFacts DEF Relink
<1>5. CASE Exchange(p) \/ PublishRollback(p) \/ PrepareCandidate(p)
  BY <1>4, <1>5 DEF Exchange, PublishRollback, PrepareCandidate
<1>6. ASSUME NEW step \in {"unlink", "abandon"}, RemoveCandidate(p, step) PROVE ToldOK'
  BY <1>4, <1>6 DEF RemoveCandidate
<1>7. CASE SyncCandidate(p)
  BY <1>1, <1>7 DEF SyncCandidate
<1>8. ASSUME NEW step \in {"copy", "vacuum"}, Build(p, step) PROVE ToldOK'
  BY <1>1, <1>8, PlainFacts DEF Build
<1>9. ASSUME NEW step \in {"recheck", "verify"}, Inspect(p, step) PROVE ToldOK'
  <2>1. CASE step = "recheck"
    BY <1>1, <1>9, <2>1, PlainFacts DEF Inspect
  <2>2. CASE step = "verify"
    BY <1>9, <2>2, VerifyTold
  <2> QED BY <2>1, <2>2
<1>10. ASSUME NEW phase \in Phases, Append1(p, phase) PROVE ToldOK'
  BY <1>1, <1>10, PlainFacts DEF Append1
<1>11. CASE CancelBuild(p)
  <2>1. task'.todo = <<"abandon", "abandoned">> /\ task'.owner = task.owner
    BY <1>11 DEF CancelBuild, IsTask
  <2>2. Head(task'.todo) = "abandon"
    BY <2>1
  <2>3. Told(task'.run, task'.todo, runs', dir', inode')
    BY <2>2 DEF Told
  <2> QED BY <2>1, <2>3 DEF ToldOK
<1>12. CASE PlanRun(p)
  <2> DEFINE c == [task EXCEPT !.run = NextRunID]
  <2>1. task' = Continue(c, "planned", <<>>)
    BY <1>12 DEF PlanRun
  <2>2. IsTask(c) /\ c.owner = task.owner
    BY TaskExcept
  <2>3. Told(c.run, <<>>, runs', dir', inode')
    BY DEF Told
  <2> HIDE DEF c
  <2>4. Told(task'.run, task'.todo, runs', dir', inode') /\ task'.owner = c.owner
    BY <2>1, <2>2, <2>3, ContinueTold
  <2> QED BY <2>2, <2>4 DEF ToldOK
<1> QED
  BY <1>2, <1>3, <1>5, <1>6, <1>7, <1>8, <1>9, <1>10, <1>11, <1>12 DEF Step

(* A command begins.                                                         *)
LEMMA BeginTold ==
  ASSUME NEW p \in Procs, NEW kind, NEW r, NEW todo, Begin(p, kind, r, todo),
         Told(r, todo, runs, dir, inode)
  PROVE  ToldOK'
<1> DEFINE phase == IF r = None THEN "none" ELSE runs[r].phase
<1>1. PICK c : IsTask(c) /\ c.owner = p /\ c.run = r /\ task' = Continue(c, phase, todo)
  BY BeginTask
<1>2. UNCHANGED <<runs, dir, inode>>
  BY DEF Begin
<1> HIDE DEF phase
<1>3. Told(task'.run, task'.todo, runs, dir, inode) /\ task'.owner = p
  BY <1>1, ContinueTold
<1>4. p # None
  BY LeaseAssumption
<1> QED BY <1>2, <1>3, <1>4 DEF ToldOK

(* A rollback that will record its intent discards no record: the guard has  *)
(* compared the store with the file it will restore.                         *)
LEMMA RollbackTold ==
  ASSUME FilesOK, ~Gentle, NEW r \in RunIDs
  PROVE  Told(r, RollbackSteps(r), runs, dir, inode)
<1> DEFINE phase == runs[r].phase
           placement == Observe(r)
           refused == phase \notin RollbackPhases \/ dir.rollback[r] = 0 \/ AtRisk(r) # {}
           back == (IF phase = "rollback_swap_intent" THEN <<>> ELSE <<"rollback_swap_intent">>) \o ReturnSteps
           todo == RollbackSteps(r)
<1>1. todo # <<>> => Head(todo) # "candidate_verified"
  BY RollbackIsPlain, HeadTailProperties, PlainFacts
<1>2. refused => todo = <<"refuse">>
  BY DEF RollbackSteps
<1>3. ~refused =>
        todo = CASE placement = "rolled_back" /\ phase = "rollback_swap_intent" ->
                      <<"rollback_swapped", "rolled_back">>
                 [] placement = "rolled_back" /\ phase = "rollback_swapped" -> <<"rolled_back">>
                 [] placement = "rollback_ready" -> back
                 [] OTHER -> <<"refuse">>
  BY DEF RollbackSteps, ReturnSteps
<1>4. ASSUME Head(todo) = "rollback_swap_intent" PROVE ~refused /\ placement = "rollback_ready"
  <2> HIDE DEF refused, placement, phase, back, todo
  <2>1. ~refused
    BY <1>2, <1>4
  <2>2. placement # "rollback_ready" =>
          todo \in {<<"rollback_swapped", "rolled_back">>, <<"rolled_back">>, <<"refuse">>}
    BY <1>3, <2>1
  <2> QED BY <1>4, <2>1, <2>2
<1>5. ASSUME Head(todo) = "rollback_swap_intent"
      PROVE  /\ runs[r].candidate[1] \in Inodes
             /\ inode[runs[r].candidate[1]].recs \subseteq inode[runs[r].source[1]].recs
  <2>1. AtRisk(r) = {} /\ Observe(r) = "rollback_ready"
    BY <1>4, <1>5
  <2>2. dir.source = runs[r].candidate[1] /\ Identity(dir.rollback[r]) = runs[r].source
    BY <2>1, ObserveFacts
  <2>3. runs[r].source[1] = dir.rollback[r] /\ dir.source \in Inodes
    BY <2>2, SourceKept DEF Identity, FilesOK
  <2> QED BY <2>1, <2>2, <2>3 DEF AtRisk
<1> HIDE DEF todo
<1> QED BY <1>1, <1>5 DEF Told, todo

(* The start of a command.                                                   *)
LEMMA StartLosesNone ==
  ASSUME FilesOK, FilesOK', LossInv, NEW p \in Procs, CommandStart(p)
  PROVE  LossInv'
<1>1. ASSUME NEW kind, NEW r, NEW todo, Begin(p, kind, r, todo), Told(r, todo, runs, dir, inode)
      PROVE  LossInv'
  <2>1. UNCHANGED <<dir, durable, inode, runs, acked, exposed, losses>>
    BY <1>1 DEF Begin, historyVars
  <2>2. RecordsStay /\ OnlyAcked'
    <3>1. \A i \in Inodes : inode[i].ver \in Nat
      BY DEF FilesOK, StateOK, Files
    <3> QED BY <2>1, <3>1 DEF RecordsStay, LossInv, RecordsOK, OnlyAcked
  <2>3. RecordsOK'
    BY <2>1, <2>2, RecordsQuiet DEF LossInv, RecordsOK, FilesOK
  <2>4. ToldOK'
    BY <1>1, BeginTold
  <2> QED BY <2>3, <2>4 DEF LossInv
<1>2. \A r : \A todo \in {<<>>, <<"plan">>, <<"refuse">>, <<"swap_intent">>, <<"abandon", "abandoned">>,
                          <<"abandon", "abandoned", "plan">>} :
        Told(r, todo, runs, dir, inode)
  BY DEF Told
<1>3. ASSUME NEW r \in RunIDs PROVE Told(r, RecoverySteps(r), runs, dir, inode)
  <2> DEFINE todo == RecoverySteps(r)
  <2>1. todo \in Seq(PlainSteps) /\ NoIntent(todo)
    BY CompactionAssumption, RecoveryIsPlain, RecoveryCalls
  <2> HIDE DEF todo
  <2>2. todo # <<>> => Head(todo) # "candidate_verified"
    BY <2>1, HeadTailProperties, PlainFacts
  <2>3. Told(r, todo, runs, dir, inode)
    BY <2>1, <2>2 DEF Told, NoIntent
  <2> QED BY <2>3 DEF todo
<1>4. CASE Compact(p)
  <2>1. ASSUME NEW r \in RunIDs,
               Begin(p, "compact", r,
                 IF Stale(r) THEN <<"abandon", "abandoned", "plan">> ELSE RecoverySteps(r))
        PROVE  LossInv'
    <3>1. CASE Stale(r)
      BY <1>1, <1>2, <2>1, <3>1
    <3>2. CASE ~Stale(r)
      BY <1>1, <1>3, <2>1, <3>2
    <3> QED BY <3>1, <3>2
  <2> QED BY <1>1, <1>2, <1>4, <2>1 DEF Compact
<1>5. CASE Rollback(p)
  <2>1. PICK r \in RunIDs : Begin(p, "rollback", r, RollbackSteps(r))
    BY <1>5 DEF Rollback
  <2>2. ~Gentle
    BY <2>1 DEF Begin, Gentle
  <2> QED BY <1>1, <2>1, <2>2, RollbackTold
<1>6. CASE AbandonStalePrePublication(p)
  <2>1. PICK r \in RunIDs : Begin(p, "doctor", r, IF Stale(r) THEN <<"abandon", "abandoned">> ELSE <<>>)
    BY <1>6 DEF AbandonStalePrePublication
  <2> QED BY <1>1, <1>2, <2>1
<1>7. CASE RunUpgrade(p)
  <2>1. ASSUME NEW r \in RunIDs,
               Begin(p, "upgrade", r,
                 IF runs[r].phase = "candidate_verified" THEN <<"swap_intent">> ELSE RecoverySteps(r))
        PROVE  LossInv'
    <3>1. CASE runs[r].phase = "candidate_verified"
      BY <1>1, <1>2, <2>1, <3>1
    <3>2. CASE runs[r].phase # "candidate_verified"
      BY <1>1, <1>3, <2>1, <3>2
    <3> QED BY <3>1, <3>2
  <2> QED BY <1>1, <1>2, <1>7, <2>1 DEF RunUpgrade
<1> QED BY <1>4, <1>5, <1>6, <1>7 DEF CommandStart

(* Nothing is acknowledged at first.                                         *)
LEMMA LossInvInit == CompactionInit => LossInv
<1> SUFFICES ASSUME CompactionInit PROVE LossInv
  OBVIOUS
<1>1. /\ acked = {} /\ exposed = {} /\ losses = 0 /\ task.todo = <<>>
      /\ \A r \in RunIDs : runs[r].phase = "none"
  BY DEF CompactionInit, NoTask, NoRun
<1>2. StoreHolds /\ losses \in Nat
  BY <1>1 DEF StoreHolds, Lasting
<1>3. OnlyAcked
  <2>1. inode = [i \in 1..MaxInode |-> IF i = 1 THEN Original ELSE NoFile]
    BY DEF CompactionInit
  <2>2. Original.recs = {} /\ NoFile.recs = {}
    BY DEF Original, NoFile
  <2> HIDE DEF Original, NoFile
  <2> QED BY <2>1, <2>2 DEF OnlyAcked, Inodes
<1>4. \A r \in RunIDs : RunHolds(runs[r], inode, Lasting(acked, exposed))
  BY <1>1 DEF RunHolds, ForwardHolds, ReturnHolds
<1>5. ToldOK
  BY <1>1 DEF ToldOK, Told
<1> QED BY <1>2, <1>3, <1>4, <1>5 DEF LossInv, RecordsOK

(* LossInv is inductive, given the three invariants before it.               *)
LEMMA LossInvStep ==
  OwnedInv /\ FilesInv /\ KeptInv /\ LossInv /\ [CompactionNext]_compactionVars => LossInv'
<1> SUFFICES ASSUME OwnedInv, FilesInv, KeptInv, LossInv, [CompactionNext]_compactionVars PROVE LossInv'
  OBVIOUS
<1>1. FilesOK /\ WorkOK /\ HistoryOK /\ KeptOK /\ CallsOK /\ IsTask(task) /\ IsDir(dir) /\ IsDir(durable)
  BY DEF FilesInv, OwnedInv, TaskOwned, StoreShape, KeptInv
<1>2. FilesOK'
  BY FilesInvStep DEF FilesInv
<1>3. ASSUME NEW p \in Procs, LeaseStep(p) \/ Finish(p) \/ Killed(p) PROVE LossInv'
  BY <1>1, <1>2, <1>3, IdleLosesNone DEF LeaseStep, Finish, Killed, storeVars, historyVars
<1>4. CASE UNCHANGED compactionVars
  BY <1>1, <1>2, <1>4, IdleLosesNone DEF compactionVars, storeVars, historyVars
<1>5. ASSUME NEW p \in Procs, Step(p) PROVE LossInv'
  <2>1. UNCHANGED <<acked, exposed, losses>>
    BY <1>1, <1>5, StepHistory
  <2>2. task.owner # None
    <3>1. task.owner = p
      BY <1>1, <1>5, StepHasFrame DEF StepFrame
    <3> QED BY <1>5, <3>1, LeaseAssumption
  <2>3. RecordsOK'
    BY <1>1, <1>2, <1>5, <2>1, StepLosesNone
  <2>4. ToldOK'
    BY <1>1, <1>5, <2>2, StepTold
  <2> QED BY <2>3, <2>4 DEF LossInv
<1> QED
  BY <1>1, <1>2, <1>3, <1>4, <1>5, StartLosesNone, HookLosesNone, SweepLosesNone, PowerLossLosesNone
  DEF CompactionNext

(* The invariant of the records holds of every behaviour of maintenance.     *)
LEMMA LossInvariant == CompactionSpec => [](FilesInv /\ LossInv)
<1>1. CompactionInit => LossInv
  BY LossInvInit
<1>2. OwnedInv /\ FilesInv /\ KeptInv /\ LossInv /\ [CompactionNext]_compactionVars => LossInv'
  BY LossInvStep
<1> QED BY <1>1, <1>2, KeptInvariant, PTL DEF CompactionSpec

(* A record a host was told is stored is in the store, whatever builds,      *)
(* exchanges, recoveries, rollbacks, upgrades, sweeps, kills and power       *)
(* losses came since: unless it was written to a published store whose       *)
(* rollback had been intended and then interrupted, or to one whose exchange *)
(* was not yet durable.                                                      *)
THEOREM OnlyRollbacksLose == CompactionSpec => []OnlyRollbackWindowLoses
<1>1. FilesInv /\ LossInv => OnlyRollbackWindowLoses
  <2> SUFFICES ASSUME FilesInv, LossInv PROVE acked \subseteq inode[dir.source].recs \cup exposed
    BY DEF OnlyRollbackWindowLoses
  <2>1. Lasting(acked, exposed) \subseteq inode[dir.source].recs
    BY DEF LossInv, RecordsOK, StoreHolds
  <2> QED BY <2>1 DEF Lasting
<1> QED BY <1>1, LossInvariant, PTL

(* Where no operator rolls back and no power is lost, no acknowledged record *)
(* is ever missing from the store: the comment of NewStoreCompactionUsecase  *)
(* holds of compaction, upgrade, doctor and sweep, and of processes killed   *)
(* between any two of their calls.                                           *)
THEOREM NoRollbackNoLoss ==
  ASSUME "rollback" \notin Commands, MaxPowerLoss = 0
  PROVE  CompactionSpec => []NoAcknowledgedLoss
<1>1. LossInv => NoAcknowledgedLoss
  <2> SUFFICES ASSUME LossInv PROVE acked \subseteq inode[dir.source].recs
    BY DEF NoAcknowledgedLoss
  <2>1. Lasting(acked, exposed) \subseteq inode[dir.source].recs
    BY DEF LossInv, RecordsOK, StoreHolds
  <2> QED BY <2>1 DEF Lasting, Gentle
<1> QED BY <1>1, LossInvariant, PTL

-----------------------------------------------------------------------------
(* Every state a crash leaves can be resumed, but for the exceptions that    *)
(* CrashLeavesResumable names.                                               *)

(* What the journal of a run says before it says where its files are.        *)
Swapping == {"candidate_verified", "swap_intent"}
Journalled(run) ==
  /\ run.phase # "none" => run.source[1] \in Inodes
  /\ run.phase \in {"none", "planned", "copy_intent"} => run.prepared = 0
  /\ run.phase \in Building => run.candidate = NoIdentity
  /\ run.phase \in Swapping =>
       run.candidate[1] = run.prepared /\ run.prepared # 0 /\ run.prepared # run.source[1]

(* Where the candidate and the retained file of a run are, in each phase. A  *)
(* sweep may have removed the retained file of a run that had ended.         *)
Gone == IF "sweep" \in Commands THEN {0} ELSE {}
Returnable == {"committed", "rollback_swap_intent", "rollback_swapped"}
Placed(run, c, b) ==
  /\ run.phase \in {"none", "planned"} => c = 0
  /\ run.phase = "candidate_prepared" => c \in {0, run.prepared}
  /\ run.phase \in Unverified \cup {"candidate_verified"} => c = run.prepared
  /\ run.phase = "swap_intent" => c \in {run.prepared, run.source[1]}
  /\ run.phase \in Returnable =>
       c = 0 /\ b \in ({run.source[1], run.candidate[1]} \ {0}) \cup Gone

(* What of it is synced, given the candidate's place now and on disk: a      *)
(* candidate is recorded once it is, and an exchange is not undone.          *)
Ahead(run, c, dc) ==
  /\ run.phase = "candidate_prepared" /\ c = run.prepared => dc = run.prepared
  /\ run.phase = "swap_intent" /\ dc = run.source[1] => c = run.source[1]

(* Which of the files are as the journal has fenced them.                    *)
Fixed(run, c, f) ==
  /\ run.phase = "candidate_verified" => f[run.candidate[1]].ver = run.candidate[2]
  /\ run.phase = "swap_intent" /\ c = run.source[1] => f[run.source[1]].ver = run.source[2]

PlaceOK(r, run, d, dd, f) ==
  /\ Placed(run, d.candidate[r], d.rollback[r]) /\ Placed(run, dd.candidate[r], dd.rollback[r])
  /\ Ahead(run, d.candidate[r], dd.candidate[r]) /\ Fixed(run, d.candidate[r], f)

PlacesOK ==
  /\ \A r \in RunIDs : Journalled(runs[r])
  /\ \A r \in RunIDs : r \notin swept => PlaceOK(r, runs[r], dir, durable, inode)
  /\ sweep.stage # "none" => "sweep" \in Commands

(* What a command has still to do: steps that rely on nothing, or the rest   *)
(* of the creation, the copy or the removal of a candidate.                  *)
FreeSteps ==
  (Phases \ {"candidate_prepared", "copy_complete"})
  \cup {"recheck", "sync_dir", "sync_file", "verify", "exchange", "publish", "refuse", "plan", "abandon"}
RemoveCalls == <<"recheck", "unlink", "sync_dir">>

Making(r, todo, run, d, dd, sw) ==
  /\ run.phase \in {"copy_intent", "copy_retry_intent"}
  /\ \/ todo = <<"create", "sync_dir", "candidate_prepared">>
     \/ todo = <<"sync_dir", "candidate_prepared">>
     \/ todo = <<"candidate_prepared">> /\ (r \in sw \/ d.candidate[r] = dd.candidate[r])
Copying(r, todo, run, d, sw) ==
  /\ run.phase = "candidate_prepared"
  /\ \/ todo = <<"copy", "vacuum", "copy_complete">>
     \/ todo = <<"vacuum", "copy_complete">>
     \/ todo = <<"copy_complete">> /\ (r \in sw \/ d.candidate[r] = run.prepared)
Removing(todo, run) ==
  \/ run.phase = "candidate_prepared" /\ todo = <<"copy_retry_intent">> \o RemoveCalls
  \/ run.phase = "copy_retry_intent" /\ todo = RemoveCalls
  \/ run.phase = "copy_retry_intent" /\ todo = <<"unlink", "sync_dir">>

Builds(r, todo, rs, d, dd, sw) ==
  \/ todo \in Seq(FreeSteps)
  \/ /\ r # None
     /\ \/ Making(r, todo, rs[r], d, dd, sw)
        \/ Copying(r, todo, rs[r], d, sw)
        \/ Removing(todo, rs[r])
BuildsOK == Builds(task.run, task.todo, runs, dir, durable, swept)

(* The inductive invariant, on top of KeptInv.                               *)
PlaceInv == PlacesOK /\ BuildsOK

-----------------------------------------------------------------------------
(* The steps that rely on nothing.                                           *)
LEMMA FreeFacts ==
  /\ {"planned", "copy_intent", "copy_retry_intent",
      "candidate_sync_intent", "candidate_synced", "scrub_in_progress", "candidate_verified",
      "swap_intent", "swapped", "rollback_publish_intent", "rollback_ready", "committed",
      "rollback_swap_intent", "rollback_swapped", "rolled_back", "abandoned"} \subseteq FreeSteps
  /\ {"recheck", "sync_dir", "sync_file", "verify", "exchange", "publish", "refuse", "plan", "abandon"}
       \subseteq FreeSteps
  /\ \A s \in {"create", "copy", "vacuum", "unlink", "candidate_prepared", "copy_complete"} :
       s \notin FreeSteps
BY PhaseFacts DEF FreeSteps

(* Sequences of them,                                                        *)
LEMMA FreeTuples ==
  /\ <<>> \in Seq(FreeSteps)
  /\ \A a \in FreeSteps : <<a>> \in Seq(FreeSteps)
  /\ \A a, b \in FreeSteps : <<a, b>> \in Seq(FreeSteps)
  /\ \A a, b, c \in FreeSteps : <<a, b, c>> \in Seq(FreeSteps)
  /\ \A a, b, c, e \in FreeSteps : <<a, b, c, e>> \in Seq(FreeSteps)
OBVIOUS

(* and those that occur.                                                     *)
LEMMA FreeRests ==
  /\ <<"recheck", "copy_intent">> \in Seq(FreeSteps)
  /\ <<"sync_file", "sync_dir", "candidate_synced">> \in Seq(FreeSteps)
  /\ <<"verify", "candidate_verified">> \in Seq(FreeSteps)
  /\ <<"exchange", "sync_dir", "swapped">> \in Seq(FreeSteps)
  /\ <<"swap_intent", "sync_dir", "swapped">> \in Seq(FreeSteps)
  /\ <<"sync_dir", "swapped">> \in Seq(FreeSteps)
  /\ <<"publish", "sync_dir", "rollback_ready">> \in Seq(FreeSteps)
  /\ <<"rollback_publish_intent", "sync_dir", "rollback_ready">> \in Seq(FreeSteps)
  /\ <<"sync_dir", "rollback_ready">> \in Seq(FreeSteps)
  /\ <<"sync_dir", "rollback_swapped", "rolled_back">> \in Seq(FreeSteps)
  /\ <<"rollback_swapped", "rolled_back">> \in Seq(FreeSteps)
  /\ <<"abandon", "abandoned">> \in Seq(FreeSteps)
  /\ <<"abandon", "abandoned", "plan">> \in Seq(FreeSteps)
  /\ ReturnSteps \in Seq(FreeSteps)
  /\ \A s \in {"candidate_sync_intent", "scrub_in_progress", "swap_intent", "rollback_publish_intent",
               "committed", "sync_dir", "rolled_back", "refuse", "plan"} :
       <<s>> \in Seq(FreeSteps)
BY FreeFacts, FreeTuples DEF ReturnSteps

(* What a run still has to do in a phase.                                    *)
LEMMA ApplyBuilds ==
  ASSUME NEW r, r # None, NEW rs, NEW d, NEW dd, NEW sw, rs[r].phase \in DOMAIN ApplySteps
  PROVE  Builds(r, ApplySteps[rs[r].phase], rs, d, dd, sw)
<1> DEFINE phase == rs[r].phase
           todo == ApplySteps[phase]
<1>1. CASE phase \in {"copy_intent", "copy_retry_intent"}
  <2>1. todo = <<"create", "sync_dir", "candidate_prepared">>
    BY <1>1 DEF ApplySteps
  <2> QED BY <1>1, <2>1 DEF Builds, Making
<1>2. CASE phase = "candidate_prepared"
  <2>1. todo = <<"copy", "vacuum", "copy_complete">>
    BY <1>2 DEF ApplySteps
  <2> QED BY <1>2, <2>1 DEF Builds, Copying
<1>3. CASE phase \in {"planned", "candidate_sync_intent", "scrub_in_progress", "swap_intent",
                      "rollback_publish_intent"}
  <2>1. todo \in {<<"recheck", "copy_intent">>, <<"sync_file", "sync_dir", "candidate_synced">>,
                  <<"verify", "candidate_verified">>, <<"exchange", "sync_dir", "swapped">>,
                  <<"publish", "sync_dir", "rollback_ready">>}
    BY <1>3 DEF ApplySteps
  <2>2. todo \in Seq(FreeSteps)
    BY <2>1, FreeRests
  <2> QED BY <2>2 DEF Builds
<1>4. CASE phase \in {"copy_complete", "candidate_synced", "candidate_verified", "swapped", "rollback_ready"}
  <2>1. todo \in {<<"candidate_sync_intent">>, <<"scrub_in_progress">>, <<"swap_intent">>,
                  <<"rollback_publish_intent">>, <<"committed">>}
    BY <1>4 DEF ApplySteps
  <2>2. todo \in Seq(FreeSteps)
    BY <2>1, FreeRests
  <2> QED BY <2>2 DEF Builds
<1> QED BY <1>1, <1>2, <1>3, <1>4 DEF ApplySteps

(* Going on with a command.                                                  *)
LEMMA ContinueBuilds ==
  ASSUME NEW c, IsTask(c), NEW phase, NEW todo, NEW rs, NEW d, NEW dd, NEW sw,
         Builds(c.run, todo, rs, d, dd, sw),
         c.run # None => phase = rs[c.run].phase,
         c.run = None => phase = "none"
  PROVE  LET n == Continue(c, phase, todo)
         IN  Builds(n.run, n.todo, rs, d, dd, sw)
<1> DEFINE n == Continue(c, phase, todo)
<1>1. n.run = c.run
  BY DEF IsTask, Continue
<1>2. \/ n.todo = todo \/ n.todo = <<>>
      \/ n.todo = ApplySteps[phase] /\ phase \in DOMAIN ApplySteps
  BY DEF IsTask, Continue
<1>3. phase \in DOMAIN ApplySteps => c.run # None
  BY DEF ApplySteps
<1>4. Builds(c.run, <<>>, rs, d, dd, sw)
  BY FreeTuples DEF Builds
<1> HIDE DEF n
<1>5. Builds(c.run, n.todo, rs, d, dd, sw)
  BY <1>2, <1>3, <1>4, ApplyBuilds
<1> QED BY <1>1, <1>5 DEF n

(* A step that takes the first of what is left.                              *)
LEMMA PopBuilds ==
  ASSUME IsTask(task), Pop(runs'[task.run].phase), task.run # None,
         Builds(task.run, Tail(task.todo), runs', dir', durable', swept')
  PROVE  BuildsOK'
<1> DEFINE phase == runs'[task.run].phase
<1>1. task' = Continue(task, phase, Tail(task.todo))
  BY DEF Pop
<1> HIDE DEF phase
<1>2. Builds(task'.run, task'.todo, runs', dir', durable', swept')
  BY <1>1, ContinueBuilds DEF phase
<1> QED BY <1>2 DEF BuildsOK

(* The end of a command, and none.                                           *)
LEMMA IdleBuilds ==
  ASSUME IsTask(task), task' = NoTask \/ \E result : End(result)
  PROVE  BuildsOK'
<1>1. task'.todo = <<>>
  <2>1. CASE task' = NoTask
    BY <2>1 DEF NoTask
  <2>2. ASSUME NEW result, End(result) PROVE task'.todo = <<>>
    BY <2>2 DEF End, IsTask
  <2> QED BY <2>1, <2>2
<1>2. Builds(task'.run, task'.todo, runs', dir', durable', swept')
  BY <1>1, FreeTuples DEF Builds
<1> QED BY <1>2 DEF BuildsOK

(* What the first of the steps left says of the run and of the rest.         *)
BuildSays(step, rest, r, run, d, dd, sw) ==
  /\ step = "create" => run.phase \in {"copy_intent", "copy_retry_intent"}
  /\ step = "unlink" => run.phase = "copy_retry_intent"
  /\ step = "candidate_prepared" => r \in sw \/ d.candidate[r] = dd.candidate[r]
  /\ step = "copy_complete" => r \in sw \/ d.candidate[r] = run.prepared
  /\ step \in {"copy", "vacuum"} => run.phase = "candidate_prepared"
  /\ \/ rest \in Seq(FreeSteps)
     \/ /\ run.phase \in {"copy_intent", "copy_retry_intent"}
        /\ \/ step = "create" /\ rest = <<"sync_dir", "candidate_prepared">>
           \/ step = "sync_dir" /\ rest = <<"candidate_prepared">>
     \/ step = "copy" /\ rest = <<"vacuum", "copy_complete">>
     \/ step = "vacuum" /\ rest = <<"copy_complete">>
     \/ step = "copy_retry_intent" /\ rest = RemoveCalls
     \/ step = "recheck" /\ run.phase = "copy_retry_intent" /\ rest = <<"unlink", "sync_dir">>

(* The calls left say it.                                                    *)
LEMMA BuildsHead ==
  ASSUME NEW r, NEW todo, NEW rs, NEW d, NEW dd, NEW sw, Builds(r, todo, rs, d, dd, sw), todo # <<>>
  PROVE  BuildSays(Head(todo), Tail(todo), r, rs[r], d, dd, sw)
<1> DEFINE step == Head(todo)
           rest == Tail(todo)
           run == rs[r]
<1>1. CASE todo \in Seq(FreeSteps)
  <2>1. step \in FreeSteps /\ rest \in Seq(FreeSteps)
    BY <1>1, HeadTailProperties
  <2> HIDE DEF step, rest
  <2> QED BY <2>1, FreeFacts DEF BuildSays, step, rest
<1>2. CASE Making(r, todo, run, d, dd, sw)
  <2>1. /\ run.phase \in {"copy_intent", "copy_retry_intent"}
        /\ \/ step = "create" /\ rest = <<"sync_dir", "candidate_prepared">>
           \/ step = "sync_dir" /\ rest = <<"candidate_prepared">>
           \/ step = "candidate_prepared" /\ rest = <<>> /\ (r \in sw \/ d.candidate[r] = dd.candidate[r])
    <3>1. /\ Head(<<"create", "sync_dir", "candidate_prepared">>) = "create"
          /\ Tail(<<"create", "sync_dir", "candidate_prepared">>) = <<"sync_dir", "candidate_prepared">>
          /\ Head(<<"sync_dir", "candidate_prepared">>) = "sync_dir"
          /\ Tail(<<"sync_dir", "candidate_prepared">>) = <<"candidate_prepared">>
          /\ Head(<<"candidate_prepared">>) = "candidate_prepared" /\ Tail(<<"candidate_prepared">>) = <<>>
      OBVIOUS
    <3> QED BY <1>2, <3>1, Zenon DEF Making
  <2> HIDE DEF step, rest, run
  <2> QED BY <2>1, FreeTuples DEF BuildSays, step, rest, run
<1>3. CASE Copying(r, todo, run, d, sw)
  <2>1. /\ run.phase = "candidate_prepared"
        /\ \/ step = "copy" /\ rest = <<"vacuum", "copy_complete">>
           \/ step = "vacuum" /\ rest = <<"copy_complete">>
           \/ step = "copy_complete" /\ rest = <<>> /\ (r \in sw \/ d.candidate[r] = run.prepared)
    <3>1. /\ Head(<<"copy", "vacuum", "copy_complete">>) = "copy"
          /\ Tail(<<"copy", "vacuum", "copy_complete">>) = <<"vacuum", "copy_complete">>
          /\ Head(<<"vacuum", "copy_complete">>) = "vacuum"
          /\ Tail(<<"vacuum", "copy_complete">>) = <<"copy_complete">>
          /\ Head(<<"copy_complete">>) = "copy_complete" /\ Tail(<<"copy_complete">>) = <<>>
      OBVIOUS
    <3> QED BY <1>3, <3>1, Zenon DEF Copying
  <2> HIDE DEF step, rest, run
  <2> QED BY <2>1, FreeTuples DEF BuildSays, step, rest, run
<1>4. CASE Removing(todo, run)
  <2>1. /\ Head(<<"copy_retry_intent">> \o RemoveCalls) = "copy_retry_intent"
        /\ Tail(<<"copy_retry_intent">> \o RemoveCalls) = RemoveCalls
    <3>1. "copy_retry_intent" \in PlainSteps /\ RemoveCalls \in Seq(PlainSteps)
      BY PlainFacts, PlainTuples DEF RemoveCalls
    <3> QED BY <3>1, ConsFacts
  <2>2. /\ Head(RemoveCalls) = "recheck" /\ Tail(RemoveCalls) = <<"unlink", "sync_dir">>
        /\ Head(<<"unlink", "sync_dir">>) = "unlink" /\ Tail(<<"unlink", "sync_dir">>) = <<"sync_dir">>
    BY DEF RemoveCalls
  <2>3. \/ step = "copy_retry_intent" /\ rest = RemoveCalls
        \/ run.phase = "copy_retry_intent" /\ step = "recheck" /\ rest = <<"unlink", "sync_dir">>
        \/ run.phase = "copy_retry_intent" /\ step = "unlink" /\ rest = <<"sync_dir">>
    BY <1>4, <2>1, <2>2, Zenon DEF Removing
  <2> HIDE DEF step, rest, run
  <2> QED BY <2>3, FreeRests DEF BuildSays, step, rest, run
<1> QED BY <1>1, <1>2, <1>3, <1>4 DEF Builds

(* Of what the next call of a command relies on.                             *)
LEMMA HeadBuild ==
  ASSUME BuildsOK, NEW p, NEW step, At(p, step)
  PROVE  BuildSays(step, Tail(task.todo), task.run, runs[task.run], dir, durable, swept)
<1>1. Head(task.todo) = step /\ task.todo # <<>>
  BY DEF At
<1> QED BY <1>1, BuildsHead DEF BuildsOK

-----------------------------------------------------------------------------
(* A recovery removes a candidate only to build it again, and records a copy *)
(* as complete only when it has found the candidate it recorded.             *)
LEMMA RecoveryBuilds ==
  ASSUME NEW r \in RunIDs, r # None
  PROVE  Builds(r, RecoverySteps(r), runs, dir, durable, swept)
<1> DEFINE phase == runs[r].phase
           placement == Observe(r)
           pair == VerifyPair(r)
           ours == dir.candidate[r] = runs[r].prepared
           ok(todo) == Builds(r, todo, runs, dir, durable, swept)
<1>1. \A todo \in Seq(FreeSteps) : ok(todo)
  BY DEF Builds
<1>2. ok(<<>>) /\ ok(<<"refuse">>) /\ ok(<<"rolled_back">>)
  BY <1>1, FreeTuples, FreeRests
<1>3. CASE placement = "swapped"
  <2>1. RecoverySteps(r) =
          CASE phase = "candidate_verified" -> <<"swap_intent", "sync_dir", "swapped">>
            [] phase = "swap_intent" -> <<"sync_dir", "swapped">>
            [] phase \in {"swapped", "rollback_publish_intent"} -> <<>>
            [] OTHER -> <<"refuse">>
    BY <1>3 DEF RecoverySteps
  <2>2. ok(<<"swap_intent", "sync_dir", "swapped">>) /\ ok(<<"sync_dir", "swapped">>)
    BY <1>1, FreeRests
  <2> HIDE DEF phase, ok
  <2>3. ok(RecoverySteps(r))
    BY <1>2, <2>1, <2>2
  <2> QED BY <2>3 DEF ok
<1>4. CASE placement = "rollback_ready"
  <2>1. RecoverySteps(r) =
          CASE phase = "swapped" -> <<"rollback_publish_intent", "sync_dir", "rollback_ready">>
            [] phase = "rollback_publish_intent" -> <<"sync_dir", "rollback_ready">>
            [] phase \in {"rollback_ready", "committed"} -> <<>>
            [] phase = "rollback_swap_intent" -> ReturnSteps
            [] OTHER -> <<"refuse">>
    BY <1>4 DEF RecoverySteps, ReturnSteps
  <2>2. /\ ok(<<"rollback_publish_intent", "sync_dir", "rollback_ready">>)
        /\ ok(<<"sync_dir", "rollback_ready">>) /\ ok(ReturnSteps)
    BY <1>1, FreeRests
  <2> HIDE DEF phase, ok
  <2>3. ok(RecoverySteps(r))
    BY <1>2, <2>1, <2>2
  <2> QED BY <2>3 DEF ok
<1>5. CASE placement = "rolled_back"
  <2>1. RecoverySteps(r) =
          CASE phase = "rollback_swap_intent" -> <<"sync_dir", "rollback_swapped", "rolled_back">>
            [] phase = "rollback_swapped" -> <<"rolled_back">>
            [] phase = "rolled_back" -> <<>>
            [] OTHER -> <<"refuse">>
    BY <1>5 DEF RecoverySteps
  <2>2. ok(<<"sync_dir", "rollback_swapped", "rolled_back">>)
    BY <1>1, FreeRests
  <2> HIDE DEF phase, ok
  <2>3. ok(RecoverySteps(r))
    BY <1>2, <2>1, <2>2
  <2> QED BY <2>3 DEF ok
<1>6. CASE placement = "source_original"
  <2>1. RecoverySteps(r) \in {<<>>, <<"refuse">>}
    BY <1>6 DEF RecoverySteps
  <2> HIDE DEF phase, ok
  <2>2. ok(RecoverySteps(r))
    BY <1>2, <2>1
  <2> QED BY <2>2 DEF ok
<1>7. CASE placement = "candidate_ready"
  <2>1. RecoverySteps(r) =
          CASE phase = "copy_retry_intent" /\ ours -> RemoveCalls
            [] phase = "candidate_prepared" /\ ours ->
                 IF pair THEN <<"copy_complete">> ELSE <<"copy_retry_intent">> \o RemoveCalls
            [] phase \in Unverified \cup {"candidate_verified"} -> <<>>
            [] phase = "swap_intent" -> <<"exchange", "sync_dir", "swapped">>
            [] OTHER -> <<"refuse">>
    BY <1>7 DEF RecoverySteps, RemoveCalls
  <2>2. /\ phase = "copy_retry_intent" => ok(RemoveCalls)
        /\ phase = "candidate_prepared" => ok(<<"copy_retry_intent">> \o RemoveCalls)
        /\ phase = "candidate_prepared" /\ ours => ok(<<"copy_complete">>)
    BY DEF Builds, Removing, Copying
  <2>3. ok(<<"exchange", "sync_dir", "swapped">>)
    BY <1>1, FreeRests
  <2> HIDE DEF phase, pair, ours, ok
  <2>4. ok(RecoverySteps(r))
    BY <1>2, <2>1, <2>2, <2>3 DEF Unverified
  <2> QED BY <2>4 DEF ok
<1>8. CASE placement \notin
            {"swapped", "rollback_ready", "rolled_back", "source_original", "candidate_ready"}
  <2>1. RecoverySteps(r) = <<"refuse">>
    BY <1>8 DEF RecoverySteps
  <2> QED BY <1>2, <2>1
<1> QED BY <1>3, <1>4, <1>5, <1>6, <1>7, <1>8

(* A rollback touches no candidate.                                          *)
LEMMA RollbackBuilds ==
  ASSUME NEW r
  PROVE  Builds(r, RollbackSteps(r), runs, dir, durable, swept)
<1> DEFINE phase == runs[r].phase
           placement == Observe(r)
           refused == phase \notin RollbackPhases \/ dir.rollback[r] = 0 \/ AtRisk(r) # {}
           back == (IF phase = "rollback_swap_intent" THEN <<>> ELSE <<"rollback_swap_intent">>) \o ReturnSteps
<1>1. back \in Seq(FreeSteps)
  <2>1. <<"rollback_swap_intent">> \in Seq(FreeSteps) /\ <<>> \in Seq(FreeSteps)
    BY FreeFacts, FreeTuples
  <2> QED BY <2>1, FreeRests, ConcatProperties
<1>2. RollbackSteps(r) \in Seq(FreeSteps)
  <2>1. CASE refused
    <3>1. RollbackSteps(r) = <<"refuse">>
      BY <2>1 DEF RollbackSteps
    <3> QED BY <3>1, FreeRests
  <2>2. CASE ~refused
    <3>1. RollbackSteps(r) =
            CASE placement = "rolled_back" /\ phase = "rollback_swap_intent" ->
                   <<"rollback_swapped", "rolled_back">>
              [] placement = "rolled_back" /\ phase = "rollback_swapped" -> <<"rolled_back">>
              [] placement = "rollback_ready" -> back
              [] OTHER -> <<"refuse">>
      BY <2>2 DEF RollbackSteps, ReturnSteps
    <3> HIDE DEF phase, placement, refused, back
    <3>2. /\ <<"rollback_swapped", "rolled_back">> \in Seq(FreeSteps)
          /\ <<"rolled_back">> \in Seq(FreeSteps) /\ <<"refuse">> \in Seq(FreeSteps)
      BY FreeRests
    <3> QED BY <1>1, <3>1, <3>2
  <2> QED BY <2>1, <2>2
<1> QED BY <1>2 DEF Builds

(* A command begins.                                                         *)
LEMMA BeginBuilds ==
  ASSUME NEW p, NEW kind, NEW r \in RunIDs \cup {None}, NEW todo, Begin(p, kind, r, todo),
         Builds(r, todo, runs, dir, durable, swept)
  PROVE  BuildsOK' /\ UNCHANGED <<dir, durable, inode, runs, sweep, swept>>
<1> DEFINE phase == IF r = None THEN "none" ELSE runs[r].phase
<1>1. PICK c : IsTask(c) /\ c.run = r /\ c.kind = kind /\ task' = Continue(c, phase, todo)
  BY BeginTask
<1>2. /\ c.run # None => phase = runs[c.run].phase
      /\ c.run = None => phase = "none"
      /\ Builds(c.run, todo, runs, dir, durable, swept)
  BY <1>1
<1> HIDE DEF phase
<1>3. Builds(task'.run, task'.todo, runs, dir, durable, swept)
  BY <1>1, <1>2, ContinueBuilds
<1>4. UNCHANGED <<dir, durable, inode, runs, sweep, swept>>
  BY DEF Begin, historyVars
<1> QED BY <1>3, <1>4 DEF BuildsOK

(* The start of every command.                                               *)
LEMMA StartBuilds ==
  ASSUME NEW p, CommandStart(p)
  PROVE  BuildsOK' /\ UNCHANGED <<dir, durable, inode, runs, sweep, swept>>
<1> DEFINE goal == BuildsOK' /\ UNCHANGED <<dir, durable, inode, runs, sweep, swept>>
<1>1. ASSUME NEW kind, NEW r \in RunIDs \cup {None}, NEW todo, Begin(p, kind, r, todo),
             Builds(r, todo, runs, dir, durable, swept)
      PROVE  goal
  BY <1>1, BeginBuilds
<1>2. \A r : \A todo \in Seq(FreeSteps) : Builds(r, todo, runs, dir, durable, swept)
  BY DEF Builds
<1>3. \A r \in RunIDs : r # None /\ Builds(r, RecoverySteps(r), runs, dir, durable, swept)
  BY CompactionAssumption, RecoveryBuilds
<1>4. \A r : \A s \in {"plan", "refuse", "swap_intent"} : Builds(r, <<s>>, runs, dir, durable, swept)
  BY <1>2, FreeRests
<1>5. \A r : \A todo \in {<<"abandon", "abandoned">>, <<"abandon", "abandoned", "plan">>, <<>>} :
        Builds(r, todo, runs, dir, durable, swept)
  BY <1>2, FreeRests, FreeTuples
<1>6. ASSUME NEW kind, NEW todo \in {<<"plan">>, <<"refuse">>}, Begin(p, kind, None, todo)
      PROVE  goal
  <2>1. Builds(None, todo, runs, dir, durable, swept)
    BY <1>4, <1>6
  <2> QED BY <1>1, <1>6, <2>1
<1>7. CASE Compact(p)
  <2>1. ASSUME NEW r \in RunIDs,
               Begin(p, "compact", r,
                 IF Stale(r) THEN <<"abandon", "abandoned", "plan">> ELSE RecoverySteps(r))
        PROVE  goal
    <3>1. CASE Stale(r)
      BY <1>1, <1>5, <2>1, <3>1
    <3>2. CASE ~Stale(r)
      BY <1>1, <1>3, <2>1, <3>2
    <3> QED BY <3>1, <3>2
  <2> QED BY <1>7, <1>6, <2>1 DEF Compact
<1>8. CASE Rollback(p)
  <2>1. PICK r \in RunIDs : Begin(p, "rollback", r, RollbackSteps(r))
    BY <1>8 DEF Rollback
  <2>2. Builds(r, RollbackSteps(r), runs, dir, durable, swept)
    BY RollbackBuilds
  <2> QED BY <1>1, <2>1, <2>2
<1>9. CASE AbandonStalePrePublication(p)
  <2>1. PICK r \in RunIDs : Begin(p, "doctor", r, IF Stale(r) THEN <<"abandon", "abandoned">> ELSE <<>>)
    BY <1>9 DEF AbandonStalePrePublication
  <2>2. CASE Stale(r)
    BY <1>1, <1>5, <2>1, <2>2
  <2>3. CASE ~Stale(r)
    BY <1>1, <1>5, <2>1, <2>3
  <2> QED BY <2>2, <2>3
<1>10. CASE RunUpgrade(p)
  <2>1. ASSUME NEW r \in RunIDs,
               Begin(p, "upgrade", r,
                 IF runs[r].phase = "candidate_verified" THEN <<"swap_intent">> ELSE RecoverySteps(r))
        PROVE  goal
    <3>1. CASE runs[r].phase = "candidate_verified"
      BY <1>1, <1>4, <2>1, <3>1
    <3>2. CASE runs[r].phase # "candidate_verified"
      BY <1>1, <1>3, <2>1, <3>2
    <3> QED BY <3>1, <3>2
  <2> QED BY <1>10, <1>6, <2>1 DEF RunUpgrade
<1> QED BY <1>7, <1>8, <1>9, <1>10 DEF CommandStart

(* What the other processes may do to a command at work.                     *)
LEMMA OthersKeepBuilds ==
  ASSUME WorkOK, BuildsOK, UNCHANGED <<runs, durable, task>>, swept \subseteq swept',
         \A r \in RunIDs : r \notin swept' /\ runs[r].phase \notin Terminal =>
           dir'.candidate[r] = dir.candidate[r]
  PROVE  BuildsOK'
<1> DEFINE r == task.run
           todo == task.todo
           run == runs[r]
<1>1. Builds(r, todo, runs, dir, durable, swept)
  BY DEF BuildsOK
<1>2. r # None => r \in RunIDs
  BY DEF WorkOK, Work
<1> HIDE DEF r, todo
<1>3. ASSUME r # None, Making(r, todo, run, dir, durable, swept)
      PROVE  Making(r, todo, run, dir', durable, swept')
  <2>1. run.phase \notin Terminal
    BY <1>3 DEF Making, Terminal
  <2> QED BY <1>2, <1>3, <2>1 DEF Making
<1>4. ASSUME r # None, Copying(r, todo, run, dir, swept)
      PROVE  Copying(r, todo, run, dir', swept')
  <2>1. run.phase \notin Terminal
    BY <1>4 DEF Copying, Terminal
  <2> QED BY <1>2, <1>4, <2>1 DEF Copying
<1>5. Builds(r, todo, runs, dir', durable, swept')
  BY <1>1, <1>3, <1>4 DEF Builds
<1>6. Builds(r, todo, runs', dir', durable', swept')
  BY <1>5
<1> QED BY <1>6 DEF BuildsOK, r, todo

-----------------------------------------------------------------------------
(* What two directories say of the files of one run.                         *)
SamePlaces(e, d, r) == e.candidate[r] = d.candidate[r] /\ e.rollback[r] = d.rollback[r]

(* The file a run has fenced is not the store, so that it is not written to. *)
LEMMA FixedStays ==
  ASSUME FilesOK, Unique(dir), Untouched, NEW r \in RunIDs, Journalled(runs[r]),
         PlaceOK(r, runs[r], dir, durable, inode)
  PROVE  Fixed(runs[r], dir.candidate[r], inode')
<1> DEFINE run == runs[r]
           c == dir.candidate[r]
<1>1. IsKept(run.candidate[1]) /\ IsKept(run.source[1])
  BY DEF IsKept
<1>2. c # dir.source /\ run.candidate[1] \in InodeNo
  BY DEF Unique, FilesOK, StateOK, Journals
<1>3. /\ Journalled(run) /\ Fixed(run, c, inode)
      /\ run.phase = "candidate_verified" => c = run.prepared
  BY DEF PlaceOK, Placed
<1> HIDE DEF run, c
<1>4. ASSUME run.phase = "candidate_verified" PROVE inode'[run.candidate[1]].ver = run.candidate[2]
  <2>1. run.candidate[1] \in Inodes /\ run.candidate[1] # dir.source
    BY <1>2, <1>3, <1>4, InodeFacts DEF Journalled, Swapping
  <2> QED BY <1>1, <1>3, <1>4, <2>1 DEF Untouched, Fixed
<1>5. ASSUME run.phase = "swap_intent", c = run.source[1] PROVE inode'[run.source[1]].ver = run.source[2]
  <2>1. run.source[1] \in Inodes /\ run.source[1] # dir.source
    BY <1>2, <1>3, <1>5 DEF Journalled
  <2> QED BY <1>1, <1>3, <1>5, <2>1 DEF Untouched, Fixed
<1> QED BY <1>4, <1>5 DEF Fixed, run, c

(* A directory that is synced, or that returns to what was synced.           *)
LEMMA PlaceStays ==
  ASSUME NEW r, NEW run, NEW d, NEW dd, NEW f, NEW e, NEW ee, NEW g,
         PlaceOK(r, run, d, dd, f), Fixed(run, d.candidate[r], g),
         \/ SamePlaces(e, d, r) /\ SamePlaces(ee, dd, r)
         \/ SamePlaces(e, d, r) /\ SamePlaces(ee, d, r)
         \/ SamePlaces(e, dd, r) /\ SamePlaces(ee, dd, r)
  PROVE  PlaceOK(r, run, e, ee, g)
<1>1. CASE SamePlaces(e, d, r) /\ SamePlaces(ee, dd, r)
  BY <1>1 DEF PlaceOK, SamePlaces
<1>2. CASE SamePlaces(e, d, r) /\ SamePlaces(ee, d, r)
  BY <1>2 DEF PlaceOK, SamePlaces, Ahead
<1>3. CASE SamePlaces(e, dd, r) /\ SamePlaces(ee, dd, r)
  BY <1>3 DEF PlaceOK, SamePlaces, Ahead, Fixed
<1> QED BY <1>1, <1>2, <1>3

(* Steps that leave the journals as they are and one run's files aside.      *)
LEMMA PlacesFollow ==
  ASSUME FilesOK, KeptOK, PlacesOK, Untouched, UNCHANGED runs, swept \subseteq swept',
         sweep'.stage # "none" => "sweep" \in Commands,
         \A r \in RunIDs : r \notin swept' =>
           \/ SamePlaces(dir', dir, r) /\ SamePlaces(durable', durable, r)
           \/ SamePlaces(dir', dir, r) /\ SamePlaces(durable', dir, r)
           \/ SamePlaces(dir', durable, r) /\ SamePlaces(durable', durable, r)
           \/ PlaceOK(r, runs[r], dir', durable', inode')
  PROVE  PlacesOK'
<1>1. \A r \in RunIDs : Journalled(runs[r])
  BY DEF PlacesOK
<1>2. ASSUME NEW r \in RunIDs, r \notin swept' PROVE PlaceOK(r, runs[r], dir', durable', inode')
  <2>1. PlaceOK(r, runs[r], dir, durable, inode)
    BY <1>2 DEF PlacesOK
  <2>2. Fixed(runs[r], dir.candidate[r], inode')
    BY <1>1, <2>1, FixedStays DEF KeptOK
  <2> QED BY <1>2, <2>1, <2>2, PlaceStays
<1>3. \A r \in RunIDs : r \notin swept' => PlaceOK(r, runs'[r], dir', durable', inode')
  BY <1>2
<1>4. \A r \in RunIDs : Journalled(runs'[r])
  BY <1>1
<1>5. (\A r \in RunIDs : Journalled(runs[r]))'
  BY <1>4 DEF Journalled, Inodes, Building, PrePublication, Unverified, Swapping, NoIdentity
<1>6. (\A r \in RunIDs : r \notin swept => PlaceOK(r, runs[r], dir, durable, inode))'
  BY <1>3 DEF PlaceOK, Placed, Ahead, Fixed, Unverified, Returnable, Gone
<1> QED BY <1>5, <1>6 DEF PlacesOK

(* A step of a command writes to no file that is kept but the store.         *)
LEMMA StepUntouched ==
  ASSUME FilesOK, WorkOK, CallsOK, NEW p, Step(p)
  PROVE  Untouched
<1>1. inode \in [Inodes -> Files] /\ dir.source \in Inodes
  BY SourceKept DEF FilesOK, StateOK
<1>2. CASE UNCHANGED inode
  BY <1>2 DEF Untouched
<1>3. CASE CompactInPlace(p)
  <2>1. inode' = [inode EXCEPT ![dir.source].ver = @ + 1]
    BY <1>3 DEF CompactInPlace
  <2> QED BY <1>1, <2>1 DEF Files, Untouched
<1>4. CASE PrepareCandidate(p)
  <2> DEFINE n == FreshInode
  <2>1. inode' = [inode EXCEPT ![n].made = TRUE]
    BY <1>4 DEF PrepareCandidate
  <2> HIDE DEF n
  <2> QED BY <1>1, <2>1 DEF Files, Untouched
<1>5. CASE SyncCandidate(p)
  <2> DEFINE c == dir.candidate[task.run]
  <2>1. inode' = [inode EXCEPT ![c].safe = TRUE]
    BY <1>5 DEF SyncCandidate
  <2> HIDE DEF c
  <2> QED BY <1>1, <2>1 DEF Files, Untouched
<1>6. ASSUME NEW step \in {"copy", "vacuum"}, Build(p, step) PROVE Untouched
  <2> DEFINE c == dir.candidate[task.run]
  <2>1. c \in Inodes /\ ~IsKept(c)
    BY <1>6, BuildApart DEF Build
  <2>2. \/ inode' = [inode EXCEPT ![c].ver = 1, ![c].safe = FALSE]
        \/ inode' = [inode EXCEPT ![c].whole = TRUE, ![c].recs = inode[dir.source].recs]
    BY <1>6 DEF Build
  <2> HIDE DEF c
  <2>3. \A i \in Inodes \ {c} : inode'[i] = inode[i]
    BY <1>1, <2>1, <2>2
  <2> QED BY <2>1, <2>3 DEF Untouched
<1> QED
  BY <1>2, <1>3, <1>4, <1>5, <1>6
  DEF Step, Refuse, SyncDir, Exchange, PublishRollback, PlanRun, PlanRefused, CancelBuild, Append1,
      RemoveCandidate, Inspect

(* Which phase comes before which.                                           *)
LEMMA PhaseBefore ==
  ASSUME NEW from \in Phases, NEW to \in Transitions[from]
  PROVE  /\ to # "planned" /\ (to = "copy_intent" => from = "planned")
         /\ to = "candidate_prepared" => from \in {"copy_intent", "copy_retry_intent"}
         /\ to \in {"copy_retry_intent", "copy_complete"} => from = "candidate_prepared"
         /\ to \in Unverified => from \in Unverified \cup {"candidate_prepared"}
         /\ to \in Unverified /\ from = "candidate_prepared" => to = "copy_complete"
         /\ to = "candidate_verified" => from = "scrub_in_progress"
         /\ to = "swap_intent" => from = "candidate_verified"
         /\ to = "committed" => from = "rollback_ready"
         /\ to = "rollback_swap_intent" => from \in {"rollback_ready", "committed"}
         /\ to = "rollback_swapped" => from = "rollback_swap_intent"
<1>1. CASE from \in PrePublication
  <2>1. \/ from = "planned" /\ to \in {"copy_intent", "abandoned"}
        \/ from \in {"copy_intent", "copy_retry_intent"} /\ to \in {"candidate_prepared", "abandoned"}
        \/ from = "candidate_prepared" /\ to \in {"copy_complete", "copy_retry_intent", "abandoned"}
    BY <1>1 DEF Transitions, PrePublication
  <2> QED BY <2>1 DEF Unverified
<1>2. CASE from \in Unverified \cup {"candidate_verified", "swap_intent"}
  <2>1. \/ from = "copy_complete" /\ to = "candidate_sync_intent"
        \/ from = "candidate_sync_intent" /\ to = "candidate_synced"
        \/ from = "candidate_synced" /\ to = "scrub_in_progress"
        \/ from = "scrub_in_progress" /\ to = "candidate_verified"
        \/ from = "candidate_verified" /\ to = "swap_intent"
        \/ from = "swap_intent" /\ to = "swapped"
    BY <1>2 DEF Transitions, Unverified
  <2> QED BY <2>1 DEF Unverified
<1>3. CASE from \in {"swapped", "rollback_publish_intent", "rollback_ready"}
  <2>1. \/ from = "swapped" /\ to = "rollback_publish_intent"
        \/ from = "rollback_publish_intent" /\ to = "rollback_ready"
        \/ from = "rollback_ready" /\ to \in {"committed", "rollback_swap_intent"}
    BY <1>3 DEF Transitions
  <2> QED BY <2>1 DEF Unverified
<1>4. CASE from \in {"committed", "rollback_swap_intent", "rollback_swapped"}
  <2>1. \/ from = "committed" /\ to = "rollback_swap_intent"
        \/ from = "rollback_swap_intent" /\ to = "rollback_swapped"
        \/ from = "rollback_swapped" /\ to = "rolled_back"
    BY <1>4 DEF Transitions
  <2> QED BY <2>1 DEF Unverified
<1>5. CASE from \in {"rolled_back", "abandoned"}
  BY <1>5 DEF Transitions
<1> QED BY <1>1, <1>2, <1>3, <1>4, <1>5, PhaseFacts DEF PrePublication, Unverified

-----------------------------------------------------------------------------
(* The steps of a command that leave the directory and the journals alone.   *)
LEMMA SamePlacesStep ==
  ASSUME FilesOK, KeptOK, PlacesOK, Untouched, UNCHANGED <<dir, durable, runs, sweep, swept>>
  PROVE  PlacesOK'
<1>1. \A r : SamePlaces(dir', dir, r) /\ SamePlaces(durable', durable, r)
  BY DEF SamePlaces
<1>2. sweep'.stage # "none" => "sweep" \in Commands
  BY DEF PlacesOK
<1> QED BY <1>1, <1>2, PlacesFollow

(* A command that ends, one that compacts in place, and a build that is      *)
(* cancelled.                                                                *)
LEMMA EndsKeepPlaces ==
  ASSUME FilesOK, KeptOK, PlaceInv, Untouched, IsTask(task), NEW p,
         Refuse(p) \/ PlanRefused(p) \/ CompactInPlace(p) \/ CancelBuild(p)
  PROVE  PlaceInv'
<1>1. UNCHANGED <<dir, durable, runs, sweep, swept>>
  BY DEF Refuse, PlanRefused, CompactInPlace, CancelBuild, historyVars
<1>2. PlacesOK'
  BY <1>1, SamePlacesStep DEF PlaceInv
<1>3. BuildsOK'
  <2>1. CASE Refuse(p) \/ PlanRefused(p) \/ CompactInPlace(p)
    BY <2>1, IdleBuilds DEF Refuse, PlanRefused, CompactInPlace
  <2>2. CASE CancelBuild(p)
    <3>1. task'.todo = <<"abandon", "abandoned">>
      BY <2>2 DEF CancelBuild, IsTask
    <3>2. task'.todo \in Seq(FreeSteps)
      BY <3>1, FreeRests
    <3>3. Builds(task'.run, task'.todo, runs', dir', durable', swept')
      BY <3>2 DEF Builds
    <3> QED BY <3>3 DEF BuildsOK
  <2> QED BY <2>1, <2>2
<1> QED BY <1>2, <1>3 DEF PlaceInv

(* Checks, the copy, and the sync of the candidate's bytes.                  *)
LEMMA WorkKeepsPlaces ==
  ASSUME FilesOK, WorkOK, KeptOK, PlaceInv, Untouched, IsTask(task), NEW p,
         NEW step \in {"recheck", "verify", "sync_file", "vacuum", "copy"}, At(p, step),
         Permits(step, task.run),
         UNCHANGED <<dir, durable, runs, sweep, swept>>, Pop(runs[task.run].phase)
  PROVE  PlaceInv'
<1> DEFINE r == task.run
           run == runs[r]
           rest == Tail(task.todo)
<1>1. r \in RunIDs /\ r # None
  BY AtRun
<1>2. BuildSays(step, rest, r, run, dir, durable, swept)
  BY HeadBuild DEF PlaceInv
<1>3. step = "vacuum" => dir.candidate[r] # 0
  BY PermitFacts
<1>4. r \notin swept /\ run.phase = "candidate_prepared" => dir.candidate[r] \in {0, run.prepared}
  BY <1>1 DEF PlaceInv, PlacesOK, PlaceOK, Placed
<1>5. Builds(r, rest, runs, dir, durable, swept)
  <2> HIDE DEF r, rest
  <2>1. CASE rest \in Seq(FreeSteps)
    BY <2>1 DEF Builds
  <2>2. CASE step = "copy" /\ rest = <<"vacuum", "copy_complete">>
    BY <1>1, <1>2, <2>2 DEF Builds, Copying, BuildSays
  <2>3. CASE step = "vacuum" /\ rest = <<"copy_complete">>
    <3>1. run.phase = "candidate_prepared"
      BY <1>2, <2>3 DEF BuildSays
    <3>2. r \in swept \/ dir.candidate[r] = run.prepared
      BY <1>3, <1>4, <2>3, <3>1
    <3> QED BY <1>1, <2>3, <3>1, <3>2 DEF Builds, Copying
  <2>4. CASE step = "recheck" /\ run.phase = "copy_retry_intent" /\ rest = <<"unlink", "sync_dir">>
    BY <1>1, <2>4 DEF Builds, Removing
  <2> QED BY <1>2, <2>1, <2>2, <2>3, <2>4 DEF BuildSays
<1>6. Builds(r, rest, runs', dir', durable', swept')
  BY <1>5
<1>7. Pop(runs'[task.run].phase)
  OBVIOUS
<1>8. BuildsOK'
  BY <1>1, <1>6, <1>7, PopBuilds
<1>9. PlacesOK'
  BY SamePlacesStep DEF PlaceInv
<1> QED BY <1>8, <1>9 DEF PlaceInv

(* The sync of the directory: what was made is now on disk.                  *)
LEMMA SyncDirKeepsPlaces ==
  ASSUME FilesOK, WorkOK, KeptOK, PlaceInv, Untouched, IsTask(task), NEW p, SyncDir(p)
  PROVE  PlaceInv'
<1> DEFINE r == task.run
           run == runs[r]
           rest == Tail(task.todo)
<1>1. /\ UNCHANGED <<dir, runs, sweep, swept>> /\ durable' = dir
      /\ At(p, "sync_dir") /\ Pop(runs'[task.run].phase)
  BY DEF SyncDir, historyVars
<1>2. r # None
  BY <1>1, AtRun
<1>3. BuildSays("sync_dir", rest, r, run, dir, durable, swept)
  BY <1>1, HeadBuild DEF PlaceInv
<1>4. Builds(r, rest, runs, dir, dir, swept)
  <2> HIDE DEF r, rest
  <2>1. CASE rest \in Seq(FreeSteps)
    BY <2>1 DEF Builds
  <2>2. CASE run.phase \in {"copy_intent", "copy_retry_intent"} /\ rest = <<"candidate_prepared">>
    BY <1>2, <2>2 DEF Builds, Making
  <2> QED BY <1>3, <2>1, <2>2 DEF BuildSays
<1>5. Builds(r, rest, runs', dir', durable', swept')
  BY <1>1, <1>4
<1>6. BuildsOK'
  BY <1>1, <1>2, <1>5, PopBuilds
<1>7. \A q : SamePlaces(dir', dir, q) /\ SamePlaces(durable', dir, q)
  BY <1>1 DEF SamePlaces
<1>8. sweep'.stage # "none" => "sweep" \in Commands
  BY <1>1 DEF PlaceInv, PlacesOK
<1>9. PlacesOK'
  BY <1>1, <1>7, <1>8, PlacesFollow DEF PlaceInv
<1> QED BY <1>6, <1>9 DEF PlaceInv

(* A change of the directory is of one run's files.                          *)
LEMMA RelinkPlaces ==
  ASSUME FilesOK, WorkOK, KeptInv, PlaceInv, Untouched, IsTask(task), NEW p, NEW entries,
         NEW step \in {"exchange", "publish", "unlink", "abandon", "create"}, Relink(p, step, entries),
         \A q \in RunIDs \ {task.run} : SamePlaces(dir', dir, q),
         task.run \notin swept => PlaceOK(task.run, runs[task.run], dir', durable, inode')
  PROVE  PlaceInv'
<1> DEFINE r == task.run
           run == runs[r]
           rest == Tail(task.todo)
<1>1. /\ UNCHANGED <<durable, runs, sweep, swept>>
      /\ Permits(step, r) /\ Pop(runs'[r].phase) /\ r \in RunIDs /\ r # None
  BY RelinkKeeps
<1>2. BuildSays(step, rest, r, run, dir, durable, swept)
  BY HeadBuild DEF PlaceInv, Relink
<1>3. Builds(r, rest, runs, dir', durable, swept)
  <2> HIDE DEF r, rest
  <2>1. CASE rest \in Seq(FreeSteps)
    BY <2>1 DEF Builds
  <2>2. CASE step = "create" /\ rest = <<"sync_dir", "candidate_prepared">>
    BY <1>1, <1>2, <2>2 DEF Builds, Making, BuildSays
  <2> QED BY <1>2, <2>1, <2>2 DEF BuildSays
<1>4. Builds(r, rest, runs', dir', durable', swept')
  BY <1>1, <1>3
<1>5. BuildsOK'
  BY <1>1, <1>4, PopBuilds
<1>6. sweep'.stage # "none" => "sweep" \in Commands
  BY <1>1 DEF PlaceInv, PlacesOK
<1>7. ASSUME NEW q \in RunIDs, q \notin swept'
      PROVE  \/ SamePlaces(dir', dir, q) /\ SamePlaces(durable', durable, q)
             \/ PlaceOK(q, runs[q], dir', durable', inode')
  BY <1>1, <1>7 DEF SamePlaces
<1>8. PlacesOK'
  BY <1>1, <1>6, <1>7, PlacesFollow DEF PlaceInv, KeptInv
<1> QED BY <1>5, <1>8 DEF PlaceInv

(* The exchange puts the original under the name of the candidate.           *)
LEMMA SwapKeepsPlaces ==
  ASSUME FilesOK, WorkOK, KeptInv, PlaceInv, Untouched, IsTask(task), NEW p, Exchange(p),
         runs[task.run].phase # "rollback_swap_intent"
  PROVE  PlaceInv'
<1> DEFINE r == task.run
           run == runs[r]
           entries == [dir EXCEPT !.source = dir.candidate[r], !.candidate[r] = dir.source]
<1>1. Relink(p, "exchange", entries) /\ UNCHANGED inode
  BY DEF Exchange
<1>2. /\ dir' = entries /\ Permits("exchange", r) /\ r \in RunIDs
      /\ CallSays("exchange", Tail(task.todo), r, run, dir, durable, inode, swept)
  <2> HIDE DEF entries
  <2> QED BY <1>1, RelinkKeeps
<1>3. run.phase = "swap_intent"
  BY <1>2 DEF CallSays
<1>4. run.source[1] = dir.source /\ inode[dir.source].ver = run.source[2]
  BY <1>2, <1>3, PermitFacts DEF ExchangeFence, Identity
<1>5. dir \in Directories /\ dir.candidate \in [RunIDs -> InodeNo]
  BY DEF FilesOK, StateOK, Directories
<1> HIDE DEF r, run
<1>6. dir'.rollback = dir.rollback /\ dir'.candidate = [dir.candidate EXCEPT ![r] = dir.source]
  BY <1>2, <1>5 DEF Directories
<1> HIDE DEF entries
<1>7. dir'.candidate[r] = dir.source /\ \A q \in RunIDs \ {r} : SamePlaces(dir', dir, q)
  BY <1>2, <1>5, <1>6 DEF SamePlaces
<1>8. r \notin swept => PlaceOK(r, run, dir', durable, inode')
  <2> SUFFICES ASSUME r \notin swept PROVE PlaceOK(r, run, dir', durable, inode')
    OBVIOUS
  <2>1. Placed(run, durable.candidate[r], durable.rollback[r])
    BY <1>2 DEF PlaceInv, PlacesOK, PlaceOK, run
  <2>2. /\ Placed(run, dir'.candidate[r], dir'.rollback[r])
        /\ Ahead(run, dir'.candidate[r], durable.candidate[r])
        /\ Fixed(run, dir'.candidate[r], inode')
    BY <1>1, <1>3, <1>4, <1>7 DEF Placed, Ahead, Fixed, Unverified, Returnable
  <2> QED BY <2>1, <2>2 DEF PlaceOK
<1> QED BY <1>1, <1>7, <1>8, RelinkPlaces DEF r, run

(* A rollback puts the published store under the name of the retained file.  *)
LEMMA ReturnKeepsPlaces ==
  ASSUME FilesOK, WorkOK, KeptInv, PlaceInv, Untouched, IsTask(task), NEW p, Exchange(p),
         runs[task.run].phase = "rollback_swap_intent"
  PROVE  PlaceInv'
<1> DEFINE r == task.run
           run == runs[r]
           entries == [dir EXCEPT !.source = dir.rollback[r], !.rollback[r] = dir.source]
<1>1. Relink(p, "exchange", entries) /\ UNCHANGED inode
  BY DEF Exchange
<1>2. dir' = entries /\ Permits("exchange", r) /\ r \in RunIDs
  <2> HIDE DEF entries
  <2> QED BY <1>1, RelinkKeeps
<1>3. dir.source = run.candidate[1] /\ dir.source # 0
  BY <1>2, PermitFacts, SourceKept, InodeFacts DEF ExchangeFence, samePublishedFile, FilesOK
<1>4. dir \in Directories /\ dir.rollback \in [RunIDs -> InodeNo] /\ run.phase = "rollback_swap_intent"
  BY DEF FilesOK, StateOK, Directories
<1> HIDE DEF r, run
<1>5. dir'.candidate = dir.candidate /\ dir'.rollback = [dir.rollback EXCEPT ![r] = dir.source]
  BY <1>2, <1>4 DEF Directories
<1> HIDE DEF entries
<1>6. /\ dir'.rollback[r] = dir.source /\ dir'.candidate[r] = dir.candidate[r]
      /\ \A q \in RunIDs \ {r} : SamePlaces(dir', dir, q)
  BY <1>2, <1>4, <1>5 DEF SamePlaces
<1>7. r \notin swept => PlaceOK(r, run, dir', durable, inode')
  <2> SUFFICES ASSUME r \notin swept PROVE PlaceOK(r, run, dir', durable, inode')
    OBVIOUS
  <2>1. /\ Placed(run, durable.candidate[r], durable.rollback[r])
        /\ Placed(run, dir.candidate[r], dir.rollback[r])
    BY <1>2 DEF PlaceInv, PlacesOK, PlaceOK, run
  <2>2. Placed(run, dir'.candidate[r], dir'.rollback[r])
    BY <1>3, <1>4, <1>6, <2>1 DEF Placed, Unverified, Returnable
  <2>3. Ahead(run, dir'.candidate[r], durable.candidate[r]) /\ Fixed(run, dir'.candidate[r], inode')
    BY <1>4 DEF Ahead, Fixed
  <2> QED BY <2>1, <2>2, <2>3 DEF PlaceOK
<1> QED BY <1>1, <1>6, <1>7, RelinkPlaces DEF r, run

(* The places of a run that is publishing its retained file are those that   *)
(* OriginalsHeld knows.                                                      *)
LEMMA PublishKeepsPlaces ==
  ASSUME FilesOK, WorkOK, KeptInv, PlaceInv, Untouched, IsTask(task), NEW p, PublishRollback(p)
  PROVE  PlaceInv'
<1> DEFINE r == task.run
           run == runs[r]
           entries == [dir EXCEPT !.rollback[r] = dir.candidate[r], !.candidate[r] = 0]
<1>1. Relink(p, "publish", entries) /\ UNCHANGED inode
  BY DEF PublishRollback
<1>2. /\ dir' = entries /\ r \in RunIDs
      /\ CallSays("publish", Tail(task.todo), r, run, dir, durable, inode, swept)
  <2> HIDE DEF entries
  <2> QED BY <1>1, RelinkKeeps
<1>3. run.phase = "rollback_publish_intent"
  BY <1>2 DEF CallSays
<1>4. /\ dir \in Directories
      /\ dir.candidate \in [RunIDs -> InodeNo] /\ dir.rollback \in [RunIDs -> InodeNo]
  BY DEF FilesOK, StateOK, Directories
<1> HIDE DEF r, run
<1>5. /\ dir'.candidate = [dir.candidate EXCEPT ![r] = 0]
      /\ dir'.rollback = [dir.rollback EXCEPT ![r] = dir.candidate[r]]
  BY <1>2, <1>4 DEF Directories
<1> HIDE DEF entries
<1>6. \A q \in RunIDs \ {r} : SamePlaces(dir', dir, q)
  BY <1>2, <1>4, <1>5 DEF SamePlaces
<1>7. PlaceOK(r, run, dir', durable, inode')
  BY <1>3 DEF PlaceOK, Placed, Ahead, Fixed, Unverified, Returnable
<1> QED BY <1>1, <1>6, <1>7, RelinkPlaces DEF r, run

(* A candidate is removed before its copy is recorded as complete.           *)
LEMMA RemoveKeepsPlaces ==
  ASSUME FilesOK, WorkOK, KeptInv, PlaceInv, Untouched, IsTask(task), NEW p,
         NEW step \in {"unlink", "abandon"}, RemoveCandidate(p, step)
  PROVE  PlaceInv'
<1> DEFINE r == task.run
           run == runs[r]
           entries == [dir EXCEPT !.candidate[r] = 0]
<1>1. Relink(p, step, entries) /\ UNCHANGED inode /\ At(p, step)
  BY DEF RemoveCandidate, Relink
<1>2. /\ dir' = entries /\ r \in RunIDs
      /\ CallSays(step, Tail(task.todo), r, run, dir, durable, inode, swept)
  <2> HIDE DEF entries
  <2> QED BY <1>1, RelinkKeeps
<1>3. run.phase \in PrePublication
  <2>1. BuildSays(step, Tail(task.todo), r, run, dir, durable, swept)
    BY <1>1, HeadBuild DEF PlaceInv
  <2> HIDE DEF r, run
  <2>2. step = "unlink" => run.phase = "copy_retry_intent"
    BY <2>1 DEF BuildSays
  <2>3. step = "abandon" => run.phase \in PrePublication
    BY <1>2 DEF CallSays
  <2> QED BY <2>2, <2>3 DEF PrePublication
<1>4. dir \in Directories /\ dir.candidate \in [RunIDs -> InodeNo]
  BY DEF FilesOK, StateOK, Directories
<1>5. run.phase = "candidate_prepared" => run.prepared # 0
  BY <1>2 DEF FilesOK, PreparedNamed, Built
<1> HIDE DEF r, run
<1>6. dir'.rollback = dir.rollback /\ dir'.candidate = [dir.candidate EXCEPT ![r] = 0]
  BY <1>2, <1>4 DEF Directories
<1> HIDE DEF entries
<1>7. dir'.candidate[r] = 0 /\ \A q \in RunIDs \ {r} : SamePlaces(dir', dir, q)
  BY <1>2, <1>4, <1>6 DEF SamePlaces
<1>8. r \notin swept => PlaceOK(r, run, dir', durable, inode')
  <2> SUFFICES ASSUME r \notin swept PROVE PlaceOK(r, run, dir', durable, inode')
    OBVIOUS
  <2>1. Placed(run, durable.candidate[r], durable.rollback[r])
    BY <1>2 DEF PlaceInv, PlacesOK, PlaceOK, run
  <2>2. /\ Placed(run, dir'.candidate[r], dir'.rollback[r])
        /\ Ahead(run, dir'.candidate[r], durable.candidate[r])
        /\ Fixed(run, dir'.candidate[r], inode')
    BY <1>3, <1>5, <1>7 DEF Placed, Ahead, Fixed, PrePublication, Unverified, Returnable
  <2> QED BY <2>1, <2>2 DEF PlaceOK
<1> QED BY <1>1, <1>7, <1>8, RelinkPlaces DEF r, run

(* A candidate is created only where the journal says nothing of it yet.     *)
LEMMA CreateKeepsPlaces ==
  ASSUME FilesOK, WorkOK, KeptInv, PlaceInv, Untouched, IsTask(task), NEW p, PrepareCandidate(p)
  PROVE  PlaceInv'
<1> DEFINE r == task.run
           run == runs[r]
           n == FreshInode
           entries == [dir EXCEPT !.candidate[r] = n]
<1>1. Relink(p, "create", entries) /\ At(p, "create")
  BY DEF PrepareCandidate, Relink
<1>2. dir' = entries /\ r \in RunIDs
  <2> HIDE DEF entries
  <2> QED BY <1>1, RelinkKeeps
<1>3. run.phase \in {"copy_intent", "copy_retry_intent"}
  <2>1. BuildSays("create", Tail(task.todo), r, run, dir, durable, swept)
    BY <1>1, HeadBuild DEF PlaceInv
  <2> HIDE DEF r, run
  <2> QED BY <2>1 DEF BuildSays
<1>4. dir \in Directories /\ dir.candidate \in [RunIDs -> InodeNo]
  BY DEF FilesOK, StateOK, Directories
<1> HIDE DEF r, run, n
<1>5. dir'.rollback = dir.rollback /\ dir'.candidate = [dir.candidate EXCEPT ![r] = n]
  BY <1>2, <1>4 DEF Directories
<1> HIDE DEF entries
<1>6. \A q \in RunIDs \ {r} : SamePlaces(dir', dir, q)
  BY <1>2, <1>4, <1>5 DEF SamePlaces
<1>7. PlaceOK(r, run, dir', durable, inode')
  BY <1>3 DEF PlaceOK, Placed, Ahead, Fixed, Unverified, Returnable
<1> QED BY <1>1, <1>6, <1>7, RelinkPlaces DEF r, run

-----------------------------------------------------------------------------
(* What is recorded about a run's files when its phase advances.             *)
LEMMA AppendPlace ==
  ASSUME FilesOK, WorkOK, KeptInv, PlaceInv, NEW p, NEW phase \in Phases, Append1(p, phase)
  PROVE  /\ Journalled(runs'[task.run])
         /\ task.run \notin swept => PlaceOK(task.run, runs'[task.run], dir, durable, inode)
<1> DEFINE r == task.run
           old == runs[r]
           new == runs'[r]
           c == dir.candidate[r]
           dc == durable.candidate[r]
<1>1. /\ At(p, phase) /\ Permits(phase, r) /\ r \in RunIDs /\ old.phase \in Phases
      /\ phase = "candidate_verified" => c \in Inodes /\ old.phase = "scrub_in_progress"
  BY AppendFacts
<1>2. /\ new.phase = phase
      /\ new.prepared = (IF phase = "candidate_prepared" THEN c ELSE old.prepared)
      /\ new.candidate = (IF phase = "candidate_verified" THEN Identity(c) ELSE old.candidate)
      /\ new.source = old.source
  BY AppendFacts
<1>3. /\ phase \in Transitions[old.phase]
      /\ phase = "candidate_verified" => c = old.prepared
  BY <1>1, PermitFacts DEF Advance
<1>4. /\ phase # "planned" /\ (phase = "copy_intent" => old.phase = "planned")
      /\ phase = "candidate_prepared" => old.phase \in {"copy_intent", "copy_retry_intent"}
      /\ phase \in {"copy_retry_intent", "copy_complete"} => old.phase = "candidate_prepared"
      /\ phase \in Unverified => old.phase \in Unverified \cup {"candidate_prepared"}
      /\ phase \in Unverified /\ old.phase = "candidate_prepared" => phase = "copy_complete"
      /\ phase = "candidate_verified" => old.phase = "scrub_in_progress"
      /\ phase = "swap_intent" => old.phase = "candidate_verified"
      /\ phase = "committed" => old.phase = "rollback_ready"
      /\ phase = "rollback_swap_intent" => old.phase \in {"rollback_ready", "committed"}
      /\ phase = "rollback_swapped" => old.phase = "rollback_swap_intent"
  BY <1>1, <1>3, PhaseBefore
<1>5. phase \in Building => old.phase \in Building
  BY <1>1, <1>3, TransitionFacts DEF PhaseOrder
<1>6. Journalled(old)
  BY <1>1 DEF PlaceInv, PlacesOK
<1>7. BuildSays(phase, Tail(task.todo), r, old, dir, durable, swept)
  BY <1>1, HeadBuild DEF PlaceInv
<1>8. /\ phase = "candidate_prepared" => r \in swept \/ c = dc
      /\ phase = "copy_complete" => r \in swept \/ c = old.prepared
  <2> HIDE DEF r, old, c, dc
  <2> QED BY <1>7 DEF BuildSays, c, dc
<1>9. phase = "candidate_verified" => ~IsKept(c)
  BY <1>1 DEF FilesOK, CandidatesApart, Named, Building, Unverified
<1>10. phase = "candidate_verified" => c # old.source[1]
  BY <1>1, <1>9 DEF IsKept
<1>11. r \notin swept => PlaceOK(r, old, dir, durable, inode) /\ Held(r, old, dir, durable, inode)
  BY <1>1 DEF PlaceInv, PlacesOK, KeptInv, KeptOK, OriginalsHeld
<1>12. "none" # phase /\ old.phase # "none"
  BY <1>1, PhaseFacts
<1> HIDE DEF old, new, c
<1>13. Journalled(new)
  <2>1. new.phase # "none" => new.source[1] \in Inodes
    BY <1>2, <1>6, <1>12 DEF Journalled
  <2>2. new.phase \in {"none", "planned", "copy_intent"} => new.prepared = 0
    BY <1>2, <1>4, <1>6, <1>12 DEF Journalled
  <2>3. new.phase \in Building => new.candidate = NoIdentity
    BY <1>2, <1>5, <1>6 DEF Journalled, Building, PrePublication, Unverified
  <2>4. CASE phase = "candidate_verified"
    <3>1. new.candidate[1] = c /\ c # 0
      BY <1>1, <1>2, <2>4, InodeFacts DEF Identity
    <3> QED BY <1>2, <1>3, <1>10, <2>1, <2>3, <2>4, <3>1 DEF Journalled, Swapping
  <2>5. CASE phase # "candidate_verified"
    BY <1>2, <1>4, <1>6, <2>1, <2>2, <2>3, <2>5 DEF Journalled, Swapping
  <2> QED BY <2>4, <2>5
<1> DEFINE b == dir.rollback[r]
           db == durable.rollback[r]
<1>14. ASSUME r \notin swept
       PROVE  /\ Placed(new, c, b) /\ Placed(new, dc, db)
              /\ Ahead(new, c, dc) /\ Fixed(new, c, inode)
  <2>1. /\ Placed(old, c, b) /\ Placed(old, dc, db) /\ Ahead(old, c, dc) /\ Fixed(old, c, inode)
        /\ Held(r, old, dir, durable, inode)
    BY <1>11, <1>14 DEF PlaceOK, c
  <2>2. old.phase = "rollback_ready" =>
          /\ c = 0 /\ dc = 0 /\ b = old.source[1] /\ db = old.source[1]
          /\ old.source[1] # 0
    BY <2>1, InodeFacts DEF Held, Ready, Swapped, c
  <2> HIDE DEF dc, b, db
  <2>3. CASE phase = "candidate_prepared"
    BY <1>2, <1>8, <1>14, <2>3 DEF Placed, Ahead, Fixed, Unverified, Returnable
  <2>4. CASE phase = "copy_complete"
    <3>1. c = old.prepared /\ dc = old.prepared
      BY <1>4, <1>8, <1>14, <2>1, <2>4 DEF Ahead
    <3> QED BY <1>2, <2>4, <3>1 DEF Placed, Ahead, Fixed, Unverified, Returnable
  <2>5. CASE phase \in Unverified \ {"copy_complete"}
    <3>1. c = old.prepared /\ dc = old.prepared
      BY <1>4, <2>1, <2>5 DEF Placed
    <3> QED BY <1>2, <2>5, <3>1 DEF Placed, Ahead, Fixed, Unverified, Returnable
  <2>6. CASE phase = "candidate_verified"
    <3>1. c = old.prepared /\ dc = old.prepared
      BY <1>4, <2>1, <2>6 DEF Placed, Unverified
    <3>2. new.candidate[1] = c /\ new.candidate[2] = inode[c].ver
      BY <1>2, <2>6 DEF Identity
    <3> QED BY <1>2, <2>6, <3>1, <3>2 DEF Placed, Ahead, Fixed, Unverified, Returnable
  <2>7. CASE phase = "swap_intent"
    <3>1. c = old.prepared /\ dc = old.prepared
      BY <1>4, <2>1, <2>7 DEF Placed
    <3>2. old.prepared # old.source[1]
      BY <1>4, <1>6, <2>7 DEF Journalled, Swapping
    <3> QED BY <1>2, <2>7, <3>1, <3>2 DEF Placed, Ahead, Fixed, Unverified, Returnable
  <2>8. CASE phase \in Returnable
    <3>1. old.phase \in Returnable \/ old.phase = "rollback_ready"
      BY <1>4, <2>8 DEF Returnable
    <3>2. /\ c = 0 /\ b \in ({old.source[1], old.candidate[1]} \ {0}) \cup Gone
          /\ dc = 0 /\ db \in ({old.source[1], old.candidate[1]} \ {0}) \cup Gone
      BY <2>1, <2>2, <3>1 DEF Placed
    <3>3. new.source = old.source /\ new.candidate = old.candidate
      BY <1>2, <2>8 DEF Returnable
    <3> QED BY <1>2, <2>8, <3>2, <3>3 DEF Placed, Ahead, Fixed, Unverified, Returnable
  <2>9. CASE phase \notin {"candidate_prepared", "candidate_verified", "swap_intent"} \cup Unverified \cup Returnable
    BY <1>2, <1>4, <1>12, <2>9 DEF Placed, Ahead, Fixed, Unverified, Returnable
  <2> QED BY <2>3, <2>4, <2>5, <2>6, <2>7, <2>8, <2>9
<1> QED BY <1>13, <1>14 DEF PlaceOK, new, c

(* A step that changes one run's journal.                                    *)
LEMMA JournalPlaces ==
  ASSUME PlacesOK, UNCHANGED <<dir, durable, inode, sweep, swept>>, NEW r \in RunIDs,
         \A q \in RunIDs \ {r} : runs'[q] = runs[q], Journalled(runs'[r]),
         r \notin swept => PlaceOK(r, runs'[r], dir, durable, inode)
  PROVE  PlacesOK'
<1>1. \A q \in RunIDs : Journalled(runs'[q])
  BY DEF PlacesOK
<1>2. \A q \in RunIDs : q \notin swept' => PlaceOK(q, runs'[q], dir', durable', inode')
  BY DEF PlacesOK
<1>3. (\A q \in RunIDs : Journalled(runs[q]))'
  BY <1>1 DEF Journalled, Inodes, Building, PrePublication, Unverified, Swapping, NoIdentity
<1>4. (\A q \in RunIDs : q \notin swept => PlaceOK(q, runs[q], dir, durable, inode))'
  BY <1>2 DEF PlaceOK, Placed, Ahead, Fixed, Unverified, Returnable, Gone
<1>5. (sweep.stage # "none" => "sweep" \in Commands)'
  BY DEF PlacesOK
<1> QED BY <1>3, <1>4, <1>5 DEF PlacesOK

(* A phase is recorded.                                                      *)
LEMMA AppendKeepsPlaces ==
  ASSUME FilesOK, WorkOK, KeptInv, PlaceInv, IsTask(task), NEW p, NEW phase \in Phases, Append1(p, phase)
  PROVE  PlaceInv'
<1> DEFINE r == task.run
           rest == Tail(task.todo)
<1>1. /\ UNCHANGED <<dir, durable, inode, sweep, swept>> /\ At(p, phase)
      /\ Pop(phase) /\ r \in RunIDs /\ r # None /\ runs'[r].phase = phase
      /\ \A q \in RunIDs \ {r} : runs'[q] = runs[q]
  BY AppendFacts
<1>2. /\ Journalled(runs'[r])
      /\ r \notin swept => PlaceOK(r, runs'[r], dir, durable, inode)
  BY AppendPlace
<1>3. PlacesOK'
  BY <1>1, <1>2, JournalPlaces DEF PlaceInv
<1>4. BuildSays(phase, rest, r, runs[r], dir, durable, swept)
  BY <1>1, HeadBuild DEF PlaceInv
<1>5. phase \notin {"create", "sync_dir", "copy", "vacuum", "recheck"}
  BY PhaseFacts
<1>6. Builds(r, rest, runs', dir', durable', swept')
  <2> HIDE DEF r, rest
  <2>1. CASE rest \in Seq(FreeSteps)
    BY <2>1 DEF Builds
  <2>2. CASE phase = "copy_retry_intent" /\ rest = RemoveCalls
    BY <1>1, <2>2 DEF Builds, Removing
  <2> QED BY <1>4, <1>5, <2>1, <2>2 DEF BuildSays
<1>7. BuildsOK'
  BY <1>1, <1>6, PopBuilds
<1> QED BY <1>3, <1>7 DEF PlaceInv

(* A new run has no files, and fences the store as it is.                    *)
LEMMA PlanKeepsPlaces ==
  ASSUME FilesOK, PlaceInv, IsTask(task), NEW p, PlanRun(p)
  PROVE  PlaceInv'
<1> DEFINE n == NextRunID
           c == [task EXCEPT !.run = n]
<1>1. /\ UNCHANGED <<dir, durable, inode, sweep, swept>>
      /\ n \in RunIDs /\ n # None /\ runs[n].phase = "none"
      /\ task' = Continue(c, "planned", <<>>)
      /\ \A q \in RunIDs \ {n} : runs'[q] = runs[q]
  BY PlanFacts
<1>2. /\ runs'[n].phase = "planned" /\ runs'[n].source[1] = dir.source
      /\ runs'[n].prepared = 0 /\ runs'[n].candidate = NoIdentity
  BY PlanFacts DEF NoIdentity
<1>3. IsTask(c) /\ c.run = n
  BY DEF IsTask
<1> HIDE DEF n, c
<1>4. BuildsOK'
  <2>1. Builds(c.run, <<>>, runs', dir', durable', swept')
    BY FreeTuples DEF Builds
  <2>2. Builds(task'.run, task'.todo, runs', dir', durable', swept')
    BY <1>1, <1>2, <1>3, <2>1, ContinueBuilds
  <2> QED BY <2>2 DEF BuildsOK
<1>5. Journalled(runs'[n])
  BY <1>2, SourceKept DEF Journalled, Swapping, FilesOK
<1>6. ASSUME n \notin swept PROVE PlaceOK(n, runs'[n], dir, durable, inode)
  <2>1. dir.candidate[n] = 0 /\ durable.candidate[n] = 0
    BY <1>1, <1>6 DEF PlaceInv, PlacesOK, PlaceOK, Placed
  <2> QED BY <1>2, <2>1 DEF PlaceOK, Placed, Ahead, Fixed, Unverified, Returnable
<1>7. PlacesOK'
  BY <1>1, <1>5, <1>6, JournalPlaces DEF PlaceInv
<1> QED BY <1>4, <1>7 DEF PlaceInv

(* Every step of a command keeps the places.                                 *)
LEMMA StepKeepsPlaces ==
  ASSUME FilesOK, WorkOK, KeptInv, PlaceInv, IsTask(task), NEW p, Step(p)
  PROVE  PlaceInv'
<1>1. Untouched /\ KeptOK
  BY StepUntouched DEF KeptInv
<1>2. CASE Refuse(p) \/ PlanRefused(p) \/ CompactInPlace(p) \/ CancelBuild(p)
  BY <1>1, <1>2, EndsKeepPlaces
<1>3. CASE SyncDir(p)
  BY <1>1, <1>3, SyncDirKeepsPlaces
<1>4. CASE Exchange(p)
  BY <1>1, <1>4, SwapKeepsPlaces, ReturnKeepsPlaces
<1>5. CASE PublishRollback(p)
  BY <1>1, <1>5, PublishKeepsPlaces
<1>6. CASE PrepareCandidate(p)
  BY <1>1, <1>6, CreateKeepsPlaces
<1>7. ASSUME NEW step \in {"recheck", "verify", "sync_file", "vacuum", "copy"}, At(p, step),
             Permits(step, task.run), UNCHANGED <<dir, durable, runs, sweep, swept>>,
             Pop(runs[task.run].phase)
      PROVE  PlaceInv'
  BY <1>1, <1>7, WorkKeepsPlaces
<1>8. CASE SyncCandidate(p)
  BY <1>7, <1>8 DEF SyncCandidate, historyVars
<1>9. ASSUME NEW step \in {"copy", "vacuum"}, Build(p, step) PROVE PlaceInv'
  BY <1>7, <1>9 DEF Build, historyVars
<1>10. ASSUME NEW step \in {"recheck", "verify"}, Inspect(p, step) PROVE PlaceInv'
  BY <1>7, <1>10 DEF Inspect, historyVars
<1>11. CASE PlanRun(p)
  BY <1>11, PlanKeepsPlaces
<1>12. ASSUME NEW phase \in Phases, Append1(p, phase) PROVE PlaceInv'
  BY <1>12, AppendKeepsPlaces
<1>13. ASSUME NEW step \in {"unlink", "abandon"}, RemoveCandidate(p, step) PROVE PlaceInv'
  BY <1>1, <1>13, RemoveKeepsPlaces
<1> QED
  BY <1>2, <1>3, <1>4, <1>5, <1>6, <1>8, <1>9, <1>10, <1>11, <1>12, <1>13 DEF Step

-----------------------------------------------------------------------------
(* A hook writes to the store only.                                          *)
LEMMA HookKeepsPlaces ==
  ASSUME OwnedInv, FilesOK, WorkOK, KeptOK, PlaceInv, NEW p \in Procs, HookStep(p)
  PROVE  PlaceInv'
<1>1. UNCHANGED <<dir, durable, runs, task, sweep, swept>>
  BY DEF HookStep, Open, CloseStore, Write, storeVars
<1>2. Untouched
  <2>1. CASE Open(p) \/ CloseStore(p)
    BY <2>1 DEF Open, CloseStore, storeVars, Untouched
  <2>2. ASSUME NEW rec \in Records, Write(p, rec) PROVE Untouched
    <3> DEFINE s == opened[p]
    <3>1. s \in Inodes /\ s = dir.source /\ inode \in [Inodes -> Files]
      BY <2>2, SourceKept DEF Write, OwnedInv, NoDisplacedWriter, FilesOK, StateOK
    <3>2. inode' = [inode EXCEPT ![s].recs = @ \cup {rec}, ![s].ver = @ + 1]
      BY <2>2 DEF Write
    <3> HIDE DEF s
    <3> QED BY <3>1, <3>2 DEF Untouched, Files
  <2> QED BY <2>1, <2>2 DEF HookStep
<1>3. PlacesOK'
  BY <1>1, <1>2, SamePlacesStep DEF PlaceInv
<1>4. BuildsOK'
  BY <1>1, OthersKeepBuilds DEF PlaceInv
<1> QED BY <1>3, <1>4 DEF PlaceInv

(* A sweep removes the files of runs that have ended; of the others it says  *)
(* so in swept.                                                              *)
LEMMA SweepKeepsPlaces ==
  ASSUME OwnedInv, FilesOK, WorkOK, KeptOK, PlaceInv, Sweeping
  PROVE  PlaceInv'
<1>1. UNCHANGED <<durable, inode, runs, task>>
  BY DEF Sweeping, SweepList, SweepEnd, SweepRead, SweepRemove, storeVars
<1>2. Untouched
  BY <1>1 DEF Untouched
<1>3. IsSweep(sweep) /\ NoSweep.stage = "none" /\ (sweep.stage # "none" => "sweep" \in Commands)
  BY DEF OwnedInv, StoreShape, NoSweep, PlaceInv, PlacesOK
<1>4. sweep'.stage # "none" => "sweep" \in Commands
  <2>1. CASE SweepList
    <3> DEFINE found == Leftovers(sweep.kind, sweep.live)
    <3>1. /\ sweep.stage = "read"
          /\ sweep' = IF found = {} THEN NoSweep
                      ELSE [sweep EXCEPT !.stage = "remove", !.paths = found, !.live = {}]
      BY <2>1 DEF SweepList
    <3> HIDE DEF found
    <3> QED BY <1>3, <3>1
  <2>2. CASE SweepEnd
    BY <1>3, <2>2 DEF SweepEnd
  <2>3. ASSUME NEW kind, SweepRead(kind) PROVE "sweep" \in Commands
    BY <2>3 DEF SweepRead
  <2>4. ASSUME NEW r, SweepRemove(r) PROVE "sweep" \in Commands
    BY <1>3, <2>4 DEF SweepRemove
  <2> QED BY <2>1, <2>2, <2>3, <2>4 DEF Sweeping
<1>5. CASE UNCHANGED <<dir, swept>>
  <2>1. \A r : SamePlaces(dir', dir, r) /\ SamePlaces(durable', durable, r)
    BY <1>1, <1>5 DEF SamePlaces
  <2>2. PlacesOK'
    BY <1>1, <1>2, <1>4, <1>5, <2>1, PlacesFollow DEF PlaceInv
  <2>3. BuildsOK'
    BY <1>1, <1>5, OthersKeepBuilds DEF PlaceInv
  <2> QED BY <2>2, <2>3 DEF PlaceInv
<1>6. ASSUME NEW r \in RunIDs, SweepRemove(r) PROVE PlaceInv'
  <2>1. /\ swept \subseteq swept'
        /\ \A q \in RunIDs : /\ dir'.candidate[q] \in {0, dir.candidate[q]}
                             /\ dir'.rollback[q] \in {0, dir.rollback[q]}
        /\ \A q \in RunIDs : q \notin swept' /\ runs[q].phase \notin Terminal => LooksLike(dir', dir, q)
    BY <1>6, RemovedBySweep
  <2>2. 0 \in Gone
    BY <1>3, <1>6 DEF SweepRemove, Gone
  <2>3. ASSUME NEW q \in RunIDs, q \notin swept'
        PROVE  \/ SamePlaces(dir', dir, q) /\ SamePlaces(durable', durable, q)
               \/ PlaceOK(q, runs[q], dir', durable', inode')
    <3>1. CASE runs[q].phase \notin Terminal
      BY <1>1, <2>1, <2>3, <3>1 DEF LooksLike, SamePlaces
    <3>2. CASE runs[q].phase \in Terminal
      <4> DEFINE run == runs[q]
                 c == dir.candidate[q]
                 b == dir.rollback[q]
                 e == dir'.candidate[q]
                 eb == dir'.rollback[q]
      <4>1. Placed(run, c, b) /\ Placed(run, durable.candidate[q], durable.rollback[q])
        BY <2>1, <2>3 DEF PlaceInv, PlacesOK, PlaceOK
      <4>2. e \in {0, c} /\ eb \in {0, b} /\ run.phase \in Terminal
        BY <2>1, <3>2
      <4> HIDE DEF run, c, b, e, eb
      <4>3. Placed(run, e, eb)
        BY <2>2, <4>1, <4>2 DEF Placed, Terminal, Unverified, Returnable
      <4>4. Ahead(run, e, durable.candidate[q]) /\ Fixed(run, e, inode')
        BY <4>2 DEF Ahead, Fixed, Terminal
      <4> QED BY <1>1, <4>1, <4>3, <4>4 DEF PlaceOK, run, e, eb
    <3> QED BY <3>1, <3>2
  <2>4. PlacesOK'
    BY <1>1, <1>2, <1>4, <2>1, <2>3, PlacesFollow DEF PlaceInv
  <2>5. \A q \in RunIDs : q \notin swept' /\ runs[q].phase \notin Terminal =>
          dir'.candidate[q] = dir.candidate[q]
    BY <2>1 DEF LooksLike
  <2>6. BuildsOK'
    BY <1>1, <2>1, <2>5, OthersKeepBuilds DEF PlaceInv
  <2> QED BY <2>4, <2>6 DEF PlaceInv
<1> QED BY <1>5, <1>6 DEF Sweeping, SweepList, SweepEnd, SweepRead, storeVars

(* After a power loss the directory is as it was, or as it was synced.       *)
LEMMA PowerLossKeepsPlaces ==
  ASSUME FilesOK, KeptOK, PlaceInv, IsTask(task), PowerLoss
  PROVE  PlaceInv'
<1>1. /\ dir' \in {dir, durable} /\ durable' = dir' /\ UNCHANGED <<runs, swept>>
      /\ task' = NoTask /\ sweep' = NoSweep
  BY DEF PowerLoss
<1>2. PICK torn \in SUBSET {i \in 1..MaxInode : ~inode[i].safe} :
        inode' = [i \in 1..MaxInode |-> IF i \in torn THEN [inode[i] EXCEPT !.whole = FALSE] ELSE inode[i]]
  BY DEF PowerLoss
<1>3. inode \in [Inodes -> Files]
  BY DEF FilesOK, StateOK
<1>4. ASSUME NEW i \in Inodes PROVE inode'[i].ver = inode[i].ver
  <2>1. inode'[i] = [inode[i] EXCEPT !.whole = FALSE] \/ inode'[i] = inode[i]
    BY <1>2, <1>4 DEF Inodes
  <2> QED BY <1>3, <1>4, <2>1 DEF Files
<1>5. Untouched
  BY <1>4 DEF Untouched
<1>6. \A r : \/ SamePlaces(dir', dir, r) /\ SamePlaces(durable', dir, r)
             \/ SamePlaces(dir', durable, r) /\ SamePlaces(durable', durable, r)
  BY <1>1 DEF SamePlaces
<1>7. sweep'.stage = "none"
  BY <1>1 DEF NoSweep
<1>8. PlacesOK'
  BY <1>1, <1>5, <1>6, <1>7, PlacesFollow DEF PlaceInv
<1>9. BuildsOK'
  BY <1>1, IdleBuilds
<1> QED BY <1>8, <1>9 DEF PlaceInv

(* The steps that leave the files and the journals alone.                    *)
LEMMA IdleKeepsPlaces ==
  ASSUME FilesOK, KeptOK, PlacesOK, UNCHANGED <<dir, durable, inode, runs, sweep, swept>>, BuildsOK'
  PROVE  PlaceInv'
<1>1. Untouched
  BY DEF Untouched
<1> QED BY <1>1, SamePlacesStep DEF PlaceInv

(* No run has a file at first.                                               *)
LEMMA PlaceInvInit == CompactionInit => PlaceInv
<1> SUFFICES ASSUME CompactionInit PROVE PlaceInv
  OBVIOUS
<1>1. /\ dir = durable /\ sweep.stage = "none" /\ task.todo = <<>>
      /\ \A r \in RunIDs : dir.candidate[r] = 0 /\ dir.rollback[r] = 0
  BY DEF CompactionInit, NoTask, NoSweep
<1>2. \A r \in RunIDs : runs[r].phase = "none" /\ runs[r].prepared = 0 /\ runs[r].candidate = NoIdentity
  BY DEF CompactionInit, NoRun
<1>3. \A r \in RunIDs : Journalled(runs[r])
  BY <1>2 DEF Journalled, Swapping
<1>4. \A r \in RunIDs : PlaceOK(r, runs[r], dir, durable, inode)
  BY <1>1, <1>2 DEF PlaceOK, Placed, Ahead, Fixed, Unverified, Returnable
<1>5. BuildsOK
  BY <1>1, FreeTuples DEF BuildsOK, Builds
<1> QED BY <1>1, <1>3, <1>4, <1>5 DEF PlaceInv, PlacesOK

(* PlaceInv is inductive, given the three invariants before it.              *)
LEMMA PlaceInvStep ==
  OwnedInv /\ FilesInv /\ KeptInv /\ PlaceInv /\ [CompactionNext]_compactionVars => PlaceInv'
<1> SUFFICES ASSUME OwnedInv, FilesInv, KeptInv, PlaceInv, [CompactionNext]_compactionVars
             PROVE  PlaceInv'
  OBVIOUS
<1>1. FilesOK /\ WorkOK /\ IsTask(task) /\ KeptOK /\ PlacesOK /\ BuildsOK
  BY DEF FilesInv, OwnedInv, TaskOwned, KeptInv, PlaceInv
<1>2. ASSUME UNCHANGED <<dir, durable, inode, runs, sweep, swept>>, task' \in {task, NoTask}
      PROVE  PlaceInv'
  <2>1. CASE task' = task
    <3>1. BuildsOK'
      BY <1>1, <1>2, <2>1 DEF BuildsOK
    <3> QED BY <1>1, <1>2, <3>1, IdleKeepsPlaces
  <2>2. CASE task' = NoTask
    <3>1. BuildsOK'
      BY <1>1, <2>2, IdleBuilds
    <3> QED BY <1>1, <1>2, <3>1, IdleKeepsPlaces
  <2> QED BY <1>2, <2>1, <2>2
<1>3. ASSUME NEW p \in Procs, LeaseStep(p) \/ Finish(p) \/ Killed(p) PROVE PlaceInv'
  BY <1>2, <1>3 DEF LeaseStep, Finish, Killed, storeVars, historyVars
<1>4. CASE UNCHANGED compactionVars
  BY <1>2, <1>4 DEF compactionVars, storeVars, historyVars
<1>5. ASSUME NEW p \in Procs, CommandStart(p) PROVE PlaceInv'
  BY <1>1, <1>5, StartBuilds, IdleKeepsPlaces
<1> QED
  BY <1>1, <1>3, <1>4, <1>5, StepKeepsPlaces, HookKeepsPlaces, SweepKeepsPlaces,
     PowerLossKeepsPlaces DEF CompactionNext

(* The invariant of the places holds of every behaviour of maintenance.      *)
LEMMA PlaceInvariant == CompactionSpec => [](FilesInv /\ KeptInv /\ PlaceInv)
<1>1. CompactionInit => PlaceInv
  BY PlaceInvInit
<1>2. OwnedInv /\ FilesInv /\ KeptInv /\ PlaceInv /\ [CompactionNext]_compactionVars => PlaceInv'
  BY PlaceInvStep
<1> QED BY <1>1, <1>2, KeptInvariant, PTL DEF CompactionSpec

-----------------------------------------------------------------------------
(* Where Observe places a run, from where its files are.                     *)
LEMMA ObservedAt ==
  ASSUME NEW r,
         ~(runs[r].phase \in Unverified /\ (dir.candidate[r] = 0 \/ dir.candidate[r] # runs[r].prepared))
  PROVE  LET run == runs[r]
             c == dir.candidate[r]
             b == dir.rollback[r]
             original == Identity(dir.source) = run.source
             published == run.candidate # NoIdentity /\ dir.source = run.candidate[1]
         IN  /\ original /\ c = 0 /\ b = 0 => Observe(r) = "source_original"
             /\ original /\ c \notin {0, dir.source} /\ b = 0 /\ run.candidate \in {NoIdentity, Identity(c)} =>
                  Observe(r) = "candidate_ready"
             /\ ~original /\ published /\ c # 0 /\ b = 0 /\ Identity(c) = run.source =>
                  Observe(r) = "swapped"
             /\ ~original /\ published /\ c = 0 /\ b # 0 /\ Identity(b) = run.source =>
                  Observe(r) = "rollback_ready"
             /\ original /\ ~published /\ c = 0 /\ b # 0 /\ b = run.candidate[1] =>
                  Observe(r) = "rolled_back"
<1> DEFINE run == runs[r]
           cand == dir.candidate[r]
           back == dir.rollback[r]
           lost == run.phase \in Unverified /\ (cand = 0 \/ cand # run.prepared)
           fenced == run.candidate # NoIdentity
           original == Identity(dir.source) = run.source
           inCand == Identity(cand) = run.source
           inBack == Identity(back) = run.source
           changed == fenced /\ Identity(cand) # run.candidate
           published == fenced /\ samePublishedFile(dir.source, run.candidate)
           returned == samePublishedFile(back, run.candidate)
<1>1. Observe(r) =
        IF lost THEN "unknown"
        ELSE
        CASE original /\ cand = 0 /\ back = 0 -> "source_original"
          [] original /\ cand # 0 /\ back = 0 -> IF changed THEN "unknown" ELSE "candidate_ready"
          [] published /\ cand # 0 /\ back = 0 /\ inCand -> "swapped"
          [] published /\ cand = 0 /\ back # 0 /\ inBack -> "rollback_ready"
          [] original /\ cand = 0 /\ back # 0 /\ returned -> "rolled_back"
          [] OTHER -> "unknown"
  BY DEF Observe
<1>2. /\ published <=> run.candidate # NoIdentity /\ dir.source = run.candidate[1]
      /\ returned <=> back = run.candidate[1]
      /\ changed => run.candidate \notin {NoIdentity, Identity(cand)}
      /\ original /\ inCand => cand = dir.source
  BY DEF samePublishedFile, Identity
<1>3. ~lost
  OBVIOUS
<1> HIDE DEF lost, original, inCand, inBack, changed, published, returned, cand, back, run
<1>4. original /\ cand = 0 /\ back = 0 => Observe(r) = "source_original"
  BY <1>1, <1>3
<1>5. original /\ cand # 0 /\ back = 0 /\ ~changed /\ ~inCand => Observe(r) = "candidate_ready"
  BY <1>1, <1>3
<1>6. ~original /\ published /\ cand # 0 /\ back = 0 /\ inCand => Observe(r) = "swapped"
  BY <1>1, <1>3
<1>7. ~original /\ published /\ cand = 0 /\ back # 0 /\ inBack => Observe(r) = "rollback_ready"
  BY <1>1, <1>3
<1>8. original /\ ~published /\ cand = 0 /\ back # 0 /\ returned => Observe(r) = "rolled_back"
  BY <1>1, <1>3
<1> QED BY <1>2, <1>4, <1>5, <1>6, <1>7, <1>8 DEF original, inCand, inBack, cand, back, run

(* What a rerun does where it does not refuse.                               *)
LEMMA Resumes ==
  ASSUME NEW r
  PROVE  LET phase == runs[r].phase
             ours == dir.candidate[r] = runs[r].prepared
         IN  \/ /\ Observe(r) = "source_original"
                /\ phase \in {"planned", "copy_intent", "copy_retry_intent"}
             \/ /\ Observe(r) = "candidate_ready"
                /\ \/ phase \in {"copy_retry_intent", "candidate_prepared"} /\ ours
                   \/ phase \in Unverified \cup Swapping
             \/ /\ Observe(r) = "swapped"
                /\ phase \in Swapping \cup {"swapped", "rollback_publish_intent"}
             \/ /\ Observe(r) = "rollback_ready"
                /\ phase \in {"swapped", "rollback_publish_intent", "rollback_ready", "rollback_swap_intent"}
             \/ /\ Observe(r) = "rolled_back"
                /\ phase \in {"rollback_swap_intent", "rollback_swapped"}
             => RecoverySteps(r) # <<"refuse">>
<1> DEFINE phase == runs[r].phase
           placement == Observe(r)
           pair == VerifyPair(r)
           ours == dir.candidate[r] = runs[r].prepared
           again == <<"copy_retry_intent">> \o RemoveCalls
<1>1. again # <<"refuse">>
  <2>1. "copy_retry_intent" \in PlainSteps /\ RemoveCalls \in Seq(PlainSteps)
    BY PlainFacts, PlainTuples DEF RemoveCalls
  <2>2. Head(again) = "copy_retry_intent"
    BY <2>1, ConsFacts
  <2>3. Head(<<"refuse">>) = "refuse"
    OBVIOUS
  <2> QED BY <2>2, <2>3
<1>2. /\ <<>> # <<"refuse">> /\ RemoveCalls # <<"refuse">> /\ ReturnSteps # <<"refuse">>
      /\ <<"copy_complete">> # <<"refuse">> /\ <<"exchange", "sync_dir", "swapped">> # <<"refuse">>
      /\ <<"swap_intent", "sync_dir", "swapped">> # <<"refuse">> /\ <<"sync_dir", "swapped">> # <<"refuse">>
  BY DEF RemoveCalls, ReturnSteps
<1>3. /\ <<"rollback_publish_intent", "sync_dir", "rollback_ready">> # <<"refuse">>
      /\ <<"sync_dir", "rollback_ready">> # <<"refuse">>
      /\ <<"sync_dir", "rollback_swapped", "rolled_back">> # <<"refuse">>
      /\ <<"rolled_back">> # <<"refuse">>
  OBVIOUS
<1> DEFINE goal == RecoverySteps(r) # <<"refuse">>
<1>4. ASSUME placement = "source_original", phase \in {"planned", "copy_intent", "copy_retry_intent"}
      PROVE  goal
  <2>1. RecoverySteps(r) = <<>>
    BY <1>4 DEF RecoverySteps
  <2> QED BY <1>2, <2>1
<1>5. ASSUME placement = "candidate_ready",
             \/ phase \in {"copy_retry_intent", "candidate_prepared"} /\ ours
             \/ phase \in Unverified \cup Swapping
      PROVE  goal
  <2>1. RecoverySteps(r) =
          CASE phase = "copy_retry_intent" /\ ours -> RemoveCalls
            [] phase = "candidate_prepared" /\ ours -> IF pair THEN <<"copy_complete">> ELSE again
            [] phase \in Unverified \cup {"candidate_verified"} -> <<>>
            [] phase = "swap_intent" -> <<"exchange", "sync_dir", "swapped">>
            [] OTHER -> <<"refuse">>
    BY <1>5 DEF RecoverySteps, RemoveCalls
  <2> HIDE DEF phase, pair, ours, again
  <2> QED BY <1>1, <1>2, <1>5, <2>1 DEF Unverified, Swapping
<1>6. ASSUME placement = "swapped", phase \in Swapping \cup {"swapped", "rollback_publish_intent"}
      PROVE  goal
  <2>1. RecoverySteps(r) =
          CASE phase = "candidate_verified" -> <<"swap_intent", "sync_dir", "swapped">>
            [] phase = "swap_intent" -> <<"sync_dir", "swapped">>
            [] phase \in {"swapped", "rollback_publish_intent"} -> <<>>
            [] OTHER -> <<"refuse">>
    BY <1>6 DEF RecoverySteps
  <2> HIDE DEF phase
  <2> QED BY <1>2, <1>6, <2>1 DEF Swapping
<1>7. ASSUME placement = "rollback_ready",
             phase \in {"swapped", "rollback_publish_intent", "rollback_ready", "rollback_swap_intent"}
      PROVE  goal
  <2>1. RecoverySteps(r) =
          CASE phase = "swapped" -> <<"rollback_publish_intent", "sync_dir", "rollback_ready">>
            [] phase = "rollback_publish_intent" -> <<"sync_dir", "rollback_ready">>
            [] phase \in {"rollback_ready", "committed"} -> <<>>
            [] phase = "rollback_swap_intent" -> ReturnSteps
            [] OTHER -> <<"refuse">>
    BY <1>7 DEF RecoverySteps, ReturnSteps
  <2> HIDE DEF phase
  <2> QED BY <1>2, <1>3, <1>7, <2>1
<1>8. ASSUME placement = "rolled_back", phase \in {"rollback_swap_intent", "rollback_swapped"}
      PROVE  goal
  <2>1. RecoverySteps(r) =
          CASE phase = "rollback_swap_intent" -> <<"sync_dir", "rollback_swapped", "rolled_back">>
            [] phase = "rollback_swapped" -> <<"rolled_back">>
            [] phase = "rolled_back" -> <<>>
            [] OTHER -> <<"refuse">>
    BY <1>8 DEF RecoverySteps
  <2> HIDE DEF phase
  <2> QED BY <1>3, <1>8, <2>1
<1> QED BY <1>4, <1>5, <1>6, <1>7, <1>8

(* A run in flight that no sweep has touched is stale, or resumed, or one of *)
(* the six exceptions.                                                       *)
LEMMA RunResumes ==
  ASSUME FilesInv, KeptInv, PlaceInv, NEW r \in RunIDs, r \in InFlight, r \notin swept,
         ~Stale(r), ~Unrecorded(r), ~SourceMoved(r), ~CandidateMoved(r),
         ~OriginalWritten(r), ~RollbackUndone(r), ~RetainedSwept(r)
  PROVE  RecoverySteps(r) # <<"refuse">>
<1> DEFINE run == runs[r]
           phase == run.phase
           c == dir.candidate[r]
           b == dir.rollback[r]
           s == dir.source
           original == Identity(s) = run.source
           published == run.candidate # NoIdentity /\ s = run.candidate[1]
<1>1. /\ Journalled(run) /\ Placed(run, c, b) /\ Fixed(run, c, inode)
      /\ Held(r, run, dir, durable, inode)
  BY DEF PlaceInv, PlacesOK, PlaceOK, KeptInv, KeptOK, OriginalsHeld
<1>2. /\ s \in Inodes /\ s # 0 /\ c # s /\ b # s
      /\ phase \in PreSwap => b = 0
      /\ phase \in Built => run.prepared # 0
      /\ phase \in Phases \ Terminal
  <2>1. s \in Inodes /\ s # 0
    BY SourceKept, InodeFacts DEF FilesInv, FilesOK
  <2>2. c # s /\ b # s /\ (phase \in PreSwap => b = 0)
    BY DEF KeptInv, KeptOK, Unique, NoRollbackYet
  <2>3. phase \in Built => run.prepared # 0
    BY DEF FilesInv, FilesOK, PreparedNamed
  <2>4. phase \in Phases \ Terminal
    BY DEF InFlight, Exists, FilesInv, FilesOK, StateOK, Journals
  <2> QED BY <2>1, <2>2, <2>3, <2>4
<1>3. /\ s = run.candidate[1] => published
      /\ original => s = run.source[1]
      /\ original \/ s = run.candidate[1]
      /\ phase \in Building => original
  <2>1. s = run.candidate[1] => run.candidate # NoIdentity
    BY <1>2 DEF NoIdentity
  <2>2. original => s = run.source[1]
    BY DEF Identity
  <2>3. original \/ s = run.candidate[1]
    BY DEF SourceMoved
  <2>4. phase \in Building => run.candidate = NoIdentity
    BY <1>1 DEF Journalled
  <2> QED BY <2>1, <2>2, <2>3, <2>4
<1>4. run.source = <<run.source[1], run.source[2]>> /\ run.candidate = <<run.candidate[1], run.candidate[2]>>
  BY DEF FilesInv, FilesOK, StateOK, Journals
<1>5. \A i : inode[i].ver = run.source[2] /\ i = run.source[1] => Identity(i) = run.source
  BY <1>4 DEF Identity
<1>6. CASE phase \in PrePublication
  <2>1. /\ original /\ b = 0 /\ run.candidate = NoIdentity /\ phase \notin Unverified
    BY <1>1, <1>2, <1>3, <1>6 DEF PreSwap, Building, Journalled, PrePublication, Unverified
  <2>2. \/ c = 0 /\ phase \in {"planned", "copy_intent", "copy_retry_intent"}
        \/ c # 0 /\ phase \in {"copy_retry_intent", "candidate_prepared"} /\ c = run.prepared
    <3>1. CASE phase = "planned"
      BY <1>1, <3>1 DEF Placed
    <3>2. CASE phase = "copy_intent"
      BY <1>1, <3>2 DEF Journalled, Unrecorded
    <3>3. CASE phase = "copy_retry_intent"
      BY <3>3 DEF Unrecorded
    <3>4. CASE phase = "candidate_prepared"
      BY <1>1, <3>4 DEF Placed, CandidateMoved
    <3> QED BY <1>6, <3>1, <3>2, <3>3, <3>4 DEF PrePublication
  <2>3. \/ c = 0 /\ Observe(r) = "source_original"
        \/ c # 0 /\ Observe(r) = "candidate_ready"
    BY <1>2, <2>1, ObservedAt
  <2> QED BY <2>2, <2>3, Resumes
<1>7. CASE phase \in Unverified
  <2>1. original /\ b = 0 /\ run.candidate = NoIdentity /\ c = run.prepared /\ c # 0
    BY <1>1, <1>2, <1>3, <1>7 DEF PreSwap, Building, Built, Journalled, Placed
  <2>2. Observe(r) = "candidate_ready"
    BY <1>2, <2>1, ObservedAt
  <2> QED BY <1>7, <2>2, Resumes
<1>8. CASE phase \in Swapping
  <2>1. /\ b = 0 /\ phase \notin Unverified /\ run.candidate[1] = run.prepared /\ run.prepared # 0
        /\ c = run.prepared \/ (phase = "swap_intent" /\ c = run.source[1])
    BY <1>1, <1>2, <1>8 DEF PreSwap, Journalled, Placed, Swapping, Unverified
  <2>2. CASE original
    <3>1. c = run.prepared /\ c # 0
      BY <1>2, <1>3, <2>1, <2>2
    <3>2. Identity(c) = run.candidate
      <4>1. CASE phase = "candidate_verified"
        BY <1>1, <1>4, <2>1, <3>1, <4>1 DEF Fixed, Identity
      <4>2. CASE phase = "swap_intent"
        BY <2>1, <3>1, <4>2 DEF CandidateMoved
      <4> QED BY <1>8, <4>1, <4>2 DEF Swapping
    <3>3. Observe(r) = "candidate_ready"
      BY <1>2, <2>1, <2>2, <3>1, <3>2, ObservedAt
    <3> QED BY <1>8, <3>3, Resumes
  <2>3. CASE ~original
    <3>1. s = run.candidate[1] /\ published
      BY <1>3, <2>3
    <3>2. phase = "swap_intent" /\ c = run.source[1]
      BY <1>2, <2>1, <3>1
    <3>3. Identity(c) = run.source /\ c # 0
      BY <1>1, <1>5, <3>2, InodeFacts DEF Fixed, Journalled
    <3>4. Observe(r) = "swapped"
      BY <2>1, <2>3, <3>1, <3>3, ObservedAt
    <3> QED BY <1>8, <3>4, Resumes
  <2> QED BY <2>2, <2>3
<1>9. CASE phase \in Displaced
  <2>1. /\ run.source[1] # 0 /\ Identity(run.source[1]) = run.source /\ phase \notin Unverified
        /\ \/ c = run.source[1] /\ b = 0
           \/ c = 0 /\ b = run.source[1]
        /\ phase = "rollback_ready" => b = run.source[1]
    BY <1>1, <1>5, <1>9, InodeFacts DEF Held, Swapped, Ready, Displaced, Unverified
  <2>2. ~original /\ published
    BY <1>2, <1>3, <2>1
  <2>3. \/ c # 0 /\ phase # "rollback_ready" /\ Observe(r) = "swapped"
        \/ c = 0 /\ Observe(r) = "rollback_ready"
    BY <2>1, <2>2, ObservedAt
  <2> QED BY <1>9, <2>3, Resumes DEF Displaced
<1>10. CASE phase \in {"rollback_swap_intent", "rollback_swapped"}
  <2>1. c = 0 /\ b # 0 /\ b \in {run.source[1], run.candidate[1]} /\ phase \notin Unverified
    <3>1. c = 0 /\ b \in ({run.source[1], run.candidate[1]} \ {0}) \cup Gone
      BY <1>1, <1>10 DEF Placed, Returnable
    <3>2. b = 0 => "sweep" \notin Commands
      BY <1>10 DEF RetainedSwept
    <3> QED BY <1>10, <3>1, <3>2 DEF Gone, Unverified
  <2>2. Identity(run.source[1]) = run.source
    BY <1>10 DEF OriginalWritten
  <2>3. CASE original
    <3>1. b = run.candidate[1] /\ ~published
      BY <1>2, <1>3, <2>1, <2>3
    <3>2. Observe(r) = "rolled_back"
      BY <2>1, <2>3, <3>1, ObservedAt
    <3> QED BY <1>10, <3>2, Resumes
  <2>4. CASE ~original
    <3>1. s = run.candidate[1] /\ published
      BY <1>3, <2>4
    <3>2. b = run.source[1] /\ phase = "rollback_swap_intent"
      BY <1>2, <1>10, <2>1, <3>1 DEF RollbackUndone
    <3>3. Observe(r) = "rollback_ready"
      BY <2>1, <2>2, <2>4, <3>1, <3>2, ObservedAt
    <3> QED BY <3>2, <3>3, Resumes
  <2> QED BY <2>3, <2>4
<1> QED
  BY <1>2, <1>6, <1>7, <1>8, <1>9, <1>10 DEF Phases, Terminal, Swapping, Displaced

(* A compaction that a crash or a power loss cut short, at whichever of its  *)
(* calls, is resumed or abandoned by the next `store compact`, unless its    *)
(* files or its store are in one of the six states that the property names:  *)
(* RecoveryActions knows every other combination of placement and phase that *)
(* can arise, also where doctor sweeps beside it.                            *)
THEOREM CrashesAreResumable == CompactionSpec => []CrashLeavesResumable
<1>1. FilesInv /\ KeptInv /\ PlaceInv => CrashLeavesResumable
  <2> SUFFICES ASSUME FilesInv, KeptInv, PlaceInv, NEW r \in InFlight \ swept
               PROVE  \/ Stale(r) \/ RecoverySteps(r) # <<"refuse">>
                      \/ Unrecorded(r) \/ SourceMoved(r) \/ CandidateMoved(r)
                      \/ OriginalWritten(r) \/ RollbackUndone(r) \/ RetainedSwept(r)
    BY DEF CrashLeavesResumable
  <2>1. r \in RunIDs
    BY DEF InFlight
  <2> QED BY <2>1, RunResumes
<1> QED BY <1>1, PlaceInvariant, PTL
=============================================================================
