-------------------------------- MODULE HookSpool --------------------------------
(*****************************************************************************)
(* The durable hook spool (presentation/cli/hook_spool.go): a directory that *)
(* hook processes and `doctor --fix` share without a lock. A hook publishes  *)
(* its delivery, runs it, clears or promotes the file, then replays backlog. *)
(*                                                                           *)
(* Every system call that reads or changes the directory is one step. File   *)
(* names with a random part are fresh: a name is taken again only when no    *)
(* file, path or listing mentions it, and when none is left the call fails   *)
(* as it does when rand.Read fails. A record's bytes are left out: it is     *)
(* always well formed, but a read may fail. Leftover *.tmp files are never   *)
(* read, and not kept.                                                       *)
(*****************************************************************************)
EXTENDS Integers, FiniteSets

CONSTANTS
  Deliveries,     \* hook invocations, each with its own receipt
  Processes,      \* operating system processes, hooks or doctor
  Bases,          \* base names given on a move: zz-retry-... and dead-...
  Tags,           \* random suffixes of claims
  None,
  RetryLimit,     \* hookSpoolRetryLimit
  BatchLimit,     \* the limit of one drain
  MaxFaults,      \* bound on crashes, failed calls and overtaken live owners
  Respawn         \* whether a process that ended is started again

ASSUME SpoolAssumption ==
  /\ RetryLimit \in Nat \ {0} /\ BatchLimit \in Nat \ {0} /\ MaxFaults \in Nat
  /\ Respawn \in BOOLEAN
  /\ None \notin Bases /\ None \notin Tags /\ Bases \cap Deliveries = {}

VARIABLES
  files,          \* the spool directory: name -> content
  procs,          \* the processes
  older,          \* <<b, c>>: base b was in use when the retry name c was given
  spooled,        \* deliveries that were published in the spool
  handled,        \* deliveries whose handler committed its writes
  events,         \* events recorded for a delivery, counted up to two
  pruned,         \* deliveries a dead letter of which was pruned
  faults

store == <<handled, events>>
spoolVars == <<files, older, procs, spooled, handled, events, pruned, faults>>

-----------------------------------------------------------------------------
(* File names: <base>.inflight, <base>.json, <base>.json.claim-<tag> and     *)
(* dead/<base>.json. The base a delivery is published under is its own.      *)
Inflight(b) == [dir |-> "inflight", base |-> b, tag |-> None]
Pending(b) == [dir |-> "pending", base |-> b, tag |-> None]
Dead(b) == [dir |-> "dead", base |-> b, tag |-> None]
Claimed(b, c) == [dir |-> "claim", base |-> b, tag |-> c]
Names ==
  {Inflight(d) : d \in Deliveries} \cup {Dead(b) : b \in Bases}
  \cup {Pending(b) : b \in Bases \cup Deliveries}
  \cup {Claimed(b, c) : b \in Bases \cup Deliveries, c \in Tags}

ASSUME NoneAssumption == None \notin Names

(* hookSpoolRecord. `transient`: LastError is one that may be requeued.      *)
(* `age` is the file's mtime: at least a minute ago ("stale"), or at least   *)
(* the retention window ago ("expired", dead letters only).                  *)
Ages == {"new", "stale", "expired"}
Records ==
  [d : Deliveries, receipt : BOOLEAN, attempts : 0..RetryLimit, transient : BOOLEAN, age : Ages]
NewRecord(d) ==
  [d |-> d, receipt |-> TRUE, attempts |-> 0, transient |-> FALSE, age |-> "new"]

ProcessSteps ==
  {"idle", "ended", "run", "promote", "clear", "dead", "deadLoop", "deadWrite", "prune", "pruneLoop",
   "drain", "recoverCurrent", "recoverClaims", "restore", "tail", "loop", "touch", "load",
   "replay", "remove", "requeue", "rewrite", "retry", "bury"}
ProcessRecords ==
  [pc : ProcessSteps, doctor : BOOLEAN, path : Names \cup {None}, rec : Records \cup {None},
   todo : SUBSET Names, moved : BOOLEAN, pending : BOOLEAN, claimed : 0..BatchLimit,
   transient : BOOLEAN]
IdleProcess ==
  [pc |-> "idle", doctor |-> FALSE, path |-> None, rec |-> None, todo |-> {},
   moved |-> FALSE, pending |-> FALSE, claimed |-> 0, transient |-> FALSE]

SpoolInit ==
  /\ files = [n \in {} |-> None] /\ older = {}
  /\ procs = [p \in Processes |-> IdleProcess]
  /\ spooled = {} /\ handled = {} /\ pruned = {}
  /\ events = [d \in Deliveries |-> 0]
  /\ faults = 0

(* Every file and process has its type; a record's attempts stop at the cap. *)
SpoolTypeOK ==
  /\ DOMAIN files \subseteq Names
  /\ \A n \in DOMAIN files : files[n] \in Records
  /\ older \subseteq Bases \X Bases
  /\ procs \in [Processes -> ProcessRecords]
  /\ spooled \subseteq Deliveries /\ handled \subseteq Deliveries /\ pruned \subseteq Deliveries
  /\ events \in [Deliveries -> 0..2]
  /\ faults \in 0..MaxFaults

-----------------------------------------------------------------------------
(* The directory.                                                            *)
Exists(n) == n \in DOMAIN files
Remove(n) == files' = [m \in DOMAIN files \ {n} |-> files[m]]
Write(n, r) == files' = [m \in DOMAIN files \cup {n} |-> IF m = n THEN r ELSE files[m]]
Rename(n, m) ==
  files' = [k \in (DOMAIN files \ {n}) \cup {m} |-> IF k = m THEN files[n] ELSE files[k]]
Listed(dir) == {n \in DOMAIN files : n.dir = dir}

(* Fresh names; the one that is left behind by a move of n counts as well.   *)
InUse == DOMAIN files \cup UNION {procs[p].todo \cup {procs[p].path} : p \in Processes}
FreshBases(n) == {b \in Bases : \A m \in InUse \ {None, n} : m.base # b}
FreshTags(b) == {c \in Tags : Claimed(b, c) \notin InUse}
NewBase(n) == CHOOSE b \in FreshBases(n) : TRUE
NewTag(b) == CHOOSE c \in FreshTags(b) : TRUE

(* A move to a new name at the tail of the queue. zz-retry names sort after  *)
(* the names of first deliveries, whose own order is left open.              *)
RenameToTail(n) ==
  /\ FreshBases(n) # {}
  /\ Rename(n, Pending(NewBase(n)))
  /\ older' = {e \in older : e[1] \notin FreshBases(n) /\ e[2] \notin FreshBases(n)}
               \cup {<<b, NewBase(n)>> : b \in Bases \ FreshBases(n)}
Before(m, n) ==
  \/ m.base \in Deliveries /\ n.base \in Bases
  \/ <<m.base, n.base>> \in older

Fault == faults < MaxFaults /\ faults' = faults + 1
NoFault == UNCHANGED faults
(* A call fails because its file is gone, or for a reason of its own.        *)
Fails(n) == UNCHANGED files /\ ((~Exists(n) /\ NoFault) \/ Fault)
NoName(names) == names = {} /\ UNCHANGED files /\ NoFault

Goto(p, pc) == procs' = [procs EXCEPT ![p].pc = pc]
GotoLoop(p) ==
  procs' = [procs EXCEPT ![p] = [@ EXCEPT
    !.pc = "loop", !.path = None, !.rec = None, !.transient = FALSE]]
Exit(p) ==
  procs' = [procs EXCEPT ![p] = [IdleProcess EXCEPT !.pc = IF Respawn THEN "idle" ELSE "ended"]]
Done(p, n, pc) ==
  procs' = [procs EXCEPT ![p] = [@ EXCEPT
    !.pc = pc, !.path = None, !.todo = procs[p].todo \ {n}]]
List(p, pc, names) == procs' = [procs EXCEPT ![p] = [@ EXCEPT !.pc = pc, !.todo = names]]

(* What the handler of a delivery commits: the event store recognises a      *)
(* receipt it has recorded.                                                  *)
Handle(r) ==
  /\ handled' = handled \cup {r.d}
  /\ events' = IF r.receipt /\ events[r.d] > 0 THEN events
               ELSE [events EXCEPT ![r.d] = IF @ = 2 THEN 2 ELSE @ + 1]

-----------------------------------------------------------------------------
(* runHookDurably.                                                           *)

persistCurrentHookSpoolRecord(p, d) ==
  /\ procs[p].pc = "idle"
  /\ d \notin spooled \cup handled
  /\ Write(Inflight(d), NewRecord(d))
  /\ spooled' = spooled \cup {d}
  /\ procs' = [procs EXCEPT ![p] = [@ EXCEPT
       !.pc = "run", !.path = Inflight(d), !.rec = NewRecord(d)]]
  /\ UNCHANGED <<older, store, pruned, faults>>

(* The spool is unavailable: the hook runs all the same.                     *)
RunUnspooled(d) ==
  /\ d \notin spooled \cup handled
  /\ Fault
  /\ Handle(NewRecord(d))
  /\ UNCHANGED <<files, older, procs, spooled, pruned>>

(* The hook of a delivery that is not among Deliveries: it succeeded, its    *)
(* record is cleared and it goes on to the backlog.                          *)
LaterHook(p) ==
  /\ procs[p].pc = "idle"
  /\ Goto(p, "drain")
  /\ UNCHANGED <<files, older, store, spooled, pruned, faults>>

(* Mutant: the record is cleared before the handler ran.                     *)
ClearBeforeRun(p) ==
  /\ procs[p].pc = "run"
  /\ Goto(p, "clear") /\ UNCHANGED store
  /\ UNCHANGED <<files, older, spooled, pruned, faults>>

(* run(record): an error does not tell whether the writes were committed.    *)
RunCurrent(p) ==
  /\ procs[p].pc = "run"
  /\ \/ Handle(procs[p].rec) /\ Goto(p, "clear")
     \/ (Handle(procs[p].rec) \/ UNCHANGED store) /\ Goto(p, "promote")
  /\ UNCHANGED <<files, older, spooled, pruned, faults>>

promoteCurrentHookSpoolRecord(p) ==
  LET n == procs[p].path IN
  /\ procs[p].pc = "promote"
  /\ \/ Exists(n) /\ Rename(n, Pending(n.base)) /\ NoFault
     \/ Fails(n)
  /\ Exit(p)
  /\ UNCHANGED <<older, store, spooled, pruned>>

(* A success continues with the opportunistic drain if there is time left.   *)
clearCurrentHookSpoolRecord(p) ==
  LET n == procs[p].path
      json == Pending(n.base) IN
  /\ procs[p].pc = "clear"
  /\ \/ /\ IF Exists(n) THEN Remove(n) ELSE IF Exists(json) THEN Remove(json) ELSE UNCHANGED files
        /\ \/ procs' = [procs EXCEPT ![p] = [IdleProcess EXCEPT !.pc = "drain"]]
           \/ Exit(p)
        /\ NoFault
     \/ Fault /\ UNCHANGED files /\ Exit(p)
  /\ UNCHANGED <<older, store, spooled, pruned>>

-----------------------------------------------------------------------------
(* drainHookSpoolRecordsDetailed.                                            *)

StartDrain(p) ==
  /\ procs[p].pc = "drain"
  /\ procs' = [procs EXCEPT ![p] = [@ EXCEPT
       !.pc = "recoverCurrent", !.moved = FALSE, !.claimed = 0,
       !.todo = {n \in Listed("inflight") : files[n].age # "new"}]]
  /\ UNCHANGED <<files, older, store, spooled, pruned, faults>>

(* recoverStaleCurrentHookSpoolRecords. A file that vanished after the       *)
(* listing ends the drain: os.IsNotExist does not see through the wrapping.  *)
RecoverCurrent(p, n) ==
  /\ procs[p].pc = "recoverCurrent" /\ n \in procs[p].todo
  /\ \/ Exists(n) /\ Rename(n, Pending(n.base)) /\ NoFault /\ Done(p, n, "recoverCurrent")
     \/ Fails(n) /\ Exit(p)
  /\ UNCHANGED <<older, store, spooled, pruned>>

(* Mutant: claims left by a killed process are not listed.                   *)
OrphanedClaimsIgnored(p) ==
  /\ procs[p].pc = "recoverCurrent" /\ procs[p].todo = {}
  /\ List(p, "recoverClaims", {})
  /\ UNCHANGED <<files, older, store, spooled, pruned, faults>>

(* recoverStaleClaimedHookSpoolRecords.                                      *)
ListStaleClaims(p) ==
  /\ procs[p].pc = "recoverCurrent" /\ procs[p].todo = {}
  /\ List(p, "recoverClaims", {n \in Listed("claim") : files[n].age # "new"})
  /\ UNCHANGED <<files, older, store, spooled, pruned, faults>>

(* releaseStaleClaimedHookSpoolRecord: Lstat, then Rename, which replaces a  *)
(* file that appeared in between.                                            *)
InspectClaim(p, n) ==
  /\ procs[p].pc = "recoverClaims" /\ n \in procs[p].todo
  /\ procs' = [procs EXCEPT ![p] = [@ EXCEPT
       !.pc = IF Exists(Pending(n.base)) THEN "tail" ELSE "restore",
       !.path = n, !.todo = procs[p].todo \ {n}]]
  /\ UNCHANGED <<files, older, store, spooled, pruned, faults>>

RestoreClaim(p) ==
  LET n == procs[p].path IN
  /\ procs[p].pc = "restore"
  /\ \/ Exists(n) /\ Rename(n, Pending(n.base)) /\ NoFault /\ Done(p, n, "recoverClaims")
     \/ ~Exists(n) /\ UNCHANGED files /\ NoFault /\ Exit(p)
     \/ Fault /\ UNCHANGED files /\ Goto(p, "tail")
  /\ UNCHANGED <<older, store, spooled, pruned>>

TailClaim(p) ==
  LET n == procs[p].path IN
  /\ procs[p].pc = "tail"
  /\ \/ Exists(n) /\ RenameToTail(n) /\ NoFault /\ Done(p, n, "recoverClaims")
     \/ (Fails(n) \/ NoName(FreshBases(n))) /\ UNCHANGED older /\ Exit(p)
  /\ UNCHANGED <<store, spooled, pruned>>

ListPending(p) ==
  /\ procs[p].pc = "recoverClaims" /\ procs[p].todo = {}
  /\ List(p, "loop", Listed("pending"))
  /\ UNCHANGED <<files, older, store, spooled, pruned, faults>>

(* claimHookSpoolRecord: the rename, and the Chtimes after it.               *)
ClaimRecord(p, n) ==
  /\ procs[p].pc = "loop" /\ n \in procs[p].todo /\ procs[p].claimed < BatchLimit
  /\ \A m \in procs[p].todo : ~Before(m, n)
  /\ \/ /\ Exists(n) /\ FreshTags(n.base) # {}
        /\ Rename(n, Claimed(n.base, NewTag(n.base))) /\ NoFault
        /\ procs' = [procs EXCEPT ![p] = [@ EXCEPT
             !.pc = "touch", !.path = Claimed(n.base, NewTag(n.base)), !.todo = procs[p].todo \ {n},
             !.claimed = procs[p].claimed + 1]]
     \/ (Fails(n) \/ NoName(FreshTags(n.base))) /\ Done(p, n, "loop")
  /\ UNCHANGED <<older, store, spooled, pruned>>

TouchClaim(p) ==
  LET n == procs[p].path IN
  /\ procs[p].pc = "touch"
  /\ \/ Exists(n) /\ Write(n, [files[n] EXCEPT !.age = "new"]) /\ NoFault
     \/ Fails(n)
  /\ Goto(p, "load")
  /\ UNCHANGED <<older, store, spooled, pruned>>

(* loadClaimedHookSpoolRecord and the test of the retry cap.                 *)
LoadClaimed(p) ==
  LET n == procs[p].path IN
  /\ procs[p].pc = "load"
  /\ \/ /\ Exists(n) /\ NoFault /\ UNCHANGED files
        /\ procs' = [procs EXCEPT ![p] = [@ EXCEPT !.rec = files[n],
             !.pc = IF files[n].attempts >= RetryLimit THEN "bury" ELSE "replay"]]
     \/ /\ Fails(n)
        /\ procs' = [procs EXCEPT ![p] = [@ EXCEPT !.pc = "requeue", !.transient = FALSE]]
  /\ UNCHANGED <<older, store, spooled, pruned>>

(* replayHookSpoolRecord.                                                    *)
Replay(p) ==
  /\ procs[p].pc = "replay"
  /\ \/ Handle(procs[p].rec) /\ Goto(p, "remove")
     \/ /\ Handle(procs[p].rec) \/ UNCHANGED store
        /\ \E e \in BOOLEAN :
             procs' = [procs EXCEPT ![p] = [@ EXCEPT !.pc = "requeue", !.transient = e]]
  /\ UNCHANGED <<files, older, spooled, pruned, faults>>

RemoveReplayed(p) ==
  LET n == procs[p].path IN
  /\ procs[p].pc = "remove"
  /\ \/ /\ IF Exists(n) THEN Remove(n) ELSE UNCHANGED files
        /\ NoFault
        /\ procs' = [procs EXCEPT ![p] = [@ EXCEPT
             !.pc = "loop", !.path = None, !.rec = None, !.moved = TRUE]]
     \/ /\ Fault /\ UNCHANGED files
        /\ procs' = [procs EXCEPT ![p] = [@ EXCEPT !.pc = "requeue", !.transient = FALSE]]
  /\ UNCHANGED <<older, store, spooled, pruned>>

(* requeueHookSpoolRecord: read, rewrite in place, rename.                   *)

(* Mutant: the rewritten record loses its receipt.                           *)
ReceiptLost(r, e) ==
  [r EXCEPT !.receipt = FALSE, !.attempts = IF @ = RetryLimit THEN @ ELSE @ + 1,
            !.transient = e, !.age = "new"]

Requeued(r, e) ==
  [r EXCEPT !.attempts = IF @ = RetryLimit THEN @ ELSE @ + 1, !.transient = e, !.age = "new"]

RequeueRead(p) ==
  LET n == procs[p].path IN
  /\ procs[p].pc = "requeue"
  /\ \/ /\ Exists(n) /\ NoFault /\ UNCHANGED files
        /\ procs' = [procs EXCEPT ![p] = [@ EXCEPT
             !.pc = "rewrite", !.rec = Requeued(files[n], procs[p].transient)]]
     \/ Fails(n) /\ Goto(p, "bury")
  /\ UNCHANGED <<older, store, spooled, pruned>>

(* writeHookSpoolRecordAtomic: creates the file again if it was renamed.     *)
RequeueWrite(p) ==
  /\ procs[p].pc = "rewrite"
  /\ \/ /\ Write(procs[p].path, procs[p].rec) /\ NoFault
        /\ Goto(p, IF procs[p].rec.attempts >= RetryLimit THEN "bury" ELSE "retry")
     \/ Fault /\ UNCHANGED files /\ GotoLoop(p)
  /\ UNCHANGED <<older, store, spooled, pruned>>

(* renameHookSpoolRecordToRetryTail, renameHookSpoolRecordToDead.            *)
MoveClaimed(p) ==
  LET n == procs[p].path IN
  /\ procs[p].pc \in {"retry", "bury"}
  /\ \/ Exists(n) /\ procs[p].pc = "retry" /\ RenameToTail(n) /\ NoFault
     \/ /\ Exists(n) /\ procs[p].pc = "bury" /\ FreshBases(n) # {}
        /\ Rename(n, Dead(NewBase(n))) /\ UNCHANGED older /\ NoFault
     \/ (Fails(n) \/ NoName(FreshBases(n))) /\ UNCHANGED older
  /\ GotoLoop(p)
  /\ UNCHANGED <<store, spooled, pruned>>

(* The batch is done, or the context or the deadline is. Doctor drains again *)
(* while records are replayed, more are pending and time is left.            *)
StopDrain(p) ==
  /\ procs[p].pc = "loop"
  /\ \/ (procs[p].todo = {} \/ procs[p].claimed = BatchLimit) /\ NoFault
     \/ Fault
  /\ \/ Exit(p)
     \/ /\ procs[p].doctor /\ procs[p].moved /\ Listed("pending") # {}
        /\ procs' = [procs EXCEPT ![p] = [@ EXCEPT !.pc = "drain", !.todo = {}]]
  /\ UNCHANGED <<files, older, store, spooled, pruned>>

-----------------------------------------------------------------------------
(* doctor --fix: fixHookSpoolRequeueThenDrain.                               *)

(* countHookSpoolPendingPaths: claims do not count.                          *)
HasPending == Listed("pending") # {} \/ \E n \in Listed("inflight") : files[n].age # "new"

StartDoctor(p) ==
  /\ procs[p].pc = "idle"
  /\ procs' = [procs EXCEPT ![p] = [@ EXCEPT
       !.pc = "dead", !.doctor = TRUE, !.pending = HasPending]]
  /\ UNCHANGED <<files, older, store, spooled, pruned, faults>>

ListDead(p) ==
  /\ procs[p].pc = "dead"
  /\ procs' = [procs EXCEPT ![p] = [@ EXCEPT
       !.pc = "deadLoop", !.todo = Listed("dead"), !.moved = FALSE]]
  /\ UNCHANGED <<files, older, store, spooled, pruned, faults>>

(* requeueHookSpoolDeadLettersLimited: the rename, and the write that resets *)
(* the record under its new name.                                            *)
RequeueDead(p, n) ==
  /\ procs[p].pc = "deadLoop" /\ n \in procs[p].todo
  /\ \/ /\ Exists(n) /\ files[n].transient /\ RenameToTail(n) /\ NoFault
        /\ procs' = [procs EXCEPT ![p] = [@ EXCEPT
             !.pc = "deadWrite", !.path = Pending(NewBase(n)), !.todo = procs[p].todo \ {n},
             !.rec = [files[n] EXCEPT !.attempts = 0, !.transient = FALSE, !.age = "new"]]]
     \/ Fails(n) /\ UNCHANGED older /\ (Done(p, n, "deadLoop") \/ Exit(p))
     \/ Exists(n) /\ files[n].transient /\ NoName(FreshBases(n)) /\ UNCHANGED older /\ Exit(p)
     \/ /\ Exists(n) /\ ~files[n].transient
        /\ UNCHANGED <<files, older>> /\ NoFault /\ Done(p, n, "deadLoop")
  /\ UNCHANGED <<store, spooled, pruned>>

ResetRequeued(p) ==
  /\ procs[p].pc = "deadWrite"
  /\ \/ /\ Write(procs[p].path, procs[p].rec) /\ NoFault
        /\ procs' = [procs EXCEPT ![p] = [@ EXCEPT
             !.pc = "deadLoop", !.path = None, !.rec = None, !.moved = TRUE, !.pending = TRUE]]
     \/ Fault /\ UNCHANGED files /\ Exit(p)
  /\ UNCHANGED <<older, store, spooled, pruned>>

(* Another batch while something was requeued, until the deadline.           *)
DeadDone(p) ==
  /\ procs[p].pc = "deadLoop" /\ procs[p].todo = {}
  /\ \/ Goto(p, "prune")
     \/ procs[p].moved /\ Goto(p, "dead")
  /\ UNCHANGED <<files, older, store, spooled, pruned, faults>>

(* pruneHookSpoolDeadLetters.                                                *)
ListExpired(p) ==
  /\ procs[p].pc = "prune"
  /\ List(p, "pruneLoop", {n \in Listed("dead") : files[n].age = "expired"})
  /\ UNCHANGED <<files, older, store, spooled, pruned, faults>>

PruneDead(p, n) ==
  /\ procs[p].pc = "pruneLoop" /\ n \in procs[p].todo
  /\ \/ /\ Exists(n) /\ Remove(n) /\ pruned' = pruned \cup {files[n].d}
        /\ NoFault /\ Done(p, n, "pruneLoop")
     \/ ~Exists(n) /\ UNCHANGED <<files, pruned>> /\ NoFault /\ (Done(p, n, "pruneLoop") \/ Exit(p))
     \/ Fault /\ UNCHANGED <<files, pruned>> /\ Exit(p)
  /\ UNCHANGED <<older, store, spooled>>

PruneDone(p) ==
  /\ procs[p].pc = "pruneLoop" /\ procs[p].todo = {}
  /\ IF procs[p].pending THEN Goto(p, "drain") ELSE Exit(p)
  /\ UNCHANGED <<files, older, store, spooled, pruned, faults>>

-----------------------------------------------------------------------------
(* The environment.                                                          *)

(* The host's watchdog, or anything else, kills a process.                   *)
Crash(p) ==
  /\ procs[p].pc \notin {"idle", "ended"}
  /\ Fault
  /\ Exit(p)
  /\ UNCHANGED <<files, older, store, spooled, pruned>>

(* Time passes. That a live process keeps a file beyond the stale age breaks *)
(* the assumption hookSpoolInflightStaleAge rests on, so it is a fault.      *)
Age(n) ==
  /\ Exists(n)
  /\ files[n].age # IF n.dir = "dead" THEN "expired" ELSE "stale"
  /\ IF \E p \in Processes : procs[p].path = n THEN Fault ELSE NoFault
  /\ Write(n, [files[n] EXCEPT !.age = IF n.dir = "dead" THEN "expired" ELSE "stale"])
  /\ UNCHANGED <<procs, older, store, spooled, pruned>>

-----------------------------------------------------------------------------
Hook(p) ==
  \/ RunCurrent(p)
  \/ promoteCurrentHookSpoolRecord(p)
  \/ clearCurrentHookSpoolRecord(p)

Drain(p) ==
  \/ StartDrain(p) \/ ListStaleClaims(p) \/ ListPending(p) \/ StopDrain(p)
  \/ \E n \in procs[p].todo :
       RecoverCurrent(p, n) \/ InspectClaim(p, n) \/ ClaimRecord(p, n)
  \/ RestoreClaim(p) \/ TailClaim(p)
  \/ TouchClaim(p) \/ LoadClaimed(p) \/ Replay(p) \/ RemoveReplayed(p)
  \/ RequeueRead(p) \/ RequeueWrite(p) \/ MoveClaimed(p)

Doctor(p) ==
  \/ ListDead(p) \/ ResetRequeued(p) \/ DeadDone(p) \/ ListExpired(p) \/ PruneDone(p)
  \/ \E n \in procs[p].todo : RequeueDead(p, n) \/ PruneDead(p, n)

ProcessStep(p) == Hook(p) \/ Drain(p) \/ Doctor(p)

SpoolNext ==
  \/ \E p \in Processes, d \in Deliveries : persistCurrentHookSpoolRecord(p, d)
  \/ \E d \in Deliveries : RunUnspooled(d)
  \/ \E p \in Processes : LaterHook(p) \/ StartDoctor(p) \/ ProcessStep(p) \/ Crash(p)
  \/ \E n \in DOMAIN files : Age(n)

SpoolSpec == SpoolInit /\ [][SpoolNext]_spoolVars

(* A process runs until it ends or is killed, hooks keep arriving however    *)
(* often doctor runs, and time passes. Faults end with their bound.          *)
SpoolFairness ==
  /\ \A p \in Processes : WF_spoolVars(ProcessStep(p)) /\ SF_spoolVars(LaterHook(p))
  /\ \A n \in Names : WF_spoolVars(n \in DOMAIN files /\ n.dir # "dead" /\ Age(n))
FairSpoolSpec == SpoolSpec /\ SpoolFairness

-----------------------------------------------------------------------------
(* Properties.                                                               *)

CopiesOf(d) == {n \in DOMAIN files : files[n].d = d}

(* A delivery that was published is never lost: until its handler committed, *)
(* or an operator pruned its dead letter, the spool holds a file of it,      *)
(* whatever was killed, overtaken or failed.                                 *)
NothingLost == \A d \in spooled \ (handled \cup pruned) : CopiesOf(d) # {}

(* The spool is well formed and holds every delivery that still needs it.    *)
SpoolInv == SpoolTypeOK /\ NothingLost

(* A delivery is recorded as one event, however often it is replayed and     *)
(* whoever replays it: the receipt survives every rewrite of the record.     *)
EventOnce == \A d \in Deliveries : events[d] <= 1

(* Every published delivery is handled or set aside as a dead letter: no     *)
(* file stays claimed, in flight or pending for ever.                        *)
Settles ==
  \A d \in Deliveries :
    d \in spooled ~> \/ d \in handled \cup pruned
                     \/ \E n \in CopiesOf(d) : n.dir = "dead"

(* "Regardless of scheduling ... the exclusive claim must keep a single       *)
(* retained file and never resurrect the original basename as a duplicate    *)
(* replayable copy" (hook_spool_test.go:2454): a delivery has at most one    *)
(* file in the spool.                                                        *)
OneFilePerDelivery == \A d \in Deliveries : Cardinality(CopiesOf(d)) <= 1
=============================================================================
