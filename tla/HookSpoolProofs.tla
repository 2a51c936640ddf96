----------------------------- MODULE HookSpoolProofs -----------------------------
(*****************************************************************************)
(* Proofs about the hook spool: no published delivery is lost, and a         *)
(* delivery is recorded as one event, for any number of deliveries and       *)
(* processes, any retry cap and any number of faults.                        *)
(*                                                                           *)
(* Files are renamed, rewritten and removed by processes that no longer own  *)
(* them. What makes this safe is that a base name belongs to one delivery as *)
(* long as anybody mentions it: a rename or a write may replace a file, but  *)
(* only one that holds the same delivery. OwnedBy(own) states this for an    *)
(* assignment `own` of deliveries to base names, and a step keeps it with    *)
(* the same assignment or with one changed at a fresh base.                  *)
(*****************************************************************************)
EXTENDS HookSpool, TLAPS

-----------------------------------------------------------------------------
(* The inductive invariant.                                                  *)

(* An assignment of deliveries to base names: a first delivery's name is its *)
(* own.                                                                      *)
Owners ==
  {own \in [Bases \cup Deliveries -> Deliveries \cup {None}] : \A d \in Deliveries : own[d] = d}

(* Every file carries a receipt and holds the delivery its name belongs to.  *)
FilesAre(f, own) ==
  /\ DOMAIN f \subseteq Names
  /\ \A n \in DOMAIN f : f[n] \in Records /\ f[n].receipt = TRUE /\ f[n].d = own[n.base]

(* So does the record of a process at a step that relies on it.              *)
HoldsRecord == {"run", "promote", "clear", "replay", "remove", "rewrite", "deadWrite"}
RecordIs(r, own) ==
  r.pc \in HoldsRecord =>
    /\ r.path \in Names /\ r.rec \in Records
    /\ r.rec.receipt = TRUE /\ r.rec.d = own[r.path.base]

(* A process removes a file only after the handler of its delivery.          *)
RemovesHandled(r, h) == r.pc \in {"clear", "remove"} => r.rec.d \in h

ProcsAre(q, own, h) ==
  /\ q \in [Processes -> ProcessRecords]
  /\ \A p \in Processes : RecordIs(q[p], own) /\ RemovesHandled(q[p], h)

SpoolIInv ==
  /\ SpoolTypeOK
  /\ NothingLost
  /\ EventOnce
  /\ \E own \in Owners : FilesAre(files, own) /\ ProcsAre(procs, own, handled)

-----------------------------------------------------------------------------
(* The directory.                                                            *)

(* The directory f has a file of d.                                          *)
Covers(f, d) == \E n \in DOMAIN f : f[n].d = d

(* A name is made of a base and, for a claim, a tag.                         *)
LEMMA NameFacts ==
  /\ \A b \in Bases \cup Deliveries : Pending(b) \in Names /\ Pending(b).base = b
  /\ \A b \in Bases \cup Deliveries, c \in Tags : Claimed(b, c) \in Names /\ Claimed(b, c).base = b
  /\ \A b \in Bases : Dead(b) \in Names /\ Dead(b).base = b
  /\ \A d \in Deliveries : Inflight(d) \in Names /\ Inflight(d).base = d
  /\ \A n \in Names : n.base \in Bases \cup Deliveries
<1>1. \A b \in Bases \cup Deliveries : Pending(b) \in Names /\ Pending(b).base = b
  BY DEF Names, Pending
<1>2. \A b \in Bases \cup Deliveries, c \in Tags :
        Claimed(b, c) \in Names /\ Claimed(b, c).base = b
  BY DEF Names, Claimed
<1>3. \A b \in Bases : Dead(b) \in Names /\ Dead(b).base = b
  BY DEF Names, Dead
<1>4. \A d \in Deliveries : Inflight(d) \in Names /\ Inflight(d).base = d
  BY DEF Names, Inflight
<1>5. ASSUME NEW n \in Names PROVE n.base \in Bases \cup Deliveries
  <2>1. \/ \E b \in Bases \cup Deliveries : n = Pending(b)
        \/ \E b \in Bases \cup Deliveries, c \in Tags : n = Claimed(b, c)
        \/ \E b \in Bases : n = Dead(b)
        \/ \E d \in Deliveries : n = Inflight(d)
    BY DEF Names
  <2> QED BY <2>1, <1>1, <1>2, <1>3, <1>4
<1> QED BY <1>1, <1>2, <1>3, <1>4, <1>5

(* A rename that replaces a file replaces one of the same delivery.          *)
LEMMA RenameKeeps ==
  ASSUME NEW own, NEW f, FilesAre(f, own), NEW n \in DOMAIN f, NEW m \in Names,
         own[m.base] = f[n].d, NEW g,
         g = [k \in (DOMAIN f \ {n}) \cup {m} |-> IF k = m THEN f[n] ELSE f[k]]
  PROVE  FilesAre(g, own) /\ \A d : Covers(f, d) => Covers(g, d)
BY DEF FilesAre, Covers

(* So does a write of a record under a name of its delivery.                 *)
LEMMA WriteKeeps ==
  ASSUME NEW own, NEW f, FilesAre(f, own), NEW n \in Names, NEW r \in Records,
         r.receipt = TRUE, r.d = own[n.base], NEW g,
         g = [m \in DOMAIN f \cup {n} |-> IF m = n THEN r ELSE f[m]]
  PROVE  FilesAre(g, own) /\ Covers(g, r.d) /\ \A d : Covers(f, d) => Covers(g, d)
BY DEF FilesAre, Covers

(* A removal takes away a file of one delivery at most.                      *)
LEMMA RemoveKeeps ==
  ASSUME NEW own, NEW f, FilesAre(f, own), NEW n \in DOMAIN f, NEW g,
         g = [m \in DOMAIN f \ {n} |-> f[m]]
  PROVE  FilesAre(g, own) /\ \A d : Covers(f, d) => Covers(g, d) \/ d = f[n].d
BY DEF FilesAre, Covers

(* A fresh base can be given to the delivery of the file that moves to it.   *)
LEMMA FreshBaseOwned ==
  ASSUME NEW own \in Owners, NEW h, FilesAre(files, own), ProcsAre(procs, own, h),
         NEW n \in DOMAIN files, NEW b \in FreshBases(n)
  PROVE  \E o \in Owners : FilesAre(files, o) /\ ProcsAre(procs, o, h) /\ o[b] = files[n].d
<1> DEFINE o == [own EXCEPT ![b] = files[n].d]
<1>1. b \in Bases /\ \A m \in InUse \ {None, n} : m.base # b
  BY DEF FreshBases
<1>2. files[n].d \in Deliveries /\ n \in Names
  BY DEF FilesAre, Records
<1>3. o \in Owners /\ o[b] = files[n].d
  BY <1>1, <1>2, SpoolAssumption DEF Owners
<1>4. ASSUME NEW m \in Names, m \in InUse PROVE m = n \/ o[m.base] = own[m.base]
  BY <1>1, <1>4, NoneAssumption, NameFacts DEF Owners
<1>5. o[n.base] = own[n.base]
  BY <1>2, NameFacts DEF Owners, FilesAre
<1>6. FilesAre(files, o)
  BY <1>4, <1>5 DEF FilesAre, InUse
<1>7. ASSUME NEW p \in Processes, procs[p].pc \in HoldsRecord
      PROVE  o[procs[p].path.base] = own[procs[p].path.base]
  <2>1. procs[p].path \in Names /\ procs[p].path \in InUse
    BY <1>7 DEF ProcsAre, RecordIs, InUse
  <2> QED BY <2>1, <1>4, <1>5
<1>8. ProcsAre(procs, o, h)
  BY <1>7 DEF ProcsAre, RecordIs
<1> QED BY <1>3, <1>6, <1>8

(* The base a move picks is a fresh one.                                     *)
LEMMA NewBaseFresh ==
  ASSUME NEW n, FreshBases(n) # {} PROVE NewBase(n) \in FreshBases(n) /\ NewBase(n) \in Bases
BY DEF NewBase, FreshBases

(* The tag of a claim is one of Tags.                                        *)
LEMMA NewTagFresh ==
  ASSUME NEW b, FreshTags(b) # {} PROVE NewTag(b) \in Tags
BY DEF NewTag, FreshTags

-----------------------------------------------------------------------------
(* The processes.                                                            *)

(* One process moves on with a record that belongs to its path.              *)
LEMMA ProcessMoves ==
  ASSUME NEW own, NEW h, NEW k, h \subseteq k, ProcsAre(procs, own, h), NEW p \in Processes,
         NEW r \in ProcessRecords, RecordIs(r, own), RemovesHandled(r, k),
         procs' = [procs EXCEPT ![p] = r]
  PROVE  ProcsAre(procs', own, k)
BY DEF ProcsAre, RemovesHandled

(* A step that needs no record may follow any other.                         *)
LEMMA GotoKeeps ==
  ASSUME NEW own, NEW h, ProcsAre(procs, own, h), NEW p \in Processes,
         NEW pc \in ProcessSteps \ HoldsRecord, Goto(p, pc)
  PROVE  ProcsAre(procs', own, h)
<1> DEFINE r == [procs[p] EXCEPT !.pc = pc]
<1>1. procs[p] \in ProcessRecords
  BY DEF ProcsAre
<1>2. r \in ProcessRecords /\ r.pc = pc
  BY <1>1 DEF ProcessRecords
<1>3. RecordIs(r, own) /\ RemovesHandled(r, h)
  BY <1>2 DEF RecordIs, RemovesHandled, HoldsRecord
<1>4. procs' = [procs EXCEPT ![p] = r]
  BY DEF Goto
<1> HIDE DEF r
<1> QED BY <1>2, <1>3, <1>4, ProcessMoves

(* The process drops what it held and goes on with its batch.                *)
LEMMA GotoLoopKeeps ==
  ASSUME NEW own, NEW h, ProcsAre(procs, own, h), NEW p \in Processes, GotoLoop(p)
  PROVE  ProcsAre(procs', own, h)
<1> DEFINE r == [procs[p] EXCEPT !.pc = "loop", !.path = None, !.rec = None, !.transient = FALSE]
<1>1. procs[p] \in ProcessRecords
  BY DEF ProcsAre
<1>2. r \in ProcessRecords /\ r.pc = "loop"
  BY <1>1 DEF ProcessRecords, ProcessSteps
<1>3. RecordIs(r, own) /\ RemovesHandled(r, h)
  BY <1>2 DEF RecordIs, RemovesHandled, HoldsRecord
<1>4. procs' = [procs EXCEPT ![p] = r]
  BY DEF GotoLoop
<1> HIDE DEF r
<1> QED BY <1>2, <1>3, <1>4, ProcessMoves

(* The process is done with one name of its listing.                         *)
LEMMA DoneKeeps ==
  ASSUME NEW own, NEW h, ProcsAre(procs, own, h), NEW p \in Processes,
         NEW pc \in ProcessSteps \ HoldsRecord, NEW n, Done(p, n, pc)
  PROVE  ProcsAre(procs', own, h)
<1> DEFINE r == [procs[p] EXCEPT !.pc = pc, !.path = None, !.todo = procs[p].todo \ {n}]
<1>1. procs[p] \in ProcessRecords
  BY DEF ProcsAre
<1>2. r \in ProcessRecords /\ r.pc = pc
  BY <1>1 DEF ProcessRecords
<1>3. RecordIs(r, own) /\ RemovesHandled(r, h)
  BY <1>2 DEF RecordIs, RemovesHandled, HoldsRecord
<1>4. procs' = [procs EXCEPT ![p] = r]
  BY DEF Done
<1> HIDE DEF r
<1> QED BY <1>2, <1>3, <1>4, ProcessMoves

(* The process lists names.                                                  *)
LEMMA ListKeeps ==
  ASSUME NEW own, NEW h, ProcsAre(procs, own, h), NEW p \in Processes,
         NEW pc \in ProcessSteps \ HoldsRecord, NEW S \in SUBSET Names, List(p, pc, S)
  PROVE  ProcsAre(procs', own, h)
<1> DEFINE r == [procs[p] EXCEPT !.pc = pc, !.todo = S]
<1>1. procs[p] \in ProcessRecords
  BY DEF ProcsAre
<1>2. r \in ProcessRecords /\ r.pc = pc
  BY <1>1 DEF ProcessRecords
<1>3. RecordIs(r, own) /\ RemovesHandled(r, h)
  BY <1>2 DEF RecordIs, RemovesHandled, HoldsRecord
<1>4. procs' = [procs EXCEPT ![p] = r]
  BY DEF List
<1> HIDE DEF r
<1> QED BY <1>2, <1>3, <1>4, ProcessMoves

(* A process that begins again holds nothing.                                *)
LEMMA RestartKeeps ==
  ASSUME NEW own, NEW h, ProcsAre(procs, own, h), NEW p \in Processes,
         NEW pc \in ProcessSteps \ HoldsRecord,
         procs' = [procs EXCEPT ![p] = [IdleProcess EXCEPT !.pc = pc]]
  PROVE  ProcsAre(procs', own, h)
<1> DEFINE r == [IdleProcess EXCEPT !.pc = pc]
<1>1. IdleProcess \in ProcessRecords
  <2>1. 0 \in 0..BatchLimit
    BY SpoolAssumption
  <2> QED BY <2>1 DEF ProcessRecords, IdleProcess, ProcessSteps
<1>2. r \in ProcessRecords /\ r.pc = pc
  BY <1>1 DEF ProcessRecords
<1>3. RecordIs(r, own) /\ RemovesHandled(r, h)
  BY <1>2 DEF RecordIs, RemovesHandled, HoldsRecord
<1> HIDE DEF r
<1> QED BY <1>2, <1>3, ProcessMoves DEF r

(* The process ends.                                                         *)
LEMMA ExitKeeps ==
  ASSUME NEW own, NEW h, ProcsAre(procs, own, h), NEW p \in Processes, Exit(p)
  PROVE  ProcsAre(procs', own, h)
<1> DEFINE pc == IF Respawn THEN "idle" ELSE "ended"
<1>1. pc \in ProcessSteps \ HoldsRecord
  BY DEF ProcessSteps, HoldsRecord
<1>2. procs' = [procs EXCEPT ![p] = [IdleProcess EXCEPT !.pc = pc]]
  BY DEF Exit
<1> HIDE DEF pc
<1> QED BY <1>1, <1>2, RestartKeeps

-----------------------------------------------------------------------------
(* The steps.                                                                *)

(* What a step has to keep for the invariant to hold after it.               *)
LEMMA StepKeeps ==
  ASSUME SpoolIInv, NEW own \in Owners,
         FilesAre(files', own), ProcsAre(procs', own, handled'),
         older' \subseteq Bases \X Bases,
         handled \subseteq handled', handled' \subseteq Deliveries,
         pruned \subseteq pruned', pruned' \subseteq Deliveries,
         spooled' \subseteq Deliveries,
         \A d \in Deliveries : Covers(files, d) => Covers(files', d) \/ d \in handled' \cup pruned',
         \A d \in spooled' : d \in spooled \/ Covers(files', d),
         events' \in [Deliveries -> 0..1],
         faults' \in 0..MaxFaults
  PROVE  SpoolIInv'
<1>1. Names' = Names /\ Records' = Records /\ ProcessRecords' = ProcessRecords
  BY DEF Names, Records, ProcessRecords, ProcessSteps, Ages, Inflight, Pending, Dead, Claimed
<1>2. SpoolTypeOK'
  BY <1>1 DEF SpoolTypeOK, FilesAre, ProcsAre
<1>3. NothingLost'
  <2> SUFFICES ASSUME NEW d \in spooled', d \notin handled', d \notin pruned'
               PROVE  CopiesOf(d)' # {}
    BY DEF NothingLost
  <2>1. d \in spooled => Covers(files, d)
    BY DEF SpoolIInv, NothingLost, CopiesOf, Covers
  <2>2. Covers(files', d)
    BY <2>1
  <2> QED BY <2>2 DEF Covers, CopiesOf
<1>4. EventOnce'
  BY DEF EventOnce
<1>5. (\E o \in Owners : FilesAre(files, o) /\ ProcsAre(procs, o, handled))'
  BY <1>1 DEF Owners, FilesAre, ProcsAre, RecordIs, RemovesHandled, HoldsRecord
<1> QED BY <1>2, <1>3, <1>4, <1>5 DEF SpoolIInv

(* A step on the directory and one process, no handler run.                  *)
LEMMA QuietKeeps ==
  ASSUME SpoolIInv, NEW own \in Owners,
         FilesAre(files', own), ProcsAre(procs', own, handled),
         older' \subseteq Bases \X Bases, UNCHANGED <<store, spooled, pruned>>,
         \A d \in Deliveries : Covers(files, d) => Covers(files', d) \/ d \in handled,
         NoFault \/ Fault
  PROVE  SpoolIInv'
<1>1. SpoolTypeOK /\ EventOnce
  BY DEF SpoolIInv
<1>2. handled' = handled /\ pruned' = pruned /\ spooled' = spooled /\ events' = events
  BY DEF store
<1>3. events' \in [Deliveries -> 0..1]
  BY <1>1, <1>2 DEF SpoolTypeOK, EventOnce
<1>4. faults' \in 0..MaxFaults
  BY <1>1, SpoolAssumption DEF SpoolTypeOK, NoFault, Fault
<1>5. handled' \subseteq Deliveries /\ pruned' \subseteq Deliveries /\ spooled' \subseteq Deliveries
  BY <1>1, <1>2 DEF SpoolTypeOK
<1> QED BY <1>2, <1>3, <1>4, <1>5, StepKeeps

(* A step that leaves the directory alone.                                   *)
LEMMA SameFilesStep ==
  ASSUME SpoolIInv, NEW own \in Owners, FilesAre(files, own), ProcsAre(procs', own, handled),
         UNCHANGED files, UNCHANGED older, UNCHANGED <<store, spooled, pruned>>, NoFault \/ Fault
  PROVE  SpoolIInv'
<1>1. FilesAre(files', own) /\ \A d \in Deliveries : Covers(files, d) => Covers(files', d)
  BY DEF FilesAre, Covers
<1>2. older' \subseteq Bases \X Bases
  BY DEF SpoolIInv, SpoolTypeOK
<1> QED BY <1>1, <1>2, QuietKeeps

(* A step that renames a file to a name of its delivery.                     *)
LEMMA RenameStep ==
  ASSUME SpoolIInv, NEW own \in Owners, FilesAre(files, own), ProcsAre(procs', own, handled),
         NEW n \in DOMAIN files, NEW m \in Names, own[m.base] = files[n].d, Rename(n, m),
         older' \subseteq Bases \X Bases, UNCHANGED <<store, spooled, pruned>>, NoFault \/ Fault
  PROVE  SpoolIInv'
<1>1. FilesAre(files', own) /\ \A d : Covers(files, d) => Covers(files', d)
  BY RenameKeeps DEF Rename
<1> QED BY <1>1, QuietKeeps

(* A step that puts a file back under its own base as pending.               *)
LEMMA RestoreStep ==
  ASSUME SpoolIInv, NEW own \in Owners, FilesAre(files, own), ProcsAre(procs', own, handled),
         NEW n \in DOMAIN files, Rename(n, Pending(n.base)), UNCHANGED older,
         UNCHANGED <<store, spooled, pruned>>, NoFault \/ Fault
  PROVE  SpoolIInv'
<1>1. n \in Names /\ files[n].d = own[n.base]
  BY DEF FilesAre
<1>2. Pending(n.base) \in Names /\ Pending(n.base).base = n.base
  BY <1>1, NameFacts
<1>3. older' \subseteq Bases \X Bases
  BY DEF SpoolIInv, SpoolTypeOK
<1> QED BY <1>1, <1>2, <1>3, RenameStep

(* A move to the tail gives a fresh base to the delivery of the file.        *)
LEMMA TailMove ==
  ASSUME SpoolIInv, NEW own \in Owners, FilesAre(files, own), ProcsAre(procs, own, handled),
         NEW n \in DOMAIN files, RenameToTail(n)
  PROVE  /\ older' \subseteq Bases \X Bases
         /\ Pending(NewBase(n)) \in Names
         /\ Rename(n, Pending(NewBase(n)))
         /\ \E o \in Owners : /\ FilesAre(files, o) /\ ProcsAre(procs, o, handled)
                              /\ o[Pending(NewBase(n)).base] = files[n].d
<1>1. NewBase(n) \in FreshBases(n) /\ NewBase(n) \in Bases /\ Rename(n, Pending(NewBase(n)))
  BY NewBaseFresh DEF RenameToTail
<1>2. Pending(NewBase(n)) \in Names /\ Pending(NewBase(n)).base = NewBase(n)
  BY <1>1, NameFacts
<1>3. older' \subseteq Bases \X Bases
  BY <1>1 DEF RenameToTail, SpoolIInv, SpoolTypeOK
<1> QED BY <1>1, <1>2, <1>3, FreshBaseOwned

(* A step that writes a record of the delivery its name belongs to.          *)
LEMMA WriteStep ==
  ASSUME SpoolIInv, NEW own \in Owners, FilesAre(files, own), ProcsAre(procs', own, handled),
         NEW n \in Names, NEW r \in Records, r.receipt = TRUE, r.d = own[n.base], Write(n, r),
         UNCHANGED older, UNCHANGED <<store, spooled, pruned>>, NoFault \/ Fault
  PROVE  SpoolIInv'
<1>1. FilesAre(files', own) /\ \A d : Covers(files, d) => Covers(files', d)
  <2>1. files' = [m \in DOMAIN files \cup {n} |-> IF m = n THEN r ELSE files[m]]
    BY DEF Write
  <2> QED BY <2>1 DEF FilesAre, Covers
<1>2. older' \subseteq Bases \X Bases
  BY DEF SpoolIInv, SpoolTypeOK
<1> QED BY <1>1, <1>2, QuietKeeps

(* A step that removes a file whose delivery was handled.                    *)
LEMMA RemoveStep ==
  ASSUME SpoolIInv, NEW own \in Owners, FilesAre(files, own), ProcsAre(procs', own, handled),
         NEW n \in DOMAIN files, files[n].d \in handled, Remove(n),
         UNCHANGED older, UNCHANGED <<store, spooled, pruned>>, NoFault \/ Fault
  PROVE  SpoolIInv'
<1>1. FilesAre(files', own) /\ \A d : Covers(files, d) => Covers(files', d) \/ d = files[n].d
  BY RemoveKeeps DEF Remove
<1>2. older' \subseteq Bases \X Bases
  BY DEF SpoolIInv, SpoolTypeOK
<1> QED BY <1>1, <1>2, QuietKeeps

(* A handler that commits records one event of a delivery with a receipt.    *)
LEMMA HandleKeeps ==
  ASSUME SpoolTypeOK, EventOnce, NEW r \in Records, r.receipt = TRUE, Handle(r)
  PROVE  /\ handled' = handled \cup {r.d} /\ handled' \subseteq Deliveries
         /\ events' \in [Deliveries -> 0..1]
<1>1. r.d \in Deliveries
  BY DEF Records
<1>2. events \in [Deliveries -> 0..1]
  BY DEF SpoolTypeOK, EventOnce
<1>3. events' \in [Deliveries -> 0..1]
  BY <1>1, <1>2 DEF Handle
<1> QED BY <1>1, <1>3 DEF Handle, SpoolTypeOK

(* A step of a process that ran the handler of the record it holds, or not.  *)
LEMMA HandlerStep ==
  ASSUME SpoolIInv, NEW own \in Owners, FilesAre(files, own), NEW r \in Records, r.receipt = TRUE,
         Handle(r) \/ UNCHANGED store, ProcsAre(procs', own, handled'),
         UNCHANGED <<files, older, spooled, pruned>>, NoFault \/ Fault
  PROVE  SpoolIInv'
<1>1. SpoolTypeOK /\ EventOnce
  BY DEF SpoolIInv
<1>2. /\ handled \subseteq handled' /\ handled' \subseteq Deliveries
      /\ events' \in [Deliveries -> 0..1]
  <2>1. CASE Handle(r)
    BY <1>1, <2>1, HandleKeeps
  <2>2. CASE UNCHANGED store
    BY <1>1, <2>2 DEF store, SpoolTypeOK, EventOnce
  <2> QED BY <2>1, <2>2
<1>3. FilesAre(files', own) /\ \A d \in Deliveries : Covers(files, d) => Covers(files', d)
  BY DEF FilesAre, Covers
<1>4. older' \subseteq Bases \X Bases /\ pruned' = pruned /\ pruned' \subseteq Deliveries
      /\ spooled' = spooled /\ spooled' \subseteq Deliveries
  BY <1>1 DEF SpoolTypeOK
<1>5. faults' \in 0..MaxFaults
  BY <1>1, SpoolAssumption DEF SpoolTypeOK, NoFault, Fault
<1> QED BY <1>2, <1>3, <1>4, <1>5, StepKeeps

(* The invariant names an owner of every base.                               *)
LEMMA InvOwner ==
  ASSUME SpoolIInv
  PROVE  \E own \in Owners : FilesAre(files, own) /\ ProcsAre(procs, own, handled)
BY DEF SpoolIInv

(* A new record is a record with a receipt.                                  *)
LEMMA NewRecordIs ==
  ASSUME NEW d \in Deliveries
  PROVE  NewRecord(d) \in Records /\ NewRecord(d).receipt = TRUE /\ NewRecord(d).d = d
<1>1. 0 \in 0..RetryLimit
  BY SpoolAssumption
<1> QED BY <1>1 DEF NewRecord, Records, Ages

-----------------------------------------------------------------------------
(* Hooks.                                                                    *)

(* The publication of a delivery: its own name can hold no other one.        *)
LEMMA PersistKeeps ==
  ASSUME SpoolIInv, NEW p \in Processes, NEW d \in Deliveries, persistCurrentHookSpoolRecord(p, d)
  PROVE  SpoolIInv'
<1>1. PICK own \in Owners : FilesAre(files, own) /\ ProcsAre(procs, own, handled)
  BY InvOwner
<1>2. SpoolTypeOK /\ EventOnce /\ UNCHANGED <<older, store, pruned, faults>>
  BY DEF SpoolIInv, persistCurrentHookSpoolRecord
<1>3. Inflight(d) \in Names /\ own[Inflight(d).base] = d
  BY NameFacts DEF Owners
<1>4. files' = [m \in DOMAIN files \cup {Inflight(d)} |->
                  IF m = Inflight(d) THEN NewRecord(d) ELSE files[m]]
  BY DEF persistCurrentHookSpoolRecord, Write
<1>5. /\ FilesAre(files', own) /\ Covers(files', d)
      /\ \A e \in Deliveries : Covers(files, e) => Covers(files', e)
  BY <1>1, <1>3, <1>4, NewRecordIs DEF FilesAre, Covers
<1>6. ProcsAre(procs', own, handled)
  <2> DEFINE r == [procs[p] EXCEPT !.pc = "run", !.path = Inflight(d), !.rec = NewRecord(d)]
  <2>1. procs[p] \in ProcessRecords
    BY <1>1 DEF ProcsAre
  <2>2. r \in ProcessRecords /\ r.pc = "run" /\ r.path = Inflight(d) /\ r.rec = NewRecord(d)
    BY <2>1, <1>3, NewRecordIs DEF ProcessRecords, ProcessSteps
  <2>3. procs' = [procs EXCEPT ![p] = r]
    BY DEF persistCurrentHookSpoolRecord
  <2> HIDE DEF r
  <2>4. RecordIs(r, own) /\ RemovesHandled(r, handled)
    BY <2>2, <1>3, NewRecordIs DEF RecordIs, RemovesHandled
  <2> QED BY <2>2, <2>3, <2>4, <1>1, ProcessMoves
<1>7. spooled' = spooled \cup {d}
  BY DEF persistCurrentHookSpoolRecord
<1>8. events' \in [Deliveries -> 0..1] /\ handled' = handled
  BY <1>2 DEF SpoolTypeOK, EventOnce, store
<1> QED BY <1>2, <1>5, <1>6, <1>7, <1>8, StepKeeps DEF SpoolTypeOK

(* More handled deliveries take nothing from a process.                      *)
LEMMA MoreHandled ==
  ASSUME NEW own, NEW q, NEW h, NEW k, h \subseteq k, ProcsAre(q, own, h)
  PROVE  ProcsAre(q, own, k)
BY DEF ProcsAre, RemovesHandled

(* A hook that runs without the spool.                                       *)
LEMMA UnspooledKeeps ==
  ASSUME SpoolIInv, NEW d \in Deliveries, RunUnspooled(d)
  PROVE  SpoolIInv'
<1>1. PICK own \in Owners : FilesAre(files, own) /\ ProcsAre(procs, own, handled)
  BY InvOwner
<1>2. Handle(NewRecord(d)) /\ Fault /\ UNCHANGED <<files, older, procs, spooled, pruned>>
  BY DEF RunUnspooled
<1>3. handled \subseteq handled'
  BY <1>2 DEF Handle
<1>4. ProcsAre(procs', own, handled')
  BY <1>1, <1>2, <1>3, MoreHandled
<1> QED BY <1>1, <1>2, <1>4, NewRecordIs, HandlerStep

(* A hook that goes on to the backlog.                                       *)
LEMMA LaterHookKeeps ==
  ASSUME SpoolIInv, NEW p \in Processes, LaterHook(p)
  PROVE  SpoolIInv'
<1>1. PICK own \in Owners : FilesAre(files, own) /\ ProcsAre(procs, own, handled)
  BY InvOwner
<1>2. Goto(p, "drain") /\ "drain" \in ProcessSteps \ HoldsRecord
  BY DEF LaterHook, ProcessSteps, HoldsRecord
<1>3. ProcsAre(procs', own, handled)
  BY <1>1, <1>2, GotoKeeps
<1> QED BY <1>1, <1>3, SameFilesStep DEF LaterHook, NoFault

(* The record a process holds, after the handler ran for it.                 *)
LEMMA HeldGoes ==
  ASSUME NEW own, NEW h, NEW k, h \subseteq k, ProcsAre(procs, own, h), NEW p \in Processes,
         procs[p].pc \in HoldsRecord, NEW pc \in {"clear", "promote", "remove"},
         pc # "promote" => procs[p].rec.d \in k, Goto(p, pc)
  PROVE  ProcsAre(procs', own, k)
<1> DEFINE r == [procs[p] EXCEPT !.pc = pc]
<1>1. procs[p] \in ProcessRecords /\ RecordIs(procs[p], own)
  BY DEF ProcsAre
<1>2. r \in ProcessRecords /\ r.pc = pc /\ r.rec = procs[p].rec /\ r.path = procs[p].path
  BY <1>1 DEF ProcessRecords, ProcessSteps
<1>3. procs' = [procs EXCEPT ![p] = r]
  BY DEF Goto
<1> HIDE DEF r
<1>4. RecordIs(r, own) /\ RemovesHandled(r, k)
  BY <1>1, <1>2 DEF RecordIs, RemovesHandled
<1> QED BY <1>2, <1>3, <1>4, ProcessMoves

(* A process that holds a record holds one with a receipt.                   *)
LEMMA HeldRecord ==
  ASSUME NEW own, NEW h, ProcsAre(procs, own, h), NEW p \in Processes,
         procs[p].pc \in HoldsRecord
  PROVE  /\ procs[p].path \in Names /\ procs[p].rec \in Records
         /\ procs[p].rec.receipt = TRUE /\ procs[p].rec.d = own[procs[p].path.base]
BY DEF ProcsAre, RecordIs

(* The handler of the published record: whoever goes on to clear it has      *)
(* handled it.                                                               *)
LEMMA RunCurrentKeeps ==
  ASSUME SpoolIInv, NEW p \in Processes, RunCurrent(p)
  PROVE  SpoolIInv'
<1>1. PICK own \in Owners : FilesAre(files, own) /\ ProcsAre(procs, own, handled)
  BY InvOwner
<1>2. procs[p].pc \in HoldsRecord /\ UNCHANGED <<files, older, spooled, pruned, faults>>
  BY DEF RunCurrent, HoldsRecord
<1>3. procs[p].rec \in Records /\ procs[p].rec.receipt = TRUE
  BY <1>1, <1>2, HeldRecord
<1>4. Handle(procs[p].rec) \/ UNCHANGED store
  BY DEF RunCurrent
<1>5. handled \subseteq handled'
  BY <1>4 DEF Handle, store
<1>6. ProcsAre(procs', own, handled')
  <2>1. CASE Handle(procs[p].rec) /\ Goto(p, "clear")
    <3>1. procs[p].rec.d \in handled'
      BY <2>1 DEF Handle
    <3> QED BY <2>1, <3>1, <1>1, <1>2, <1>5, HeldGoes
  <2>2. CASE Goto(p, "promote")
    BY <2>2, <1>1, <1>2, <1>5, HeldGoes
  <2> QED BY <2>1, <2>2 DEF RunCurrent
<1> QED BY <1>1, <1>2, <1>3, <1>4, <1>6, HandlerStep DEF NoFault

(* The promotion replaces at most a pending copy of the same delivery.       *)
LEMMA PromoteKeeps ==
  ASSUME SpoolIInv, NEW p \in Processes, promoteCurrentHookSpoolRecord(p)
  PROVE  SpoolIInv'
<1> DEFINE n == procs[p].path
<1>1. PICK own \in Owners : FilesAre(files, own) /\ ProcsAre(procs, own, handled)
  BY InvOwner
<1>2. Exit(p) /\ UNCHANGED <<older, store, spooled, pruned>>
  BY DEF promoteCurrentHookSpoolRecord
<1>3. ProcsAre(procs', own, handled)
  BY <1>1, <1>2, ExitKeeps
<1>4. CASE Exists(n) /\ Rename(n, Pending(n.base)) /\ NoFault
  BY <1>1, <1>2, <1>3, <1>4, RestoreStep DEF Exists
<1>5. CASE Fails(n)
  BY <1>1, <1>2, <1>3, <1>5, SameFilesStep DEF Fails
<1> QED BY <1>4, <1>5 DEF promoteCurrentHookSpoolRecord

(* The removal takes files of a handled delivery only.                       *)
LEMMA ClearKeeps ==
  ASSUME SpoolIInv, NEW p \in Processes, clearCurrentHookSpoolRecord(p)
  PROVE  SpoolIInv'
<1> DEFINE n == procs[p].path
           json == Pending(n.base)
<1>1. PICK own \in Owners : FilesAre(files, own) /\ ProcsAre(procs, own, handled)
  BY InvOwner
<1>2. /\ procs[p].pc = "clear" /\ UNCHANGED <<older, store, spooled, pruned>>
      /\ procs' = [procs EXCEPT ![p] = [IdleProcess EXCEPT !.pc = "drain"]] \/ Exit(p)
      /\ NoFault \/ Fault
      /\ \/ Exists(n) /\ Remove(n)
         \/ Exists(json) /\ Remove(json)
         \/ UNCHANGED files
  BY DEF clearCurrentHookSpoolRecord
<1>3. ProcsAre(procs', own, handled)
  <2>1. "drain" \in ProcessSteps \ HoldsRecord
    BY DEF ProcessSteps, HoldsRecord
  <2> QED BY <2>1, <1>1, <1>2, ExitKeeps, RestartKeeps
<1>4. n \in Names /\ own[n.base] \in handled /\ json \in Names /\ json.base = n.base
  <2>1. procs[p].pc \in HoldsRecord /\ procs[p].rec.d \in handled
    BY <1>1, <1>2 DEF HoldsRecord, ProcsAre, RemovesHandled
  <2> QED BY <2>1, <1>1, HeldRecord, NameFacts
<1> HIDE DEF n, json
<1>5. ASSUME NEW m \in {n, json}, Exists(m), Remove(m) PROVE SpoolIInv'
  <2>1. m \in DOMAIN files /\ files[m].d \in handled
    BY <1>1, <1>4, <1>5 DEF FilesAre, Exists
  <2> QED BY <2>1, <1>1, <1>2, <1>3, <1>5, RemoveStep
<1>6. CASE UNCHANGED files
  BY <1>1, <1>2, <1>3, <1>6, SameFilesStep
<1> QED BY <1>2, <1>5, <1>6

-----------------------------------------------------------------------------
(* The drain.                                                                *)

(* A listing is a set of names.                                              *)
LEMMA ListedNames ==
  ASSUME SpoolIInv, NEW dir PROVE Listed(dir) \subseteq Names
BY DEF SpoolIInv, SpoolTypeOK, Listed

(* The listing of stale in-flight files.                                     *)
LEMMA StartDrainKeeps ==
  ASSUME SpoolIInv, NEW p \in Processes, StartDrain(p)
  PROVE  SpoolIInv'
<1>1. PICK own \in Owners : FilesAre(files, own) /\ ProcsAre(procs, own, handled)
  BY InvOwner
<1> DEFINE S == {n \in Listed("inflight") : files[n].age # "new"}
           r == [procs[p] EXCEPT !.pc = "recoverCurrent", !.moved = FALSE, !.claimed = 0, !.todo = S]
<1>2. procs' = [procs EXCEPT ![p] = r]
  BY DEF StartDrain
<1>3. S \in SUBSET Names
  BY ListedNames
<1> HIDE DEF S
<1>4. procs[p] \in ProcessRecords /\ 0 \in 0..BatchLimit
  BY <1>1, SpoolAssumption DEF ProcsAre
<1>5. r \in ProcessRecords /\ r.pc = "recoverCurrent"
  BY <1>3, <1>4 DEF ProcessRecords, ProcessSteps
<1> HIDE DEF r
<1>6. RecordIs(r, own) /\ RemovesHandled(r, handled)
  BY <1>5 DEF RecordIs, RemovesHandled, HoldsRecord
<1>7. ProcsAre(procs', own, handled)
  BY <1>1, <1>2, <1>5, <1>6, ProcessMoves
<1> QED BY <1>1, <1>7, SameFilesStep DEF StartDrain, NoFault

(* The promotion of one of them, whoever it belonged to.                     *)
LEMMA RecoverCurrentKeeps ==
  ASSUME SpoolIInv, NEW p \in Processes, NEW n, RecoverCurrent(p, n)
  PROVE  SpoolIInv'
<1>1. PICK own \in Owners : FilesAre(files, own) /\ ProcsAre(procs, own, handled)
  BY InvOwner
<1>2. UNCHANGED <<older, store, spooled, pruned>>
  BY DEF RecoverCurrent
<1>3. CASE Exists(n) /\ Rename(n, Pending(n.base)) /\ NoFault /\ Done(p, n, "recoverCurrent")
  <2>1. "recoverCurrent" \in ProcessSteps \ HoldsRecord
    BY DEF ProcessSteps, HoldsRecord
  <2>2. ProcsAre(procs', own, handled)
    BY <2>1, <1>1, <1>3, DoneKeeps
  <2> QED BY <2>2, <1>1, <1>2, <1>3, RestoreStep DEF Exists
<1>4. CASE Fails(n) /\ Exit(p)
  <2>1. ProcsAre(procs', own, handled)
    BY <1>1, <1>4, ExitKeeps
  <2> QED BY <2>1, <1>1, <1>2, <1>4, SameFilesStep DEF Fails
<1> QED BY <1>3, <1>4 DEF RecoverCurrent

(* The listing of stale claims.                                              *)
LEMMA ListStaleClaimsKeeps ==
  ASSUME SpoolIInv, NEW p \in Processes, ListStaleClaims(p)
  PROVE  SpoolIInv'
<1>1. PICK own \in Owners : FilesAre(files, own) /\ ProcsAre(procs, own, handled)
  BY InvOwner
<1> DEFINE S == {n \in Listed("claim") : files[n].age # "new"}
<1>2. S \in SUBSET Names /\ List(p, "recoverClaims", S)
  BY ListedNames DEF ListStaleClaims
<1> HIDE DEF S
<1>3. "recoverClaims" \in ProcessSteps \ HoldsRecord
  BY DEF ProcessSteps, HoldsRecord
<1>4. ProcsAre(procs', own, handled)
  BY <1>1, <1>2, <1>3, ListKeeps
<1> QED BY <1>1, <1>4, SameFilesStep DEF ListStaleClaims, NoFault

(* The Lstat that chooses between restore and retry tail.                    *)
LEMMA InspectClaimKeeps ==
  ASSUME SpoolIInv, NEW p \in Processes, NEW n, InspectClaim(p, n)
  PROVE  SpoolIInv'
<1>1. PICK own \in Owners : FilesAre(files, own) /\ ProcsAre(procs, own, handled)
  BY InvOwner
<1> DEFINE pc == IF Exists(Pending(n.base)) THEN "tail" ELSE "restore"
           r == [procs[p] EXCEPT !.pc = pc, !.path = n, !.todo = procs[p].todo \ {n}]
<1>2. procs' = [procs EXCEPT ![p] = r] /\ n \in procs[p].todo
  BY DEF InspectClaim
<1>3. pc \in ProcessSteps \ HoldsRecord /\ pc \notin {"clear", "remove"}
  BY DEF ProcessSteps, HoldsRecord
<1> HIDE DEF pc
<1>4. procs[p] \in ProcessRecords
  BY <1>1 DEF ProcsAre
<1>5. r \in ProcessRecords /\ r.pc = pc
  BY <1>2, <1>3, <1>4 DEF ProcessRecords
<1> HIDE DEF r
<1>6. RecordIs(r, own) /\ RemovesHandled(r, handled)
  BY <1>3, <1>5 DEF RecordIs, RemovesHandled
<1>7. ProcsAre(procs', own, handled)
  BY <1>1, <1>2, <1>5, <1>6, ProcessMoves
<1> QED BY <1>1, <1>7, SameFilesStep DEF InspectClaim, NoFault

(* The restore may replace a file that appeared after the Lstat: a copy.     *)
LEMMA RestoreClaimKeeps ==
  ASSUME SpoolIInv, NEW p \in Processes, RestoreClaim(p)
  PROVE  SpoolIInv'
<1> DEFINE n == procs[p].path
<1>1. PICK own \in Owners : FilesAre(files, own) /\ ProcsAre(procs, own, handled)
  BY InvOwner
<1>2. UNCHANGED <<older, store, spooled, pruned>>
  BY DEF RestoreClaim
<1>3. {"recoverClaims", "tail"} \subseteq ProcessSteps \ HoldsRecord
  BY DEF ProcessSteps, HoldsRecord
<1>4. CASE Exists(n) /\ Rename(n, Pending(n.base)) /\ NoFault /\ Done(p, n, "recoverClaims")
  <2>1. ProcsAre(procs', own, handled)
    BY <1>1, <1>3, <1>4, DoneKeeps
  <2> QED BY <2>1, <1>1, <1>2, <1>4, RestoreStep DEF Exists
<1>5. CASE UNCHANGED files /\ NoFault /\ Exit(p)
  <2>1. ProcsAre(procs', own, handled)
    BY <1>1, <1>5, ExitKeeps
  <2> QED BY <2>1, <1>1, <1>2, <1>5, SameFilesStep
<1>6. CASE Fault /\ UNCHANGED files /\ Goto(p, "tail")
  <2>1. ProcsAre(procs', own, handled)
    BY <1>1, <1>3, <1>6, GotoKeeps
  <2> QED BY <2>1, <1>1, <1>2, <1>6, SameFilesStep
<1> QED BY <1>4, <1>5, <1>6 DEF RestoreClaim

(* The move of a stale claim to the retry tail.                              *)
LEMMA TailClaimKeeps ==
  ASSUME SpoolIInv, NEW p \in Processes, TailClaim(p)
  PROVE  SpoolIInv'
<1> DEFINE n == procs[p].path
<1>1. PICK own \in Owners : FilesAre(files, own) /\ ProcsAre(procs, own, handled)
  BY InvOwner
<1>2. UNCHANGED <<store, spooled, pruned>>
  BY DEF TailClaim
<1>3. CASE Exists(n) /\ RenameToTail(n) /\ NoFault /\ Done(p, n, "recoverClaims")
  <2>1. PICK o \in Owners : /\ FilesAre(files, o) /\ ProcsAre(procs, o, handled)
                            /\ o[Pending(NewBase(n)).base] = files[n].d
    BY <1>1, <1>3, TailMove DEF Exists
  <2>2. /\ older' \subseteq Bases \X Bases /\ Pending(NewBase(n)) \in Names
        /\ Rename(n, Pending(NewBase(n))) /\ n \in DOMAIN files
    BY <1>1, <1>3, TailMove DEF Exists
  <2>3. "recoverClaims" \in ProcessSteps \ HoldsRecord
    BY DEF ProcessSteps, HoldsRecord
  <2>4. ProcsAre(procs', o, handled)
    BY <2>1, <2>3, <1>3, DoneKeeps
  <2> QED BY <2>1, <2>2, <2>4, <1>2, <1>3, RenameStep
<1>4. CASE (Fails(n) \/ NoName(FreshBases(n))) /\ UNCHANGED older /\ Exit(p)
  <2>1. ProcsAre(procs', own, handled)
    BY <1>1, <1>4, ExitKeeps
  <2> QED BY <2>1, <1>1, <1>2, <1>4, SameFilesStep DEF Fails, NoName
<1> QED BY <1>3, <1>4 DEF TailClaim

(* The listing of the queue.                                                 *)
LEMMA ListPendingKeeps ==
  ASSUME SpoolIInv, NEW p \in Processes, ListPending(p)
  PROVE  SpoolIInv'
<1>1. PICK own \in Owners : FilesAre(files, own) /\ ProcsAre(procs, own, handled)
  BY InvOwner
<1>2. Listed("pending") \in SUBSET Names /\ List(p, "loop", Listed("pending"))
  BY ListedNames DEF ListPending
<1>3. "loop" \in ProcessSteps \ HoldsRecord
  BY DEF ProcessSteps, HoldsRecord
<1>4. ProcsAre(procs', own, handled)
  BY <1>1, <1>2, <1>3, ListKeeps
<1> QED BY <1>1, <1>4, SameFilesStep DEF ListPending, NoFault

(* The claim keeps the base name.                                            *)
LEMMA ClaimRecordKeeps ==
  ASSUME SpoolIInv, NEW p \in Processes, NEW n, ClaimRecord(p, n)
  PROVE  SpoolIInv'
<1> DEFINE m == Claimed(n.base, NewTag(n.base))
           r == [procs[p] EXCEPT !.pc = "touch", !.path = m, !.todo = procs[p].todo \ {n},
                                 !.claimed = procs[p].claimed + 1]
<1>1. PICK own \in Owners : FilesAre(files, own) /\ ProcsAre(procs, own, handled)
  BY InvOwner
<1>2. UNCHANGED <<older, store, spooled, pruned>> /\ procs[p].claimed < BatchLimit
  BY DEF ClaimRecord
<1>3. CASE /\ Exists(n) /\ FreshTags(n.base) # {}
           /\ Rename(n, m) /\ NoFault /\ procs' = [procs EXCEPT ![p] = r]
  <2>1. n \in DOMAIN files /\ n \in Names /\ files[n].d = own[n.base]
    BY <1>1, <1>3 DEF Exists, FilesAre
  <2>2. m \in Names /\ m.base = n.base
    BY <2>1, <1>3, NewTagFresh, NameFacts
  <2> HIDE DEF m
  <2>3. procs[p] \in ProcessRecords /\ procs[p].claimed \in 0..BatchLimit
    BY <1>1 DEF ProcsAre, ProcessRecords
  <2>4. procs[p].claimed + 1 \in 0..BatchLimit
    BY <2>3, <1>2, SpoolAssumption
  <2>5. r \in ProcessRecords /\ r.pc = "touch"
    BY <2>2, <2>3, <2>4 DEF ProcessRecords, ProcessSteps
  <2> HIDE DEF r
  <2>6. RecordIs(r, own) /\ RemovesHandled(r, handled)
    BY <2>5 DEF RecordIs, RemovesHandled, HoldsRecord
  <2>7. ProcsAre(procs', own, handled)
    BY <1>1, <1>3, <2>5, <2>6, ProcessMoves
  <2>8. older' \subseteq Bases \X Bases
    BY <1>2 DEF SpoolIInv, SpoolTypeOK
  <2> QED BY <2>1, <2>2, <2>7, <2>8, <1>1, <1>2, <1>3, RenameStep
<1>4. CASE (Fails(n) \/ NoName(FreshTags(n.base))) /\ Done(p, n, "loop")
  <2>1. "loop" \in ProcessSteps \ HoldsRecord
    BY DEF ProcessSteps, HoldsRecord
  <2>2. ProcsAre(procs', own, handled)
    BY <2>1, <1>1, <1>4, DoneKeeps
  <2> QED BY <2>2, <1>1, <1>2, <1>4, SameFilesStep DEF Fails, NoName
<1> QED BY <1>3, <1>4 DEF ClaimRecord

(* The Chtimes of the claim, which may be gone.                              *)
LEMMA TouchClaimKeeps ==
  ASSUME SpoolIInv, NEW p \in Processes, TouchClaim(p)
  PROVE  SpoolIInv'
<1> DEFINE n == procs[p].path
           r == [files[n] EXCEPT !.age = "new"]
<1>1. PICK own \in Owners : FilesAre(files, own) /\ ProcsAre(procs, own, handled)
  BY InvOwner
<1>2. UNCHANGED <<older, store, spooled, pruned>> /\ Goto(p, "load")
  BY DEF TouchClaim
<1>3. "load" \in ProcessSteps \ HoldsRecord
  BY DEF ProcessSteps, HoldsRecord
<1>4. ProcsAre(procs', own, handled)
  BY <1>1, <1>2, <1>3, GotoKeeps
<1>5. CASE Exists(n) /\ Write(n, r) /\ NoFault
  <2>1. n \in Names /\ files[n] \in Records /\ files[n].receipt = TRUE /\ files[n].d = own[n.base]
    BY <1>1, <1>5 DEF Exists, FilesAre
  <2>2. r \in Records /\ r.receipt = TRUE /\ r.d = own[n.base]
    BY <2>1 DEF Records, Ages
  <2> HIDE DEF r
  <2> QED BY <2>1, <2>2, <1>1, <1>2, <1>4, <1>5, WriteStep
<1>6. CASE Fails(n)
  BY <1>1, <1>2, <1>4, <1>6, SameFilesStep DEF Fails
<1> QED BY <1>5, <1>6 DEF TouchClaim

(* The process gives up the record and puts the file back in the queue.      *)
LEMMA RequeueKeeps ==
  ASSUME NEW own, NEW h, NEW k, h \subseteq k, ProcsAre(procs, own, h), NEW p \in Processes,
         NEW e \in BOOLEAN,
         procs' = [procs EXCEPT ![p] = [@ EXCEPT !.pc = "requeue", !.transient = e]]
  PROVE  ProcsAre(procs', own, k)
<1> DEFINE r == [procs[p] EXCEPT !.pc = "requeue", !.transient = e]
<1>1. procs[p] \in ProcessRecords
  BY DEF ProcsAre
<1>2. r \in ProcessRecords /\ r.pc = "requeue"
  BY <1>1 DEF ProcessRecords, ProcessSteps
<1>3. RecordIs(r, own) /\ RemovesHandled(r, k)
  BY <1>2 DEF RecordIs, RemovesHandled, HoldsRecord
<1>4. procs' = [procs EXCEPT ![p] = r]
  OBVIOUS
<1> HIDE DEF r
<1> QED BY <1>2, <1>3, <1>4, ProcessMoves

(* The record read is the one its name belongs to.                           *)
LEMMA LoadClaimedKeeps ==
  ASSUME SpoolIInv, NEW p \in Processes, LoadClaimed(p)
  PROVE  SpoolIInv'
<1> DEFINE n == procs[p].path
           pc == IF files[n].attempts >= RetryLimit THEN "bury" ELSE "replay"
           r == [procs[p] EXCEPT !.rec = files[n], !.pc = pc]
<1>1. PICK own \in Owners : FilesAre(files, own) /\ ProcsAre(procs, own, handled)
  BY InvOwner
<1>2. UNCHANGED <<older, store, spooled, pruned>>
  BY DEF LoadClaimed
<1>3. CASE Exists(n) /\ NoFault /\ UNCHANGED files /\ procs' = [procs EXCEPT ![p] = r]
  <2>1. n \in Names /\ files[n] \in Records /\ files[n].receipt = TRUE /\ files[n].d = own[n.base]
    BY <1>1, <1>3 DEF Exists, FilesAre
  <2>2. pc \in {"bury", "replay"}
    OBVIOUS
  <2> HIDE DEF pc
  <2>3. procs[p] \in ProcessRecords
    BY <1>1 DEF ProcsAre
  <2>4. r \in ProcessRecords /\ r.pc = pc /\ r.rec = files[n] /\ r.path = n
    BY <2>1, <2>2, <2>3 DEF ProcessRecords, ProcessSteps
  <2> HIDE DEF r
  <2>5. RecordIs(r, own) /\ RemovesHandled(r, handled)
    BY <2>1, <2>2, <2>4 DEF RecordIs, RemovesHandled, HoldsRecord
  <2>6. ProcsAre(procs', own, handled)
    BY <1>1, <1>3, <2>4, <2>5, ProcessMoves
  <2> QED BY <2>6, <1>1, <1>2, <1>3, SameFilesStep
<1>4. CASE /\ Fails(n)
           /\ procs' = [procs EXCEPT ![p] = [@ EXCEPT !.pc = "requeue", !.transient = FALSE]]
  <2>1. ProcsAre(procs', own, handled)
    BY <1>1, <1>4, RequeueKeeps
  <2> QED BY <2>1, <1>1, <1>2, <1>4, SameFilesStep DEF Fails
<1> QED BY <1>3, <1>4 DEF LoadClaimed

(* The handler of the claimed record.                                        *)
LEMMA ReplayKeeps ==
  ASSUME SpoolIInv, NEW p \in Processes, Replay(p)
  PROVE  SpoolIInv'
<1>1. PICK own \in Owners : FilesAre(files, own) /\ ProcsAre(procs, own, handled)
  BY InvOwner
<1>2. procs[p].pc \in HoldsRecord /\ UNCHANGED <<files, older, spooled, pruned, faults>>
  BY DEF Replay, HoldsRecord
<1>3. procs[p].rec \in Records /\ procs[p].rec.receipt = TRUE
  BY <1>1, <1>2, HeldRecord
<1>4. Handle(procs[p].rec) \/ UNCHANGED store
  BY DEF Replay
<1>5. handled \subseteq handled'
  BY <1>4 DEF Handle, store
<1>6. ProcsAre(procs', own, handled')
  <2>1. CASE Handle(procs[p].rec) /\ Goto(p, "remove")
    <3>1. procs[p].rec.d \in handled'
      BY <2>1 DEF Handle
    <3> QED BY <2>1, <3>1, <1>1, <1>2, <1>5, HeldGoes
  <2>2. ASSUME NEW e \in BOOLEAN,
               procs' = [procs EXCEPT ![p] = [@ EXCEPT !.pc = "requeue", !.transient = e]]
        PROVE  ProcsAre(procs', own, handled')
    BY <2>2, <1>1, <1>5, RequeueKeeps
  <2> QED BY <2>1, <2>2 DEF Replay
<1> QED BY <1>1, <1>2, <1>3, <1>4, <1>6, HandlerStep DEF NoFault

(* The removal of a claim after its replay, even when the file there is no   *)
(* longer the one that was read.                                             *)
LEMMA RemoveReplayedKeeps ==
  ASSUME SpoolIInv, NEW p \in Processes, RemoveReplayed(p)
  PROVE  SpoolIInv'
<1> DEFINE n == procs[p].path
           r == [procs[p] EXCEPT !.pc = "loop", !.path = None, !.rec = None, !.moved = TRUE]
<1>1. PICK own \in Owners : FilesAre(files, own) /\ ProcsAre(procs, own, handled)
  BY InvOwner
<1>2. procs[p].pc = "remove" /\ UNCHANGED <<older, store, spooled, pruned>>
  BY DEF RemoveReplayed
<1>3. procs[p] \in ProcessRecords
  BY <1>1 DEF ProcsAre
<1>4. r \in ProcessRecords /\ r.pc = "loop"
  BY <1>3 DEF ProcessRecords, ProcessSteps
<1>5. CASE /\ IF Exists(n) THEN Remove(n) ELSE UNCHANGED files
           /\ NoFault /\ procs' = [procs EXCEPT ![p] = r]
  <2> HIDE DEF r
  <2>1. RecordIs(r, own) /\ RemovesHandled(r, handled)
    BY <1>4 DEF RecordIs, RemovesHandled, HoldsRecord
  <2>2. ProcsAre(procs', own, handled)
    BY <2>1, <1>1, <1>4, <1>5, ProcessMoves
  <2>3. CASE Exists(n) /\ Remove(n)
    <3>1. procs[p].pc \in HoldsRecord /\ procs[p].rec.d \in handled
      BY <1>1, <1>2 DEF HoldsRecord, ProcsAre, RemovesHandled
    <3>2. own[n.base] \in handled
      BY <3>1, <1>1, HeldRecord
    <3>3. n \in DOMAIN files /\ files[n].d \in handled
      BY <3>2, <2>3, <1>1 DEF Exists, FilesAre
    <3> QED BY <3>3, <2>2, <2>3, <1>1, <1>2, <1>5, RemoveStep
  <2>4. CASE UNCHANGED files
    BY <2>2, <2>4, <1>1, <1>2, <1>5, SameFilesStep
  <2> QED BY <2>3, <2>4, <1>5
<1>6. CASE /\ Fault /\ UNCHANGED files
           /\ procs' = [procs EXCEPT ![p] = [@ EXCEPT !.pc = "requeue", !.transient = FALSE]]
  <2>1. ProcsAre(procs', own, handled)
    BY <1>1, <1>6, RequeueKeeps
  <2> QED BY <2>1, <1>1, <1>2, <1>6, SameFilesStep
<1> QED BY <1>5, <1>6 DEF RemoveReplayed

(* A record written back after a failed replay keeps delivery and receipt.   *)
LEMMA RequeuedRecord ==
  ASSUME NEW r \in Records, NEW e \in BOOLEAN
  PROVE  /\ Requeued(r, e) \in Records /\ Requeued(r, e).receipt = r.receipt
         /\ Requeued(r, e).d = r.d
<1> DEFINE a == IF r.attempts = RetryLimit THEN r.attempts ELSE r.attempts + 1
<1>1. a \in 0..RetryLimit
  BY SpoolAssumption DEF Records
<1>2. Requeued(r, e) = [r EXCEPT !.attempts = a, !.transient = e, !.age = "new"]
  BY DEF Requeued
<1> HIDE DEF a
<1> QED BY <1>1, <1>2 DEF Records, Ages

(* The record to be written back is taken from the claimed file.             *)
LEMMA RequeueReadKeeps ==
  ASSUME SpoolIInv, NEW p \in Processes, RequeueRead(p)
  PROVE  SpoolIInv'
<1> DEFINE n == procs[p].path
           s == Requeued(files[n], procs[p].transient)
           r == [procs[p] EXCEPT !.pc = "rewrite", !.rec = s]
<1>1. PICK own \in Owners : FilesAre(files, own) /\ ProcsAre(procs, own, handled)
  BY InvOwner
<1>2. UNCHANGED <<older, store, spooled, pruned>>
  BY DEF RequeueRead
<1>3. CASE Exists(n) /\ NoFault /\ UNCHANGED files /\ procs' = [procs EXCEPT ![p] = r]
  <2>1. n \in Names /\ files[n] \in Records /\ files[n].receipt = TRUE /\ files[n].d = own[n.base]
    BY <1>1, <1>3 DEF Exists, FilesAre
  <2>2. procs[p] \in ProcessRecords /\ procs[p].transient \in BOOLEAN
    BY <1>1 DEF ProcsAre, ProcessRecords
  <2>3. s \in Records /\ s.receipt = TRUE /\ s.d = own[n.base]
    BY <2>1, <2>2, RequeuedRecord
  <2> HIDE DEF s
  <2>4. r \in ProcessRecords /\ r.pc = "rewrite" /\ r.rec = s /\ r.path = n
    BY <2>2, <2>3 DEF ProcessRecords, ProcessSteps
  <2> HIDE DEF r
  <2>5. RecordIs(r, own) /\ RemovesHandled(r, handled)
    BY <2>1, <2>3, <2>4 DEF RecordIs, RemovesHandled
  <2>6. ProcsAre(procs', own, handled)
    BY <1>1, <1>3, <2>4, <2>5, ProcessMoves
  <2> QED BY <2>6, <1>1, <1>2, <1>3, SameFilesStep
<1>4. CASE Fails(n) /\ Goto(p, "bury")
  <2>1. "bury" \in ProcessSteps \ HoldsRecord
    BY DEF ProcessSteps, HoldsRecord
  <2>2. ProcsAre(procs', own, handled)
    BY <2>1, <1>1, <1>4, GotoKeeps
  <2> QED BY <2>2, <1>1, <1>2, <1>4, SameFilesStep DEF Fails
<1> QED BY <1>3, <1>4 DEF RequeueRead

(* The rewrite may create the claim path again, beside or over a copy.       *)
LEMMA RequeueWriteKeeps ==
  ASSUME SpoolIInv, NEW p \in Processes, RequeueWrite(p)
  PROVE  SpoolIInv'
<1> DEFINE pc == IF procs[p].rec.attempts >= RetryLimit THEN "bury" ELSE "retry"
<1>1. PICK own \in Owners : FilesAre(files, own) /\ ProcsAre(procs, own, handled)
  BY InvOwner
<1>2. procs[p].pc \in HoldsRecord /\ UNCHANGED <<older, store, spooled, pruned>>
  BY DEF RequeueWrite, HoldsRecord
<1>3. pc \in ProcessSteps \ HoldsRecord
  BY DEF ProcessSteps, HoldsRecord
<1>4. CASE Write(procs[p].path, procs[p].rec) /\ NoFault /\ Goto(p, pc)
  <2> HIDE DEF pc
  <2>1. ProcsAre(procs', own, handled)
    BY <1>1, <1>3, <1>4, GotoKeeps
  <2>2. /\ procs[p].path \in Names /\ procs[p].rec \in Records
        /\ procs[p].rec.receipt = TRUE /\ procs[p].rec.d = own[procs[p].path.base]
    BY <1>1, <1>2, HeldRecord
  <2> QED BY <2>1, <2>2, <1>1, <1>2, <1>4, WriteStep
<1>5. CASE Fault /\ UNCHANGED files /\ GotoLoop(p)
  <2>1. ProcsAre(procs', own, handled)
    BY <1>1, <1>5, GotoLoopKeeps
  <2> QED BY <2>1, <1>1, <1>2, <1>5, SameFilesStep
<1> QED BY <1>4, <1>5 DEF RequeueWrite

(* The move to the retry tail or to dead/.                                   *)
LEMMA MoveClaimedKeeps ==
  ASSUME SpoolIInv, NEW p \in Processes, MoveClaimed(p)
  PROVE  SpoolIInv'
<1> DEFINE n == procs[p].path
<1>1. PICK own \in Owners : FilesAre(files, own) /\ ProcsAre(procs, own, handled)
  BY InvOwner
<1>2. UNCHANGED <<store, spooled, pruned>> /\ GotoLoop(p)
  BY DEF MoveClaimed
<1>3. CASE Exists(n) /\ RenameToTail(n) /\ NoFault
  <2>1. PICK o \in Owners : /\ FilesAre(files, o) /\ ProcsAre(procs, o, handled)
                            /\ o[Pending(NewBase(n)).base] = files[n].d
    BY <1>1, <1>3, TailMove DEF Exists
  <2>2. /\ older' \subseteq Bases \X Bases /\ Pending(NewBase(n)) \in Names
        /\ Rename(n, Pending(NewBase(n))) /\ n \in DOMAIN files
    BY <1>1, <1>3, TailMove DEF Exists
  <2>3. ProcsAre(procs', o, handled)
    BY <2>1, <1>2, GotoLoopKeeps
  <2> QED BY <2>1, <2>2, <2>3, <1>2, <1>3, RenameStep
<1>4. CASE /\ Exists(n) /\ FreshBases(n) # {}
           /\ Rename(n, Dead(NewBase(n))) /\ UNCHANGED older /\ NoFault
  <2>1. NewBase(n) \in FreshBases(n) /\ NewBase(n) \in Bases /\ n \in DOMAIN files
    BY <1>4, NewBaseFresh DEF Exists
  <2>2. Dead(NewBase(n)) \in Names /\ Dead(NewBase(n)).base = NewBase(n)
    BY <2>1, NameFacts
  <2>3. PICK o \in Owners : /\ FilesAre(files, o) /\ ProcsAre(procs, o, handled)
                            /\ o[NewBase(n)] = files[n].d
    BY <1>1, <2>1, FreshBaseOwned
  <2>4. ProcsAre(procs', o, handled)
    BY <2>3, <1>2, GotoLoopKeeps
  <2>5. older' \subseteq Bases \X Bases
    BY <1>4 DEF SpoolIInv, SpoolTypeOK
  <2> QED BY <2>1, <2>2, <2>3, <2>4, <2>5, <1>2, <1>4, RenameStep
<1>5. CASE (Fails(n) \/ NoName(FreshBases(n))) /\ UNCHANGED older
  <2>1. ProcsAre(procs', own, handled)
    BY <1>1, <1>2, GotoLoopKeeps
  <2> QED BY <2>1, <1>1, <1>2, <1>5, SameFilesStep DEF Fails, NoName
<1> QED BY <1>3, <1>4, <1>5 DEF MoveClaimed

(* The end of a batch.                                                       *)
LEMMA StopDrainKeeps ==
  ASSUME SpoolIInv, NEW p \in Processes, StopDrain(p)
  PROVE  SpoolIInv'
<1>1. PICK own \in Owners : FilesAre(files, own) /\ ProcsAre(procs, own, handled)
  BY InvOwner
<1>2. UNCHANGED <<files, older, store, spooled, pruned>> /\ (NoFault \/ Fault)
  BY DEF StopDrain
<1>3. Exit(p) \/ List(p, "drain", {})
  BY DEF StopDrain, List
<1>4. "drain" \in ProcessSteps \ HoldsRecord /\ {} \in SUBSET Names
  BY DEF ProcessSteps, HoldsRecord
<1>5. ProcsAre(procs', own, handled)
  BY <1>1, <1>3, <1>4, ExitKeeps, ListKeeps
<1> QED BY <1>1, <1>2, <1>5, SameFilesStep

-----------------------------------------------------------------------------
(* Doctor.                                                                   *)

(* Doctor starts.                                                            *)
LEMMA StartDoctorKeeps ==
  ASSUME SpoolIInv, NEW p \in Processes, StartDoctor(p)
  PROVE  SpoolIInv'
<1>1. PICK own \in Owners : FilesAre(files, own) /\ ProcsAre(procs, own, handled)
  BY InvOwner
<1> DEFINE r == [procs[p] EXCEPT !.pc = "dead", !.doctor = TRUE, !.pending = HasPending]
<1>2. procs' = [procs EXCEPT ![p] = r]
  BY DEF StartDoctor
<1>3. procs[p] \in ProcessRecords /\ HasPending \in BOOLEAN
  BY <1>1 DEF ProcsAre, HasPending
<1>4. r \in ProcessRecords /\ r.pc = "dead"
  BY <1>3 DEF ProcessRecords, ProcessSteps
<1> HIDE DEF r
<1>5. RecordIs(r, own) /\ RemovesHandled(r, handled)
  BY <1>4 DEF RecordIs, RemovesHandled, HoldsRecord
<1>6. ProcsAre(procs', own, handled)
  BY <1>1, <1>2, <1>4, <1>5, ProcessMoves
<1> QED BY <1>1, <1>6, SameFilesStep DEF StartDoctor, NoFault

(* The listing of dead letters.                                              *)
LEMMA ListDeadKeeps ==
  ASSUME SpoolIInv, NEW p \in Processes, ListDead(p)
  PROVE  SpoolIInv'
<1>1. PICK own \in Owners : FilesAre(files, own) /\ ProcsAre(procs, own, handled)
  BY InvOwner
<1> DEFINE r == [procs[p] EXCEPT !.pc = "deadLoop", !.todo = Listed("dead"), !.moved = FALSE]
<1>2. procs' = [procs EXCEPT ![p] = r]
  BY DEF ListDead
<1>3. procs[p] \in ProcessRecords /\ Listed("dead") \in SUBSET Names
  BY <1>1, ListedNames DEF ProcsAre
<1>4. r \in ProcessRecords /\ r.pc = "deadLoop"
  BY <1>3 DEF ProcessRecords, ProcessSteps
<1> HIDE DEF r
<1>5. RecordIs(r, own) /\ RemovesHandled(r, handled)
  BY <1>4 DEF RecordIs, RemovesHandled, HoldsRecord
<1>6. ProcsAre(procs', own, handled)
  BY <1>1, <1>2, <1>4, <1>5, ProcessMoves
<1> QED BY <1>1, <1>6, SameFilesStep DEF ListDead, NoFault

(* The move of a dead letter: its reset record keeps delivery and receipt.   *)
LEMMA RequeueDeadKeeps ==
  ASSUME SpoolIInv, NEW p \in Processes, NEW n, RequeueDead(p, n)
  PROVE  SpoolIInv'
<1> DEFINE m == Pending(NewBase(n))
           s == [files[n] EXCEPT !.attempts = 0, !.transient = FALSE, !.age = "new"]
           r == [procs[p] EXCEPT !.pc = "deadWrite", !.path = m, !.todo = procs[p].todo \ {n},
                                 !.rec = s]
<1>1. PICK own \in Owners : FilesAre(files, own) /\ ProcsAre(procs, own, handled)
  BY InvOwner
<1>2. UNCHANGED <<store, spooled, pruned>>
  BY DEF RequeueDead
<1>3. "deadLoop" \in ProcessSteps \ HoldsRecord
  BY DEF ProcessSteps, HoldsRecord
<1>4. CASE Exists(n) /\ RenameToTail(n) /\ NoFault /\ procs' = [procs EXCEPT ![p] = r]
  <2>1. PICK o \in Owners : /\ FilesAre(files, o) /\ ProcsAre(procs, o, handled)
                            /\ o[m.base] = files[n].d
    BY <1>1, <1>4, TailMove DEF Exists
  <2>2. /\ older' \subseteq Bases \X Bases /\ m \in Names /\ Rename(n, m) /\ n \in DOMAIN files
    BY <1>1, <1>4, TailMove DEF Exists
  <2>3. files[n] \in Records /\ files[n].receipt = TRUE
    BY <2>1, <2>2 DEF FilesAre
  <2>4. s \in Records /\ s.receipt = TRUE /\ s.d = o[m.base]
    <3>1. 0 \in 0..RetryLimit
      BY SpoolAssumption
    <3> HIDE DEF m
    <3> QED BY <3>1, <2>1, <2>3 DEF Records, Ages
  <2> HIDE DEF s, m
  <2>5. procs[p] \in ProcessRecords
    BY <1>1 DEF ProcsAre
  <2>6. r \in ProcessRecords /\ r.pc = "deadWrite" /\ r.path = m /\ r.rec = s
    BY <2>2, <2>4, <2>5 DEF ProcessRecords, ProcessSteps
  <2> HIDE DEF r
  <2>7. RecordIs(r, o) /\ RemovesHandled(r, handled)
    BY <2>2, <2>4, <2>6 DEF RecordIs, RemovesHandled
  <2>8. ProcsAre(procs', o, handled)
    BY <2>1, <2>6, <2>7, <1>4, ProcessMoves
  <2> QED BY <2>1, <2>2, <2>8, <1>2, <1>4, RenameStep
<1>5. CASE /\ UNCHANGED files /\ UNCHANGED older /\ (NoFault \/ Fault)
           /\ Done(p, n, "deadLoop") \/ Exit(p)
  <2>1. ProcsAre(procs', own, handled)
    BY <1>1, <1>3, <1>5, DoneKeeps, ExitKeeps
  <2> QED BY <2>1, <1>1, <1>2, <1>5, SameFilesStep
<1> QED BY <1>4, <1>5 DEF RequeueDead, Fails, NoName

(* The reset of a requeued dead letter, which may have been claimed          *)
(* meanwhile.                                                                *)
LEMMA ResetRequeuedKeeps ==
  ASSUME SpoolIInv, NEW p \in Processes, ResetRequeued(p)
  PROVE  SpoolIInv'
<1> DEFINE r == [procs[p] EXCEPT !.pc = "deadLoop", !.path = None, !.rec = None, !.moved = TRUE,
                                 !.pending = TRUE]
<1>1. PICK own \in Owners : FilesAre(files, own) /\ ProcsAre(procs, own, handled)
  BY InvOwner
<1>2. procs[p].pc \in HoldsRecord /\ UNCHANGED <<older, store, spooled, pruned>>
  BY DEF ResetRequeued, HoldsRecord
<1>3. CASE Write(procs[p].path, procs[p].rec) /\ NoFault /\ procs' = [procs EXCEPT ![p] = r]
  <2>1. procs[p] \in ProcessRecords
    BY <1>1 DEF ProcsAre
  <2>2. r \in ProcessRecords /\ r.pc = "deadLoop"
    BY <2>1 DEF ProcessRecords, ProcessSteps
  <2> HIDE DEF r
  <2>3. RecordIs(r, own) /\ RemovesHandled(r, handled)
    BY <2>2 DEF RecordIs, RemovesHandled, HoldsRecord
  <2>4. ProcsAre(procs', own, handled)
    BY <2>2, <2>3, <1>1, <1>3, ProcessMoves
  <2>5. /\ procs[p].path \in Names /\ procs[p].rec \in Records
        /\ procs[p].rec.receipt = TRUE /\ procs[p].rec.d = own[procs[p].path.base]
    BY <1>1, <1>2, HeldRecord
  <2> QED BY <2>4, <2>5, <1>1, <1>2, <1>3, WriteStep
<1>4. CASE Fault /\ UNCHANGED files /\ Exit(p)
  <2>1. ProcsAre(procs', own, handled)
    BY <1>1, <1>4, ExitKeeps
  <2> QED BY <2>1, <1>1, <1>2, <1>4, SameFilesStep
<1> QED BY <1>3, <1>4 DEF ResetRequeued

(* The end of a batch of dead letters.                                       *)
LEMMA DeadDoneKeeps ==
  ASSUME SpoolIInv, NEW p \in Processes, DeadDone(p)
  PROVE  SpoolIInv'
<1>1. PICK own \in Owners : FilesAre(files, own) /\ ProcsAre(procs, own, handled)
  BY InvOwner
<1>2. {"prune", "dead"} \subseteq ProcessSteps \ HoldsRecord
  BY DEF ProcessSteps, HoldsRecord
<1>3. ProcsAre(procs', own, handled)
  BY <1>1, <1>2, GotoKeeps DEF DeadDone
<1> QED BY <1>1, <1>3, SameFilesStep DEF DeadDone, NoFault

(* The listing of expired dead letters.                                      *)
LEMMA ListExpiredKeeps ==
  ASSUME SpoolIInv, NEW p \in Processes, ListExpired(p)
  PROVE  SpoolIInv'
<1>1. PICK own \in Owners : FilesAre(files, own) /\ ProcsAre(procs, own, handled)
  BY InvOwner
<1> DEFINE S == {n \in Listed("dead") : files[n].age = "expired"}
<1>2. S \in SUBSET Names /\ List(p, "pruneLoop", S)
  BY ListedNames DEF ListExpired
<1> HIDE DEF S
<1>3. "pruneLoop" \in ProcessSteps \ HoldsRecord
  BY DEF ProcessSteps, HoldsRecord
<1>4. ProcsAre(procs', own, handled)
  BY <1>1, <1>2, <1>3, ListKeeps
<1> QED BY <1>1, <1>4, SameFilesStep DEF ListExpired, NoFault

(* The only step that removes a delivery which may not be handled: it is     *)
(* recorded as pruned.                                                       *)
LEMMA PruneDeadKeeps ==
  ASSUME SpoolIInv, NEW p \in Processes, NEW n, PruneDead(p, n)
  PROVE  SpoolIInv'
<1>1. PICK own \in Owners : FilesAre(files, own) /\ ProcsAre(procs, own, handled)
  BY InvOwner
<1>2. UNCHANGED <<older, store, spooled>>
  BY DEF PruneDead
<1>3. Done(p, n, "pruneLoop") \/ Exit(p)
  BY DEF PruneDead
<1>4. ProcsAre(procs', own, handled)
  <2>1. "pruneLoop" \in ProcessSteps \ HoldsRecord
    BY DEF ProcessSteps, HoldsRecord
  <2> QED BY <2>1, <1>1, <1>3, DoneKeeps, ExitKeeps
<1>5. CASE Exists(n) /\ Remove(n) /\ pruned' = pruned \cup {files[n].d} /\ NoFault
  <2>1. SpoolTypeOK /\ EventOnce
    BY DEF SpoolIInv
  <2>2. n \in DOMAIN files /\ files[n].d \in Deliveries
    BY <1>1, <1>5 DEF Exists, FilesAre, Records
  <2>3. FilesAre(files', own) /\ \A d : Covers(files, d) => Covers(files', d) \/ d = files[n].d
    BY <1>1, <1>5, <2>2, RemoveKeeps DEF Remove
  <2>4. handled' = handled /\ spooled' = spooled /\ older' = older /\ faults' = faults
    BY <1>2, <1>5 DEF store, NoFault
  <2>5. events' \in [Deliveries -> 0..1]
    BY <2>1, <1>2 DEF SpoolTypeOK, EventOnce, store
  <2>6. ProcsAre(procs', own, handled')
    BY <2>4, <1>4
  <2>7. /\ pruned' \subseteq Deliveries /\ pruned \subseteq pruned' /\ handled' \subseteq Deliveries
        /\ spooled' \subseteq Deliveries /\ older' \subseteq Bases \X Bases
        /\ faults' \in 0..MaxFaults
    BY <2>1, <2>2, <2>4, <1>5 DEF SpoolTypeOK
  <2>8. \A d \in Deliveries :
          Covers(files, d) => Covers(files', d) \/ d \in handled' \cup pruned'
    BY <2>3, <1>5
  <2> QED BY <2>3, <2>4, <2>5, <2>6, <2>7, <2>8, StepKeeps
<1>6. CASE UNCHANGED <<files, pruned>> /\ (NoFault \/ Fault)
  BY <1>1, <1>2, <1>4, <1>6, SameFilesStep
<1> QED BY <1>5, <1>6 DEF PruneDead

(* Doctor goes on to the drain or ends.                                      *)
LEMMA PruneDoneKeeps ==
  ASSUME SpoolIInv, NEW p \in Processes, PruneDone(p)
  PROVE  SpoolIInv'
<1>1. PICK own \in Owners : FilesAre(files, own) /\ ProcsAre(procs, own, handled)
  BY InvOwner
<1>2. "drain" \in ProcessSteps \ HoldsRecord /\ (Goto(p, "drain") \/ Exit(p))
  BY DEF ProcessSteps, HoldsRecord, PruneDone
<1>3. ProcsAre(procs', own, handled)
  BY <1>1, <1>2, GotoKeeps, ExitKeeps
<1> QED BY <1>1, <1>3, SameFilesStep DEF PruneDone, NoFault

-----------------------------------------------------------------------------
(* The environment.                                                          *)

(* A kill leaves every file where it is.                                     *)
LEMMA CrashKeeps ==
  ASSUME SpoolIInv, NEW p \in Processes, Crash(p)
  PROVE  SpoolIInv'
<1>1. PICK own \in Owners : FilesAre(files, own) /\ ProcsAre(procs, own, handled)
  BY InvOwner
<1>2. ProcsAre(procs', own, handled)
  BY <1>1, ExitKeeps DEF Crash
<1> QED BY <1>1, <1>2, SameFilesStep DEF Crash

(* Time changes no content.                                                  *)
LEMMA AgeKeeps ==
  ASSUME SpoolIInv, NEW n, Age(n)
  PROVE  SpoolIInv'
<1> DEFINE a == IF n.dir = "dead" THEN "expired" ELSE "stale"
           r == [files[n] EXCEPT !.age = a]
<1>1. PICK own \in Owners : FilesAre(files, own) /\ ProcsAre(procs, own, handled)
  BY InvOwner
<1>2. /\ n \in DOMAIN files /\ Write(n, r) /\ (NoFault \/ Fault)
      /\ UNCHANGED <<procs, older, store, spooled, pruned>>
  BY DEF Age, Exists
<1>3. n \in Names /\ files[n] \in Records /\ files[n].receipt = TRUE /\ files[n].d = own[n.base]
  BY <1>1, <1>2 DEF FilesAre
<1>4. a \in Ages
  BY DEF Ages
<1> HIDE DEF a
<1>5. r \in Records /\ r.receipt = TRUE /\ r.d = own[n.base]
  BY <1>3, <1>4 DEF Records
<1> HIDE DEF r
<1>6. ProcsAre(procs', own, handled)
  BY <1>1, <1>2
<1> QED BY <1>1, <1>2, <1>3, <1>5, <1>6, WriteStep

-----------------------------------------------------------------------------
(* The invariant.                                                            *)

(* The empty spool.                                                          *)
LEMMA SpoolInitInv == SpoolInit => SpoolIInv
<1> SUFFICES ASSUME SpoolInit PROVE SpoolIInv
  OBVIOUS
<1>1. IdleProcess \in ProcessRecords /\ IdleProcess.pc = "idle"
  <2>1. 0 \in 0..BatchLimit
    BY SpoolAssumption
  <2> QED BY <2>1 DEF ProcessRecords, IdleProcess, ProcessSteps
<1>2. DOMAIN files = {} /\ procs = [p \in Processes |-> IdleProcess]
  BY DEF SpoolInit
<1>3. SpoolTypeOK
  BY <1>1, <1>2, SpoolAssumption DEF SpoolInit, SpoolTypeOK
<1>4. NothingLost /\ EventOnce
  BY DEF SpoolInit, NothingLost, EventOnce
<1> DEFINE own == [b \in Bases \cup Deliveries |-> IF b \in Deliveries THEN b ELSE None]
<1>5. own \in Owners
  BY DEF Owners
<1> HIDE DEF own
<1>6. FilesAre(files, own)
  BY <1>2 DEF FilesAre
<1>7. ProcsAre(procs, own, handled)
  BY <1>1, <1>2 DEF ProcsAre, RecordIs, RemovesHandled, HoldsRecord
<1> QED BY <1>3, <1>4, <1>5, <1>6, <1>7 DEF SpoolIInv

(* Every step preserves the invariant.                                       *)
LEMMA SpoolNextInv == SpoolIInv /\ [SpoolNext]_spoolVars => SpoolIInv'
<1> SUFFICES ASSUME SpoolIInv, [SpoolNext]_spoolVars PROVE SpoolIInv'
  OBVIOUS
<1>1. CASE UNCHANGED spoolVars
  <2>1. PICK own \in Owners : FilesAre(files, own) /\ ProcsAre(procs, own, handled)
    BY InvOwner
  <2>2. ProcsAre(procs', own, handled)
    BY <1>1, <2>1 DEF spoolVars
  <2> QED BY <1>1, <2>1, <2>2, SameFilesStep DEF spoolVars, store, NoFault
<1>2. ASSUME NEW p \in Processes, Hook(p) PROVE SpoolIInv'
  BY <1>2, RunCurrentKeeps, PromoteKeeps, ClearKeeps DEF Hook
<1>3. ASSUME NEW p \in Processes, Drain(p) PROVE SpoolIInv'
  BY <1>3, StartDrainKeeps, ListStaleClaimsKeeps, ListPendingKeeps, StopDrainKeeps,
     RecoverCurrentKeeps, InspectClaimKeeps, ClaimRecordKeeps, RestoreClaimKeeps, TailClaimKeeps,
     TouchClaimKeeps, LoadClaimedKeeps, ReplayKeeps, RemoveReplayedKeeps, RequeueReadKeeps,
     RequeueWriteKeeps, MoveClaimedKeeps
     DEF Drain
<1>4. ASSUME NEW p \in Processes, Doctor(p) PROVE SpoolIInv'
  BY <1>4, ListDeadKeeps, ResetRequeuedKeeps, DeadDoneKeeps, ListExpiredKeeps, PruneDoneKeeps,
     RequeueDeadKeeps, PruneDeadKeeps
     DEF Doctor
<1>5. CASE SpoolNext
  BY <1>2, <1>3, <1>4, <1>5, PersistKeeps, UnspooledKeeps, LaterHookKeeps, StartDoctorKeeps,
     CrashKeeps, AgeKeeps
     DEF SpoolNext, ProcessStep
<1> QED BY <1>1, <1>5

(* The inductive invariant of the spool holds in every behaviour.            *)
THEOREM SpoolInvariant == SpoolSpec => []SpoolIInv
BY SpoolInitInv, SpoolNextInv, PTL DEF SpoolSpec

(* No published delivery is lost: until its handler committed or an operator *)
(* pruned its dead letter the spool holds a file of it, whatever was killed, *)
(* overtaken or failed, for any number of hook and doctor processes.         *)
THEOREM SpoolHolds == SpoolSpec => []SpoolInv
<1>1. SpoolIInv => SpoolInv
  BY DEF SpoolIInv, SpoolInv
<1> QED BY <1>1, SpoolInvariant, PTL

(* However often a delivery is replayed and by however many processes, it is *)
(* recorded as one event: its receipt survives every rewrite of its record.  *)
THEOREM ReplayedOnce == SpoolSpec => []EventOnce
<1>1. SpoolIInv => EventOnce
  BY DEF SpoolIInv
<1> QED BY <1>1, SpoolInvariant, PTL

(* Two files with one base name are copies of one delivery, so the renames   *)
(* and rewrites of a process that was overtaken replace only copies.         *)
SharedBase ==
  \A m, n \in DOMAIN files : m.base = n.base => files[m].d = files[n].d

(* Files that share a base name never mix deliveries.                        *)
THEOREM NamesNeverMix == SpoolSpec => []SharedBase
<1>1. SpoolIInv => SharedBase
  BY DEF SpoolIInv, FilesAre, SharedBase
<1> QED BY <1>1, SpoolInvariant, PTL
=============================================================================
