--------------------------- MODULE EventDeliveryProofs ---------------------------
(*****************************************************************************)
(* For any set of writers, calls and events: saving implements RecordOnce,   *)
(* receipts and observations add up, the chain attests the prompts, a        *)
(* session starts and ends once, callers are told the truth and the anchor   *)
(* is a history.                                                             *)
(*                                                                           *)
(* What a transaction read is still true when it writes (SnapshotOK): its    *)
(* snapshot is the newest when it takes the writer lock, and nobody else     *)
(* commits while it holds it. The rest follows from what a receipt, a        *)
(* committed call and the session row say about the events that are there,   *)
(* from the receipts behind the observations (ObservedOK), and from the      *)
(* workspace a session keeps once it has one (RelatedOK, BatchOK).           *)
(*****************************************************************************)
EXTENDS EventDelivery, FiniteSetTheorems, TLAPS

Receipt == [status : {"accepted", "conflict"}, event : EventIDs]
CallState ==
  [pc : {"idle", "begin", "read", "write", "reconcile", "committed"},
   call : Calls \cup {None}, ev : 0..MaxEvents, attempt : Nat, snapshot : Nat,
   found : Receipt \cup {None}, accepted : BOOLEAN, event : 0..MaxEvents,
   head : Seq(EventIDs) \cup {None}]

(* Processes, and the writer lock, which whoever is writing holds.           *)
CallsOK ==
  /\ calls \in [Writers -> CallState]
  /\ version \in Nat /\ issued \in 0..MaxEvents
  /\ holder \in Writers \cup {None}
  /\ \A w \in Writers : calls[w].pc = "write" => holder = w
  /\ \A w \in Writers : calls[w].pc # "idle" => calls[w].call \in Calls /\ calls[w].ev \in 1..issued
  /\ \A w \in Writers : calls[w].pc = "reconcile" => calls[w].call.kind = "finish"

(* A process that opens the store does not save; nobody holds the lock who   *)
(* is not writing.                                                           *)
LockOK ==
  /\ opening = [w \in Writers |-> opening[w]]
  /\ \A w \in Writers :
       /\ At(w, "idle") \/ calls[w].pc = "idle"
       /\ At(w, "write") => holder = w
       /\ holder = w => calls[w].pc = "write" \/ At(w, "write")

(* A call whose transaction has not committed.                               *)
Uncommitted(w) == calls[w].pc \in {"begin", "read", "write", "reconcile"}

(* The id a call proposes is its own, and unused until it commits.           *)
FreshOK ==
  /\ Recorded \subseteq 1..issued
  /\ \A k \in DOMAIN attempts : k[2] \in 1..issued
  /\ \A w \in Writers : Uncommitted(w) =>
       calls[w].ev \notin Recorded /\ \A k \in DOMAIN attempts : k[2] # calls[w].ev
  /\ \A v, w \in Writers :
       v # w /\ calls[v].pc # "idle" /\ calls[w].pc # "idle" => calls[v].ev # calls[w].ev

(* What a transaction read holds as long as its snapshot is the newest.      *)
SnapshotOK ==
  \A w \in Writers :
    LET c == calls[w]
    IN  /\ c.pc = "read" => c.snapshot <= version
        /\ (c.pc = "write" \/ (c.pc = "read" /\ c.snapshot = version)) =>
             /\ c.found = findHookDeliveryByFingerprint(c.call)
             /\ c.accepted = findAcceptedHookDelivery(c.call)

(* A receipt names an event that was recorded.                               *)
LedgerOK ==
  /\ DOMAIN rows \subseteq EventIDs /\ \A e \in DOMAIN rows : rows[e] \in Calls
  /\ DOMAIN ledger \subseteq Deliveries
  /\ \A r \in DOMAIN ledger : ledger[r] \in Receipt /\ ledger[r].event \in Recorded

(* A call that committed will answer with the event of its receipt.          *)
CommittedOK ==
  \A w \in Writers : calls[w].pc = "committed" =>
    LET c == calls[w]
    IN  /\ c.event \in Recorded
        /\ c.call.id # None =>
             DeliveryRecordID(c.call) \in DOMAIN ledger /\ ledger[DeliveryRecordID(c.call)].event = c.event
        /\ c.call.kind = "finish" => session.ended = c.call.reason

IsStart(e) == rows[e].kind \in {"start", "one_shot"}
IsFinish(e) == rows[e].kind = "finish"

(* The session row agrees with the boundaries recorded and received.         *)
SessionOK ==
  /\ session = [mode |-> session.mode, ws |-> session.ws, ended |-> session.ended]
  /\ session.mode \in {"none", "interactive", "one_shot"}
  /\ session.mode = "none" => session = NoSession
  /\ \A e \in DOMAIN rows : IsStart(e) =>
       /\ session.mode = IF rows[e].kind = "one_shot" THEN "one_shot" ELSE "interactive"
       /\ session.ws = rows[e].ws
  /\ \A e, f \in DOMAIN rows : IsStart(e) /\ IsStart(f) => e = f
  /\ \A e \in DOMAIN rows : IsFinish(e) => session.ended = rows[e].reason
  /\ \A e, f \in DOMAIN rows : IsFinish(e) /\ IsFinish(f) => e = f
  /\ \A c \in Calls : c.id # None /\ DeliveryRecordID(c) \in DOMAIN ledger =>
       /\ c.kind = "start" => LET e == ledger[DeliveryRecordID(c)].event IN e \in DOMAIN rows /\ IsStart(e)
       /\ c.kind = "finish" => session.ended = c.reason

ToldOK == told \subseteq {session.ended} /\ (told # {} => session.ended # None)

(* ReceiptsAddUp without cardinalities.                                      *)
ReceiptsOK ==
  /\ \A r \in DOMAIN ledger : \E s \in DOMAIN ledger : s[1] = r[1] /\ ledger[s].status = "accepted"
  /\ \A r, s \in DOMAIN ledger :
       r[1] = s[1] /\ ledger[r].status = "accepted" /\ ledger[s].status = "accepted" => r = s
  /\ \A r \in DOMAIN ledger : \E k \in DOMAIN attempts : k[1] = r /\ attempts[k] = ledger[r].status
  /\ \A k, l \in DOMAIN attempts :
       k[1] = l[1] /\ attempts[k] = ledger[k[1]].status /\ attempts[l] = ledger[k[1]].status => k = l
  /\ \A k \in DOMAIN attempts :
       k[1] \in DOMAIN ledger /\ attempts[k] \in {ledger[k[1]].status, "exact_redelivery"}

ChainOK == chain \in Seq(EventIDs) /\ ChainAttestsEvents

(* A head that is about to be published is one the chain had.                *)
AnchorOK ==
  /\ anchor \in Seq(Seq(EventIDs)) /\ AnchorIsHistory(chain)
  /\ \A w \in Writers : calls[w].pc = "committed" /\ calls[w].head # None =>
       calls[w].head \in Seq(EventIDs) /\ IsPrefix(calls[w].head, chain)
  /\ doctor = [pc |-> doctor.pc, last |-> doctor.last, present |-> doctor.present,
               head |-> doctor.head, relation |-> doctor.relation]
  /\ doctor.pc = "publish" => doctor.head \in Seq(EventIDs) /\ IsPrefix(doctor.head, chain)

(* The inductive invariant.                                                  *)
BooksInv ==
  /\ CallsOK /\ LockOK /\ FreshOK /\ SnapshotOK /\ LedgerOK /\ CommittedOK
  /\ SessionOK /\ ToldOK /\ ReceiptsOK
SaveInv == BooksInv /\ ChainOK /\ AnchorOK

-----------------------------------------------------------------------------
(* What a step does to the call of one process: the others keep theirs.      *)
Others(w) == \A v \in Writers \ {w} : calls'[v] = calls[v]
SameCall(w) == calls'[w].call = calls[w].call /\ calls'[w].ev = calls[w].ev

(* A call at the beginning of an attempt, and one that has looked.           *)
Begun(c, e, a) == [NoCall EXCEPT !.pc = "begin", !.call = c, !.ev = e, !.attempt = a]
LookedAt(w, pc) == [Looked(w) EXCEPT !.pc = pc]

(* The identity of a delivery, which None is not.                            *)
LEMMA RecordID ==
  ASSUME NEW c \in Calls
  PROVE  /\ c.id = None => DeliveryRecordID(c) = None
         /\ c.id # None => /\ DeliveryRecordID(c) = <<c.id, c.fp>>
                           /\ DeliveryRecordID(c) # None
                           /\ DeliveryRecordID(c) \in Deliveries
                           /\ DeliveryRecordID(c)[1] = c.id
BY NoneAssumption DEF DeliveryRecordID, Deliveries

(* A process without a call.                                                 *)
LEMMA NoCallType == NoCall \in CallState /\ NoCall.pc = "idle" /\ NoCall.head = None
BY DeliveryAssumption DEF NoCall, CallState

(* What a lookup finds is a receipt or nothing.                              *)
LEMMA LookupType ==
  ASSUME LedgerOK, NEW c
  PROVE  /\ findHookDeliveryByFingerprint(c) \in Receipt \cup {None}
         /\ findAcceptedHookDelivery(c) \in BOOLEAN
BY DEF LedgerOK, findHookDeliveryByFingerprint, findAcceptedHookDelivery

(* A call that has looked.                                                   *)
LEMMA LookedCall ==
  ASSUME CallsOK, LedgerOK, NEW w \in Writers, NEW pc \in {"read", "write"}
  PROVE  LET n == LookedAt(w, pc)
         IN  /\ n \in CallState /\ n.pc = pc /\ n.call = calls[w].call /\ n.ev = calls[w].ev
             /\ n.snapshot = version
             /\ n.found = findHookDeliveryByFingerprint(n.call)
             /\ n.accepted = findAcceptedHookDelivery(n.call)
<1>1. calls[w] \in CallState /\ version \in Nat
  BY DEF CallsOK
<1> DEFINE f == findHookDeliveryByFingerprint(calls[w].call)
           a == findAcceptedHookDelivery(calls[w].call)
<1>2. f \in Receipt \cup {None} /\ a \in BOOLEAN
  BY LookupType
<1> HIDE DEF f, a
<1>3. Looked(w) = [calls[w] EXCEPT !.snapshot = version, !.found = f, !.accepted = a]
  BY DEF Looked, f, a
<1>4. LET n == LookedAt(w, pc)
      IN  /\ n \in CallState /\ n.pc = pc /\ n.call = calls[w].call /\ n.ev = calls[w].ev
          /\ n.snapshot = version /\ n.found = f /\ n.accepted = a
  BY <1>1, <1>2, <1>3 DEF CallState, LookedAt
<1> QED BY <1>4 DEF f, a

(* A call at the beginning of an attempt.                                    *)
LEMMA BeginCall ==
  ASSUME NEW c \in Calls, NEW e \in 0..MaxEvents, NEW a \in Nat
  PROVE  LET n == Begun(c, e, a)
         IN  n \in CallState /\ n.pc = "begin" /\ n.call = c /\ n.ev = e
<1> DEFINE n == Begun(c, e, a)
<1>1. n.pc = "begin" /\ n.call = c /\ n.ev = e
  BY DEF Begun, NoCall
<1>2. NoCall \in CallState
  BY NoCallType
<1>3. n \in CallState
  BY <1>2 DEF Begun, CallState
<1> QED BY <1>1, <1>3

(* A call that is tried again or given up.                                   *)
LEMMA RetriedCall ==
  ASSUME CallsOK, NEW w \in Writers, calls[w].pc # "idle", calls' = Retried(w)
  PROVE  /\ calls' \in [Writers -> CallState] /\ Others(w)
         /\ calls'[w].pc = "idle" \/ (calls'[w].pc = "begin" /\ SameCall(w))
<1>1. calls[w] \in CallState /\ calls \in [Writers -> CallState] /\ calls[w].call \in Calls
  BY DEF CallsOK
<1>2. CASE calls[w].attempt < MaxAttempts
  <2> DEFINE n == Begun(calls[w].call, calls[w].ev, calls[w].attempt + 1)
  <2>1. n \in CallState /\ n.pc = "begin" /\ n.call = calls[w].call /\ n.ev = calls[w].ev
    <3>1. calls[w].ev \in 0..MaxEvents /\ calls[w].attempt + 1 \in Nat
      BY <1>1 DEF CallState
    <3> QED BY <1>1, <3>1, BeginCall
  <2>2. calls' = [calls EXCEPT ![w] = n]
    BY <1>2 DEF Retried, Begun
  <2> HIDE DEF n
  <2> QED BY <1>1, <2>1, <2>2 DEF Others, SameCall
<1>3. CASE ~(calls[w].attempt < MaxAttempts)
  <2>1. calls' = [calls EXCEPT ![w] = NoCall]
    BY <1>3 DEF Retried
  <2> QED BY <1>1, <2>1, NoCallType DEF Others
<1> QED BY <1>2, <1>3

-----------------------------------------------------------------------------
(* Steps that leave the tables alone. The call of the process ends, starts   *)
(* its attempt again, waits for the session to be looked at once more, or    *)
(* goes on with what it has read.                                            *)
QuietStep(w) ==
  /\ UNCHANGED <<store, version, issued, removed>>
  /\ calls' \in [Writers -> CallState] /\ Others(w)
  /\ \/ calls'[w].pc = "idle"
     \/ /\ Uncommitted(w) /\ SameCall(w)
        /\ \/ calls'[w].pc = "begin"
           \/ calls'[w].pc = "reconcile" /\ calls[w].call.kind = "finish"
           \/ /\ calls'[w].pc \in {"read", "write"}
              /\ calls'[w].snapshot = version
              /\ calls'[w].found = findHookDeliveryByFingerprint(calls'[w].call)
              /\ calls'[w].accepted = findAcceptedHookDelivery(calls'[w].call)

(* Look reads the store and changes nothing in it.                           *)
LEMMA LookQuiet ==
  ASSUME CallsOK, LedgerOK, NEW w \in Writers, Look(w)
  PROVE  QuietStep(w) /\ calls'[w].pc # "write" /\ calls[w].pc # "write" /\ holder' = holder
<1> DEFINE n == LookedAt(w, "read")
<1>1. /\ n \in CallState /\ n.pc = "read" /\ n.call = calls[w].call /\ n.ev = calls[w].ev
      /\ n.snapshot = version
      /\ n.found = findHookDeliveryByFingerprint(n.call)
      /\ n.accepted = findAcceptedHookDelivery(n.call)
  BY LookedCall
<1>2. calls' = [calls EXCEPT ![w] = n] /\ calls \in [Writers -> CallState] /\ calls[w].pc = "begin"
  BY DEF Look, LookedAt, CallsOK
<1> HIDE DEF n
<1>3. calls' \in [Writers -> CallState] /\ calls'[w] = n /\ Others(w)
  BY <1>1, <1>2 DEF Others
<1> QED BY <1>1, <1>2, <1>3 DEF Look, QuietStep, SameCall, Uncommitted, store

(* Taking the write lock changes nothing either.                             *)
LEMMA WriteLockQuiet ==
  ASSUME CallsOK, LedgerOK, SnapshotOK, NEW w \in Writers, WriteLock(w)
  PROVE  QuietStep(w) /\ calls'[w].pc = "write" /\ holder' = w /\ holder = None
<1>1. calls[w] \in CallState /\ calls \in [Writers -> CallState]
  BY DEF CallsOK
<1>2. CASE /\ calls[w].pc = "read" /\ calls[w].snapshot = version
           /\ calls' = [calls EXCEPT ![w].pc = "write"]
  <2>1. /\ calls' \in [Writers -> CallState] /\ Others(w)
        /\ calls'[w].pc = "write" /\ calls'[w].call = calls[w].call /\ calls'[w].ev = calls[w].ev
        /\ calls'[w].snapshot = calls[w].snapshot /\ calls'[w].found = calls[w].found
        /\ calls'[w].accepted = calls[w].accepted
    BY <1>1, <1>2 DEF Others, CallState
  <2>2. /\ calls[w].found = findHookDeliveryByFingerprint(calls[w].call)
        /\ calls[w].accepted = findAcceptedHookDelivery(calls[w].call)
    BY <1>2 DEF SnapshotOK
  <2> QED BY <1>2, <2>1, <2>2 DEF WriteLock, QuietStep, SameCall, Uncommitted, store
<1>3. CASE /\ calls[w].pc = "begin" /\ ~ReadsFirst(calls[w].call)
           /\ calls' = [calls EXCEPT ![w] = [Looked(w) EXCEPT !.pc = "write"]]
  <2> DEFINE n == LookedAt(w, "write")
  <2>1. /\ n \in CallState /\ n.pc = "write" /\ n.call = calls[w].call /\ n.ev = calls[w].ev
        /\ n.snapshot = version
        /\ n.found = findHookDeliveryByFingerprint(n.call)
        /\ n.accepted = findAcceptedHookDelivery(n.call)
    BY LookedCall
  <2>2. calls' = [calls EXCEPT ![w] = n]
    BY <1>3 DEF LookedAt
  <2> HIDE DEF n
  <2>3. calls' \in [Writers -> CallState] /\ calls'[w] = n /\ Others(w)
    BY <1>1, <2>1, <2>2 DEF Others
  <2> QED BY <1>3, <2>1, <2>3 DEF WriteLock, QuietStep, SameCall, Uncommitted, store
<1> QED BY <1>2, <1>3 DEF WriteLock

(* A busy store sends the call back to its start, or away.                   *)
LEMMA BusyQuiet ==
  ASSUME CallsOK, NEW w \in Writers, Busy(w)
  PROVE  QuietStep(w) /\ calls'[w].pc # "write" /\ calls[w].pc # "write" /\ holder' = holder
<1>1. calls[w].pc \in {"begin", "read"} /\ calls' = Retried(w)
  BY DEF Busy
<1>2. /\ calls' \in [Writers -> CallState] /\ Others(w)
      /\ calls'[w].pc = "idle" \/ (calls'[w].pc = "begin" /\ SameCall(w))
  BY <1>1, RetriedCall
<1> QED BY <1>1, <1>2 DEF Busy, QuietStep, Uncommitted, store

(* A rollback gives the lock back.                                           *)
LEMMA RollBackQuiet ==
  ASSUME CallsOK, NEW w \in Writers, RollBack(w)
  PROVE  /\ QuietStep(w) /\ calls'[w].pc # "write" /\ holder' = None /\ holder = w
<1>1. /\ calls[w].pc = "write" /\ calls \in [Writers -> CallState] /\ calls[w] \in CallState
      /\ holder' = None /\ holder = w
      /\ UNCHANGED <<store, version, issued, removed>>
  BY DEF RollBack, Writing, CallsOK
<1>2. CASE calls' = Retried(w)
  <2>1. /\ calls' \in [Writers -> CallState] /\ Others(w)
        /\ calls'[w].pc = "idle" \/ (calls'[w].pc = "begin" /\ SameCall(w))
    BY <1>1, <1>2, RetriedCall
  <2> QED BY <1>1, <2>1 DEF QuietStep, Uncommitted
<1>3. CASE calls[w].call.kind = "finish" /\ calls' = [calls EXCEPT ![w].pc = "reconcile"]
  <2>1. /\ calls' \in [Writers -> CallState] /\ Others(w) /\ SameCall(w)
        /\ calls'[w].pc = "reconcile"
    BY <1>1, <1>3 DEF Others, SameCall, CallState
  <2> QED BY <1>1, <1>3, <2>1 DEF QuietStep, Uncommitted
<1>4. CASE calls' = [calls EXCEPT ![w] = NoCall]
  <2>1. calls' \in [Writers -> CallState] /\ Others(w) /\ calls'[w].pc = "idle"
    BY <1>1, <1>4, NoCallType DEF Others
  <2> QED BY <1>1, <2>1 DEF QuietStep
<1> QED BY <1>2, <1>3, <1>4 DEF RollBack

(* The call ends: it is reconciled, answered or stopped.                     *)
LEMMA EndQuiet ==
  ASSUME CallsOK, LockOK, NEW w \in Writers, Reconcile(w) \/ Answer(w) \/ Stop(w)
  PROVE  /\ QuietStep(w) /\ calls'[w].pc = "idle"
         /\ holder' = IF calls[w].pc = "write" THEN None ELSE holder
<1>1. calls' = [calls EXCEPT ![w] = NoCall] /\ UNCHANGED <<store, version, issued, removed>>
  BY DEF Reconcile, Answer, Stop
<1>2. calls' \in [Writers -> CallState] /\ Others(w) /\ calls'[w].pc = "idle"
  BY <1>1, NoCallType DEF Others, CallsOK
<1>3. holder' = IF calls[w].pc = "write" THEN None ELSE holder
  BY DEF Reconcile, Answer, Stop, CallsOK, LockOK, At
<1> QED BY <1>1, <1>2, <1>3 DEF QuietStep

(* Such a step keeps the lock with whoever is writing.                       *)
LEMMA QuietCalls ==
  ASSUME CallsOK, NEW w \in Writers, QuietStep(w),
         holder' \in Writers \cup {None}, calls'[w].pc = "write" => holder' = w,
         \A v \in Writers \ {w} : holder = v => holder' = v
  PROVE  CallsOK'
<1>1. /\ calls' \in [Writers -> CallState] /\ version' = version /\ issued' = issued
      /\ \A v \in Writers \ {w} : calls'[v] = calls[v]
  BY DEF QuietStep, Others
<1>2. calls'[w].pc # "idle" => calls'[w].call \in Calls /\ calls'[w].ev \in 1..issued
  BY DEF QuietStep, Uncommitted, SameCall, CallsOK
<1>3. calls'[w].pc = "reconcile" => calls'[w].call.kind = "finish"
  BY DEF QuietStep, SameCall
<1> QED BY <1>1, <1>2, <1>3 DEF CallsOK

(* The lock of a step that saves.                                            *)
LEMMA SavingLock ==
  ASSUME LockOK, NEW w \in Writers, At(w, "idle"), opening' = opening, Others(w),
         calls'[w].pc = "write" <=> holder' = w,
         \A v \in Writers \ {w} : holder' = v <=> holder = v
  PROVE  LockOK'
BY DEF LockOK, At, Others

(* A process with a call holds the lock when it writes, and no other.        *)
LEMMA LockOfCall ==
  ASSUME CallsOK, LockOK, NEW w \in Writers, calls[w].pc # "idle"
  PROVE  At(w, "idle") /\ (calls[w].pc = "write" <=> holder = w)
BY DEF CallsOK, LockOK, At

(* It leaves the books as they are.                                          *)
LEMMA QuietBooks ==
  ASSUME CallsOK, FreshOK, SnapshotOK, LedgerOK, CommittedOK, SessionOK, ReceiptsOK,
         NEW w \in Writers, QuietStep(w)
  PROVE  /\ FreshOK' /\ SnapshotOK' /\ LedgerOK' /\ CommittedOK' /\ SessionOK' /\ ReceiptsOK'
<1>1. /\ rows' = rows /\ ledger' = ledger /\ attempts' = attempts /\ session' = session
      /\ version' = version /\ issued' = issued /\ removed' = removed
      /\ \A v \in Writers \ {w} : calls'[v] = calls[v]
  BY DEF QuietStep, Others, store
<1>2. Recorded' = Recorded
  BY <1>1 DEF Recorded
<1>3. calls'[w].pc # "idle" => Uncommitted(w) /\ SameCall(w) /\ calls'[w].pc # "committed"
  BY DEF QuietStep
<1>4. FreshOK'
  <2>1. \A v \in Writers : calls'[v].pc # "idle" => calls[v].pc # "idle" /\ calls'[v].ev = calls[v].ev
    BY <1>1, <1>3 DEF SameCall, Uncommitted
  <2>2. \A v \in Writers : Uncommitted(v)' => Uncommitted(v) /\ calls'[v].ev = calls[v].ev
    BY <1>1, <1>3 DEF Uncommitted, SameCall
  <2> QED BY <1>1, <1>2, <2>1, <2>2 DEF FreshOK
<1>5. SnapshotOK'
  <2>0. \A v \in Writers :
          /\ findHookDeliveryByFingerprint(calls[v].call)' = findHookDeliveryByFingerprint(calls'[v].call)
          /\ findAcceptedHookDelivery(calls[v].call)' = findAcceptedHookDelivery(calls'[v].call)
    BY <1>1, Zenon DEF findHookDeliveryByFingerprint, findAcceptedHookDelivery
  <2>1. \A v \in Writers \ {w} :
          /\ calls'[v].pc = "read" => calls'[v].snapshot <= version'
          /\ (calls'[v].pc = "write" \/ (calls'[v].pc = "read" /\ calls'[v].snapshot = version')) =>
               /\ calls'[v].found = findHookDeliveryByFingerprint(calls'[v].call)
               /\ calls'[v].accepted = findAcceptedHookDelivery(calls'[v].call)
    BY <1>1 DEF SnapshotOK
  <2>2. calls'[w].pc \in {"read", "write"} =>
          /\ calls'[w].snapshot <= version'
          /\ calls'[w].found = findHookDeliveryByFingerprint(calls'[w].call)
          /\ calls'[w].accepted = findAcceptedHookDelivery(calls'[w].call)
    BY <1>1 DEF QuietStep, CallsOK
  <2> QED BY <2>0, <2>1, <2>2 DEF SnapshotOK
<1>6. LedgerOK'
  BY <1>1, <1>2 DEF LedgerOK
<1>7. CommittedOK'
  BY <1>1, <1>2, <1>3 DEF CommittedOK
<1>8. SessionOK'
  BY <1>1 DEF SessionOK, IsStart, IsFinish
<1>9. ReceiptsOK'
  BY <1>1 DEF ReceiptsOK
<1> QED BY <1>4, <1>5, <1>6, <1>7, <1>8, <1>9

(* A new call proposes an id of its own.                                     *)
LEMMA CallBooks ==
  ASSUME CallsOK, FreshOK, SnapshotOK, LedgerOK, CommittedOK, SessionOK, ReceiptsOK,
         NEW w \in Writers, NEW c \in Calls, Call(w, c)
  PROVE  /\ CallsOK' /\ Others(w) /\ calls'[w].pc = "begin"
         /\ FreshOK' /\ SnapshotOK' /\ LedgerOK' /\ CommittedOK' /\ SessionOK' /\ ReceiptsOK'
<1> DEFINE n == Begun(c, issued + 1, 1)
<1>1. /\ rows' = rows /\ ledger' = ledger /\ attempts' = attempts /\ session' = session
      /\ version' = version /\ removed' = removed /\ holder' = holder
      /\ issued' = issued + 1 /\ issued < MaxEvents /\ calls[w].pc = "idle"
      /\ calls' = [calls EXCEPT ![w] = n]
  BY DEF Call, store, Begun
<1>2. issued \in Nat /\ issued + 1 \in 0..MaxEvents /\ calls \in [Writers -> CallState]
  BY <1>1, DeliveryAssumption DEF CallsOK
<1>3. n \in CallState /\ n.pc = "begin" /\ n.call = c /\ n.ev = issued + 1
  BY <1>2, BeginCall
<1> HIDE DEF n
<1>4. /\ calls' \in [Writers -> CallState] /\ calls'[w] = n
      /\ \A v \in Writers \ {w} : calls'[v] = calls[v]
  BY <1>1, <1>2, <1>3
<1>5. Recorded' = Recorded
  BY <1>1 DEF Recorded
<1>6. CallsOK'
  BY <1>1, <1>2, <1>3, <1>4 DEF CallsOK
<1>7. FreshOK'
  <2>1. Recorded \subseteq 1..issued /\ \A k \in DOMAIN attempts : k[2] \in 1..issued
    BY DEF FreshOK
  <2>2. \A v \in Writers \ {w} : calls[v].pc # "idle" => calls[v].ev \in 1..issued
    BY DEF CallsOK
  <2>3. \A v \in Writers : Uncommitted(v)' =>
          calls'[v].ev \notin Recorded /\ \A k \in DOMAIN attempts : k[2] # calls'[v].ev
    BY <1>2, <1>3, <1>4, <2>1 DEF FreshOK, Uncommitted
  <2>4. \A u, v \in Writers :
          u # v /\ calls'[u].pc # "idle" /\ calls'[v].pc # "idle" => calls'[u].ev # calls'[v].ev
    BY <1>2, <1>3, <1>4, <2>2 DEF FreshOK
  <2> QED BY <1>1, <1>2, <1>5, <2>1, <2>3, <2>4 DEF FreshOK
<1>8. SnapshotOK'
  <2>1. \A v \in Writers :
          /\ findHookDeliveryByFingerprint(calls[v].call)' = findHookDeliveryByFingerprint(calls'[v].call)
          /\ findAcceptedHookDelivery(calls[v].call)' = findAcceptedHookDelivery(calls'[v].call)
    <3>1. ledger' = ledger
      BY <1>1
    <3> QED BY <3>1, Zenon DEF findHookDeliveryByFingerprint, findAcceptedHookDelivery
  <2>2. \A v \in Writers :
          /\ calls'[v].pc = "read" => calls'[v].snapshot <= version'
          /\ (calls'[v].pc = "write" \/ (calls'[v].pc = "read" /\ calls'[v].snapshot = version')) =>
               /\ calls'[v].found = findHookDeliveryByFingerprint(calls'[v].call)
               /\ calls'[v].accepted = findAcceptedHookDelivery(calls'[v].call)
    BY <1>1, <1>3, <1>4 DEF SnapshotOK
  <2> QED BY <2>1, <2>2 DEF SnapshotOK
<1>9. LedgerOK' /\ CommittedOK'
  BY <1>1, <1>3, <1>4, <1>5 DEF LedgerOK, CommittedOK
<1>10. SessionOK' /\ ReceiptsOK'
  BY <1>1 DEF SessionOK, IsStart, IsFinish, ReceiptsOK
<1> QED BY <1>3, <1>4, <1>6, <1>7, <1>8, <1>9, <1>10 DEF Others

-----------------------------------------------------------------------------
(* Steps that write the tables.                                              *)

(* A transaction that commits: its process held the lock, and nobody's       *)
(* snapshot is the newest any more.                                          *)
CommitStep(w) ==
  /\ calls[w].pc = "write" /\ holder = w /\ holder' = None
  /\ version' = version + 1 /\ issued' = issued /\ removed' = removed
  /\ calls' \in [Writers -> CallState] /\ Others(w) /\ SameCall(w) /\ calls'[w].pc = "committed"

(* What every commit does to the call and the version.                       *)
LEMMA CommittedStep ==
  ASSUME CallsOK, NEW w \in Writers, NEW e \in EventIDs, NEW head \in Seq(EventIDs) \cup {None},
         Writing(w), Committed(w, e, head), issued' = issued, removed' = removed
  PROVE  CommitStep(w) /\ calls'[w].event = e /\ calls'[w].head = head
<1>1. /\ calls \in [Writers -> CallState] /\ calls[w] \in CallState /\ holder = w
      /\ calls[w].pc = "write" /\ holder' = None /\ e \in 0..MaxEvents
  BY DEF CallsOK, Writing, EventIDs
<1>2. /\ calls' = [calls EXCEPT ![w].pc = "committed", ![w].event = e, ![w].head = head]
      /\ version' = version + 1
  BY DEF Committed
<1>3. calls'[w] = [calls[w] EXCEPT !.pc = "committed", !.event = e, !.head = head] /\ Others(w)
  BY <1>1, <1>2 DEF Others
<1>4. /\ calls'[w] \in CallState /\ calls'[w].pc = "committed" /\ SameCall(w)
      /\ calls'[w].event = e /\ calls'[w].head = head
  BY <1>1, <1>3 DEF CallState, SameCall
<1>5. calls' \in [Writers -> CallState]
  BY <1>1, <1>2, <1>4
<1> QED BY <1>1, <1>2, <1>3, <1>4, <1>5 DEF CommitStep

(* A commit keeps the type of the calls.                                     *)
LEMMA CommitCalls ==
  ASSUME CallsOK, NEW w \in Writers, CommitStep(w)
  PROVE  CallsOK'
<1>1. \A v \in Writers \ {w} : calls'[v] = calls[v]
  BY DEF CommitStep, Others
<1>2. None \notin Writers /\ version' \in Nat /\ issued' \in 0..MaxEvents
  BY NoneAssumption DEF CallsOK, CommitStep
<1>3. \A v \in Writers : calls'[v].pc = "write" => holder' = v
  BY <1>1, <1>2 DEF CommitStep, CallsOK
<1>4. \A v \in Writers : calls'[v].pc # "idle" => calls'[v].call \in Calls /\ calls'[v].ev \in 1..issued'
  BY <1>1 DEF CommitStep, SameCall, CallsOK
<1>5. \A v \in Writers : calls'[v].pc = "reconcile" => calls'[v].call.kind = "finish"
  BY <1>1 DEF CommitStep, CallsOK
<1> QED BY <1>2, <1>3, <1>4, <1>5 DEF CallsOK, CommitStep

(* No snapshot is current after a commit.                                    *)
LEMMA StaleSnapshots ==
  ASSUME CallsOK, SnapshotOK, version' = version + 1,
         \A v \in Writers : calls'[v].pc = "read" => calls'[v] = calls[v],
         \A v \in Writers : calls'[v].pc # "write"
  PROVE  SnapshotOK'
<1>1. \A v \in Writers : calls'[v].pc = "read" =>
        calls'[v].snapshot <= version /\ calls'[v].snapshot \in Nat
  BY DEF SnapshotOK, CallsOK, CallState
<1>2. \A v \in Writers : calls'[v].pc = "read" =>
        calls'[v].snapshot <= version' /\ calls'[v].snapshot # version'
  BY <1>1 DEF CallsOK
<1> QED BY <1>2 DEF SnapshotOK

(* A commit leaves every other snapshot behind the version.                  *)
LEMMA CommitSnapshots ==
  ASSUME CallsOK, SnapshotOK, NEW w \in Writers, CommitStep(w)
  PROVE  SnapshotOK'
<1>1. \A v \in Writers \ {w} : calls'[v] = calls[v] /\ calls[v].pc # "write"
  BY DEF CommitStep, Others, CallsOK
<1> QED BY <1>1, StaleSnapshots DEF CommitStep

(* What a transaction read is true when it writes.                           *)
LEMMA ReadsHold ==
  ASSUME CallsOK, SnapshotOK, LedgerOK, NEW w \in Writers, calls[w].pc = "write"
  PROVE  LET c == calls[w].call
             rec == DeliveryRecordID(c)
         IN  /\ c \in Calls /\ calls[w].ev \in EventIDs
             /\ calls[w].found # None => /\ c.id # None /\ rec \in DOMAIN ledger
                                         /\ calls[w].found = ledger[rec]
             /\ calls[w].found = None => rec \notin DOMAIN ledger
             /\ calls[w].accepted <=> findAcceptedHookDelivery(c)
<1> DEFINE c == calls[w].call
           rec == DeliveryRecordID(c)
<1>1. c \in Calls /\ calls[w].ev \in EventIDs
  BY DeliveryAssumption DEF CallsOK, EventIDs
<1>2. calls[w].found = (IF rec \in DOMAIN ledger THEN ledger[rec] ELSE None)
  BY DEF SnapshotOK, findHookDeliveryByFingerprint
<1>3. rec \in DOMAIN ledger => ledger[rec] # None /\ c.id # None
  <2>1. None \notin Receipt
    BY NoneAssumption DEF Receipt
  <2>2. None \notin Deliveries
    BY DEF Deliveries
  <2> QED BY <1>1, <2>1, <2>2, RecordID DEF LedgerOK
<1>4. calls[w].accepted <=> findAcceptedHookDelivery(c)
  BY DEF SnapshotOK
<1> HIDE DEF rec
<1>5. /\ calls[w].found # None => c.id # None /\ rec \in DOMAIN ledger /\ calls[w].found = ledger[rec]
      /\ calls[w].found = None => rec \notin DOMAIN ledger
  BY <1>2, <1>3
<1> QED BY <1>1, <1>4, <1>5 DEF rec

(* The ways a transaction treats its receipt: none, because the call has no  *)
(* delivery; the one that is there, with one more attempt; or a new one.     *)
Attempt(w) == <<DeliveryRecordID(calls[w].call), calls[w].ev>>
NoReceipt(w) == calls[w].call.id = None /\ ledger' = ledger /\ attempts' = attempts
OldReceipt(w) ==
  /\ DeliveryRecordID(calls[w].call) \in DOMAIN ledger /\ ledger' = ledger
  /\ attempts' = With(attempts, Attempt(w), "exact_redelivery")
NewReceipt(w, e) ==
  /\ calls[w].call.id # None /\ DeliveryRecordID(calls[w].call) \notin DOMAIN ledger
  /\ Status(w) = "accepted" <=> ~findAcceptedHookDelivery(calls[w].call)
  /\ ledger' = With(ledger, DeliveryRecordID(calls[w].call), [status |-> Status(w), event |-> e])
  /\ attempts' = With(attempts, Attempt(w), Status(w))

(* A new delivery is accepted or in conflict.                                *)
LEMMA StatusType == \A w : Status(w) \in {"accepted", "conflict"}
BY DEF Status

(* A call that has not committed has not been attempted.                     *)
LEMMA AttemptNew ==
  ASSUME FreshOK, NEW w \in Writers, calls[w].pc = "write"
  PROVE  Attempt(w) \notin DOMAIN attempts
<1>1. \A k \in DOMAIN attempts : k[2] # calls[w].ev
  BY DEF FreshOK, Uncommitted
<1>2. Attempt(w)[2] = calls[w].ev
  BY DEF Attempt
<1> QED BY <1>1, <1>2

(* A redelivery adds an attempt and no ledger row.                           *)
LEMMA RedeliveredReceipt ==
  ASSUME CallsOK, FreshOK, LedgerOK, ReceiptsOK, NEW w \in Writers, calls[w].pc = "write",
         OldReceipt(w)
  PROVE  ReceiptsOK'
<1> DEFINE k0 == Attempt(w)
           rec == DeliveryRecordID(calls[w].call)
<1>1. /\ DOMAIN attempts' = DOMAIN attempts \cup {k0} /\ attempts'[k0] = "exact_redelivery"
      /\ \A x \in DOMAIN attempts : attempts'[x] = attempts[x]
  BY AttemptNew DEF OldReceipt, With
<1>2. k0[1] = rec /\ rec \in DOMAIN ledger /\ ledger' = ledger /\ k0 \notin DOMAIN attempts
  BY AttemptNew DEF Attempt, OldReceipt
<1>3. \A r \in DOMAIN ledger : ledger[r].status \in {"accepted", "conflict"}
  BY DEF LedgerOK, Receipt
<1> HIDE DEF k0, rec
<1>4. \A r \in DOMAIN ledger : \E k \in DOMAIN attempts' : k[1] = r /\ attempts'[k] = ledger[r].status
  <2>1. \A r \in DOMAIN ledger : \E k \in DOMAIN attempts : k[1] = r /\ attempts[k] = ledger[r].status
    BY DEF ReceiptsOK
  <2> QED BY <1>1, <2>1
<1>5. \A k, l \in DOMAIN attempts' :
        k[1] = l[1] /\ attempts'[k] = ledger[k[1]].status /\ attempts'[l] = ledger[k[1]].status => k = l
  <2> TAKE k, l \in DOMAIN attempts'
  <2> HAVE k[1] = l[1] /\ attempts'[k] = ledger[k[1]].status /\ attempts'[l] = ledger[k[1]].status
  <2>1. k[1] \in DOMAIN ledger
    BY <1>1, <1>2 DEF ReceiptsOK
  <2>2. k # k0 /\ l # k0
    BY <1>1, <1>3, <2>1
  <2> QED BY <1>1, <2>2 DEF ReceiptsOK
<1>6. \A k \in DOMAIN attempts' :
        k[1] \in DOMAIN ledger /\ attempts'[k] \in {ledger[k[1]].status, "exact_redelivery"}
  BY <1>1, <1>2 DEF ReceiptsOK
<1>7. /\ \A r \in DOMAIN ledger : \E s \in DOMAIN ledger : s[1] = r[1] /\ ledger[s].status = "accepted"
      /\ \A r, s \in DOMAIN ledger :
           r[1] = s[1] /\ ledger[r].status = "accepted" /\ ledger[s].status = "accepted" => r = s
  BY DEF ReceiptsOK
<1> QED BY <1>2, <1>4, <1>5, <1>6, <1>7 DEF ReceiptsOK

(* A new delivery adds both.                                                 *)
LEMMA EnteredReceipt ==
  ASSUME CallsOK, FreshOK, LedgerOK, ReceiptsOK, NEW w \in Writers, calls[w].pc = "write",
         NEW e \in EventIDs, NewReceipt(w, e)
  PROVE  ReceiptsOK'
<1> DEFINE k0 == Attempt(w)
           rec == DeliveryRecordID(calls[w].call)
           st == Status(w)
<1>0. calls[w].call \in Calls /\ st \in {"accepted", "conflict"}
  BY StatusType DEF CallsOK
<1>1. /\ DOMAIN attempts' = DOMAIN attempts \cup {k0} /\ attempts'[k0] = st
      /\ \A x \in DOMAIN attempts : attempts'[x] = attempts[x]
  BY AttemptNew DEF NewReceipt, With
<1>2. /\ rec \notin DOMAIN ledger /\ DOMAIN ledger' = DOMAIN ledger \cup {rec}
      /\ ledger'[rec] = [status |-> st, event |-> e]
      /\ \A x \in DOMAIN ledger : ledger'[x] = ledger[x]
  BY DEF NewReceipt, With
<1>3. k0[1] = rec /\ k0 \notin DOMAIN attempts /\ rec[1] = calls[w].call.id /\ ledger'[rec].status = st
  BY <1>0, <1>2, AttemptNew, RecordID DEF Attempt, NewReceipt
<1>4. st = "accepted" <=> ~\E r \in DOMAIN ledger : r[1] = rec[1] /\ ledger[r].status = "accepted"
  BY <1>3 DEF NewReceipt, findAcceptedHookDelivery
<1>5. \A k \in DOMAIN attempts : k[1] \in DOMAIN ledger /\ k[1] # rec
  BY <1>2 DEF ReceiptsOK
<1> HIDE DEF k0, rec, st
<1>6. \A r \in DOMAIN ledger' : \E s \in DOMAIN ledger' : s[1] = r[1] /\ ledger'[s].status = "accepted"
  BY <1>0, <1>2, <1>3, <1>4 DEF ReceiptsOK
<1>7. \A r, s \in DOMAIN ledger' :
        r[1] = s[1] /\ ledger'[r].status = "accepted" /\ ledger'[s].status = "accepted" => r = s
  BY <1>2, <1>3, <1>4 DEF ReceiptsOK
<1>8. \A r \in DOMAIN ledger' : \E k \in DOMAIN attempts' : k[1] = r /\ attempts'[k] = ledger'[r].status
  <2>1. \A r \in DOMAIN ledger : \E k \in DOMAIN attempts : k[1] = r /\ attempts[k] = ledger[r].status
    BY DEF ReceiptsOK
  <2> QED BY <1>1, <1>2, <1>3, <2>1
<1>9. \A k, l \in DOMAIN attempts' :
        k[1] = l[1] /\ attempts'[k] = ledger'[k[1]].status /\ attempts'[l] = ledger'[k[1]].status => k = l
  BY <1>1, <1>2, <1>3, <1>5 DEF ReceiptsOK
<1>10. \A k \in DOMAIN attempts' :
         k[1] \in DOMAIN ledger' /\ attempts'[k] \in {ledger'[k[1]].status, "exact_redelivery"}
  BY <1>1, <1>2, <1>3, <1>5 DEF ReceiptsOK
<1> QED BY <1>6, <1>7, <1>8, <1>9, <1>10 DEF ReceiptsOK

(* Receipts are never changed once entered.                                  *)
LedgerGrows ==
  DOMAIN ledger \subseteq DOMAIN ledger' /\ \A r \in DOMAIN ledger : ledger'[r] = ledger[r]

(* A transaction that treats its receipt as it should, bound to e.           *)
Received(w, e) ==
  \/ NoReceipt(w)
  \/ OldReceipt(w) /\ calls[w].call.id # None /\ ledger[DeliveryRecordID(calls[w].call)].event = e
  \/ NewReceipt(w, e)

(* Either way the receipts add up and the ledger only grows.                 *)
LEMMA ReceivedLedger ==
  ASSUME CallsOK, FreshOK, LedgerOK, ReceiptsOK, NEW w \in Writers, calls[w].pc = "write",
         NEW e \in EventIDs, Received(w, e)
  PROVE  /\ ReceiptsOK' /\ LedgerGrows
         /\ DOMAIN attempts' \subseteq DOMAIN attempts \cup {Attempt(w)}
         /\ DOMAIN ledger' \subseteq DOMAIN ledger \cup {DeliveryRecordID(calls[w].call)}
         /\ calls[w].call.id # None =>
              /\ DeliveryRecordID(calls[w].call) \in DOMAIN ledger'
              /\ ledger'[DeliveryRecordID(calls[w].call)].event = e
         /\ \A r \in DOMAIN ledger' \ DOMAIN ledger :
              calls[w].call.id # None /\ r \in Deliveries /\ ledger'[r] \in Receipt /\ ledger'[r].event = e
<1>1. CASE NoReceipt(w)
  BY <1>1 DEF NoReceipt, ReceiptsOK, LedgerGrows
<1>2. CASE OldReceipt(w) /\ calls[w].call.id # None /\ ledger[DeliveryRecordID(calls[w].call)].event = e
  <2>1. ReceiptsOK'
    BY <1>2, RedeliveredReceipt
  <2> QED BY <1>2, <2>1 DEF OldReceipt, LedgerGrows, With
<1>3. CASE NewReceipt(w, e)
  <2>1. ReceiptsOK'
    BY <1>3, EnteredReceipt
  <2>2. /\ calls[w].call \in Calls /\ Status(w) \in {"accepted", "conflict"}
        /\ calls[w].call.id # None /\ DeliveryRecordID(calls[w].call) \in Deliveries
    BY <1>3, RecordID, StatusType DEF CallsOK, NewReceipt
  <2> DEFINE rec == DeliveryRecordID(calls[w].call)
             st == Status(w)
  <2>3. /\ rec \notin DOMAIN ledger /\ DOMAIN ledger' = DOMAIN ledger \cup {rec}
        /\ ledger'[rec] = [status |-> st, event |-> e]
        /\ \A x \in DOMAIN ledger : ledger'[x] = ledger[x]
    BY <1>3 DEF NewReceipt, With
  <2>4. DOMAIN attempts' \subseteq DOMAIN attempts \cup {Attempt(w)}
    BY <1>3 DEF NewReceipt, With
  <2>5. [status |-> st, event |-> e] \in Receipt /\ [status |-> st, event |-> e].event = e
    BY <2>2 DEF Receipt
  <2> HIDE DEF rec, st
  <2>6. /\ LedgerGrows /\ rec \in DOMAIN ledger' /\ ledger'[rec].event = e
        /\ \A r \in DOMAIN ledger' \ DOMAIN ledger : r = rec
    BY <2>3, <2>5 DEF LedgerGrows
  <2> QED BY <2>1, <2>2, <2>3, <2>4, <2>5, <2>6 DEF rec
<1> QED BY <1>1, <1>2, <1>3 DEF Received

(* The id of a call that commits was its own.                                *)
LEMMA CommitFresh ==
  ASSUME CallsOK, FreshOK, NEW w \in Writers, CommitStep(w),
         DOMAIN attempts' \subseteq DOMAIN attempts \cup {Attempt(w)},
         Recorded' \subseteq Recorded \cup {calls[w].ev}
  PROVE  FreshOK'
<1>1. calls[w].ev \in 1..issued /\ issued' = issued /\ calls[w].pc = "write"
  BY DEF CallsOK, CommitStep
<1>2. Attempt(w)[2] = calls[w].ev
  BY DEF Attempt
<1>3. Recorded' \subseteq 1..issued /\ \A k \in DOMAIN attempts' : k[2] \in 1..issued
  BY <1>1, <1>2 DEF FreshOK
<1>4. \A v \in Writers \ {w} : calls'[v] = calls[v]
  BY DEF CommitStep, Others
<1>5. calls'[w].ev = calls[w].ev /\ calls'[w].pc = "committed"
  BY DEF CommitStep, SameCall
<1>6. \A v \in Writers : Uncommitted(v)' => v # w /\ Uncommitted(v) /\ calls'[v].ev = calls[v].ev
  BY <1>4, <1>5 DEF Uncommitted
<1>7. \A v \in Writers : Uncommitted(v)' =>
        calls'[v].ev \notin Recorded' /\ \A k \in DOMAIN attempts' : k[2] # calls'[v].ev
  <2> TAKE v \in Writers
  <2> HAVE Uncommitted(v)'
  <2>1. v # w /\ Uncommitted(v) /\ calls'[v].ev = calls[v].ev
    BY <1>6
  <2>2. calls[v].ev # calls[w].ev
    BY <1>1, <2>1 DEF FreshOK, Uncommitted
  <2>3. calls[v].ev \notin Recorded /\ \A k \in DOMAIN attempts : k[2] # calls[v].ev
    BY <2>1 DEF FreshOK
  <2> QED BY <1>2, <2>1, <2>2, <2>3
<1>8. \A u, v \in Writers :
        u # v /\ calls'[u].pc # "idle" /\ calls'[v].pc # "idle" => calls'[u].ev # calls'[v].ev
  <2>1. \A v \in Writers : calls'[v].pc # "idle" => calls[v].pc # "idle" /\ calls'[v].ev = calls[v].ev
    BY <1>1, <1>4, <1>5
  <2> QED BY <2>1 DEF FreshOK
<1> QED BY <1>1, <1>3, <1>7, <1>8 DEF FreshOK

(* What the other calls will answer stays true.                              *)
LEMMA CommitAnswers ==
  ASSUME CallsOK, LedgerOK, CommittedOK, NEW w \in Writers, CommitStep(w), LedgerGrows,
         Recorded \subseteq Recorded',
         session.ended # None => session'.ended = session.ended,
         calls'[w].event \in Recorded',
         calls[w].call.id # None =>
           /\ DeliveryRecordID(calls[w].call) \in DOMAIN ledger'
           /\ ledger'[DeliveryRecordID(calls[w].call)].event = calls'[w].event,
         calls[w].call.kind = "finish" => session'.ended = calls[w].call.reason
  PROVE  CommittedOK'
<1> SUFFICES ASSUME NEW v \in Writers, calls'[v].pc = "committed"
             PROVE  /\ calls'[v].event \in Recorded'
                    /\ calls'[v].call.id # None =>
                         /\ DeliveryRecordID(calls'[v].call) \in DOMAIN ledger'
                         /\ ledger'[DeliveryRecordID(calls'[v].call)].event = calls'[v].event
                    /\ calls'[v].call.kind = "finish" => session'.ended = calls'[v].call.reason
  BY DEF CommittedOK, DeliveryRecordID
<1>1. CASE v = w
  BY <1>1 DEF CommitStep, SameCall
<1>2. CASE v # w
  <2>1. calls'[v] = calls[v]
    BY <1>2 DEF CommitStep, Others
  <2>2. /\ calls[v].event \in Recorded
        /\ calls[v].call.id # None =>
             /\ DeliveryRecordID(calls[v].call) \in DOMAIN ledger
             /\ ledger[DeliveryRecordID(calls[v].call)].event = calls[v].event
        /\ calls[v].call.kind = "finish" => session.ended = calls[v].call.reason
    BY <2>1 DEF CommittedOK
  <2>3. calls[v].call \in Calls
    BY <2>1 DEF CallsOK
  <2>4. calls[v].call.kind = "finish" => session'.ended = calls[v].call.reason
    BY <2>2, <2>3, NoneAssumption
  <2> QED BY <2>1, <2>2, <2>4 DEF LedgerGrows
<1> QED BY <1>1, <1>2

(* The session has at most one start, the one a registration is answered     *)
(* with.                                                                     *)
LEMMA TheStart ==
  ASSUME LedgerOK, SessionOK, NEW ws, Starts(ws) # {}
  PROVE  /\ Min(Starts(ws)) \in DOMAIN rows /\ IsStart(Min(Starts(ws))) /\ Min(Starts(ws)) \in EventIDs
         /\ \A e \in DOMAIN rows : IsStart(e) => e = Min(Starts(ws))
<1>1. PICK e \in DOMAIN rows : IsStart(e) /\ e \in Starts(ws)
  BY DEF Starts, IsStart
<1>2. \A f \in Starts(ws) : f = e
  BY <1>1 DEF Starts, IsStart, SessionOK
<1>3. e \in EventIDs /\ e <= e
  BY <1>1, DeliveryAssumption DEF LedgerOK, EventIDs
<1>4. Min(Starts(ws)) = e
  BY <1>1, <1>2, <1>3 DEF Min
<1> QED BY <1>1, <1>3, <1>4 DEF SessionOK

(* The calls that share an identity share their kind and reason.             *)
LEMMA SameDelivery ==
  ASSUME NEW c \in Calls, NEW d \in Calls, c.id # None, DeliveryRecordID(c) = DeliveryRecordID(d)
  PROVE  d.id # None /\ d.kind = c.kind /\ d.reason = c.reason
<1>1. d.id # None
  BY RecordID
<1>2. c.id = d.id /\ c.fp = d.fp
  BY <1>1, RecordID
<1> QED BY <1>1, <1>2, DeliveryAssumption

(* An exact redelivery.                                                      *)
LEMMA RedeliverBooks ==
  ASSUME CallsOK, FreshOK, SnapshotOK, LedgerOK, CommittedOK, SessionOK, ReceiptsOK,
         NEW w \in Writers, Redeliver(w)
  PROVE  /\ CallsOK' /\ FreshOK' /\ SnapshotOK' /\ LedgerOK' /\ CommittedOK' /\ SessionOK' /\ ReceiptsOK'
         /\ CommitStep(w) /\ calls'[w].head = None /\ UNCHANGED <<rows, ledger, chain, session>>
<1> DEFINE c == calls[w].call
           rec == DeliveryRecordID(c)
           e == calls[w].found.event
<1>1. /\ Writing(w) /\ calls[w].pc = "write" /\ calls[w].found # None /\ ~RefusedBy(c, TRUE)
      /\ insertHookDeliveryAttempt(c, calls[w].ev, "exact_redelivery")
      /\ Committed(w, e, None)
      /\ UNCHANGED <<rows, ledger, chain, session, issued, removed>>
  BY DEF Redeliver, Writing
<1>2. c \in Calls /\ c.id # None /\ rec \in DOMAIN ledger /\ calls[w].found = ledger[rec]
  BY <1>1, ReadsHold
<1>3. e \in EventIDs /\ e \in Recorded
  BY <1>2 DEF LedgerOK, Receipt
<1>4. CommitStep(w) /\ calls'[w].event = e /\ calls'[w].head = None
  BY <1>1, <1>3, CommittedStep
<1>5. Received(w, e)
  <2>1. attempts' = With(attempts, Attempt(w), "exact_redelivery")
    BY <1>1, <1>2, AttemptNew DEF insertHookDeliveryAttempt, Attempt
  <2> QED BY <1>1, <1>2, <2>1 DEF Received, OldReceipt
<1>6. /\ ReceiptsOK' /\ LedgerGrows /\ DOMAIN attempts' \subseteq DOMAIN attempts \cup {Attempt(w)}
  BY <1>1, <1>3, <1>5, ReceivedLedger
<1>7. Recorded' = Recorded
  BY <1>1 DEF Recorded
<1>8. CallsOK' /\ FreshOK' /\ SnapshotOK'
  BY <1>4, <1>6, <1>7, CommitCalls, CommitFresh, CommitSnapshots
<1>9. LedgerOK' /\ SessionOK'
  BY <1>1, <1>7 DEF LedgerOK, SessionOK, IsStart, IsFinish
<1>10. CommittedOK'
  <2>1. c.kind = "finish" => session.ended = c.reason
    BY <1>2 DEF SessionOK
  <2> HIDE DEF c, rec, e
  <2>2. ledger'[rec].event = e /\ rec \in DOMAIN ledger'
    BY <1>1, <1>2 DEF e
  <2> QED BY <1>1, <1>3, <1>4, <1>6, <1>7, <2>1, <2>2, CommitAnswers DEF c, rec
<1> QED BY <1>1, <1>4, <1>6, <1>8, <1>9, <1>10

(* A repeated registration.                                                  *)
LEMMA ReregisterBooks ==
  ASSUME CallsOK, FreshOK, SnapshotOK, LedgerOK, CommittedOK, SessionOK, ReceiptsOK,
         NEW w \in Writers, Reregister(w)
  PROVE  /\ CallsOK' /\ FreshOK' /\ SnapshotOK' /\ LedgerOK' /\ CommittedOK' /\ SessionOK' /\ ReceiptsOK'
         /\ CommitStep(w) /\ calls'[w].head = None /\ UNCHANGED <<rows, chain, session>>
         /\ \/ ledger' = ledger
            \/ \E e \in EventIDs \cap Recorded : NewReceipt(w, e)
<1> DEFINE c == calls[w].call
           rec == DeliveryRecordID(c)
           e == Min(Starts(c.ws))
<1>1. /\ Writing(w) /\ calls[w].pc = "write" /\ Registered(c) /\ c.kind = "start" /\ Starts(c.ws) # {}
      /\ Committed(w, e, None)
      /\ UNCHANGED <<rows, chain, session, issued, removed>>
  BY DEF Reregister, Writing, Registered
<1>2. /\ c \in Calls
      /\ calls[w].found # None => c.id # None /\ rec \in DOMAIN ledger /\ calls[w].found = ledger[rec]
      /\ calls[w].found = None => rec \notin DOMAIN ledger
      /\ calls[w].accepted <=> findAcceptedHookDelivery(c)
  BY <1>1, ReadsHold
<1>3. /\ e \in DOMAIN rows /\ IsStart(e) /\ e \in EventIDs /\ e \in Recorded
      /\ \A f \in DOMAIN rows : IsStart(f) => f = e
  BY <1>1, TheStart DEF Recorded
<1>4. CommitStep(w) /\ calls'[w].event = e /\ calls'[w].head = None
  BY <1>1, <1>3, CommittedStep
<1>5. Received(w, e) /\ (ledger' = ledger \/ NewReceipt(w, e))
  <2>0. Attempt(w) \notin DOMAIN attempts /\ Attempt(w) = <<rec, calls[w].ev>>
    BY <1>1, AttemptNew DEF Attempt
  <2>1. CASE calls[w].found # None
    <3>1. ledger' = ledger /\ attempts' = With(attempts, Attempt(w), "exact_redelivery")
      BY <1>2, <2>0, <2>1 DEF Reregister, insertHookDeliveryAttempt
    <3>2. ledger[rec].event \in DOMAIN rows /\ IsStart(ledger[rec].event)
      BY <1>1, <1>2, <2>1 DEF SessionOK
    <3>3. ledger[rec].event = e
      BY <1>3, <3>2
    <3> QED BY <1>2, <2>1, <3>1, <3>3 DEF Received, OldReceipt
  <2>2. CASE calls[w].found = None /\ c.id = None
    <3>1. ledger' = ledger /\ attempts' = attempts
      BY <2>2 DEF Reregister, insertHookDeliveryAttempt, insertHookDelivery
    <3> QED BY <2>2, <3>1 DEF Received, NoReceipt
  <2>3. CASE calls[w].found = None /\ c.id # None
    <3>1. /\ ledger' = With(ledger, rec, [status |-> Status(w), event |-> e])
          /\ attempts' = With(attempts, Attempt(w), Status(w))
      BY <2>0, <2>3 DEF Reregister, insertHookDeliveryAttempt, insertHookDelivery
    <3>2. Status(w) = "accepted" <=> ~findAcceptedHookDelivery(c)
      BY <1>2 DEF Status
    <3>3. NewReceipt(w, e)
      BY <1>2, <2>3, <3>1, <3>2 DEF NewReceipt
    <3> QED BY <3>3 DEF Received
  <2> QED BY <2>1, <2>2, <2>3
<1> HIDE DEF c, rec, e
<1>6. /\ ReceiptsOK' /\ LedgerGrows /\ DOMAIN attempts' \subseteq DOMAIN attempts \cup {Attempt(w)}
      /\ DOMAIN ledger' \subseteq DOMAIN ledger \cup {rec}
      /\ c.id # None => rec \in DOMAIN ledger' /\ ledger'[rec].event = e
      /\ \A r \in DOMAIN ledger' \ DOMAIN ledger :
           c.id # None /\ r \in Deliveries /\ ledger'[r] \in Receipt /\ ledger'[r].event = e
  BY <1>1, <1>3, <1>5, ReceivedLedger DEF c, rec
<1>7. Recorded' = Recorded
  BY <1>1 DEF Recorded
<1>8. CallsOK' /\ FreshOK' /\ SnapshotOK'
  BY <1>4, <1>6, <1>7, CommitCalls, CommitFresh, CommitSnapshots
<1>9. LedgerOK'
  BY <1>1, <1>3, <1>6, <1>7 DEF LedgerOK, LedgerGrows
<1>10. SessionOK'
  <2>1. \A d \in Calls : d.id # None /\ DeliveryRecordID(d) \in DOMAIN ledger' =>
          /\ d.kind = "start" => LET f == ledger'[DeliveryRecordID(d)].event
                                 IN  f \in DOMAIN rows /\ IsStart(f)
          /\ d.kind = "finish" => session.ended = d.reason
    <3> TAKE d \in Calls
    <3> HAVE d.id # None /\ DeliveryRecordID(d) \in DOMAIN ledger'
    <3>1. CASE DeliveryRecordID(d) \in DOMAIN ledger
      BY <1>6, <3>1 DEF LedgerGrows, SessionOK
    <3>2. CASE DeliveryRecordID(d) \notin DOMAIN ledger
      <4>1. DeliveryRecordID(d) = rec /\ c.id # None /\ ledger'[DeliveryRecordID(d)].event = e
        BY <1>6, <3>2
      <4>2. d.kind = "start"
        BY <1>1, <1>2, <4>1, SameDelivery DEF rec
      <4> QED BY <1>3, <4>1, <4>2
    <3> QED BY <3>1, <3>2
  <2> QED BY <1>1, <2>1 DEF SessionOK, IsStart, IsFinish
<1>11. CommittedOK'
  <2>1. calls'[w].event \in Recorded' /\ c.kind # "finish"
    BY <1>1, <1>3, <1>4, <1>7
  <2> QED BY <1>1, <1>4, <1>6, <1>7, <2>1, CommitAnswers DEF c, rec
<1> QED BY <1>1, <1>3, <1>4, <1>5, <1>6, <1>8, <1>9, <1>10, <1>11

(* The session row after a new event, and the boundaries recorded before it: *)
(* a start finds none, a finish finds none, and the end stays what it is.    *)
LEMMA BoundaryOnce ==
  ASSUME LedgerOK, SessionOK, NEW c \in Calls,
         ~RefusedBy(c, FALSE), ~Registered(c), saveSessionBoundary(c)
  PROVE  /\ session' = [mode |-> session'.mode, ws |-> session'.ws, ended |-> session'.ended]
         /\ session'.mode \in {"none", "interactive", "one_shot"}
         /\ session'.mode = "none" => session' = NoSession
         /\ c.kind \in {"start", "one_shot"} =>
              /\ \A f \in DOMAIN rows : ~IsStart(f)
              /\ session'.mode = IF c.kind = "one_shot" THEN "one_shot" ELSE "interactive"
              /\ session'.ws = c.ws
         /\ \A f \in DOMAIN rows : IsStart(f) => session'.mode = session.mode /\ session'.ws = session.ws
         /\ c.kind = "finish" => session.ended = None /\ session'.ended = c.reason
         /\ session.ended # None => session'.ended = session.ended
<1>1. /\ session = [mode |-> session.mode, ws |-> session.ws, ended |-> session.ended]
      /\ session.mode \in {"none", "interactive", "one_shot"}
      /\ session.mode = "none" => session = NoSession
      /\ session = NoSession => session.mode = "none" /\ session.ended = None
      /\ c.kind \in Kinds
  BY DeliveryAssumption DEF SessionOK, NoSession
<1>2. \A f \in DOMAIN rows : IsStart(f) => session.mode # "none" /\ session.ws = rows[f].ws
  BY DEF SessionOK
<1>3. CASE c.kind = "finish"
  <2>1. session.mode = "one_shot" /\ session.ended = None
    BY <1>3 DEF RefusedBy
  <2>2. session' = [session EXCEPT !.ended = c.reason]
    BY <1>3 DEF saveSessionBoundary
  <2> HIDE <1>1
  <2>3. session' = [mode |-> session.mode, ws |-> session.ws, ended |-> c.reason]
    BY <1>1, <2>2
  <2> QED BY <1>3, <2>1, <2>3
<1>4. CASE c.kind \in {"start", "one_shot", "end"} /\ session = NoSession
  <2>1. session' = [mode |-> IF c.kind = "one_shot" THEN "one_shot" ELSE "interactive",
                    ws |-> c.ws, ended |-> None]
    BY <1>4 DEF saveSessionBoundary, Boundary, insertSessionRowIfMissing
  <2>2. \A f \in DOMAIN rows : ~IsStart(f)
    BY <1>1, <1>2, <1>4
  <2> QED BY <1>1, <1>4, <2>1, <2>2
<1>5. CASE c.kind \in {"start", "one_shot", "end"} /\ session # NoSession
  <2>1. session' = session
    BY <1>5 DEF saveSessionBoundary, Boundary, insertSessionRowIfMissing
  <2>2. c.kind # "one_shot"
    BY <1>5 DEF RefusedBy
  <2>3. c.kind = "start" => session.mode = "interactive" /\ session.ws = c.ws /\ Starts(c.ws) = {}
    BY <1>1, <1>5 DEF RefusedBy, Registered
  <2>4. c.kind = "start" => \A f \in DOMAIN rows : ~IsStart(f)
    BY <1>2, <2>3 DEF Starts, IsStart
  <2> QED BY <1>1, <1>5, <2>1, <2>2, <2>3, <2>4
<1>6. CASE c.kind \in {"prompt", "transcript"}
  <2>1. session' = session
    BY <1>6 DEF saveSessionBoundary, Boundary
  <2> QED BY <1>1, <1>6, <2>1
<1> QED BY <1>1, <1>3, <1>4, <1>5, <1>6 DEF Kinds

(* A new event.                                                              *)
LEMMA InsertBooks ==
  ASSUME CallsOK, FreshOK, SnapshotOK, LedgerOK, CommittedOK, SessionOK, ReceiptsOK,
         NEW w \in Writers, Insert(w), chain \in Seq(EventIDs)
  PROVE  /\ CallsOK' /\ FreshOK' /\ SnapshotOK' /\ LedgerOK' /\ CommittedOK' /\ SessionOK' /\ ReceiptsOK'
         /\ CommitStep(w) /\ (NoReceipt(w) \/ NewReceipt(w, calls[w].ev))
         /\ calls[w].ev \in EventIDs \ Recorded /\ rows' = With(rows, calls[w].ev, calls[w].call)
         /\ appendAttestationLink(calls[w].call, calls[w].ev)
         /\ calls'[w].head = IF Attested(calls[w].call) THEN chain' ELSE None
         /\ session.ended # None => session'.ended = session.ended
<1> DEFINE c == calls[w].call
           rec == DeliveryRecordID(c)
           e == calls[w].ev
           head == IF Attested(c) THEN chain' ELSE None
<1>1. /\ Writing(w) /\ calls[w].pc = "write" /\ calls[w].found = None
      /\ ~RefusedBy(c, FALSE) /\ ~Registered(c)
      /\ insertHookDelivery(w, e) /\ insertHookDeliveryAttempt(c, e, Status(w))
      /\ rows' = With(rows, e, c) /\ appendAttestationLink(c, e)
      /\ saveSessionBoundary(c) /\ Committed(w, e, head)
      /\ issued' = issued /\ removed' = removed
  BY DEF Insert, Writing
<1>2. /\ c \in Calls /\ e \in EventIDs /\ rec \notin DOMAIN ledger
      /\ calls[w].accepted <=> findAcceptedHookDelivery(c)
  BY <1>1, ReadsHold
<1>3. e \notin Recorded
  BY <1>1 DEF FreshOK, Uncommitted
<1>4. CommitStep(w) /\ calls'[w].event = e /\ calls'[w].head = head
  <2>1. head \in Seq(EventIDs) \cup {None}
    BY <1>1, <1>2 DEF appendAttestationLink
  <2> HIDE DEF head
  <2> QED BY <1>1, <1>2, <2>1, CommittedStep
<1>5. NoReceipt(w) \/ NewReceipt(w, e)
  <2>0. Attempt(w) \notin DOMAIN attempts /\ Attempt(w) = <<rec, e>>
    BY <1>1, AttemptNew DEF Attempt
  <2>1. CASE c.id = None
    BY <1>1, <2>1 DEF insertHookDelivery, insertHookDeliveryAttempt, NoReceipt
  <2>2. CASE c.id # None
    <3>1. /\ ledger' = With(ledger, rec, [status |-> Status(w), event |-> e])
          /\ attempts' = With(attempts, Attempt(w), Status(w))
      BY <1>1, <2>0, <2>2 DEF insertHookDeliveryAttempt, insertHookDelivery
    <3>2. Status(w) = "accepted" <=> ~findAcceptedHookDelivery(c)
      BY <1>2 DEF Status
    <3> QED BY <1>2, <2>2, <3>1, <3>2 DEF NewReceipt
  <2> QED BY <2>1, <2>2
<1>6. /\ DOMAIN rows' = DOMAIN rows \cup {e} /\ rows'[e] = c
      /\ \A f \in DOMAIN rows : f # e /\ rows'[f] = rows[f]
  BY <1>1, <1>3 DEF With, Recorded
<1>7. Recorded' = Recorded \cup {e}
  BY <1>1, <1>6 DEF Recorded
<1>8. /\ session' = [mode |-> session'.mode, ws |-> session'.ws, ended |-> session'.ended]
      /\ session'.mode \in {"none", "interactive", "one_shot"}
      /\ session'.mode = "none" => session' = NoSession
      /\ c.kind \in {"start", "one_shot"} =>
           /\ \A f \in DOMAIN rows : ~IsStart(f)
           /\ session'.mode = IF c.kind = "one_shot" THEN "one_shot" ELSE "interactive"
           /\ session'.ws = c.ws
      /\ \A f \in DOMAIN rows : IsStart(f) => session'.mode = session.mode /\ session'.ws = session.ws
      /\ c.kind = "finish" => session.ended = None /\ session'.ended = c.reason
      /\ session.ended # None => session'.ended = session.ended
  BY <1>1, <1>2, BoundaryOnce
<1> HIDE DEF c, rec, e, head
<1>9. /\ ReceiptsOK' /\ LedgerGrows /\ DOMAIN attempts' \subseteq DOMAIN attempts \cup {Attempt(w)}
      /\ DOMAIN ledger' \subseteq DOMAIN ledger \cup {rec}
      /\ c.id # None => rec \in DOMAIN ledger' /\ ledger'[rec].event = e
      /\ \A r \in DOMAIN ledger' \ DOMAIN ledger :
           c.id # None /\ r \in Deliveries /\ ledger'[r] \in Receipt /\ ledger'[r].event = e
  BY <1>1, <1>2, <1>5, ReceivedLedger DEF c, rec, e, Received
<1>10. CallsOK' /\ FreshOK' /\ SnapshotOK'
  BY <1>4, <1>7, <1>9, CommitCalls, CommitFresh, CommitSnapshots DEF e
<1>11. LedgerOK'
  BY <1>2, <1>6, <1>7, <1>9 DEF LedgerOK, LedgerGrows
<1>12. SessionOK'
  <2>1. \A f \in DOMAIN rows' : IsStart(f)' =>
          /\ session'.mode = IF rows'[f].kind = "one_shot" THEN "one_shot" ELSE "interactive"
          /\ session'.ws = rows'[f].ws
    BY <1>6, <1>8 DEF SessionOK, IsStart
  <2>2. \A f, g \in DOMAIN rows' : IsStart(f)' /\ IsStart(g)' => f = g
    BY <1>6, <1>8 DEF SessionOK, IsStart
  <2>3. \A f \in DOMAIN rows : IsFinish(f) => session.ended = rows[f].reason /\ session.ended # None
    BY NoneAssumption DEF SessionOK, IsFinish, LedgerOK
  <2>4. \A f \in DOMAIN rows' : IsFinish(f)' => session'.ended = rows'[f].reason
    BY <1>6, <1>8, <2>3 DEF IsFinish
  <2>5. \A f, g \in DOMAIN rows' : IsFinish(f)' /\ IsFinish(g)' => f = g
    BY <1>6, <1>8, <2>3 DEF SessionOK, IsFinish
  <2>6. \A d \in Calls : d.id # None /\ DeliveryRecordID(d) \in DOMAIN ledger' =>
          /\ d.kind = "start" => LET f == ledger'[DeliveryRecordID(d)].event
                                 IN  f \in DOMAIN rows' /\ rows'[f].kind \in {"start", "one_shot"}
          /\ d.kind = "finish" => session'.ended = d.reason
    <3> TAKE d \in Calls
    <3> HAVE d.id # None /\ DeliveryRecordID(d) \in DOMAIN ledger'
    <3>1. CASE DeliveryRecordID(d) \in DOMAIN ledger
      <4>1. ledger'[DeliveryRecordID(d)] = ledger[DeliveryRecordID(d)]
        BY <1>9, <3>1 DEF LedgerGrows
      <4>2. d.kind = "start" => LET f == ledger[DeliveryRecordID(d)].event
                                IN  f \in DOMAIN rows /\ IsStart(f)
        BY <3>1 DEF SessionOK
      <4>3. d.kind = "finish" => session.ended = d.reason /\ d.reason # None
        BY <3>1, NoneAssumption DEF SessionOK
      <4> QED BY <1>6, <1>8, <4>1, <4>2, <4>3 DEF IsStart
    <3>2. CASE DeliveryRecordID(d) \notin DOMAIN ledger
      <4>1. DeliveryRecordID(d) = rec /\ c.id # None /\ ledger'[DeliveryRecordID(d)].event = e
        BY <1>9, <3>2
      <4>2. d.kind = c.kind /\ d.reason = c.reason
        BY <1>2, <4>1, SameDelivery DEF rec
      <4> QED BY <1>6, <1>8, <4>1, <4>2 DEF IsStart
    <3> QED BY <3>1, <3>2
  <2> QED BY <1>8, <2>1, <2>2, <2>4, <2>5, <2>6 DEF SessionOK, IsStart, IsFinish
<1>13. CommittedOK'
  <2>1. calls'[w].event \in Recorded' /\ (c.kind = "finish" => session'.ended = c.reason)
    BY <1>4, <1>7, <1>8
  <2> QED BY <1>4, <1>7, <1>8, <1>9, <2>1, CommitAnswers DEF c, rec
<1> QED BY <1>1, <1>2, <1>3, <1>4, <1>5, <1>8, <1>9, <1>10, <1>11, <1>12, <1>13 DEF c, e, head

(* A transcript is deleted: what is recorded stays recorded, and the         *)
(* boundaries stay.                                                          *)
LEMMA DeleteBooks ==
  ASSUME CallsOK, FreshOK, SnapshotOK, LedgerOK, CommittedOK, SessionOK, ReceiptsOK,
         NEW e \in EventIDs, DeleteTranscript(e)
  PROVE  /\ CallsOK' /\ FreshOK' /\ SnapshotOK' /\ LedgerOK' /\ CommittedOK' /\ SessionOK' /\ ReceiptsOK'
         /\ Recorded' = Recorded
<1>1. /\ holder = None /\ e \in DOMAIN rows /\ rows[e].kind = "transcript"
      /\ DOMAIN rows' = DOMAIN rows \ {e} /\ \A f \in DOMAIN rows \ {e} : rows'[f] = rows[f]
      /\ DOMAIN removed' = DOMAIN removed \cup {e}
      /\ version' = version + 1
      /\ UNCHANGED <<ledger, attempts, session, holder, calls, issued>>
  BY DEF DeleteTranscript, With
<1>2. Recorded' = Recorded
  BY <1>1 DEF Recorded
<1>3. CallsOK' /\ FreshOK'
  BY <1>1, <1>2 DEF CallsOK, FreshOK, Uncommitted
<1>4. SnapshotOK'
  <2>1. \A v \in Writers : calls'[v].pc # "write"
    BY <1>1, NoneAssumption DEF CallsOK
  <2> QED BY <1>1, <2>1, StaleSnapshots
<1>5. LedgerOK' /\ CommittedOK' /\ ReceiptsOK'
  BY <1>1, <1>2 DEF LedgerOK, CommittedOK, ReceiptsOK
<1>6. SessionOK'
  BY <1>1 DEF SessionOK, IsStart, IsFinish
<1> QED BY <1>2, <1>3, <1>4, <1>5, <1>6

-----------------------------------------------------------------------------
(* The books, over all steps.                                                *)

(* The books of an empty store.                                              *)
LEMMA BooksInit ==
  ASSUME DeliveryInit PROVE BooksInv
<1>1. /\ DOMAIN rows = {} /\ DOMAIN ledger = {} /\ DOMAIN attempts = {} /\ DOMAIN removed = {}
      /\ session = NoSession /\ version = 0 /\ holder = None /\ issued = 0 /\ told = {}
      /\ calls = [w \in Writers |-> NoCall]
  BY DEF DeliveryInit, Empty
<1>2. Recorded = {}
  BY <1>1 DEF Recorded
<1>3. \A w \in Writers : calls[w] \in CallState /\ calls[w].pc = "idle"
  BY <1>1, NoCallType
<1>4. CallsOK
  <2>1. calls \in [Writers -> CallState]
    BY <1>1, <1>3
  <2> QED BY <1>1, <1>3, <2>1, DeliveryAssumption, NoneAssumption DEF CallsOK
<1>5. FreshOK /\ SnapshotOK /\ LedgerOK /\ CommittedOK
  BY <1>1, <1>2, <1>3 DEF FreshOK, Uncommitted, SnapshotOK, LedgerOK, CommittedOK
<1>6. SessionOK /\ ToldOK /\ ReceiptsOK
  BY <1>1 DEF SessionOK, NoSession, ToldOK, ReceiptsOK
<1>7. LockOK
  <2>1. opening = [w \in Writers |-> NoOpening]
    BY DEF DeliveryInit
  <2> QED BY <1>1, <1>3, <2>1, NoneAssumption DEF LockOK, At, NoOpening, OpeningAt
<1> QED BY <1>4, <1>5, <1>6, <1>7 DEF BooksInv

(* A step of a call that writes no table.                                    *)
LEMMA QuietSave ==
  ASSUME BooksInv, NEW w \in Writers,
         Look(w) \/ WriteLock(w) \/ Busy(w) \/ RollBack(w) \/ Reconcile(w) \/ Answer(w) \/ Stop(w)
  PROVE  QuietStep(w) /\ BooksInv'
<1> USE DEF BooksInv
<1>1. None \notin Writers /\ holder \in Writers \cup {None}
  BY NoneAssumption DEF CallsOK
<1>0. calls[w].pc # "idle" /\ opening' = opening
  BY DEF Look, WriteLock, Busy, RollBack, Writing, Reconcile, Answer, Stop, catchUpVars
<1>8. At(w, "idle") /\ (calls[w].pc = "write" <=> holder = w)
  BY <1>0, LockOfCall
<1>2. /\ QuietStep(w)
      /\ holder' \in Writers \cup {None}
      /\ calls'[w].pc = "write" <=> holder' = w
      /\ \A v \in Writers \ {w} : holder' = v <=> holder = v
  <2>1. CASE Look(w)
    BY <1>1, <1>8, <2>1, LookQuiet
  <2>2. CASE WriteLock(w)
    BY <1>1, <2>2, WriteLockQuiet
  <2>3. CASE Busy(w)
    BY <1>1, <1>8, <2>3, BusyQuiet
  <2>4. CASE RollBack(w)
    BY <1>1, <2>4, RollBackQuiet
  <2>5. CASE Reconcile(w) \/ Answer(w) \/ Stop(w)
    BY <1>1, <1>8, <2>5, EndQuiet
  <2> QED BY <2>1, <2>2, <2>3, <2>4, <2>5
<1>3. CallsOK'
  BY <1>2, QuietCalls
<1>4. FreshOK' /\ SnapshotOK' /\ LedgerOK' /\ CommittedOK' /\ SessionOK' /\ ReceiptsOK'
  BY <1>2, QuietBooks
<1>5. ToldOK'
  <2>1. session' = session
    BY <1>2 DEF QuietStep, store
  <2>2. told' = told \/ (told' = told \cup {session.ended} /\ session.ended # None)
    <3>1. CASE Look(w) \/ WriteLock(w) \/ Busy(w) \/ RollBack(w) \/ Stop(w)
      BY <3>1 DEF Look, WriteLock, Busy, RollBack, Stop
    <3>2. CASE Reconcile(w)
      <4>1. calls[w].call.reason # None
        BY <3>2, NoneAssumption DEF Reconcile, CallsOK
      <4> QED BY <3>2, <4>1 DEF Reconcile
    <3>3. CASE Answer(w)
      <4>1. calls[w].pc = "committed" /\ calls[w].call \in Calls
        BY <3>3 DEF Answer, CallsOK
      <4>2. calls[w].call.kind = "finish" =>
              session.ended = calls[w].call.reason /\ calls[w].call.reason # None
        BY <4>1, NoneAssumption DEF CommittedOK
      <4> QED BY <3>3, <4>1, <4>2 DEF Answer
    <3> QED BY <3>1, <3>2, <3>3
  <2> QED BY <2>1, <2>2 DEF ToldOK
<1>6. LockOK'
  <2>1. Others(w)
    BY <1>2 DEF QuietStep
  <2> QED BY <1>0, <1>2, <1>8, <2>1, SavingLock
<1> QED BY <1>2, <1>3, <1>4, <1>5, <1>6

(* A step that touches neither the tables nor the calls.                     *)
LEMMA StillBooks ==
  ASSUME BooksInv, ToldOK', UNCHANGED <<store, version, holder, calls, issued, removed, opening>>
  PROVE  BooksInv'
<1>1. /\ rows' = rows /\ ledger' = ledger /\ attempts' = attempts /\ session' = session
      /\ version' = version /\ holder' = holder /\ calls' = calls /\ issued' = issued
      /\ removed' = removed
  BY DEF store
<1>2. Recorded' = Recorded
  BY <1>1 DEF Recorded
<1>3. CallsOK' /\ FreshOK' /\ LedgerOK' /\ CommittedOK'
  BY <1>1, <1>2 DEF BooksInv, CallsOK, FreshOK, Uncommitted, LedgerOK, CommittedOK
<1>4. SnapshotOK'
  <2>1. ledger' = ledger /\ calls' = calls /\ version' = version /\ SnapshotOK
    BY <1>1 DEF BooksInv
  <2> QED BY <2>1, Zenon DEF SnapshotOK, findHookDeliveryByFingerprint, findAcceptedHookDelivery
<1>5. SessionOK' /\ ReceiptsOK'
  BY <1>1 DEF BooksInv, SessionOK, IsStart, IsFinish, ReceiptsOK
<1>6. LockOK'
  BY <1>1 DEF BooksInv, LockOK, At
<1> QED BY <1>3, <1>4, <1>5, <1>6 DEF BooksInv

(* The steps of the specification.                                           *)
QuietSaveStep(w) ==
  Look(w) \/ WriteLock(w) \/ Busy(w) \/ RollBack(w) \/ Reconcile(w) \/ Answer(w) \/ Stop(w)
StillStep ==
  (\E c \in Calls : AlreadyEnded(c)) \/ Doctor \/ UNCHANGED deliveryVars

(* The steps, grouped by what they may change.                               *)
LEMMA DeliverySteps ==
  ASSUME [DeliveryNext]_deliveryVars
  PROVE  \/ \E w \in Writers : \/ QuietSaveStep(w) \/ Redeliver(w) \/ Reregister(w) \/ Insert(w)
                               \/ CatchUpStep(w) \/ \E c \in Calls : Call(w, c)
         \/ \E e \in EventIDs : DeleteTranscript(e)
         \/ StillStep
BY DEF DeliveryNext, SaveStep, QuietSaveStep, StillStep

(* The lock after a commit, and at the beginning of a call.                  *)
LEMMA CommitLock ==
  ASSUME BooksInv, NEW w \in Writers, CommitStep(w), opening' = opening
  PROVE  LockOK'
<1>1. calls[w].pc = "write" /\ calls'[w].pc = "committed" /\ holder = w /\ holder' = None /\ Others(w)
  BY DEF CommitStep
<1>2. At(w, "idle")
  BY <1>1, LockOfCall DEF BooksInv
<1> QED BY <1>1, <1>2, SavingLock, NoneAssumption DEF BooksInv
LEMMA CallLock ==
  ASSUME BooksInv, NEW w \in Writers, NEW c \in Calls, Call(w, c), Others(w), calls'[w].pc = "begin"
  PROVE  LockOK'
<1>1. calls[w].pc = "idle" /\ At(w, "idle") /\ opening' = opening /\ holder' = holder
  BY DEF Call, At, catchUpVars
<1>2. holder # w
  BY <1>1 DEF BooksInv, LockOK, At
<1> QED BY <1>1, <1>2, SavingLock DEF BooksInv

(* The catch-up of a process that opens the store leaves the books alone,    *)
(* and commits when nobody else is writing.                                  *)
LEMMA CatchUpQuiet ==
  ASSUME CallsOK, LockOK, NEW w \in Writers, CatchUpStep(w)
  PROVE  /\ NotSaving /\ holder' \in Writers \cup {None}
         /\ \A v \in Writers : calls[v].pc = "write" => holder' = v
         /\ version' = version \/ (version' = version + 1 /\ \A v \in Writers : calls[v].pc # "write")
<1>1. /\ holder \in Writers \cup {None} /\ None \notin Writers
      /\ \A v \in Writers : calls[v].pc = "write" => holder = v
  BY NoneAssumption DEF CallsOK
<1>2. ~At(w, "idle") => calls[w].pc = "idle"
  BY DEF LockOK
<1>3. CASE OpenStore(w) \/ ReadFrontier(w) \/ SelectBatch(w) \/ BusyBatch(w) \/ ProbeEvents(w)
  <2>1. NothingStored
    BY <1>3, Zenon DEF OpenStore, ReadFrontier, SelectBatch, BusyBatch, ProbeEvents
  <2> QED BY <1>1, <2>1 DEF NothingStored
<1>4. CASE BeginBatch(w)
  BY <1>1, <1>4 DEF BeginBatch
<1>5. CASE CommitBatch(w)
  <2>1. holder = w /\ calls[w].pc = "idle" /\ NotSaving /\ holder' = None /\ version' = version + 1
    BY <1>2, <1>5 DEF CommitBatch, At, LockOK
  <2> QED BY <1>1, <2>1
<1>6. CASE MarkExhausted(w)
  BY <1>1, <1>6 DEF MarkExhausted
<1>7. CASE StopOpening(w)
  <2>1. calls[w].pc = "idle" /\ NotSaving /\ version' = version
        /\ holder' = IF holder = w THEN None ELSE holder
    BY <1>2, <1>7 DEF StopOpening
  <2> QED BY <1>1, <2>1
<1> QED BY <1>3, <1>4, <1>5, <1>6, <1>7 DEF CatchUpStep

(* What a step of a catch-up does to its process and to the lock.            *)
CatchUpMove(w, pc, f, b, c) ==
  /\ OpeningTo(w, OpeningAt(pc, f, b, c))
  /\ pc = "idle" \/ calls[w].pc = "idle"
  /\ pc = "write" <=> holder' = w
  /\ \A v \in Writers \ {w} : holder' = v <=> holder = v
  /\ pc = "begin" => b \subseteq DOMAIN rows /\ c = session.ws
  /\ pc = "write" => At(w, "begin") /\ b = opening[w].batch /\ c = opening[w].canonical
  /\ observations' = observations \/ CommitBatch(w)

LEMMA CatchUpMoves ==
  ASSUME CallsOK, LockOK, NEW w \in Writers, CatchUpStep(w)
  PROVE  \E pc, f, b, c : CatchUpMove(w, pc, f, b, c)
<1>1. /\ None \notin Writers
      /\ At(w, "idle") \/ calls[w].pc = "idle"
      /\ At(w, "write") => holder = w
      /\ calls[w].pc = "idle" => (holder = w => At(w, "write"))
  BY NoneAssumption DEF LockOK, CallsOK, At
<1>2. CASE OpenStore(w)
  <2>1. CatchUpMove(w, "frontier", 0, {}, None)
    BY <1>1, <1>2 DEF CatchUpMove, OpenStore, NothingStored, At
  <2> QED BY <2>1
<1>3. CASE ReadFrontier(w)
  <2>1. CatchUpMove(w, "select", catchup.frontier, {}, None)
    BY <1>1, <1>3 DEF CatchUpMove, ReadFrontier, NothingStored, At
  <2> QED BY <2>1
<1>4. CASE SelectBatch(w)
  <2> DEFINE b == Newest(Older(opening[w].frontier))
  <2>1. b \subseteq DOMAIN rows
    BY DEF Newest, Older
  <2>2. /\ At(w, "select") /\ NothingStored
        /\ OpeningTo(w, IF b = {} THEN OpeningAt("probe", 0, {}, None)
                        ELSE OpeningAt("begin", 0, b, session.ws))
    BY <1>4 DEF SelectBatch
  <2> HIDE DEF b
  <2>3. CASE b = {}
    <3>1. CatchUpMove(w, "probe", 0, {}, None)
      BY <1>1, <2>2, <2>3 DEF CatchUpMove, NothingStored, At
    <3> QED BY <3>1
  <2>4. CASE b # {}
    <3>1. CatchUpMove(w, "begin", 0, b, session.ws)
      BY <1>1, <2>1, <2>2, <2>4 DEF CatchUpMove, NothingStored, At
    <3> QED BY <3>1
  <2> QED BY <2>3, <2>4
<1>5. CASE BeginBatch(w)
  <2>1. CatchUpMove(w, "write", 0, opening[w].batch, opening[w].canonical)
    BY <1>1, <1>5 DEF CatchUpMove, BeginBatch, At
  <2> QED BY <2>1
<1>6. CASE BusyBatch(w)
  <2>1. CatchUpMove(w, "frontier", 0, {}, None)
    BY <1>1, <1>6 DEF CatchUpMove, BusyBatch, NothingStored, At
  <2> QED BY <2>1
<1>7. CASE CommitBatch(w) \/ StopOpening(w) \/ MarkExhausted(w) \/ (ProbeEvents(w) /\ Opened(w))
  <2>1. OpeningTo(w, OpeningAt("idle", 0, {}, None)) /\ ~At(w, "idle")
    BY <1>7 DEF CommitBatch, StopOpening, MarkExhausted, ProbeEvents, Opened, At, NoOpening
  <2>2. holder' # w /\ \A v \in Writers \ {w} : holder' = v <=> holder = v
    BY <1>1, <1>7 DEF CommitBatch, StopOpening, MarkExhausted, ProbeEvents, NothingStored, At
  <2>3. observations' = observations \/ CommitBatch(w)
    BY <1>7 DEF StopOpening, MarkExhausted, ProbeEvents, NothingStored
  <2>4. CatchUpMove(w, "idle", 0, {}, None)
    BY <2>1, <2>2, <2>3 DEF CatchUpMove
  <2> QED BY <2>4
<1>8. CASE ProbeEvents(w) /\ ~Opened(w)
  <2>1. CatchUpMove(w, "mark", 0, {}, None)
    BY <1>1, <1>8 DEF CatchUpMove, ProbeEvents, NothingStored, At
  <2> QED BY <2>1
<1> QED BY <1>2, <1>3, <1>4, <1>5, <1>6, <1>7, <1>8 DEF CatchUpStep

(* The lock passes between those who catch up.                               *)
LEMMA CatchUpLock ==
  ASSUME CallsOK, LockOK, NEW w \in Writers, CatchUpStep(w)
  PROVE  LockOK'
<1>1. PICK pc, f, b, c : CatchUpMove(w, pc, f, b, c)
  BY CatchUpMoves
<1>2. calls' = calls /\ opening = [v \in Writers |-> opening[v]]
  BY CatchUpQuiet DEF NotSaving, LockOK
<1>3. opening' = [v \in Writers |-> IF v = w THEN OpeningAt(pc, f, b, c) ELSE opening[v]]
  BY <1>1, <1>2 DEF CatchUpMove, OpeningTo
<1> QED BY <1>1, <1>2, <1>3 DEF CatchUpMove, LockOK, At, OpeningAt

(* The books after a step of a catch-up.                                     *)
LEMMA CatchUpBooks ==
  ASSUME BooksInv, NEW w \in Writers, CatchUpStep(w)
  PROVE  BooksInv'
<1> USE DEF BooksInv
<1>1. /\ rows' = rows /\ ledger' = ledger /\ attempts' = attempts /\ session' = session
      /\ calls' = calls /\ issued' = issued /\ removed' = removed /\ told' = told
      /\ holder' \in Writers \cup {None}
      /\ \A v \in Writers : calls[v].pc = "write" => holder' = v
      /\ version' = version \/ (version' = version + 1 /\ \A v \in Writers : calls[v].pc # "write")
  BY CatchUpQuiet DEF NotSaving
<1>2. Recorded' = Recorded
  BY <1>1 DEF Recorded
<1>3. CallsOK' /\ FreshOK' /\ LedgerOK' /\ CommittedOK'
  BY <1>1, <1>2 DEF CallsOK, FreshOK, Uncommitted, LedgerOK, CommittedOK
<1>4. SnapshotOK'
  <2>1. CASE version' = version
    BY <1>1, <2>1, Zenon DEF SnapshotOK, findHookDeliveryByFingerprint, findAcceptedHookDelivery
  <2>2. CASE version' = version + 1 /\ \A v \in Writers : calls[v].pc # "write"
    BY <1>1, <2>2, StaleSnapshots
  <2> QED BY <1>1, <2>1, <2>2
<1>5. SessionOK' /\ ReceiptsOK' /\ ToldOK'
  BY <1>1 DEF SessionOK, IsStart, IsFinish, ReceiptsOK, ToldOK
<1>6. LockOK'
  BY CatchUpLock
<1> QED BY <1>3, <1>4, <1>5, <1>6

(* Every step keeps the books.                                               *)
LEMMA BooksStep ==
  ASSUME BooksInv, chain \in Seq(EventIDs), [DeliveryNext]_deliveryVars
  PROVE  BooksInv'
<1>0. ToldOK /\ SessionOK
  BY DEF BooksInv
<1>1. ASSUME NEW w \in Writers, QuietSaveStep(w) PROVE BooksInv'
  BY <1>1, QuietSave DEF QuietSaveStep
<1>2. ASSUME NEW w \in Writers, Redeliver(w) PROVE BooksInv'
  <2>1. /\ CallsOK' /\ FreshOK' /\ SnapshotOK' /\ LedgerOK' /\ CommittedOK' /\ SessionOK' /\ ReceiptsOK'
        /\ session' = session
    BY <1>2, RedeliverBooks DEF BooksInv
  <2>2. ToldOK'
    BY <1>0, <1>2, <2>1 DEF ToldOK, Redeliver
  <2>3. CommitStep(w) /\ opening' = opening
    BY <1>2, RedeliverBooks DEF BooksInv, Redeliver, catchUpVars
  <2> QED BY <2>1, <2>2, <2>3, CommitLock DEF BooksInv
<1>3. ASSUME NEW w \in Writers, Reregister(w) PROVE BooksInv'
  <2>1. /\ CallsOK' /\ FreshOK' /\ SnapshotOK' /\ LedgerOK' /\ CommittedOK' /\ SessionOK' /\ ReceiptsOK'
        /\ session' = session
    BY <1>3, ReregisterBooks DEF BooksInv
  <2>2. ToldOK'
    BY <1>0, <1>3, <2>1 DEF ToldOK, Reregister
  <2>3. CommitStep(w) /\ opening' = opening
    BY <1>3, ReregisterBooks DEF BooksInv, Reregister, catchUpVars
  <2> QED BY <2>1, <2>2, <2>3, CommitLock DEF BooksInv
<1>4. ASSUME NEW w \in Writers, Insert(w) PROVE BooksInv'
  <2>1. /\ CallsOK' /\ FreshOK' /\ SnapshotOK' /\ LedgerOK' /\ CommittedOK' /\ SessionOK' /\ ReceiptsOK'
        /\ session.ended # None => session'.ended = session.ended
    BY <1>4, InsertBooks DEF BooksInv
  <2>2. ToldOK'
    BY <1>0, <1>4, <2>1 DEF ToldOK, Insert
  <2>3. CommitStep(w) /\ opening' = opening
    BY <1>4, InsertBooks DEF BooksInv, Insert, catchUpVars
  <2> QED BY <2>1, <2>2, <2>3, CommitLock DEF BooksInv
<1>5. ASSUME NEW w \in Writers, NEW c \in Calls, Call(w, c) PROVE BooksInv'
  <2>1. /\ CallsOK' /\ FreshOK' /\ SnapshotOK' /\ LedgerOK' /\ CommittedOK' /\ SessionOK' /\ ReceiptsOK'
    BY <1>5, CallBooks DEF BooksInv
  <2>2. ToldOK'
    BY <1>0, <1>5 DEF ToldOK, Call, store
  <2>3. Others(w) /\ calls'[w].pc = "begin"
    BY <1>5, CallBooks DEF BooksInv
  <2> QED BY <1>5, <2>1, <2>2, <2>3, CallLock DEF BooksInv
<1>6. ASSUME NEW e \in EventIDs, DeleteTranscript(e) PROVE BooksInv'
  <2>1. /\ CallsOK' /\ FreshOK' /\ SnapshotOK' /\ LedgerOK' /\ CommittedOK' /\ SessionOK' /\ ReceiptsOK'
    BY <1>6, DeleteBooks DEF BooksInv
  <2>2. ToldOK'
    BY <1>0, <1>6 DEF ToldOK, DeleteTranscript
  <2>3. LockOK'
    BY <1>6 DEF BooksInv, LockOK, At, DeleteTranscript, catchUpVars
  <2> QED BY <2>1, <2>2, <2>3 DEF BooksInv
<1>7. ASSUME StillStep PROVE BooksInv'
  <2>1. CASE \E c \in Calls : AlreadyEnded(c)
    <3>1. PICK c \in Calls : AlreadyEnded(c)
      BY <2>1
    <3>2. c.reason # None
      BY <3>1, NoneAssumption DEF AlreadyEnded
    <3>3. ToldOK' /\ UNCHANGED <<store, version, holder, calls, issued, removed, opening>>
      BY <1>0, <3>1, <3>2 DEF AlreadyEnded, ToldOK, store, catchUpVars
    <3> QED BY <3>3, StillBooks
  <2>2. CASE Doctor \/ UNCHANGED deliveryVars
    <3>1. ToldOK' /\ UNCHANGED <<store, version, holder, calls, issued, removed, opening>>
      BY <1>0, <2>2 DEF Doctor, deliveryVars, ToldOK, store, catchUpVars
    <3> QED BY <3>1, StillBooks
  <2> QED BY <1>7, <2>1, <2>2 DEF StillStep
<1>8. ASSUME NEW w \in Writers, CatchUpStep(w) PROVE BooksInv'
  BY <1>8, CatchUpBooks
<1> QED BY <1>1, <1>2, <1>3, <1>4, <1>5, <1>6, <1>7, <1>8, DeliverySteps

-----------------------------------------------------------------------------
(* The chain.                                                                *)

(* A link is appended for an event that has none.                            *)
LEMMA AppendLink ==
  ASSUME ChainOK, NEW e \in EventIDs, e \notin Range(chain)
  PROVE  LET new == Append(chain, e)
         IN  new \in Seq(EventIDs) /\ IsInjective(new) /\ Range(new) = Range(chain) \cup {e}
<1> DEFINE new == Append(chain, e)
<1>1. chain \in Seq(EventIDs) /\ IsInjective(chain)
  BY DEF ChainOK, ChainAttestsEvents
<1>2. /\ new \in Seq(EventIDs) /\ DOMAIN chain = 1..Len(chain) /\ DOMAIN new = 1..(Len(chain) + 1)
      /\ Len(chain) \in Nat /\ new[Len(chain) + 1] = e /\ \A i \in 1..Len(chain) : new[i] = chain[i]
  BY <1>1
<1> HIDE DEF new
<1>3. \A i \in 1..Len(chain) : chain[i] # e
  BY <1>2 DEF Range
<1>4. IsInjective(new)
  BY <1>1, <1>2, <1>3 DEF IsInjective
<1>5. Range(new) = Range(chain) \cup {e}
  BY <1>2 DEF Range
<1> QED BY <1>2, <1>4, <1>5 DEF new

(* The chain is append-only and attests each event once.                     *)
LEMMA ChainStep ==
  ASSUME BooksInv, ChainOK, [DeliveryNext]_deliveryVars
  PROVE  /\ ChainOK'
         /\ chain' = chain \/ \E e \in EventIDs : chain' = Append(chain, e)
<1>1. ASSUME rows' = rows, chain' = chain PROVE ChainOK'
  BY <1>1 DEF ChainOK, ChainAttestsEvents, IsInjective, Range, Attested
<1>2. ASSUME NEW w \in Writers, Insert(w)
      PROVE  ChainOK' /\ (chain' = chain \/ \E e \in EventIDs : chain' = Append(chain, e))
  <2> DEFINE c == calls[w].call
             e == calls[w].ev
  <2>1. /\ e \in EventIDs \ Recorded /\ rows' = With(rows, e, c) /\ appendAttestationLink(c, e)
    BY <1>2, InsertBooks DEF BooksInv, ChainOK
  <2>2. /\ DOMAIN rows' = DOMAIN rows \cup {e} /\ rows'[e] = c /\ e \notin DOMAIN rows
        /\ \A f \in DOMAIN rows : f # e /\ rows'[f] = rows[f]
    BY <2>1 DEF With, Recorded
  <2>3. Range(chain) = {f \in DOMAIN rows : Attested(rows[f])} /\ IsInjective(chain)
    BY DEF ChainOK, ChainAttestsEvents
  <2> HIDE DEF c, e
  <2>4. CASE Attested(c)
    <3>1. chain' = Append(chain, e) /\ e \notin Range(chain)
      BY <2>1, <2>2, <2>3, <2>4 DEF appendAttestationLink
    <3>2. chain' \in Seq(EventIDs) /\ IsInjective(chain') /\ Range(chain') = Range(chain) \cup {e}
      BY <2>1, <3>1, AppendLink
    <3>3. Range(chain') = {f \in DOMAIN rows' : Attested(rows'[f])}
      BY <2>2, <2>3, <2>4, <3>2 DEF Attested
    <3>4. ChainOK'
      BY <3>2, <3>3 DEF ChainOK, ChainAttestsEvents, IsInjective, Range, Attested
    <3> QED BY <2>1, <3>1, <3>4
  <2>5. CASE ~Attested(c)
    <3>1. chain' = chain
      BY <2>1, <2>5 DEF appendAttestationLink
    <3>2. {f \in DOMAIN rows' : Attested(rows'[f])} = {f \in DOMAIN rows : Attested(rows[f])}
      BY <2>2, <2>5 DEF Attested
    <3> QED BY <2>3, <3>1, <3>2 DEF ChainOK, ChainAttestsEvents, IsInjective, Range, Attested
  <2> QED BY <2>4, <2>5
<1>3. ASSUME NEW e \in EventIDs, DeleteTranscript(e) PROVE ChainOK' /\ chain' = chain
  <2>1. /\ rows[e].kind = "transcript" /\ chain' = chain
        /\ DOMAIN rows' = DOMAIN rows \ {e} /\ \A f \in DOMAIN rows \ {e} : rows'[f] = rows[f]
    BY <1>3 DEF DeleteTranscript
  <2>2. {f \in DOMAIN rows' : Attested(rows'[f])} = {f \in DOMAIN rows : Attested(rows[f])}
    BY <2>1 DEF Attested
  <2> QED BY <2>1, <2>2 DEF ChainOK, ChainAttestsEvents, IsInjective, Range, Attested
<1>4. ASSUME NEW w \in Writers, QuietSaveStep(w) PROVE rows' = rows /\ chain' = chain
  BY <1>4, QuietSave DEF QuietSaveStep, QuietStep, store
<1>5. ASSUME NEW w \in Writers, Redeliver(w) \/ Reregister(w) PROVE rows' = rows /\ chain' = chain
  BY <1>5 DEF Redeliver, Reregister
<1>6. ASSUME NEW w \in Writers, NEW c \in Calls, Call(w, c) PROVE rows' = rows /\ chain' = chain
  BY <1>6 DEF Call, store
<1>7. ASSUME StillStep PROVE rows' = rows /\ chain' = chain
  BY <1>7 DEF StillStep, AlreadyEnded, Doctor, deliveryVars, store
<1>8. ASSUME NEW w \in Writers, CatchUpStep(w) PROVE rows' = rows /\ chain' = chain
  BY <1>8, CatchUpQuiet DEF BooksInv, NotSaving
<1> QED BY <1>1, <1>2, <1>3, <1>4, <1>5, <1>6, <1>7, <1>8, DeliverySteps

-----------------------------------------------------------------------------
(* The anchor.                                                               *)

(* A prefix, element by element.                                             *)
LEMMA PrefixElements ==
  ASSUME NEW S, NEW s \in Seq(S), NEW t \in Seq(S)
  PROVE  IsPrefix(s, t) <=> Len(s) <= Len(t) /\ \A i \in 1..Len(s) : s[i] = t[i]
<1>1. ASSUME Len(s) <= Len(t)
      PROVE  SubSeq(s, 1, Len(s)) = SubSeq(t, 1, Len(s)) <=> \A i \in 1..Len(s) : s[i] = t[i]
  <2>1. /\ SubSeq(s, 1, Len(s)) = [i \in 1..Len(s) |-> s[i]]
        /\ SubSeq(t, 1, Len(s)) = [i \in 1..Len(s) |-> t[i]]
    BY <1>1
  <2> QED BY <2>1
<1> QED BY <1>1 DEF IsPrefix

(* What was a head of the chain stays one.                                   *)
LEMMA PrefixGrows ==
  ASSUME NEW S, NEW s \in Seq(S), NEW t \in Seq(S), NEW e \in S, IsPrefix(s, t)
  PROVE  IsPrefix(s, Append(t, e)) /\ IsPrefix(t, t) /\ IsPrefix(Append(t, e), Append(t, e))
<1>1. Len(s) <= Len(t) /\ \A i \in 1..Len(s) : s[i] = t[i]
  BY PrefixElements
<1>2. /\ Append(t, e) \in Seq(S) /\ Len(Append(t, e)) = Len(t) + 1 /\ Len(t) \in Nat /\ Len(s) \in Nat
      /\ \A i \in 1..Len(t) : Append(t, e)[i] = t[i]
  OBVIOUS
<1>3. IsPrefix(s, Append(t, e))
  <2>1. Len(s) <= Len(Append(t, e)) /\ \A i \in 1..Len(s) : s[i] = Append(t, e)[i]
    BY <1>1, <1>2
  <2> QED BY <1>2, <2>1, PrefixElements
<1> QED BY <1>2, <1>3 DEF IsPrefix

(* Publishing appends a head only behind a shorter one.                      *)
LEMMA PublishHistory ==
  ASSUME anchor \in Seq(Seq(EventIDs)), AnchorIsHistory(chain),
         NEW head \in Seq(EventIDs), IsPrefix(head, chain), publishAttestationAnchor(head)
  PROVE  /\ anchor' \in Seq(Seq(EventIDs))
         /\ \A i \in 1..(Len(anchor') - 1) : Len(anchor'[i]) < Len(anchor'[i + 1])
         /\ \A i \in DOMAIN anchor' : IsPrefix(anchor'[i], chain)
<1> DEFINE n == Len(anchor)
<1>0. n \in Nat /\ DOMAIN anchor = 1..n /\ \A i \in 1..n : Len(anchor[i]) \in Nat
  OBVIOUS
<1>1. CASE anchor' = anchor
  BY <1>1 DEF AnchorIsHistory
<1>2. CASE DecideAnchorAppend(lastOrZero, anchor # <<>>, head) = "append" /\ anchor' = Append(anchor, head)
  <2>1. /\ anchor' \in Seq(Seq(EventIDs)) /\ Len(anchor') = n + 1 /\ DOMAIN anchor' = 1..(n + 1)
        /\ anchor'[n + 1] = head /\ \A i \in 1..n : anchor'[i] = anchor[i]
    BY <1>0, <1>2
  <2>2. n # 0 => Len(anchor[n]) < Len(head)
    <3> SUFFICES ASSUME n # 0 PROVE Len(anchor[n]) < Len(head)
      OBVIOUS
    <3>1. anchor # <<>> /\ lastOrZero = anchor[n] /\ n \in 1..n
      BY <1>0 DEF lastOrZero, Last
    <3>2. ~(Len(head) < Len(anchor[n])) /\ Len(head) # Len(anchor[n])
      BY <1>2, <3>1 DEF DecideAnchorAppend
    <3>3. Len(head) \in Nat /\ Len(anchor[n]) \in Nat
      BY <1>0, <3>1
    <3> QED BY <3>2, <3>3
  <2>3. \A i \in 1..(Len(anchor') - 1) : Len(anchor'[i]) < Len(anchor'[i + 1])
    <3> SUFFICES ASSUME NEW i \in 1..n PROVE Len(anchor'[i]) < Len(anchor'[i + 1])
      BY <1>0, <2>1
    <3>1. CASE i = n
      BY <1>0, <2>1, <2>2, <3>1
    <3>2. CASE i # n
      <4>1. i \in 1..(n - 1) /\ i + 1 \in 1..n
        <5>1. n \in Nat
          BY <1>0
        <5> HIDE DEF n
        <5> QED BY <3>2, <5>1
      <4>2. anchor'[i] = anchor[i] /\ anchor'[i + 1] = anchor[i + 1]
        BY <2>1, <4>1
      <4>3. Len(anchor[i]) < Len(anchor[i + 1])
        BY <4>1 DEF AnchorIsHistory
      <4> QED BY <4>2, <4>3
    <3> QED BY <3>1, <3>2
  <2>4. \A i \in DOMAIN anchor' : IsPrefix(anchor'[i], chain)
    <3> SUFFICES ASSUME NEW i \in 1..(n + 1) PROVE IsPrefix(anchor'[i], chain)
      BY <2>1
    <3>1. CASE i = n + 1
      BY <2>1, <3>1
    <3>2. CASE i \in 1..n
      BY <1>0, <2>1, <3>2 DEF AnchorIsHistory
    <3> QED BY <1>0, <3>1, <3>2
  <2> QED BY <2>1, <2>3, <2>4
<1> QED BY <1>1, <1>2 DEF publishAttestationAnchor

(* What the doctor will publish is a head the chain had.                     *)
LEMMA DoctorHistory ==
  ASSUME ChainOK, AnchorOK, Doctor
  PROVE  AnchorOK'
<1>1. chain' = chain /\ calls' = calls /\ DoctorStep(chain)
  BY DEF Doctor, store
<1>2. /\ anchor \in Seq(Seq(EventIDs)) /\ AnchorIsHistory(chain) /\ chain \in Seq(EventIDs)
      /\ doctor = [pc |-> doctor.pc, last |-> doctor.last, present |-> doctor.present,
                   head |-> doctor.head, relation |-> doctor.relation]
      /\ doctor.pc = "publish" => doctor.head \in Seq(EventIDs) /\ IsPrefix(doctor.head, chain)
  BY DEF AnchorOK, ChainOK
<1>3. /\ anchor' \in Seq(Seq(EventIDs))
      /\ \A i \in 1..(Len(anchor') - 1) : Len(anchor'[i]) < Len(anchor'[i + 1])
      /\ \A i \in DOMAIN anchor' : IsPrefix(anchor'[i], chain)
  <2>1. CASE anchor' = anchor
    BY <1>2, <2>1 DEF AnchorIsHistory
  <2>2. CASE PublishVerified
    BY <1>2, <2>2, PublishHistory DEF PublishVerified
  <2> QED BY <1>1, <2>1, <2>2 DEF DoctorStep, ReadAnchor, VerifyChain
<1>4. /\ doctor' = [pc |-> doctor'.pc, last |-> doctor'.last, present |-> doctor'.present,
                    head |-> doctor'.head, relation |-> doctor'.relation]
      /\ doctor'.pc = "publish" => doctor'.head \in Seq(EventIDs) /\ IsPrefix(doctor'.head, chain)
  <2>1. CASE ReadAnchor
    BY <1>2, <2>1 DEF ReadAnchor
  <2>2. CASE VerifyChain(chain)
    <3>1. PICK r, q : doctor' = [doctor EXCEPT !.head = chain, !.relation = r, !.pc = q]
      BY <2>2 DEF VerifyChain
    <3>2. IsPrefix(chain, chain)
      BY DEF IsPrefix
    <3> QED BY <1>2, <3>1, <3>2
  <2>3. CASE PublishVerified
    <3>1. PICK r : doctor' = [doctor EXCEPT !.pc = "done", !.relation = r]
      BY <2>3 DEF PublishVerified
    <3> QED BY <1>2, <3>1
  <2> QED BY <1>1, <2>1, <2>2, <2>3 DEF DoctorStep
<1>5. \A w \in Writers : calls[w].pc = "committed" /\ calls[w].head # None =>
        calls[w].head \in Seq(EventIDs) /\ IsPrefix(calls[w].head, chain)
  BY DEF AnchorOK
<1> QED BY <1>1, <1>3, <1>4, <1>5 DEF AnchorOK, AnchorIsHistory

(* What was published stays a prefix of the chain.                           *)
LEMMA AnchorStep ==
  ASSUME SaveInv, [DeliveryNext]_deliveryVars
  PROVE  AnchorOK'
<1>1. BooksInv /\ ChainOK /\ AnchorOK /\ chain \in Seq(EventIDs)
  BY DEF SaveInv, ChainOK
<1>2. chain' \in Seq(EventIDs) /\ \A s \in Seq(EventIDs) : IsPrefix(s, chain) => IsPrefix(s, chain')
  <2>1. ChainOK' /\ (chain' = chain \/ \E e \in EventIDs : chain' = Append(chain, e))
    BY <1>1, ChainStep
  <2> QED BY <1>1, <2>1, PrefixGrows DEF ChainOK
<1>3. ASSUME anchor' \in Seq(Seq(EventIDs)), doctor' = doctor,
             \A i \in 1..(Len(anchor') - 1) : Len(anchor'[i]) < Len(anchor'[i + 1]),
             \A i \in DOMAIN anchor' : IsPrefix(anchor'[i], chain),
             \A w \in Writers : calls'[w].pc = "committed" /\ calls'[w].head # None =>
               calls'[w].head \in Seq(EventIDs) /\ IsPrefix(calls'[w].head, chain')
      PROVE  AnchorOK'
  <2>1. \A i \in DOMAIN anchor' : anchor'[i] \in Seq(EventIDs)
    BY <1>3
  <2>2. \A i \in DOMAIN anchor' : IsPrefix(anchor'[i], chain')
    BY <1>2, <1>3, <2>1
  <2>3. doctor'.pc = "publish" => doctor'.head \in Seq(EventIDs) /\ IsPrefix(doctor'.head, chain')
    BY <1>1, <1>2, <1>3 DEF AnchorOK
  <2> QED BY <1>1, <1>3, <2>2, <2>3 DEF AnchorOK, AnchorIsHistory
<1>4. ASSUME UNCHANGED anchorVars, NEW w \in Writers, Others(w),
             calls'[w].pc = "committed" /\ calls'[w].head # None =>
               calls'[w].head \in Seq(EventIDs) /\ IsPrefix(calls'[w].head, chain')
      PROVE  AnchorOK'
  <2>1. \A v \in Writers : calls'[v].pc = "committed" /\ calls'[v].head # None =>
          calls'[v].head \in Seq(EventIDs) /\ IsPrefix(calls'[v].head, chain')
    BY <1>1, <1>2, <1>4 DEF AnchorOK, Others
  <2>2. /\ anchor' \in Seq(Seq(EventIDs)) /\ doctor' = doctor
        /\ \A i \in 1..(Len(anchor') - 1) : Len(anchor'[i]) < Len(anchor'[i + 1])
        /\ \A i \in DOMAIN anchor' : IsPrefix(anchor'[i], chain)
    BY <1>1, <1>4 DEF AnchorOK, AnchorIsHistory, anchorVars
  <2> QED BY <1>3, <2>1, <2>2
<1>5. ASSUME NEW w \in Writers, QuietSaveStep(w), ~Answer(w) PROVE AnchorOK'
  <2>1. QuietStep(w) /\ UNCHANGED anchorVars
    BY <1>1, <1>5, QuietSave DEF QuietSaveStep, Look, WriteLock, Busy, RollBack, Reconcile, Stop
  <2>2. Others(w) /\ calls'[w].pc # "committed"
    BY <2>1 DEF QuietStep
  <2> QED BY <1>4, <2>1, <2>2
<1>6. ASSUME NEW w \in Writers, Answer(w) PROVE AnchorOK'
  <2>1. Others(w) /\ calls'[w].pc = "idle" /\ doctor' = doctor /\ calls[w].pc = "committed"
    BY <1>1, <1>6, EndQuiet DEF QuietStep, Answer, BooksInv
  <2>2. /\ anchor' \in Seq(Seq(EventIDs))
        /\ \A i \in 1..(Len(anchor') - 1) : Len(anchor'[i]) < Len(anchor'[i + 1])
        /\ \A i \in DOMAIN anchor' : IsPrefix(anchor'[i], chain)
    <3>1. CASE calls[w].head = None
      BY <1>1, <1>6, <3>1 DEF Answer, AnchorOK, AnchorIsHistory
    <3>2. CASE calls[w].head # None
      <4>1. calls[w].head \in Seq(EventIDs) /\ IsPrefix(calls[w].head, chain)
        BY <1>1, <2>1, <3>2 DEF AnchorOK
      <4>2. publishAttestationAnchor(calls[w].head)
        BY <1>6, <3>2 DEF Answer
      <4> QED BY <1>1, <4>1, <4>2, PublishHistory DEF AnchorOK
    <3> QED BY <3>1, <3>2
  <2>3. \A v \in Writers : calls'[v].pc = "committed" /\ calls'[v].head # None =>
          calls'[v].head \in Seq(EventIDs) /\ IsPrefix(calls'[v].head, chain')
    BY <1>1, <1>2, <2>1 DEF AnchorOK, Others
  <2> QED BY <1>3, <2>1, <2>2, <2>3
<1>7. ASSUME NEW w \in Writers, Redeliver(w) \/ Reregister(w) PROVE AnchorOK'
  <2>1. CommitStep(w) /\ calls'[w].head = None
    BY <1>1, <1>7, RedeliverBooks, ReregisterBooks DEF BooksInv
  <2>2. UNCHANGED anchorVars
    BY <1>7 DEF Redeliver, Reregister
  <2> QED BY <1>4, <2>1, <2>2 DEF CommitStep
<1>8. ASSUME NEW w \in Writers, Insert(w) PROVE AnchorOK'
  <2>1. CommitStep(w) /\ calls'[w].head = IF Attested(calls[w].call) THEN chain' ELSE None
    BY <1>1, <1>8, InsertBooks DEF BooksInv
  <2>2. UNCHANGED anchorVars
    BY <1>8 DEF Insert
  <2>3. IsPrefix(chain', chain')
    BY DEF IsPrefix
  <2> QED BY <1>2, <1>4, <2>1, <2>2, <2>3 DEF CommitStep
<1>9. ASSUME NEW w \in Writers, NEW c \in Calls, Call(w, c) PROVE AnchorOK'
  <2>1. Others(w) /\ calls'[w].pc = "begin"
    BY <1>1, <1>9, CallBooks DEF BooksInv
  <2>2. UNCHANGED anchorVars
    BY <1>9 DEF Call
  <2> QED BY <1>4, <2>1, <2>2
<1>10. ASSUME UNCHANGED anchorVars, calls' = calls PROVE AnchorOK'
  <2>1. /\ anchor' \in Seq(Seq(EventIDs)) /\ doctor' = doctor
        /\ \A i \in 1..(Len(anchor') - 1) : Len(anchor'[i]) < Len(anchor'[i + 1])
        /\ \A i \in DOMAIN anchor' : IsPrefix(anchor'[i], chain)
    BY <1>1, <1>10 DEF AnchorOK, AnchorIsHistory, anchorVars
  <2>2. \A v \in Writers : calls'[v].pc = "committed" /\ calls'[v].head # None =>
          calls'[v].head \in Seq(EventIDs) /\ IsPrefix(calls'[v].head, chain')
    BY <1>1, <1>2, <1>10 DEF AnchorOK
  <2> QED BY <1>3, <2>1, <2>2
<1>11. ASSUME NEW e \in EventIDs, DeleteTranscript(e) PROVE AnchorOK'
  BY <1>10, <1>11 DEF DeleteTranscript
<1>12. ASSUME StillStep PROVE AnchorOK'
  <2>1. CASE Doctor
    BY <1>1, <2>1, DoctorHistory
  <2>2. CASE ~Doctor
    BY <1>10, <1>12, <2>2 DEF StillStep, AlreadyEnded, deliveryVars
  <2> QED BY <2>1, <2>2
<1>13. ASSUME NEW w \in Writers, CatchUpStep(w) PROVE AnchorOK'
  BY <1>1, <1>10, <1>13, CatchUpQuiet DEF BooksInv, NotSaving
<1> QED BY <1>5, <1>6, <1>7, <1>8, <1>9, <1>11, <1>12, <1>13, DeliverySteps DEF QuietSaveStep

-----------------------------------------------------------------------------
(* Theorems.                                                                 *)

(* The invariant holds of every behaviour, whatever the writers, the calls,  *)
(* the events and the attempts: what a transaction read is true when it      *)
(* writes, and receipts, events, chain, session and answers agree.           *)
THEOREM SaveInvariant == DeliverySpec => []SaveInv
<1>1. DeliveryInit => SaveInv
  <2> SUFFICES ASSUME DeliveryInit PROVE SaveInv
    OBVIOUS
  <2>1. BooksInv
    BY BooksInit
  <2>2. ChainOK
    <3>1. chain = <<>> /\ DOMAIN rows = {}
      BY DEF DeliveryInit, Empty
    <3> QED BY <3>1 DEF ChainOK, ChainAttestsEvents, IsInjective, Range
  <2>3. AnchorOK
    <3>1. anchor = <<>> /\ doctor = IdleDoctor /\ \A w \in Writers : calls[w].pc = "idle"
      BY NoCallType DEF DeliveryInit, AnchorInit
    <3> QED BY <3>1 DEF AnchorOK, AnchorIsHistory, IdleDoctor
  <2> QED BY <2>1, <2>2, <2>3 DEF SaveInv
<1>2. SaveInv /\ [DeliveryNext]_deliveryVars => SaveInv'
  BY BooksStep, ChainStep, AnchorStep DEF SaveInv, ChainOK
<1> QED BY <1>1, <1>2, PTL DEF DeliverySpec

(* A set with one element, counted.                                          *)
LEMMA OneElement ==
  ASSUME NEW S
  PROVE  /\ S # {} /\ (\A x, y \in S : x = y) => Cardinality(S) = 1
         /\ (\A x, y \in S : x = y) => Cardinality(S) <= 1
<1>1. Cardinality({}) = 0
  BY FS_EmptySet
<1>2. ASSUME NEW x, S = {x} PROVE Cardinality(S) = 1
  BY <1>2, FS_Singleton
<1>3. ASSUME S # {}, \A x, y \in S : x = y PROVE \E x : S = {x}
  BY <1>3
<1> QED BY <1>1, <1>2, <1>3

(* Types, the writer lock held by the one process that is writing, and the   *)
(* receipts: one accepted receipt for each identity and one attempt that     *)
(* entered it, the others being redeliveries.                                *)
THEOREM ReceiptsAlwaysAddUp == DeliverySpec => [](DeliveryTypeOK /\ ReceiptsAddUp)
<1>1. SaveInv => DeliveryTypeOK /\ ReceiptsAddUp
  <2> SUFFICES ASSUME SaveInv PROVE DeliveryTypeOK /\ ReceiptsAddUp
    OBVIOUS
  <2>1. DeliveryTypeOK
    BY DEF SaveInv, BooksInv, ChainOK, CallsOK, LockOK, LedgerOK, Receipt, DeliveryTypeOK
  <2>2. ASSUME NEW r \in DOMAIN ledger
        PROVE  Cardinality({s \in DOMAIN ledger : s[1] = r[1] /\ ledger[s].status = "accepted"}) = 1
    <3> DEFINE S == {s \in DOMAIN ledger : s[1] = r[1] /\ ledger[s].status = "accepted"}
    <3>1. S # {} /\ \A x, y \in S : x = y
      BY DEF SaveInv, BooksInv, ReceiptsOK
    <3> HIDE DEF S
    <3>2. Cardinality(S) = 1
      BY <3>1, OneElement
    <3> QED BY <3>2 DEF S
  <2>3. ASSUME NEW r \in DOMAIN ledger
        PROVE  Cardinality({k \in DOMAIN attempts : k[1] = r /\ attempts[k] = ledger[r].status}) = 1
    <3> DEFINE S == {k \in DOMAIN attempts : k[1] = r /\ attempts[k] = ledger[r].status}
    <3>1. S # {} /\ \A x, y \in S : x = y
      BY DEF SaveInv, BooksInv, ReceiptsOK
    <3> HIDE DEF S
    <3>2. Cardinality(S) = 1
      BY <3>1, OneElement
    <3> QED BY <3>2 DEF S
  <2>4. ReceiptsAddUp
    BY <2>2, <2>3 DEF SaveInv, BooksInv, ReceiptsOK, ReceiptsAddUp
  <2> QED BY <2>1, <2>4
<1> QED BY <1>1, SaveInvariant, PTL

(* The chain attests each prompt in the store once, and nothing else.        *)
THEOREM ChainAlwaysAttests == DeliverySpec => []ChainAttestsEvents
BY SaveInvariant, PTL DEF SaveInv, ChainOK

(* Concurrent starts and finalizers agree: the session has at most one start *)
(* and one finish, whose reason it keeps.                                    *)
THEOREM SessionStartsAndEndsOnce == DeliverySpec => []OneStartOneEnd
<1>1. SaveInv => OneStartOneEnd
  <2> SUFFICES ASSUME SaveInv PROVE OneStartOneEnd
    OBVIOUS
  <2> DEFINE S == {e \in DOMAIN rows : rows[e].kind \in {"start", "one_shot"}}
             F == {e \in DOMAIN rows : rows[e].kind = "finish"}
  <2>1. SessionOK
    BY DEF SaveInv, BooksInv
  <2>2. (\A x, y \in S : x = y) /\ (\A x, y \in F : x = y)
    BY <2>1 DEF SessionOK, IsStart, IsFinish
  <2>3. \A e \in DOMAIN rows : rows[e].kind = "finish" => session.ended = rows[e].reason
    BY <2>1 DEF SessionOK, IsFinish
  <2> HIDE DEF S, F
  <2>4. Cardinality(S) <= 1 /\ Cardinality(F) <= 1
    BY <2>2, OneElement
  <2> QED BY <2>3, <2>4 DEF S, F, OneStartOneEnd
<1> QED BY <1>1, SaveInvariant, PTL

(* Nobody is told that a terminal reason was applied when another one was.   *)
THEOREM CallersToldTheTruth == DeliverySpec => []ToldTheTruth
BY SaveInvariant, PTL DEF SaveInv, BooksInv, ToldOK, ToldTheTruth

(* The anchor file is a history of the chain, however the publishers         *)
(* overtake each other.                                                      *)
THEOREM AnchorAlwaysHistory == DeliverySpec => []PublishedHistory
BY SaveInvariant, PTL DEF SaveInv, AnchorOK, PublishedHistory

-----------------------------------------------------------------------------
(* Saving implements RecordOnce.                                             *)

(* The abstract log and the abstract bindings.                               *)
LogMap == [e \in Recorded |-> DeliveryOf(e)]
BoundMap == [r \in DOMAIN ledger |-> ledger[r].event]

(* The log keeps its entries when the tables keep the events, wherever a     *)
(* deleted transcript is remembered.                                         *)
LEMMA LogKept ==
  ASSUME rows' = rows, removed' = removed PROVE LogMap' = LogMap
BY DEF LogMap, Recorded, DeliveryOf, RecordedCall, DeliveryRecordID

(* Deleting a transcript keeps the abstract log.                             *)
LEMMA LogKeptByDelete ==
  ASSUME NEW e \in EventIDs, DeleteTranscript(e) PROVE LogMap' = LogMap
<1>1. /\ e \in DOMAIN rows
      /\ DOMAIN rows' = DOMAIN rows \ {e} /\ \A f \in DOMAIN rows \ {e} : rows'[f] = rows[f]
      /\ DOMAIN removed' = DOMAIN removed \cup {e} /\ removed'[e] = rows[e]
      /\ \A f \in DOMAIN removed : f # e => removed'[f] = removed[f]
  BY DEF DeleteTranscript, With
<1>2. Recorded' = Recorded
  BY <1>1 DEF Recorded
<1>3. \A f \in Recorded :
        (IF f \in DOMAIN rows' THEN rows'[f] ELSE removed'[f])
          = (IF f \in DOMAIN rows THEN rows[f] ELSE removed[f])
  BY <1>1 DEF Recorded
<1> QED BY <1>2, <1>3 DEF LogMap, DeliveryOf, RecordedCall, DeliveryRecordID

(* No new receipt, no new binding.                                           *)
LEMMA BoundKept ==
  ASSUME ledger' = ledger PROVE BoundMap' = BoundMap
BY DEF BoundMap

(* A new receipt is a new binding.                                           *)
LEMMA BoundGrows ==
  ASSUME NEW w, NEW e, NewReceipt(w, e)
  PROVE  /\ DeliveryRecordID(calls[w].call) \notin DOMAIN BoundMap
         /\ BoundMap' = Once!Add(BoundMap, DeliveryRecordID(calls[w].call), e)
<1> DEFINE rec == DeliveryRecordID(calls[w].call)
           st == Status(w)
<1>1. /\ rec \notin DOMAIN ledger /\ DOMAIN ledger' = DOMAIN ledger \cup {rec}
      /\ ledger'[rec] = [status |-> st, event |-> e]
      /\ \A x \in DOMAIN ledger : ledger'[x] = ledger[x]
  BY DEF NewReceipt, With
<1> HIDE DEF rec, st
<1>2. BoundMap' = [r \in DOMAIN ledger \cup {rec} |-> IF r = rec THEN e ELSE ledger[r].event]
  BY <1>1 DEF BoundMap
<1>3. Once!Add(BoundMap, rec, e)
        = [r \in DOMAIN ledger \cup {rec} |-> IF r = rec THEN e ELSE ledger[r].event]
  BY DEF BoundMap, Once!Add
<1> QED BY <1>1, <1>2, <1>3 DEF rec, BoundMap

(* A new event is a new entry of the log.                                    *)
LEMMA LogGrows ==
  ASSUME NEW c, NEW e, e \notin Recorded, rows' = With(rows, e, c), removed' = removed
  PROVE  e \notin DOMAIN LogMap /\ LogMap' = Once!Add(LogMap, e, DeliveryRecordID(c))
<1>1. /\ DOMAIN rows' = DOMAIN rows \cup {e} /\ rows'[e] = c
      /\ \A f \in DOMAIN rows : rows'[f] = rows[f]
  BY DEF With, Recorded
<1>2. Recorded' = Recorded \cup {e}
  BY <1>1 DEF Recorded
<1>3. \A f \in Recorded :
        (IF f \in DOMAIN rows' THEN rows'[f] ELSE removed'[f])
          = (IF f \in DOMAIN rows THEN rows[f] ELSE removed[f])
  BY <1>1 DEF Recorded
<1>4. LogMap' = [f \in Recorded \cup {e} |-> IF f = e THEN DeliveryRecordID(c) ELSE DeliveryOf(f)]
  BY <1>1, <1>2, <1>3 DEF LogMap, DeliveryOf, RecordedCall, DeliveryRecordID
<1>5. Once!Add(LogMap, e, DeliveryRecordID(c))
        = [f \in Recorded \cup {e} |-> IF f = e THEN DeliveryRecordID(c) ELSE DeliveryOf(f)]
  BY DEF LogMap, Once!Add
<1> QED BY <1>4, <1>5 DEF LogMap

(* What makes a step record an event or attach a delivery.                   *)
LEMMA OnceRecords ==
  ASSUME NEW d \in Deliveries \cup {None}, NEW e \in EventIDs, answers' = answers,
         e \notin DOMAIN LogMap, LogMap' = Once!Add(LogMap, e, d),
         IF d = None THEN BoundMap' = BoundMap
         ELSE d \notin DOMAIN BoundMap /\ BoundMap' = Once!Add(BoundMap, d, e)
  PROVE  Once!OnceNext
<1>1. Once!Record(d, e)
  BY DEF Once!Record, Once!Bind, LogMap, BoundMap
<1>2. LogMap' # LogMap
  BY DEF Once!Add
<1> QED BY <1>1, <1>2 DEF Once!OnceNext, LogMap

(* Binding a delivery to a recorded event is a step of RecordOnce.           *)
LEMMA OnceAttaches ==
  ASSUME NEW d \in Deliveries, NEW e \in EventIDs, answers' = answers, d # None,
         e \in DOMAIN LogMap, LogMap' = LogMap,
         d \notin DOMAIN BoundMap, BoundMap' = Once!Add(BoundMap, d, e)
  PROVE  Once!OnceNext
<1>1. Once!Attach(d, e)
  BY DEF Once!Attach, Once!Bind, LogMap, BoundMap
<1>2. BoundMap' # BoundMap
  BY DEF Once!Add
<1> QED BY <1>1, <1>2 DEF Once!OnceNext, BoundMap

(* Every step is a step of RecordOnce or leaves its state alone: a new event *)
(* is recorded with its delivery, a repeated registration attaches one, an   *)
(* answer replies.                                                           *)
LEMMA OnceStep ==
  ASSUME SaveInv, [DeliveryNext]_deliveryVars
  PROVE  [Once!OnceNext]_(Once!onceVars)
<1>1. BooksInv /\ chain \in Seq(EventIDs)
  BY DEF SaveInv, ChainOK
<1>2. ASSUME LogMap' = LogMap, BoundMap' = BoundMap, answers' = answers
      PROVE  UNCHANGED Once!onceVars
  BY <1>2 DEF Once!onceVars, LogMap, BoundMap
<1>3. ASSUME NEW w \in Writers, QuietSaveStep(w), ~Answer(w) PROVE UNCHANGED Once!onceVars
  <2>1. QuietStep(w)
    BY <1>1, <1>3, QuietSave DEF QuietSaveStep
  <2>2. rows' = rows /\ removed' = removed /\ ledger' = ledger
    BY <2>1 DEF QuietStep, store
  <2>3. answers' = answers
    BY <1>3 DEF QuietSaveStep, Look, WriteLock, Busy, RollBack, Reconcile, Stop
  <2> QED BY <1>2, <2>2, <2>3, LogKept, BoundKept
<1>4. ASSUME NEW w \in Writers, Answer(w) PROVE Once!OnceNext \/ UNCHANGED Once!onceVars
  <2> DEFINE c == calls[w].call
             d == DeliveryRecordID(c)
             e == calls[w].event
             p == calls[w].ev
  <2>1. /\ rows' = rows /\ removed' = removed /\ ledger' = ledger /\ calls[w].pc = "committed"
        /\ answers' = answers \cup {[proposed |-> p, delivery |-> d, event |-> e]}
    BY <1>4 DEF Answer, store
  <2>2. /\ c \in Calls /\ p \in EventIDs /\ e \in Recorded /\ e \in EventIDs
        /\ c.id # None => d \in DOMAIN ledger /\ ledger[d].event = e
    <3>1. c \in Calls /\ p \in 1..issued /\ issued \in 0..MaxEvents /\ Recorded \subseteq 1..issued
      BY <1>1, <2>1 DEF BooksInv, CallsOK, FreshOK
    <3>2. e \in Recorded /\ (c.id # None => d \in DOMAIN ledger /\ ledger[d].event = e)
      BY <1>1, <2>1 DEF BooksInv, CommittedOK
    <3>3. 1..issued \subseteq EventIDs
      BY <3>1, DeliveryAssumption DEF EventIDs
    <3> HIDE DEF c, d, e, p
    <3> QED BY <3>1, <3>2, <3>3
  <2>3. d \in Deliveries \cup {None} /\ (d # None => c.id # None)
    BY <2>2, RecordID
  <2>4. LogMap' = LogMap /\ BoundMap' = BoundMap /\ DOMAIN LogMap = Recorded
    BY <2>1, LogKept, BoundKept DEF LogMap
  <2> HIDE DEF c, d, e, p
  <2>5. d # None => d \in DOMAIN BoundMap /\ BoundMap[d] = e
    BY <2>2, <2>3 DEF BoundMap
  <2>6. Once!Reply(p, d, e)
    BY <2>1, <2>2, <2>4, <2>5 DEF Once!Reply, LogMap, BoundMap
  <2>7. CASE answers' # answers
    BY <2>2, <2>3, <2>6, <2>7 DEF Once!OnceNext
  <2>8. CASE answers' = answers
    BY <1>2, <2>4, <2>8
  <2> QED BY <2>7, <2>8
<1>5. ASSUME NEW w \in Writers, Redeliver(w) PROVE UNCHANGED Once!onceVars
  BY <1>2, <1>5, LogKept, BoundKept DEF Redeliver
<1>6. ASSUME NEW w \in Writers, Reregister(w) PROVE Once!OnceNext \/ UNCHANGED Once!onceVars
  <2>1. rows' = rows /\ removed' = removed /\ answers' = answers
    BY <1>6 DEF Reregister
  <2>2. ledger' = ledger \/ \E e \in EventIDs \cap Recorded : NewReceipt(w, e)
    BY <1>1, <1>6, ReregisterBooks DEF BooksInv
  <2>3. CASE ledger' = ledger
    BY <1>2, <2>1, <2>3, LogKept, BoundKept
  <2>4. CASE \E e \in EventIDs \cap Recorded : NewReceipt(w, e)
    <3>1. PICK e \in EventIDs \cap Recorded : NewReceipt(w, e)
      BY <2>4
    <3> DEFINE d == DeliveryRecordID(calls[w].call)
    <3>2. calls[w].call \in Calls /\ calls[w].call.id # None
      BY <1>1, <1>6, <3>1 DEF BooksInv, CallsOK, NewReceipt, Reregister, Writing
    <3>3. d \in Deliveries /\ d # None
      BY <3>2, RecordID
    <3>4. /\ d \notin DOMAIN BoundMap /\ BoundMap' = Once!Add(BoundMap, d, e)
          /\ LogMap' = LogMap /\ e \in DOMAIN LogMap
      BY <2>1, <3>1, BoundGrows, LogKept DEF LogMap
    <3> HIDE DEF d
    <3> QED BY <2>1, <3>1, <3>3, <3>4, OnceAttaches
  <2> QED BY <2>2, <2>3, <2>4
<1>7. ASSUME NEW w \in Writers, Insert(w) PROVE Once!OnceNext
  <2> DEFINE c == calls[w].call
             e == calls[w].ev
             d == DeliveryRecordID(c)
  <2>1. /\ NoReceipt(w) \/ NewReceipt(w, e)
        /\ e \in EventIDs \ Recorded /\ rows' = With(rows, e, c)
    BY <1>1, <1>7, InsertBooks DEF BooksInv
  <2>2. removed' = removed /\ answers' = answers /\ c \in Calls
    BY <1>1, <1>7 DEF Insert, Writing, BooksInv, CallsOK
  <2>3. e \notin DOMAIN LogMap /\ LogMap' = Once!Add(LogMap, e, d)
    BY <2>1, <2>2, LogGrows
  <2>4. d \in Deliveries \cup {None}
    BY <2>2, RecordID
  <2>5. IF d = None THEN BoundMap' = BoundMap
        ELSE d \notin DOMAIN BoundMap /\ BoundMap' = Once!Add(BoundMap, d, e)
    <3>1. CASE NoReceipt(w)
      <4>1. d = None /\ ledger' = ledger
        BY <2>2, <3>1, RecordID DEF NoReceipt
      <4> HIDE DEF d
      <4> QED BY <4>1, BoundKept
    <3>2. CASE NewReceipt(w, e)
      <4>1. d # None
        BY <2>2, <3>2, RecordID DEF NewReceipt
      <4>2. d \notin DOMAIN BoundMap /\ BoundMap' = Once!Add(BoundMap, d, e)
        BY <3>2, BoundGrows
      <4> HIDE DEF d
      <4> QED BY <4>1, <4>2
    <3> QED BY <2>1, <3>1, <3>2
  <2> HIDE DEF c, d, e
  <2> QED BY <2>1, <2>2, <2>3, <2>4, <2>5, OnceRecords
<1>8. ASSUME NEW w \in Writers, NEW c \in Calls, Call(w, c) PROVE UNCHANGED Once!onceVars
  BY <1>2, <1>8, LogKept, BoundKept DEF Call, store
<1>9. ASSUME NEW e \in EventIDs, DeleteTranscript(e) PROVE UNCHANGED Once!onceVars
  BY <1>2, <1>9, LogKeptByDelete, BoundKept DEF DeleteTranscript
<1>10. ASSUME StillStep PROVE UNCHANGED Once!onceVars
  BY <1>2, <1>10, LogKept, BoundKept DEF StillStep, AlreadyEnded, Doctor, deliveryVars, store
<1>11. ASSUME NEW w \in Writers, CatchUpStep(w) PROVE UNCHANGED Once!onceVars
  BY <1>1, <1>2, <1>11, CatchUpQuiet, LogKept, BoundKept DEF BooksInv, NotSaving
<1> QED BY <1>3, <1>4, <1>5, <1>6, <1>7, <1>8, <1>9, <1>10, <1>11, DeliverySteps DEF QuietSaveStep

(* Saving an event implements RecordOnce: it is recorded whole or not at     *)
(* all, its delivery is bound to one event for good, and every answer names  *)
(* that event, whatever is retried, raced, redelivered, deleted or stopped.  *)
THEOREM SavingRecordsOnce == DeliverySpec => RecordsOnce
<1>1. DeliveryInit => Once!OnceInit
  BY DEF DeliveryInit, Once!OnceInit, Empty, Recorded
<1>2. SaveInv /\ [DeliveryNext]_deliveryVars => [Once!OnceNext]_(Once!onceVars)
  BY OnceStep
<1> QED BY <1>1, <1>2, SaveInvariant, PTL DEF DeliverySpec, RecordsOnce, Once!OnceSpec

-----------------------------------------------------------------------------
(* What the workspaces were observed to count.                               *)

(* A row counts, and the delivery it names has a receipt: a new delivery is  *)
(* therefore never taken for one that was counted.                           *)
ObservedOK ==
  /\ DOMAIN observations \subseteq ObservationKeys
  /\ \A k \in DOMAIN observations :
       observations[k].count \in Nat \ {0} /\ observations[k].rec \in DOMAIN ledger \cup {None}

(* An event was observed before there was a session with a workspace, or     *)
(* under the relationship that its workspace has had ever since.             *)
Relationships(ws) == {"unknown", ClassifyWorkspaceRelationship(session.ws, ws)}
RelatedOK == \A k \in DOMAIN observations : k[4] = "primary" => k[2] \in Relationships(k[1])

RecordedOK == \A e \in Recorded : RecordedCall(e) \in Calls

(* A batch about to be written was classified as the session still says, or  *)
(* as unknown; what it has as unknown is there.                              *)
Classified(b, canonical) ==
  /\ b \subseteq Recorded
  /\ canonical \in {None, session.ws}
  /\ \A e \in b : ClassifyWorkspaceRelationship(canonical, RecordedCall(e).ws) = "unknown" =>
       <<RecordedCall(e).ws, "unknown", RecordedCall(e).kind, "primary">> \in DOMAIN observations
BatchOK ==
  \A w \in Writers : At(w, "begin") \/ At(w, "write") =>
    Classified(opening[w].batch, opening[w].canonical)

(* The inductive invariant of the counts.                                    *)
TallyInv == ObservedOK /\ RelatedOK /\ RecordedOK /\ BatchOK /\ PrimaryCountsEvents

(* The row of an observation, and what is in it once it is counted.          *)
RowKey(c, kind) == <<c.ws, relationship(c), c.kind, kind>>
OneCounted(c, kind) ==
  \E n \in Nat :
    /\ n = IF RowKey(c, kind) \in DOMAIN observations THEN observations[RowKey(c, kind)].count ELSE 0
    /\ observations' = With(observations, RowKey(c, kind),
                            [count |-> n + 1, rec |-> DeliveryRecordID(c), attr |-> c.ws])

(* The key of a row is one of the keys.                                      *)
LEMMA RowKeys ==
  ASSUME NEW c \in Calls, NEW kind \in {"primary", "supplemental"}
  PROVE  RowKey(c, kind) \in ObservationKeys
<1>1. c.ws \in Workspaces /\ c.kind \in Kinds
  BY DeliveryAssumption DEF Workspaces
<1>2. relationship(c) \in {"unknown", "exact", "conflict"}
  BY DEF relationship, ClassifyWorkspaceRelationship
<1> QED BY <1>1, <1>2 DEF RowKey, ObservationKeys

(* An upsert leaves the rows or counts one observation.                      *)
LEMMA UpsertCounts ==
  ASSUME ObservedOK, NEW c \in Calls, NEW kind \in {"primary", "supplemental"},
         upsertWorkspaceObservation(c, kind)
  PROVE  /\ observations' = observations \/ OneCounted(c, kind)
         /\ DeliveryRecordID(c) \notin DOMAIN ledger => OneCounted(c, kind)
<1> DEFINE rec == DeliveryRecordID(c)
           n == IF RowKey(c, kind) \in DOMAIN observations THEN observations[RowKey(c, kind)].count ELSE 0
           known == rec # None /\ \E k \in DOMAIN observations :
                                    observations[k].rec = rec /\ observations[k].attr = c.ws
<1>1. observations' = IF known THEN observations
                      ELSE With(observations, RowKey(c, kind), [count |-> n + 1, rec |-> rec, attr |-> c.ws])
  BY DEF upsertWorkspaceObservation, RowKey
<1>2. n \in Nat
  BY DEF ObservedOK
<1>3. known => rec \in DOMAIN ledger
  BY DEF ObservedOK
<1> HIDE DEF known
<1>4. ~known => OneCounted(c, kind)
  BY <1>1, <1>2 DEF OneCounted
<1> QED BY <1>1, <1>3, <1>4

(* The rows after one observation.                                           *)
LEMMA CountedRows ==
  ASSUME ObservedOK, NEW c \in Calls, NEW kind \in {"primary", "supplemental"}, OneCounted(c, kind),
         DOMAIN ledger \subseteq DOMAIN ledger', DeliveryRecordID(c) \in DOMAIN ledger' \cup {None}
  PROVE  ObservedOK'
<1> DEFINE key == RowKey(c, kind)
           rec == DeliveryRecordID(c)
<1>1. PICK n \in Nat : observations' = With(observations, key, [count |-> n + 1, rec |-> rec, attr |-> c.ws])
  BY DEF OneCounted
<1>2. key \in ObservationKeys
  BY RowKeys
<1>3. rec \in DOMAIN ledger' \cup {None}
  OBVIOUS
<1> HIDE DEF key, rec
<1>4. /\ DOMAIN observations' = DOMAIN observations \cup {key}
      /\ observations'[key].count = n + 1 /\ observations'[key].rec = rec
      /\ \A k \in DOMAIN observations \ {key} : observations'[k] = observations[k]
  BY <1>1 DEF With
<1>5. ObservationKeys' = ObservationKeys
  BY DEF ObservationKeys, Workspaces, Kinds
<1> QED BY <1>2, <1>3, <1>4, <1>5 DEF ObservedOK

(* The counts after one observation.                                         *)
LEMMA CountsAfter ==
  ASSUME ObservedOK, NEW c \in Calls, NEW kind \in {"primary", "supplemental"}, OneCounted(c, kind)
  PROVE  /\ \A ws, rel, k : RowKey(c, kind) # <<ws, rel, k, "primary">> =>
              Counted(ws, rel, k)' = Counted(ws, rel, k)
         /\ \A rel : kind = "primary" /\ rel = relationship(c) =>
              Counted(c.ws, rel, c.kind)' = Counted(c.ws, rel, c.kind) + 1
<1> DEFINE key == RowKey(c, kind)
           rec == DeliveryRecordID(c)
<1>1. PICK n \in Nat :
        /\ n = IF key \in DOMAIN observations THEN observations[key].count ELSE 0
        /\ observations' = With(observations, key, [count |-> n + 1, rec |-> rec, attr |-> c.ws])
  BY DEF OneCounted
<1>2. ASSUME NEW rel, kind = "primary", rel = relationship(c)
      PROVE  key = <<c.ws, rel, c.kind, "primary">>
  BY <1>2 DEF RowKey
<1> HIDE DEF key, rec
<1>3. /\ DOMAIN observations' = DOMAIN observations \cup {key}
      /\ observations'[key].count = n + 1
      /\ \A k \in DOMAIN observations \ {key} : observations'[k] = observations[k]
  BY <1>1 DEF With
<1>4. ASSUME NEW ws, NEW rel, NEW k, key # <<ws, rel, k, "primary">>
      PROVE  Counted(ws, rel, k)' = Counted(ws, rel, k)
  BY <1>3, <1>4 DEF Counted
<1>5. ASSUME NEW rel, kind = "primary", rel = relationship(c)
      PROVE  Counted(c.ws, rel, c.kind)' = Counted(c.ws, rel, c.kind) + 1
  <2>1. key = <<c.ws, rel, c.kind, "primary">>
    BY <1>2, <1>5
  <2> QED BY <1>1, <1>3, <2>1 DEF Counted
<1> QED BY <1>4, <1>5 DEF key

(* The events of a workspace and kind are finitely many.                     *)
LEMMA EventsFinite ==
  ASSUME FreshOK, CallsOK, NEW ws, NEW kind
  PROVE  IsFiniteSet(EventsOf(ws, kind)) /\ Cardinality(EventsOf(ws, kind)) \in Nat
<1>0. MaxEvents \in Nat /\ issued \in 0..MaxEvents /\ Recorded \subseteq 1..issued
  BY DeliveryAssumption DEF CallsOK, FreshOK
<1>1. issued \in Int /\ 1 \in Int /\ EventsOf(ws, kind) \subseteq 1..issued
  <2>1. EventsOf(ws, kind) \subseteq Recorded
    BY DEF EventsOf
  <2>2. issued \in Int /\ 1 \in Int
    BY <1>0
  <2>3. EventsOf(ws, kind) \subseteq 1..issued
    BY <1>0, <2>1, Zenon
  <2> QED BY <2>2, <2>3
<1>2. IsFiniteSet(EventsOf(ws, kind))
  BY <1>1, FS_Interval, FS_Subset
<1> QED BY <1>2, FS_CardinalityType

(* A new event is one more of its workspace and kind.                        *)
LEMMA EventsGrow ==
  ASSUME FreshOK, CallsOK, NEW c \in Calls, NEW e, e \notin Recorded, rows' = With(rows, e, c),
         removed' = removed
  PROVE  /\ \A ws, kind : ws # c.ws \/ kind # c.kind => EventsOf(ws, kind)' = EventsOf(ws, kind)
         /\ Cardinality(EventsOf(c.ws, c.kind))' = Cardinality(EventsOf(c.ws, c.kind)) + 1
<1>1. /\ DOMAIN rows' = DOMAIN rows \cup {e} /\ rows'[e] = c
      /\ \A f \in DOMAIN rows : rows'[f] = rows[f]
  BY DEF With, Recorded
<1>2. Recorded' = Recorded \cup {e}
  BY <1>1 DEF Recorded
<1>3. /\ \A f \in Recorded : RecordedCall(f)' = RecordedCall(f)
      /\ RecordedCall(e)' = c
  BY <1>1 DEF Recorded, RecordedCall
<1>4. ASSUME NEW ws, NEW kind, ws # c.ws \/ kind # c.kind
      PROVE  EventsOf(ws, kind)' = EventsOf(ws, kind)
  BY <1>2, <1>3, <1>4 DEF EventsOf
<1>5. EventsOf(c.ws, c.kind)' = EventsOf(c.ws, c.kind) \cup {e} /\ e \notin EventsOf(c.ws, c.kind)
  BY <1>2, <1>3 DEF EventsOf
<1>6. Cardinality(EventsOf(c.ws, c.kind) \cup {e}) = Cardinality(EventsOf(c.ws, c.kind)) + 1
  BY <1>5, EventsFinite, FS_AddElement
<1> QED BY <1>4, <1>5, <1>6

(* The count of the events against the counts of the rows.                   *)
Balances(u, x, y, n) == u + x + y = n \/ (u + x + y = n + 1 /\ u > 0 /\ x + y > 0)
LEMMA Balanced ==
  ASSUME PrimaryCountsEvents, NEW ws \in Workspaces, NEW kind \in Kinds
  PROVE  Balances(Counted(ws, "unknown", kind), Counted(ws, "exact", kind),
                  Counted(ws, "conflict", kind), Cardinality(EventsOf(ws, kind)))
BY DEF PrimaryCountsEvents, Total, Balances
LEMMA BalancedAfter ==
  ASSUME ObservedOK',
         \A ws \in Workspaces, kind \in Kinds :
           Balances(Counted(ws, "unknown", kind)', Counted(ws, "exact", kind)',
                    Counted(ws, "conflict", kind)', Cardinality(EventsOf(ws, kind)'))
  PROVE  PrimaryCountsEvents'
<1>1. Workspaces' = Workspaces /\ Kinds' = Kinds
  BY DEF Workspaces, Kinds
<1> QED BY <1>1 DEF ObservedOK, PrimaryCountsEvents, Total, Balances

(* Nothing recorded and nothing forgotten: the counts stay right.            *)
TallyKept ==
  /\ \A ws, kind : EventsOf(ws, kind)' = EventsOf(ws, kind)
  /\ \A ws, rel, kind : Counted(ws, rel, kind)' = Counted(ws, rel, kind)

(* The counts stay right when both sides stay.                               *)
LEMMA KeptTally ==
  ASSUME PrimaryCountsEvents, ObservedOK', TallyKept
  PROVE  PrimaryCountsEvents'
<1>1. ASSUME NEW ws \in Workspaces, NEW kind \in Kinds
      PROVE  Balances(Counted(ws, "unknown", kind)', Counted(ws, "exact", kind)',
                      Counted(ws, "conflict", kind)', Cardinality(EventsOf(ws, kind)'))
  <2>1. Balances(Counted(ws, "unknown", kind), Counted(ws, "exact", kind),
                 Counted(ws, "conflict", kind), Cardinality(EventsOf(ws, kind)))
    BY Balanced
  <2> QED BY <2>1 DEF TallyKept
<1> QED BY <1>1, BalancedAfter

(* The session keeps its workspace once it has one, and a relationship found *)
(* under it holds for good.                                                  *)
WorkspaceKept == session'.ws = session.ws \/ session.ws = None
LEMMA RelatedKept ==
  ASSUME RelatedOK, WorkspaceKept,
         \A k \in DOMAIN observations' \ DOMAIN observations :
           k[4] = "primary" => k[2] \in {"unknown", ClassifyWorkspaceRelationship(session'.ws, k[1])}
  PROVE  RelatedOK'
BY DEF RelatedOK, Relationships, WorkspaceKept, ClassifyWorkspaceRelationship

(* Batches stay classified while events and rows are only added.             *)
EventsKept ==
  Recorded \subseteq Recorded' /\ \A e \in Recorded : RecordedCall(e)' = RecordedCall(e)
LEMMA ClassifiedKept ==
  ASSUME NEW b, NEW canonical, Classified(b, canonical), WorkspaceKept, EventsKept,
         DOMAIN observations \subseteq DOMAIN observations'
  PROVE  Classified(b, canonical)'
<1>1. /\ b \subseteq Recorded' /\ canonical \in {None, session'.ws}
      /\ \A e \in b : RecordedCall(e)' = RecordedCall(e)
  BY DEF Classified, WorkspaceKept, EventsKept
<1> QED BY <1>1 DEF Classified, ClassifyWorkspaceRelationship
LEMMA BatchKept ==
  ASSUME BatchOK, opening' = opening, WorkspaceKept, EventsKept,
         DOMAIN observations \subseteq DOMAIN observations'
  PROVE  BatchOK'
<1>1. ASSUME NEW w \in Writers, At(w, "begin") \/ At(w, "write")
      PROVE  Classified(opening[w].batch, opening[w].canonical)'
  <2>1. PICK b, canonical : b = opening[w].batch /\ canonical = opening[w].canonical
    OBVIOUS
  <2>2. Classified(b, canonical)'
    BY <1>1, <2>1, ClassifiedKept DEF BatchOK
  <2> QED BY <2>1, <2>2
<1> QED BY <1>1 DEF BatchOK, At

(* A step that leaves the events, the session and the rows, and drops no     *)
(* receipt.                                                                  *)
LEMMA StillTally ==
  ASSUME TallyInv, rows' = rows, removed' = removed, observations' = observations,
         session' = session, opening' = opening, DOMAIN ledger \subseteq DOMAIN ledger'
  PROVE  TallyInv'
<1>1. ObservedOK'
  BY DEF TallyInv, ObservedOK, ObservationKeys, Workspaces, Kinds
<1>2. TallyKept
  BY DEF TallyKept, EventsOf, Counted, Recorded, RecordedCall
<1>3. WorkspaceKept /\ EventsKept
  BY DEF WorkspaceKept, EventsKept, Recorded, RecordedCall
<1>4. RelatedOK' /\ BatchOK'
  BY <1>3, RelatedKept, BatchKept DEF TallyInv
<1>5. RecordedOK'
  BY DEF TallyInv, RecordedOK, Recorded, RecordedCall
<1> QED BY <1>1, <1>2, <1>4, <1>5, KeptTally DEF TallyInv

(* A supplemental observation counts for no event.                           *)
LEMMA SupplementalTally ==
  ASSUME TallyInv, NEW c \in Calls, upsertWorkspaceObservation(c, "supplemental"),
         rows' = rows, removed' = removed, session' = session, opening' = opening,
         DOMAIN ledger \subseteq DOMAIN ledger', DeliveryRecordID(c) \in DOMAIN ledger' \cup {None}
  PROVE  TallyInv'
<1>1. ObservedOK
  BY DEF TallyInv
<1>2. observations' = observations \/ OneCounted(c, "supplemental")
  BY <1>1, UpsertCounts
<1>3. CASE observations' = observations
  BY <1>3, StillTally
<1>4. CASE OneCounted(c, "supplemental")
  <2>1. ObservedOK'
    BY <1>1, <1>4, CountedRows
  <2>2. \A ws, rel, k : RowKey(c, "supplemental") # <<ws, rel, k, "primary">>
    BY DEF RowKey
  <2>3. \A ws, rel, k : Counted(ws, rel, k)' = Counted(ws, rel, k)
    BY <1>1, <1>4, <2>2, CountsAfter
  <2>4. \A ws, kind : EventsOf(ws, kind)' = EventsOf(ws, kind)
    BY DEF EventsOf, Recorded, RecordedCall
  <2>5. PICK key : key = RowKey(c, "supplemental")
    OBVIOUS
  <2>6. DOMAIN observations' = DOMAIN observations \cup {key} /\ key[4] = "supplemental"
    BY <1>4, <2>5 DEF OneCounted, With, RowKey
  <2>7. WorkspaceKept /\ EventsKept
    BY DEF WorkspaceKept, EventsKept, Recorded, RecordedCall
  <2>8. RelatedOK' /\ BatchOK'
    BY <2>6, <2>7, RelatedKept, BatchKept DEF TallyInv
  <2>9. RecordedOK'
    BY DEF TallyInv, RecordedOK, Recorded, RecordedCall
  <2> QED BY <2>1, <2>3, <2>4, <2>8, <2>9, KeptTally DEF TallyKept, TallyInv
<1> QED BY <1>2, <1>3, <1>4

(* A new event and its primary observation are counted together.             *)
LEMMA PrimaryTally ==
  ASSUME TallyInv, FreshOK, CallsOK, NEW c \in Calls, NEW e, e \notin Recorded,
         rows' = With(rows, e, c), removed' = removed, opening' = opening,
         WorkspaceKept, NEW rel0, rel0 = relationship(c),
         rel0 \in {"unknown", ClassifyWorkspaceRelationship(session'.ws, c.ws)},
         upsertWorkspaceObservation(c, "primary"), DeliveryRecordID(c) \notin DOMAIN ledger,
         DOMAIN ledger \subseteq DOMAIN ledger', DeliveryRecordID(c) \in DOMAIN ledger' \cup {None}
  PROVE  TallyInv'
<1>1. ObservedOK /\ OneCounted(c, "primary")
  BY UpsertCounts DEF TallyInv
<1>2. ObservedOK'
  BY <1>1, CountedRows
<1>3. rel0 \in {"unknown", "exact", "conflict"}
  BY DEF ClassifyWorkspaceRelationship
<1>4. RowKey(c, "primary") = <<c.ws, rel0, c.kind, "primary">>
  BY DEF RowKey
<1>5. \A ws, rel, k : <<c.ws, rel0, c.kind>> # <<ws, rel, k>> =>
        Counted(ws, rel, k)' = Counted(ws, rel, k)
  <2> SUFFICES ASSUME NEW ws, NEW rel, NEW k, <<c.ws, rel0, c.kind>> # <<ws, rel, k>>
               PROVE  Counted(ws, rel, k)' = Counted(ws, rel, k)
    OBVIOUS
  <2>1. RowKey(c, "primary") # <<ws, rel, k, "primary">>
    BY <1>4
  <2> QED BY <1>1, <2>1, CountsAfter
<1>6. Counted(c.ws, rel0, c.kind)' = Counted(c.ws, rel0, c.kind) + 1
  BY <1>1, CountsAfter
<1>7. \A ws, rel, k : Counted(ws, rel, k) \in Nat
  BY <1>1 DEF ObservedOK, Counted
<1>8. ASSUME NEW ws \in Workspaces, NEW kind \in Kinds
      PROVE  Balances(Counted(ws, "unknown", kind)', Counted(ws, "exact", kind)',
                      Counted(ws, "conflict", kind)', Cardinality(EventsOf(ws, kind)'))
  <2>1. /\ Balances(Counted(ws, "unknown", kind), Counted(ws, "exact", kind),
                    Counted(ws, "conflict", kind), Cardinality(EventsOf(ws, kind)))
        /\ Counted(ws, "unknown", kind) \in Nat /\ Counted(ws, "exact", kind) \in Nat
        /\ Counted(ws, "conflict", kind) \in Nat /\ Cardinality(EventsOf(ws, kind)) \in Nat
    BY <1>7, Balanced, EventsFinite DEF TallyInv
  <2>2. CASE ws = c.ws /\ kind = c.kind
    <3>1. Cardinality(EventsOf(ws, kind)') = Cardinality(EventsOf(ws, kind)) + 1
      BY <2>2, EventsGrow
    <3>2. Counted(ws, rel0, kind)' = Counted(ws, rel0, kind) + 1
      BY <1>6, <2>2
    <3>3. \A rel \in {"unknown", "exact", "conflict"} \ {rel0} :
            Counted(ws, rel, kind)' = Counted(ws, rel, kind)
      BY <1>5
    <3>4. CASE rel0 = "unknown"
      BY <2>1, <3>1, <3>2, <3>3, <3>4 DEF Balances
    <3>5. CASE rel0 = "exact"
      BY <2>1, <3>1, <3>2, <3>3, <3>5 DEF Balances
    <3>6. CASE rel0 = "conflict"
      BY <2>1, <3>1, <3>2, <3>3, <3>6 DEF Balances
    <3> QED BY <1>3, <3>4, <3>5, <3>6
  <2>3. CASE ws # c.ws \/ kind # c.kind
    <3>1. EventsOf(ws, kind)' = EventsOf(ws, kind)
      BY <2>3, EventsGrow
    <3>2. \A rel : Counted(ws, rel, kind)' = Counted(ws, rel, kind)
      BY <1>5, <2>3
    <3> QED BY <2>1, <3>1, <3>2
  <2> QED BY <2>2, <2>3
<1>9. PrimaryCountsEvents'
  BY <1>2, <1>8, BalancedAfter
<1>10. PICK key : key = RowKey(c, "primary")
  OBVIOUS
<1>11. /\ DOMAIN observations' = DOMAIN observations \cup {key}
       /\ key[1] = c.ws /\ key[2] = rel0
  BY <1>1, <1>4, <1>10 DEF OneCounted, With
<1>12. RelatedOK'
  BY <1>11, RelatedKept DEF TallyInv
<1>13. EventsKept /\ RecordedOK'
  <2>1. /\ DOMAIN rows' = DOMAIN rows \cup {e} /\ rows'[e] = c
        /\ \A f \in DOMAIN rows : rows'[f] = rows[f]
    BY DEF With, Recorded
  <2>2. Recorded' = Recorded \cup {e}
    BY <2>1 DEF Recorded
  <2>3. /\ \A f \in Recorded : RecordedCall(f)' = RecordedCall(f)
        /\ RecordedCall(e)' = c
    BY <2>1 DEF Recorded, RecordedCall
  <2> QED BY <2>2, <2>3 DEF EventsKept, RecordedOK, TallyInv
<1>14. BatchOK'
  BY <1>11, <1>13, BatchKept DEF TallyInv
<1> QED BY <1>2, <1>9, <1>12, <1>13, <1>14 DEF TallyInv

(* The steps that write: a new event, a redelivery, a registration that was  *)
(* there, and the deletion of a transcript, which its observation outlives.  *)
LEMMA InsertTally ==
  ASSUME BooksInv, chain \in Seq(EventIDs), TallyInv, NEW w \in Writers, Insert(w)
  PROVE  TallyInv'
<1>1. PICK c \in Calls : c = calls[w].call
  BY DEF BooksInv, CallsOK, Insert, Writing
<1>2. PICK e \in EventIDs : e = calls[w].ev
  BY InsertBooks DEF BooksInv
<1>3. /\ CallsOK /\ FreshOK /\ e \notin Recorded /\ rows' = With(rows, e, c) /\ removed' = removed
      /\ NoReceipt(w) \/ NewReceipt(w, calls[w].ev)
  BY <1>1, <1>2, InsertBooks DEF BooksInv, CommitStep
<1>4. upsertWorkspaceObservation(c, "primary")
  BY <1>1 DEF Insert
<1>5. DeliveryRecordID(c) \notin DOMAIN ledger
  BY <1>1, ReadsHold DEF BooksInv, Insert, Writing
<1>6. DOMAIN ledger \subseteq DOMAIN ledger' /\ DeliveryRecordID(c) \in DOMAIN ledger' \cup {None}
  <2>1. CASE NoReceipt(w)
    BY <1>1, <2>1, RecordID DEF NoReceipt
  <2>2. CASE NewReceipt(w, calls[w].ev)
    <3>1. PICK rec : rec = DeliveryRecordID(c)
      OBVIOUS
    <3>2. DOMAIN ledger' = DOMAIN ledger \cup {rec}
      BY <1>1, <2>2, <3>1 DEF NewReceipt, With
    <3> QED BY <3>1, <3>2
  <2> QED BY <1>3, <2>1, <2>2
<1>7. PICK rel : rel = relationship(c)
  OBVIOUS
<1>8. /\ WorkspaceKept /\ opening' = opening
      /\ rel \in {"unknown", ClassifyWorkspaceRelationship(session'.ws, c.ws)}
  <2>1. saveSessionBoundary(c) /\ opening' = opening
    BY <1>1 DEF Insert, catchUpVars
  <2>2. session = [mode |-> session.mode, ws |-> session.ws, ended |-> session.ended]
    BY DEF BooksInv, SessionOK
  <2>3. ~RefusedBy(c, FALSE)
    BY <1>1 DEF Insert
  <2>4. CASE session = NoSession
    <3>1. session.ws = None /\ session.mode = "none" /\ c.kind # "finish"
      BY <2>3, <2>4 DEF NoSession, RefusedBy
    <3>2. c.kind \in {"start", "one_shot"} => session'.ws = c.ws
      BY <2>1, <2>4, <3>1 DEF saveSessionBoundary, insertSessionRowIfMissing, Boundary
    <3> QED BY <1>7, <2>1, <2>4, <3>1, <3>2
            DEF WorkspaceKept, relationship, ClassifyWorkspaceRelationship
  <2>5. CASE session # NoSession
    <3>1. session'.ws = session.ws
      BY <2>1, <2>2, <2>5 DEF saveSessionBoundary, insertSessionRowIfMissing
    <3> QED BY <1>7, <2>1, <2>5, <3>1 DEF WorkspaceKept, relationship
  <2> QED BY <2>4, <2>5
<1> QED BY <1>3, <1>4, <1>5, <1>6, <1>7, <1>8, PrimaryTally

(* An exact redelivery counts at most a supplemental observation.            *)
LEMMA RedeliverTally ==
  ASSUME BooksInv, TallyInv, NEW w \in Writers, Redeliver(w)
  PROVE  TallyInv'
<1>1. PICK c \in Calls : c = calls[w].call
  BY DEF BooksInv, CallsOK, Redeliver, Writing
<1>2. /\ upsertWorkspaceObservation(c, "supplemental") /\ rows' = rows /\ removed' = removed
      /\ ledger' = ledger /\ session' = session /\ opening' = opening
  BY <1>1 DEF Redeliver, catchUpVars
<1>3. DeliveryRecordID(c) \in DOMAIN ledger
  BY <1>1, ReadsHold DEF BooksInv, Redeliver, Writing
<1> QED BY <1>2, <1>3, SupplementalTally

(* A repeated registration counts none, or a supplemental one.               *)
LEMMA ReregisterTally ==
  ASSUME BooksInv, TallyInv, NEW w \in Writers, Reregister(w)
  PROVE  TallyInv'
<1>1. PICK c \in Calls : c = calls[w].call
  BY DEF BooksInv, CallsOK, Reregister, Writing
<1>2. PICK rec : rec = DeliveryRecordID(c)
  OBVIOUS
<1>3. /\ rows' = rows /\ removed' = removed /\ session' = session /\ opening' = opening
      /\ IF c.id = None THEN observations' = observations
         ELSE upsertWorkspaceObservation(c, "supplemental")
  BY <1>1 DEF Reregister, catchUpVars
<1>4. DOMAIN ledger \subseteq DOMAIN ledger' /\ (c.id # None => rec \in DOMAIN ledger')
  <2>1. CASE calls[w].found # None
    <3>1. ledger' = ledger
      BY <2>1 DEF Reregister
    <3>2. rec \in DOMAIN ledger
      BY <1>1, <1>2, <2>1, ReadsHold DEF BooksInv, Reregister, Writing
    <3> QED BY <3>1, <3>2
  <2>2. CASE calls[w].found = None /\ c.id = None
    BY <1>1, <2>2 DEF Reregister, insertHookDelivery
  <2>3. CASE calls[w].found = None /\ c.id # None
    <3>1. \E v : ledger' = With(ledger, rec, v)
      BY <1>1, <1>2, <2>3 DEF Reregister, insertHookDelivery
    <3> QED BY <3>1 DEF With
  <2> QED BY <2>1, <2>2, <2>3
<1>5. CASE c.id = None
  BY <1>3, <1>4, <1>5, StillTally
<1>6. CASE c.id # None
  BY <1>2, <1>3, <1>4, <1>6, SupplementalTally
<1> QED BY <1>5, <1>6

(* A deleted transcript stays counted.                                       *)
LEMMA DeleteTally ==
  ASSUME TallyInv, NEW e \in EventIDs, DeleteTranscript(e)
  PROVE  TallyInv'
<1>1. /\ e \in DOMAIN rows
      /\ DOMAIN rows' = DOMAIN rows \ {e} /\ \A f \in DOMAIN rows \ {e} : rows'[f] = rows[f]
      /\ DOMAIN removed' = DOMAIN removed \cup {e} /\ removed'[e] = rows[e]
      /\ \A f \in DOMAIN removed : f # e => removed'[f] = removed[f]
      /\ observations' = observations /\ ledger' = ledger
      /\ session' = session /\ opening' = opening
  BY DEF DeleteTranscript, With, catchUpVars
<1>2. Recorded' = Recorded
  BY <1>1 DEF Recorded
<1>3. \A f \in Recorded : RecordedCall(f)' = RecordedCall(f)
  BY <1>1 DEF Recorded, RecordedCall
<1>4. ObservedOK'
  BY <1>1 DEF TallyInv, ObservedOK, ObservationKeys, Workspaces, Kinds
<1>5. \A ws, kind : EventsOf(ws, kind)' = EventsOf(ws, kind)
  BY <1>2, <1>3 DEF EventsOf
<1>6. \A ws, rel, kind : Counted(ws, rel, kind)' = Counted(ws, rel, kind)
  BY <1>1 DEF Counted
<1>7. WorkspaceKept /\ EventsKept
  BY <1>1, <1>2, <1>3 DEF WorkspaceKept, EventsKept
<1>8. RelatedOK' /\ BatchOK'
  BY <1>1, <1>7, RelatedKept, BatchKept DEF TallyInv
<1>9. RecordedOK'
  BY <1>2, <1>3 DEF TallyInv, RecordedOK
<1> QED BY <1>4, <1>5, <1>6, <1>8, <1>9, KeptTally DEF TallyKept, TallyInv

(* An event whose workspace has no relationship to the session's was         *)
(* observed as unknown.                                                      *)
LEMMA UnknownObserved ==
  ASSUME TallyInv, FreshOK, CallsOK, NEW e \in Recorded,
         ClassifyWorkspaceRelationship(session.ws, RecordedCall(e).ws) = "unknown"
  PROVE  <<RecordedCall(e).ws, "unknown", RecordedCall(e).kind, "primary">> \in DOMAIN observations
<1>1. PICK ws, kind : ws = RecordedCall(e).ws /\ kind = RecordedCall(e).kind
  OBVIOUS
<1>2. ws \in Workspaces /\ kind \in Kinds
  BY <1>1, DeliveryAssumption DEF TallyInv, RecordedOK, Workspaces
<1>3. Cardinality(EventsOf(ws, kind)) \in Nat \ {0}
  <2>1. EventsOf(ws, kind) # {}
    BY <1>1 DEF EventsOf
  <2> QED BY <2>1, EventsFinite, FS_EmptySet
<1>4. ASSUME NEW rel \in {"exact", "conflict"} PROVE Counted(ws, rel, kind) = 0
  <2>1. PICK k : k = <<ws, rel, kind, "primary">>
    OBVIOUS
  <2>2. k \notin DOMAIN observations
    BY <1>1, <2>1 DEF TallyInv, RelatedOK, Relationships
  <2> QED BY <2>1, <2>2 DEF Counted
<1>5. Balances(Counted(ws, "unknown", kind), 0, 0, Cardinality(EventsOf(ws, kind)))
  BY <1>2, <1>4, Balanced DEF TallyInv
<1>6. Counted(ws, "unknown", kind) # 0
  BY <1>3, <1>5 DEF Balances
<1> QED BY <1>1, <1>6 DEF Counted

(* The rows a batch adds: each the first of its relationship, for events     *)
(* that were all observed as unknown.                                        *)
LEMMA BackfillRows ==
  ASSUME TallyInv, FreshOK, CallsOK, NEW b, NEW canonical, Classified(b, canonical),
         observations' = backfilled(b, canonical)
  PROVE  \E keys :
           /\ observations' = [k \in DOMAIN observations \cup keys |->
                                 IF k \in DOMAIN observations THEN observations[k]
                                 ELSE [count |-> 1, rec |-> None, attr |-> k[1]]]
           /\ \A k \in keys \ DOMAIN observations :
                /\ k[1] \in Workspaces /\ k[3] \in Kinds
                /\ k[2] \in {"exact", "conflict"}
                /\ k[2] = ClassifyWorkspaceRelationship(session.ws, k[1])
                /\ k = <<k[1], k[2], k[3], "primary">>
                /\ EventsOf(k[1], k[3]) # {}
<1> DEFINE keys == {backfillKey(e, canonical) : e \in b}
<1>1. observations' = [k \in DOMAIN observations \cup keys |->
                         IF k \in DOMAIN observations THEN observations[k]
                         ELSE [count |-> 1, rec |-> None, attr |-> k[1]]]
  BY DEF backfilled
<1>2. ASSUME NEW k \in keys \ DOMAIN observations
      PROVE  /\ k[1] \in Workspaces /\ k[3] \in Kinds
             /\ k[2] \in {"exact", "conflict"}
             /\ k[2] = ClassifyWorkspaceRelationship(session.ws, k[1])
             /\ k = <<k[1], k[2], k[3], "primary">>
             /\ EventsOf(k[1], k[3]) # {}
  <2>1. PICK e \in b : k = backfillKey(e, canonical)
    OBVIOUS
  <2>2. PICK c \in Calls : c = RecordedCall(e) /\ e \in Recorded
    BY DEF TallyInv, RecordedOK, Classified
  <2>3. PICK rel : rel = ClassifyWorkspaceRelationship(canonical, c.ws)
    OBVIOUS
  <2>4. k = <<c.ws, rel, c.kind, "primary">>
    BY <2>1, <2>2, <2>3 DEF backfillKey
  <2>5. rel # "unknown" /\ canonical \in {None, session.ws}
    BY <2>2, <2>3, <2>4 DEF Classified
  <2>6. rel \in {"exact", "conflict"} /\ rel = ClassifyWorkspaceRelationship(session.ws, c.ws)
    BY <2>3, <2>5 DEF ClassifyWorkspaceRelationship
  <2>7. e \in EventsOf(c.ws, c.kind)
    BY <2>2 DEF EventsOf
  <2>8. c.ws \in Workspaces /\ c.kind \in Kinds
    BY DeliveryAssumption DEF Workspaces
  <2>9. k[1] = c.ws /\ k[2] = rel /\ k[3] = c.kind
    BY <2>4
  <2> QED BY <2>4, <2>6, <2>7, <2>8, <2>9
<1> QED BY <1>1, <1>2

(* A batch counts at most one event again, in a workspace and kind that had  *)
(* only been observed as unknown.                                            *)
LEMMA BackfillTally ==
  ASSUME TallyInv, FreshOK, CallsOK, NEW b, NEW canonical, Classified(b, canonical),
         observations' = backfilled(b, canonical),
         UNCHANGED <<rows, removed, session, ledger>>
  PROVE  /\ ObservedOK' /\ RelatedOK' /\ PrimaryCountsEvents'
         /\ DOMAIN observations \subseteq DOMAIN observations'
<1>1. PICK keys :
        /\ observations' = [k \in DOMAIN observations \cup keys |->
                              IF k \in DOMAIN observations THEN observations[k]
                              ELSE [count |-> 1, rec |-> None, attr |-> k[1]]]
        /\ \A k \in keys \ DOMAIN observations :
             /\ k[1] \in Workspaces /\ k[3] \in Kinds
             /\ k[2] \in {"exact", "conflict"}
             /\ k[2] = ClassifyWorkspaceRelationship(session.ws, k[1])
             /\ k = <<k[1], k[2], k[3], "primary">>
             /\ EventsOf(k[1], k[3]) # {}
  BY BackfillRows
<1>2. /\ DOMAIN observations' = DOMAIN observations \cup keys
      /\ \A k \in DOMAIN observations : observations'[k] = observations[k]
      /\ \A k \in keys \ DOMAIN observations :
           observations'[k].count = 1 /\ observations'[k].rec = None
  BY <1>1
<1>3. ObservedOK'
  <2>1. \A k \in keys \ DOMAIN observations : k \in ObservationKeys
    BY <1>1 DEF ObservationKeys
  <2>2. ObservationKeys' = ObservationKeys
    BY DEF ObservationKeys, Workspaces, Kinds
  <2> QED BY <1>2, <2>1, <2>2 DEF TallyInv, ObservedOK
<1>4. RelatedOK'
  BY <1>1, <1>2, RelatedKept DEF TallyInv, WorkspaceKept
<1>5. \A ws, kind : EventsOf(ws, kind)' = EventsOf(ws, kind)
  BY DEF EventsOf, Recorded, RecordedCall
<1>6. ASSUME NEW ws \in Workspaces, NEW kind \in Kinds
      PROVE  Balances(Counted(ws, "unknown", kind)', Counted(ws, "exact", kind)',
                      Counted(ws, "conflict", kind)', Cardinality(EventsOf(ws, kind)'))
  <2> DEFINE key(rel) == <<ws, rel, kind, "primary">>
  <2>1. /\ Balances(Counted(ws, "unknown", kind), Counted(ws, "exact", kind),
                    Counted(ws, "conflict", kind), Cardinality(EventsOf(ws, kind)))
        /\ Counted(ws, "unknown", kind) \in Nat /\ Counted(ws, "exact", kind) \in Nat
        /\ Counted(ws, "conflict", kind) \in Nat /\ Cardinality(EventsOf(ws, kind)) \in Nat
    BY Balanced, EventsFinite DEF TallyInv, ObservedOK, Counted
  <2>2. ASSUME NEW rel, key(rel) \notin keys \ DOMAIN observations
        PROVE  Counted(ws, rel, kind)' = Counted(ws, rel, kind)
    BY <1>2, <2>2 DEF Counted
  <2>3. ASSUME NEW rel, key(rel) \in keys \ DOMAIN observations
        PROVE  /\ Counted(ws, rel, kind)' = 1 /\ Counted(ws, rel, kind) = 0
               /\ rel \in {"exact", "conflict"} /\ rel = ClassifyWorkspaceRelationship(session.ws, ws)
               /\ EventsOf(ws, kind) # {}
    <3>1. PICK k \in keys \ DOMAIN observations : k = <<ws, rel, kind, "primary">>
      BY <2>3
    <3>2. k[1] = ws /\ k[2] = rel /\ k[3] = kind
      BY <3>1
    <3> QED BY <1>1, <1>2, <3>1, <3>2 DEF Counted
  <2>4. ASSUME NEW rel \in {"exact", "conflict"}, rel # ClassifyWorkspaceRelationship(session.ws, ws)
        PROVE  Counted(ws, rel, kind) = 0
    <3>1. PICK k : k = <<ws, rel, kind, "primary">>
      OBVIOUS
    <3>2. k \notin DOMAIN observations
      BY <2>4, <3>1 DEF TallyInv, RelatedOK, Relationships
    <3> QED BY <3>1, <3>2 DEF Counted
  <2> HIDE DEF key
  <2>5. Counted(ws, "unknown", kind)' = Counted(ws, "unknown", kind)
    BY <2>2, <2>3
  <2>6. CASE \E rel : key(rel) \in keys \ DOMAIN observations
    <3>1. PICK rel : key(rel) \in keys \ DOMAIN observations
      BY <2>6
    <3>2. PICK other \in {"exact", "conflict"} : {rel, other} = {"exact", "conflict"}
      BY <2>3, <3>1
    <3>3. Counted(ws, other, kind)' = Counted(ws, other, kind) /\ Counted(ws, other, kind) = 0
      BY <2>2, <2>3, <2>4, <3>1, <3>2
    <3>4. Counted(ws, rel, kind)' = 1 /\ Counted(ws, rel, kind) = 0
      BY <2>3, <3>1
    <3>5. Cardinality(EventsOf(ws, kind)) # 0
      BY <2>3, <3>1, EventsFinite, FS_EmptySet
    <3>6. CASE rel = "exact" /\ other = "conflict"
      BY <1>5, <2>1, <2>5, <3>3, <3>4, <3>5, <3>6 DEF Balances
    <3>7. CASE rel = "conflict" /\ other = "exact"
      BY <1>5, <2>1, <2>5, <3>3, <3>4, <3>5, <3>7 DEF Balances
    <3> QED BY <3>2, <3>6, <3>7
  <2>7. CASE ~\E rel : key(rel) \in keys \ DOMAIN observations
    BY <1>5, <2>1, <2>2, <2>7
  <2> QED BY <2>6, <2>7
<1>7. PrimaryCountsEvents'
  BY <1>3, <1>6, BalancedAfter
<1> QED BY <1>2, <1>3, <1>4, <1>7

(* The counts after a step of a catch-up.                                    *)
LEMMA CatchUpTally ==
  ASSUME BooksInv, TallyInv, NEW w \in Writers, CatchUpStep(w)
  PROVE  TallyInv'
<1>1. UNCHANGED <<rows, removed, session, ledger>> /\ FreshOK /\ CallsOK /\ LockOK
  BY CatchUpQuiet DEF BooksInv, NotSaving
<1>2. PICK pc, f, b, c : CatchUpMove(w, pc, f, b, c)
  BY <1>1, CatchUpMoves
<1>3. /\ ObservedOK' /\ RelatedOK' /\ PrimaryCountsEvents'
      /\ DOMAIN observations \subseteq DOMAIN observations'
  <2>1. CASE observations' = observations
    <3>1. ObservedOK'
      BY <1>1, <2>1 DEF TallyInv, ObservedOK, ObservationKeys, Workspaces, Kinds
    <3>2. TallyKept
      BY <1>1, <2>1 DEF TallyKept, EventsOf, Counted, Recorded, RecordedCall
    <3>3. RelatedOK'
      BY <1>1, <2>1 DEF TallyInv, RelatedOK, Relationships, ClassifyWorkspaceRelationship
    <3> QED BY <2>1, <3>1, <3>2, <3>3, KeptTally DEF TallyInv
  <2>2. CASE CommitBatch(w)
    <3>1. PICK batch, canonical : batch = opening[w].batch /\ canonical = opening[w].canonical
      OBVIOUS
    <3>2. Classified(batch, canonical) /\ observations' = backfilled(batch, canonical)
      BY <2>2, <3>1 DEF CommitBatch, TallyInv, BatchOK
    <3> QED BY <1>1, <3>2, BackfillTally
  <2> QED BY <1>2, <2>1, <2>2 DEF CatchUpMove
<1>4. WorkspaceKept /\ EventsKept /\ RecordedOK'
  BY <1>1 DEF WorkspaceKept, EventsKept, TallyInv, RecordedOK, Recorded, RecordedCall
<1>5. ASSUME pc = "begin" \/ pc = "write" PROVE Classified(b, c)
  <2>1. CASE pc = "begin"
    <3>1. b \subseteq Recorded /\ c = session.ws
      BY <1>2, <2>1 DEF CatchUpMove, Recorded
    <3> QED BY <1>1, <3>1, UnknownObserved DEF Classified
  <2>2. CASE pc = "write"
    BY <1>2, <2>2 DEF CatchUpMove, TallyInv, BatchOK
  <2> QED BY <1>5, <2>1, <2>2
<1>6. BatchOK'
  <2>1. opening' = [v \in Writers |-> IF v = w THEN OpeningAt(pc, f, b, c) ELSE opening[v]]
    BY <1>1, <1>2 DEF CatchUpMove, OpeningTo, LockOK
  <2>2. ASSUME NEW v \in Writers, At(v, "begin")' \/ At(v, "write")'
        PROVE  Classified(opening[v].batch, opening[v].canonical)'
    <3>1. PICK batch, canonical : batch = opening'[v].batch /\ canonical = opening'[v].canonical
      OBVIOUS
    <3>2. Classified(batch, canonical)
      <4>1. CASE v = w
        BY <1>5, <2>1, <2>2, <3>1, <4>1 DEF At, OpeningAt
      <4>2. CASE v # w
        BY <2>1, <2>2, <3>1, <4>2 DEF At, TallyInv, BatchOK
      <4> QED BY <4>1, <4>2
    <3>3. Classified(batch, canonical)'
      BY <1>3, <1>4, <3>2, ClassifiedKept
    <3> QED BY <3>1, <3>3
  <2> QED BY <2>2 DEF BatchOK
<1> QED BY <1>3, <1>4, <1>6 DEF TallyInv

(* The counts hold of every behaviour.                                       *)
LEMMA TallyInvariant == DeliverySpec => []TallyInv
<1>1. DeliveryInit => TallyInv
  <2> SUFFICES ASSUME DeliveryInit PROVE TallyInv
    OBVIOUS
  <2>1. DOMAIN observations = {} /\ DOMAIN rows = {} /\ DOMAIN removed = {}
    BY DEF DeliveryInit, Empty
  <2>2. \A ws, rel, kind : Counted(ws, rel, kind) = 0
    BY <2>1 DEF Counted
  <2>3. \A ws, kind : EventsOf(ws, kind) = {}
    BY <2>1 DEF EventsOf, Recorded
  <2>4. ASSUME NEW ws, NEW kind
        PROVE  Total(ws, kind) = Cardinality(EventsOf(ws, kind))
    <3>1. Cardinality(EventsOf(ws, kind)) = 0
      BY <2>3, FS_EmptySet
    <3> QED BY <2>2, <3>1 DEF Total
  <2>5. RecordedOK /\ RelatedOK /\ ObservedOK
    BY <2>1 DEF RecordedOK, Recorded, RelatedOK, ObservedOK
  <2>6. BatchOK
    BY DEF DeliveryInit, BatchOK, At, NoOpening, OpeningAt
  <2> QED BY <2>1, <2>4, <2>5, <2>6 DEF TallyInv, PrimaryCountsEvents
<1>2. SaveInv /\ TallyInv /\ [DeliveryNext]_deliveryVars => TallyInv'
  <2> SUFFICES ASSUME SaveInv, TallyInv, [DeliveryNext]_deliveryVars PROVE TallyInv'
    OBVIOUS
  <2>0. BooksInv /\ chain \in Seq(EventIDs)
    BY DEF SaveInv, ChainOK
  <2>1. ASSUME NEW w \in Writers, QuietSaveStep(w) PROVE TallyInv'
    <3>1. UNCHANGED <<rows, ledger, observations, removed, session>>
      BY <2>0, <2>1, QuietSave DEF QuietSaveStep, QuietStep, store
    <3>2. opening' = opening
      BY <2>1 DEF QuietSaveStep, Look, WriteLock, Busy, RollBack, Reconcile, Answer, Stop, catchUpVars
    <3> QED BY <3>1, <3>2, StillTally
  <2>2. ASSUME NEW w \in Writers, Redeliver(w) \/ Reregister(w) \/ Insert(w) PROVE TallyInv'
    BY <2>0, <2>2, RedeliverTally, ReregisterTally, InsertTally
  <2>3. ASSUME NEW w \in Writers, NEW c \in Calls, Call(w, c) PROVE TallyInv'
    <3>1. UNCHANGED <<rows, ledger, observations, removed, session, opening>>
      BY <2>3 DEF Call, store, catchUpVars
    <3> QED BY <3>1, StillTally
  <2>4. ASSUME NEW e \in EventIDs, DeleteTranscript(e) PROVE TallyInv'
    BY <2>4, DeleteTally
  <2>5. ASSUME StillStep PROVE TallyInv'
    <3>1. UNCHANGED <<rows, ledger, observations, removed, session, opening>>
      BY <2>5 DEF StillStep, AlreadyEnded, Doctor, deliveryVars, store, catchUpVars
    <3> QED BY <3>1, StillTally
  <2>6. ASSUME NEW w \in Writers, CatchUpStep(w) PROVE TallyInv'
    BY <2>0, <2>6, CatchUpTally
  <2> QED BY <2>1, <2>2, <2>3, <2>4, <2>5, <2>6, DeliverySteps
<1> QED BY <1>1, <1>2, SaveInvariant, PTL DEF DeliverySpec

(* The books of the store balance in every state, whatever is retried,       *)
(* redelivered, raced, caught up with or deleted: receipts and attempts add  *)
(* up, and for each workspace and kind of event the primary observations     *)
(* count what was recorded, or one more, once, where the catch-up of an      *)
(* opening found a session that was not there when the event was observed.   *)
THEOREM BooksAlwaysBalance == DeliverySpec => []DeliveryInv
<1>1. TallyInv => PrimaryCountsEvents
  BY DEF TallyInv
<1>2. DeliveryTypeOK /\ ReceiptsAddUp /\ PrimaryCountsEvents => DeliveryInv
  BY DEF DeliveryInv
<1> QED BY <1>1, <1>2, ReceiptsAlwaysAddUp, TallyInvariant, PTL
=============================================================================
