-------------------------------- MODULE MCDrain --------------------------------
(* Shutdown with several owned runs. The initial state is the one after the  *)
(* epoch was bound (two revisions) and each ticket of First completed a      *)
(* successful launch whose caller has left (four revisions each).            *)
EXTENDS RuntimeLifecycle, TLC

First == "i1" :> "t1"   \* request id -> the ticket that answered it
FirstTickets == {First[i] : i \in DOMAIN First}

DrainInit ==
  /\ tickets = [i \in RequestIDs |-> IF i \in DOMAIN First THEN First[i] ELSE None]
  /\ tk = [t \in Tickets |->
             IF t \in FirstTickets
             THEN [UnusedTicket EXCEPT
                     !.pc = "done", !.id = CHOOSE i \in DOMAIN First : First[i] = t,
                     !.sel = CHOOSE s \in Selections : TRUE, !.starting = TRUE,
                     !.complete = TRUE, !.descriptor = Snapshot("live", FALSE),
                     !.result = Snapshot("live", FALSE)]
             ELSE UnusedTicket]
  /\ callers = [c \in Callers |-> IdleCaller]
  /\ runs = [t \in Tickets |->
               IF t \in FirstTickets
               THEN [AbsentRun EXCEPT !.pc = "wait", !.state = "live", !.published = TRUE]
               ELSE AbsentRun]
  /\ child = [t \in Tickets |-> IF t \in FirstTickets THEN "alive" ELSE "none"]
  /\ journal = [t \in Tickets |->
                  IF t \in FirstTickets THEN Snapshot("live", FALSE) ELSE NoSnapshot]
  /\ recovery = {}
  /\ pending = 0 /\ active = Cardinality(FirstTickets)
  /\ controlsPending = 0 /\ lifecyclePending = 0
  /\ revision = 2 + 4 * Cardinality(FirstTickets)
  /\ revisionExhausted = FALSE /\ disabled = FALSE
  /\ shutdownPreparing = FALSE /\ shutdownCommitted = FALSE
  /\ lifecycleStarting = FALSE /\ lifecycleBound = TRUE /\ lifecycleUncertain = FALSE
  /\ preview = None
  /\ plans = [p \in Plans |-> NoPlan]
  /\ closed = {}
  /\ life = [epoch |-> TRUE, clean |-> FALSE, shutdowns |-> [p \in Plans |-> "none"]]
  /\ serve = "serving"

DrainSpec == DrainInit /\ [][LifecycleNext]_lifecycleVars
FairDrainSpec == DrainSpec /\ LifecycleFairness
=============================================================================
