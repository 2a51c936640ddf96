------------------------------- MODULE RecordOnce -------------------------------
(*****************************************************************************)
(* What saving an event promises its caller: an event appears in the log     *)
(* whole, a delivery is bound to one event for good, and an answer names the *)
(* event the delivery is bound to, which is in the log. A call may also end  *)
(* without an answer, whether or not it had its effect.                      *)
(*****************************************************************************)
CONSTANTS
  EventIDs,     \* ids the callers propose, one per call
  Deliveries,   \* identities of hook deliveries
  None          \* no delivery

VARIABLES
  log,          \* events recorded so far, deleted ones included, with their delivery
  bound,        \* deliveries with the event they are bound to
  answers       \* answers given: the proposed id, its delivery and the event

onceVars == <<log, bound, answers>>

OnceInit ==
  /\ log = [e \in {} |-> None] /\ bound = [d \in {} |-> None]
  /\ answers = {}

Add(f, k, v) == [x \in DOMAIN f \cup {k} |-> IF x = k THEN v ELSE f[x]]
Bind(d, e) ==
  IF d = None THEN bound' = bound ELSE d \notin DOMAIN bound /\ bound' = Add(bound, d, e)

(* A new event, together with the delivery it comes from.                    *)
Record(d, e) ==
  /\ e \notin DOMAIN log /\ log' = Add(log, e, d)
  /\ Bind(d, e)
  /\ UNCHANGED answers

(* A delivery that adds nothing: bound to an event that is already recorded. *)
Attach(d, e) ==
  /\ e \in DOMAIN log
  /\ Bind(d, e)
  /\ UNCHANGED <<log, answers>>

Reply(p, d, e) ==
  /\ e \in DOMAIN log
  /\ d # None => d \in DOMAIN bound /\ bound[d] = e
  /\ answers' = answers \cup {[proposed |-> p, delivery |-> d, event |-> e]}
  /\ UNCHANGED <<log, bound>>

(* A step changes the log, the bindings or the answers.                      *)
OnceNext ==
  \/ log' # log /\ \E d \in Deliveries \cup {None}, e \in EventIDs : Record(d, e)
  \/ bound' # bound /\ \E d \in Deliveries, e \in EventIDs : Attach(d, e)
  \/ answers' # answers /\ \E d \in Deliveries \cup {None}, e, p \in EventIDs : Reply(p, d, e)

OnceSpec == OnceInit /\ [][OnceNext]_onceVars
=============================================================================
