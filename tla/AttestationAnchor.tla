---------------------------- MODULE AttestationAnchor ----------------------------
(*****************************************************************************)
(* The attestation anchor (domain/attestation/anchor.go,                     *)
(* infrastructure/sqlite/attestation_anchor.go): a log of published chain    *)
(* heads beside the store, written after the commit by whoever committed,    *)
(* and by `doctor`, which heals a missing or late file.                      *)
(*                                                                           *)
(* The head of a chain is a digest over all its links: a head is modelled by *)
(* the sequence of attested events it covers, its seq by the length. The     *)
(* writers' lock (lockAttestationAnchor) spans the read, the decision and    *)
(* the synced append of publishAttestationAnchor, which is one step; readers *)
(* take no lock. Doctor inspects once.                                       *)
(*****************************************************************************)
EXTENDS Integers, Sequences, SequencesExt

VARIABLES
  anchor,     \* the anchor file: the heads published, in file order
  doctor      \* InspectAttestationAnchor

anchorVars == <<anchor, doctor>>

IdleDoctor == [pc |-> "idle", last |-> <<>>, present |-> FALSE, head |-> <<>>, relation |-> "none"]

AnchorInit == anchor = <<>> /\ doctor = IdleDoctor

lastOrZero == IF anchor = <<>> THEN <<>> ELSE Last(anchor)

\* appends whatever the last record says
AppendAlways(last, present, next) == "append"

DecideAnchorAppend(last, present, next) ==
  CASE ~present -> "append"
    [] present /\ Len(next) < Len(last) -> "error"
    [] present /\ Len(next) = Len(last) -> IF next = last THEN "skip" ELSE "error"
    [] OTHER -> "append"

RelateAnchor(head, last, present) ==
  CASE ~present -> "missing"
    [] present /\ Len(last) < Len(head) -> "behind"
    [] present /\ Len(last) > Len(head) -> "ahead"
    [] OTHER -> IF last = head THEN "matches" ELSE "mismatch"

(* The head the chain had at the record's seq is the one in the record.      *)
historicalAnchorMatches(head, last) == IsPrefix(last, head)

publishAttestationAnchor(head) ==
  anchor' = IF DecideAnchorAppend(lastOrZero, anchor # <<>>, head) = "append"
            THEN Append(anchor, head) ELSE anchor

-----------------------------------------------------------------------------
(* InspectAttestationAnchor reads the file, then verifies the chain in one   *)
(* read transaction, then publishes a missing or late head.                  *)
ReadAnchor ==
  /\ doctor.pc = "idle"
  /\ doctor' = [doctor EXCEPT !.pc = "verify", !.last = lastOrZero, !.present = anchor # <<>>]
  /\ UNCHANGED anchor

VerifyChain(chain) ==
  /\ doctor.pc = "verify"
  /\ LET forged == doctor.present /\ Len(doctor.last) <= Len(chain)
                   /\ ~historicalAnchorMatches(chain, doctor.last)
         relation == IF forged THEN "mismatch" ELSE RelateAnchor(chain, doctor.last, doctor.present)
     IN doctor' = [doctor EXCEPT !.head = chain, !.relation = relation,
                                 !.pc = IF relation \in {"missing", "behind"} THEN "publish" ELSE "done"]
  /\ UNCHANGED anchor

PublishVerified ==
  /\ doctor.pc = "publish"
  /\ publishAttestationAnchor(doctor.head)
  /\ doctor' = [doctor EXCEPT !.pc = "done",
                  !.relation = IF DecideAnchorAppend(lastOrZero, anchor # <<>>, doctor.head) = "error"
                               THEN "error" ELSE "matches"]

DoctorStep(chain) == ReadAnchor \/ VerifyChain(chain) \/ PublishVerified

-----------------------------------------------------------------------------
(* Properties.                                                               *)

(* The file is a history of this store: its records grow, and each of them   *)
(* is a head the chain really had, however the publishers overtook each      *)
(* other and wherever one of them died; CheckAnchorHistory accepts it.       *)
AnchorIsHistory(chain) ==
  /\ \A i \in 1..(Len(anchor) - 1) : Len(anchor[i]) < Len(anchor[i + 1])
  /\ \A i \in DOMAIN anchor : IsPrefix(anchor[i], chain)

(* Doctor passes a store nobody tampered with: a missing or late file is     *)
(* published and then passes (CHANGELOG.md, #1678).                          *)
DoctorHeals == doctor.relation \notin {"mismatch", "ahead", "error"}
=============================================================================
