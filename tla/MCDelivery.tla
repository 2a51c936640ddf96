------------------------------- MODULE MCDelivery -------------------------------
(* Prompts with and without a delivery, a redelivery with another workspace, *)
(* a reused identity, a transcript, and the boundaries of one session.       *)
EXTENDS EventDelivery, TLC

CONSTANT Which    \* the kinds of calls of this instance

MCCall(kind, id, fp, ws, reason) == [kind |-> kind, id |-> id, fp |-> fp, ws |-> ws, reason |-> reason]
MCCalls ==
  {c \in {MCCall("prompt", "d1", "f1", "w1", "-"), MCCall("prompt", "d1", "f1", "w2", "-"),
          MCCall("prompt", "d1", "f2", "w1", "-"),
          MCCall("transcript", "d2", "f3", "w1", "-"),
          MCCall("start", None, "-", "w1", "-"), MCCall("start", "d3", "f4", "w1", "-"),
          MCCall("one_shot", None, "-", "w1", "-"), MCCall("end", None, "-", "w1", "-"),
          MCCall("finish", None, "-", "w1", "success"), MCCall("finish", "d4", "f5", "w1", "failure")} :
     c.kind \in Which}

MCSymmetry == Permutations(Writers)
=============================================================================
