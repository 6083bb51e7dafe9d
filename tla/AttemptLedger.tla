---------------------------- MODULE AttemptLedger ----------------------------
(***************************************************************************)
(* What the accounting of model calls promises (README.md, "Pipeline       *)
(* stages"): a unit makes one attempt, an attempt gets at most one         *)
(* category and keeps it, and extractions are persisted all together, only *)
(* when each of them was accepted.                                         *)
(***************************************************************************)
CONSTANTS
  Ids,      \* the units
  Categories  \* the categories of a failed attempt

VARIABLE status
Init == status = [u \in Ids |-> "unused"]

Advance(u, from, to) == status[u] = from /\ status' = [status EXCEPT ![u] = to]

Attempt(u) == Advance(u, "unused", "attempted")
Accept(u) == Advance(u, "attempted", "accepted")
Fail(u) == \E c \in Categories : Advance(u, "attempted", c)

Persist ==
  /\ \A u \in Ids : status[u] = "accepted"
  /\ status' = [u \in Ids |-> "persisted"]

Next == (\E u \in Ids : Attempt(u) \/ Accept(u) \/ Fail(u)) \/ Persist

Spec == Init /\ [][Next]_status
=============================================================================
