------------------------- MODULE JobQueueRefinement -------------------------
(***************************************************************************)
(* The mapping under which a JobQueue is a WorkDelivery.                   *)
(***************************************************************************)
EXTENDS JobQueue

PhaseOf(row) ==
  CASE row.status = "absent"    -> "new"
    [] row.status = "pending"   -> "waiting"
    [] row.status = "running"   -> "active"
    [] row.status = "succeeded" -> "done"
    [] OTHER                    -> "abandoned"

Delivery ==
  INSTANCE WorkDelivery WITH
    Tasks  <- Jobs,
    phase  <- [j \in Jobs |-> PhaseOf(jobs[j])],
    tries  <- [j \in Jobs |-> jobs[j].attempts],
    holder <- [j \in Jobs |-> {w \in Workers : Holds(w, j)}],
    lossy  <- "lost_reply" \in faults

\* Claim, MarkSucceeded, MarkFailed and RetryAdminJob together deliver what
\* WorkDelivery promises, under every set of faults.
DeliversWork == Delivery!Spec
=============================================================================
