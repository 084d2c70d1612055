------------------------------- MODULE MCJobs -------------------------------
(***************************************************************************)
(* The job table that TLC checks: one queue under every fault (JobQueue,   *)
(* with its refinement), and the order in which a worker serves all queues *)
(* (WorkerLoop).  The rigid variable "part" says which takes steps; the    *)
(* other stays in its initial state, in which none of its fair steps is    *)
(* possible.                                                               *)
(***************************************************************************)
EXTENDS JobQueueRefinement

CONSTANTS NumRows, Active

VARIABLES part, rows, queue, candidate, pass

loopVars == <<rows, queue, candidate, pass>>

L == INSTANCE WorkerLoop

ASSUME LoopAssumption == NumRows \in Nat /\ Active \subseteq Workers

JobsInit ==
  /\ part \in {"queue", "loop"}
  /\ Init /\ (part = "queue" \/ faults = {})
  /\ L!Init

JobsNext ==
  /\ UNCHANGED part
  /\ \/ part = "queue" /\ Next /\ UNCHANGED loopVars
     \/ part = "loop" /\ L!Next /\ UNCHANGED vars

JobsSpec == JobsInit /\ [][JobsNext]_<<part, vars, loopVars>> /\ Fairness /\ L!Fairness

\* Every variable has its type, in both.
Typed == TypeOK /\ L!TypeOK

\* Without faults each job ends (JobQueue), also in a queue that is asked last
\* (WorkerLoop).
JobsAreServed == SettlesWithoutFaults /\ L!NoQueueStarves
=============================================================================
