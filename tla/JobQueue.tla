------------------------------ MODULE JobQueue ------------------------------
(***************************************************************************)
(* One queue of worker_jobs rows and the workers that take jobs from it:   *)
(* Claim, the handler, MarkSucceeded or MarkFailed, the back-off, and the  *)
(* administrator's retry.                                                  *)
(*                                                                         *)
(* A worker executes three statements on a job's row, each in its own      *)
(* transaction: the claim, and one of the two marks.  The rigid variable   *)
(* "faults" holds what can go wrong in a behaviour between and during them:*)
(*   "crash"      the process dies, or its context is cancelled by a       *)
(*                shutdown, so that no further statement is executed;      *)
(*   "db_error"   MarkFailed itself fails and the row is left as it is;    *)
(*   "lost_reply" a statement is committed but the worker is told that it  *)
(*                failed (the connection breaks after the commit).         *)
(***************************************************************************)
EXTENDS JobRows

CONSTANTS
  NumJobs,     \* bound: identifiers for rows, in the order of created_at
  MaxRetries,  \* bound: how often an administrator retries jobs in total
  FaultSets    \* the environments considered, each a set of fault kinds

ASSUME NumJobsAssumption == NumJobs \in Nat \ {0}

ASSUME MaxRetriesAssumption == MaxRetries \in Nat

FaultKinds == {"crash", "db_error", "lost_reply"}

ASSUME FaultSetsAssumption == FaultSets \subseteq SUBSET FaultKinds

VARIABLES
  jobs,    \* the table: one row per identifier
  worker,  \* what each process is doing, and the Job it got from its claim
  retries, \* administrator retries so far
  faults   \* the fault kinds that may strike: chosen once, never changed

vars == <<jobs, worker, retries, faults>>

Jobs == 1 .. NumJobs

NoJob == 0

Worker == [pc : {"idle", "working", "failing"}, job : Jobs \cup {NoJob},
           attempt : 0 .. MaxAttempts]

IdleWorker == [pc |-> "idle", job |-> NoJob, attempt |-> 0]

TypeOK ==
  /\ jobs \in [Jobs -> Row]
  /\ worker \in [Workers -> Worker]
  /\ retries \in 0 .. MaxRetries
  /\ faults \in FaultSets

Init ==
  /\ jobs = [j \in Jobs |-> NoRow]
  /\ worker = [w \in Workers |-> IdleWorker]
  /\ retries = 0
  /\ faults \in FaultSets

-----------------------------------------------------------------------------
\* A producer's transaction inserts a job; identifiers follow created_at.
Enqueue(j) ==
  /\ jobs[j] = NoRow
  /\ \A i \in Jobs : i < j => jobs[i].status # "absent"
  /\ jobs' = [jobs EXCEPT ![j] = NewRow]
  /\ UNCHANGED <<worker, retries, faults>>

\* ORDER BY created_at LIMIT 1 over the claimable rows.  FOR UPDATE SKIP
\* LOCKED makes concurrent claims take different rows: each is one step.
Oldest(j) ==
  /\ Claimable(jobs[j])
  /\ \A i \in Jobs : i < j => ~Claimable(jobs[i])

Claim(w, j) ==
  /\ worker[w].pc = "idle"
  /\ Oldest(j)
  /\ jobs' = [jobs EXCEPT ![j] = ClaimedBy(@, w)]
  /\ worker' = [worker EXCEPT ![w] =
                  [pc |-> "working", job |-> j, attempt |-> ClaimedBy(jobs[j], w).attempts]]
  /\ UNCHANGED <<retries, faults>>

\* The claim is committed, the worker sees an error and knows no job.
ClaimReplyLost(w, j) ==
  /\ "lost_reply" \in faults
  /\ worker[w].pc = "idle"
  /\ Oldest(j)
  /\ jobs' = [jobs EXCEPT ![j] = ClaimedBy(@, w)]
  /\ UNCHANGED <<worker, retries, faults>>

\* The handler ends without error: MarkSucceeded.
Succeed(w) ==
  /\ worker[w].pc = "working"
  /\ jobs' = [jobs EXCEPT ![worker[w].job] = MarkedSucceeded(@)]
  /\ worker' = [worker EXCEPT ![w] = IdleWorker]
  /\ UNCHANGED <<retries, faults>>

\* MarkSucceeded is committed but reported as failed: the handler returns
\* that error and the worker goes on to MarkFailed.
SucceedReplyLost(w) ==
  /\ "lost_reply" \in faults
  /\ worker[w].pc = "working"
  /\ jobs' = [jobs EXCEPT ![worker[w].job] = MarkedSucceeded(@)]
  /\ worker' = [worker EXCEPT ![w].pc = "failing"]
  /\ UNCHANGED <<retries, faults>>

\* The handler returns an error, or the job type is unsupported.
HandlerFails(w) ==
  /\ worker[w].pc = "working"
  /\ worker' = [worker EXCEPT ![w].pc = "failing"]
  /\ UNCHANGED <<jobs, retries, faults>>

MarkFailed(w) ==
  /\ worker[w].pc = "failing"
  /\ jobs' = [jobs EXCEPT ![worker[w].job] = MarkedFailed(@, worker[w].attempt)]
  /\ worker' = [worker EXCEPT ![w] = IdleWorker]
  /\ UNCHANGED <<retries, faults>>

\* The UPDATE of MarkFailed is not executed; the worker logs it and goes on.
MarkFailedErrs(w) ==
  /\ "db_error" \in faults
  /\ worker[w].pc = "failing"
  /\ worker' = [worker EXCEPT ![w] = IdleWorker]
  /\ UNCHANGED <<jobs, retries, faults>>

\* The process stops in the middle of a job; a new one starts idle.
Crash(w) ==
  /\ "crash" \in faults
  /\ worker[w].pc # "idle"
  /\ worker' = [worker EXCEPT ![w] = IdleWorker]
  /\ UNCHANGED <<jobs, retries, faults>>

BackoffElapses(j) ==
  /\ Waiting(jobs[j])
  /\ jobs' = [jobs EXCEPT ![j] = MadeDue(@)]
  /\ UNCHANGED <<worker, retries, faults>>

RetryAdminJob(j) ==
  /\ Retryable(jobs[j])
  /\ retries < MaxRetries
  /\ jobs' = [jobs EXCEPT ![j] = Retried(@)]
  /\ retries' = retries + 1
  /\ UNCHANGED <<worker, faults>>

WorkerStep(w) ==
  \/ \E j \in Jobs : Claim(w, j)
  \/ Succeed(w)
  \/ HandlerFails(w)
  \/ MarkFailed(w)

FaultStep(w) ==
  \/ \E j \in Jobs : ClaimReplyLost(w, j)
  \/ SucceedReplyLost(w)
  \/ MarkFailedErrs(w)
  \/ Crash(w)

Next ==
  \/ \E j \in Jobs : Enqueue(j) \/ BackoffElapses(j) \/ RetryAdminJob(j)
  \/ \E w \in Workers : WorkerStep(w) \/ FaultStep(w)

Spec == Init /\ [][Next]_vars

\* Worker.Run never stops polling, a handler returns (its calls carry
\* deadlines) and time passes.  Producers and administrators owe nothing.
Fairness ==
  /\ \A w \in Workers : WF_vars(WorkerStep(w))
  /\ \A j \in Jobs : WF_vars(BackoffElapses(j))

FairSpec == Spec /\ Fairness

-----------------------------------------------------------------------------
Holds(w, j) == worker[w].pc # "idle" /\ worker[w].job = j

\* Two workers never execute the same job at the same time, although neither
\* MarkSucceeded nor MarkFailed checks who locked the row: the claim's status
\* test and the retry's refusal of running jobs are all that keeps them apart.
OneWorkerPerJob ==
  \A v, w \in Workers : \A j \in Jobs : Holds(v, j) /\ Holds(w, j) => v = w

\* A pending job always has an attempt left, so that the increment in Claim
\* never breaks the table's CHECK (attempt_count <= max_attempts).
PendingHasAttemptLeft ==
  \A j \in Jobs : jobs[j].status = "pending" => jobs[j].attempts < MaxAttempts

\* A job is given up only when every attempt has been used.
DeadIsExhausted ==
  \A j \in Jobs : jobs[j].status = "dead" => jobs[j].attempts = MaxAttempts

\* A job that succeeded is never put back into the queue, unless a reply can
\* be lost.
SucceededIsFinal ==
  [][\A j \in Jobs :
       jobs[j].status = "succeeded" =>
         jobs'[j].status = "succeeded" \/ "lost_reply" \in faults]_vars

\* A job that was queued ends: it succeeds or it is given up as dead.
Settled(j) == jobs[j].status \in {"succeeded", "dead"}

EveryJobSettles == \A j \in Jobs : (jobs[j].status = "pending") ~> Settled(j)

\* That holds as long as nothing goes wrong between a claim and its mark.
SettlesWithoutFaults == (faults = {}) => EveryJobSettles
=============================================================================
