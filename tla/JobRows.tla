------------------------------ MODULE JobRows ------------------------------
(***************************************************************************)
(* A row of the worker_jobs table and the SQL statements that change it.   *)
(* Every background queue of the program (file scan, image, search index,  *)
(* e-mail, server check) is a set of such rows; the modules that model a   *)
(* queue share these operators.                                            *)
(*                                                                         *)
(* A timestamp is kept only as far as the statements read it: "due" is     *)
(* "next_retry_at IS NULL OR next_retry_at <= now()".                      *)
(***************************************************************************)
EXTENDS Naturals

CONSTANTS
  Workers,      \* worker processes; each one runs the loop of Worker.Run
  MaxAttempts,  \* column max_attempts: 5, and 3 for server checks
  Nobody        \* a NULL locked_by

ASSUME WorkersAssumption == Nobody \notin Workers

ASSUME MaxAttemptsAssumption == MaxAttempts \in Nat \ {0}

JobStatus == {"pending", "running", "succeeded", "failed", "dead"}

Row == [status   : JobStatus \cup {"absent"},
        attempts : 0 .. MaxAttempts,
        due      : BOOLEAN,
        lockedBy : Workers \cup {Nobody}]

\* An identifier that no INSERT has used yet.
NoRow == [status |-> "absent", attempts |-> 0, due |-> FALSE, lockedBy |-> Nobody]

\* INSERT INTO worker_jobs (queue_name, job_type, payload): column defaults.
NewRow == [status |-> "pending", attempts |-> 0, due |-> TRUE, lockedBy |-> Nobody]

\* The WHERE clause of the claim.
Claimable(row) == row.status = "pending" /\ row.due

\* The UPDATE of the claim; next_retry_at keeps its value.
ClaimedBy(row, w) ==
  [row EXCEPT !.status = "running", !.attempts = row.attempts + 1, !.lockedBy = w]

\* MarkSucceeded and markSucceededTx: by id alone, whatever the row holds.
MarkedSucceeded(row) ==
  [row EXCEPT !.status = "succeeded", !.lockedBy = Nobody]

GivenUp(row) == [row EXCEPT !.status = "dead", !.due = TRUE, !.lockedBy = Nobody]

PutBack(row) == [row EXCEPT !.status = "pending", !.due = FALSE, !.lockedBy = Nobody]

\* Mutant: the last attempt is recognised too late.
MarkedFailedLate(row, attempt) ==
  IF attempt > MaxAttempts THEN GivenUp(row) ELSE PutBack(row)

\* MarkFailed: by id alone; "attempt" is the count the worker got from its
\* claim, not the one the row holds now.
MarkedFailed(row, attempt) ==
  IF attempt >= MaxAttempts THEN GivenUp(row) ELSE PutBack(row)

\* Mutant: the administrator may also retry a job that seems stuck.
RetryableStuck(row) == row.status \in {"failed", "dead", "running"}

\* RetryAdminJob: its status check and its UPDATE.
Retryable(row) == row.status \in {"failed", "dead"}

\* Mutant: the attempts used so far are not given back.
RetriedUncounted(row) ==
  [row EXCEPT !.status = "pending", !.due = TRUE, !.lockedBy = Nobody]

\* Nothing is left of the earlier attempts.
Retried(row) == NewRow

\* The back-off of a failed attempt is over: next_retry_at <= now().
Waiting(row) == row.status = "pending" /\ ~row.due

MadeDue(row) == [row EXCEPT !.due = TRUE]
=============================================================================
