----------------------------- MODULE WorkerLoop -----------------------------
(***************************************************************************)
(* The order in which a worker serves its queues.  Each pass asks them one *)
(* after the other and ends with the first that has something to do; the   *)
(* next pass asks the first one again.  Between the file scans and the     *)
(* images it looks for an item to publish, which is no job: it is found by *)
(* a query, has no attempts, and is found again if its publication fails.  *)
(*                                                                         *)
(* How the rows of one queue are claimed and marked is in JobQueue; here   *)
(* no statement fails and no worker stops.                                 *)
(***************************************************************************)
EXTENDS JobRows, Sequences

CONSTANTS
  NumRows, \* bound: rows at a time; one that is settled is used again
  Active   \* bound: the members of Workers that run here

VARIABLES
  rows,      \* worker_jobs
  queue,     \* queue_name of each row
  candidate, \* what GetAutoPublishCandidate finds, and what becomes of it
  pass       \* where each worker is in its pass

vars == <<rows, queue, candidate, pass>>

Queues == {"scan", "image", "search", "email", "check"}

Stages == <<"scan", "publish", "image", "search", "email", "check">>

Rows == 1 .. NumRows

NoJob == 0

\* "resting" between two ticks; "asking" the queue of a stage; "working".
Pass == [pc : {"stopped", "resting", "asking", "working"}, stage : DOMAIN Stages,
         job : Rows \cup {NoJob}]

Resting == [pc |-> "resting", stage |-> 1, job |-> NoJob]

TypeOK ==
  /\ rows \in [Rows -> Row]
  /\ queue \in [Rows -> Queues]
  /\ candidate \in {"none", "good", "failing"}
  /\ pass \in [Active -> Pass]

Init ==
  /\ rows = [j \in Rows |-> NoRow]
  /\ queue = [j \in Rows |-> "scan"]
  /\ candidate = "none"
  /\ pass = [w \in Active |-> [Resting EXCEPT !.pc = "stopped"]]

-----------------------------------------------------------------------------
Settled(j) == rows[j].status \in {"absent", "succeeded", "dead"}

\* A row is used again only for a job younger than all others of its queue.
Enqueue(j, q) ==
  /\ Settled(j)
  /\ \A i \in Rows : queue[i] = q /\ ~Settled(i) => i < j
  /\ rows' = [rows EXCEPT ![j] = NewRow]
  /\ queue' = [queue EXCEPT ![j] = q]
  /\ UNCHANGED <<candidate, pass>>

BackoffElapses(j) ==
  /\ Waiting(rows[j])
  /\ rows' = [rows EXCEPT ![j] = MadeDue(@)]
  /\ UNCHANGED <<queue, candidate, pass>>

\* An item becomes publishable, is taken away, or its package is repaired.
CandidateChanges ==
  /\ candidate' \in {"none", "good", "failing"} \ {candidate}
  /\ UNCHANGED <<rows, queue, pass>>

Goto(w, next) == pass' = [pass EXCEPT ![w] = next]

Start(w) ==
  /\ pass[w].pc = "stopped"
  /\ Goto(w, Resting)
  /\ UNCHANGED <<rows, queue, candidate>>

\* The ticker: processOnce.
Tick(w) ==
  /\ pass[w].pc = "resting"
  /\ Goto(w, [pass[w] EXCEPT !.pc = "asking"])
  /\ UNCHANGED <<rows, queue, candidate>>

Asks(w, stage) == pass[w].pc = "asking" /\ Stages[pass[w].stage] = stage

Oldest(j, q) ==
  /\ queue[j] = q /\ Claimable(rows[j])
  /\ \A i \in Rows : i < j /\ queue[i] = q => ~Claimable(rows[i])

Claim(w, j) ==
  /\ \E q \in Queues : Asks(w, q) /\ Oldest(j, q)
  /\ rows' = [rows EXCEPT ![j] = ClaimedBy(@, w)]
  /\ Goto(w, [pass[w] EXCEPT !.pc = "working", !.job = j])
  /\ UNCHANGED <<queue, candidate>>

\* publishCleanCandidate: an error ends the pass and leaves the candidate.
PublishCandidate(w) ==
  /\ Asks(w, "publish") /\ candidate # "none"
  /\ candidate' = IF candidate = "good" THEN "none" ELSE candidate
  /\ Goto(w, Resting)
  /\ UNCHANGED <<rows, queue>>

\* Mutant: a pass that finds no mail ends there.
AfterStopsShort(stage) == IF stage = 5 THEN 0 ELSE IF stage < Len(Stages) THEN stage + 1 ELSE 0

\* The stage asked after pgx.ErrNoRows; none after the last.
After(stage) == IF stage < Len(Stages) THEN stage + 1 ELSE 0

FindNothing(w) ==
  /\ pass[w].pc = "asking"
  /\ \A q \in Queues : Asks(w, q) => \A j \in Rows : ~(queue[j] = q /\ Claimable(rows[j]))
  /\ Asks(w, "publish") => candidate = "none"
  /\ LET next == After(pass[w].stage)
     IN Goto(w, IF next = 0 THEN Resting ELSE [pass[w] EXCEPT !.stage = next])
  /\ UNCHANGED <<rows, queue, candidate>>

\* The handler of the job ends with MarkSucceeded or MarkFailed.
Finish(w) ==
  /\ pass[w].pc = "working"
  /\ LET j == pass[w].job
     IN \/ rows' = [rows EXCEPT ![j] = MarkedSucceeded(@)]
        \/ rows' = [rows EXCEPT ![j] = MarkedFailed(@, rows[j].attempts)]
  /\ Goto(w, Resting)
  /\ UNCHANGED <<queue, candidate>>

Step(w) ==
  \/ Tick(w) \/ PublishCandidate(w) \/ FindNothing(w) \/ Finish(w)
  \/ \E j \in Rows : Claim(w, j)

Next ==
  \/ \E j \in Rows : BackoffElapses(j) \/ \E q \in Queues : Enqueue(j, q)
  \/ CandidateChanges
  \/ \E w \in Active : Start(w) \/ Step(w)

\* A worker that has started keeps ticking, its handlers return, time passes.
Fairness ==
  /\ \A w \in Active : WF_vars(Step(w))
  /\ \A j \in Rows : WF_vars(BackoffElapses(j))

Spec == Init /\ [][Next]_vars /\ Fairness

-----------------------------------------------------------------------------
StageOf(q) == CHOOSE s \in DOMAIN Stages : Stages[s] = q

\* Something that a pass finds before it asks q.
Ahead(q) ==
  \/ candidate # "none" /\ StageOf("publish") < StageOf(q)
  \/ \E i \in Rows : StageOf(queue[i]) < StageOf(q) /\ Claimable(rows[i])

\* A queue that is asked late is served nevertheless: once what comes before it
\* has run dry, each of its jobs ends, those that fail and wait included.  (As
\* long as scans keep coming, or one item cannot be published, nothing behind
\* them is served.)
NoQueueStarves ==
  \A q \in Queues, j \in Rows :
    (\A w \in Active : <>(pass[w].pc # "stopped")) /\ <>[]~Ahead(q) =>
      (queue[j] = q /\ ~Settled(j) ~> queue[j] # q \/ Settled(j))
=============================================================================
