-------------------------- MODULE JobQueue_proofs --------------------------
(***************************************************************************)
(* Proofs about JobQueue, for every number of workers, jobs, attempts and  *)
(* retries and every set of faults; and about the worker's loop over all   *)
(* queues (L!) and the system that TLC runs (MCJobs).                      *)
(***************************************************************************)
EXTENDS MCJobs, Sequences, JobRows_proofs

\* A worker that is not idle has the row it claimed, with the count it got
\* from the claim: nobody else changes the row of a job in a worker's hands.
HoldsItsClaim(w) ==
  worker[w].pc # "idle" =>
    /\ worker[w].job \in Jobs
    /\ jobs[worker[w].job].status \in {"running", "succeeded"}
    /\ worker[w].attempt = jobs[worker[w].job].attempts

IInv ==
  /\ TypeOK
  /\ \A w \in Workers : HoldsItsClaim(w)
  /\ OneWorkerPerJob
  /\ PendingHasAttemptLeft
  /\ DeadIsExhausted

LEMMA InitIInv == Init => IInv
  BY NumJobsAssumption, MaxAttemptsAssumption, MaxRetriesAssumption
     DEF Init, IInv, TypeOK, HoldsItsClaim, OneWorkerPerJob, Holds, DeadIsExhausted,
         PendingHasAttemptLeft, IdleWorker, NoRow, NoJob, Row, JobStatus, Worker, Jobs

\* Each step keeps the invariant.
LEMMA NextIInv == IInv /\ [Next]_vars => IInv'
<1> SUFFICES ASSUME IInv, [Next]_vars
             PROVE  IInv'
  OBVIOUS
<1> USE NumJobsAssumption, MaxAttemptsAssumption, MaxRetriesAssumption
        DEF IInv, TypeOK, HoldsItsClaim, OneWorkerPerJob, Holds, PendingHasAttemptLeft,
            DeadIsExhausted, Worker, IdleWorker, NoJob, Jobs
<1>0. \A j \in Jobs : jobs[j] \in Row /\ jobs[j].attempts \in 0 .. MaxAttempts
  BY DEF Row
<1>1. ASSUME NEW j \in Jobs, Enqueue(j)
      PROVE  IInv'
  BY <1>1, NewRowFacts DEF Enqueue
<1>2. ASSUME NEW j \in Jobs, BackoffElapses(j)
      PROVE  IInv'
  BY <1>0, <1>2, MadeDueFacts DEF BackoffElapses, Waiting
<1>3. ASSUME NEW j \in Jobs, RetryAdminJob(j)
      PROVE  IInv'
  BY <1>0, <1>3, RetriedFacts DEF RetryAdminJob, Retryable
<1>4. ASSUME NEW w \in Workers, NEW j \in Jobs, Claim(w, j)
      PROVE  IInv'
  <2>1. /\ ClaimedBy(jobs[j], w) \in Row
        /\ ClaimedBy(jobs[j], w).status = "running"
        /\ ClaimedBy(jobs[j], w).attempts \in 1 .. MaxAttempts
    BY <1>0, <1>4, ClaimedByFacts DEF Claim, Oldest, Claimable
  <2>2. \A v \in Workers : ~Holds(v, j)
    BY <1>4 DEF Claim, Oldest, Claimable
  <2>3. TypeOK'
    BY <1>4, <2>1 DEF Claim
  <2>4. (\A v \in Workers : HoldsItsClaim(v))'
    BY <1>4, <2>1, <2>2 DEF Claim
  <2>5. OneWorkerPerJob'
    BY <1>4, <2>2 DEF Claim
  <2>6. (PendingHasAttemptLeft /\ DeadIsExhausted)'
    BY <1>4, <2>1 DEF Claim
  <2> QED
    BY <2>3, <2>4, <2>5, <2>6
<1>5. ASSUME NEW w \in Workers, NEW j \in Jobs, ClaimReplyLost(w, j)
      PROVE  IInv'
  <2>1. /\ ClaimedBy(jobs[j], w) \in Row
        /\ ClaimedBy(jobs[j], w).status = "running"
        /\ ClaimedBy(jobs[j], w).attempts \in 1 .. MaxAttempts
    BY <1>0, <1>5, ClaimedByFacts DEF ClaimReplyLost, Oldest, Claimable
  <2> QED
    BY <1>0, <1>5, <2>1 DEF ClaimReplyLost, Oldest, Claimable
<1>6. ASSUME NEW w \in Workers, Succeed(w)
      PROVE  IInv'
  BY <1>0, <1>6, MarkedSucceededFacts DEF Succeed
<1>7. ASSUME NEW w \in Workers, SucceedReplyLost(w)
      PROVE  IInv'
  BY <1>0, <1>7, MarkedSucceededFacts DEF SucceedReplyLost
<1>8. ASSUME NEW w \in Workers, HandlerFails(w)
      PROVE  IInv'
  BY <1>8 DEF HandlerFails
<1>9. ASSUME NEW w \in Workers, MarkFailed(w)
      PROVE  IInv'
  <2> DEFINE j   == worker[w].job
             row == MarkedFailed(jobs[j], worker[w].attempt)
  <2>1. /\ j \in Jobs
        /\ worker[w].attempt = jobs[j].attempts
        /\ jobs[j].attempts \in 0 .. MaxAttempts
    BY <1>0, <1>9 DEF MarkFailed
  <2>2. /\ row \in Row
        /\ row.attempts = jobs[j].attempts
        /\ row.status = IF jobs[j].attempts >= MaxAttempts THEN "dead" ELSE "pending"
    <3>1. jobs[j] \in Row /\ worker[w].attempt \in Nat
      BY <1>0, <2>1
    <3>2. /\ row \in Row
          /\ row.attempts = jobs[j].attempts
          /\ row.status = IF worker[w].attempt >= MaxAttempts THEN "dead" ELSE "pending"
      BY ONLY <3>1, MarkedFailedFacts
    <3> QED
      BY ONLY <2>1, <3>2
  <2>3. /\ jobs' = [jobs EXCEPT ![j] = row]
        /\ worker' = [worker EXCEPT ![w] = IdleWorker]
        /\ retries' = retries /\ faults' = faults
    BY <1>9 DEF MarkFailed
  <2> HIDE DEF row
  <2>4. TypeOK'
    BY <2>1, <2>2, <2>3
  <2>5. (\A v \in Workers : HoldsItsClaim(v))'
    BY <1>9, <2>1, <2>3 DEF MarkFailed
  <2>6. OneWorkerPerJob'
    BY <2>3
  <2>7. (PendingHasAttemptLeft /\ DeadIsExhausted)'
    BY <1>0, <2>1, <2>2, <2>3
  <2> QED
    BY <2>4, <2>5, <2>6, <2>7
<1>10. ASSUME NEW w \in Workers, MarkFailedErrs(w) \/ Crash(w)
       PROVE  IInv'
  <2>1. /\ jobs' = jobs /\ retries' = retries /\ faults' = faults
        /\ worker' = [worker EXCEPT ![w] = IdleWorker]
    BY <1>10 DEF MarkFailedErrs, Crash
  <2>2. TypeOK'
    BY <2>1
  <2> QED
    BY <2>1, <2>2
<1>11. CASE UNCHANGED vars
  BY <1>11 DEF vars
<1> QED
  BY <1>1, <1>2, <1>3, <1>4, <1>5, <1>6, <1>7, <1>8, <1>9, <1>10, <1>11
     DEF Next, WorkerStep, FaultStep

LEMMA Invariance == Spec => []IInv
  BY InitIInv, NextIInv, PTL DEF Spec

-----------------------------------------------------------------------------
\* The type invariant: in particular attempts never pass MaxAttempts, the
\* CHECK of the table, whatever fails.
THEOREM TypeCorrect == Spec => []TypeOK
  BY Invariance, PTL DEF IInv

\* The claim's status test and the retry's refusal of running jobs keep two
\* workers off one job, for any number of each and under every fault.
THEOREM MutualExclusion == Spec => []OneWorkerPerJob
  BY Invariance, PTL DEF IInv

\* A job is claimed only with an attempt left and given up only with none.
THEOREM AttemptsAccounted == Spec => [](PendingHasAttemptLeft /\ DeadIsExhausted)
  BY Invariance, PTL DEF IInv

-----------------------------------------------------------------------------
(* What holds as long as no committed statement is reported as failed.     *)

\* A job in a worker's hands is running: it is not marked before it is let go.
HeldIsRunning ==
  "lost_reply" \notin faults =>
    \A w \in Workers : worker[w].pc # "idle" => jobs[worker[w].job].status = "running"

LEMMA FaultsAreRigid == [Next]_vars => faults' = faults
  BY DEF Next, vars, Enqueue, BackoffElapses, RetryAdminJob, WorkerStep, FaultStep, Claim,
         Succeed, HandlerFails, MarkFailed, ClaimReplyLost, SucceedReplyLost, MarkFailedErrs,
         Crash

LEMMA NextHeldIsRunning == IInv /\ HeldIsRunning /\ [Next]_vars => HeldIsRunning'
<1> SUFFICES ASSUME IInv, HeldIsRunning, [Next]_vars, "lost_reply" \notin faults
             PROVE  HeldIsRunning'
  BY FaultsAreRigid DEF HeldIsRunning
<1> USE DEF IInv, TypeOK, HoldsItsClaim, OneWorkerPerJob, Holds, HeldIsRunning, IdleWorker
<1>0. \A j \in Jobs : jobs[j] \in Row /\ jobs[j].attempts \in 0 .. MaxAttempts
  BY DEF Row
<1>1. ASSUME NEW j \in Jobs, Enqueue(j) \/ BackoffElapses(j) \/ RetryAdminJob(j)
      PROVE  HeldIsRunning'
  <2>1. jobs[j].status # "running"
    BY <1>1, NewRowFacts DEF Enqueue, BackoffElapses, Waiting, RetryAdminJob, Retryable
  <2>2. worker' = worker /\ \A i \in Jobs \ {j} : jobs'[i] = jobs[i]
    BY <1>1 DEF Enqueue, BackoffElapses, RetryAdminJob
  <2> QED
    BY <2>1, <2>2
<1>2. ASSUME NEW w \in Workers, NEW j \in Jobs, Claim(w, j)
      PROVE  HeldIsRunning'
  <2>1. ClaimedBy(jobs[j], w).status = "running"
    BY <1>0, <1>2, ClaimedByFacts
       DEF Claim, Oldest, Claimable, PendingHasAttemptLeft
  <2> QED
    BY <1>2, <2>1 DEF Claim, Oldest, Claimable
<1>3. ASSUME NEW w \in Workers, Succeed(w) \/ MarkFailed(w)
      PROVE  HeldIsRunning'
  <2>1. /\ worker' = [worker EXCEPT ![w] = IdleWorker]
        /\ \A i \in Jobs \ {worker[w].job} : jobs'[i] = jobs[i]
    BY <1>3 DEF Succeed, MarkFailed
  <2>2. worker[w].pc # "idle"
    BY <1>3 DEF Succeed, MarkFailed
  <2> QED
    BY <2>1, <2>2
<1>4. ASSUME NEW w \in Workers, HandlerFails(w) \/ FaultStep(w)
      PROVE  HeldIsRunning'
  BY <1>4 DEF HandlerFails, FaultStep, MarkFailedErrs, Crash, ClaimReplyLost,
              SucceedReplyLost, Worker
<1>5. CASE UNCHANGED vars
  BY <1>5 DEF vars
<1> QED
  BY <1>1, <1>2, <1>3, <1>4, <1>5 DEF Next, WorkerStep

LEMMA HeldRunningInvariance == Spec => []HeldIsRunning
<1>1. Init => HeldIsRunning
  BY DEF Init, HeldIsRunning, IdleWorker
<1>2. IInv /\ HeldIsRunning /\ [Next]_vars => HeldIsRunning'
  BY NextHeldIsRunning
<1> QED
  BY <1>1, <1>2, Invariance, PTL DEF Spec

\* A job that succeeded stays so: only a lost reply to MarkSucceeded can put
\* it back, through the MarkFailed that follows.
THEOREM SuccessIsFinal == Spec => SucceededIsFinal
<1>1. ASSUME IInv, HeldIsRunning, [Next]_vars
      PROVE  [\A j \in Jobs :
                jobs[j].status = "succeeded" =>
                  jobs'[j].status = "succeeded" \/ "lost_reply" \in faults]_vars
  <2> SUFFICES ASSUME Next, "lost_reply" \notin faults
               PROVE  \A i \in Jobs : jobs[i].status = "succeeded" => jobs'[i].status = "succeeded"
    BY <1>1
  <2> USE <1>1 DEF IInv, TypeOK, HoldsItsClaim, HeldIsRunning
  <2>1. ASSUME NEW j \in Jobs, Enqueue(j) \/ BackoffElapses(j) \/ RetryAdminJob(j)
        PROVE  \A i \in Jobs : jobs[i].status = "succeeded" => jobs'[i].status = "succeeded"
    BY <2>1, NewRowFacts DEF Enqueue, BackoffElapses, Waiting, RetryAdminJob, Retryable
  <2>2. ASSUME NEW w \in Workers, WorkerStep(w) \/ FaultStep(w)
        PROVE  \A i \in Jobs : jobs[i].status = "succeeded" => jobs'[i].status = "succeeded"
    BY <2>2 DEF WorkerStep, FaultStep, Claim, Oldest, Claimable, Succeed, HandlerFails,
                MarkFailed, ClaimReplyLost, SucceedReplyLost, MarkFailedErrs, Crash
  <2> QED
    BY <2>1, <2>2 DEF Next
<1> QED
  BY <1>1, Invariance, HeldRunningInvariance, PTL DEF Spec, SucceededIsFinal

-----------------------------------------------------------------------------
(* JobQueue implements WorkDelivery.                                       *)

LEMMA InitRefines == Init => Delivery!Init
  BY NewRowFacts DEF Init, Delivery!Init, PhaseOf, Holds, IdleWorker, Jobs

LEMMA StepRefines ==
  ASSUME IInv, HeldIsRunning, [Next]_vars
  PROVE  [Delivery!Next]_(Delivery!vars)
<1> USE DEF IInv, TypeOK, OneWorkerPerJob
<1> DEFINE phase  == [j \in Jobs |-> PhaseOf(jobs[j])]
           tries  == [j \in Jobs |-> jobs[j].attempts]
           holder == [j \in Jobs |-> {w \in Workers : Holds(w, j)}]
           lossy  == "lost_reply" \in faults
<1>0. \A j \in Jobs : jobs[j] \in Row /\ jobs[j].attempts \in 0 .. MaxAttempts
  BY DEF Row
<1>15. lossy' = lossy
  BY FaultsAreRigid
<1>1. ASSUME NEW j \in Jobs, Enqueue(j)
      PROVE  Delivery!Offer(j)
  <2>1. phase[j] = "new" /\ phase' = [phase EXCEPT ![j] = "waiting"]
    BY <1>1, NewRowFacts DEF Enqueue, PhaseOf
  <2>2. tries' = tries
    BY <1>0, <1>1, NewRowFacts DEF Enqueue
  <2>3. holder' = holder
    BY <1>1 DEF Enqueue, Holds
  <2> QED
    BY <1>15, <2>1, <2>2, <2>3 DEF Delivery!Offer
<1>2. ASSUME NEW j \in Jobs, RetryAdminJob(j)
      PROVE  Delivery!Revive(j)
  <2>1. phase[j] = "abandoned" /\ phase' = [phase EXCEPT ![j] = "waiting"]
    BY <1>0, <1>2, RetriedFacts DEF RetryAdminJob, Retryable, PhaseOf
  <2>2. tries' = [tries EXCEPT ![j] = 0]
    BY <1>0, <1>2, RetriedFacts DEF RetryAdminJob, Retryable
  <2>3. holder' = holder
    BY <1>2 DEF RetryAdminJob, Holds
  <2> QED
    BY <1>15, <2>1, <2>2, <2>3 DEF Delivery!Revive
<1>3. ASSUME NEW j \in Jobs, BackoffElapses(j)
      PROVE  UNCHANGED Delivery!vars
  BY <1>0, <1>15, <1>3, MadeDueFacts DEF BackoffElapses, PhaseOf, Delivery!vars, Holds
<1>4. ASSUME NEW w \in Workers, NEW j \in Jobs, Claim(w, j)
      PROVE  Delivery!Start(j, w)
  <2>1. /\ jobs[j].status = "pending" /\ jobs[j].attempts < MaxAttempts
        /\ \A v \in Workers : ~Holds(v, j)
    BY <1>4 DEF Claim, Oldest, Claimable, PendingHasAttemptLeft, HoldsItsClaim, Holds
  <2>2. /\ ClaimedBy(jobs[j], w).status = "running"
        /\ ClaimedBy(jobs[j], w).attempts = jobs[j].attempts + 1
    BY <1>0, <2>1, ClaimedByFacts
  <2>3. phase' = [phase EXCEPT ![j] = "active"] /\ tries' = [tries EXCEPT ![j] = @ + 1]
    BY <1>4, <2>2 DEF Claim, PhaseOf
  <2>4. holder' = [holder EXCEPT ![j] = {w}]
    <3>1. ASSUME NEW i \in Jobs, NEW v \in Workers
          PROVE  Holds(v, i)' <=> IF i = j THEN v = w ELSE Holds(v, i)
      BY <1>4, <2>1 DEF Claim, Holds, Worker
    <3>2. \A i \in Jobs : {v \in Workers : Holds(v, i)'}
                            = IF i = j THEN {w} ELSE {v \in Workers : Holds(v, i)}
      BY <3>1
    <3>3. holder' = [i \in Jobs |-> {v \in Workers : Holds(v, i)'}]
      OBVIOUS
    <3> QED
      BY <3>2, <3>3
  <2> QED
    BY <1>15, <2>1, <2>3, <2>4 DEF Delivery!Start, PhaseOf
<1>5. ASSUME NEW w \in Workers, NEW j \in Jobs, ClaimReplyLost(w, j)
      PROVE  Delivery!StartUnnoticed(j)
  <2>1. jobs[j].status = "pending" /\ jobs[j].attempts < MaxAttempts
    BY <1>5 DEF ClaimReplyLost, Oldest, Claimable, PendingHasAttemptLeft
  <2>2. /\ ClaimedBy(jobs[j], w).status = "running"
        /\ ClaimedBy(jobs[j], w).attempts = jobs[j].attempts + 1
    BY <1>0, <2>1, ClaimedByFacts
  <2>3. phase' = [phase EXCEPT ![j] = "active"] /\ tries' = [tries EXCEPT ![j] = @ + 1]
    BY <1>5, <2>2 DEF ClaimReplyLost, PhaseOf
  <2>4. holder' = holder /\ lossy
    BY <1>5 DEF ClaimReplyLost, Holds
  <2> QED
    BY <1>15, <2>1, <2>3, <2>4 DEF Delivery!StartUnnoticed, PhaseOf
<1>6. ASSUME NEW w \in Workers, worker[w].pc # "idle"
      PROVE  worker[w].job \in Jobs /\ Delivery!Executes(w, worker[w].job)
  <2>1. /\ worker[w].job \in Jobs
        /\ jobs[worker[w].job].status \in {"running", "succeeded"}
        /\ ~lossy => jobs[worker[w].job].status = "running"
    BY <1>6 DEF HoldsItsClaim, HeldIsRunning
  <2>2. holder[worker[w].job] = {w}
    BY <1>6, <2>1 DEF Holds
  <2> QED
    BY <2>1, <2>2 DEF Delivery!Executes, PhaseOf
<1>7. ASSUME NEW w \in Workers, worker[w].pc # "idle",
             worker' = [worker EXCEPT ![w] = IdleWorker]
      PROVE  holder' = [holder EXCEPT ![worker[w].job] = {}]
  BY <1>7 DEF Holds, IdleWorker, HoldsItsClaim
<1>8. ASSUME NEW w \in Workers, Succeed(w)
      PROVE  Delivery!Finish(worker[w].job, w)
  <2> DEFINE j == worker[w].job
  <2>1. j \in Jobs /\ Delivery!Executes(w, j) /\ holder' = [holder EXCEPT ![j] = {}]
    BY <1>6, <1>7, <1>8 DEF Succeed
  <2> DEFINE row == MarkedSucceeded(jobs[j])
  <2>2. row.status = "succeeded" /\ row.attempts = jobs[j].attempts
    BY <1>0, <2>1, MarkedSucceededFacts
  <2>3. jobs' = [jobs EXCEPT ![j] = row]
    BY <1>8 DEF Succeed
  <2> HIDE DEF row
  <2>4. phase' = [phase EXCEPT ![j] = "done"] /\ tries' = tries
    BY <2>1, <2>2, <2>3 DEF PhaseOf
  <2> QED
    BY <1>15, <2>1, <2>4 DEF Delivery!Finish
<1>9. ASSUME NEW w \in Workers, SucceedReplyLost(w)
      PROVE  Delivery!FinishUnnoticed(worker[w].job, w)
  <2> DEFINE j == worker[w].job
  <2>1. j \in Jobs /\ Delivery!Executes(w, j)
    BY <1>6, <1>9 DEF SucceedReplyLost
  <2> DEFINE row == MarkedSucceeded(jobs[j])
  <2>2. row.status = "succeeded" /\ row.attempts = jobs[j].attempts
    BY <1>0, <2>1, MarkedSucceededFacts
  <2>3. jobs' = [jobs EXCEPT ![j] = row]
    BY <1>9 DEF SucceedReplyLost
  <2> HIDE DEF row
  <2>4. phase' = [phase EXCEPT ![j] = "done"] /\ tries' = tries
    BY <2>1, <2>2, <2>3 DEF PhaseOf
  <2>5. holder' = holder /\ lossy
    BY <1>9 DEF SucceedReplyLost, Holds, Worker
  <2> QED
    BY <1>15, <2>1, <2>4, <2>5 DEF Delivery!FinishUnnoticed
<1>10. ASSUME NEW w \in Workers, HandlerFails(w)
       PROVE  UNCHANGED Delivery!vars
  BY <1>15, <1>10 DEF HandlerFails, Delivery!vars, Holds, Worker
<1>11. ASSUME NEW w \in Workers, MarkFailed(w)
       PROVE  Delivery!GiveBack(worker[w].job, w)
  <2> DEFINE j   == worker[w].job
             row == MarkedFailed(jobs[j], worker[w].attempt)
  <2>1. j \in Jobs /\ Delivery!Executes(w, j) /\ holder' = [holder EXCEPT ![j] = {}]
    BY <1>6, <1>7, <1>11 DEF MarkFailed
  <2>2. /\ row.attempts = jobs[j].attempts
        /\ row.status = IF tries[j] = MaxAttempts THEN "dead" ELSE "pending"
    <3>1. worker[w].attempt = jobs[j].attempts
      BY <1>11 DEF MarkFailed, HoldsItsClaim
    <3>2. worker[w].attempt \in Nat /\ jobs[j] \in Row
      BY <1>0, <2>1, <3>1
    <3>3. /\ row.attempts = jobs[j].attempts
          /\ row.status = IF worker[w].attempt >= MaxAttempts THEN "dead" ELSE "pending"
      BY ONLY <3>2, MarkedFailedFacts
    <3>4. tries[j] = jobs[j].attempts /\ jobs[j].attempts \in 0 .. MaxAttempts
      BY <1>0, <2>1
    <3>5. tries[j] = MaxAttempts <=> worker[w].attempt >= MaxAttempts
      <4> HIDE DEF tries, j
      <4> QED
        BY ONLY <3>1, <3>4, MaxAttemptsAssumption
    <3> QED
      BY <3>3, <3>5
  <2>3. jobs' = [jobs EXCEPT ![j] = row]
    BY <1>11 DEF MarkFailed
  <2> HIDE DEF row
  <2>4. /\ phase' = [phase EXCEPT ![j] = IF tries[j] = MaxAttempts THEN "abandoned" ELSE "waiting"]
        /\ tries' = tries
    BY <2>1, <2>2, <2>3 DEF PhaseOf
  <2> QED
    BY <1>15, <2>1, <2>4 DEF Delivery!GiveBack
<1>12. ASSUME NEW w \in Workers, MarkFailedErrs(w) \/ Crash(w)
       PROVE  Delivery!Vanish(worker[w].job, w)
  <2>1. /\ worker[w].pc # "idle" /\ jobs' = jobs
        /\ worker' = [worker EXCEPT ![w] = IdleWorker]
    BY <1>12 DEF MarkFailedErrs, Crash
  <2> QED
    BY <1>15, <1>6, <1>7, <2>1 DEF Delivery!Vanish
<1>13. CASE UNCHANGED vars
  BY <1>13 DEF vars, Delivery!vars, Holds
<1>14. \A w \in Workers : worker[w].pc # "idle" => worker[w].job \in Jobs
  BY DEF HoldsItsClaim
<1> QED
  BY <1>1, <1>2, <1>3, <1>4, <1>5, <1>8, <1>9, <1>10, <1>11, <1>12, <1>13, <1>14
     DEF Next, WorkerStep, FaultStep, Delivery!Next, SucceedReplyLost, Succeed, MarkFailed,
         MarkFailedErrs, Crash

\* The rows, the claim and the marks deliver what WorkDelivery promises:
\* exclusive, counted execution, final unless replies are lost, for every
\* number of workers, jobs and attempts and with workers that vanish.
THEOREM QueueDeliversWork == Spec => DeliversWork
<1>1. IInv /\ HeldIsRunning /\ [Next]_vars => [Delivery!Next]_(Delivery!vars)
  BY StepRefines
<1> QED
  BY <1>1, InitRefines, Invariance, HeldRunningInvariance, PTL
     DEF Spec, DeliversWork, Delivery!Spec

-----------------------------------------------------------------------------
(* The order in which a worker serves its queues (L!), and the system that *)
(* TLC runs, in which the queue and the loop take turns (MCJobs).          *)

\* A worker at work has a row that is running, and has it to itself: a row is
\* used again only when it is settled, and claimed only when it is pending.
LoopHolds(w) ==
  pass[w].pc = "working" =>
    pass[w].job \in L!Rows /\ rows[pass[w].job].status = "running"

OneLoopPerRow ==
  \A v, w \in Active :
    pass[v].pc = "working" /\ pass[w].pc = "working" /\ pass[v].job = pass[w].job => v = w

\* Nothing is stranded: without faults a running row is in somebody's hands.
RunningIsHeld ==
  \A j \in L!Rows :
    rows[j].status = "running" => \E w \in Active : pass[w].pc = "working" /\ pass[w].job = j

LoopTypes ==
  /\ rows \in [L!Rows -> Row]
  /\ queue \in [L!Rows -> L!Queues]
  /\ candidate \in {"none", "good", "failing"}
  /\ pass \in [Active -> L!Pass]

LoopInv ==
  /\ LoopTypes
  /\ \A w \in Active : LoopHolds(w)
  /\ OneLoopPerRow
  /\ RunningIsHeld
  /\ \A j \in L!Rows : rows[j].status = "pending" => rows[j].attempts < MaxAttempts

\* The loop has its own instance of the row operators.
LEMMA SameRows ==
  /\ L!Row = Row /\ L!NoRow = NoRow /\ L!NewRow = NewRow
  /\ \A row, w : L!ClaimedBy(row, w) = ClaimedBy(row, w)
  /\ \A row : /\ L!MarkedSucceeded(row) = MarkedSucceeded(row)
              /\ L!MadeDue(row) = MadeDue(row)
              /\ L!Claimable(row) <=> Claimable(row)
              /\ L!Waiting(row) <=> Waiting(row)
  /\ \A row, n : L!MarkedFailed(row, n) = MarkedFailed(row, n)
  BY DEF L!Row, Row, L!JobStatus, JobStatus, L!NoRow, NoRow, L!NewRow, NewRow, L!ClaimedBy,
         ClaimedBy, L!MarkedSucceeded, MarkedSucceeded, L!MadeDue, MadeDue, L!Claimable,
         Claimable, L!Waiting, Waiting, L!MarkedFailed, MarkedFailed, L!GivenUp, GivenUp,
         L!PutBack, PutBack

LEMMA StagesFit == /\ DOMAIN L!Stages = 1 .. 6 /\ Len(L!Stages) = 6
                   /\ L!Resting \in L!Pass /\ L!Resting.pc = "resting"
  BY DEF L!Stages, L!Resting, L!Pass, L!NoJob

LEMMA LoopInvInit == L!Init => LoopInv
<1> SUFFICES ASSUME L!Init PROVE LoopInv
  OBVIOUS
<1>1. [L!Resting EXCEPT !.pc = "stopped"] \in L!Pass
  BY StagesFit DEF L!Resting, L!Pass, L!NoJob
<1>2. \A w \in Active : pass[w].pc = "stopped"
  BY DEF L!Init, L!Resting
<1>3. \A j \in L!Rows : rows[j] = NoRow
  BY SameRows DEF L!Init
<1>4. QED
  BY <1>1, <1>2, <1>3, SameRows, NewRowFacts
     DEF L!Init, LoopInv, LoopTypes, LoopHolds, OneLoopPerRow, RunningIsHeld, L!Queues

\* Worker w moves without a job, before and after; the rows stay.
LEMMA WalkKeepsLoopInv ==
  ASSUME LoopInv, NEW w \in Active, NEW next \in L!Pass, pass[w].pc # "working",
         next.pc # "working", pass' = [pass EXCEPT ![w] = next], UNCHANGED <<rows, queue>>,
         candidate' \in {"none", "good", "failing"}
  PROVE  LoopInv'
<1>1. pass' \in [Active -> L!Pass] /\ pass'[w] = next
      /\ \A v \in Active \ {w} : pass'[v] = pass[v]
  BY DEF LoopInv, LoopTypes
<1>2. QED
  BY <1>1 DEF LoopInv, LoopTypes, LoopHolds, OneLoopPerRow, RunningIsHeld, L!Rows

\* A row that nobody holds, and that is not running, changes.
LEMMA RowKeepsLoopInv ==
  ASSUME LoopInv, NEW j \in L!Rows, rows[j].status # "running", NEW row \in Row,
         row.status = "pending", row.attempts < MaxAttempts,
         rows' = [rows EXCEPT ![j] = row], queue' \in [L!Rows -> L!Queues],
         UNCHANGED <<candidate, pass>>
  PROVE  LoopInv'
<1>1. rows' \in [L!Rows -> Row] /\ rows'[j] = row
      /\ \A i \in L!Rows \ {j} : rows'[i] = rows[i]
  BY DEF LoopInv, LoopTypes
<1>2. QED
  BY <1>1 DEF LoopInv, LoopTypes, LoopHolds, OneLoopPerRow, RunningIsHeld, L!Rows

LEMMA ClaimKeepsLoopInv ==
  ASSUME LoopInv, NEW w \in Active, NEW j \in L!Rows, L!Claim(w, j)
  PROVE  LoopInv'
<1>1. /\ rows[j] \in Row /\ rows[j].status = "pending" /\ rows[j].attempts < MaxAttempts
      /\ pass[w] \in L!Pass /\ w \in Workers /\ pass[w].pc = "asking"
  BY SameRows, LoopAssumption DEF L!Claim, L!Oldest, L!Asks, Claimable, LoopInv, LoopTypes
<1>2. ClaimedBy(rows[j], w) \in Row /\ ClaimedBy(rows[j], w).status = "running"
  BY <1>1, ClaimedByFacts
<1>3. /\ rows' \in [L!Rows -> Row] /\ rows'[j].status = "running"
      /\ \A i \in L!Rows \ {j} : rows'[i] = rows[i]
  BY <1>2, SameRows DEF L!Claim, LoopInv, LoopTypes
<1>4. /\ pass' \in [Active -> L!Pass] /\ pass'[w].pc = "working" /\ pass'[w].job = j
      /\ \A v \in Active \ {w} : pass'[v] = pass[v]
  BY <1>1 DEF L!Claim, L!Goto, LoopInv, LoopTypes, L!Pass
<1>5. \A v \in Active : pass[v].pc = "working" => pass[v].job # j
  BY <1>1 DEF LoopInv, LoopHolds
<1>6. LoopTypes'
  BY <1>3, <1>4 DEF L!Claim, LoopInv, LoopTypes
<1>7. \A v \in Active : LoopHolds(v)'
  BY <1>3, <1>4 DEF LoopInv, LoopHolds, L!Rows
<1>8. OneLoopPerRow'
  BY <1>4, <1>5 DEF LoopInv, OneLoopPerRow
<1>9. RunningIsHeld'
  <2>1. ASSUME NEW i \in L!Rows, rows'[i].status = "running"
        PROVE  \E v \in Active : pass'[v].pc = "working" /\ pass'[v].job = i
    <3>1. CASE i = j
      BY <1>4, <3>1
    <3>2. CASE i # j
      <4>1. PICK v \in Active : pass[v].pc = "working" /\ pass[v].job = i
        BY <1>3, <2>1, <3>2 DEF LoopInv, RunningIsHeld
      <4>2. QED
        BY <1>1, <1>4, <4>1
    <3>3. QED
      BY <3>1, <3>2
  <2>2. QED
    BY <2>1 DEF RunningIsHeld, L!Rows
<1>10. QED
  BY <1>3, <1>6, <1>7, <1>8, <1>9 DEF LoopInv, L!Rows

LEMMA FinishKeepsLoopInv ==
  ASSUME LoopInv, NEW w \in Active, L!Finish(w)
  PROVE  LoopInv'
<1>1. PICK j \in L!Rows : j = pass[w].job
  BY DEF L!Finish, LoopInv, LoopHolds
<1>2. /\ rows[j] \in Row /\ rows[j].status = "running" /\ rows[j].attempts \in Nat
      /\ pass[w].pc = "working"
  BY <1>1, MaxAttemptsAssumption DEF L!Finish, LoopInv, LoopHolds, LoopTypes, Row
<1>3. PICK row \in Row : /\ rows' = [rows EXCEPT ![j] = row]
                         /\ row.status # "running"
                         /\ row.status = "pending" => row.attempts < MaxAttempts
  <2>1. /\ MarkedSucceeded(rows[j]) \in Row /\ MarkedSucceeded(rows[j]).status = "succeeded"
        /\ MarkedFailed(rows[j], rows[j].attempts) \in Row
        /\ MarkedFailed(rows[j], rows[j].attempts).status # "running"
        /\ MarkedFailed(rows[j], rows[j].attempts).status = "pending" =>
             MarkedFailed(rows[j], rows[j].attempts).attempts < MaxAttempts
    <3>1. MaxAttempts \in Nat
      BY MaxAttemptsAssumption
    <3>2. /\ MarkedSucceeded(rows[j]) \in Row
          /\ MarkedSucceeded(rows[j]).status = "succeeded"
      BY <1>2, MarkedSucceededFacts
    <3>3. /\ MarkedFailed(rows[j], rows[j].attempts) \in Row
          /\ MarkedFailed(rows[j], rows[j].attempts).attempts = rows[j].attempts
          /\ MarkedFailed(rows[j], rows[j].attempts).status =
               IF rows[j].attempts >= MaxAttempts THEN "dead" ELSE "pending"
      BY <1>2, MarkedFailedFacts
    <3>4. QED
      BY <1>2, <3>1, <3>2, <3>3
  <2>2. \/ rows' = [rows EXCEPT ![j] = MarkedSucceeded(rows[j])]
        \/ rows' = [rows EXCEPT ![j] = MarkedFailed(rows[j], rows[j].attempts)]
    BY <1>1, SameRows DEF L!Finish
  <2>3. QED
    BY <2>1, <2>2
<1>4. /\ rows' \in [L!Rows -> Row] /\ rows'[j] = row
      /\ \A i \in L!Rows \ {j} : rows'[i] = rows[i]
  BY <1>3 DEF LoopInv, LoopTypes
<1>5. /\ pass' \in [Active -> L!Pass] /\ pass'[w].pc = "resting"
      /\ \A v \in Active \ {w} : pass'[v] = pass[v]
  BY StagesFit DEF L!Finish, L!Goto, LoopInv, LoopTypes
<1>6. \A v \in Active \ {w} : pass[v].pc = "working" => pass[v].job # j
  BY <1>1, <1>2 DEF LoopInv, OneLoopPerRow
<1>7. LoopTypes'
  BY <1>4, <1>5 DEF L!Finish, LoopInv, LoopTypes
<1>8. \A v \in Active : LoopHolds(v)'
  BY <1>4, <1>5, <1>6 DEF LoopInv, LoopHolds, L!Rows
<1>9. OneLoopPerRow'
  BY <1>5 DEF LoopInv, OneLoopPerRow
<1>10. RunningIsHeld'
  <2>1. ASSUME NEW i \in L!Rows, rows'[i].status = "running"
        PROVE  \E v \in Active : pass'[v].pc = "working" /\ pass'[v].job = i
    <3>1. i # j
      BY <1>3, <1>4, <2>1
    <3>2. PICK v \in Active : pass[v].pc = "working" /\ pass[v].job = i
      BY <1>4, <2>1, <3>1 DEF LoopInv, RunningIsHeld
    <3>3. QED
      BY <1>1, <1>5, <3>1, <3>2
  <2>2. QED
    BY <2>1 DEF RunningIsHeld, L!Rows
<1>11. QED
  BY <1>3, <1>4, <1>7, <1>8, <1>9, <1>10 DEF LoopInv, L!Rows

LEMMA LoopInvStep == LoopInv /\ [L!Next]_loopVars => LoopInv'
<1> SUFFICES ASSUME LoopInv, [L!Next]_loopVars PROVE LoopInv'
  OBVIOUS
<1>1. ASSUME NEW j \in L!Rows, L!BackoffElapses(j) PROVE LoopInv'
  <2>1. /\ rows[j] \in Row /\ rows[j].status = "pending" /\ rows[j].attempts < MaxAttempts
        /\ queue' \in [L!Rows -> L!Queues]
    BY <1>1, SameRows DEF L!BackoffElapses, Waiting, LoopInv, LoopTypes
  <2>2. QED
    BY <1>1, <2>1, SameRows, MadeDueFacts, RowKeepsLoopInv DEF L!BackoffElapses
<1>2. ASSUME NEW j \in L!Rows, NEW q \in L!Queues, L!Enqueue(j, q) PROVE LoopInv'
  <2>1. rows[j].status # "running" /\ queue' \in [L!Rows -> L!Queues]
    BY <1>2 DEF L!Enqueue, L!Settled, LoopInv, LoopTypes
  <2>2. NewRow \in Row /\ NewRow.status = "pending" /\ NewRow.attempts < MaxAttempts
    BY NewRowFacts, MaxAttemptsAssumption
  <2>3. rows' = [rows EXCEPT ![j] = NewRow] /\ UNCHANGED <<candidate, pass>>
    BY <1>2, SameRows DEF L!Enqueue
  <2>4. QED
    BY <2>1, <2>2, <2>3, RowKeepsLoopInv
<1>3. CASE L!CandidateChanges
  BY <1>3 DEF L!CandidateChanges, LoopInv, LoopTypes, LoopHolds, OneLoopPerRow, RunningIsHeld,
              L!Rows
<1>4. ASSUME NEW w \in Active, L!Start(w) \/ L!Tick(w) \/ L!PublishCandidate(w)
      PROVE  LoopInv'
  <2>1. [pass[w] EXCEPT !.pc = "asking"] \in L!Pass
    BY DEF LoopInv, LoopTypes, L!Pass
  <2>2. PICK next \in L!Pass : pass' = [pass EXCEPT ![w] = next] /\ next.pc # "working"
    BY <1>4, <2>1, StagesFit
       DEF L!Start, L!Tick, L!PublishCandidate, L!Goto, L!Pass, LoopInv, LoopTypes
  <2>3. /\ pass[w].pc # "working" /\ UNCHANGED <<rows, queue>>
        /\ candidate' \in {"none", "good", "failing"}
    BY <1>4 DEF L!Start, L!Tick, L!PublishCandidate, L!Asks, LoopInv, LoopTypes
  <2>4. QED
    BY <2>2, <2>3, WalkKeepsLoopInv
<1>5. ASSUME NEW w \in Active, L!FindNothing(w) PROVE LoopInv'
  <2>1. pass[w].stage \in 1 .. 6 /\ pass[w] \in L!Pass /\ pass[w].pc = "asking"
    BY <1>5, StagesFit DEF L!FindNothing, LoopInv, LoopTypes, L!Pass
  <2>2. L!After(pass[w].stage) = 0 \/ L!After(pass[w].stage) \in DOMAIN L!Stages
    BY <2>1, StagesFit DEF L!After
  <2>3. \A s \in DOMAIN L!Stages : /\ [pass[w] EXCEPT !.stage = s] \in L!Pass
                                   /\ [pass[w] EXCEPT !.stage = s].pc # "working"
    BY <2>1 DEF L!Pass
  <2>4. PICK next \in L!Pass : pass' = [pass EXCEPT ![w] = next] /\ next.pc # "working"
    BY <1>5, <2>2, <2>3, StagesFit DEF L!FindNothing, L!Goto
  <2>5. UNCHANGED <<rows, queue, candidate>>
    BY <1>5 DEF L!FindNothing
  <2>6. QED
    BY <2>1, <2>4, <2>5, WalkKeepsLoopInv DEF LoopInv, LoopTypes
<1>6. CASE UNCHANGED loopVars
  BY <1>6 DEF loopVars, LoopInv, LoopTypes, LoopHolds, OneLoopPerRow, RunningIsHeld, L!Rows
<1>7. QED
  BY <1>1, <1>2, <1>3, <1>4, <1>5, <1>6, ClaimKeepsLoopInv, FinishKeepsLoopInv
     DEF L!Next, L!Step

LEMMA JobsInvariance == JobsSpec => [](IInv /\ LoopInv)
<1>1. JobsInit => IInv /\ LoopInv
  BY InitIInv, LoopInvInit DEF JobsInit
<1>2. [JobsNext]_<<part, vars, loopVars>> => [Next]_vars /\ [L!Next]_loopVars
  BY Zenon DEF JobsNext
<1>3. IInv /\ LoopInv /\ [JobsNext]_<<part, vars, loopVars>> => (IInv /\ LoopInv)'
  BY <1>2, NextIInv, LoopInvStep
<1>4. QED
  BY <1>1, <1>3, PTL DEF JobsSpec

\* The queue and the loop keep their types: whatever the order of the claims, a
\* row has no more attempts than allowed and a pass stays within its stages.
THEOREM JobsAreTyped == JobsSpec => []Typed
<1>1. IInv /\ LoopInv => Typed
  BY SameRows DEF IInv, LoopInv, LoopTypes, L!TypeOK, Typed
<1>2. QED
  BY <1>1, JobsInvariance, PTL

\* No claim of one queue takes a row from a worker that another stage gave it
\* to, and, without faults, no row stays behind as running in nobody's hands.
THEOREM LoopStrandsNothing == JobsSpec => [](OneLoopPerRow /\ RunningIsHeld)
  BY JobsInvariance, PTL DEF LoopInv
=============================================================================
