------------------------ MODULE ServerChecks_proofs -------------------------
(***************************************************************************)
(* Proofs about the server catalogue, for every set of servers, endpoints, *)
(* workers and faults.  JobPart is what makes the rows well typed; the two *)
(* last clauses of ListingPart are what the safety properties rest on, and *)
(* no step of a worker or of the scheduler can disturb them.  FewPart, the *)
(* last section, counts the checks of a server.                            *)
(***************************************************************************)
EXTENDS ServerChecks, JobRows_proofs, FiniteSetTheorems

HoldsItsJob(w) ==
  worker[w].pc # "idle" =>
    /\ worker[w].job \in Jobs
    /\ rows[worker[w].job].status \in {"running", "succeeded"}
    /\ rows[worker[w].job].attempts = worker[w].attempt

OneWorkerPerJob ==
  \A v, w \in Workers :
    worker[v].pc # "idle" /\ worker[w].pc # "idle" /\ worker[v].job = worker[w].job => v = w

RowFits(j) ==
  /\ rows[j].status # "absent" => payload[j] \in Servers
  /\ rows[j].status # "failed"
  /\ rows[j].status = "pending" => rows[j].attempts < MaxAttempts

JobPart ==
  /\ rows \in [Jobs -> Row]
  /\ payload \in [Jobs -> Servers \cup {NoServer}]
  /\ worker \in [Workers -> Worker]
  /\ \A w \in Workers : HoldsItsJob(w)
  /\ OneWorkerPerJob
  /\ \A j \in Jobs : RowFits(j)

ListingPart ==
  /\ listing \in [Servers -> Listing]
  /\ selected \in Servers \cup {NoServer}
  /\ requests \in 0 .. MaxRequests
  /\ takenDown \in [Servers -> BOOLEAN]
  /\ faults \in FaultSets
  /\ \A s \in Servers : listing[s].deleted => listing[s].status = "deleted"
  /\ \A s \in Servers : takenDown[s] => listing[s].hidden

IInv == JobPart /\ ListingPart

-----------------------------------------------------------------------------
(* Workers and jobs.                                                       *)

LEMMA RestingFacts == Resting \in Worker /\ Resting.pc = "idle"
  BY MaxAttemptsAssumption, BoundsAssumption DEF Resting, Worker

\* Worker w goes on with its job, or stops.
Moved(w) ==
  /\ worker' \in [Workers -> Worker]
  /\ \A v \in Workers \ {w} : worker'[v] = worker[v]
  /\ worker'[w].pc # "idle" =>
       /\ worker[w].pc # "idle"
       /\ worker'[w].job = worker[w].job
       /\ worker'[w].attempt = worker[w].attempt

LEMMA MovedKeepsJobPart ==
  ASSUME JobPart, NEW w \in Workers, Moved(w), UNCHANGED <<rows, payload>>
  PROVE  JobPart'
  BY DEF JobPart, Moved, HoldsItsJob, OneWorkerPerJob, RowFits

LEMMA RestMoves ==
  ASSUME JobPart, NEW w \in Workers, worker' = [worker EXCEPT ![w] = Resting]
  PROVE  Moved(w) /\ worker'[w].pc = "idle"
  BY RestingFacts DEF JobPart, Moved

LEMMA GotoMoves ==
  ASSUME JobPart, NEW w \in Workers, worker[w].pc # "idle",
         NEW pc \in {"mark", "fail"}, Goto(w, pc)
  PROVE  Moved(w)
<1> DEFINE next == [worker[w] EXCEPT !.pc = pc, !.endpoint = NoEndpoint, !.online = FALSE]
<1>1. worker' = [worker EXCEPT ![w] = next]
  BY DEF Goto
<1>2. next \in Worker /\ next.job = worker[w].job /\ next.attempt = worker[w].attempt
  BY DEF JobPart, Worker
<1> HIDE DEF next
<1> QED
  BY <1>1, <1>2 DEF JobPart, Moved

\* The row of job j changes while nobody, or only worker w, who stops, holds it.
LEMMA RowChangeKeepsJobPart ==
  ASSUME JobPart, NEW j \in Jobs, NEW row \in Row, NEW s \in Servers \cup {NoServer},
         rows' = [rows EXCEPT ![j] = row], payload' = [payload EXCEPT ![j] = s],
         row.status # "absent" => s \in Servers,
         row.status # "failed",
         row.status = "pending" => row.attempts < MaxAttempts,
         worker' \in [Workers -> Worker],
         \A w \in Workers :
           worker'[w] = worker[w] /\ worker[w].pc # "idle" => worker[w].job # j,
         \A w \in Workers : worker'[w] # worker[w] => worker'[w].pc = "idle"
  PROVE  JobPart'
<1>1. /\ rows' \in [Jobs -> Row] /\ rows'[j] = row
      /\ payload' \in [Jobs -> Servers \cup {NoServer}] /\ payload'[j] = s
      /\ \A k \in Jobs \ {j} : rows'[k] = rows[k] /\ payload'[k] = payload[k]
  BY DEF JobPart
<1>2. \A w \in Workers : worker'[w].pc # "idle" => worker'[w] = worker[w] /\ worker[w].job # j
  OBVIOUS
<1>3. \A w \in Workers : HoldsItsJob(w)'
  BY <1>1, <1>2 DEF JobPart, HoldsItsJob
<1>4. OneWorkerPerJob'
  BY <1>2 DEF JobPart, OneWorkerPerJob
<1>5. \A k \in Jobs : RowFits(k)'
  BY <1>1 DEF JobPart, RowFits
<1> QED
  BY <1>1, <1>3, <1>4, <1>5 DEF JobPart

LEMMA InsertKeepsJobPart ==
  ASSUME JobPart, NEW s \in Servers, Insert(s), worker' = worker
  PROVE  JobPart'
<1>1. PICK j \in Jobs : /\ Unused(j)
                        /\ rows' = [rows EXCEPT ![j] = NewRow]
                        /\ payload' = [payload EXCEPT ![j] = s]
  BY DEF Insert
<1>2. \A w \in Workers : worker[w].job # j
  BY <1>1 DEF Unused
<1>3. NewRow.attempts < MaxAttempts
  BY NewRowFacts, MaxAttemptsAssumption
<1>4. worker' \in [Workers -> Worker]
  BY DEF JobPart
<1> QED
  BY <1>1, <1>2, <1>3, <1>4, NewRowFacts, RowChangeKeepsJobPart

LEMMA EnqueueKeepsJobPart ==
  ASSUME JobPart, NEW s \in Servers, Enqueue(s), worker' = worker
  PROVE  JobPart'
<1>1. CASE Insert(s)
  BY <1>1, InsertKeepsJobPart
<1>2. CASE UNCHANGED <<rows, payload>>
  BY <1>2 DEF JobPart, HoldsItsJob, OneWorkerPerJob, RowFits
<1> QED
  BY <1>1, <1>2 DEF Enqueue

LEMMA ClaimKeepsJobPart ==
  ASSUME JobPart, NEW w \in Workers, NEW j \in Jobs, Claim(w, j)
  PROVE  JobPart'
<1> DEFINE row == ClaimedBy(rows[j], w)
<1> DEFINE next == [Resting EXCEPT !.pc = "target", !.job = j, !.attempt = row.attempts]
<1>1. rows' = [rows EXCEPT ![j] = row] /\ worker' = [worker EXCEPT ![w] = next]
  BY DEF Claim
<1>2. rows[j] \in Row /\ rows[j].status = "pending" /\ rows[j].attempts < MaxAttempts
  BY DEF JobPart, RowFits, Claim, Claimable
<1>3. row \in Row /\ row.status = "running"
  BY <1>2, ClaimedByFacts
<1> HIDE DEF row
<1>0. row.attempts \in 0 .. MaxAttempts /\ j \in 0 .. MaxJobs
  BY <1>3, BoundsAssumption DEF Row, Jobs
<1>4. next \in Worker /\ next.pc = "target" /\ next.job = j /\ next.attempt = row.attempts
  BY <1>0 DEF Resting, Worker
<1> HIDE DEF next
<1>5. \A v \in Workers : worker[v].pc # "idle" => worker[v].job # j
  BY <1>2 DEF JobPart, HoldsItsJob
<1>6. /\ rows' \in [Jobs -> Row] /\ rows'[j] = row
      /\ \A k \in Jobs \ {j} : rows'[k] = rows[k]
      /\ worker' \in [Workers -> Worker] /\ worker'[w] = next
      /\ \A v \in Workers \ {w} : worker'[v] = worker[v]
      /\ payload' = payload
  BY <1>1, <1>3, <1>4 DEF JobPart, Claim
<1>7. \A v \in Workers : HoldsItsJob(v)'
  BY <1>3, <1>4, <1>5, <1>6 DEF JobPart, HoldsItsJob
<1>8. OneWorkerPerJob'
  BY <1>4, <1>5, <1>6 DEF JobPart, OneWorkerPerJob
<1>9. \A k \in Jobs : RowFits(k)'
  BY <1>2, <1>3, <1>6 DEF JobPart, RowFits
<1> QED
  BY <1>6, <1>7, <1>8, <1>9 DEF JobPart

LEMMA GetCheckTargetMoves ==
  ASSUME JobPart, ListingPart, NEW w \in Workers, GetCheckTarget(w)
  PROVE  Moved(w)
<1>1. worker[w].pc = "target"
  BY DEF GetCheckTarget, At
<1>2. CASE Goto(w, "mark") \/ Goto(w, "fail")
  BY <1>1, <1>2, GotoMoves
<1>3. ASSUME NEW e \in Endpoints \cup {NoEndpoint},
             worker' = [worker EXCEPT ![w].pc = "probe", ![w].endpoint = e]
      PROVE  Moved(w)
  <2> DEFINE next == [worker[w] EXCEPT !.pc = "probe", !.endpoint = e]
  <2>1. worker' = [worker EXCEPT ![w] = next]
    BY <1>3 DEF JobPart
  <2>2. next \in Worker /\ next.job = worker[w].job /\ next.attempt = worker[w].attempt
    BY DEF JobPart, Worker
  <2> HIDE DEF next
  <2> QED
    BY <1>1, <2>1, <2>2 DEF JobPart, Moved
<1>4. Checked(w) \in Servers
  BY <1>1 DEF JobPart, HoldsItsJob, RowFits, Checked
<1>5. listing[Checked(w)].endpoint \in Endpoints \cup {NoEndpoint}
  BY <1>4 DEF ListingPart, Listing
<1> QED
  BY <1>2, <1>3, <1>5 DEF GetCheckTarget

LEMMA ProbeMoves ==
  ASSUME JobPart, NEW w \in Workers, Probe(w)
  PROVE  Moved(w)
<1>1. PICK online \in BOOLEAN :
        worker' = [worker EXCEPT ![w].pc = "complete", ![w].online = online]
  <2>1. PICK online \in {worker[w].endpoint \in Answering} \cup
                          (IF "probe_lost" \in faults THEN {FALSE} ELSE {}) :
          worker' = [worker EXCEPT ![w].pc = "complete", ![w].online = online]
    BY DEF Probe
  <2>2. online \in BOOLEAN
    <3>1. (worker[w].endpoint \in Answering) \in BOOLEAN
      OBVIOUS
    <3>2. online = (worker[w].endpoint \in Answering) \/ online = FALSE
      OBVIOUS
    <3> QED
      BY <3>1, <3>2
  <2> QED
    BY <2>1, <2>2
<1> DEFINE next == [worker[w] EXCEPT !.pc = "complete", !.online = online]
<1>2. worker' = [worker EXCEPT ![w] = next] /\ worker[w].pc # "idle"
  BY <1>1 DEF JobPart, Probe, At
<1>3. next \in Worker /\ next.job = worker[w].job /\ next.attempt = worker[w].attempt
  BY DEF JobPart, Worker
<1> HIDE DEF next
<1> QED
  BY <1>2, <1>3 DEF JobPart, Moved

LEMMA CompleteCheckMoves ==
  ASSUME JobPart, NEW w \in Workers, CompleteCheck(w)
  PROVE  Moved(w)
<1>1. worker[w].pc # "idle" /\ (Goto(w, "mark") \/ Goto(w, "fail"))
  BY DEF CompleteCheck, At
<1> QED
  BY <1>1, GotoMoves

LEMMA MarkKeepsJobPart ==
  ASSUME JobPart, NEW w \in Workers, Mark(w)
  PROVE  JobPart'
<1>1. worker[w].pc = "mark" /\ payload' = payload
  BY DEF Mark, At
<1>2. Moved(w)
  <2>1. CASE worker' = [worker EXCEPT ![w] = Resting]
    BY <2>1, RestMoves
  <2>2. CASE Goto(w, "fail")
    BY <1>1, <2>2, GotoMoves
  <2> QED
    BY <2>1, <2>2 DEF Mark
<1>3. CASE UNCHANGED rows
  BY <1>1, <1>2, <1>3, MovedKeepsJobPart
<1>4. CASE rows' = [rows EXCEPT ![worker[w].job] = MarkedSucceeded(@)]
  <2> DEFINE j == worker[w].job
  <2> DEFINE row == MarkedSucceeded(rows[j])
  <2>1. j \in Jobs /\ rows[j].status # "absent" /\ rows[j].attempts = worker[w].attempt
    BY <1>1 DEF JobPart, HoldsItsJob
  <2>2. row \in Row /\ row.status = "succeeded" /\ row.attempts = rows[j].attempts
    BY <2>1, MarkedSucceededFacts DEF JobPart
  <2>3. rows' = [rows EXCEPT ![j] = row]
    BY <1>4
  <2> HIDE DEF j, row
  <2>4. /\ rows' \in [Jobs -> Row] /\ rows'[j] = row
        /\ \A k \in Jobs \ {j} : rows'[k] = rows[k]
    BY <2>1, <2>2, <2>3 DEF JobPart
  <2>5. \A v \in Workers : HoldsItsJob(v)'
    BY <1>2, <2>2, <2>4 DEF JobPart, HoldsItsJob, Moved
  <2>6. OneWorkerPerJob'
    BY <1>2 DEF JobPart, OneWorkerPerJob, Moved
  <2>7. \A k \in Jobs : RowFits(k)'
    BY <1>1, <2>1, <2>2, <2>4 DEF JobPart, RowFits
  <2> QED
    BY <1>1, <1>2, <2>4, <2>5, <2>6, <2>7 DEF JobPart, Moved
<1> QED
  BY <1>3, <1>4 DEF Mark

LEMMA FailKeepsJobPart ==
  ASSUME JobPart, NEW w \in Workers, Fail(w)
  PROVE  JobPart'
<1>1. /\ worker[w].pc = "fail" /\ payload' = payload
      /\ worker' = [worker EXCEPT ![w] = Resting]
  BY DEF Fail, At
<1>2. Moved(w) /\ worker'[w].pc = "idle"
  BY <1>1, RestMoves
<1>3. CASE UNCHANGED rows
  BY <1>1, <1>2, <1>3, MovedKeepsJobPart
<1>4. CASE rows' = [rows EXCEPT ![worker[w].job] = MarkedFailed(@, worker[w].attempt)]
  <2> DEFINE j == worker[w].job
  <2> DEFINE row == MarkedFailed(rows[j], worker[w].attempt)
  <2>1. /\ j \in Jobs /\ rows[j].status # "absent" /\ rows[j] \in Row
        /\ rows[j].attempts = worker[w].attempt
    BY <1>1 DEF JobPart, HoldsItsJob
  <2>2. worker[w].attempt \in 0 .. MaxAttempts
    BY DEF JobPart, Worker
  <2>3. /\ row \in Row /\ row.attempts = rows[j].attempts
        /\ row.status = IF worker[w].attempt >= MaxAttempts THEN "dead" ELSE "pending"
    BY <2>1, <2>2, MarkedFailedFacts, MaxAttemptsAssumption
  <2>4. /\ row.status # "failed" /\ row.status # "absent"
        /\ row.status = "pending" => row.attempts < MaxAttempts
    BY <2>1, <2>2, <2>3, MaxAttemptsAssumption
  <2>5. /\ rows' = [rows EXCEPT ![j] = row] /\ payload' = [payload EXCEPT ![j] = payload[j]]
        /\ payload[j] \in Servers
    BY <1>1, <1>4, <2>1 DEF JobPart, RowFits
  <2> HIDE DEF row
  <2>6. \A v \in Workers : worker'[v] = worker[v] /\ worker[v].pc # "idle" => worker[v].job # j
    BY <1>1, <1>2 DEF JobPart, OneWorkerPerJob
  <2>7. \A v \in Workers : worker'[v] # worker[v] => worker'[v].pc = "idle"
    BY <1>2 DEF Moved
  <2>8. worker' \in [Workers -> Worker]
    BY <1>2 DEF Moved
  <2> HIDE DEF j
  <2> QED
    BY <2>1, <2>3, <2>4, <2>5, <2>6, <2>7, <2>8, RowChangeKeepsJobPart
<1> QED
  BY <1>3, <1>4 DEF Fail

LEMMA CrashKeepsJobPart ==
  ASSUME JobPart, NEW w \in Workers, Crash(w)
  PROVE  JobPart'
  BY RestMoves, MovedKeepsJobPart DEF Crash

\* BackoffElapses and RetryAdminJob: rows that nobody holds.
LEMMA IdleRowKeepsJobPart ==
  ASSUME JobPart, NEW j \in Jobs, BackoffElapses(j) \/ RetryAdminJob(j)
  PROVE  JobPart'
<1>1. /\ rows[j] \in Row /\ rows[j].status \in {"pending", "dead"}
      /\ payload' = [payload EXCEPT ![j] = payload[j]] /\ payload[j] \in Servers
      /\ worker' = worker /\ worker' \in [Workers -> Worker]
  BY DEF JobPart, RowFits, BackoffElapses, RetryAdminJob, Waiting, Retryable
<1>2. \A w \in Workers : worker[w].pc # "idle" => worker[w].job # j
  BY <1>1 DEF JobPart, HoldsItsJob
<1>3. PICK row \in Row : /\ rows' = [rows EXCEPT ![j] = row]
                         /\ row.status = "pending" /\ row.attempts < MaxAttempts
  <2>1. CASE BackoffElapses(j)
    <3>1. rows' = [rows EXCEPT ![j] = MadeDue(rows[j])]
      BY <2>1 DEF BackoffElapses
    <3>2. rows[j].status = "pending" /\ rows[j].attempts < MaxAttempts
      BY <2>1 DEF JobPart, RowFits, BackoffElapses, Waiting
    <3>3. /\ MadeDue(rows[j]) \in Row /\ MadeDue(rows[j]).status = "pending"
          /\ MadeDue(rows[j]).attempts < MaxAttempts
      BY <1>1, <3>2, MadeDueFacts
    <3> QED
      BY <3>1, <3>3
  <2>2. CASE RetryAdminJob(j)
    <3>1. rows' = [rows EXCEPT ![j] = Retried(rows[j])]
      BY <2>2 DEF RetryAdminJob
    <3>2. /\ Retried(rows[j]) \in Row /\ Retried(rows[j]).status = "pending"
          /\ Retried(rows[j]).attempts < MaxAttempts
      BY <1>1, RetriedFacts, MaxAttemptsAssumption
    <3> QED
      BY <3>1, <3>2
  <2> QED
    BY <2>1, <2>2
<1> QED
  BY <1>1, <1>2, <1>3, RowChangeKeepsJobPart

-----------------------------------------------------------------------------
(* Listings.                                                               *)

\* Whether a column of a listing may change, a moderator's decision may not.
Kept(l, k) == k \in Listing /\ k.hidden = l.hidden /\ k.deleted = l.deleted

\* One listing changes, and not in the columns the safety properties rest on.
LEMMA KeptKeepsListingPart ==
  ASSUME ListingPart, NEW s \in Servers, NEW k, Kept(listing[s], k),
         ~listing[s].deleted,
         listing' = [listing EXCEPT ![s] = k],
         selected' \in Servers \cup {NoServer}, requests' \in 0 .. MaxRequests,
         UNCHANGED <<takenDown, faults>>
  PROVE  ListingPart'
<1>1. /\ listing' \in [Servers -> Listing] /\ listing'[s] = k
      /\ \A t \in Servers \ {s} : listing'[t] = listing[t]
  BY DEF ListingPart, Kept
<1> QED
  BY <1>1 DEF ListingPart, Kept

LEMMA SameKeepsListingPart ==
  ASSUME ListingPart, UNCHANGED <<listing, takenDown, faults>>,
         selected' \in Servers \cup {NoServer}, requests' \in 0 .. MaxRequests
  PROVE  ListingPart'
  BY DEF ListingPart

LEMMA OwnerRequestFacts ==
  ASSUME ListingPart, OwnerRequest
  PROVE  /\ requests' \in 0 .. MaxRequests /\ selected' \in Servers \cup {NoServer}
         /\ UNCHANGED <<takenDown, faults, worker>>
  BY BoundsAssumption DEF ListingPart, OwnerRequest

LEMMA WorkerKeepsListingPart ==
  ASSUME JobPart, ListingPart, NEW w \in Workers, WorkerStep(w) \/ Crash(w)
  PROVE  ListingPart'
<1>1. ASSUME CompleteCheck(w)
      PROVE  ListingPart'
  <2>1. worker[w].pc = "complete"
    BY <1>1 DEF CompleteCheck, At
  <2>2. Checked(w) \in Servers /\ worker[w].online \in BOOLEAN
    BY <2>1 DEF JobPart, HoldsItsJob, RowFits, Checked, Worker
  <2> DEFINE s == Checked(w)
  <2> DEFINE k == Reported(listing[s], worker[w].online)
  <2>3. CASE UNCHANGED listing
    BY <1>1, <2>3, SameKeepsListingPart DEF ListingPart, CompleteCheck
  <2>4. CASE ~OutOfReach(listing[s]) /\ listing' = [listing EXCEPT ![s] = k]
    <3>1. listing[s] \in Listing
      BY <2>2 DEF ListingPart
    <3>2. Kept(listing[s], k)
      BY <2>2, <3>1 DEF Kept, Reported, Listing, Status
    <3>3. ~listing[s].deleted
      BY <2>4 DEF OutOfReach
    <3>4. UNCHANGED <<takenDown, faults, selected, requests>>
      BY <1>1 DEF CompleteCheck
    <3> HIDE DEF s, k
    <3>5. /\ selected' \in Servers \cup {NoServer} /\ requests' \in 0 .. MaxRequests
          /\ s \in Servers
      BY <2>2, <3>4 DEF ListingPart, s
    <3> QED
      BY <2>4, <3>2, <3>3, <3>4, <3>5, KeptKeepsListingPart
  <2> QED
    BY <1>1, <2>3, <2>4 DEF CompleteCheck
<1>2. ASSUME ~CompleteCheck(w)
      PROVE  UNCHANGED <<listing, selected, requests, takenDown, faults>>
  BY <1>2 DEF WorkerStep, Claim, GetCheckTarget, Probe, Mark, Fail, Crash
<1>3. CASE UNCHANGED <<listing, selected, requests, takenDown, faults>>
  BY <1>3 DEF ListingPart
<1> QED
  BY <1>1, <1>2, <1>3

LEMMA WorkerKeepsJobPart ==
  ASSUME JobPart, ListingPart, NEW w \in Workers, WorkerStep(w) \/ Crash(w)
  PROVE  JobPart'
<1>1. CASE \E j \in Jobs : Claim(w, j)
  BY <1>1, ClaimKeepsJobPart
<1>2. CASE GetCheckTarget(w)
  BY <1>2, GetCheckTargetMoves, MovedKeepsJobPart DEF GetCheckTarget
<1>3. CASE Probe(w)
  BY <1>3, ProbeMoves, MovedKeepsJobPart DEF Probe
<1>4. CASE CompleteCheck(w)
  BY <1>4, CompleteCheckMoves, MovedKeepsJobPart DEF CompleteCheck
<1>5. CASE Mark(w)
  BY <1>5, MarkKeepsJobPart
<1>6. CASE Fail(w)
  BY <1>6, FailKeepsJobPart
<1>7. CASE Crash(w)
  BY <1>7, CrashKeepsJobPart
<1> QED
  BY <1>1, <1>2, <1>3, <1>4, <1>5, <1>6, <1>7 DEF WorkerStep

LEMMA RequestKeepsListingPart ==
  ASSUME ListingPart, NEW s \in Servers, Request(s)
  PROVE  ListingPart'
<1>1. listing[s] \in Listing
  BY DEF ListingPart
<1>2. ASSUME NEW e \in Endpoints, Create(s, e) \/ UpdateEndpoint(s, e)
      PROVE  ListingPart'
  <2> DEFINE k == [listing[s] EXCEPT !.status = "pending_verification", !.endpoint = e]
  <2>1. Kept(listing[s], k)
    BY <1>1 DEF Kept, Listing, Status
  <2>2. ~listing[s].deleted
    BY <1>2 DEF ListingPart, Create, UpdateEndpoint, Exists
  <2>3. listing' = [listing EXCEPT ![s] = k] /\ OwnerRequest
    BY <1>2 DEF ListingPart, Create, UpdateEndpoint
  <2> HIDE DEF k
  <2> QED
    BY <2>1, <2>2, <2>3, OwnerRequestFacts, KeptKeepsListingPart
<1>3. CASE RequestVerification(s)
  <2> DEFINE k == [listing[s] EXCEPT !.status = "pending_verification"]
  <2>1. Kept(listing[s], k)
    BY <1>1 DEF Kept, Listing, Status
  <2>2. ~listing[s].deleted /\ listing' = [listing EXCEPT ![s] = k] /\ OwnerRequest
    BY <1>3 DEF ListingPart, RequestVerification, Exists
  <2> HIDE DEF k
  <2> QED
    BY <2>1, <2>2, OwnerRequestFacts, KeptKeepsListingPart
<1>4. CASE DeleteOwned(s)
  <2> DEFINE k == [listing[s] EXCEPT !.status = "deleted", !.deleted = TRUE]
  <2>1. k \in Listing /\ k.hidden = listing[s].hidden /\ k.status = "deleted"
    BY <1>1 DEF Listing, Status
  <2>2. listing' = [listing EXCEPT ![s] = k] /\ OwnerRequest
    BY <1>4 DEF ListingPart, DeleteOwned
  <2> HIDE DEF k
  <2>3. /\ listing' \in [Servers -> Listing] /\ listing'[s] = k
        /\ \A t \in Servers \ {s} : listing'[t] = listing[t]
    BY <2>1, <2>2 DEF ListingPart
  <2> QED
    BY <2>1, <2>2, <2>3, OwnerRequestFacts DEF ListingPart
<1>5. ASSUME NEW status \in {"hidden", "published"}, NEW hide \in BOOLEAN,
             SetAdminStatus(s, status, hide)
      PROVE  ListingPart'
  <2> DEFINE k == [listing[s] EXCEPT !.status = status, !.hidden = hide]
  <2>1. k \in Listing /\ k.hidden = hide /\ k.deleted = listing[s].deleted
    BY <1>1 DEF Listing, Status
  <2>2. ~listing[s].deleted /\ listing' = [listing EXCEPT ![s] = k]
    BY <1>5 DEF ListingPart, SetAdminStatus, Exists
  <2> HIDE DEF k
  <2>3. /\ listing' \in [Servers -> Listing] /\ listing'[s] = k
        /\ \A t \in Servers \ {s} : listing'[t] = listing[t]
    BY <2>1, <2>2 DEF ListingPart
  <2>4. /\ takenDown' \in [Servers -> BOOLEAN] /\ takenDown'[s] = hide
        /\ \A t \in Servers \ {s} : takenDown'[t] = takenDown[t]
    BY <1>5 DEF ListingPart, SetAdminStatus
  <2>5. requests' \in 0 .. MaxRequests /\ UNCHANGED <<selected, faults>>
    BY <1>5, BoundsAssumption DEF ListingPart, SetAdminStatus
  <2> QED
    BY <2>1, <2>2, <2>3, <2>4, <2>5 DEF ListingPart
<1> QED
  BY <1>2, <1>3, <1>4, <1>5 DEF Request, Hide, Restore

LEMMA RequestKeepsJobPart ==
  ASSUME JobPart, NEW s \in Servers, Request(s)
  PROVE  JobPart'
<1>1. CASE Enqueue(s) /\ worker' = worker
  BY <1>1, EnqueueKeepsJobPart
<1>2. CASE UNCHANGED <<rows, payload, worker>>
  BY <1>2 DEF JobPart, HoldsItsJob, OneWorkerPerJob, RowFits
<1> QED
  BY <1>1, <1>2 DEF Request, Create, UpdateEndpoint, RequestVerification, DeleteOwned, Hide,
                    Restore, SetAdminStatus, OwnerRequest

-----------------------------------------------------------------------------
(* The invariant and the theorems.                                         *)

LEMMA InitEstablishesIInv == Init => IInv
<1> SUFFICES ASSUME Init PROVE IInv
  OBVIOUS
<1>1. JobPart
  BY NewRowFacts, RestingFacts DEF Init, JobPart, HoldsItsJob, OneWorkerPerJob, RowFits
<1>2. ListingPart
  BY BoundsAssumption DEF Init, ListingPart, Listing, Status
<1> QED
  BY <1>1, <1>2 DEF IInv

LEMMA NextKeepsIInv == IInv /\ [Next]_vars => IInv'
<1> SUFFICES ASSUME IInv, [Next]_vars PROVE IInv'
  OBVIOUS
<1> USE DEF IInv
<1>1. ASSUME NEW s \in Servers, Request(s)
      PROVE  IInv'
  BY <1>1, RequestKeepsJobPart, RequestKeepsListingPart
<1>2. ASSUME NEW s \in Servers, IntervalElapses(s)
      PROVE  IInv'
  <2> DEFINE k == [listing[s] EXCEPT !.due = TRUE]
  <2>1. listing' = [listing EXCEPT ![s] = k]
    BY <1>2 DEF ListingPart, IntervalElapses
  <2>2. k \in Listing /\ k.hidden = listing[s].hidden /\ k.deleted = listing[s].deleted
        /\ k.status = listing[s].status
    BY DEF ListingPart, Listing
  <2> HIDE DEF k
  <2>3. /\ listing' \in [Servers -> Listing] /\ listing'[s] = k
        /\ \A t \in Servers \ {s} : listing'[t] = listing[t]
    BY <2>1, <2>2 DEF ListingPart
  <2>4. UNCHANGED <<rows, payload, selected, worker, requests, takenDown, faults>>
    BY <1>2 DEF IntervalElapses
  <2>5. ListingPart'
    BY <2>2, <2>3, <2>4 DEF ListingPart
  <2>6. JobPart'
    BY <2>4 DEF JobPart, HoldsItsJob, OneWorkerPerJob, RowFits
  <2> QED
    BY <2>5, <2>6
<1>3. ASSUME NEW s \in Servers, Select(s)
      PROVE  IInv'
  <2>1. ListingPart'
    BY <1>3, SameKeepsListingPart DEF ListingPart, Select
  <2>2. JobPart'
    BY <1>3 DEF Select, JobPart, HoldsItsJob, OneWorkerPerJob, RowFits
  <2> QED
    BY <2>1, <2>2
<1>4. CASE InsertSelected
  <2>1. ListingPart'
    BY <1>4, SameKeepsListingPart DEF ListingPart, InsertSelected
  <2>2. CASE Insert(selected)
    BY <1>4, <2>1, <2>2, InsertKeepsJobPart DEF ListingPart, InsertSelected
  <2>3. CASE UNCHANGED <<rows, payload>>
    BY <1>4, <2>1, <2>3 DEF InsertSelected, JobPart, HoldsItsJob, OneWorkerPerJob, RowFits
  <2> QED
    BY <1>4, <2>2, <2>3 DEF InsertSelected
<1>5. ASSUME NEW w \in Workers, WorkerStep(w) \/ Crash(w)
      PROVE  IInv'
  BY <1>5, WorkerKeepsJobPart, WorkerKeepsListingPart
<1>6. ASSUME NEW j \in Jobs, BackoffElapses(j) \/ RetryAdminJob(j)
      PROVE  IInv'
  <2>1. requests' \in 0 .. MaxRequests /\ UNCHANGED <<listing, selected, takenDown, faults>>
    BY <1>6, BoundsAssumption DEF ListingPart, BackoffElapses, RetryAdminJob
  <2>2. ListingPart'
    BY <2>1, SameKeepsListingPart DEF ListingPart
  <2> QED
    BY <1>6, <2>2, IdleRowKeepsJobPart
<1>7. CASE UNCHANGED vars
  BY <1>7 DEF vars, JobPart, HoldsItsJob, OneWorkerPerJob, RowFits, ListingPart
<1> QED
  BY <1>1, <1>2, <1>3, <1>4, <1>5, <1>6, <1>7 DEF Next, Schedule

LEMMA Invariance == Spec => []IInv
  BY InitEstablishesIInv, NextKeepsIInv, PTL DEF Spec

\* Every variable keeps its type; in particular no job is attempted more often
\* than its row allows.
THEOREM TypeCorrect == Spec => []TypeOK
<1>1. IInv => TypeOK
  BY DEF IInv, JobPart, ListingPart, TypeOK
<1> QED
  BY <1>1, Invariance, PTL

\* What a moderator hid is not in the public catalogue, whatever the owner
\* asks for and whichever check comes back (ListPublished, RequestVerification,
\* CompleteCheck), under every fault.
THEOREM TakedownsHold == Spec => []TakedownHolds
<1>1. IInv => TakedownHolds
  BY DEF IInv, ListingPart, TakedownHolds, Listed
<1> QED
  BY <1>1, Invariance, PTL

\* Steps of the program: a deleted listing stays deleted.
LEMMA DeletionStep ==
  ASSUME IInv, [Next]_vars, NEW s \in Servers, listing[s].deleted
  PROVE  listing'[s].status = "deleted"
<1>1. listing[s].status = "deleted"
  BY DEF IInv, ListingPart
<1>2. listing[s] \in Listing
  BY DEF IInv, ListingPart
<1>3. ASSUME NEW t \in Servers, Request(t)
      PROVE  listing'[s] = listing[s]
  <2>1. t # s
    BY <1>1, <1>3 DEF Request, Create, UpdateEndpoint, RequestVerification, DeleteOwned, Hide,
                      Restore, SetAdminStatus, Exists
  <2> QED
    BY <1>3, <2>1 DEF Request, Create, UpdateEndpoint, RequestVerification, DeleteOwned, Hide,
                      Restore, SetAdminStatus, IInv, ListingPart
<1>4. ASSUME NEW t \in Servers, IntervalElapses(t)
      PROVE  listing'[s].status = listing[s].status
  BY <1>2, <1>4 DEF IntervalElapses, IInv, ListingPart, Listing
<1>5. ASSUME NEW w \in Workers, CompleteCheck(w)
      PROVE  listing'[s] = listing[s]
  <2>1. CASE UNCHANGED listing
    BY <2>1
  <2>2. CASE /\ ~OutOfReach(listing[Checked(w)])
             /\ listing' = [listing EXCEPT ![Checked(w)] = Reported(@, worker[w].online)]
    <3>1. Checked(w) # s
      BY <2>2 DEF OutOfReach
    <3> QED
      BY <2>2, <3>1 DEF IInv, ListingPart
  <2> QED
    BY <1>5, <2>1, <2>2 DEF CompleteCheck
<1>6. CASE UNCHANGED listing
  BY <1>1, <1>6
<1>7. \/ \E t \in Servers : Request(t) \/ IntervalElapses(t)
      \/ \E w \in Workers : CompleteCheck(w)
      \/ UNCHANGED listing
  BY DEF Next, Schedule, Select, InsertSelected, WorkerStep, Claim, GetCheckTarget, Probe, Mark,
         Fail, Crash, BackoffElapses, RetryAdminJob, vars
<1> QED
  BY <1>1, <1>3, <1>4, <1>5, <1>6, <1>7

\* No request, no decision of a moderator and no late result of a check gives
\* a deleted listing another status (the "deleted_at IS NULL" of every UPDATE).
THEOREM DeletionIsFinal == Spec => DeletedIsFinal
<1>1. IInv /\ [Next]_vars =>
        [\A s \in Servers : listing[s].deleted => listing'[s].status = "deleted"]_vars
  BY DeletionStep
<1> QED
  BY <1>1, Invariance, PTL DEF Spec, DeletedIsFinal

-----------------------------------------------------------------------------
(* How many checks of a server there can be.                               *)

StatementsSucceed == faults \cap {"db_error", "lost_reply"} = {}

LiveJobs(s) == {j \in Jobs : Live(j, s)}

\* No check fails or dies, and a server that is selected leaves room for the
\* check that is about to be inserted.
FewPart ==
  /\ \A j \in Jobs : rows[j].status # "dead"
  /\ \A w \in Workers : worker[w].pc # "fail"
  /\ \A s \in Servers : Cardinality(LiveJobs(s)) <= IF selected = s THEN 1 ELSE 2

LEMMA JobsAreFinite ==
  ASSUME NEW S \in SUBSET Jobs
  PROVE  IsFiniteSet(S) /\ Cardinality(S) \in Nat
<1>1. IsFiniteSet(Jobs)
  BY FS_Interval, BoundsAssumption DEF Jobs
<1>2. IsFiniteSet(S)
  BY <1>1, FS_Subset
<1>3. QED
  BY <1>2, FS_CardinalityType

LEMMA LiveJobsShrink ==
  ASSUME NEW s \in Servers, \A j \in Jobs : Live(j, s)' => Live(j, s)
  PROVE  Cardinality(LiveJobs(s)') <= Cardinality(LiveJobs(s))
<1>1. LiveJobs(s) \in SUBSET Jobs /\ LiveJobs(s)' \in SUBSET LiveJobs(s)
  BY DEF LiveJobs, Jobs
<1>2. QED
  BY <1>1, JobsAreFinite, FS_Subset

LEMMA LiveJobsGrow ==
  ASSUME NEW s \in Servers, NEW k \in Jobs, \A j \in Jobs : Live(j, s)' => Live(j, s) \/ j = k
  PROVE  Cardinality(LiveJobs(s)') <= Cardinality(LiveJobs(s)) + 1
<1> DEFINE all == LiveJobs(s) \cup {k}
<1>1. /\ LiveJobs(s) \in SUBSET Jobs /\ all \in SUBSET Jobs
      /\ LiveJobs(s)' \in SUBSET (LiveJobs(s) \cup {k})
  BY DEF LiveJobs, Jobs
<1>2. /\ Cardinality(LiveJobs(s)) \in Nat /\ IsFiniteSet(LiveJobs(s)) /\ IsFiniteSet(all)
      /\ Cardinality(all) \in Nat
  BY <1>1, JobsAreFinite
<1>3. Cardinality(all) <= Cardinality(LiveJobs(s)) + 1
  BY <1>2, FS_AddElement
<1>4. Cardinality(LiveJobs(s)') <= Cardinality(all) /\ Cardinality(LiveJobs(s)') \in Nat
  BY <1>1, <1>2, FS_Subset, FS_CardinalityType
<1>5. QED
  BY <1>2, <1>3, <1>4

\* Nothing becomes live, and no server is selected.
LEMMA QuietKeepsFew ==
  ASSUME FewPart, \A s \in Servers, j \in Jobs : Live(j, s)' => Live(j, s),
         \A s \in Servers : selected' = s => selected = s,
         \A j \in Jobs : rows'[j].status # "dead",
         \A w \in Workers : worker'[w].pc # "fail"
  PROVE  FewPart'
<1>1. ASSUME NEW s \in Servers
      PROVE  Cardinality(LiveJobs(s)') <= IF selected' = s THEN 1 ELSE 2
  <2>1. LiveJobs(s)' \in SUBSET Jobs /\ LiveJobs(s) \in SUBSET Jobs
    BY DEF LiveJobs, Jobs
  <2>2. Cardinality(LiveJobs(s)') \in Nat /\ Cardinality(LiveJobs(s)) \in Nat
    BY <2>1, JobsAreFinite
  <2>3. QED
    BY <2>2, LiveJobsShrink DEF FewPart
<1>2. QED
  BY <1>1 DEF FewPart

LEMMA NoneIsLive ==
  ASSUME NEW s \in Servers, \A j \in Jobs : ~Live(j, s)
  PROVE  Cardinality(LiveJobs(s)) = 0
<1>1. LiveJobs(s) = {}
  BY DEF LiveJobs
<1>2. QED
  BY <1>1, FS_EmptySet

\* A check of server s is inserted, where there is room for one more.
LEMMA InsertKeepsFew ==
  ASSUME JobPart, FewPart, NEW s \in Servers, Insert(s), worker' = worker,
         Cardinality(LiveJobs(s)) <= IF selected' = s THEN 0 ELSE 1,
         \A t \in Servers \ {s} : selected' = t => selected = t
  PROVE  FewPart'
<1>1. PICK k \in Jobs : /\ rows' = [rows EXCEPT ![k] = NewRow]
                        /\ payload' = [payload EXCEPT ![k] = s]
  BY DEF Insert
<1>2. /\ rows'[k].status = "pending" /\ payload'[k] = s
      /\ \A j \in Jobs \ {k} : rows'[j] = rows[j] /\ payload'[j] = payload[j]
  BY <1>1, NewRowFacts DEF JobPart
<1>3. \A j \in Jobs : Live(j, s)' => Live(j, s) \/ j = k
  BY <1>2 DEF Live
<1>4. \A t \in Servers \ {s}, j \in Jobs : Live(j, t)' => Live(j, t)
  BY <1>2 DEF Live
<1>5. ASSUME NEW t \in Servers
      PROVE  Cardinality(LiveJobs(t)') <= IF selected' = t THEN 1 ELSE 2
  <2>1. LiveJobs(t)' \in SUBSET Jobs /\ LiveJobs(t) \in SUBSET Jobs
    BY DEF LiveJobs, Jobs
  <2>2. Cardinality(LiveJobs(t)') \in Nat /\ Cardinality(LiveJobs(t)) \in Nat
    BY <2>1, JobsAreFinite
  <2>3. CASE t = s
    BY <1>3, <2>2, <2>3, LiveJobsGrow
  <2>4. CASE t # s
    BY <1>4, <2>2, <2>4, LiveJobsShrink DEF FewPart
  <2>5. QED
    BY <2>3, <2>4
<1>6. QED
  BY <1>2, <1>5 DEF FewPart

LEMMA EnqueueKeepsFew ==
  ASSUME JobPart, FewPart, NEW s \in Servers, Enqueue(s), UNCHANGED <<worker, selected>>
  PROVE  FewPart'
<1>1. CASE (\A j \in Jobs : ~Live(j, s)) /\ Insert(s)
  BY <1>1, NoneIsLive, InsertKeepsFew
<1>2. CASE UNCHANGED <<rows, payload>>
  BY <1>2, QuietKeepsFew DEF Live, FewPart
<1>3. QED
  BY <1>1, <1>2 DEF Enqueue

LEMMA RequestKeepsFew ==
  ASSUME JobPart, FewPart, NEW s \in Servers, Request(s)
  PROVE  FewPart'
<1>1. CASE Enqueue(s) /\ UNCHANGED <<worker, selected>>
  BY <1>1, EnqueueKeepsFew
<1>2. CASE UNCHANGED <<rows, payload, worker, selected>>
  BY <1>2, QuietKeepsFew DEF Live, FewPart
<1>3. QED
  BY <1>1, <1>2 DEF Request, Create, UpdateEndpoint, RequestVerification, DeleteOwned, Hide,
                    Restore, SetAdminStatus, OwnerRequest

LEMMA ScheduleKeepsFew ==
  ASSUME JobPart, ListingPart, FewPart, Schedule
  PROVE  FewPart'
<1>1. ASSUME NEW s \in Servers, Select(s) PROVE FewPart'
  <2>1. UNCHANGED <<rows, payload, worker>> /\ selected' = s /\ \A j \in Jobs : ~Live(j, s)
    BY <1>1 DEF Select, Due
  <2>2. ASSUME NEW t \in Servers
        PROVE  Cardinality(LiveJobs(t)') <= IF selected' = t THEN 1 ELSE 2
    <3>1. LiveJobs(t)' = LiveJobs(t)
      BY <2>1 DEF LiveJobs, Live
    <3>2. CASE t = s
      BY <2>1, <3>1, <3>2, NoneIsLive
    <3>3. CASE t # s
      <4>1. LiveJobs(t) \in SUBSET Jobs
        BY DEF LiveJobs, Jobs
      <4>2. Cardinality(LiveJobs(t)) \in Nat
        BY <4>1, JobsAreFinite
      <4>3. QED
        BY <2>1, <3>1, <3>3, <4>2 DEF FewPart
    <3>4. QED
      BY <3>2, <3>3
  <2>3. QED
    BY <2>1, <2>2 DEF FewPart
<1>2. CASE InsertSelected
  <2>1. selected \in Servers /\ selected' = NoServer /\ worker' = worker /\ NoServer \notin Servers
    BY <1>2, ServersAssumption DEF InsertSelected, ListingPart
  <2>2. CASE Insert(selected)
    BY <2>1, <2>2, InsertKeepsFew DEF FewPart
  <2>3. CASE UNCHANGED <<rows, payload>>
    BY <2>1, <2>3, QuietKeepsFew DEF Live, FewPart
  <2>4. QED
    BY <1>2, <2>2, <2>3 DEF InsertSelected
<1>3. QED
  BY <1>1, <1>2 DEF Schedule

\* A worker's statements succeed, so it marks what it holds as succeeded.
LEMMA WorkerKeepsFew ==
  ASSUME JobPart, FewPart, StatementsSucceed, NEW w \in Workers, WorkerStep(w) \/ Crash(w)
  PROVE  FewPart'
<1>1. "db_error" \notin faults /\ "lost_reply" \notin faults
  BY DEF StatementsSucceed
<1>2. /\ ~Fail(w) /\ UNCHANGED <<payload, selected>>
      /\ \A v \in Workers \ {w} : worker'[v] = worker[v]
  BY DEF WorkerStep, Claim, GetCheckTarget, Probe, CompleteCheck, Mark, Fail, Crash, Goto, At,
         JobPart, FewPart
<1>3. CASE worker'[w].pc # "fail" /\ rows' = rows
  BY <1>2, <1>3, QuietKeepsFew DEF Live, FewPart
<1>4. ASSUME NEW j \in Jobs, Claim(w, j) PROVE FewPart'
  <2> DEFINE row == ClaimedBy(rows[j], w)
  <2>1. rows[j].status = "pending" /\ rows' = [rows EXCEPT ![j] = row]
    BY <1>4 DEF Claim, Claimable
  <2>2. row.status = "running"
    BY <2>1, ClaimedByFacts DEF JobPart, RowFits
  <2> HIDE DEF row
  <2>3. worker'[w].pc = "target"
    BY <1>4 DEF Claim, JobPart, Resting
  <2>4. QED
    BY <1>2, <2>1, <2>2, <2>3, QuietKeepsFew DEF Live, FewPart, JobPart
<1>5. CASE Mark(w)
  <2> DEFINE row == MarkedSucceeded(rows[worker[w].job])
  <2>1. worker' = [worker EXCEPT ![w] = Resting] /\ rows' = [rows EXCEPT ![worker[w].job] = row]
    BY <1>1, <1>5 DEF Mark
  <2>2. row.status = "succeeded"
    <3>1. worker[w].job \in Jobs
      BY <1>5 DEF Mark, At, JobPart, HoldsItsJob
    <3>2. QED
      BY <3>1 DEF MarkedSucceeded, JobPart, Row
  <2> HIDE DEF row
  <2>3. QED
    BY <1>2, <2>1, <2>2, RestMoves, QuietKeepsFew DEF Live, FewPart, JobPart
<1>6. CASE GetCheckTarget(w) \/ Probe(w) \/ CompleteCheck(w) \/ Crash(w)
  <2>1. rows' = rows
    BY <1>6 DEF GetCheckTarget, Probe, CompleteCheck, Crash
  <2>2. worker'[w].pc # "fail"
    <3>1. CASE Crash(w)
      BY <3>1, RestMoves DEF Crash
    <3>2. CASE Goto(w, "mark")
      BY <3>2 DEF Goto, JobPart, Worker
    <3>3. CASE \E e : worker' = [worker EXCEPT ![w].pc = "probe", ![w].endpoint = e]
      BY <3>3 DEF JobPart, Worker
    <3>4. CASE \E o : worker' = [worker EXCEPT ![w].pc = "complete", ![w].online = o]
      BY <3>4 DEF JobPart, Worker
    <3>5. Probe(w) => \E o : worker' = [worker EXCEPT ![w].pc = "complete", ![w].online = o]
      BY DEF Probe
    <3>6. QED
      BY <1>1, <1>6, <3>1, <3>2, <3>3, <3>4, <3>5 DEF GetCheckTarget, CompleteCheck
  <2>3. QED
    BY <1>3, <2>1, <2>2
<1>7. QED
  BY <1>2, <1>4, <1>5, <1>6 DEF WorkerStep

LEMMA NextKeepsFew ==
  ASSUME IInv, StatementsSucceed => FewPart, [Next]_vars, StatementsSucceed'
  PROVE  FewPart'
<1> USE DEF IInv
<1>1. StatementsSucceed
  <2>1. faults' = faults
    BY DEF Next, vars, Request, Create, UpdateEndpoint, RequestVerification, DeleteOwned, Hide,
           Restore, SetAdminStatus, OwnerRequest, IntervalElapses, Schedule, Select,
           InsertSelected, WorkerStep, Claim, GetCheckTarget, Probe, CompleteCheck, Mark, Fail,
           Crash, BackoffElapses, RetryAdminJob
  <2>2. QED
    BY <2>1 DEF StatementsSucceed
<1>2. ASSUME NEW s \in Servers, IntervalElapses(s) PROVE FewPart'
  BY <1>1, <1>2, QuietKeepsFew DEF IntervalElapses, Live, FewPart
<1>3. ASSUME NEW j \in Jobs, BackoffElapses(j) \/ RetryAdminJob(j) PROVE FewPart'
  <2>1. BackoffElapses(j)
    BY <1>1, <1>3 DEF RetryAdminJob, Retryable, FewPart, JobPart, RowFits
  <2> DEFINE row == MadeDue(rows[j])
  <2>2. rows' = [rows EXCEPT ![j] = row] /\ UNCHANGED <<payload, selected, worker>>
    BY <2>1 DEF BackoffElapses
  <2>3. row.status = "pending" /\ rows[j].status = "pending"
    BY <2>1 DEF BackoffElapses, Waiting, MadeDue, JobPart, Row
  <2> HIDE DEF row
  <2>4. QED
    BY <1>1, <2>2, <2>3, QuietKeepsFew DEF Live, FewPart, JobPart
<1>4. CASE UNCHANGED vars
  BY <1>1, <1>4, QuietKeepsFew DEF vars, Live, FewPart
<1>5. QED
  BY <1>1, <1>2, <1>3, <1>4, RequestKeepsFew, ScheduleKeepsFew, WorkerKeepsFew DEF Next

\* The NOT EXISTS of an owner's request and of the scheduler, which meet at
\* most once, keep the checks of a server to two, also when workers stop and
\* probes are lost, unless statements fail (enqueueServerCheckTx,
\* EnqueueDueChecks).
THEOREM ChecksStayFew == Spec => []ChecksAreFew
<1>1. Init => (StatementsSucceed => FewPart)
  <2> SUFFICES ASSUME Init PROVE FewPart
    OBVIOUS
  <2>1. \A s \in Servers, j \in Jobs : ~Live(j, s)
    BY NewRowFacts DEF Init, Live
  <2>2. \A s \in Servers : Cardinality(LiveJobs(s)) = 0
    BY <2>1, NoneIsLive
  <2>3. QED
    BY <2>2, NewRowFacts, RestingFacts DEF Init, FewPart
<1>2. IInv /\ (StatementsSucceed => FewPart) /\ [Next]_vars => (StatementsSucceed => FewPart)'
  BY NextKeepsFew
<1>3. IInv /\ (StatementsSucceed => FewPart) => ChecksAreFew
  <2> SUFFICES ASSUME FewPart, NEW s \in Servers
               PROVE  Cardinality({j \in Jobs : Live(j, s)}) <= 2
    BY DEF StatementsSucceed, ChecksAreFew
  <2>1. LiveJobs(s) \in SUBSET Jobs
    BY DEF LiveJobs, Jobs
  <2>2. Cardinality(LiveJobs(s)) \in Nat
    BY <2>1, JobsAreFinite
  <2>3. Cardinality(LiveJobs(s)) <= 2
    BY <2>2 DEF FewPart
  <2>4. QED
    BY <2>3 DEF LiveJobs
<1>4. QED
  BY <1>1, <1>2, <1>3, Invariance, PTL DEF Spec
=============================================================================
