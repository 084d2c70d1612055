---------------------------- MODULE ServerChecks ----------------------------
(***************************************************************************)
(* The catalogue of Basis servers: owners submit and change listings,      *)
(* workers probe them over the network and write what they found,          *)
(* moderators hide and restore, a scheduler queues the checks that are due.*)
(*                                                                         *)
(* A check reads the endpoint in one statement, probes it outside any      *)
(* transaction, and writes the result by the server's id.  Before a check  *)
(* is queued, a NOT EXISTS looks for one that is pending or running.       *)
(*                                                                         *)
(* "probe_lost" lets a probe of an endpoint that answers fail.  Columns    *)
(* that are only displayed (players, message, check_status) and the        *)
(* owner's other fields are left out.                                      *)
(***************************************************************************)
EXTENDS JobRows, FiniteSets

CONSTANTS
  Servers,
  Endpoints,    \* host and port, what a probe connects to
  Answering,    \* the endpoints at which a server answers
  MaxJobs,      \* bound: check jobs kept at the same time
  MaxRequests,  \* bound: requests of owners, moderators and the administrator
  NoServer,
  NoEndpoint,
  FaultSets     \* the environments considered, each a set of fault kinds

ASSUME ServersAssumption == NoServer \notin Servers /\ NoEndpoint \notin Endpoints /\ Answering \subseteq Endpoints

ASSUME BoundsAssumption ==
  MaxJobs \in Nat \ {0} /\ MaxRequests \in Nat

FaultKinds == {"crash", "db_error", "lost_reply", "probe_lost"}

ASSUME FaultSetsAssumption == FaultSets \subseteq SUBSET FaultKinds

VARIABLES
  listing,    \* server_listings
  rows,       \* worker_jobs of the server_check_queue
  payload,    \* the server each of them is about
  selected,   \* the server a scheduler's INSERT has selected, before its commit
  worker,     \* where each worker is, and what it holds
  requests,   \* requests so far
  takenDown,  \* history: a moderator hid it and has not restored it since
  faults      \* the fault kinds that may strike: chosen once, never changed

vars == <<listing, rows, payload, selected, worker, requests, takenDown,
          faults>>

-----------------------------------------------------------------------------
Jobs == 1 .. MaxJobs

Status == {"absent", "pending_verification", "published", "offline", "hidden", "deleted"}

\* published: published_at is set; due: last_checked_at is NULL or old enough.
Listing == [status : Status, endpoint : Endpoints \cup {NoEndpoint}, published : BOOLEAN,
            hidden : BOOLEAN, deleted : BOOLEAN, due : BOOLEAN]

Worker == [pc       : {"idle", "target", "probe", "complete", "mark", "fail"},
           job      : 0 .. MaxJobs,
           attempt  : 0 .. MaxAttempts,
           endpoint : Endpoints \cup {NoEndpoint},
           online   : BOOLEAN]

Resting == [pc |-> "idle", job |-> 0, attempt |-> 0, endpoint |-> NoEndpoint, online |-> FALSE]

TypeOK ==
  /\ listing \in [Servers -> Listing]
  /\ rows \in [Jobs -> Row]
  /\ payload \in [Jobs -> Servers \cup {NoServer}]
  /\ selected \in Servers \cup {NoServer}
  /\ worker \in [Workers -> Worker]
  /\ requests \in 0 .. MaxRequests
  /\ takenDown \in [Servers -> BOOLEAN]
  /\ faults \in FaultSets

Init ==
  /\ listing = [s \in Servers |->
                  [status |-> "absent", endpoint |-> NoEndpoint, published |-> FALSE,
                   hidden |-> FALSE, deleted |-> FALSE, due |-> TRUE]]
  /\ rows = [j \in Jobs |-> NoRow]
  /\ payload = [j \in Jobs |-> NoServer]
  /\ selected = NoServer
  /\ worker = [w \in Workers |-> Resting]
  /\ requests = 0
  /\ takenDown = [s \in Servers |-> FALSE]
  /\ faults \in FaultSets

-----------------------------------------------------------------------------
(* Queueing a check.                                                       *)

\* The public catalogue: ListPublished and GetPublished.
Listed(s) ==
  LET l == listing[s] IN
  /\ l.status = "published" \/ (l.status = "offline" /\ l.published)
  /\ ~l.deleted /\ ~l.hidden

Live(j, s) == payload[j] = s /\ rows[j].status \in {"pending", "running"}

Unused(j) ==
  rows[j].status \in {"absent", "succeeded"} /\ \A w \in Workers : worker[w].job # j

\* Which job is claimed first does not matter here, so the number of a job
\* that succeeded and that nobody holds is used again.
Insert(s) ==
  \E j \in Jobs :
    /\ Unused(j) /\ \A k \in 1 .. j - 1 : ~Unused(k)
    /\ rows' = [rows EXCEPT ![j] = NewRow]
    /\ payload' = [payload EXCEPT ![j] = s]

\* Mutant: a check that is being made does not count.
EnqueueUnlessPending(s) ==
  LET waiting == {j \in Jobs : payload[j] = s /\ rows[j].status = "pending"} IN
  \/ waiting = {} /\ Insert(s)
  \/ waiting # {} /\ UNCHANGED <<rows, payload>>

\* enqueueServerCheckTx.
Enqueue(s) ==
  \/ (\A j \in Jobs : ~Live(j, s)) /\ Insert(s)
  \/ (\E j \in Jobs : Live(j, s)) /\ UNCHANGED <<rows, payload>>

\* Mutant: a server that did not answer is not checked again.
DueUnlessOffline(s) ==
  /\ ~listing[s].deleted
  /\ listing[s].status \in {"pending_verification", "published"}
  /\ listing[s].due
  /\ \A j \in Jobs : ~Live(j, s)

\* The WHERE clause of EnqueueDueChecks.
Due(s) ==
  /\ ~listing[s].deleted
  /\ listing[s].status \in {"pending_verification", "published", "offline"}
  /\ listing[s].due
  /\ \A j \in Jobs : ~Live(j, s)

\* EnqueueDueChecks holds an advisory lock and locks no listing: between the
\* snapshot of its INSERT ... SELECT and its commit others queue checks.
Select(s) ==
  /\ selected = NoServer
  /\ Due(s)
  /\ selected' = s
  /\ UNCHANGED <<listing, rows, payload, worker, requests, takenDown, faults>>

InsertSelected ==
  /\ selected # NoServer
  /\ selected' = NoServer
  /\ \/ Insert(selected)
     \/ faults \cap {"crash", "db_error"} # {} /\ UNCHANGED <<rows, payload>>
  /\ UNCHANGED <<listing, worker, requests, takenDown, faults>>

IntervalElapses(s) ==
  /\ ~listing[s].due
  /\ listing' = [listing EXCEPT ![s].due = TRUE]
  /\ UNCHANGED <<rows, payload, selected, worker, requests, takenDown, faults>>

-----------------------------------------------------------------------------
(* The owner.                                                              *)

Exists(s) == listing[s].status # "absent" /\ ~listing[s].deleted

OwnerRequest ==
  /\ requests < MaxRequests
  /\ requests' = requests + 1
  /\ UNCHANGED <<selected, worker, takenDown, faults>>

Create(s, e) ==
  /\ listing[s].status = "absent"
  /\ listing' = [listing EXCEPT ![s].status = "pending_verification", ![s].endpoint = e]
  /\ Enqueue(s)
  /\ OwnerRequest

\* Mutant: a new endpoint withdraws the moderator's decision, as an edit of a
\* package does.
UpdateAndRelease(s, e) ==
  /\ Exists(s)
  /\ listing' = [listing EXCEPT ![s].status = "pending_verification", ![s].endpoint = e,
                                ![s].hidden = FALSE]
  /\ Enqueue(s)
  /\ OwnerRequest

\* UpdateOwned that changes the endpoint or brings a password, whose ciphertext
\* is new even if the password is not; any other update changes no column that
\* is modelled.  last_checked_at and hidden_at stay.
UpdateEndpoint(s, e) ==
  /\ Exists(s)
  /\ listing' = [listing EXCEPT ![s].status = "pending_verification", ![s].endpoint = e]
  /\ Enqueue(s)
  /\ OwnerRequest

\* Whatever the status, "hidden" included; hidden_at stays.
RequestVerification(s) ==
  /\ Exists(s)
  /\ listing' = [listing EXCEPT ![s].status = "pending_verification"]
  /\ Enqueue(s)
  /\ OwnerRequest

DeleteOwned(s) ==
  /\ Exists(s)
  /\ listing' = [listing EXCEPT ![s].status = "deleted", ![s].deleted = TRUE]
  /\ UNCHANGED <<rows, payload>>
  /\ OwnerRequest

-----------------------------------------------------------------------------
(* Moderators: setAdminStatus, whatever the status is.                     *)

SetAdminStatus(s, status, hide) ==
  /\ Exists(s)
  /\ requests < MaxRequests
  /\ requests' = requests + 1
  /\ listing' = [listing EXCEPT ![s].status = status, ![s].hidden = hide]
  /\ takenDown' = [takenDown EXCEPT ![s] = hide]
  /\ UNCHANGED <<rows, payload, selected, worker, faults>>

Hide(s) == SetAdminStatus(s, "hidden", TRUE)

Restore(s) == SetAdminStatus(s, "published", FALSE)

-----------------------------------------------------------------------------
(* The worker: processServerCheckQueue and processServerCheck.             *)

At(w, pc) == worker[w].pc = pc

\* What the probe said is used up.
Goto(w, pc) ==
  worker' = [worker EXCEPT ![w] = [@ EXCEPT !.pc = pc, !.endpoint = NoEndpoint, !.online = FALSE]]

Checked(w) == payload[worker[w].job]

Claim(w, j) ==
  /\ At(w, "idle")
  /\ Claimable(rows[j])
  /\ rows' = [rows EXCEPT ![j] = ClaimedBy(@, w)]
  /\ worker' = [worker EXCEPT ![w] =
                  [Resting EXCEPT !.pc = "target", !.job = j,
                                  !.attempt = ClaimedBy(rows[j], w).attempts]]
  /\ UNCHANGED <<listing, payload, selected, requests, takenDown, faults>>

\* Neither GetCheckTarget nor CompleteCheck touches these listings.
OutOfReach(l) == l.deleted \/ l.status = "hidden"

\* GetCheckTarget: the endpoint as it is now; a listing that is gone needs no
\* check and the job is marked as succeeded.
GetCheckTarget(w) ==
  /\ At(w, "target")
  /\ LET l == listing[Checked(w)] IN
       \/ /\ ~OutOfReach(l)
          /\ worker' = [worker EXCEPT ![w].pc = "probe", ![w].endpoint = l.endpoint]
       \/ OutOfReach(l) /\ Goto(w, "mark")
       \/ "db_error" \in faults /\ Goto(w, "fail")
  /\ UNCHANGED <<listing, rows, payload, selected, requests, takenDown, faults>>

Probe(w) ==
  /\ At(w, "probe")
  /\ \E online \in {worker[w].endpoint \in Answering} \cup
                     (IF "probe_lost" \in faults THEN {FALSE} ELSE {}) :
       worker' = [worker EXCEPT ![w].pc = "complete", ![w].online = online]
  /\ UNCHANGED <<listing, rows, payload, selected, requests, takenDown, faults>>

\* The CASE expressions of CompleteCheck; statuses other than these three do
\* not get here.
Reported(l, online) ==
  [l EXCEPT !.status = IF online THEN "published" ELSE "offline", !.due = FALSE,
            !.published = @ \/ online]

\* Mutant: the result is written whatever became of the listing.
CompleteAny(w) ==
  LET s == Checked(w) IN
  /\ At(w, "complete")
  /\ listing' = [listing EXCEPT ![s] = Reported(@, worker[w].online)]
  /\ Goto(w, "mark")
  /\ UNCHANGED <<rows, payload, selected, requests, takenDown, faults>>

\* CompleteCheck: by the server's id, whatever endpoint it has by now.
CompleteCheck(w) ==
  LET s == Checked(w) IN
  /\ At(w, "complete")
  /\ \/ /\ listing' = IF OutOfReach(listing[s]) THEN listing
                      ELSE [listing EXCEPT ![s] = Reported(@, worker[w].online)]
        /\ Goto(w, "mark") \/ ("lost_reply" \in faults /\ Goto(w, "fail"))
     \/ "db_error" \in faults /\ UNCHANGED listing /\ Goto(w, "fail")
  /\ UNCHANGED <<rows, payload, selected, requests, takenDown, faults>>

Mark(w) ==
  /\ At(w, "mark")
  /\ \/ /\ rows' = [rows EXCEPT ![worker[w].job] = MarkedSucceeded(@)]
        /\ \/ worker' = [worker EXCEPT ![w] = Resting]
           \/ "lost_reply" \in faults /\ Goto(w, "fail")
     \/ "db_error" \in faults /\ UNCHANGED rows /\ Goto(w, "fail")
  /\ UNCHANGED <<listing, payload, selected, requests, takenDown, faults>>

Fail(w) ==
  /\ At(w, "fail")
  /\ \/ rows' = [rows EXCEPT ![worker[w].job] = MarkedFailed(@, worker[w].attempt)]
     \/ "db_error" \in faults /\ UNCHANGED rows
  /\ worker' = [worker EXCEPT ![w] = Resting]
  /\ UNCHANGED <<listing, payload, selected, requests, takenDown, faults>>

Crash(w) ==
  /\ "crash" \in faults
  /\ ~At(w, "idle")
  /\ worker' = [worker EXCEPT ![w] = Resting]
  /\ UNCHANGED <<listing, rows, payload, selected, requests, takenDown, faults>>

BackoffElapses(j) ==
  /\ Waiting(rows[j])
  /\ rows' = [rows EXCEPT ![j] = MadeDue(@)]
  /\ UNCHANGED <<listing, payload, selected, worker, requests, takenDown, faults>>

RetryAdminJob(j) ==
  /\ Retryable(rows[j])
  /\ requests < MaxRequests
  /\ requests' = requests + 1
  /\ rows' = [rows EXCEPT ![j] = Retried(@)]
  /\ UNCHANGED <<listing, payload, selected, worker, takenDown, faults>>

-----------------------------------------------------------------------------
WorkerStep(w) ==
  \/ \E j \in Jobs : Claim(w, j)
  \/ GetCheckTarget(w) \/ Probe(w) \/ CompleteCheck(w) \/ Mark(w) \/ Fail(w)

Schedule == (\E s \in Servers : Select(s)) \/ InsertSelected

Request(s) ==
  \/ \E e \in Endpoints : Create(s, e) \/ UpdateEndpoint(s, e)
  \/ RequestVerification(s) \/ DeleteOwned(s) \/ Hide(s) \/ Restore(s)

Next ==
  \/ \E s \in Servers : Request(s) \/ IntervalElapses(s)
  \/ Schedule
  \/ \E w \in Workers : WorkerStep(w) \/ Crash(w)
  \/ \E j \in Jobs : BackoffElapses(j) \/ RetryAdminJob(j)

Spec == Init /\ [][Next]_vars

\* The worker loop polls and schedules for ever, a probe has a deadline, time
\* passes; owners, moderators and administrators owe nothing.
FairSpec ==
  /\ Spec
  /\ \A w \in Workers : WF_vars(WorkerStep(w))
  /\ WF_vars(Schedule)
  /\ \A j \in Jobs : WF_vars(BackoffElapses(j))
  /\ \A s \in Servers : WF_vars(IntervalElapses(s))

-----------------------------------------------------------------------------
(* Properties.                                                             *)

\* A server that a moderator hid is not listed until a moderator restores it,
\* although its owner can make it pending_verification and a check then makes
\* it published: only hidden_at, which neither of them touches, holds it back.
TakedownHolds == \A s \in Servers : takenDown[s] => ~Listed(s)

\* Nothing that was under way when a listing was deleted writes it afterwards.
DeletedIsFinal ==
  [][\A s \in Servers : listing[s].deleted => listing'[s].status = "deleted"]_vars

\* The NOT EXISTS and the scheduler's lock keep the checks of a server few, even
\* when workers crash: one, and one more when an owner's request meets the
\* scheduler's INSERT.  Statements that fail add to them: a job that is dead, or
\* that did succeed, is put back.
ChecksAreFew ==
  faults \cap {"db_error", "lost_reply"} = {} =>
    \A s \in Servers : Cardinality({j \in Jobs : Live(j, s)}) <= 2

\* Without faults, once owners and moderators leave a listing alone, its status
\* becomes and stays what a probe of its present endpoint says, even if a check
\* of an earlier endpoint was under way and the request queued none of its own.
Settled(s) ==
  listing[s].status \in {"pending_verification", "published", "offline"} =>
    listing[s].status = IF listing[s].endpoint \in Answering THEN "published" ELSE "offline"

EventuallyAccurate == (faults = {}) => <>[](\A s \in Servers : Settled(s))

\* A check publishes only the endpoint that it has probed.
PublishesWhatItProbed ==
  [][\A w \in Workers :
       CompleteCheck(w) /\ listing[Checked(w)].status = "pending_verification"
         /\ listing'[Checked(w)].status = "published"
       => listing[Checked(w)].endpoint = worker[w].endpoint]_vars
=============================================================================
