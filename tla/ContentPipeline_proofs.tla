----------------------- MODULE ContentPipeline_proofs -----------------------
(***************************************************************************)
(* Proofs about the content pipeline, for every set of items, workers and  *)
(* moderator requests and every set of faults (the last two sections: as   *)
(* long as no committed statement is reported as failed).                  *)
(*                                                                         *)
(* The invariant has two halves that need each other only in the second    *)
(* direction: who holds which job (ActorPart), and which columns of an     *)
(* item go together (ItemPart).  StorePart adds who carries which object.  *)
(***************************************************************************)
EXTENDS ContentSafety, JobRows_proofs

Adverse == {"failed", "suspicious", "infected"}

ScanPC == {"load", "scan", "complete", "fail"}

\* An actor at work has an item; only a claimed job takes it through the scan.
PCFits(x) ==
  /\ x.pc # "idle" => x.content \in Contents
  /\ x.pc \in ScanPC => x.kind = "scan"
  /\ x.pc = "complete" => x.verdict \in Adverse

\* The row of a job in an actor's hands is not pending and not dead, and has
\* the number of attempts and the item of the actor's copy.
HoldsItsJob(a) ==
  actor[a].kind = "scan" =>
    /\ actor[a].job \in Jobs
    /\ rows[actor[a].job].status \in {"running", "succeeded"}
    /\ rows[actor[a].job].attempts = actor[a].attempt
    /\ payload[actor[a].job].content = actor[a].content

OneActorPerJob ==
  \A a, b \in Actors :
    actor[a].kind = "scan" /\ actor[b].kind = "scan" /\ actor[a].job = actor[b].job => a = b

RowFits(j) ==
  /\ rows[j].status # "absent" => payload[j].content \in Contents
  /\ rows[j].status # "failed"
  /\ rows[j].status = "pending" => rows[j].attempts < MaxAttempts

ActorPart ==
  /\ rows \in [Jobs -> Row]
  /\ payload \in [Jobs -> Payload]
  /\ actor \in [Actors -> Actor]
  /\ \A a \in Actors : PCFits(actor[a]) /\ HoldsItsJob(a)
  /\ OneActorPerJob
  /\ \A j \in Jobs : RowFits(j)

\* Which columns go together: the clauses that single handlers do not check.
Fits(i, f) ==
  /\ i.status # "approved"
  /\ i.status \in {"published", "hidden"} =>
       f.scan = "clean" /\ f.bucket = "private" /\ i.published
  /\ i.status \in {"published", "pending_moderation"} => ~i.hidden
  /\ i.deleted => i.status \in {"deleted", "pending_scan", "scan_failed"}
  /\ f.scan \in Adverse => i.status \in {"scan_failed", "rejected", "deleted"}

ItemPart ==
  /\ item \in [Contents -> Item]
  /\ file \in [Contents -> File]
  /\ store \subseteq Bucket \X Contents
  /\ uploading \subseteq Contents
  /\ announced \in [Contents -> BOOLEAN]
  /\ takenDown \in [Contents -> BOOLEAN]
  /\ \A c \in Contents : Fits(item[c], file[c])

-----------------------------------------------------------------------------
(* Steps of an actor.                                                      *)

PCs == {"idle", "load", "scan", "complete", "copy", "publish", "undo", "purge", "fail"}

LEMMA RestingFacts ==
  Resting \in Actor /\ Resting.pc = "idle" /\ Resting.kind = "none"
  BY MaxAttemptsAssumption DEF Resting, Began, Actor, Bucket, ScanStatus

\* Actor a goes on, stops, or starts something else than a job.
Moved(a) ==
  /\ actor' \in [Actors -> Actor]
  /\ \A b \in Actors \ {a} : actor'[b] = actor[b]
  /\ PCFits(actor'[a])
  /\ actor'[a].kind = "scan" =>
       /\ actor[a].kind = "scan"
       /\ actor'[a].job = actor[a].job
       /\ actor'[a].attempt = actor[a].attempt
       /\ actor'[a].content = actor[a].content

\* Rows stay or are marked as succeeded.
RowsSettle ==
  /\ rows' \in [Jobs -> Row]
  /\ payload' = payload
  /\ \A j \in Jobs : \/ rows'[j] = rows[j]
                     \/ /\ rows[j].status # "absent"
                        /\ rows'[j].status = "succeeded"
                        /\ rows'[j].attempts = rows[j].attempts

LEMMA MovedKeepsActorPart ==
  ASSUME ActorPart, NEW a \in Actors, Moved(a), RowsSettle
  PROVE  ActorPart'
  BY DEF ActorPart, Moved, RowsSettle, PCFits, HoldsItsJob, OneActorPerJob, RowFits

LEMMA RestMoves ==
  ASSUME ActorPart, NEW a \in Actors, Rest(a)
  PROVE  Moved(a)
  BY RestingFacts DEF ActorPart, Rest, Moved, PCFits, ScanPC

LEMMA GotoMoves ==
  ASSUME ActorPart, NEW a \in Actors, NEW pc \in PCs \ {"complete"}, Goto(a, pc),
         actor[a].pc # "idle", pc \in ScanPC => actor[a].kind = "scan"
  PROVE  Moved(a)
<1>1. [actor[a] EXCEPT !.pc = pc] \in Actor
  BY DEF ActorPart, Actor, PCs
<1>2. /\ actor'[a].pc = pc
      /\ actor'[a].kind = actor[a].kind
      /\ actor'[a].content = actor[a].content
      /\ actor'[a].job = actor[a].job
      /\ actor'[a].attempt = actor[a].attempt
  BY DEF ActorPart, Goto, Actor
<1> QED
  BY <1>1, <1>2 DEF ActorPart, Goto, Moved, PCFits

LEMMA FailMoves ==
  ASSUME ActorPart, NEW a \in Actors, actor[a].pc # "idle", Fail(a)
  PROVE  Moved(a)
  BY RestMoves, GotoMoves DEF Fail, PCs

LEMMA UndoMoves ==
  ASSUME ActorPart, NEW a \in Actors, actor[a].pc # "idle", Undo(a)
  PROVE  Moved(a)
  BY FailMoves, GotoMoves DEF Undo, PCs, ScanPC

LEMMA PurgeMoves ==
  ASSUME ActorPart, NEW a \in Actors, actor[a].pc # "idle", Purge(a)
  PROVE  Moved(a)
  BY RestMoves, GotoMoves DEF Purge, PCs, ScanPC

\* To "complete" an actor goes with a verdict against the file.
LEMMA VerdictMoves ==
  ASSUME ActorPart, NEW a \in Actors, actor[a].kind = "scan", actor[a].pc # "idle",
         NEW v \in Adverse,
         actor' = [actor EXCEPT ![a].pc = "complete", ![a].verdict = v]
  PROVE  Moved(a)
<1>1. actor[a] \in Actor /\ actor[a].content \in Contents
  BY DEF ActorPart, PCFits
<1> DEFINE x == [actor[a] EXCEPT !.pc = "complete", !.verdict = v]
<1>2. /\ x \in Actor
      /\ x.pc = "complete" /\ x.verdict = v /\ x.kind = actor[a].kind
      /\ x.content = actor[a].content /\ x.job = actor[a].job /\ x.attempt = actor[a].attempt
  BY <1>1 DEF Actor, Adverse, ScanStatus
<1>3. actor' = [actor EXCEPT ![a] = x]
  BY DEF ActorPart
<1> HIDE DEF x
<1> QED
  BY <1>1, <1>2, <1>3 DEF ActorPart, Moved, PCFits

LEMMA RowsUnchangedSettle ==
  ASSUME ActorPart, UNCHANGED <<rows, payload>>
  PROVE  RowsSettle
  BY DEF ActorPart, RowsSettle

LEMMA MarkedSettle ==
  ASSUME ActorPart, NEW a \in Actors, actor[a].kind = "scan",
         rows' = [rows EXCEPT ![actor[a].job] = MarkedSucceeded(@)], payload' = payload
  PROVE  RowsSettle
  BY MarkedSucceededFacts DEF ActorPart, HoldsItsJob, RowsSettle

-----------------------------------------------------------------------------
(* ActorPart, action by action.                                            *)

LEMMA LoadFileMoves ==
  ASSUME ActorPart, ItemPart, NEW w \in Workers, LoadFile(w)
  PROVE  Moved(w)
<1> DEFINE f == file[actor[w].content]
<1>1. /\ w \in Actors /\ actor[w] \in Actor /\ actor[w].pc = "load"
      /\ actor[w].kind = "scan" /\ actor[w].content \in Contents
      /\ f.bucket \in Bucket
  BY DEF LoadFile, At, Actors, ActorPart, ItemPart, PCFits, ScanPC, File
<1>2. CASE actor' = [actor EXCEPT ![w].pc = "scan", ![w].from = f.bucket]
  <2> DEFINE x == [actor[w] EXCEPT !.pc = "scan", !.from = f.bucket]
  <2>1. /\ x \in Actor
        /\ x.pc = "scan" /\ x.kind = actor[w].kind
        /\ x.content = actor[w].content /\ x.job = actor[w].job /\ x.attempt = actor[w].attempt
    BY <1>1 DEF Actor
  <2>2. actor' = [actor EXCEPT ![w] = x]
    BY <1>2 DEF ActorPart
  <2> HIDE DEF x
  <2> QED
    BY <1>1, <2>1, <2>2 DEF ActorPart, Moved, PCFits, ScanPC
<1>3. CASE actor' = [actor EXCEPT ![w].pc = "complete", ![w].verdict = "suspicious"]
  BY <1>1, <1>3, VerdictMoves DEF Adverse
<1>4. CASE Fail(w)
  BY <1>1, <1>4, FailMoves
<1> QED
  BY <1>2, <1>3, <1>4 DEF LoadFile

LEMMA ScanFileMoves ==
  ASSUME ActorPart, NEW w \in Workers, ScanFile(w)
  PROVE  Moved(w)
<1>1. w \in Actors /\ actor[w].pc = "scan" /\ actor[w].kind = "scan"
  BY DEF ScanFile, At, Actors, ActorPart, PCFits, ScanPC
<1>2. CASE Fail(w)
  BY <1>1, <1>2, FailMoves
<1>3. CASE Goto(w, Promote(actor[w].from))
  BY <1>1, <1>3, GotoMoves DEF Promote, PCs, ScanPC
<1>4. ASSUME NEW v \in Adverse,
             actor' = [actor EXCEPT ![w].pc = "complete", ![w].verdict = v]
      PROVE  Moved(w)
  BY <1>1, <1>4, VerdictMoves
<1> QED
  BY <1>2, <1>3, <1>4 DEF ScanFile, Adverse

LEMMA CompleteFileScanKeeps ==
  ASSUME ActorPart, NEW w \in Workers, CompleteFileScan(w)
  PROVE  ActorPart'
<1>1. w \in Actors /\ actor[w].pc = "complete" /\ actor[w].kind = "scan"
  BY DEF CompleteFileScan, At, Actors, ActorPart, PCFits, ScanPC
<1>2. Moved(w)
  BY <1>1, RestMoves, FailMoves DEF CompleteFileScan, Transaction
<1>3. RowsSettle
  BY <1>1, MarkedSettle, RowsUnchangedSettle DEF CompleteFileScan, Transaction
<1> QED
  BY <1>1, <1>2, <1>3, MovedKeepsActorPart

\* A candidate of the reconcile pass or of an approval.
LEMMA StartMoves ==
  ASSUME ActorPart, ItemPart, NEW a \in Actors, NEW c \in Contents,
         NEW kind \in {"reconcile", "approve"},
         actor' = [actor EXCEPT ![a] =
                     Began(Promote(file[c].bucket), kind, c, file[c].bucket, NoJob, 0)]
  PROVE  Moved(a)
<1>1. file[c].bucket \in Bucket /\ Promote(file[c].bucket) \in {"copy", "publish"}
  BY DEF ItemPart, File, Promote
<1> DEFINE x == Began(Promote(file[c].bucket), kind, c, file[c].bucket, NoJob, 0)
<1>3. x \in Actor
  BY <1>1, MaxAttemptsAssumption DEF Began, Actor, ScanStatus
<1>4. x.pc \in {"copy", "publish"} /\ x.kind = kind /\ x.content = c
  BY <1>1 DEF Began
<1>5. actor' = [actor EXCEPT ![a] = x]
  OBVIOUS
<1> HIDE DEF x
<1> QED
  BY <1>3, <1>4, <1>5 DEF ActorPart, Moved, PCFits, ScanPC

LEMMA PromotionStepMoves ==
  ASSUME ActorPart, NEW a \in Actors, PromotionStep(a)
  PROVE  Moved(a)
<1>1. actor[a].pc # "idle"
  BY DEF PromotionStep, Copy, UndoCopy, PurgeQuarantine, At
<1>2. Rest(a) \/ Fail(a) \/ Goto(a, "publish")
  BY DEF PromotionStep, Copy, UndoCopy, PurgeQuarantine
<1> QED
  BY <1>1, <1>2, RestMoves, FailMoves, GotoMoves DEF PCs, ScanPC

\* The steps that only move their actor.
OnlyMoves(a) ==
  \/ PromotionStep(a)
  \/ a \in Workers /\ (LoadFile(a) \/ ScanFile(a) \/ \E c \in Contents : Reconcile(a, c))
  \/ a \in Moderators /\ \E c \in Contents : StartApproval(a, c)
  \/ Crash(a)

LEMMA OnlyMovesMoves ==
  ASSUME ActorPart, ItemPart, NEW a \in Actors, OnlyMoves(a)
  PROVE  Moved(a) /\ UNCHANGED <<item, file, rows, payload, announced>>
<1>1. UNCHANGED <<item, file, rows, payload, announced>>
  BY DEF OnlyMoves, PromotionStep, Copy, UndoCopy, PurgeQuarantine, LoadFile, ScanFile,
         Reconcile, StartApproval, Crash
<1>2. CASE PromotionStep(a)
  BY <1>1, <1>2, PromotionStepMoves
<1>3. CASE a \in Workers /\ (LoadFile(a) \/ ScanFile(a))
  BY <1>1, <1>3, LoadFileMoves, ScanFileMoves
<1>4. CASE \/ \E c \in Contents : Reconcile(a, c)
           \/ \E c \in Contents : StartApproval(a, c)
  BY <1>1, <1>4, StartMoves DEF Reconcile, StartApproval
<1>5. CASE Crash(a)
  BY <1>1, <1>5, RestMoves DEF Crash
<1> QED
  BY <1>1, <1>2, <1>3, <1>4, <1>5 DEF OnlyMoves

LEMMA OnlyMovesKeeps ==
  ASSUME ActorPart, ItemPart, NEW a \in Actors, OnlyMoves(a)
  PROVE  ActorPart'
  BY OnlyMovesMoves, RowsUnchangedSettle, MovedKeepsActorPart

LEMMA PublishScannedKeeps ==
  ASSUME ActorPart, NEW w \in Workers, PublishScanned(w)
  PROVE  ActorPart'
<1>1. w \in Actors /\ actor[w].pc # "idle" /\ actor[w].kind = "scan" /\ payload' = payload
  BY DEF PublishScanned, At, Actors
<1>2. Purge(w) \/ Undo(w)
  BY DEF PublishScanned, Transaction
<1>3. rows' = rows \/ rows' = [rows EXCEPT ![actor[w].job] = MarkedSucceeded(@)]
  BY DEF PublishScanned, Transaction, Unpublished
<1>4. Moved(w) /\ RowsSettle
  BY <1>1, <1>2, <1>3, PurgeMoves, UndoMoves, RowsUnchangedSettle, MarkedSettle
<1> QED
  BY <1>1, <1>4, MovedKeepsActorPart

LEMMA PublishOtherKeeps ==
  ASSUME ActorPart, NEW a \in Actors, PublishReconciled(a) \/ PublishApproved(a)
  PROVE  ActorPart'
<1>1. actor[a].pc # "idle" /\ UNCHANGED <<rows, payload>>
  BY DEF PublishReconciled, PublishApproved, At, Transaction, Unpublished
<1>2. Purge(a) \/ Undo(a)
  BY DEF PublishReconciled, PublishApproved, Transaction
<1> QED
  BY <1>1, <1>2, PurgeMoves, UndoMoves, RowsUnchangedSettle, MovedKeepsActorPart

LEMMA ClaimKeeps ==
  ASSUME ActorPart, NEW w \in Workers, NEW j \in Jobs, Claim(w, j)
  PROVE  ActorPart'
<1> DEFINE row == ClaimedBy(rows[j], w)
           x   == Began("load", "scan", payload[j].content, "quarantine", j, row.attempts)
<1>1. /\ w \in Actors
      /\ rows[j].status = "pending" /\ rows[j] \in Row
      /\ rows[j].attempts < MaxAttempts
      /\ payload[j].content \in Contents
  BY DEF Claim, Oldest, Claimable, Actors, ActorPart, RowFits
<1>2. /\ row \in Row /\ row.status = "running"
      /\ row.attempts = rows[j].attempts + 1 /\ row.attempts \in 0 .. MaxAttempts
  BY <1>1, ClaimedByFacts DEF Row
<1>4. x \in Actor
  <2> HIDE DEF row
  <2> QED
    BY <1>1, <1>2 DEF Began, Actor, ScanStatus, Bucket
<1>5. /\ x.pc = "load" /\ x.kind = "scan" /\ x.job = j
      /\ x.content = payload[j].content /\ x.attempt = row.attempts
  BY DEF Began
<1>6. rows' = [rows EXCEPT ![j] = row] /\ actor' = [actor EXCEPT ![w] = x] /\ payload' = payload
  BY DEF Claim
<1>7. \A a \in Actors : actor[a].kind = "scan" => actor[a].job # j
  BY <1>1 DEF ActorPart, HoldsItsJob
<1> HIDE DEF row, x
<1> QED
  BY <1>1, <1>2, <1>4, <1>5, <1>6, <1>7
     DEF ActorPart, PCFits, ScanPC, HoldsItsJob, OneActorPerJob, RowFits

LEMMA MarkFailedKeeps ==
  ASSUME ActorPart, NEW w \in Workers, MarkFailed(w)
  PROVE  ActorPart'
<1>1. w \in Actors /\ actor[w].pc = "fail" /\ actor[w].kind = "scan"
  BY DEF MarkFailed, At, Actors, ActorPart, PCFits, ScanPC
<1>2. CASE UNCHANGED rows
  BY <1>1, <1>2, RestMoves, RowsUnchangedSettle, MovedKeepsActorPart DEF MarkFailed
<1>3. CASE rows' = [rows EXCEPT ![actor[w].job] = MarkedFailed(@, actor[w].attempt)]
  <2> DEFINE j   == actor[w].job
             row == MarkedFailed(rows[j], actor[w].attempt)
  <2>1. /\ j \in Jobs /\ rows[j] \in Row /\ actor[w].attempt \in Nat
        /\ rows[j].attempts = actor[w].attempt
        /\ rows[j].status \in {"running", "succeeded"}
        /\ payload[j].content \in Contents
    BY <1>1, MaxAttemptsAssumption DEF ActorPart, HoldsItsJob, RowFits, Actor, PCFits
  <2>2. /\ row \in Row /\ row.attempts = rows[j].attempts
        /\ row.status = IF actor[w].attempt >= MaxAttempts THEN "dead" ELSE "pending"
    BY <2>1, MarkedFailedFacts
  <2>3. row.status = "pending" => row.attempts < MaxAttempts
    BY <2>1, <2>2, MaxAttemptsAssumption
  <2>4. rows' = [rows EXCEPT ![j] = row] /\ payload' = payload
    BY <1>3 DEF MarkFailed
  <2>5. actor' = [actor EXCEPT ![w] = Resting]
    BY DEF MarkFailed, Rest
  <2>6. row.status # "absent"
    BY <2>2
  <2> HIDE DEF row
  <2> QED
    BY <1>1, <2>1, <2>2, <2>3, <2>4, <2>5, <2>6, RestingFacts
       DEF ActorPart, PCFits, ScanPC, HoldsItsJob, OneActorPerJob, RowFits
<1> QED
  BY <1>2, <1>3 DEF MarkFailed

\* A new scan job: its number is in nobody's hands.
LEMMA InsertScanJobKeeps ==
  ASSUME ActorPart, ItemPart, NEW c \in Contents, NEW j \in Jobs, InsertScanJob(j, c),
         UNCHANGED actor
  PROVE  ActorPart'
<1> DEFINE p == [content |-> c, bucket |-> file[c].bucket]
<1>1. p \in Payload /\ p.content = c
  BY DEF ItemPart, File, Payload
<1>2. rows' = [rows EXCEPT ![j] = NewRow] /\ payload' = [payload EXCEPT ![j] = p]
  BY DEF InsertScanJob
<1>3. rows[j].status = "absent"
  BY DEF InsertScanJob, NextJob
<1>4. \A a \in Actors : actor[a].kind = "scan" => actor[a].job # j
  BY <1>3 DEF ActorPart, HoldsItsJob
<1> HIDE DEF p
<1> QED
  BY <1>1, <1>2, <1>4, NewRowFacts, MaxAttemptsAssumption
     DEF ActorPart, PCFits, HoldsItsJob, OneActorPerJob, RowFits

\* A row that nobody holds is put back or made due.
LEMMA RowChangeKeeps ==
  ASSUME ActorPart, NEW j \in Jobs, NEW row \in Row,
         rows[j].status \in {"pending", "dead", "failed"},
         row.status = "pending", row.attempts < MaxAttempts,
         rows' = [rows EXCEPT ![j] = row], UNCHANGED <<payload, actor>>
  PROVE  ActorPart'
<1>1. \A a \in Actors : actor[a].kind = "scan" => actor[a].job # j
  BY DEF ActorPart, HoldsItsJob
<1> QED
  BY <1>1 DEF ActorPart, PCFits, HoldsItsJob, OneActorPerJob, RowFits

LEMMA RetryKeeps ==
  ASSUME ActorPart, NEW j \in Jobs, RetryAdminJob(j)
  PROVE  ActorPart'
<1>1. rows[j] \in Row
  BY DEF ActorPart
<1>2. Retried(rows[j]) \in Row /\ Retried(rows[j]).status = "pending"
      /\ Retried(rows[j]).attempts < MaxAttempts
  BY <1>1, RetriedFacts, MaxAttemptsAssumption
<1> QED
  BY <1>2, RowChangeKeeps DEF RetryAdminJob, Retryable

LEMMA BackoffKeeps ==
  ASSUME ActorPart, NEW j \in Jobs, BackoffElapses(j)
  PROVE  ActorPart'
<1>1. rows[j] \in Row /\ rows[j].attempts < MaxAttempts /\ rows[j].status = "pending"
  BY DEF ActorPart, RowFits, BackoffElapses, Waiting
<1>2. MadeDue(rows[j]) \in Row /\ MadeDue(rows[j]).status = "pending"
      /\ MadeDue(rows[j]).attempts < MaxAttempts
  BY <1>1, MadeDueFacts
<1> QED
  BY <1>1, <1>2, RowChangeKeeps DEF BackoffElapses

LEMMA UnchangedKeeps ==
  ASSUME ActorPart, UNCHANGED <<rows, payload, actor>>
  PROVE  ActorPart'
  BY DEF ActorPart, HoldsItsJob, OneActorPerJob, RowFits

LEMMA ActorPartInvariant ==
  ASSUME ActorPart, ItemPart, [Next]_vars
  PROVE  ActorPart'
<1>1. ASSUME NEW w \in Workers, WorkerStep(w)
      PROVE  ActorPart'
  BY <1>1, ClaimKeeps, CompleteFileScanKeeps, PublishScannedKeeps, PublishOtherKeeps,
     MarkFailedKeeps, OnlyMovesKeeps DEF WorkerStep, OnlyMoves, Actors
<1>2. ASSUME NEW m \in Moderators, ModeratorStep(m)
      PROVE  ActorPart'
  BY <1>2, PublishOtherKeeps, OnlyMovesKeeps DEF ModeratorStep, OnlyMoves, Actors
<1>3. CASE ModeratorRequest
  BY <1>3, OnlyMovesKeeps, UnchangedKeeps
     DEF ModeratorRequest, OnlyMoves, Actors, Reject, Hide, Restore, Review
<1>4. CASE OwnerRequest
  BY <1>4, UnchangedKeeps DEF OwnerRequest, UploadPut, DeleteOwned, EditDecided, ChangeVisibility
<1>5. ASSUME NEW c \in Contents, UploadStep(c) \/ UploadCrash(c)
      PROVE  ActorPart'
  BY <1>5, UnchangedKeeps, InsertScanJobKeeps
     DEF UploadStep, UploadCreate, CreateUpload, UploadRefused, UploadCrash
<1>6. CASE AdminRequest
  BY <1>6, InsertScanJobKeeps, RetryKeeps DEF AdminRequest, RescanAdminFile
<1>7. ASSUME NEW j \in Jobs, BackoffElapses(j)
      PROVE  ActorPart'
  BY <1>7, BackoffKeeps
<1>8. ASSUME NEW a \in Actors, Crash(a)
      PROVE  ActorPart'
  BY <1>8, OnlyMovesKeeps DEF OnlyMoves
<1>9. CASE UNCHANGED vars
  BY <1>9, UnchangedKeeps DEF vars
<1> QED
  BY <1>1, <1>2, <1>3, <1>4, <1>5, <1>6, <1>7, <1>8, <1>9 DEF Next

-----------------------------------------------------------------------------
(* ItemPart, action by action.                                             *)

\* The columns that only have a type.
OthersTyped ==
  /\ store \subseteq Bucket \X Contents
  /\ uploading \subseteq Contents
  /\ announced \in [Contents -> BOOLEAN]
  /\ takenDown \in [Contents -> BOOLEAN]

LEMMA ItemUnchanged ==
  ASSUME ItemPart, UNCHANGED <<item, file>>, OthersTyped'
  PROVE  ItemPart'
  BY DEF ItemPart, OthersTyped

\* An action that writes one item and its file.
LEMMA OneItem ==
  ASSUME ItemPart, NEW c \in Contents, NEW i \in Item, NEW f \in File, Fits(i, f),
         item' = [item EXCEPT ![c] = i], file' = [file EXCEPT ![c] = f], OthersTyped'
  PROVE  ItemPart'
<1>1. item' \in [Contents -> Item] /\ file' \in [Contents -> File]
  BY DEF ItemPart
<1>2. \A d \in Contents : Fits(item'[d], file'[d])
  BY DEF ItemPart
<1> QED
  BY <1>1, <1>2 DEF ItemPart, OthersTyped

\* The same for a handler that leaves the file alone.
LEMMA OneItemSameFile ==
  ASSUME ItemPart, NEW c \in Contents, NEW i \in Item, Fits(i, file[c]),
         item' = [item EXCEPT ![c] = i], UNCHANGED file, OthersTyped'
  PROVE  ItemPart'
<1>1. file[c] \in File /\ file' = [file EXCEPT ![c] = file[c]]
  BY DEF ItemPart
<1> QED
  BY <1>1, OneItem

LEMMA AnnounceTyped ==
  ASSUME ItemPart, NEW c \in Contents, Announce(c)
  PROVE  announced' \in [Contents -> BOOLEAN]
<1>1. Searchable(item'[c]) \in BOOLEAN
  BY DEF Searchable
<1> QED
  BY <1>1 DEF ItemPart, Announce

LEMMA ReindexTyped ==
  ASSUME ItemPart, NEW c \in Contents, Reindex(c)
  PROVE  announced' \in [Contents -> BOOLEAN]
  BY AnnounceTyped DEF ItemPart, Reindex

LEMMA CreateItem ==
  ASSUME ItemPart, NEW c \in Contents, UploadCreate(c)
  PROVE  ItemPart'
<1>1. PICK v \in Visibility :
        item' = [item EXCEPT ![c].status = "pending_scan", ![c].visibility = v]
  BY DEF UploadCreate, CreateUpload
<1> DEFINE x == [item[c] EXCEPT !.status = "pending_scan", !.visibility = v]
<1>2. item[c] \in Item /\ file[c] \in File /\ item' = [item EXCEPT ![c] = x]
  BY <1>1 DEF ItemPart
<1>3. /\ x \in Item /\ x.status = "pending_scan"
      /\ x.deleted = item[c].deleted /\ x.published = item[c].published
  BY <1>2 DEF Item, Status
<1>4. Fits(x, file[c])
  BY <1>3 DEF ItemPart, Fits, UploadCreate, CreateUpload
<1>5. OthersTyped' /\ UNCHANGED file
  BY DEF UploadCreate, ItemPart, OthersTyped
<1> HIDE DEF x
<1> QED
  BY <1>2, <1>3, <1>4, <1>5, OneItemSameFile

LEMMA CompleteItem ==
  ASSUME ActorPart, ItemPart, NEW w \in Workers, CompleteFileScan(w)
  PROVE  ItemPart'
<1> DEFINE c == actor[w].content
           i == [item[c] EXCEPT !.status = "scan_failed"]
           f == [file[c] EXCEPT !.scan = actor[w].verdict]
<1>1. OthersTyped'
  BY DEF CompleteFileScan, ItemPart, OthersTyped
<1>2. CASE UNCHANGED <<item, file>>
  BY <1>1, <1>2, ItemUnchanged
<1>3. CASE /\ file' = [file EXCEPT ![c].scan = actor[w].verdict]
           /\ item' = [item EXCEPT ![c].status = "scan_failed"]
  <2>1. c \in Contents /\ actor[w].verdict \in Adverse
    BY DEF CompleteFileScan, At, ActorPart, Actors, PCFits
  <2>2. /\ item[c] \in Item /\ file[c] \in File
        /\ file' = [file EXCEPT ![c] = f] /\ item' = [item EXCEPT ![c] = i]
    BY <1>3, <2>1 DEF ItemPart
  <2>3. /\ i \in Item /\ i.status = "scan_failed" /\ i.deleted = item[c].deleted
        /\ f \in File
    BY <2>1, <2>2 DEF Item, File, Status, Adverse, ScanStatus
  <2>4. Fits(i, f)
    BY <2>3 DEF Fits
  <2> HIDE DEF c, i, f
  <2> QED
    BY <1>1, <2>1, <2>2, <2>3, <2>4, OneItem
<1> QED
  BY <1>2, <1>3 DEF CompleteFileScan, Transaction

LEMMA AutoPublishedItem ==
  ASSUME ItemPart, NEW c \in Contents, MayAutoPublish(c), AutoPublished(c),
         UNCHANGED <<store, uploading>>
  PROVE  ItemPart'
<1> DEFINE i == [item[c] EXCEPT !.status = "published", !.published = TRUE, !.hidden = FALSE]
           f == [file[c] EXCEPT !.scan = "clean", !.bucket = "private"]
<1>1. OthersTyped'
  BY AnnounceTyped DEF AutoPublished, ItemPart, OthersTyped
<1>2. /\ item[c] \in Item /\ file[c] \in File
      /\ file' = [file EXCEPT ![c] = f] /\ item' = [item EXCEPT ![c] = i]
  BY DEF ItemPart, AutoPublished
<1>3. /\ i \in Item /\ i.status = "published" /\ i.published /\ ~i.hidden
      /\ i.deleted = item[c].deleted
      /\ f \in File /\ f.scan = "clean" /\ f.bucket = "private"
  BY <1>2 DEF Item, File, Status, ScanStatus, Bucket
<1>4. Fits(i, f)
  BY <1>3 DEF Fits, MayAutoPublish, Adverse
<1> HIDE DEF i, f
<1> QED
  BY <1>1, <1>2, <1>3, <1>4, OneItem

LEMMA PublishScannedItem ==
  ASSUME ActorPart, ItemPart, NEW w \in Workers, PublishScanned(w)
  PROVE  ItemPart'
<1>1. actor[w].content \in Contents
  BY DEF PublishScanned, At, ActorPart, Actors, PCFits
<1>2. CASE Unpublished
  BY <1>2, ItemUnchanged DEF PublishScanned, Unpublished, ItemPart, OthersTyped
<1>3. CASE AutoPublished(actor[w].content) /\ MayAutoPublish(actor[w].content)
  BY <1>1, <1>3, AutoPublishedItem DEF PublishScanned
<1> QED
  BY <1>2, <1>3 DEF PublishScanned, Transaction

LEMMA PublishReconciledItem ==
  ASSUME ActorPart, ItemPart, NEW w \in Workers, PublishReconciled(w)
  PROVE  ItemPart'
<1>1. actor[w].content \in Contents
  BY DEF PublishReconciled, At, ActorPart, Actors, PCFits
<1>2. CASE Unpublished
  BY <1>2, ItemUnchanged DEF PublishReconciled, Unpublished, ItemPart, OthersTyped
<1>3. CASE AutoPublished(actor[w].content) /\ MayAutoPublish(actor[w].content)
  BY <1>1, <1>3, AutoPublishedItem DEF PublishReconciled
<1> QED
  BY <1>2, <1>3 DEF PublishReconciled, Transaction

\* Approve tests neither hidden_at nor deleted_at: a pending_moderation item
\* has neither.
LEMMA PublishApprovedItem ==
  ASSUME ActorPart, ItemPart, NEW m \in Moderators, PublishApproved(m)
  PROVE  ItemPart'
<1> DEFINE c == actor[m].content
           i == [item[c] EXCEPT !.status = "published", !.published = TRUE]
           f == [file[c] EXCEPT !.bucket = "private"]
<1>1. c \in Contents
  BY DEF PublishApproved, At, ActorPart, Actors, PCFits
<1>2. CASE Unpublished
  BY <1>2, ItemUnchanged DEF PublishApproved, Unpublished, ItemPart, OthersTyped
<1>3. CASE /\ file[c].scan = "clean" /\ item[c].status \in {"pending_moderation", "approved"}
           /\ item' = [item EXCEPT ![c].status = "published", ![c].published = TRUE]
           /\ file' = [file EXCEPT ![c].bucket = "private"]
           /\ Announce(c)
           /\ takenDown' = [takenDown EXCEPT ![c] = FALSE]
  <2>1. OthersTyped'
    BY <1>1, <1>3, AnnounceTyped DEF PublishApproved, ItemPart, OthersTyped
  <2>2. /\ item[c] \in Item /\ file[c] \in File /\ Fits(item[c], file[c])
        /\ file' = [file EXCEPT ![c] = f] /\ item' = [item EXCEPT ![c] = i]
    BY <1>1, <1>3 DEF ItemPart
  <2>3. /\ i \in Item /\ i.status = "published" /\ i.published
        /\ i.deleted = item[c].deleted /\ i.hidden = item[c].hidden
        /\ f \in File /\ f.scan = "clean" /\ f.bucket = "private"
    BY <1>3, <2>2 DEF Item, File, Status, ScanStatus, Bucket
  <2>4. Fits(i, f)
    BY <1>3, <2>2, <2>3 DEF Fits, Adverse
  <2> HIDE DEF c, i, f
  <2> QED
    BY <1>1, <2>1, <2>2, <2>3, <2>4, OneItem
<1> QED
  BY <1>2, <1>3 DEF PublishApproved, Transaction

\* Reject, Hide and Restore are reviews: the reviewed item is given in full.
LEMMA ReviewItem ==
  ASSUME ItemPart, NEW c \in Contents, NEW allowed, NEW i \in Item, NEW down \in BOOLEAN,
         Review(c, allowed, i, down), Fits(i, file[c])
  PROVE  ItemPart'
<1>1. OthersTyped'
  BY AnnounceTyped DEF Review, ItemPart, OthersTyped
<1> QED
  BY <1>1, OneItemSameFile DEF Review

LEMMA RejectItem ==
  ASSUME ItemPart, NEW c \in Contents, Reject(c)
  PROVE  ItemPart'
<1> DEFINE i == [item[c] EXCEPT !.status = "rejected", !.hidden = FALSE, !.published = FALSE]
<1>1. item[c] \in Item /\ ~item[c].deleted /\ Fits(item[c], file[c])
  BY DEF ItemPart, Reject, Review
<1>2. i \in Item /\ i.status = "rejected" /\ i.deleted = item[c].deleted
  BY <1>1 DEF Item, Status
<1>3. Fits(i, file[c])
  BY <1>1, <1>2 DEF Fits
<1>4. Review(c, {"pending_moderation", "approved", "scan_failed"}, i, TRUE)
  BY DEF Reject
<1> HIDE DEF i
<1> QED
  BY <1>2, <1>3, <1>4, ReviewItem

LEMMA HideItem ==
  ASSUME ItemPart, NEW c \in Contents, Hide(c)
  PROVE  ItemPart'
<1> DEFINE i == [item[c] EXCEPT !.status = "hidden", !.hidden = TRUE]
<1>1. /\ item[c] \in Item /\ ~item[c].deleted /\ Fits(item[c], file[c])
      /\ item[c].status \in {"published", "approved"}
  BY DEF ItemPart, Hide, Review
<1>2. /\ i \in Item /\ i.status = "hidden"
      /\ i.deleted = item[c].deleted /\ i.published = item[c].published
  BY <1>1 DEF Item, Status
<1>3. Fits(i, file[c])
  BY <1>1, <1>2 DEF Fits, Adverse
<1>4. Review(c, {"published", "approved"}, i, TRUE)
  BY DEF Hide
<1> HIDE DEF i
<1> QED
  BY <1>2, <1>3, <1>4, ReviewItem

LEMMA RestoreItem ==
  ASSUME ItemPart, NEW c \in Contents, Restore(c)
  PROVE  ItemPart'
<1> DEFINE i == [item[c] EXCEPT !.status = "published", !.hidden = FALSE, !.published = TRUE]
<1>1. /\ item[c] \in Item /\ ~item[c].deleted /\ Fits(item[c], file[c])
      /\ item[c].status = "hidden" /\ file[c].scan = "clean"
  BY DEF ItemPart, Restore, Review
<1>2. /\ i \in Item /\ i.status = "published" /\ i.published /\ ~i.hidden
      /\ i.deleted = item[c].deleted
  BY <1>1 DEF Item, Status
<1>3. Fits(i, file[c])
  BY <1>1, <1>2 DEF Fits, Adverse
<1>4. Review(c, {"hidden"}, i, FALSE)
  BY DEF Restore
<1> HIDE DEF i
<1> QED
  BY <1>2, <1>3, <1>4, ReviewItem

LEMMA EditDecidedItem ==
  ASSUME ItemPart, NEW c \in Contents, NEW v \in Visibility, EditDecided(c, v)
  PROVE  ItemPart'
<1> DEFINE i == [item[c] EXCEPT !.status = "pending_moderation", !.published = FALSE,
                                !.hidden = FALSE, !.visibility = v]
<1>1. OthersTyped' /\ UNCHANGED file /\ item' = [item EXCEPT ![c] = i]
  BY ReindexTyped DEF EditDecided, ItemPart, OthersTyped
<1>2. /\ item[c] \in Item /\ ~item[c].deleted
      /\ file[c].scan = "clean" /\ Fits(item[c], file[c])
  BY DEF ItemPart, EditDecided, Exists
<1>3. /\ i \in Item /\ i.status = "pending_moderation" /\ ~i.hidden
      /\ i.deleted = item[c].deleted
  BY <1>2 DEF Item, Status
<1>4. Fits(i, file[c])
  BY <1>2, <1>3 DEF Fits, Adverse
<1> HIDE DEF i
<1> QED
  BY <1>1, <1>3, <1>4, OneItemSameFile

LEMMA ChangeVisibilityItem ==
  ASSUME ItemPart, NEW c \in Contents, NEW v \in Visibility, ChangeVisibility(c, v)
  PROVE  ItemPart'
<1> DEFINE i == [item[c] EXCEPT !.visibility = v]
<1>1. OthersTyped' /\ UNCHANGED file
  BY ReindexTyped DEF ChangeVisibility, ItemPart, OthersTyped
<1>2. item[c] \in Item /\ Fits(item[c], file[c]) /\ item' = [item EXCEPT ![c] = i]
  BY DEF ItemPart, ChangeVisibility
<1>3. /\ i \in Item /\ i.status = item[c].status /\ i.hidden = item[c].hidden
      /\ i.deleted = item[c].deleted /\ i.published = item[c].published
  BY <1>2 DEF Item
<1>4. Fits(i, file[c])
  BY <1>2, <1>3 DEF Fits
<1> HIDE DEF i
<1> QED
  BY <1>1, <1>2, <1>3, <1>4, OneItemSameFile

LEMMA DeleteOwnedItem ==
  ASSUME ItemPart, NEW c \in Contents, DeleteOwned(c)
  PROVE  ItemPart'
<1> DEFINE i == [item[c] EXCEPT !.status = "deleted", !.published = FALSE,
                                !.hidden = FALSE, !.deleted = TRUE]
<1>1. OthersTyped' /\ UNCHANGED file /\ item' = [item EXCEPT ![c] = i]
  BY ReindexTyped DEF DeleteOwned, ItemPart, OthersTyped
<1>2. item[c] \in Item
  BY DEF ItemPart
<1>3. i \in Item /\ i.status = "deleted"
  BY <1>2 DEF Item, Status
<1>4. Fits(i, file[c])
  BY <1>3 DEF Fits
<1> HIDE DEF i
<1> QED
  BY <1>1, <1>3, <1>4, OneItemSameFile

LEMMA RescanItem ==
  ASSUME ItemPart, NEW c \in Contents, RescanAdminFile(c)
  PROVE  ItemPart'
<1> DEFINE i == [item[c] EXCEPT !.status = "pending_scan", !.published = FALSE, !.hidden = FALSE]
           f == [file[c] EXCEPT !.scan = "pending"]
<1>1. OthersTyped'
  BY DEF RescanAdminFile, ItemPart, OthersTyped
<1>2. /\ item[c] \in Item /\ file[c] \in File
      /\ file' = [file EXCEPT ![c] = f] /\ item' = [item EXCEPT ![c] = i]
  BY DEF ItemPart, RescanAdminFile
<1>3. i \in Item /\ i.status = "pending_scan" /\ f \in File /\ f.scan = "pending"
  BY <1>2 DEF Item, File, Status, ScanStatus
<1>4. Fits(i, f)
  BY <1>3 DEF Fits, Adverse
<1> HIDE DEF i, f
<1> QED
  BY <1>1, <1>2, <1>3, <1>4, OneItem

\* The remaining actions leave the items and the files alone.
LEMMA QuietItem ==
  ASSUME ItemPart, UNCHANGED <<item, file, announced, takenDown>>,
         store' \subseteq Bucket \X Contents, uploading' \subseteq Contents
  PROVE  ItemPart'
  BY ItemUnchanged DEF ItemPart, OthersTyped

LEMMA PromotionStepItem ==
  ASSUME ActorPart, ItemPart, NEW a \in Actors, PromotionStep(a)
  PROVE  ItemPart'
<1>1. actor[a].content \in Contents
  BY DEF PromotionStep, Copy, UndoCopy, PurgeQuarantine, At, ActorPart, PCFits
<1>2. store' \subseteq Bucket \X Contents
  BY <1>1 DEF PromotionStep, Copy, UndoCopy, PurgeQuarantine, ItemPart, Bucket
<1> QED
  BY <1>2, QuietItem DEF PromotionStep, Copy, UndoCopy, PurgeQuarantine, ItemPart

LEMMA ItemPartInvariant ==
  ASSUME ActorPart, ItemPart, [Next]_vars
  PROVE  ItemPart'
<1>1. ASSUME NEW w \in Workers, WorkerStep(w)
      PROVE  ItemPart'
  <2>1. w \in Actors
    BY DEF Actors
  <2>2. CASE UNCHANGED <<item, file, store, uploading, announced, takenDown>>
    BY <2>2, QuietItem DEF ItemPart
  <2>3. CASE CompleteFileScan(w) \/ PublishScanned(w) \/ PublishReconciled(w) \/ PromotionStep(w)
    BY <2>1, <2>3, CompleteItem, PublishScannedItem, PublishReconciledItem, PromotionStepItem
  <2> QED
    BY <1>1, <2>2, <2>3 DEF WorkerStep, Claim, Reconcile, LoadFile, ScanFile, MarkFailed
<1>2. ASSUME NEW m \in Moderators, ModeratorStep(m)
      PROVE  ItemPart'
  BY <1>2, PublishApprovedItem, PromotionStepItem DEF ModeratorStep, Actors
<1>3. CASE ModeratorRequest
  BY <1>3, RejectItem, HideItem, RestoreItem, QuietItem DEF ModeratorRequest, StartApproval, ItemPart
<1>4. ASSUME NEW c \in Contents, UploadPut(c) \/ UploadRefused(c) \/ UploadCrash(c)
      PROVE  ItemPart'
  BY <1>4, QuietItem DEF UploadPut, UploadRefused, UploadCrash, ItemPart, Bucket
<1>5. CASE OwnerRequest
  BY <1>4, <1>5, DeleteOwnedItem, EditDecidedItem, ChangeVisibilityItem DEF OwnerRequest
<1>6. ASSUME NEW c \in Contents, UploadStep(c)
      PROVE  ItemPart'
  BY <1>4, <1>6, CreateItem DEF UploadStep
<1>7. CASE AdminRequest
  BY <1>7, RescanItem, QuietItem DEF AdminRequest, RetryAdminJob, ItemPart
<1>8. CASE (\E j \in Jobs : BackoffElapses(j)) \/ (\E a \in Actors : Crash(a)) \/ UNCHANGED vars
  BY <1>8, QuietItem DEF BackoffElapses, Crash, vars, ItemPart
<1> QED
  BY <1>1, <1>2, <1>3, <1>4, <1>5, <1>6, <1>7, <1>8 DEF Next

-----------------------------------------------------------------------------
(* The invariant and what follows from it, with every fault.               *)

IInv == ActorPart /\ ItemPart /\ faults \in FaultSets

LEMMA FaultsAreRigid == [Next]_vars => faults' = faults
  BY DEF Next, vars, WorkerStep, ModeratorStep, PromotionStep, ModeratorRequest, OwnerRequest,
         UploadStep, AdminRequest, Claim, Reconcile, LoadFile, ScanFile, CompleteFileScan,
         PublishScanned, PublishReconciled, PublishApproved, MarkFailed, Copy, UndoCopy,
         PurgeQuarantine, StartApproval, Reject, Hide, Restore, Review, UploadPut, DeleteOwned,
         EditDecided, ChangeVisibility, UploadCreate, UploadRefused, UploadCrash,
         RescanAdminFile, RetryAdminJob, BackoffElapses, Crash

LEMMA InitIInv ==
  ASSUME Init
  PROVE  IInv
<1>1. ActorPart
  <2>1. \A a \in Actors : actor[a] = Resting
    BY DEF Init
  <2>2. \A j \in Jobs : rows[j] = NoRow
    BY DEF Init
  <2>3. actor \in [Actors -> Actor] /\ rows \in [Jobs -> Row]
    BY RestingFacts, NewRowFacts DEF Init
  <2>4. payload \in [Jobs -> Payload]
    BY DEF Init, Payload, Bucket
  <2> QED
    BY <2>1, <2>2, <2>3, <2>4, RestingFacts, NewRowFacts
       DEF ActorPart, PCFits, ScanPC, HoldsItsJob, OneActorPerJob, RowFits
<1>2. item \in [Contents -> Item] /\ file \in [Contents -> File]
  BY DEF Init, Item, File, Status, ScanStatus, Bucket, Visibility
<1>3. \A c \in Contents : Fits(item[c], file[c])
  BY DEF Init, Fits, Adverse
<1>4. OthersTyped
  BY ContentsAssumption DEF Init, OthersTyped, Bucket
<1> QED
  BY <1>1, <1>2, <1>3, <1>4 DEF IInv, ItemPart, OthersTyped, Init

LEMMA Invariance == Spec => []IInv
<1>1. Init => IInv
  BY InitIInv
<1>2. IInv /\ [Next]_vars => IInv'
  BY ActorPartInvariant, ItemPartInvariant, FaultsAreRigid DEF IInv
<1> QED
  BY <1>1, <1>2, PTL DEF Spec

\* Every variable keeps its type.
THEOREM TypeCorrect == Spec => []TypeOK
<1>1. IInv => TypeOK
  BY DEF IInv, ActorPart, ItemPart, TypeOK
<1> QED
  BY <1>1, Invariance, PTL

\* Whatever workers, moderators, owners and administrators do at the same
\* time, a published item is servable, though none of the handlers that write
\* these columns tests all of them.
THEOREM PublishedServable == Spec => []PublishedIsServable
<1>1. IInv => PublishedIsServable
  BY DEF IInv, ItemPart, Fits, PublishedIsServable, Downloadable
<1> QED
  BY <1>1, Invariance, PTL

\* No handler brings a deleted item back.
THEOREM DeletedWithdrawn == Spec => []DeletedStaysWithdrawn
<1>1. IInv => DeletedStaysWithdrawn
  BY DEF IInv, ItemPart, Fits, DeletedStaysWithdrawn
<1> QED
  BY <1>1, Invariance, PTL

\* A file with a verdict against it is not declared clean.
LEMMA AutoPublishedSpares ==
  ASSUME ItemPart, NEW c \in Contents, MayAutoPublish(c), AutoPublished(c),
         NEW d \in Contents, file[d].scan \in Adverse
  PROVE  file'[d].scan # "clean"
<1>1. d # c
  BY DEF ItemPart, Fits, MayAutoPublish
<1> QED
  BY <1>1 DEF AutoPublished, ItemPart, Adverse

LEMMA VerdictStep ==
  ASSUME IInv, [Next]_vars, NEW d \in Contents, file[d].scan \in Adverse
  PROVE  file'[d].scan # "clean"
<1>1. file \in [Contents -> File] /\ ItemPart /\ ActorPart
  BY DEF IInv, ItemPart
<1>2. CASE UNCHANGED file
  BY <1>2 DEF Adverse
<1>3. ASSUME NEW w \in Workers, CompleteFileScan(w)
      PROVE  file'[d].scan # "clean"
  <2>1. actor[w].content \in Contents /\ actor[w].verdict \in Adverse
    BY <1>1, <1>3 DEF CompleteFileScan, At, ActorPart, Actors, PCFits
  <2>2. CASE file' = [file EXCEPT ![actor[w].content].scan = actor[w].verdict]
    <3>1. CASE d = actor[w].content
      BY <1>1, <2>1, <2>2, <3>1 DEF File, Adverse
    <3>2. CASE d # actor[w].content
      BY <1>1, <2>1, <2>2, <3>2 DEF Adverse
    <3> QED
      BY <3>1, <3>2
  <2> QED
    BY <1>2, <1>3, <2>2 DEF CompleteFileScan, Transaction
<1>4. ASSUME NEW w \in Workers, PublishScanned(w) \/ PublishReconciled(w)
      PROVE  file'[d].scan # "clean"
  <2>1. actor[w].content \in Contents
    BY <1>1, <1>4 DEF PublishScanned, PublishReconciled, At, ActorPart, Actors, PCFits
  <2>2. UNCHANGED file \/ (MayAutoPublish(actor[w].content) /\ AutoPublished(actor[w].content))
    BY <1>4 DEF PublishScanned, PublishReconciled, Transaction, Unpublished
  <2> QED
    BY <1>1, <1>2, <2>1, <2>2, AutoPublishedSpares
<1>5. ASSUME NEW m \in Moderators, PublishApproved(m)
      PROVE  file'[d].scan # "clean"
  <2>1. UNCHANGED file \/ file' = [file EXCEPT ![actor[m].content].bucket = "private"]
    BY <1>5 DEF PublishApproved, Transaction, Unpublished
  <2>2. file'[d].scan = file[d].scan
    BY <1>1, <2>1 DEF File
  <2> QED
    BY <2>2 DEF Adverse
<1>6. ASSUME NEW c \in Contents, RescanAdminFile(c)
      PROVE  file'[d].scan # "clean"
  BY <1>1, <1>6 DEF RescanAdminFile, File, Adverse
<1>7. CASE UNCHANGED vars
  BY <1>2, <1>7 DEF vars
<1>8. ASSUME NEW w \in Workers, WorkerStep(w)
      PROVE  file'[d].scan # "clean"
  BY <1>2, <1>3, <1>4, <1>8
     DEF WorkerStep, Claim, Reconcile, LoadFile, ScanFile, MarkFailed,
         PromotionStep, Copy, UndoCopy, PurgeQuarantine
<1>9. CASE (\E m \in Moderators : ModeratorStep(m)) \/ ModeratorRequest
  BY <1>2, <1>5, <1>9
     DEF ModeratorStep, PromotionStep, Copy, UndoCopy, PurgeQuarantine,
         ModeratorRequest, StartApproval, Reject, Hide, Restore, Review
<1>10. CASE OwnerRequest \/ \E c \in Contents : UploadStep(c) \/ UploadCrash(c)
  BY <1>2, <1>10
     DEF OwnerRequest, UploadPut, DeleteOwned, EditDecided, ChangeVisibility,
         UploadStep, UploadCreate, UploadRefused, UploadCrash
<1>11. CASE AdminRequest \/ (\E j \in Jobs : BackoffElapses(j)) \/ \E a \in Actors : Crash(a)
  BY <1>2, <1>6, <1>11 DEF AdminRequest, RetryAdminJob, BackoffElapses, Crash
<1> QED
  BY <1>7, <1>8, <1>9, <1>10, <1>11 DEF Next

\* A file with a verdict against it never becomes clean without a rescan, with
\* every fault: also when an attempt is repeated because its reply was lost.
THEOREM VerdictHolds == Spec => VerdictStands
<1>1. IInv /\ [Next]_vars =>
        [\A c \in Contents : file[c].scan \in {"failed", "suspicious", "infected"} =>
                               file'[c].scan # "clean"]_vars
  BY VerdictStep DEF Adverse
<1> QED
  BY <1>1, Invariance, PTL DEF Spec, VerdictStands

-----------------------------------------------------------------------------
(* As long as no committed statement is reported as failed.                *)

SingleScans ==
  \A c \in Contents : \A i, j \in Jobs : LiveScan(c, i) /\ LiveScan(c, j) => i = j

IndexTracked == \A c \in Contents : announced[c] = Searchable(item[c])

\* A scan job that can still run belongs to a file that has no verdict, and
\* such a file to an item that waits for it or was deleted meanwhile.
ScanPart ==
  /\ \A c \in Contents :
       /\ item[c].status = "absent" =>
            file[c].scan = "pending" /\ \A j \in Jobs : payload[j].content # c
       /\ file[c].scan = "pending" => item[c].status \in {"absent", "pending_scan", "deleted"}
       /\ \A j \in Jobs : LiveScan(c, j) => file[c].scan = "pending"
  /\ SingleScans

\* The job in a worker's hands is still running until it is settled.
RunningPart ==
  \A a \in Actors :
    actor[a].kind = "scan" /\ actor[a].pc # "purge" => rows[actor[a].job].status = "running"

SInv == RepliesArrive => ScanPart /\ RunningPart /\ IndexTracked

\* No scan job becomes live.
NoneRevived ==
  /\ payload' = payload
  /\ \A j \in Jobs : rows'[j].status \in {"pending", "running", "dead"}
                       => rows[j].status \in {"pending", "running", "dead"}

LEMMA ScanQuiet ==
  ASSUME ScanPart, NoneRevived, UNCHANGED <<item, file>>
  PROVE  ScanPart'
  BY DEF ScanPart, NoneRevived, LiveScan, SingleScans

\* One item changes: its status, and possibly its verdict.
LEMMA ScanOneItem ==
  ASSUME ScanPart, NoneRevived, NEW c \in Contents,
         \A d \in Contents \ {c} : item'[d] = item[d] /\ file'[d] = file[d],
         item'[c].status # "absent",
         file'[c].scan = "pending" => item'[c].status \in {"pending_scan", "deleted"},
         \A j \in Jobs : LiveScan(c, j)' => file'[c].scan = "pending"
  PROVE  ScanPart'
<1>1. \A d \in Contents, j \in Jobs : LiveScan(d, j)' => LiveScan(d, j)
  BY DEF NoneRevived, LiveScan
<1>2. SingleScans'
  BY <1>1 DEF ScanPart, SingleScans
<1>3. \A d \in Contents : item'[d].status = "absent" => item[d].status = "absent"
  OBVIOUS
<1> QED
  BY <1>1, <1>2, <1>3 DEF ScanPart, NoneRevived

\* A scan job is inserted for an item that has none.
LEMMA ScanInsert ==
  ASSUME ScanPart, ActorPart, NEW c \in Contents, NEW j \in Jobs, InsertScanJob(j, c),
         \A d \in Contents \ {c} : item'[d] = item[d] /\ file'[d] = file[d],
         item'[c].status = "pending_scan", file'[c].scan = "pending",
         \A i \in Jobs : ~LiveScan(c, i)
  PROVE  ScanPart'
<1>1. /\ \A i \in Jobs \ {j} : rows'[i] = rows[i] /\ payload'[i] = payload[i]
      /\ payload'[j].content = c
  BY DEF InsertScanJob, ActorPart
<1>2. \A d \in Contents, i \in Jobs :
        LiveScan(d, i)' => (LiveScan(d, i) /\ i # j) \/ (i = j /\ d = c)
  BY <1>1 DEF LiveScan
<1>3. SingleScans'
  BY <1>2 DEF ScanPart, SingleScans
<1>4. \A d \in Contents : item'[d].status = "absent" => d # c /\ item[d].status = "absent"
  OBVIOUS
<1> QED
  BY <1>1, <1>2, <1>3, <1>4 DEF ScanPart

LEMMA CommitEndsScan ==
  ASSUME ActorPart, ScanPart, NEW w \in Workers, actor[w].kind = "scan",
         rows[actor[w].job].status = "running", NEW c \in Contents, c = actor[w].content,
         rows' = [rows EXCEPT ![actor[w].job] = MarkedSucceeded(@)], payload' = payload
  PROVE  NoneRevived /\ \A j \in Jobs : ~LiveScan(c, j)'
<1> DEFINE k == actor[w].job
<1>1. k \in Jobs /\ rows[k] \in Row /\ payload[k].content = c
  BY DEF Actors, ActorPart, HoldsItsJob, RowFits
<1>2. /\ \A j \in Jobs \ {k} : rows'[j] = rows[j]
      /\ rows'[k].status = "succeeded"
  BY <1>1, MarkedSucceededFacts DEF ActorPart
<1>3. LiveScan(c, k)
  BY <1>1 DEF LiveScan
<1>4. \A j \in Jobs : LiveScan(c, j) => j = k
  BY <1>1, <1>3 DEF ScanPart, SingleScans
<1>5. NoneRevived
  BY <1>2 DEF NoneRevived
<1>6. ASSUME NEW j \in Jobs, LiveScan(c, j)'
      PROVE  FALSE
  <2>1. j # k
    BY <1>2, <1>6 DEF LiveScan
  <2>2. LiveScan(c, j)
    BY <1>2, <1>6, <2>1 DEF LiveScan
  <2> QED
    BY <1>4, <2>1, <2>2
<1> QED
  BY <1>5, <1>6

\* The file and the item of a worker that settles its job.
LEMMA CompleteScan ==
  ASSUME ActorPart, ItemPart, ScanPart, RunningPart, NEW w \in Workers, CompleteFileScan(w)
  PROVE  ScanPart'
<1>0. PICK c \in Contents : c = actor[w].content
  BY DEF CompleteFileScan, At, ActorPart, Actors, PCFits
<1>1. /\ actor[w].kind = "scan"
      /\ actor[w].verdict \in Adverse /\ rows[actor[w].job].status = "running"
  BY DEF CompleteFileScan, At, ActorPart, Actors, PCFits, ScanPC, RunningPart
<1>2. CASE UNCHANGED <<file, item, rows>>
  BY <1>2, ScanQuiet DEF CompleteFileScan, NoneRevived
<1>3. CASE /\ file' = [file EXCEPT ![c].scan = actor[w].verdict]
           /\ item' = [item EXCEPT ![c].status = "scan_failed"]
           /\ rows' = [rows EXCEPT ![actor[w].job] = MarkedSucceeded(@)]
  <2>1. /\ NoneRevived
        /\ \A j \in Jobs : ~LiveScan(c, j)'
    BY <1>0, <1>1, <1>3, CommitEndsScan DEF CompleteFileScan
  <2>2. /\ \A d \in Contents \ {c} : item'[d] = item[d] /\ file'[d] = file[d]
        /\ item'[c].status = "scan_failed"
        /\ file'[c].scan = actor[w].verdict
    BY <1>0, <1>1, <1>3 DEF ItemPart, Item, File
  <2> QED
    BY <1>0, <1>1, <2>1, <2>2, ScanOneItem DEF Adverse
<1> QED
  BY <1>0, <1>2, <1>3 DEF CompleteFileScan, Transaction

LEMMA AutoPublishedFields ==
  ASSUME ItemPart, NEW c \in Contents, AutoPublished(c)
  PROVE  /\ \A d \in Contents \ {c} : item'[d] = item[d] /\ file'[d] = file[d]
         /\ item'[c].status = "published" /\ file'[c].scan = "clean"
  BY DEF AutoPublished, ItemPart, Item, File

LEMMA PublishScannedScan ==
  ASSUME ActorPart, ItemPart, ScanPart, RunningPart, NEW w \in Workers, PublishScanned(w)
  PROVE  ScanPart'
<1>0. PICK c \in Contents : c = actor[w].content
  BY DEF PublishScanned, At, ActorPart, Actors, PCFits
<1>1. rows[actor[w].job].status = "running"
  BY DEF PublishScanned, At, Actors, RunningPart
<1>2. CASE Unpublished
  BY <1>2, ScanQuiet DEF PublishScanned, Unpublished, NoneRevived
<1>3. CASE /\ AutoPublished(c)
           /\ rows' = [rows EXCEPT ![actor[w].job] = MarkedSucceeded(@)]
  <2>1. /\ NoneRevived
        /\ \A j \in Jobs : ~LiveScan(c, j)'
    BY <1>0, <1>1, <1>3, CommitEndsScan DEF PublishScanned
  <2> QED
    BY <1>0, <1>1, <1>3, <2>1, AutoPublishedFields, ScanOneItem
<1> QED
  BY <1>0, <1>2, <1>3 DEF PublishScanned, Transaction

\* A file that was found clean has no scan job to come.
LEMMA CleanHasNoScan ==
  ASSUME ScanPart, NEW c \in Contents, file[c].scan # "pending"
  PROVE  (\A j \in Jobs : ~LiveScan(c, j)) /\ item[c].status # "absent"
  BY DEF ScanPart

LEMMA PublishReconciledScan ==
  ASSUME ActorPart, ItemPart, ScanPart, NEW w \in Workers, PublishReconciled(w)
  PROVE  ScanPart'
<1>1. PICK c \in Contents : c = actor[w].content
  BY DEF PublishReconciled, At, ActorPart, Actors, PCFits
<1>2. NoneRevived /\ rows' = rows /\ payload' = payload
  BY DEF PublishReconciled, Transaction, Unpublished, NoneRevived
<1>3. CASE UNCHANGED <<item, file>>
  BY <1>2, <1>3, ScanQuiet
<1>4. CASE file[c].scan = "clean" /\ AutoPublished(c)
  <2>1. \A j \in Jobs : ~LiveScan(c, j)'
    BY <1>2, <1>4, CleanHasNoScan DEF LiveScan
  <2> QED
    BY <1>1, <1>2, <1>4, <2>1, AutoPublishedFields, ScanOneItem
<1> QED
  BY <1>1, <1>3, <1>4 DEF PublishReconciled, Transaction, Unpublished

LEMMA PublishApprovedScan ==
  ASSUME ActorPart, ItemPart, ScanPart, NEW m \in Moderators, PublishApproved(m)
  PROVE  ScanPart'
<1>0. PICK c \in Contents : c = actor[m].content
  BY DEF PublishApproved, At, ActorPart, Actors, PCFits
<1>1. rows' = rows /\ payload' = payload
  BY DEF PublishApproved, Transaction, Unpublished
<1>2. NoneRevived
  BY <1>1 DEF NoneRevived
<1>3. CASE UNCHANGED <<item, file>>
  BY <1>2, <1>3, ScanQuiet
<1>4. CASE /\ file[c].scan = "clean"
           /\ item' = [item EXCEPT ![c].status = "published", ![c].published = TRUE]
           /\ file' = [file EXCEPT ![c].bucket = "private"]
  <2>1. \A j \in Jobs : ~LiveScan(c, j)'
    BY <1>1, <1>4, CleanHasNoScan DEF LiveScan
  <2>2. /\ \A d \in Contents \ {c} : item'[d] = item[d] /\ file'[d] = file[d]
        /\ item'[c].status = "published" /\ file'[c].scan = "clean"
    BY <1>1, <1>4 DEF ItemPart, Item, File
  <2> QED
    BY <1>1, <1>2, <2>1, <2>2, ScanOneItem
<1> QED
  BY <1>0, <1>3, <1>4 DEF PublishApproved, Transaction, Unpublished

\* A request that writes one item only.
LEMMA RequestScan ==
  ASSUME ItemPart, ScanPart, UNCHANGED <<file, rows, payload>>, NEW c \in Contents, NEW i,
         item' = [item EXCEPT ![c] = i], i.status # "absent",
         file[c].scan = "pending" => i.status \in {"pending_scan", "deleted"}
  PROVE  ScanPart'
<1>1. NoneRevived
  BY DEF NoneRevived
<1>2. /\ \A d \in Contents \ {c} : item'[d] = item[d] /\ file'[d] = file[d]
      /\ item'[c] = i /\ file'[c] = file[c]
  BY DEF ItemPart
<1>3. \A j \in Jobs : LiveScan(c, j)' => file'[c].scan = "pending"
  BY DEF ScanPart, LiveScan
<1> QED
  BY <1>1, <1>2, <1>3, ScanOneItem

LEMMA ReviewScan ==
  ASSUME ItemPart, ScanPart, NEW c \in Contents, Reject(c) \/ Hide(c) \/ Restore(c)
  PROVE  ScanPart'
<1>1. item[c] \in Item /\ file[c].scan # "pending" /\ UNCHANGED <<file, rows, payload>>
  BY DEF ItemPart, ScanPart, Reject, Hide, Restore, Review
<1>2. PICK s \in Status \ {"absent"}, p \in BOOLEAN, h \in BOOLEAN :
        item' = [item EXCEPT ![c] = [@ EXCEPT !.status = s, !.hidden = h, !.published = p]]
  <2>1. CASE Reject(c)
    BY <2>1 DEF Reject, Review, Status
  <2>2. CASE Hide(c)
    <3>1. [item[c] EXCEPT !.status = "hidden", !.hidden = TRUE]
            = [item[c] EXCEPT !.status = "hidden", !.hidden = TRUE, !.published = item[c].published]
      BY <1>1 DEF Item
    <3> QED
      BY <1>1, <2>2, <3>1 DEF Hide, Review, Status, Item
  <2>3. CASE Restore(c)
    BY <2>3 DEF Restore, Review, Status
  <2> QED
    BY <2>1, <2>2, <2>3
<1> DEFINE i == [item[c] EXCEPT !.status = s, !.hidden = h, !.published = p]
<1>3. i.status = s
  BY <1>1 DEF Item
<1>4. item' = [item EXCEPT ![c] = i]
  BY <1>2
<1> HIDE DEF i
<1> QED
  BY <1>1, <1>3, <1>4, RequestScan

LEMMA OwnerScan ==
  ASSUME ItemPart, ScanPart, NEW c \in Contents, NEW v \in Visibility,
         EditDecided(c, v) \/ ChangeVisibility(c, v) \/ DeleteOwned(c)
  PROVE  ScanPart'
<1>1. item[c] \in Item /\ item[c].status # "absent" /\ UNCHANGED <<file, rows, payload>>
  BY DEF ItemPart, EditDecided, ChangeVisibility, DeleteOwned, Exists
<1>2. CASE EditDecided(c, v)
  <2> DEFINE i == [item[c] EXCEPT !.status = "pending_moderation", !.published = FALSE,
                                  !.hidden = FALSE, !.visibility = v]
  <2>1. i.status = "pending_moderation"
    BY <1>1 DEF Item
  <2>2. item' = [item EXCEPT ![c] = i] /\ file[c].scan = "clean"
    BY <1>2 DEF EditDecided
  <2> HIDE DEF i
  <2> QED
    BY <1>1, <2>1, <2>2, RequestScan
<1>3. CASE ChangeVisibility(c, v)
  <2> DEFINE i == [item[c] EXCEPT !.visibility = v]
  <2>1. i.status = item[c].status
    BY <1>1 DEF Item
  <2>2. item' = [item EXCEPT ![c] = i]
    BY <1>3 DEF ChangeVisibility, ItemPart
  <2>3. file[c].scan = "pending" => i.status \in {"pending_scan", "deleted"}
    BY <1>1, <2>1 DEF ScanPart
  <2> HIDE DEF i
  <2> QED
    BY <1>1, <2>1, <2>2, <2>3, RequestScan
<1>4. CASE DeleteOwned(c)
  <2> DEFINE i == [item[c] EXCEPT !.status = "deleted", !.published = FALSE,
                                  !.hidden = FALSE, !.deleted = TRUE]
  <2>1. i.status = "deleted"
    BY <1>1 DEF Item
  <2>2. item' = [item EXCEPT ![c] = i]
    BY <1>4 DEF DeleteOwned
  <2> HIDE DEF i
  <2> QED
    BY <1>1, <2>1, <2>2, RequestScan
<1> QED
  BY <1>2, <1>3, <1>4

LEMMA UploadCreateScan ==
  ASSUME ActorPart, ItemPart, ScanPart, NEW c \in Contents, UploadCreate(c)
  PROVE  ScanPart'
<1>1. item[c].status = "absent" /\ UNCHANGED file
  BY DEF UploadCreate, CreateUpload
<1>2. PICK j \in Jobs : InsertScanJob(j, c)
  BY DEF UploadCreate, CreateUpload
<1>3. /\ \A d \in Contents \ {c} : item'[d] = item[d]
      /\ item'[c].status = "pending_scan"
  BY DEF ItemPart, Item, UploadCreate, CreateUpload
<1>4. file[c].scan = "pending" /\ \A i \in Jobs : ~LiveScan(c, i)
  BY <1>1 DEF ScanPart, LiveScan
<1> QED
  BY <1>1, <1>2, <1>3, <1>4, ScanInsert

LEMMA RescanScan ==
  ASSUME ActorPart, ItemPart, ScanPart, NEW c \in Contents, RescanAdminFile(c)
  PROVE  ScanPart'
<1>1. PICK j \in Jobs : InsertScanJob(j, c)
  BY DEF RescanAdminFile
<1>2. /\ \A d \in Contents \ {c} : item'[d] = item[d] /\ file'[d] = file[d]
      /\ item'[c].status = "pending_scan" /\ file'[c].scan = "pending"
  BY DEF ItemPart, Item, File, RescanAdminFile
<1>3. \A i \in Jobs : ~LiveScan(c, i)
  BY CleanHasNoScan DEF RescanAdminFile, Rescannable
<1> QED
  BY <1>1, <1>2, <1>3, ScanInsert

LEMMA ScanPartInvariant ==
  ASSUME ActorPart, ItemPart, ScanPart, RunningPart, [Next]_vars
  PROVE  ScanPart'
<1>1. CASE UNCHANGED <<item, file, rows, payload>>
  BY <1>1, ScanQuiet DEF NoneRevived
<1>2. ASSUME NEW w \in Workers, NEW j \in Jobs, Claim(w, j)
      PROVE  ScanPart'
  BY <1>2, ScanQuiet DEF Claim, Oldest, Claimable, NoneRevived, ActorPart
<1>3. ASSUME NEW w \in Workers, MarkFailed(w)
      PROVE  ScanPart'
  <2>1. /\ actor[w].job \in Jobs /\ rows[actor[w].job].status = "running"
    BY <1>3 DEF MarkFailed, At, ActorPart, Actors, PCFits, ScanPC, HoldsItsJob, RunningPart
  <2> QED
    BY <1>1, <1>3, <2>1, ScanQuiet DEF MarkFailed, NoneRevived, ActorPart
<1>4. ASSUME NEW w \in Workers, WorkerStep(w)
      PROVE  ScanPart'
  BY <1>1, <1>2, <1>3, <1>4, CompleteScan, PublishScannedScan, PublishReconciledScan
     DEF WorkerStep, Reconcile, LoadFile, ScanFile, PromotionStep, Copy, UndoCopy, PurgeQuarantine
<1>5. CASE (\E m \in Moderators : ModeratorStep(m)) \/ ModeratorRequest
  BY <1>1, <1>5, PublishApprovedScan, ReviewScan
     DEF ModeratorStep, ModeratorRequest, StartApproval,
         PromotionStep, Copy, UndoCopy, PurgeQuarantine
<1>6. ASSUME NEW c \in Contents, UploadPut(c) \/ UploadRefused(c) \/ UploadCrash(c)
      PROVE  ScanPart'
  BY <1>1, <1>6 DEF UploadPut, UploadRefused, UploadCrash
<1>7. CASE OwnerRequest \/ \E c \in Contents : UploadStep(c)
  BY <1>6, <1>7, OwnerScan, UploadCreateScan DEF OwnerRequest, UploadStep, Visibility
<1>8. ASSUME NEW j \in Jobs, RetryAdminJob(j) \/ BackoffElapses(j)
      PROVE  ScanPart'
  <2>1. NoneRevived
    BY <1>8 DEF RetryAdminJob, Retryable, BackoffElapses, Waiting, NoneRevived, ActorPart, RowFits
  <2> QED
    BY <1>8, <2>1, ScanQuiet DEF RetryAdminJob, BackoffElapses
<1>9. CASE AdminRequest
  BY <1>8, <1>9, RescanScan DEF AdminRequest
<1>10. CASE (\E a \in Actors : Crash(a)) \/ UNCHANGED vars
  BY <1>1, <1>10 DEF Crash, vars
<1> QED
  BY <1>4, <1>5, <1>6, <1>7, <1>8, <1>9, <1>10 DEF Next

\* An actor moves and no row changes.
LEMMA RunningMoved ==
  ASSUME ActorPart, RunningPart, NEW a \in Actors, Moved(a), rows' = rows,
         actor[a].pc # "purge" \/ Rest(a)
  PROVE  RunningPart'
<1>1. actor'[a].kind = "scan" => actor[a].kind = "scan" /\ actor'[a].job = actor[a].job
  BY DEF Moved
<1>2. Rest(a) => actor'[a].kind # "scan"
  BY RestingFacts DEF Rest, ActorPart
<1> QED
  BY <1>1, <1>2 DEF RunningPart, Moved

\* The holder of a job settles it and lets go of it.
LEMMA RunningSettled ==
  ASSUME ActorPart, RunningPart, NEW a \in Actors, actor[a].kind = "scan", NEW row,
         \A b \in Actors \ {a} : actor'[b] = actor[b],
         actor'[a].kind # "scan" \/ actor'[a].pc = "purge",
         rows' = [rows EXCEPT ![actor[a].job] = row]
  PROVE  RunningPart'
<1>1. \A b \in Actors \ {a} : actor[b].kind = "scan" => actor[b].job # actor[a].job
  BY DEF ActorPart, OneActorPerJob
<1> QED
  BY <1>1 DEF RunningPart, ActorPart, HoldsItsJob

\* A row that nobody holds changes.
LEMMA RunningElsewhere ==
  ASSUME ActorPart, RunningPart, NEW j \in Jobs, NEW row, UNCHANGED actor,
         rows' = [rows EXCEPT ![j] = row], rows[j].status \notin {"running", "succeeded"}
  PROVE  RunningPart'
  BY DEF RunningPart, ActorPart, HoldsItsJob

LEMMA RunningPartInvariant ==
  ASSUME RepliesArrive, ActorPart, ItemPart, RunningPart, [Next]_vars
  PROVE  RunningPart'
<1> USE DEF RepliesArrive
<1>1. CASE UNCHANGED <<rows, actor>>
  BY <1>1 DEF RunningPart
<1>2. ASSUME NEW w \in Workers, NEW j \in Jobs, Claim(w, j)
      PROVE  RunningPart'
  <2> DEFINE row == ClaimedBy(rows[j], w)
             x   == Began("load", "scan", payload[j].content, "quarantine", j, row.attempts)
  <2>1. w \in Actors /\ rows[j].status = "pending" /\ rows[j].attempts < MaxAttempts
    BY <1>2 DEF Claim, Oldest, Claimable, Actors, ActorPart, RowFits
  <2>2. row.status = "running"
    BY <2>1, ClaimedByFacts DEF ActorPart
  <2>3. x.job = j
    BY DEF Began
  <2>4. rows' = [rows EXCEPT ![j] = row] /\ actor' = [actor EXCEPT ![w] = x]
    BY <1>2 DEF Claim
  <2>5. \A a \in Actors : actor[a].kind = "scan" => actor[a].job # j
    BY <2>1 DEF ActorPart, HoldsItsJob
  <2> HIDE DEF row, x
  <2> QED
    BY <2>1, <2>2, <2>3, <2>4, <2>5 DEF RunningPart, ActorPart, HoldsItsJob
<1>3. ASSUME NEW w \in Workers, CompleteFileScan(w) \/ MarkFailed(w)
      PROVE  RunningPart'
  <2>1. w \in Actors /\ actor[w].kind = "scan" /\ actor[w].pc # "purge" /\ actor[w].pc # "idle"
    BY <1>3 DEF CompleteFileScan, MarkFailed, At, Actors, ActorPart, PCFits, ScanPC
  <2>2. CASE rows' = rows
    BY <1>3, <2>1, <2>2, RestMoves, FailMoves, RunningMoved
       DEF CompleteFileScan, MarkFailed, Transaction
  <2>3. CASE Rest(w) /\ \/ rows' = [rows EXCEPT ![actor[w].job] = MarkedSucceeded(@)]
                        \/ rows' = [rows EXCEPT ![actor[w].job] = MarkedFailed(@, actor[w].attempt)]
    <3>1. /\ \A b \in Actors \ {w} : actor'[b] = actor[b]
          /\ actor'[w].kind # "scan"
      BY <2>1, <2>3, RestingFacts DEF Rest, ActorPart
    <3> QED
      BY <2>1, <2>3, <3>1, RunningSettled
  <2> QED
    BY <1>3, <2>2, <2>3 DEF CompleteFileScan, MarkFailed, Transaction
<1>4. ASSUME NEW a \in Actors,
             PublishScanned(a) \/ PublishReconciled(a) \/ PublishApproved(a)
      PROVE  RunningPart'
  <2>1. actor[a].pc # "purge" /\ actor[a].pc # "idle"
    BY <1>4 DEF PublishScanned, PublishReconciled, PublishApproved, At
  <2>2. CASE rows' = rows
    BY <1>4, <2>1, <2>2, PurgeMoves, UndoMoves, RunningMoved
       DEF PublishScanned, PublishReconciled, PublishApproved, Transaction
  <2>3. CASE /\ actor[a].kind = "scan" /\ Purge(a)
             /\ rows' = [rows EXCEPT ![actor[a].job] = MarkedSucceeded(@)]
    <3>1. /\ \A b \in Actors \ {a} : actor'[b] = actor[b]
          /\ actor'[a].kind # "scan" \/ actor'[a].pc = "purge"
      BY <2>3, RestingFacts DEF Purge, Goto, Rest, ActorPart, Actor
    <3> QED
      BY <2>3, <3>1, RunningSettled
  <2> QED
    BY <1>4, <2>2, <2>3
       DEF PublishScanned, PublishReconciled, PublishApproved, Transaction, Unpublished
<1>5. ASSUME NEW a \in Actors, OnlyMoves(a)
      PROVE  RunningPart'
  <2>1. actor[a].pc # "purge" \/ Rest(a)
    BY <1>5 DEF OnlyMoves, PromotionStep, Copy, UndoCopy, PurgeQuarantine, LoadFile, ScanFile,
                Reconcile, StartApproval, Crash, At
  <2> QED
    BY <1>5, <2>1, OnlyMovesMoves, RunningMoved
<1>6. ASSUME NEW j \in Jobs, NEW c \in Contents, InsertScanJob(j, c), UNCHANGED actor
      PROVE  RunningPart'
  BY <1>6, RunningElsewhere DEF InsertScanJob, NextJob
<1>7. ASSUME NEW j \in Jobs, RetryAdminJob(j) \/ BackoffElapses(j)
      PROVE  RunningPart'
  BY <1>7, RunningElsewhere DEF RetryAdminJob, Retryable, BackoffElapses, Waiting
<1>8. CASE \/ \E w \in Workers : WorkerStep(w)
           \/ \E m \in Moderators : ModeratorStep(m)
           \/ \E a \in Actors : Crash(a)
  BY <1>2, <1>3, <1>4, <1>5, <1>8 DEF WorkerStep, ModeratorStep, OnlyMoves, Actors
<1>9. CASE ModeratorRequest
  BY <1>1, <1>5, <1>9 DEF ModeratorRequest, OnlyMoves, Actors, Reject, Hide, Restore, Review
<1>10. CASE OwnerRequest \/ \E c \in Contents : UploadStep(c) \/ UploadCrash(c)
  BY <1>1, <1>6, <1>10
     DEF OwnerRequest, UploadPut, DeleteOwned, EditDecided, ChangeVisibility,
         UploadStep, UploadCreate, CreateUpload, UploadRefused, UploadCrash
<1>11. CASE AdminRequest \/ \E j \in Jobs : BackoffElapses(j)
  BY <1>6, <1>7, <1>11 DEF AdminRequest, RescanAdminFile
<1> QED
  BY <1>1, <1>8, <1>9, <1>10, <1>11 DEF Next, vars

\* One item changes and the index is told.
LEMMA ToldByAnnounce ==
  ASSUME ItemPart, IndexTracked, NEW c \in Contents, Announce(c),
         \A d \in Contents \ {c} : item'[d] = item[d]
  PROVE  IndexTracked'
<1>1. \A d \in Contents : announced'[d] = IF d = c THEN Searchable(item'[c]) ELSE announced[d]
  BY DEF Announce, ItemPart
<1>2. \A d \in Contents \ {c} : Searchable(item'[d]) = Searchable(item[d])
  OBVIOUS
<1>3. \A d \in Contents : announced'[d] = Searchable(item'[d])
  BY <1>1, <1>2 DEF IndexTracked
<1> QED
  BY <1>3 DEF IndexTracked, Searchable

\* One item changes that was not searchable and is not now.
LEMMA ToldByNobody ==
  ASSUME ItemPart, IndexTracked, NEW c \in Contents, announced' = announced,
         \A d \in Contents \ {c} : item'[d] = item[d],
         ~Searchable(item[c]), ~Searchable(item'[c])
  PROVE  IndexTracked'
<1>1. \A d \in Contents \ {c} : Searchable(item'[d]) = Searchable(item[d])
  OBVIOUS
<1>2. Searchable(item'[c]) = Searchable(item[c])
  BY DEF Searchable
<1>3. \A d \in Contents : announced'[d] = Searchable(item'[d])
  BY <1>1, <1>2 DEF IndexTracked
<1> QED
  BY <1>3 DEF IndexTracked, Searchable

LEMMA ToldByReindex ==
  ASSUME ItemPart, IndexTracked, NEW c \in Contents, Reindex(c),
         \A d \in Contents \ {c} : item'[d] = item[d]
  PROVE  IndexTracked'
<1>1. CASE Announce(c)
  BY <1>1, ToldByAnnounce
<1>2. CASE announced' = announced /\ ~InSearch(item[c]) /\ ~InSearch(item'[c])
  BY <1>2, ToldByNobody DEF InSearch, Searchable
<1> QED
  BY <1>1, <1>2 DEF Reindex

LEMMA IndexInvariant ==
  ASSUME ActorPart, ItemPart, ScanPart, RunningPart, IndexTracked, [Next]_vars
  PROVE  IndexTracked'
<1>1. CASE UNCHANGED <<item, announced>>
  BY <1>1 DEF IndexTracked, Searchable
<1>2. ASSUME NEW w \in Workers, CompleteFileScan(w)
      PROVE  IndexTracked'
  <2>1. PICK c \in Contents : c = actor[w].content
    BY <1>2 DEF CompleteFileScan, At, ActorPart, Actors, PCFits
  <2>2. /\ actor[w].job \in Jobs /\ rows[actor[w].job].status = "running"
        /\ payload[actor[w].job].content = c
    BY <1>2, <2>1 DEF CompleteFileScan, At, ActorPart, Actors, PCFits, ScanPC, HoldsItsJob,
                      RunningPart
  <2>3. ~Searchable(item[c])
    BY <2>2 DEF ScanPart, LiveScan, Searchable
  <2>4. CASE item' = [item EXCEPT ![c].status = "scan_failed"]
    <3>1. /\ \A d \in Contents \ {c} : item'[d] = item[d]
          /\ item'[c].status = "scan_failed"
      BY <2>4 DEF ItemPart, Item
    <3>2. ~Searchable(item'[c]) /\ announced' = announced
      BY <1>2, <3>1 DEF CompleteFileScan, Searchable
    <3> QED
      BY <2>3, <3>1, <3>2, ToldByNobody
  <2> QED
    BY <1>1, <1>2, <2>1, <2>4 DEF CompleteFileScan, Transaction
<1>3. ASSUME NEW a \in Actors,
             PublishScanned(a) \/ PublishReconciled(a) \/ PublishApproved(a)
      PROVE  IndexTracked'
  <2>1. PICK c \in Contents : c = actor[a].content
    BY <1>3 DEF PublishScanned, PublishReconciled, PublishApproved, At, ActorPart, PCFits
  <2>2. CASE AutoPublished(c)
    BY <2>2, AutoPublishedFields, ToldByAnnounce DEF AutoPublished
  <2>3. CASE /\ item' = [item EXCEPT ![c].status = "published", ![c].published = TRUE]
             /\ Announce(c)
    <3>1. \A d \in Contents \ {c} : item'[d] = item[d]
      BY <2>3 DEF ItemPart
    <3> QED
      BY <2>3, <3>1, ToldByAnnounce
  <2> QED
    BY <1>1, <1>3, <2>1, <2>2, <2>3
       DEF PublishScanned, PublishReconciled, PublishApproved, Transaction, Unpublished
<1>4. ASSUME NEW c \in Contents, Reject(c) \/ Hide(c) \/ Restore(c)
      PROVE  IndexTracked'
  <2>1. Announce(c) /\ \A d \in Contents \ {c} : item'[d] = item[d]
    BY <1>4 DEF Reject, Hide, Restore, Review, ItemPart
  <2> QED
    BY <2>1, ToldByAnnounce
<1>5. ASSUME NEW c \in Contents, NEW v \in Visibility,
             EditDecided(c, v) \/ ChangeVisibility(c, v) \/ DeleteOwned(c)
      PROVE  IndexTracked'
  <2>1. Reindex(c) /\ \A d \in Contents \ {c} : item'[d] = item[d]
    BY <1>5 DEF EditDecided, ChangeVisibility, DeleteOwned, ItemPart
  <2> QED
    BY <2>1, ToldByReindex
<1>6. ASSUME NEW c \in Contents, UploadCreate(c)
      PROVE  IndexTracked'
  <2>1. /\ \A d \in Contents \ {c} : item'[d] = item[d]
        /\ item[c].status = "absent" /\ item'[c].status = "pending_scan"
        /\ announced' = announced
    BY <1>6 DEF UploadCreate, CreateUpload, ItemPart, Item
  <2> QED
    BY <2>1, ToldByNobody DEF Searchable
<1>7. ASSUME NEW c \in Contents, RescanAdminFile(c)
      PROVE  IndexTracked'
  <2>1. /\ \A d \in Contents \ {c} : item'[d] = item[d]
        /\ item'[c].status = "pending_scan"
        /\ announced' = announced
    BY <1>7 DEF RescanAdminFile, ItemPart, Item
  <2>2. item[c].status # "published"
    BY <1>7 DEF RescanAdminFile, Rescannable, ItemPart, Fits, Adverse
  <2> QED
    BY <2>1, <2>2, ToldByNobody DEF Searchable
<1>8. CASE (\E w \in Workers : WorkerStep(w)) \/ \E m \in Moderators : ModeratorStep(m)
  BY <1>1, <1>2, <1>3, <1>8
     DEF WorkerStep, ModeratorStep, Actors, Claim, Reconcile, LoadFile, ScanFile, MarkFailed,
         PromotionStep, Copy, UndoCopy, PurgeQuarantine
<1>9. CASE ModeratorRequest
  BY <1>1, <1>4, <1>9 DEF ModeratorRequest, StartApproval
<1>10. CASE OwnerRequest \/ \E c \in Contents : UploadStep(c) \/ UploadCrash(c)
  BY <1>1, <1>5, <1>6, <1>10
     DEF OwnerRequest, Visibility, UploadPut, UploadStep, UploadRefused, UploadCrash
<1>11. CASE AdminRequest \/ (\E j \in Jobs : BackoffElapses(j)) \/ \E a \in Actors : Crash(a)
  BY <1>1, <1>7, <1>11 DEF AdminRequest, RetryAdminJob, BackoffElapses, Crash
<1> QED
  BY <1>1, <1>8, <1>9, <1>10, <1>11 DEF Next, vars

LEMMA InitSInv ==
  ASSUME Init
  PROVE  SInv
<1>1. ScanPart
  <2>1. \A c \in Contents, j \in Jobs : payload[j].content # c /\ ~LiveScan(c, j)
    BY ContentsAssumption DEF Init, LiveScan
  <2> QED
    BY <2>1 DEF Init, ScanPart, SingleScans
<1>2. RunningPart
  BY RestingFacts DEF Init, RunningPart
<1>3. IndexTracked
  BY DEF Init, IndexTracked, Searchable
<1> QED
  BY <1>1, <1>2, <1>3 DEF SInv

LEMMA InvarianceWithReplies == Spec => []SInv
<1>1. Init => SInv
  BY InitSInv
<1>2. ASSUME IInv, SInv, [Next]_vars, RepliesArrive'
      PROVE  (ScanPart /\ RunningPart /\ IndexTracked)'
  <2>1. RepliesArrive
    BY <1>2, FaultsAreRigid DEF RepliesArrive
  <2> QED
    BY <1>2, <2>1, ScanPartInvariant, RunningPartInvariant, IndexInvariant DEF IInv, SInv
<1>3. IInv /\ SInv /\ [Next]_vars => SInv'
  BY <1>2 DEF SInv
<1> QED
  BY <1>1, <1>3, Invariance, PTL DEF Spec

\* Two workers never judge or promote the same file at the same time, as long
\* as no committed statement is reported as failed.
THEOREM ScansAreSingle == Spec => []OneLiveScan
<1>1. SInv => OneLiveScan
  BY DEF SInv, ScanPart, SingleScans, OneLiveScan
<1> QED
  BY <1>1, InvarianceWithReplies, PTL

\* The search index is told of every item that enters or leaves the searchable
\* rows, as long as no committed statement is reported as failed.  (A lost
\* reply lets a scan verdict meet a published item: CompleteFileScan changes
\* its status and queues no search job.)
THEOREM IndexTold == Spec => []IndexIsTold
<1>1. SInv => IndexIsTold
  BY DEF SInv, IndexTracked, IndexIsTold
<1> QED
  BY <1>1, InvarianceWithReplies, PTL

-----------------------------------------------------------------------------
(* The object behind a published item, as long as no committed statement   *)
(* is reported as failed and no item is left over from an earlier release. *)

\* Who carries a package on its way has taken it from where its row says; only
\* the scan job takes it from quarantine, so nobody else copies or undoes; and
\* who is about to publish has the private object.
CarriesFits(a) ==
  actor[a].pc \in {"scan", "copy", "publish", "undo"} =>
    /\ file[actor[a].content].bucket = actor[a].from
    /\ actor[a].pc \in {"copy", "undo"} => actor[a].from = "quarantine"
    /\ actor[a].from = "quarantine" => actor[a].kind = "scan"
    /\ actor[a].pc = "publish" => <<"private", actor[a].content>> \in store

StorePart ==
  /\ \A c \in Contents : file[c].scan = "clean" => file[c].bucket = "private"
  /\ \A c \in Contents : file[c].bucket = "private" => <<"private", c>> \in store
  /\ \A a \in Actors : CarriesFits(a)

\* One scan at a time: one carrier of what is in quarantine.
LEMMA OneCarrier ==
  ASSUME ActorPart, ScanPart, RunningPart, StorePart, NEW a \in Actors, NEW b \in Actors,
         actor[a].pc \in {"scan", "copy", "publish", "undo"}, actor[a].from = "quarantine",
         actor[b].pc \in {"scan", "copy", "publish", "undo"},
         actor[a].content = actor[b].content
  PROVE  a = b
<1>1. actor[b].from = "quarantine"
  BY DEF StorePart, CarriesFits
<1>2. actor[a].kind = "scan" /\ actor[b].kind = "scan"
  BY <1>1 DEF StorePart, CarriesFits
<1>3. actor[a].content \in Contents
  BY DEF ActorPart, PCFits
<1>4. LiveScan(actor[a].content, actor[a].job) /\ LiveScan(actor[a].content, actor[b].job)
  BY <1>2 DEF ActorPart, HoldsItsJob, RunningPart, LiveScan
<1>5. actor[a].job = actor[b].job
  BY <1>2, <1>3, <1>4 DEF ScanPart, SingleScans, ActorPart, HoldsItsJob
<1>6. QED
  BY <1>2, <1>5 DEF ActorPart, OneActorPerJob

LEMMA GotoFields ==
  ASSUME ActorPart, NEW a \in Actors, NEW pc, Goto(a, pc)
  PROVE  /\ \A b \in Actors \ {a} : actor'[b] = actor[b]
         /\ actor'[a].pc = pc /\ actor'[a].from = actor[a].from
         /\ actor'[a].content = actor[a].content /\ actor'[a].kind = actor[a].kind
  BY DEF ActorPart, Goto, Actor

\* Actor a does not carry anything (any more).
Free(a) ==
  /\ \A b \in Actors \ {a} : actor'[b] = actor[b]
  /\ actor'[a].pc \notin {"scan", "copy", "publish", "undo"}

LEMMA FailIsFree ==
  ASSUME ActorPart, NEW a \in Actors, Fail(a) \/ Rest(a) \/ Goto(a, "purge")
  PROVE  Free(a)
  BY GotoFields, RestingFacts DEF Fail, Rest, Free, ActorPart

LEMMA PurgeIsFree ==
  ASSUME ActorPart, NEW a \in Actors, Purge(a)
  PROVE  Free(a)
  BY FailIsFree DEF Purge

\* Actor a moves, buckets stay, and no private object is removed.
LEMMA MoveKeepsStore ==
  ASSUME StorePart, NEW a \in Actors,
         \A b \in Actors \ {a} : actor'[b] = actor[b], CarriesFits(a)',
         \A c \in Contents : /\ file'[c].bucket = file[c].bucket
                             /\ file'[c].scan = "clean" => file'[c].bucket = "private"
                             /\ <<"private", c>> \in store => <<"private", c>> \in store',
         ActorPart
  PROVE  StorePart'
<1>1. ASSUME NEW b \in Actors \ {a} PROVE CarriesFits(b)'
  <2>1. CASE actor[b].pc = "idle"
    BY <2>1 DEF CarriesFits
  <2>2. CASE actor[b].pc # "idle"
    <3>1. actor[b].content \in Contents
      BY <2>2 DEF ActorPart, PCFits
    <3>2. QED
      BY <3>1 DEF StorePart, CarriesFits
  <2>3. QED
    BY <2>1, <2>2
<1>2. QED
  BY <1>1 DEF StorePart

LEMMA FreeKeepsStore ==
  ASSUME ActorPart, StorePart, NEW a \in Actors, Free(a),
         \A c \in Contents : /\ file'[c].bucket = file[c].bucket
                             /\ file'[c].scan = "clean" => file'[c].bucket = "private"
                             /\ <<"private", c>> \in store => <<"private", c>> \in store'
  PROVE  StorePart'
<1>1. CarriesFits(a)'
  BY DEF Free, CarriesFits
<1>2. QED
  BY <1>1, MoveKeepsStore DEF Free

\* Nobody moves.
LEMMA RestKeepsStore ==
  ASSUME ActorPart, StorePart, actor' = actor,
         \A c \in Contents : /\ file'[c].bucket = file[c].bucket
                             /\ file'[c].scan = "clean" => file'[c].bucket = "private"
                             /\ <<"private", c>> \in store => <<"private", c>> \in store'
  PROVE  StorePart'
<1>1. ASSUME NEW a \in Actors PROVE CarriesFits(a)'
  <2>1. actor[a].pc # "idle" => actor[a].content \in Contents
    BY DEF ActorPart, PCFits
  <2>2. QED
    BY <2>1 DEF StorePart, CarriesFits
<1>2. QED
  BY <1>1 DEF StorePart

\* The reconcile pass and an approval take a package from the private bucket.
LEMMA StartKeepsStore ==
  ASSUME ActorPart, StorePart, NEW a \in Actors, NEW c \in Contents,
         NEW kind \in {"reconcile", "approve"}, file[c].scan = "clean",
         actor' = [actor EXCEPT ![a] =
                     Began(Promote(file[c].bucket), kind, c, file[c].bucket, NoJob, 0)],
         UNCHANGED <<file, store>>
  PROVE  StorePart'
<1>1. file[c].bucket = "private" /\ <<"private", c>> \in store
  BY DEF StorePart
<1>2. actor'[a] = Began("publish", kind, c, "private", NoJob, 0)
  BY <1>1 DEF Promote, ActorPart
<1>3. \A b \in Actors \ {a} : actor'[b] = actor[b]
  BY DEF ActorPart
<1>4. CarriesFits(a)'
  BY <1>1, <1>2 DEF CarriesFits, Began
<1>5. QED
  BY <1>3, <1>4, MoveKeepsStore DEF StorePart

LEMMA LoadKeepsStore ==
  ASSUME ActorPart, ItemPart, StorePart, NEW w \in Actors, LoadFile(w) \/ ScanFile(w)
  PROVE  StorePart'
<1>1. actor[w].content \in Contents /\ actor[w].kind = "scan" /\ UNCHANGED <<file, store>>
  BY DEF LoadFile, ScanFile, At, ActorPart, PCFits, ScanPC
<1>2. CASE actor' = [actor EXCEPT ![w].pc = "scan", ![w].from = file[actor[w].content].bucket]
  <2>1. /\ actor'[w].from = file[actor[w].content].bucket /\ actor'[w].pc = "scan"
        /\ actor'[w].content = actor[w].content /\ actor'[w].kind = "scan"
        /\ \A b \in Actors \ {w} : actor'[b] = actor[b]
    BY <1>1, <1>2 DEF ActorPart, Actor
  <2>2. QED
    BY <1>1, <2>1, MoveKeepsStore DEF StorePart, CarriesFits
<1>3. CASE \E v \in ScanStatus : actor' = [actor EXCEPT ![w].pc = "complete", ![w].verdict = v]
  <2>1. Free(w)
    BY <1>3 DEF Free, ActorPart, Actor
  <2>2. QED
    BY <1>1, <2>1, FreeKeepsStore DEF StorePart
<1>4. CASE Fail(w)
  BY <1>1, <1>4, FailIsFree, FreeKeepsStore DEF StorePart
<1>5. CASE At(w, "scan") /\ Goto(w, Promote(actor[w].from))
  <2>1. /\ file[actor[w].content].bucket = actor[w].from
        /\ actor[w].from = "private" => <<"private", actor[w].content>> \in store
    BY <1>1, <1>5 DEF At, StorePart, CarriesFits
  <2>2. actor[w].from \in Bucket
    BY DEF ActorPart, Actor
  <2>3. /\ actor'[w].pc = Promote(actor[w].from) /\ actor'[w].from = actor[w].from
        /\ actor'[w].content = actor[w].content /\ actor'[w].kind = actor[w].kind
        /\ \A b \in Actors \ {w} : actor'[b] = actor[b]
    BY <1>5, GotoFields
  <2>4. CarriesFits(w)'
    BY <1>1, <2>1, <2>2, <2>3 DEF CarriesFits, Promote, Bucket
  <2>5. QED
    BY <1>1, <2>3, <2>4, MoveKeepsStore DEF StorePart
<1>6. QED
  BY <1>2, <1>3, <1>4, <1>5 DEF LoadFile, ScanFile, ScanStatus

LEMMA CopyKeepsStore ==
  ASSUME RepliesArrive, ActorPart, StorePart, NEW a \in Actors, Copy(a)
  PROVE  StorePart'
<1>1. /\ actor[a].content \in Contents /\ file' = file
      /\ file[actor[a].content].bucket = actor[a].from
      /\ actor[a].from = "quarantine" /\ actor[a].kind = "scan"
  BY DEF Copy, At, ActorPart, PCFits, StorePart, CarriesFits
<1>2. CASE Fail(a) /\ store' = store
  BY <1>1, <1>2, FailIsFree, FreeKeepsStore DEF StorePart
<1>3. CASE Goto(a, "publish") /\ store' = store \cup {<<"private", actor[a].content>>}
  <2>1. CarriesFits(a)'
    BY <1>1, <1>3, GotoFields DEF CarriesFits
  <2>2. QED
    BY <1>1, <1>3, <2>1, GotoFields, MoveKeepsStore DEF StorePart
<1>4. QED
  BY <1>2, <1>3 DEF Copy, RepliesArrive

\* What is undone is the copy of the only scan of a package in quarantine.
LEMMA UndoKeepsStore ==
  ASSUME ActorPart, ScanPart, RunningPart, StorePart, NEW a \in Actors, UndoCopy(a)
  PROVE  StorePart'
<1>1. PICK c \in Contents : c = actor[a].content
  BY DEF UndoCopy, At, ActorPart, PCFits
<1>2. /\ actor[a].pc = "undo" /\ actor[a].from = "quarantine"
      /\ file[c].bucket = "quarantine" /\ file' = file
      /\ \A d \in Contents \ {c} : <<"private", d>> \in store => <<"private", d>> \in store'
  BY <1>1 DEF UndoCopy, At, StorePart, CarriesFits
<1>3. Free(a)
  BY FailIsFree DEF UndoCopy
<1>4. ASSUME NEW b \in Actors PROVE CarriesFits(b)'
  <2>1. CASE b = a
    BY <1>3, <2>1 DEF Free, CarriesFits
  <2>2. CASE b # a /\ actor[b].pc \in {"scan", "copy", "publish", "undo"}
    <3>1. actor'[b] = actor[b] /\ actor[b].content \in Contents \ {c}
      BY <1>1, <1>2, <1>3, <2>2, OneCarrier DEF Free, ActorPart, PCFits
    <3>2. QED
      BY <1>2, <3>1 DEF StorePart, CarriesFits
  <2>3. CASE b # a /\ actor[b].pc \notin {"scan", "copy", "publish", "undo"}
    BY <1>3, <2>3 DEF Free, CarriesFits
  <2>4. QED
    BY <2>1, <2>2, <2>3
<1>5. \A d \in Contents : file[d].bucket = "private" => d # c
  BY <1>2
<1>6. QED
  BY <1>2, <1>4, <1>5 DEF StorePart

\* The package of an item is published from where its row says: the private
\* object is there, and who took it from quarantine is the only one who did.
LEMMA PublicationKeepsStore ==
  ASSUME ActorPart, ItemPart, ScanPart, RunningPart, StorePart,
         NEW a \in Actors, actor[a].pc = "publish", Free(a), store' = store,
         NEW f \in File, f.bucket = "private", file' = [file EXCEPT ![actor[a].content] = f]
  PROVE  StorePart'
<1>1. PICK c \in Contents : c = actor[a].content
  BY DEF ActorPart, PCFits
<1>2. <<"private", c>> \in store /\ file[c].bucket = actor[a].from
  BY <1>1 DEF StorePart, CarriesFits
<1>3. file'[c] = f /\ \A d \in Contents \ {c} : file'[d] = file[d]
  BY <1>1 DEF ItemPart
<1>4. ASSUME NEW b \in Actors PROVE CarriesFits(b)'
  <2>1. CASE b = a
    BY <2>1 DEF Free, CarriesFits
  <2>2. CASE b # a /\ actor[b].pc \in {"scan", "copy", "publish", "undo"}
    <3>1. actor'[b] = actor[b] /\ actor[b].content \in Contents
      BY <2>2 DEF Free, ActorPart, PCFits
    <3>2. CASE actor[b].content # c
      BY <1>3, <3>1, <3>2 DEF StorePart, CarriesFits
    <3>3. CASE actor[b].content = c
      <4>1. actor[a].from # "quarantine"
        BY <1>1, <2>2, <3>3, OneCarrier
      <4>2. actor[b].from = "private"
        BY <1>1, <1>2, <2>2, <3>3, <4>1 DEF StorePart, CarriesFits, ActorPart, Actor, Bucket
      <4>3. actor[b].pc \notin {"copy", "undo"}
        BY <2>2, <4>2 DEF StorePart, CarriesFits
      <4>4. QED
        BY <1>2, <1>3, <3>1, <3>3, <4>2, <4>3 DEF CarriesFits
    <3>4. QED
      BY <3>2, <3>3
  <2>3. CASE b # a /\ actor[b].pc \notin {"scan", "copy", "publish", "undo"}
    BY <2>3 DEF Free, CarriesFits
  <2>4. QED
    BY <2>1, <2>2, <2>3
<1>5. QED
  BY <1>2, <1>3, <1>4 DEF StorePart

LEMMA PublishKeepsStore ==
  ASSUME RepliesArrive, ActorPart, ItemPart, ScanPart, RunningPart, StorePart, NEW a \in Actors,
         PublishScanned(a) \/ PublishReconciled(a) \/ PublishApproved(a)
  PROVE  StorePart'
<1>1. PICK c \in Contents : c = actor[a].content
  BY DEF PublishScanned, PublishReconciled, PublishApproved, At, ActorPart, PCFits
<1>2. actor[a].pc = "publish" /\ store' = store /\ file[c] \in File
  BY <1>1 DEF PublishScanned, PublishReconciled, PublishApproved, At, ItemPart
<1>3. CASE Purge(a) /\ file' = [file EXCEPT ![c].scan = "clean", ![c].bucket = "private"]
  <2> DEFINE f == [file[c] EXCEPT !.scan = "clean", !.bucket = "private"]
  <2>1. f \in File /\ f.bucket = "private"
    BY <1>2 DEF File, ScanStatus, Bucket
  <2>2. file' = [file EXCEPT ![c] = f]
    BY <1>3
  <2> HIDE DEF f
  <2>3. QED
    BY <1>1, <1>2, <1>3, <2>1, <2>2, PurgeIsFree, PublicationKeepsStore
<1>4. CASE Purge(a) /\ file' = [file EXCEPT ![c].bucket = "private"]
  <2> DEFINE f == [file[c] EXCEPT !.bucket = "private"]
  <2>1. f \in File /\ f.bucket = "private"
    BY <1>2 DEF File, Bucket
  <2>2. file' = [file EXCEPT ![c] = f]
    BY <1>4
  <2> HIDE DEF f
  <2>3. QED
    BY <1>1, <1>2, <1>4, <2>1, <2>2, PurgeIsFree, PublicationKeepsStore
<1>5. CASE file' = file /\ Undo(a)
  <2>1. CASE Goto(a, "undo") /\ actor[a].from = "quarantine"
    <3>1. CarriesFits(a)'
      BY <1>1, <1>2, <1>5, <2>1, GotoFields DEF StorePart, CarriesFits
    <3>2. QED
      BY <1>2, <1>5, <2>1, <3>1, GotoFields, MoveKeepsStore DEF StorePart
  <2>2. CASE Fail(a)
    BY <1>2, <1>5, <2>2, FailIsFree, FreeKeepsStore DEF StorePart
  <2>3. QED
    BY <1>5, <2>1, <2>2 DEF Undo
<1>6. QED
  BY <1>1, <1>3, <1>4, <1>5
     DEF PublishScanned, PublishReconciled, PublishApproved, Transaction, AutoPublished,
         Unpublished, RepliesArrive

\* A verdict against a file leaves its bucket alone.
LEMMA VerdictKeepsStore ==
  ASSUME RepliesArrive, ActorPart, ItemPart, StorePart, NEW w \in Actors, CompleteFileScan(w)
  PROVE  StorePart'
<1>1. actor[w].content \in Contents /\ actor[w].verdict \in Adverse /\ store' = store
  BY DEF CompleteFileScan, At, ActorPart, PCFits
<1>2. Free(w)
  BY FailIsFree DEF CompleteFileScan, Transaction, RepliesArrive
<1>3. file' = file \/ file' = [file EXCEPT ![actor[w].content].scan = actor[w].verdict]
  BY DEF CompleteFileScan, Transaction
<1>4. \A c \in Contents : /\ file'[c].bucket = file[c].bucket
                          /\ file'[c].scan = "clean" => file[c].scan = "clean"
  BY <1>1, <1>3 DEF ItemPart, File, Adverse
<1>5. QED
  BY <1>1, <1>2, <1>4, FreeKeepsStore DEF StorePart

LEMMA WorkerKeepsStore ==
  ASSUME RepliesArrive, ActorPart, ItemPart, ScanPart, RunningPart, StorePart,
         NEW w \in Workers, WorkerStep(w)
  PROVE  StorePart'
<1>1. w \in Actors
  BY DEF Actors
<1>2. ASSUME NEW j \in Jobs, Claim(w, j) PROVE StorePart'
  <2>1. Free(w) /\ UNCHANGED <<file, store>>
    BY <1>1, <1>2 DEF Claim, Free, Began, ActorPart
  <2>2. QED
    BY <1>1, <2>1, FreeKeepsStore DEF StorePart
<1>3. ASSUME NEW c \in Contents, Reconcile(w, c) PROVE StorePart'
  BY <1>1, <1>3, StartKeepsStore DEF Reconcile
<1>4. CASE MarkFailed(w) \/ PurgeQuarantine(w)
  <2>1. /\ Free(w) /\ file' = file
        /\ \A c \in Contents : <<"private", c>> \in store => <<"private", c>> \in store'
    BY <1>1, <1>4, FailIsFree DEF MarkFailed, PurgeQuarantine
  <2>2. QED
    BY <1>1, <2>1, FreeKeepsStore DEF StorePart
<1>5. QED
  BY <1>1, <1>2, <1>3, <1>4, LoadKeepsStore, VerdictKeepsStore, PublishKeepsStore, CopyKeepsStore,
     UndoKeepsStore DEF WorkerStep, PromotionStep

LEMMA ModeratorKeepsStore ==
  ASSUME RepliesArrive, ActorPart, ItemPart, ScanPart, RunningPart, StorePart,
         (\E m \in Moderators : ModeratorStep(m)) \/ ModeratorRequest
  PROVE  StorePart'
<1>1. ASSUME NEW m \in Moderators, ModeratorStep(m) PROVE StorePart'
  <2>1. m \in Actors
    BY DEF Actors
  <2>2. CASE PurgeQuarantine(m)
    <3>1. /\ Free(m) /\ file' = file
          /\ \A c \in Contents : <<"private", c>> \in store => <<"private", c>> \in store'
      BY <2>1, <2>2, FailIsFree DEF PurgeQuarantine
    <3>2. QED
      BY <2>1, <3>1, FreeKeepsStore DEF StorePart
  <2>3. QED
    BY <1>1, <2>1, <2>2, PublishKeepsStore, CopyKeepsStore, UndoKeepsStore
       DEF ModeratorStep, PromotionStep
<1>2. ASSUME NEW m \in Moderators, NEW c \in Contents, StartApproval(m, c) PROVE StorePart'
  BY <1>2, StartKeepsStore DEF StartApproval, Actors
<1>3. ASSUME NEW c \in Contents, Reject(c) \/ Hide(c) \/ Restore(c) PROVE StorePart'
  BY <1>3, RestKeepsStore DEF Reject, Hide, Restore, Review, StorePart
<1>4. QED
  BY <1>1, <1>2, <1>3 DEF ModeratorRequest

LEMMA StorePartInvariant ==
  ASSUME RepliesArrive, ActorPart, ItemPart, ScanPart, RunningPart, StorePart, [Next]_vars
  PROVE  StorePart'
<1>1. ASSUME NEW c \in Contents,
             \/ UploadPut(c) \/ UploadStep(c) \/ UploadCrash(c) \/ RescanAdminFile(c) \/ DeleteOwned(c)
             \/ \E v \in Visibility : EditDecided(c, v) \/ ChangeVisibility(c, v)
      PROVE  StorePart'
  <2>1. /\ actor' = actor
        /\ file' = file \/ file' = [file EXCEPT ![c].scan = "pending"]
        /\ \A d \in Contents : <<"private", d>> \in store => <<"private", d>> \in store'
    BY <1>1 DEF UploadPut, UploadStep, UploadCreate, UploadRefused, UploadCrash, RescanAdminFile,
                DeleteOwned, EditDecided, ChangeVisibility
  <2>2. \A d \in Contents : /\ file'[d].bucket = file[d].bucket
                            /\ file'[d].scan = "clean" => file[d].scan = "clean"
    BY <2>1 DEF ItemPart, File
  <2>3. QED
    BY <2>1, <2>2, RestKeepsStore DEF StorePart
<1>2. ASSUME NEW j \in Jobs, RetryAdminJob(j) \/ BackoffElapses(j) PROVE StorePart'
  BY <1>2, RestKeepsStore DEF RetryAdminJob, BackoffElapses, StorePart
<1>3. ASSUME NEW a \in Actors, Crash(a) PROVE StorePart'
  BY <1>3, FailIsFree, FreeKeepsStore DEF Crash, StorePart
<1>4. CASE UNCHANGED vars
  BY <1>4, RestKeepsStore DEF vars, StorePart
<1>5. QED
  BY <1>1, <1>2, <1>3, <1>4, WorkerKeepsStore, ModeratorKeepsStore
     DEF Next, OwnerRequest, AdminRequest

\* The object behind a published item exists: with one live scan for a file,
\* the copy that a failed publication undoes is never one that was published.
\* An item left clean in quarantine by an earlier release has two promoters,
\* an approval and the reconcile pass, and is excepted.
THEOREM PublishedIsThere ==
  ASSUME Legacy = {}
  PROVE  Spec => []PublishedHasObject
<1> DEFINE HInv == RepliesArrive => StorePart
<1>1. Init => HInv
  BY RestingFacts DEF Init, StorePart, CarriesFits
<1>2. ASSUME IInv, SInv, HInv, [Next]_vars, RepliesArrive' PROVE StorePart'
  <2>1. RepliesArrive
    BY <1>2, FaultsAreRigid DEF RepliesArrive
  <2>2. QED
    BY <1>2, <2>1, StorePartInvariant DEF IInv, SInv
<1>3. IInv /\ SInv /\ HInv /\ [Next]_vars => HInv'
  BY <1>2
<1>4. IInv /\ HInv => PublishedHasObject
  BY DEF IInv, ItemPart, Fits, StorePart, PublishedHasObject
<1>5. QED
  BY <1>1, <1>3, <1>4, Invariance, InvarianceWithReplies, PTL DEF Spec

-----------------------------------------------------------------------------
(* Copies that nobody points to, without faults; items left over from an   *)
(* earlier release, with their two promoters, are not excepted here.       *)

\* Who took a package from the private bucket leaves no copy behind: no row
\* goes back to quarantine.
FromFits(a) ==
  actor[a].from = "private" =>
    actor[a].content \in Contents /\ file[actor[a].content].bucket = "private"

Owned(c) == <<"private", c>> \in store => file[c].bucket = "private" \/ Promoting(c)

CopyPart ==
  /\ \A a \in Actors : FromFits(a)
  /\ \A c \in Contents : Owned(c)

BucketsStay == \A c \in Contents : file[c].bucket = "private" => file'[c].bucket = "private"

\* Actor a goes on with the package it has, or with none.
Goes(a) ==
  /\ \A b \in Actors \ {a} : actor'[b] = actor[b]
  /\ actor'[a].from = "private" =>
       actor[a].from = "private" /\ actor'[a].content = actor[a].content

LEMMA GoesOn ==
  ASSUME ActorPart, NEW a \in Actors,
         Rest(a) \/ Fail(a) \/ Undo(a) \/ Purge(a) \/ \E pc \in PCs : Goto(a, pc)
  PROVE  Goes(a)
<1>1. CASE Rest(a)
  BY <1>1 DEF Rest, Resting, Began, Goes, ActorPart
<1>2. CASE \E pc \in PCs : Goto(a, pc)
  BY <1>2, GotoFields DEF Goes
<1>3. QED
  BY <1>1, <1>2 DEF Fail, Undo, Purge, PCs

\* Whose packet is where: all that CopyPart depends on.
LEMMA CopiesStay ==
  ASSUME CopyPart, BucketsStay, NEW a \in Actors,
         \A b \in Actors \ {a} : actor'[b] = actor[b], FromFits(a)',
         \A c \in Contents : <<"private", c>> \in store' => <<"private", c>> \in store,
         actor[a].pc \in {"publish", "undo"} =>
           \/ <<"private", actor[a].content>> \notin store'
           \/ actor[a].content \in Contents => file'[actor[a].content].bucket = "private"
           \/ /\ actor'[a].pc \in {"publish", "undo"}
              /\ actor'[a].content = actor[a].content
  PROVE  CopyPart'
<1>1. ASSUME NEW b \in Actors \ {a} PROVE FromFits(b)'
  BY DEF CopyPart, FromFits, BucketsStay
<1>2. ASSUME NEW c \in Contents PROVE Owned(c)'
  <2>1. CASE <<"private", c>> \in store' /\ file[c].bucket # "private"
    <3>1. PICK b \in Actors : actor[b].content = c /\ actor[b].pc \in {"publish", "undo"}
      BY <2>1 DEF CopyPart, Owned, Promoting
    <3>2. CASE b = a
      BY <2>1, <3>1, <3>2 DEF Owned, Promoting
    <3>3. CASE b # a
      BY <3>1, <3>3 DEF Owned, Promoting
    <3>4. QED
      BY <3>2, <3>3
  <2>2. QED
    BY <2>1 DEF Owned, BucketsStay
<1>3. QED
  BY <1>1, <1>2 DEF CopyPart

\* Nobody moves.
LEMMA RestKeepsCopies ==
  ASSUME CopyPart, BucketsStay, actor' = actor,
         \A c \in Contents : <<"private", c>> \in store' => <<"private", c>> \in store
  PROVE  CopyPart'
  BY DEF CopyPart, FromFits, Owned, Promoting, BucketsStay

\* Actor a does not hold a copy.
LEMMA GoesKeepsCopies ==
  ASSUME CopyPart, BucketsStay, NEW a \in Actors, Goes(a), actor[a].pc \notin {"publish", "undo"},
         \A c \in Contents : <<"private", c>> \in store' => <<"private", c>> \in store
  PROVE  CopyPart'
<1>1. FromFits(a)'
  BY DEF Goes, CopyPart, FromFits, BucketsStay
<1>2. QED
  BY <1>1, CopiesStay DEF Goes

\* Actor a takes a package from where its row says.
LEMMA TakeKeepsCopies ==
  ASSUME CopyPart, NEW a \in Actors, \A b \in Actors \ {a} : actor'[b] = actor[b],
         actor[a].pc \notin {"publish", "undo"}, UNCHANGED <<file, store>>,
         actor'[a].from = "private" =>
           actor'[a].content \in Contents /\ file[actor'[a].content].bucket = "private"
  PROVE  CopyPart'
<1>1. FromFits(a)'
  BY DEF FromFits
<1>2. BucketsStay
  BY DEF BucketsStay
<1>3. QED
  BY <1>1, <1>2, CopiesStay

LEMMA LoadKeepsCopies ==
  ASSUME ActorPart, CopyPart, NEW w \in Actors, LoadFile(w) \/ ScanFile(w)
  PROVE  CopyPart'
<1>1. /\ actor[w].content \in Contents /\ actor[w].pc \in {"load", "scan"}
      /\ UNCHANGED <<file, store>>
  BY DEF LoadFile, ScanFile, At, ActorPart, PCFits
<1>2. BucketsStay
  BY <1>1 DEF BucketsStay
<1>3. CASE actor' = [actor EXCEPT ![w].pc = "scan", ![w].from = file[actor[w].content].bucket]
  <2>1. /\ actor'[w].from = file[actor[w].content].bucket
        /\ actor'[w].content = actor[w].content
        /\ \A b \in Actors \ {w} : actor'[b] = actor[b]
    BY <1>3 DEF ActorPart, Actor
  <2>2. QED
    BY <1>1, <2>1, TakeKeepsCopies
<1>4. CASE \E v \in ScanStatus : actor' = [actor EXCEPT ![w].pc = "complete", ![w].verdict = v]
  <2>1. Goes(w)
    BY <1>4 DEF Goes, ActorPart, Actor
  <2>2. QED
    BY <1>1, <1>2, <2>1, GoesKeepsCopies
<1>5. CASE Fail(w) \/ \E pc \in PCs : Goto(w, pc)
  BY <1>1, <1>2, <1>5, GoesOn, GoesKeepsCopies
<1>6. QED
  BY <1>3, <1>4, <1>5 DEF LoadFile, ScanFile, ScanStatus, Promote, PCs

LEMMA CopyKeepsCopies ==
  ASSUME faults = {}, ActorPart, CopyPart, NEW a \in Actors, Copy(a)
  PROVE  CopyPart'
<1>1. actor[a].content \in Contents /\ actor[a].pc = "copy" /\ file' = file
  BY DEF Copy, At, ActorPart, PCFits
<1>2. BucketsStay
  BY <1>1 DEF BucketsStay
<1>3. CASE Fail(a) /\ store' = store
  BY <1>1, <1>2, <1>3, GoesOn, GoesKeepsCopies
<1>4. CASE Goto(a, "publish") /\ store' = store \cup {<<"private", actor[a].content>>}
  <2>1. /\ \A b \in Actors \ {a} : actor'[b] = actor[b]
        /\ actor'[a].pc = "publish" /\ actor'[a].from = actor[a].from
        /\ actor'[a].content = actor[a].content
    BY <1>4, GotoFields
  <2>2. \A b \in Actors : FromFits(b)'
    BY <1>1, <2>1 DEF CopyPart, FromFits
  <2>3. ASSUME NEW c \in Contents PROVE Owned(c)'
    <3>1. CASE c = actor[a].content
      BY <2>1, <3>1 DEF Owned, Promoting
    <3>2. CASE c # actor[a].content
      <4>1. Promoting(c) => Promoting(c)'
        BY <1>1, <2>1 DEF Promoting
      <4>2. QED
        BY <1>1, <1>4, <3>2, <4>1 DEF CopyPart, Owned
    <3>3. QED
      BY <3>1, <3>2
  <2>4. QED
    BY <2>2, <2>3 DEF CopyPart
<1>5. QED
  BY <1>3, <1>4 DEF Copy

LEMMA UndoKeepsCopies ==
  ASSUME faults = {}, ActorPart, CopyPart, NEW a \in Actors, UndoCopy(a)
  PROVE  CopyPart'
<1>1. /\ store' = store \ {<<"private", actor[a].content>>} /\ file' = file
      /\ Goes(a)
  BY GoesOn DEF UndoCopy
<1>2. BucketsStay /\ FromFits(a)'
  BY <1>1 DEF BucketsStay, Goes, CopyPart, FromFits
<1>3. QED
  BY <1>1, <1>2, CopiesStay DEF Goes

\* A refused publication leaves the copy to its undoing; a granted one makes
\* it the item's package.
LEMMA PublishKeepsCopies ==
  ASSUME faults = {}, ActorPart, ItemPart, CopyPart, NEW a \in Actors,
         PublishScanned(a) \/ PublishReconciled(a) \/ PublishApproved(a)
  PROVE  CopyPart'
<1>1. PICK c \in Contents : c = actor[a].content
  BY DEF PublishScanned, PublishReconciled, PublishApproved, At, ActorPart, PCFits
<1>2. store' = store
  BY DEF PublishScanned, PublishReconciled, PublishApproved
<1>3. CASE /\ Purge(a)
           /\ \/ file' = [file EXCEPT ![c].scan = "clean", ![c].bucket = "private"]
              \/ file' = [file EXCEPT ![c].bucket = "private"]
  <2>1. file'[c].bucket = "private" /\ BucketsStay
    BY <1>3 DEF ItemPart, File, BucketsStay
  <2>2. Goes(a)
    BY <1>3, GoesOn
  <2>3. FromFits(a)'
    BY <2>1, <2>2 DEF Goes, CopyPart, FromFits, BucketsStay
  <2>4. QED
    BY <1>1, <1>2, <2>1, <2>2, <2>3, CopiesStay DEF Goes
<1>4. CASE file' = file /\ Undo(a)
  <2>1. Goes(a) /\ BucketsStay
    BY <1>4, GoesOn DEF BucketsStay
  <2>2. FromFits(a)'
    BY <2>1 DEF Goes, CopyPart, FromFits, BucketsStay
  <2>3. \/ file'[c].bucket = "private"
        \/ actor'[a].pc = "undo" /\ actor'[a].content = actor[a].content
    <3>1. CASE actor[a].from = "quarantine"
      BY <1>4, <3>1, GotoFields DEF Undo
    <3>2. CASE actor[a].from = "private"
      BY <1>1, <1>4, <3>2 DEF CopyPart, FromFits
    <3>3. QED
      BY <3>1, <3>2 DEF ActorPart, Actor, Bucket
  <2>4. QED
    BY <1>1, <1>2, <2>1, <2>2, <2>3, CopiesStay DEF Goes
<1>5. QED
  BY <1>1, <1>3, <1>4
     DEF PublishScanned, PublishReconciled, PublishApproved, Transaction, AutoPublished,
         Unpublished

LEMMA WorkerKeepsCopies ==
  ASSUME faults = {}, ActorPart, ItemPart, CopyPart, NEW w \in Workers, WorkerStep(w)
  PROVE  CopyPart'
<1>1. w \in Actors
  BY DEF Actors
<1>2. ASSUME NEW j \in Jobs, Claim(w, j) PROVE CopyPart'
  BY <1>1, <1>2, TakeKeepsCopies DEF Claim, At, Began, ActorPart
<1>3. ASSUME NEW c \in Contents, Reconcile(w, c) PROVE CopyPart'
  BY <1>1, <1>3, TakeKeepsCopies DEF Reconcile, At, Began, ActorPart
<1>4. CASE MarkFailed(w) \/ PurgeQuarantine(w) \/ CompleteFileScan(w)
  <2>1. /\ Goes(w) /\ actor[w].pc \notin {"publish", "undo"}
        /\ \A c \in Contents : <<"private", c>> \in store' => <<"private", c>> \in store
    BY <1>1, <1>4, GoesOn DEF MarkFailed, PurgeQuarantine, CompleteFileScan, Transaction, At
  <2>2. BucketsStay
    BY <1>4 DEF MarkFailed, PurgeQuarantine, CompleteFileScan, Transaction, BucketsStay,
                ItemPart, File
  <2>3. QED
    BY <1>1, <2>1, <2>2, GoesKeepsCopies
<1>5. QED
  BY <1>1, <1>2, <1>3, <1>4, LoadKeepsCopies, PublishKeepsCopies, CopyKeepsCopies,
     UndoKeepsCopies DEF WorkerStep, PromotionStep

LEMMA ModeratorKeepsCopies ==
  ASSUME faults = {}, ActorPart, ItemPart, CopyPart,
         (\E m \in Moderators : ModeratorStep(m)) \/ ModeratorRequest
  PROVE  CopyPart'
<1>1. ASSUME NEW m \in Moderators, ModeratorStep(m) PROVE CopyPart'
  <2>1. m \in Actors
    BY DEF Actors
  <2>2. CASE PurgeQuarantine(m)
    <3>1. /\ Goes(m) /\ actor[m].pc = "purge" /\ file' = file
          /\ \A c \in Contents : <<"private", c>> \in store' => <<"private", c>> \in store
      BY <2>1, <2>2, GoesOn DEF PurgeQuarantine, At
    <3>2. QED
      BY <2>1, <3>1, GoesKeepsCopies DEF BucketsStay
  <2>3. QED
    BY <1>1, <2>1, <2>2, PublishKeepsCopies, CopyKeepsCopies, UndoKeepsCopies
       DEF ModeratorStep, PromotionStep
<1>2. ASSUME NEW m \in Moderators, NEW c \in Contents, StartApproval(m, c) PROVE CopyPart'
  BY <1>2, TakeKeepsCopies DEF StartApproval, At, Began, ActorPart, Actors
<1>3. ASSUME NEW c \in Contents, Reject(c) \/ Hide(c) \/ Restore(c) PROVE CopyPart'
  BY <1>3, RestKeepsCopies DEF Reject, Hide, Restore, Review, BucketsStay
<1>4. QED
  BY <1>1, <1>2, <1>3 DEF ModeratorRequest

LEMMA CopyPartInvariant ==
  ASSUME faults = {}, ActorPart, ItemPart, CopyPart, [Next]_vars
  PROVE  CopyPart'
<1>1. ASSUME NEW c \in Contents,
             \/ UploadPut(c) \/ UploadStep(c) \/ UploadCrash(c) \/ RescanAdminFile(c)
             \/ DeleteOwned(c)
             \/ \E v \in Visibility : EditDecided(c, v) \/ ChangeVisibility(c, v)
      PROVE  CopyPart'
  <2>1. /\ actor' = actor
        /\ file' = file \/ file' = [file EXCEPT ![c].scan = "pending"]
        /\ \A d \in Contents : <<"private", d>> \in store' => <<"private", d>> \in store
    BY <1>1 DEF UploadPut, UploadStep, UploadCreate, UploadRefused, UploadCrash, RescanAdminFile,
                DeleteOwned, EditDecided, ChangeVisibility
  <2>2. BucketsStay
    BY <2>1 DEF ItemPart, File, BucketsStay
  <2>3. QED
    BY <2>1, <2>2, RestKeepsCopies
<1>2. ASSUME NEW j \in Jobs, RetryAdminJob(j) \/ BackoffElapses(j) PROVE CopyPart'
  BY <1>2, RestKeepsCopies DEF RetryAdminJob, BackoffElapses, BucketsStay
<1>3. ASSUME NEW a \in Actors, Crash(a) PROVE CopyPart'
  BY <1>3 DEF Crash
<1>4. CASE UNCHANGED vars
  BY <1>4, RestKeepsCopies DEF vars, BucketsStay
<1>5. QED
  BY <1>1, <1>2, <1>3, <1>4, WorkerKeepsCopies, ModeratorKeepsCopies
     DEF Next, OwnerRequest, AdminRequest

\* Without faults promotion leaks no object, also when an approval and the
\* reconcile pass promote the same item: whoever is refused removes the copy,
\* and whoever took a package from the private bucket has made none.
THEOREM NothingIsLeaked == Spec => []NoStrayCopy
<1> DEFINE CInv == faults = {} => CopyPart
<1>1. Init => CInv
  <2>1. ASSUME Init PROVE CopyPart
    <3>1. \A a \in Actors : actor[a].from = "quarantine"
      BY <2>1 DEF Init, Resting, Began
    <3>2. \A c \in Contents : <<"private", c>> \notin store
      BY <2>1 DEF Init
    <3>3. QED
      BY <3>1, <3>2 DEF CopyPart, FromFits, Owned
  <2>2. QED
    BY <2>1
<1>2. ASSUME IInv, CInv, [Next]_vars, (faults = {})' PROVE CopyPart'
  BY <1>2, FaultsAreRigid, CopyPartInvariant DEF IInv
<1>3. IInv /\ CInv /\ [Next]_vars => CInv'
  BY <1>2
<1>4. CInv => NoStrayCopy
  BY DEF CopyPart, Owned, NoStrayCopy
<1>5. QED
  BY <1>1, <1>3, <1>4, Invariance, PTL DEF Spec
=============================================================================
