--------------------------- MODULE ContentPipeline ---------------------------
(***************************************************************************)
(* The life of an uploaded .bee package: upload into the quarantine        *)
(* bucket, scan job, promotion into the private bucket and publication by  *)
(* a worker, review by moderators, changes by the owner, and the           *)
(* administrator's rescan and retry.                                       *)
(*                                                                         *)
(* PostgreSQL transactions are single steps.  Everything the code does     *)
(* between two transactions, in particular every call to the object store, *)
(* is a step of its own, so that workers, moderators, owners and           *)
(* administrators interleave there.  A content item has one file; the      *)
(* promoted copy has a key that depends on the item and file only.         *)
(*                                                                         *)
(* The rigid variable "faults" holds what may go wrong in a behaviour:     *)
(*   "crash"       a worker or a request handler stops between two steps   *)
(*                 (also: its context is cancelled or times out);          *)
(*   "db_error"    a transaction fails without effect;                     *)
(*   "lost_reply"  a call takes effect and is reported as failed;          *)
(*   "store_error" a call to the object store fails without effect.        *)
(* A scan attempt may fail at any time (antivirus down, object unreadable).*)
(***************************************************************************)
EXTENDS JobRows

CONSTANTS
  Contents,    \* content items, each with its one file
  Moderators,  \* moderator requests being handled at the same time
  Legacy,      \* items an earlier release may have left clean, unpublished, in quarantine
  MaxJobs,     \* bound: scan jobs ever inserted
  NoContent,
  FaultSets    \* the environments considered, each a set of fault kinds

ASSUME ModeratorsAssumption == Moderators \cap Workers = {}

ASSUME ContentsAssumption == NoContent \notin Contents /\ Legacy \subseteq Contents

ASSUME MaxJobsAssumption == MaxJobs \in Nat \ {0}

FaultKinds == {"crash", "db_error", "lost_reply", "store_error"}

ASSUME FaultSetsAssumption == FaultSets \subseteq SUBSET FaultKinds

VARIABLES
  item,       \* content_items: status, published_at, hidden_at, deleted_at, visibility
  file,       \* content_files: scan_status and bucket
  store,      \* objects present, as <<bucket, content>>
  rows,       \* worker_jobs of the file_scan_queue
  payload,    \* their content and the bucket the payload names
  actor,      \* workers and moderator requests: where they are, what they hold
  uploading,  \* uploads between PutObject and the transaction
  announced,  \* history: whether the item was searchable when a search job was last queued
  takenDown,  \* history: a moderator hid or rejected it and no one of the staff released it since
  faults      \* the fault kinds that may strike: chosen once, never changed

vars == <<item, file, store, rows, payload, actor, uploading, announced, takenDown, faults>>

-----------------------------------------------------------------------------
Jobs == 1 .. MaxJobs
NoJob == 0
Actors == Workers \cup Moderators

Status == {"absent", "pending_scan", "pending_moderation", "approved", "scan_failed",
           "published", "rejected", "hidden", "deleted"}
ScanStatus == {"pending", "clean", "failed", "suspicious", "infected"}
Bucket == {"quarantine", "private"}
Visibility == {"public", "private"}

Item == [status : Status, published : BOOLEAN, hidden : BOOLEAN,
         deleted : BOOLEAN, visibility : Visibility]
File == [scan : ScanStatus, bucket : Bucket]
Payload == [content : Contents \cup {NoContent}, bucket : Bucket]

\* kind: a claimed scan job, a candidate of the reconcile pass, an approval.
Actor == [pc      : {"idle", "load", "scan", "complete", "copy", "publish",
                     "undo", "purge", "fail"},
          kind    : {"none", "scan", "reconcile", "approve"},
          content : Contents \cup {NoContent},
          from    : Bucket,
          job     : Jobs \cup {NoJob},
          attempt : 0 .. MaxAttempts,
          verdict : ScanStatus]

Began(pc, kind, c, from, j, attempt) ==
  [pc |-> pc, kind |-> kind, content |-> c, from |-> from, job |-> j,
   attempt |-> attempt, verdict |-> "pending"]

Resting == Began("idle", "none", NoContent, "quarantine", NoJob, 0)

TypeOK ==
  /\ item \in [Contents -> Item]
  /\ file \in [Contents -> File]
  /\ store \subseteq Bucket \X Contents
  /\ rows \in [Jobs -> Row]
  /\ payload \in [Jobs -> Payload]
  /\ actor \in [Actors -> Actor]
  /\ uploading \subseteq Contents
  /\ announced \in [Contents -> BOOLEAN]
  /\ takenDown \in [Contents -> BOOLEAN]
  /\ faults \in FaultSets

Init ==
  /\ \E old \in SUBSET Legacy :
       /\ item = [c \in Contents |->
                    [status |-> IF c \in old THEN "pending_moderation" ELSE "absent",
                     published |-> FALSE, hidden |-> FALSE, deleted |-> FALSE,
                     visibility |-> "public"]]
       /\ file = [c \in Contents |->
                    [scan |-> IF c \in old THEN "clean" ELSE "pending",
                     bucket |-> "quarantine"]]
       /\ store = {"quarantine"} \X old
  /\ rows = [j \in Jobs |-> NoRow]
  /\ payload = [j \in Jobs |-> [content |-> NoContent, bucket |-> "quarantine"]]
  /\ actor = [a \in Actors |-> Resting]
  /\ uploading = {}
  /\ announced = [c \in Contents |-> FALSE]
  /\ takenDown = [c \in Contents |-> FALSE]
  /\ faults \in FaultSets

-----------------------------------------------------------------------------
(* What the readers of the tables accept.                                  *)

\* GetContentSearchDocument: the row the search index may show.
Searchable(i) ==
  /\ i.status = "published" /\ i.visibility = "public"
  /\ ~i.deleted /\ ~i.hidden /\ i.published

\* DownloadRepository.getTarget: the package is handed out (to the public,
\* to the holder of an unlisted token or to the owner).
Downloadable(c) ==
  /\ item[c].status = "published"
  /\ ~item[c].deleted /\ ~item[c].hidden
  /\ file[c].scan = "clean"
  /\ file[c].bucket # "quarantine"

\* A search job is queued in the same transaction that changes the item.
Announce(c) == announced' = [announced EXCEPT ![c] = Searchable(item'[c])]

-----------------------------------------------------------------------------
(* Steps of an actor.                                                      *)

At(a, pc) == actor[a].pc = pc

Goto(a, pc) == actor' = [actor EXCEPT ![a].pc = pc]

Rest(a) == actor' = [actor EXCEPT ![a] = Resting]

\* An error of a scan job leads to MarkFailed; the reconcile pass and the
\* request handler just report it.
Fail(a) == IF actor[a].kind = "scan" THEN Goto(a, "fail") ELSE Rest(a)

\* Mutants: whatever was to be published is removed; nothing is.
UndoAlways(a) == Goto(a, "undo")

UndoNever(a) == Fail(a)

\* After a failed publication the promoted copy is removed, if there is one.
Undo(a) == IF actor[a].from = "quarantine" THEN Goto(a, "undo") ELSE Fail(a)

\* After publication the quarantined original is removed, if there is one.
Purge(a) == IF actor[a].from = "quarantine" THEN Goto(a, "purge") ELSE Rest(a)

\* Where a package with this bucket goes on its way to publication.
Promote(bucket) == IF bucket = "quarantine" THEN "copy" ELSE "publish"

\* CompleteFileScan, PublishCleanContent, Approve and the rest are one
\* transaction each: committed, failed, or committed but reported as failed.
Transaction(effect, committed, unchanged, failed) ==
  \/ effect /\ committed
  \/ "db_error" \in faults /\ unchanged /\ failed
  \/ "lost_reply" \in faults /\ effect /\ failed

-----------------------------------------------------------------------------
(* Upload: PutObject into quarantine, then one transaction.                *)

UploadPut(c) ==
  /\ item[c].status = "absent" /\ c \notin uploading
  /\ store' = store \cup {<<"quarantine", c>>}
  /\ uploading' = uploading \cup {c}
  /\ UNCHANGED <<item, file, rows, payload, actor, announced, takenDown, faults>>

\* Identifiers of job rows follow created_at.
NextJob(j) ==
  /\ rows[j].status = "absent"
  /\ \A i \in Jobs : i < j => rows[i].status # "absent"

InsertScanJob(j, c) ==
  /\ NextJob(j)
  /\ rows' = [rows EXCEPT ![j] = NewRow]
  /\ payload' = [payload EXCEPT ![j] = [content |-> c, bucket |-> file[c].bucket]]

\* The item, under a key that is not in use, with its file and its scan job.
CreateUpload(c, visibility) ==
  /\ item[c].status = "absent"
  /\ item' = [item EXCEPT ![c].status = "pending_scan", ![c].visibility = visibility]
  /\ \E j \in Jobs : InsertScanJob(j, c)

\* UploadRepository.Create is committed.  With a lost reply the handler
\* removes the object although the item exists.
UploadCreate(c) ==
  /\ c \in uploading
  /\ \E v \in Visibility : CreateUpload(c, v)
  /\ uploading' = uploading \ {c}
  /\ \/ UNCHANGED store
     \/ "lost_reply" \in faults /\ store' = store \ {<<"quarantine", c>>}
  /\ UNCHANGED <<file, actor, announced, takenDown, faults>>

\* Quota, duplicate or category refused, or the transaction failed; an error
\* of the removal is ignored.
UploadRefused(c) ==
  /\ c \in uploading
  /\ uploading' = uploading \ {c}
  /\ \/ store' = store \ {<<"quarantine", c>>}
     \/ "store_error" \in faults /\ UNCHANGED store
  /\ UNCHANGED <<item, file, rows, payload, actor, announced, takenDown, faults>>

-----------------------------------------------------------------------------
(* The worker: processOnce and processFileScan.                            *)

\* The oldest claimable job (ORDER BY created_at, FOR UPDATE SKIP LOCKED).
Oldest(j) ==
  /\ Claimable(rows[j])
  /\ \A i \in Jobs : i < j => ~Claimable(rows[i])

Claim(w, j) ==
  /\ At(w, "idle")
  /\ Oldest(j)
  /\ rows' = [rows EXCEPT ![j] = ClaimedBy(@, w)]
  /\ actor' = [actor EXCEPT ![w] =
                 Began("load", "scan", payload[j].content, "quarantine", j,
                       ClaimedBy(rows[j], w).attempts)]
  /\ UNCHANGED <<item, file, store, payload, uploading, announced, takenDown, faults>>

\* GetContentFileForScan and the comparison with the payload.
LoadFile(w) ==
  /\ At(w, "load")
  /\ LET f == file[actor[w].content] IN
       \/ /\ f.bucket = payload[actor[w].job].bucket
          /\ actor' = [actor EXCEPT ![w].pc = "scan", ![w].from = f.bucket]
       \/ /\ f.bucket # payload[actor[w].job].bucket
          /\ actor' = [actor EXCEPT ![w].pc = "complete", ![w].verdict = "suspicious"]
       \/ /\ "db_error" \in faults
          /\ Fail(w)
  /\ UNCHANGED <<item, file, store, rows, payload, uploading, announced, takenDown, faults>>

\* Hash and size, antivirus, package validation: each reads the object.  The
\* verdict is not a function of the file: signatures and configuration change.
\* "failed": no antivirus is configured and the package is valid.
ScanFile(w) ==
  /\ At(w, "scan")
  /\ \/ Fail(w)
     \/ /\ <<actor[w].from, actor[w].content>> \in store
        /\ \/ Goto(w, Promote(actor[w].from))
           \/ \E v \in {"failed", "suspicious", "infected"} :
                actor' = [actor EXCEPT ![w].pc = "complete", ![w].verdict = v]
  /\ UNCHANGED <<item, file, store, rows, payload, uploading, announced, takenDown, faults>>

\* The status of the item is overwritten whatever it is by now.
CompleteFileScan(w) ==
  LET c == actor[w].content IN
  /\ At(w, "complete")
  /\ Transaction(
       /\ file' = [file EXCEPT ![c].scan = actor[w].verdict]
       /\ item' = [item EXCEPT ![c].status = "scan_failed"]
       /\ rows' = [rows EXCEPT ![actor[w].job] = MarkedSucceeded(@)],
       Rest(w),
       UNCHANGED <<file, item, rows>>,
       Fail(w))
  /\ UNCHANGED <<store, payload, uploading, announced, takenDown, faults>>

\* A pending, clean item that no job will publish: processAutoPublishQueue,
\* tried only when the scan queue has nothing to claim.  The code takes the
\* least recently updated of several; here any one is taken.
Reconcile(w, c) ==
  /\ At(w, "idle")
  /\ \A j \in Jobs : ~Claimable(rows[j])
  /\ item[c].status = "pending_moderation" /\ ~item[c].deleted
  /\ file[c].scan = "clean"
  /\ actor' = [actor EXCEPT ![w] =
                 Began(Promote(file[c].bucket), "reconcile", c, file[c].bucket, NoJob, 0)]
  /\ UNCHANGED <<item, file, store, rows, payload, uploading, announced, takenDown, faults>>

MarkFailed(w) ==
  /\ At(w, "fail")
  /\ \/ rows' = [rows EXCEPT ![actor[w].job] = MarkedFailed(@, actor[w].attempt)]
     \/ "db_error" \in faults /\ UNCHANGED rows
  /\ Rest(w)
  /\ UNCHANGED <<item, file, store, payload, uploading, announced, takenDown, faults>>

-----------------------------------------------------------------------------
(* Promotion and publication, by a worker or by a moderator's approval.    *)

\* CopyObject to the private bucket.
Copy(a) ==
  LET c == actor[a].content IN
  /\ At(a, "copy")
  /\ \/ /\ <<"quarantine", c>> \in store
        /\ store' = store \cup {<<"private", c>>}
        /\ Goto(a, "publish") \/ ("lost_reply" \in faults /\ Fail(a))
     \/ /\ <<"quarantine", c>> \notin store \/ "store_error" \in faults
        /\ UNCHANGED store
        /\ Fail(a)
  /\ UNCHANGED <<item, file, rows, payload, uploading, announced, takenDown, faults>>

\* Mutants: no test of deleted_at; no test of the status; fresh scans only.
MayAutoPublishDeleted(c) == item[c].status \in {"pending_scan", "pending_moderation"}

MayAutoPublishAnyStatus(c) == item[c].status \notin {"absent", "deleted"} /\ ~item[c].deleted

MayAutoPublishFresh(c) == item[c].status = "pending_scan" /\ ~item[c].deleted

\* publishCleanContentTx: the UPDATE of the item and its WHERE clause.
MayAutoPublish(c) ==
  item[c].status \in {"pending_scan", "pending_moderation"} /\ ~item[c].deleted

AutoPublished(c) ==
  /\ item' = [item EXCEPT ![c].status = "published", ![c].published = TRUE,
                          ![c].hidden = FALSE]
  /\ file' = [file EXCEPT ![c].scan = "clean", ![c].bucket = "private"]
  /\ Announce(c)
  /\ UNCHANGED takenDown

Unpublished == UNCHANGED <<item, file, rows, announced, takenDown>>

\* CompleteFileScanAndPublish: verdict, publication and job in one transaction.
PublishScanned(w) ==
  LET c == actor[w].content IN
  /\ At(w, "publish") /\ actor[w].kind = "scan"
  /\ \/ /\ MayAutoPublish(c)
        /\ Transaction(
             /\ AutoPublished(c)
             /\ rows' = [rows EXCEPT ![actor[w].job] = MarkedSucceeded(@)],
             Purge(w), Unpublished, Undo(w))
     \/ /\ ~MayAutoPublish(c)
        /\ Unpublished
        /\ Undo(w)
  /\ UNCHANGED <<store, payload, uploading, faults>>

\* PublishCleanContent for the reconcile pass.
PublishReconciled(w) ==
  LET c == actor[w].content
      may == MayAutoPublish(c) /\ file[c].scan = "clean"
  IN
  /\ At(w, "publish") /\ actor[w].kind = "reconcile"
  /\ \/ /\ may
        /\ Transaction(AutoPublished(c) /\ UNCHANGED rows, Purge(w), Unpublished, Undo(w))
     \/ /\ ~may
        /\ Unpublished
        /\ Undo(w)
  /\ UNCHANGED <<store, payload, uploading, faults>>

\* ModerationRepository.Approve: no test of deleted_at, hidden_at is kept.
PublishApproved(m) ==
  LET c == actor[m].content
      may == file[c].scan = "clean" /\ item[c].status \in {"pending_moderation", "approved"}
  IN
  /\ At(m, "publish") /\ actor[m].kind = "approve"
  /\ \/ /\ may
        /\ Transaction(
             /\ item' = [item EXCEPT ![c].status = "published", ![c].published = TRUE]
             /\ file' = [file EXCEPT ![c].bucket = "private"]
             /\ Announce(c)
             /\ takenDown' = [takenDown EXCEPT ![c] = FALSE]
             /\ UNCHANGED rows,
             Purge(m), Unpublished, Undo(m))
     \/ /\ ~may
        /\ Unpublished
        /\ Undo(m)
  /\ UNCHANGED <<store, payload, uploading, faults>>

\* The promoted copy is removed; an error of the removal is ignored.
UndoCopy(a) ==
  /\ At(a, "undo")
  /\ \/ store' = store \ {<<"private", actor[a].content>>}
     \/ "store_error" \in faults /\ UNCHANGED store
  /\ Fail(a)
  /\ UNCHANGED <<item, file, rows, payload, uploading, announced, takenDown, faults>>

\* The quarantined original is removed; an error of the removal is ignored.
PurgeQuarantine(a) ==
  /\ At(a, "purge")
  /\ \/ store' = store \ {<<"quarantine", actor[a].content>>}
     \/ "store_error" \in faults /\ UNCHANGED store
  /\ Rest(a)
  /\ UNCHANGED <<item, file, rows, payload, uploading, announced, takenDown, faults>>

-----------------------------------------------------------------------------
(* Moderators.                                                             *)

\* GetApprovalCandidate and the checks of the Approve handler.
StartApproval(m, c) ==
  /\ At(m, "idle")
  /\ item[c].status \in {"pending_moderation", "approved"} /\ ~item[c].deleted
  /\ file[c].scan = "clean"
  /\ actor' = [actor EXCEPT ![m] =
                 Began(Promote(file[c].bucket), "approve", c, file[c].bucket, NoJob, 0)]
  /\ UNCHANGED <<item, file, store, rows, payload, uploading, announced, takenDown, faults>>

\* Mutant: no test of deleted_at.
ReviewDeleted(c, allowed, reviewed, down) ==
  /\ item[c].status \in allowed
  /\ item' = [item EXCEPT ![c] = reviewed]
  /\ takenDown' = [takenDown EXCEPT ![c] = down]
  /\ Announce(c)
  /\ UNCHANGED <<file, store, rows, payload, actor, uploading, faults>>

\* reviewContent: one transaction that locks the item.
Review(c, allowed, reviewed, down) ==
  /\ item[c].status \in allowed /\ ~item[c].deleted
  /\ item' = [item EXCEPT ![c] = reviewed]
  /\ takenDown' = [takenDown EXCEPT ![c] = down]
  /\ Announce(c)
  /\ UNCHANGED <<file, store, rows, payload, actor, uploading, faults>>

Reject(c) ==
  Review(c, {"pending_moderation", "approved", "scan_failed"},
         [item[c] EXCEPT !.status = "rejected", !.hidden = FALSE, !.published = FALSE],
         TRUE)

Hide(c) ==
  Review(c, {"published", "approved"},
         [item[c] EXCEPT !.status = "hidden", !.hidden = TRUE], TRUE)

Restore(c) ==
  /\ file[c].scan = "clean"
  /\ Review(c, {"hidden"},
            [item[c] EXCEPT !.status = "published", !.hidden = FALSE, !.published = TRUE],
            FALSE)

-----------------------------------------------------------------------------
(* The owner.                                                              *)

Exists(c) == item[c].status \notin {"absent", "deleted"} /\ ~item[c].deleted

\* The owner's changes queue a search job by status and visibility alone.
InSearch(i) == i.status = "published" /\ i.visibility = "public"

\* Mutant: an item that leaves the catalogue is forgotten.
ReindexIfShown(c) ==
  IF InSearch(item'[c]) THEN Announce(c) ELSE UNCHANGED announced

Reindex(c) ==
  IF InSearch(item[c]) \/ InSearch(item'[c]) THEN Announce(c) ELSE UNCHANGED announced

\* UpdateOwned that changes title, description, nsfw or tags of an item that
\* was decided before: back to pending_moderation.
EditDecided(c, visibility) ==
  /\ Exists(c)
  /\ item[c].status \in {"approved", "published", "rejected", "hidden"}
  /\ file[c].scan = "clean"
  /\ item' = [item EXCEPT ![c] =
                [@ EXCEPT !.status = "pending_moderation", !.published = FALSE,
                          !.hidden = FALSE, !.visibility = visibility]]
  /\ Reindex(c)
  /\ UNCHANGED <<file, store, rows, payload, actor, uploading, takenDown, faults>>

\* UpdateOwned otherwise: of all it writes only the visibility matters here.
ChangeVisibility(c, visibility) ==
  /\ Exists(c)
  /\ item' = [item EXCEPT ![c].visibility = visibility]
  /\ Reindex(c)
  /\ UNCHANGED <<file, store, rows, payload, actor, uploading, takenDown, faults>>

\* The objects and the jobs of a deleted item stay.
DeleteOwned(c) ==
  /\ Exists(c)
  /\ item' = [item EXCEPT ![c] =
                [@ EXCEPT !.status = "deleted", !.published = FALSE,
                          !.hidden = FALSE, !.deleted = TRUE]]
  /\ Reindex(c)
  /\ UNCHANGED <<file, store, rows, payload, actor, uploading, takenDown, faults>>

-----------------------------------------------------------------------------
(* The administrator, time and failures.                                   *)

\* Mutant: a file may be rescanned while its scan is still queued.
RescannablePending(c) == file[c].scan # "clean"

Rescannable(c) == file[c].scan \in {"failed", "suspicious", "infected"}

\* RescanAdminFile: reads neither the status nor deleted_at of the item.
RescanAdminFile(c) ==
  /\ Rescannable(c)
  /\ file' = [file EXCEPT ![c].scan = "pending"]
  /\ item' = [item EXCEPT ![c].status = "pending_scan", ![c].published = FALSE,
                          ![c].hidden = FALSE]
  /\ \E j \in Jobs : InsertScanJob(j, c)
  /\ takenDown' = [takenDown EXCEPT ![c] = FALSE]
  /\ UNCHANGED <<store, actor, uploading, announced, faults>>

RetryAdminJob(j) ==
  /\ Retryable(rows[j])
  /\ rows' = [rows EXCEPT ![j] = Retried(@)]
  /\ UNCHANGED <<item, file, store, payload, actor, uploading, announced, takenDown, faults>>

BackoffElapses(j) ==
  /\ Waiting(rows[j])
  /\ rows' = [rows EXCEPT ![j] = MadeDue(@)]
  /\ UNCHANGED <<item, file, store, payload, actor, uploading, announced, takenDown, faults>>

\* A worker or a request handler stops where it is.
Crash(a) ==
  /\ "crash" \in faults
  /\ ~At(a, "idle")
  /\ Rest(a)
  /\ UNCHANGED <<item, file, store, rows, payload, uploading, announced, takenDown, faults>>

\* The API process stops between PutObject and the upload transaction.
UploadCrash(c) ==
  /\ "crash" \in faults
  /\ c \in uploading
  /\ uploading' = uploading \ {c}
  /\ UNCHANGED <<item, file, store, rows, payload, actor, announced, takenDown, faults>>

-----------------------------------------------------------------------------
PromotionStep(a) == Copy(a) \/ UndoCopy(a) \/ PurgeQuarantine(a)

WorkerStep(w) ==
  \/ \E j \in Jobs : Claim(w, j)
  \/ \E c \in Contents : Reconcile(w, c)
  \/ LoadFile(w) \/ ScanFile(w) \/ CompleteFileScan(w)
  \/ PublishScanned(w) \/ PublishReconciled(w) \/ MarkFailed(w)
  \/ PromotionStep(w)

ModeratorStep(m) == PublishApproved(m) \/ PromotionStep(m)

ModeratorRequest ==
  \/ \E m \in Moderators, c \in Contents : StartApproval(m, c)
  \/ \E c \in Contents : Reject(c) \/ Hide(c) \/ Restore(c)

OwnerRequest ==
  \E c \in Contents :
    \/ UploadPut(c) \/ DeleteOwned(c)
    \/ \E v \in Visibility : EditDecided(c, v) \/ ChangeVisibility(c, v)

UploadStep(c) == UploadCreate(c) \/ UploadRefused(c)

AdminRequest ==
  \/ \E c \in Contents : RescanAdminFile(c)
  \/ \E j \in Jobs : RetryAdminJob(j)

Next ==
  \/ \E w \in Workers : WorkerStep(w)
  \/ \E m \in Moderators : ModeratorStep(m)
  \/ ModeratorRequest
  \/ OwnerRequest
  \/ \E c \in Contents : UploadStep(c) \/ UploadCrash(c)
  \/ AdminRequest
  \/ \E j \in Jobs : BackoffElapses(j)
  \/ \E a \in Actors : Crash(a)

Spec == Init /\ [][Next]_vars

\* The worker loop keeps polling, a call returns, time passes.  Requests of
\* users, moderators and administrators are never owed.
Fairness ==
  /\ \A w \in Workers : WF_vars(WorkerStep(w))
  /\ \A m \in Moderators : WF_vars(ModeratorStep(m))
  /\ \A c \in Contents : WF_vars(UploadStep(c))
  /\ \A j \in Jobs : WF_vars(BackoffElapses(j))

FairSpec == Spec /\ Fairness
=============================================================================
