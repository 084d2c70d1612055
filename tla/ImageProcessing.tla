-------------------------- MODULE ImageProcessing ---------------------------
(***************************************************************************)
(* The avatars of one owner and the images of an item of theirs.           *)
(*                                                                         *)
(* An upload stores the original under a pending key, and one transaction  *)
(* inserts the row and its job; an avatar also replaces those before it,   *)
(* whose objects the handler removes afterwards.  A worker re-encodes the  *)
(* original, stores the result under another key, writes that key to the   *)
(* row, and removes the original.  Every call to the object store and every*)
(* statement is a step, so that uploads and workers interleave there.      *)
(*                                                                         *)
(* Left out: the primary image (Gallery), sizes (OwnerStorage: here the    *)
(* quota may refuse any upload) and the search job of a processed image.   *)
(***************************************************************************)
EXTENDS JobRows

CONSTANTS
  Uploaders,    \* upload requests under way at the same time
  MaxImages,    \* bound: images ever uploaded
  MaxRequests,  \* bound: uploads, deletions and jobs retried by the administrator
  Undecodable,  \* images that pass the check of the header and do not decode
  NoImage,      \* a NULL avatar_image_id
  FaultSets     \* the environments considered, each a set of fault kinds

\* Identifiers are numbers, but only their identity matters.
Images == 1 .. MaxImages

ASSUME BoundsAssumption == MaxImages \in Nat \ {0} /\ MaxRequests \in Nat

ASSUME ImagesAssumption == Undecodable \subseteq Images /\ NoImage \notin Images

\* "overlap": the owner uploads an avatar before the last upload was answered.
FaultKinds == {"crash", "db_error", "lost_reply", "store_error", "overlap"}

ASSUME FaultSetsAssumption == FaultSets \subseteq SUBSET FaultKinds

VARIABLES
  image,     \* user_images and content_images
  avatar,    \* users.avatar_image_id
  rows,      \* the job of each image
  store,     \* the objects in the preview bucket
  uploader,  \* where each upload is, and what it holds
  worker,    \* where each worker is, and what it holds
  requests,  \* requests so far
  faults     \* the fault kinds that may strike: chosen once, never changed

vars == <<image, avatar, rows, store, uploader, worker, requests, faults>>

-----------------------------------------------------------------------------
Kind == {"avatar", "content"}

Status == {"pending", "running", "processed", "failed"}

Key == {"pending", "processed"}

Object == Key \X Images

\* key: what storage_key names; deleted: deleted_at is set.
Image == [kind : Kind \cup {"absent"}, status : Status, key : Key, deleted : BOOLEAN]

Uploader == [pc       : {"idle", "read", "lock", "commit", "undo", "purge"},
             kind     : Kind,
             image    : Images \cup {NoImage},
             seen     : SUBSET Images,
             replaced : SUBSET Object]

Unoccupied ==
  [pc |-> "idle", kind |-> "avatar", image |-> NoImage, seen |-> {}, replaced |-> {}]

Worker == [pc      : {"idle", "load", "open", "put", "complete", "undo", "purge", "mark",
                      "failimage", "fail"},
           image   : Images \cup {NoImage},
           attempt : 0 .. MaxAttempts,
           key     : Key]

Resting == [pc |-> "idle", image |-> NoImage, attempt |-> 0, key |-> "pending"]

TypeOK ==
  /\ image \in [Images -> Image]
  /\ avatar \in Images \cup {NoImage}
  /\ rows \in [Images -> Row]
  /\ store \subseteq Object
  /\ uploader \in [Uploaders -> Uploader]
  /\ worker \in [Workers -> Worker]
  /\ requests \in 0 .. MaxRequests
  /\ faults \in FaultSets

Init ==
  /\ image = [i \in Images |->
                [kind |-> "absent", status |-> "pending", key |-> "pending", deleted |-> FALSE]]
  /\ avatar = NoImage
  /\ rows = [i \in Images |-> NoRow]
  /\ store = {}
  /\ uploader = [u \in Uploaders |-> Unoccupied]
  /\ worker = [w \in Workers |-> Resting]
  /\ requests = 0
  /\ faults \in FaultSets

Requested == requests < MaxRequests /\ requests' = requests + 1

-----------------------------------------------------------------------------
(* Uploads.                                                                *)

LiveAvatars == {i \in Images : image[i].kind = "avatar" /\ ~image[i].deleted}

\* The rows that an upload has selected FOR UPDATE.
LockedBy(u) == IF uploader[u].pc = "commit" THEN uploader[u].seen ELSE {}

Locked == UNION {LockedBy(u) : u \in Uploaders}

LockedByOthers(u) == UNION {LockedBy(v) : v \in Uploaders \ {u}}

\* A new UUID.
Fresh(i) ==
  /\ image[i].kind = "absent"
  /\ store \cap (Key \X {i}) = {}
  /\ \A u \in Uploaders : uploader[u].image # i

\* The handler up to PutObject: the original is stored.
Begin(u, kind, i) ==
  /\ uploader[u].pc = "idle"
  /\ Requested
  /\ Fresh(i) /\ \A j \in 1 .. i - 1 : ~Fresh(j)
  /\ kind = "avatar" /\ "overlap" \notin faults =>
       \A v \in Uploaders : uploader[v].pc = "idle" \/ uploader[v].kind # "avatar"
  /\ store' = store \cup {<<"pending", i>>}
  /\ uploader' = [uploader EXCEPT ![u] =
                    [Unoccupied EXCEPT !.pc = IF kind = "avatar" THEN "read" ELSE "commit",
                                       !.kind = kind, !.image = i]]
  /\ UNCHANGED <<image, avatar, rows, worker, faults>>

\* userAvatarObjectsForReplacement: its statement sees the rows committed when
\* it starts ...
Read(u) ==
  /\ uploader[u].pc = "read"
  /\ uploader' = [uploader EXCEPT ![u].pc = "lock", ![u].seen = LiveAvatars]
  /\ UNCHANGED <<image, avatar, rows, store, worker, requests, faults>>

\* ... waits for whoever holds one of them, and returns those that are still
\* live, as they are by then.
Lock(u) ==
  LET live == uploader[u].seen \cap LiveAvatars IN
  /\ uploader[u].pc = "lock"
  /\ uploader[u].seen \cap LockedByOthers(u) = {}
  /\ uploader' = [uploader EXCEPT ![u].pc = "commit", ![u].seen = live,
                                  ![u].replaced = {<<image[i].key, i>> : i \in live}]
  /\ UNCHANGED <<image, avatar, rows, store, worker, requests, faults>>

\* softDeleteReplacedUserAvatars, called only if there was one to replace.
Replaced(u) ==
  IF uploader[u].replaced = {} THEN {} ELSE LiveAvatars \ {uploader[u].image}

\* The rest of CreateUserAvatar, and CreateContentImage.  From its UPDATE of the
\* users row to its commit no other upload of an avatar is where this one is.
Inserted(u) ==
  LET i == uploader[u].image
      gone == Replaced(u) IN
  /\ gone \cap LockedByOthers(u) = {}
  /\ image' = [j \in Images |->
                 IF j = i THEN [kind |-> uploader[u].kind, status |-> "pending",
                                key |-> "pending", deleted |-> FALSE]
                 ELSE [image[j] EXCEPT !.deleted = @ \/ j \in gone]]
  /\ avatar' = IF uploader[u].kind = "avatar" THEN i ELSE avatar
  /\ rows' = [j \in Images |->
                IF j = i THEN NewRow
                ELSE IF j \in gone /\ rows[j].status = "pending" THEN MarkedSucceeded(rows[j])
                ELSE rows[j]]

Goes(u, pc) == uploader' = [uploader EXCEPT ![u].pc = pc]

Leaves(u) == uploader' = [uploader EXCEPT ![u] = Unoccupied]

\* Mutant: what is replaced is removed before the transaction that replaces it.
CommitAfterPurge(u) ==
  /\ uploader[u].pc = "commit"
  /\ store' = store \ uploader[u].replaced
  /\ \/ Inserted(u) /\ (Goes(u, "purge") \/ ("lost_reply" \in faults /\ Goes(u, "undo")))
     \/ Goes(u, "undo") /\ UNCHANGED <<image, avatar, rows>>
  /\ UNCHANGED <<worker, requests, faults>>

\* The quota refuses, the transaction fails, or it succeeds.
Commit(u) ==
  /\ uploader[u].pc = "commit"
  /\ \/ Inserted(u) /\ (Goes(u, "purge") \/ ("lost_reply" \in faults /\ Goes(u, "undo")))
     \/ Goes(u, "undo") /\ UNCHANGED <<image, avatar, rows>>
  /\ UNCHANGED <<store, worker, requests, faults>>

\* RemoveObject, its error ignored.
Removed(objects) ==
  \/ store' = store \ objects
  \/ "store_error" \in faults /\ UNCHANGED store

UndoUpload(u) ==
  /\ uploader[u].pc = "undo"
  /\ Removed({<<"pending", uploader[u].image>>})
  /\ Leaves(u)
  /\ UNCHANGED <<image, avatar, rows, worker, requests, faults>>

\* Mutant: the handler deletes the rows when it removes the objects.
PurgeAndDelete(u) ==
  /\ uploader[u].pc = "purge"
  /\ Removed(uploader[u].replaced)
  /\ image' = [j \in Images |->
                 [image[j] EXCEPT !.deleted = @ \/ j \in LiveAvatars \ {uploader[u].image}]]
  /\ Leaves(u)
  /\ UNCHANGED <<avatar, rows, worker, requests, faults>>

PurgeReplaced(u) ==
  /\ uploader[u].pc = "purge"
  /\ Removed(uploader[u].replaced)
  /\ Leaves(u)
  /\ UNCHANGED <<image, avatar, rows, worker, requests, faults>>

CrashUpload(u) ==
  /\ "crash" \in faults
  /\ uploader[u].pc # "idle"
  /\ Leaves(u)
  /\ UNCHANGED <<image, avatar, rows, store, worker, requests, faults>>

\* DeleteOwnedContentImage: the object stays.
DeleteContentImage(i) ==
  /\ image[i].kind = "content" /\ ~image[i].deleted
  /\ Requested
  /\ image' = [image EXCEPT ![i].deleted = TRUE]
  /\ UNCHANGED <<avatar, rows, store, uploader, worker, faults>>

-----------------------------------------------------------------------------
(* The worker: processImageQueue and processImage.                         *)

At(w, pc) == worker[w].pc = pc

Goto(w, pc) == worker' = [worker EXCEPT ![w].pc = pc]

\* The statements on an avatar say "deleted_at IS NULL", those on an image of
\* an item do not.
Reaches(i) == image[i].kind = "content" \/ ~image[i].deleted

Original(w) == <<worker[w].key, worker[w].image>>

Result(w) == <<"processed", worker[w].image>>

Claim(w, i) ==
  /\ At(w, "idle")
  /\ Claimable(rows[i])
  /\ rows' = [rows EXCEPT ![i] = ClaimedBy(@, w)]
  /\ worker' = [worker EXCEPT ![w] =
                  [Resting EXCEPT !.pc = "load", !.image = i,
                                  !.attempt = ClaimedBy(rows[i], w).attempts]]
  /\ UNCHANGED <<image, avatar, store, uploader, requests, faults>>

Processable(i) == image[i].status \in {"pending", "running"} /\ Reaches(i)

\* GetImageForProcessing; an image that needs no work is marked as done.
Load(w) ==
  LET i == worker[w].image IN
  /\ At(w, "load") /\ i \notin Locked
  /\ \/ /\ Processable(i)
        /\ image' = [image EXCEPT ![i].status = "running"]
        /\ \/ worker' = [worker EXCEPT ![w].pc = "open", ![w].key = image[i].key]
           \/ "lost_reply" \in faults /\ Goto(w, "failimage")
     \/ ~Processable(i) /\ Goto(w, "mark") /\ UNCHANGED image
     \/ "db_error" \in faults /\ Goto(w, "failimage") /\ UNCHANGED image
  /\ UNCHANGED <<avatar, rows, store, uploader, requests, faults>>

\* GetObject and Reencode.
Open(w) ==
  LET readable == Original(w) \in store /\ worker[w].image \notin Undecodable IN
  /\ At(w, "open")
  /\ \/ readable /\ Goto(w, "put")
     \/ (~readable \/ "store_error" \in faults) /\ Goto(w, "failimage")
  /\ UNCHANGED <<image, avatar, rows, store, uploader, requests, faults>>

Put(w) ==
  /\ At(w, "put")
  /\ \/ /\ store' = store \cup {Result(w)}
        /\ Goto(w, "complete") \/ ("lost_reply" \in faults /\ Goto(w, "failimage"))
     \/ "store_error" \in faults /\ Goto(w, "failimage") /\ UNCHANGED store
  /\ UNCHANGED <<image, avatar, rows, uploader, requests, faults>>

\* Mutant: an avatar that was replaced meanwhile counts as done.
CompleteQuietly(w) ==
  LET i == worker[w].image IN
  /\ At(w, "complete") /\ i \notin Locked
  /\ image' = IF Reaches(i) THEN [image EXCEPT ![i].status = "processed", ![i].key = "processed"]
              ELSE image
  /\ Goto(w, "purge")
  /\ UNCHANGED <<avatar, rows, store, uploader, requests, faults>>

\* CompleteImageProcessing; no row is an error like any other.
Complete(w) ==
  LET i == worker[w].image IN
  /\ At(w, "complete") /\ i \notin Locked
  /\ \/ /\ Reaches(i)
        /\ image' = [image EXCEPT ![i].status = "processed", ![i].key = "processed"]
        /\ Goto(w, "purge") \/ ("lost_reply" \in faults /\ Goto(w, "undo"))
     \/ ~Reaches(i) /\ Goto(w, "undo") /\ UNCHANGED image
     \/ "db_error" \in faults /\ Goto(w, "undo") /\ UNCHANGED image
  /\ UNCHANGED <<avatar, rows, store, uploader, requests, faults>>

Undo(w) ==
  /\ At(w, "undo")
  /\ Removed({Result(w)})
  /\ Goto(w, "failimage")
  /\ UNCHANGED <<image, avatar, rows, uploader, requests, faults>>

Purge(w) ==
  /\ At(w, "purge")
  /\ Removed({Original(w)} \ {Result(w)})
  /\ Goto(w, "mark")
  /\ UNCHANGED <<image, avatar, rows, uploader, requests, faults>>

Mark(w) ==
  /\ At(w, "mark")
  /\ \/ /\ rows' = [rows EXCEPT ![worker[w].image] = MarkedSucceeded(@)]
        /\ \/ worker' = [worker EXCEPT ![w] = Resting]
           \/ "lost_reply" \in faults /\ Goto(w, "failimage")
     \/ "db_error" \in faults /\ Goto(w, "failimage") /\ UNCHANGED rows
  /\ UNCHANGED <<image, avatar, store, uploader, requests, faults>>

\* FailImageProcessing, whatever the status is; its error is ignored.
FailImage(w) ==
  LET i == worker[w].image IN
  /\ At(w, "failimage") /\ i \notin Locked
  /\ \/ image' = IF Reaches(i) THEN [image EXCEPT ![i].status = "failed"] ELSE image
     \/ "db_error" \in faults /\ UNCHANGED image
  /\ Goto(w, "fail")
  /\ UNCHANGED <<avatar, rows, store, uploader, requests, faults>>

Fail(w) ==
  /\ At(w, "fail")
  /\ \/ rows' = [rows EXCEPT ![worker[w].image] = MarkedFailed(@, worker[w].attempt)]
     \/ "db_error" \in faults /\ UNCHANGED rows
  /\ worker' = [worker EXCEPT ![w] = Resting]
  /\ UNCHANGED <<image, avatar, store, uploader, requests, faults>>

Crash(w) ==
  /\ "crash" \in faults
  /\ ~At(w, "idle")
  /\ worker' = [worker EXCEPT ![w] = Resting]
  /\ UNCHANGED <<image, avatar, rows, store, uploader, requests, faults>>

BackoffElapses(i) ==
  /\ Waiting(rows[i])
  /\ rows' = [rows EXCEPT ![i] = MadeDue(@)]
  /\ UNCHANGED <<image, avatar, store, uploader, worker, requests, faults>>

RetryAdminJob(i) ==
  /\ Retryable(rows[i])
  /\ Requested
  /\ rows' = [rows EXCEPT ![i] = Retried(@)]
  /\ UNCHANGED <<image, avatar, store, uploader, worker, faults>>

-----------------------------------------------------------------------------
WorkerStep(w) ==
  \/ \E i \in Images : Claim(w, i)
  \/ Load(w) \/ Open(w) \/ Put(w) \/ Complete(w) \/ Undo(w) \/ Purge(w)
  \/ Mark(w) \/ FailImage(w) \/ Fail(w)

UploadStep(u) == Read(u) \/ Lock(u) \/ Commit(u) \/ UndoUpload(u) \/ PurgeReplaced(u)

Next ==
  \/ \E u \in Uploaders :
       \/ \E kind \in Kind, i \in Images : Begin(u, kind, i)
       \/ UploadStep(u) \/ CrashUpload(u)
  \/ \E i \in Images : DeleteContentImage(i) \/ BackoffElapses(i) \/ RetryAdminJob(i)
  \/ \E w \in Workers : WorkerStep(w) \/ Crash(w)

Spec == Init /\ [][Next]_vars

\* A handler that has begun runs to its end, the worker loop polls for ever and
\* time passes; nobody has to upload.
Fairness ==
  /\ \A u \in Uploaders : WF_vars(UploadStep(u))
  /\ \A w \in Workers : WF_vars(WorkerStep(w))
  /\ \A i \in Images : WF_vars(BackoffElapses(i))

FairSpec == Spec /\ Fairness

-----------------------------------------------------------------------------
(* Properties.                                                             *)

\* What GetPublicObject and GetOwnedObject return can be opened, unless a
\* statement that took effect was reported as failed.
ServedHasItsObject ==
  "lost_reply" \notin faults =>
    \A i \in Images :
      image[i].kind # "absent" /\ ~image[i].deleted /\ image[i].status = "processed"
        => <<image[i].key, i>> \in store

\* The avatar of the owner is never one of those it replaced, however uploads
\* overlap.
AvatarIsLive == avatar # NoImage => avatar \in LiveAvatars

\* What was accepted, decodes and is still there has been processed.
AllProcessed ==
  \A i \in Images \ Undecodable :
    image[i].kind # "absent" /\ ~image[i].deleted => image[i].status = "processed"

\* What is left of replaced avatars, and originals beside their results.
Garbage ==
  {o \in store : \/ image[o[2]].kind = "avatar" /\ image[o[2]].deleted
                 \/ image[o[2]].status = "processed" /\ o[1] = "pending"}

\* Without faults, once the owner is done, all images are processed and nothing
\* of a replaced avatar stays in the object store, even if it was replaced while
\* a worker was in the middle of processing it.
EventuallySettled == (faults = {}) => <>[](AllProcessed /\ Garbage = {})

\* An avatar that was uploaded has replaced the one before.
OneLiveAvatar == \A i, j \in LiveAvatars : i = j
=============================================================================
