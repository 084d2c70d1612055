--------------------------- MODULE Images_proofs ---------------------------
(***************************************************************************)
(* Proofs about images, for every number of uploads, workers and images    *)
(* and every choice of faults: their processing, the primary image of an   *)
(* item (G!), the owner's quota (S!), and the system that TLC runs, where  *)
(* each takes its turn (MCImages).                                         *)
(*                                                                         *)
(* Processing: JobPart says who holds which image, and UploadPart that an  *)
(* upload owns the row it is about to insert: from both follow the types   *)
(* and AvatarIsLive.  ServedPart adds what the worker has put into the     *)
(* store before it completes; a lost reply breaks it.                      *)
(***************************************************************************)
EXTENDS MCImages, JobRows_proofs, FiniteSetTheorems

HoldsItsJob(w) ==
  worker[w].pc # "idle" =>
    /\ worker[w].image \in Images
    /\ rows[worker[w].image].status \in {"running", "succeeded"}
    /\ rows[worker[w].image].attempts = worker[w].attempt

OneWorkerPerImage ==
  \A v, w \in Workers :
    worker[v].pc # "idle" /\ worker[w].pc # "idle" /\ worker[v].image = worker[w].image => v = w

JobPart ==
  /\ rows \in [Images -> Row]
  /\ worker \in [Workers -> Worker]
  /\ \A w \in Workers : HoldsItsJob(w)
  /\ OneWorkerPerImage
  /\ \A i \in Images : rows[i].status = "pending" => rows[i].attempts < MaxAttempts

\* What upload u holds is its own: a row nobody has inserted, and objects of
\* avatars that are deleted by the time they are removed.
UploadFits(u) ==
  /\ uploader[u].pc # "idle" => uploader[u].image \in Images
  /\ uploader[u].pc \in {"read", "lock", "commit"} => image[uploader[u].image].kind = "absent"
  /\ uploader[u].pc \in {"read", "lock"} => uploader[u].kind = "avatar"
  /\ uploader[u].kind = "content" => uploader[u].replaced = {}
  /\ \A o \in uploader[u].replaced :
       /\ image[o[2]].kind = "avatar"
       /\ uploader[u].pc = "purge" => image[o[2]].deleted

OneUploadPerImage ==
  \A u, v \in Uploaders :
    /\ uploader[u].pc # "idle" /\ uploader[v].pc # "idle"
    /\ uploader[u].image = uploader[v].image
    => u = v

UploadPart ==
  /\ uploader \in [Uploaders -> Uploader]
  /\ \A u \in Uploaders : UploadFits(u)
  /\ OneUploadPerImage

ImagePart ==
  /\ image \in [Images -> Image]
  /\ avatar \in Images \cup {NoImage}
  /\ AvatarIsLive
  /\ \A i \in Images : image[i].kind = "absent" => rows[i].status = "absent"

OtherPart ==
  /\ store \subseteq Object
  /\ requests \in 0 .. MaxRequests
  /\ faults \in FaultSets

IInv == JobPart /\ UploadPart /\ ImagePart /\ OtherPart

-----------------------------------------------------------------------------
(* Workers and jobs.                                                       *)

LEMMA RestingFacts == Resting \in Worker /\ Resting.pc = "idle"
  BY MaxAttemptsAssumption DEF Resting, Worker, Key

\* Worker w goes on with its image, or stops.
Moved(w) ==
  /\ worker' \in [Workers -> Worker]
  /\ \A v \in Workers \ {w} : worker'[v] = worker[v]
  /\ worker'[w].pc # "idle" =>
       /\ worker[w].pc # "idle"
       /\ worker'[w].image = worker[w].image
       /\ worker'[w].attempt = worker[w].attempt

LEMMA MovedKeepsJobPart ==
  ASSUME JobPart, NEW w \in Workers, Moved(w), UNCHANGED rows
  PROVE  JobPart'
  BY DEF JobPart, Moved, HoldsItsJob, OneWorkerPerImage

LEMMA RestMoves ==
  ASSUME JobPart, NEW w \in Workers, worker' = [worker EXCEPT ![w] = Resting]
  PROVE  Moved(w) /\ worker'[w].pc = "idle"
  BY RestingFacts DEF JobPart, Moved

LEMMA GotoMoves ==
  ASSUME JobPart, NEW w \in Workers, worker[w].pc # "idle",
         NEW pc \in {"put", "complete", "undo", "purge", "mark", "failimage", "fail"},
         Goto(w, pc)
  PROVE  /\ Moved(w) /\ worker'[w].pc = pc
         /\ worker'[w].image = worker[w].image /\ worker'[w].key = worker[w].key
<1> DEFINE next == [worker[w] EXCEPT !.pc = pc]
<1>1. worker' = [worker EXCEPT ![w] = next]
  BY DEF Goto
<1>2. /\ next \in Worker /\ next.pc = pc /\ next.image = worker[w].image
      /\ next.attempt = worker[w].attempt /\ next.key = worker[w].key
  BY DEF JobPart, Worker
<1> HIDE DEF next
<1>3. QED
  BY <1>1, <1>2 DEF JobPart, Moved

\* Rows change that nobody, or only a worker who stops, holds.
LEMMA RowsChangeKeepsJobPart ==
  ASSUME JobPart, rows' \in [Images -> Row], worker' \in [Workers -> Worker],
         \A i \in Images : rows'[i].status = "pending" => rows'[i].attempts < MaxAttempts,
         \A w \in Workers :
           worker'[w].pc # "idle" =>
             worker'[w] = worker[w] /\ rows'[worker[w].image] = rows[worker[w].image]
  PROVE  JobPart'
  BY DEF JobPart, HoldsItsJob, OneWorkerPerImage

LEMMA ClaimKeepsJobPart ==
  ASSUME JobPart, NEW w \in Workers, NEW i \in Images, Claim(w, i)
  PROVE  /\ JobPart' /\ worker'[w].pc = "load" /\ rows[i].status = "pending"
         /\ rows'[i].status # "absent"
         /\ \A v \in Workers \ {w} : worker'[v] = worker[v]
         /\ \A j \in Images \ {i} : rows'[j] = rows[j]
<1> DEFINE row == ClaimedBy(rows[i], w)
           next == [Resting EXCEPT !.pc = "load", !.image = i, !.attempt = row.attempts]
<1>1. rows' = [rows EXCEPT ![i] = row] /\ worker' = [worker EXCEPT ![w] = next]
  BY DEF Claim
<1>2. worker[w].pc = "idle" /\ rows[i].status = "pending"
  BY DEF Claim, At, Claimable
<1>3. /\ row \in Row /\ row.status = "running" /\ row.attempts = rows[i].attempts + 1
  BY <1>2, ClaimedByFacts DEF JobPart
<1> HIDE DEF row
<1>4. next \in Worker /\ next.pc = "load" /\ next.image = i /\ next.attempt = row.attempts
  BY <1>3, MaxAttemptsAssumption DEF Resting, Worker, Key, Row
<1> HIDE DEF next
<1>5. /\ rows' \in [Images -> Row] /\ rows'[i] = row
      /\ \A j \in Images \ {i} : rows'[j] = rows[j]
      /\ worker' \in [Workers -> Worker] /\ worker'[w] = next
      /\ \A v \in Workers \ {w} : worker'[v] = worker[v]
  BY <1>1, <1>3, <1>4 DEF JobPart
<1>6. \A v \in Workers : worker[v].pc # "idle" => worker[v].image # i
  BY <1>2 DEF JobPart, HoldsItsJob
<1>7. ASSUME NEW v \in Workers PROVE HoldsItsJob(v)'
  <2>1. CASE v = w
    BY <1>3, <1>4, <1>5, <2>1 DEF HoldsItsJob
  <2>2. CASE v # w
    BY <1>5, <1>6, <2>2 DEF JobPart, HoldsItsJob
  <2>3. QED
    BY <2>1, <2>2
<1>8. OneWorkerPerImage'
  BY <1>4, <1>5, <1>6 DEF JobPart, OneWorkerPerImage
<1>9. \A j \in Images : rows'[j].status = "pending" => rows'[j].attempts < MaxAttempts
  BY <1>3, <1>5 DEF JobPart
<1>10. QED
  BY <1>2, <1>3, <1>4, <1>5, <1>7, <1>8, <1>9 DEF JobPart

\* The last step of a worker: its row is marked, and nobody else has it.
LEMMA MarkKeepsJobPart ==
  ASSUME JobPart, NEW w \in Workers, Mark(w)
  PROVE  /\ JobPart' /\ \A v \in Workers \ {w} : worker'[v] = worker[v]
         /\ worker'[w].pc \in {"idle", "failimage"}
         /\ \A i \in Images : rows[i].status = "absent" => rows'[i].status = "absent"
<1> DEFINE i == worker[w].image
<1>1. worker[w].pc = "mark" /\ i \in Images /\ rows[i].status # "absent"
      /\ rows[i] \in Row
  BY DEF Mark, At, JobPart, HoldsItsJob
<1>2. \/ rows' = [rows EXCEPT ![i] = MarkedSucceeded(rows[i])]
      \/ rows' = rows
  BY DEF Mark
<1>3. MarkedSucceeded(rows[i]) \in Row /\ MarkedSucceeded(rows[i]).status = "succeeded"
      /\ MarkedSucceeded(rows[i]).attempts = rows[i].attempts
  BY <1>1, MarkedSucceededFacts
<1>4. /\ rows' \in [Images -> Row]
      /\ \A j \in Images : \/ rows'[j] = rows[j]
                           \/ /\ j = i /\ rows'[j].status = "succeeded"
                              /\ rows'[j].attempts = rows[j].attempts
  BY <1>1, <1>2, <1>3 DEF JobPart
<1>5. \/ worker' = [worker EXCEPT ![w] = Resting]
      \/ Goto(w, "failimage")
  BY DEF Mark
<1>6. Moved(w) /\ worker'[w].pc \in {"idle", "failimage"}
  BY <1>1, <1>5, RestMoves, GotoMoves
<1>7. \A v \in Workers : HoldsItsJob(v)'
  BY <1>4, <1>6 DEF JobPart, HoldsItsJob, Moved
<1>8. OneWorkerPerImage'
  BY <1>6 DEF JobPart, OneWorkerPerImage, Moved
<1>9. QED
  BY <1>1, <1>4, <1>6, <1>7, <1>8 DEF JobPart, Moved

LEMMA FailKeepsJobPart ==
  ASSUME JobPart, NEW w \in Workers, Fail(w)
  PROVE  /\ JobPart' /\ \A v \in Workers \ {w} : worker'[v] = worker[v]
         /\ worker'[w].pc = "idle"
         /\ \A i \in Images : rows[i].status = "absent" => rows'[i].status = "absent"
<1> DEFINE i == worker[w].image
           n == worker[w].attempt
<1>1. /\ worker[w].pc = "fail" /\ i \in Images /\ rows[i].status # "absent"
      /\ rows[i] \in Row /\ n \in Nat /\ rows[i].attempts = n
  BY DEF Fail, At, JobPart, HoldsItsJob, Worker
<1>2. \/ rows' = [rows EXCEPT ![i] = MarkedFailed(rows[i], n)]
      \/ rows' = rows
  BY DEF Fail
<1>3. /\ MarkedFailed(rows[i], n) \in Row /\ MarkedFailed(rows[i], n).attempts = n
      /\ MarkedFailed(rows[i], n).status = IF n >= MaxAttempts THEN "dead" ELSE "pending"
  BY <1>1, MarkedFailedFacts
<1>4. /\ rows' \in [Images -> Row]
      /\ \A j \in Images : \/ rows'[j] = rows[j]
                           \/ /\ j = i /\ rows'[j].status # "absent"
                              /\ rows'[j].status = "pending" => rows'[j].attempts < MaxAttempts
  BY <1>1, <1>2, <1>3, MaxAttemptsAssumption DEF JobPart
<1>5. worker' = [worker EXCEPT ![w] = Resting]
  BY DEF Fail
<1>6. Moved(w) /\ worker'[w].pc = "idle"
  BY <1>5, RestMoves
<1>7. \A v \in Workers \ {w} : worker[v].pc # "idle" => worker[v].image # i
  BY <1>1 DEF JobPart, OneWorkerPerImage
<1>8. QED
  <2>1. \A v \in Workers :
          worker'[v].pc # "idle" =>
            worker'[v] = worker[v] /\ rows'[worker[v].image] = rows[worker[v].image]
    BY <1>4, <1>6, <1>7 DEF Moved, JobPart, HoldsItsJob
  <2>2. JobPart'
    BY <1>4, <1>6, <2>1, RowsChangeKeepsJobPart DEF JobPart, Moved
  <2>3. QED
    BY <1>1, <1>4, <1>6, <2>2 DEF Moved

\* Rows that nobody holds: the administrator's retry, and the back-off.
LEMMA IdleRowKeepsJobPart ==
  ASSUME JobPart, NEW i \in Images, BackoffElapses(i) \/ RetryAdminJob(i)
  PROVE  /\ JobPart' /\ worker' = worker
         /\ \A j \in Images : rows[j].status = "absent" => rows'[j].status = "absent"
<1>1. rows[i] \in Row /\ worker' = worker
  BY DEF JobPart, BackoffElapses, RetryAdminJob
<1>2. PICK row \in Row : /\ rows' = [rows EXCEPT ![i] = row] /\ row.status = "pending"
                         /\ row.attempts < MaxAttempts
                         /\ rows[i].status \in {"pending", "failed", "dead"}
  <2>1. CASE BackoffElapses(i)
    <3> DEFINE row == MadeDue(rows[i])
    <3>1. rows' = [rows EXCEPT ![i] = row] /\ rows[i].status = "pending"
      BY <2>1 DEF BackoffElapses, Waiting
    <3>2. row \in Row /\ row.status = rows[i].status /\ row.attempts = rows[i].attempts
      BY <1>1, MadeDueFacts
    <3> HIDE DEF row
    <3>3. QED
      BY <3>1, <3>2 DEF JobPart
  <2>2. CASE RetryAdminJob(i)
    <3> DEFINE row == Retried(rows[i])
    <3>1. rows' = [rows EXCEPT ![i] = row] /\ rows[i].status \in {"failed", "dead"}
      BY <2>2 DEF RetryAdminJob, Retryable
    <3>2. row \in Row /\ row.status = "pending" /\ row.attempts < MaxAttempts
      BY <1>1, RetriedFacts, MaxAttemptsAssumption
    <3> HIDE DEF row
    <3>3. QED
      BY <3>1, <3>2
  <2>3. QED
    BY <2>1, <2>2
<1>3. \A w \in Workers : worker[w].pc # "idle" => worker[w].image # i
  BY <1>2 DEF JobPart, HoldsItsJob
<1>4. /\ rows' \in [Images -> Row] /\ rows'[i] = row
      /\ \A j \in Images \ {i} : rows'[j] = rows[j]
  BY <1>2 DEF JobPart
<1>5. \A w \in Workers :
        worker'[w].pc # "idle" =>
          worker'[w] = worker[w] /\ rows'[worker[w].image] = rows[worker[w].image]
  BY <1>1, <1>3, <1>4 DEF JobPart, HoldsItsJob
<1>6. JobPart'
  BY <1>1, <1>2, <1>4, <1>5, RowsChangeKeepsJobPart DEF JobPart
<1>7. QED
  BY <1>1, <1>2, <1>4, <1>6

-----------------------------------------------------------------------------
(* Images.                                                                 *)

\* Steps that change what has become of an image, not what it is.
LEMMA SameImages ==
  ASSUME ImagePart, image' \in [Images -> Image], avatar' = avatar,
         \A i \in Images : image'[i].kind = image[i].kind /\ image'[i].deleted = image[i].deleted,
         \A i \in Images : rows[i].status = "absent" => rows'[i].status = "absent"
  PROVE  ImagePart'
  BY DEF ImagePart, AvatarIsLive, LiveAvatars

\* Statements of a worker on its image.
LEMMA Restated ==
  ASSUME ImagePart, NEW i \in Images, NEW status \in Status, NEW key \in Key,
         \/ image' = [image EXCEPT ![i].status = status]
         \/ image' = [image EXCEPT ![i].status = status, ![i].key = key]
         \/ image' = image
  PROVE  /\ image' \in [Images -> Image]
         /\ \A j \in Images : image'[j].kind = image[j].kind /\ image'[j].deleted = image[j].deleted
         /\ \A j \in Images \ {i} : image'[j] = image[j]
<1>1. image \in [Images -> Image]
  BY DEF ImagePart
<1>2. QED
  BY <1>1 DEF Image

LEMMA SameUploads ==
  ASSUME UploadPart, uploader' = uploader,
         \A i \in Images : /\ image'[i].kind = image[i].kind
                           /\ image[i].deleted => image'[i].deleted
  PROVE  UploadPart'
<1>1. ASSUME NEW u \in Uploaders PROVE UploadFits(u)'
  <2>1. uploader[u] \in Uploader /\ UploadFits(u)
    BY DEF UploadPart
  <2>2. \A o \in uploader[u].replaced : o[2] \in Images
    BY <2>1 DEF Uploader, Object
  <2>3. QED
    BY <2>1, <2>2 DEF UploadFits
<1>2. QED
  BY <1>1 DEF UploadPart, OneUploadPerImage

-----------------------------------------------------------------------------
(* The steps of a worker.                                                  *)

\* What a worker's step on its image keeps, but for the store.
LEMMA WorkerKeeps ==
  ASSUME JobPart, UploadPart, ImagePart, NEW w \in Workers,
         \/ Load(w) \/ Open(w) \/ Put(w) \/ Complete(w) \/ Undo(w) \/ Purge(w)
         \/ FailImage(w) \/ Crash(w)
  PROVE  /\ JobPart' /\ UploadPart' /\ ImagePart'
         /\ rows' = rows /\ uploader' = uploader /\ Moved(w)
         /\ worker[w].image \in Images
         /\ \A i \in Images : image'[i].deleted = image[i].deleted
         /\ \A i \in Images \ {worker[w].image} : image'[i] = image[i]
<1> DEFINE i == worker[w].image
<1>1. worker[w].pc # "idle" /\ i \in Images /\ rows[i].status # "absent"
  BY DEF JobPart, HoldsItsJob, Load, Open, Put, Complete, Undo, Purge, FailImage, Crash, At
<1>2. rows' = rows /\ uploader' = uploader /\ avatar' = avatar
  BY DEF Load, Open, Put, Complete, Undo, Purge, FailImage, Crash
<1>3. Moved(w)
  <2>1. CASE Load(w)
    <3>1. CASE \/ Goto(w, "failimage") \/ Goto(w, "mark")
      BY <1>1, <3>1, GotoMoves
    <3>2. CASE worker' = [worker EXCEPT ![w].pc = "open", ![w].key = image[i].key]
      <4> DEFINE next == [worker[w] EXCEPT !.pc = "open", !.key = image[i].key]
      <4>1. worker' = [worker EXCEPT ![w] = next]
        BY <3>2
      <4>2. image[i].key \in Key
        BY <1>1 DEF ImagePart, Image
      <4>3. next \in Worker /\ next.image = worker[w].image /\ next.attempt = worker[w].attempt
        BY <4>2 DEF JobPart, Worker
      <4> HIDE DEF next
      <4>4. QED
        BY <1>1, <4>1, <4>3 DEF JobPart, Moved
    <3>3. QED
      BY <2>1, <3>1, <3>2 DEF Load
  <2>2. CASE Crash(w)
    BY <2>2, RestMoves DEF Crash
  <2>3. CASE Open(w) \/ Put(w) \/ Complete(w) \/ Undo(w) \/ Purge(w) \/ FailImage(w)
    <3>1. \E pc \in {"put", "complete", "undo", "purge", "mark", "failimage", "fail"} :
              Goto(w, pc)
      BY <2>3 DEF Open, Put, Complete, Undo, Purge, FailImage
    <3>2. QED
      BY <1>1, <3>1, GotoMoves
  <2>4. QED
    BY <2>1, <2>2, <2>3
<1>4. \E status \in Status, key \in Key :
        \/ image' = [image EXCEPT ![i].status = status]
        \/ image' = [image EXCEPT ![i].status = status, ![i].key = key]
        \/ image' = image
  BY DEF Load, Open, Put, Complete, Undo, Purge, FailImage, Crash, Status, Key
<1>5. /\ image' \in [Images -> Image]
      /\ \A j \in Images : image'[j].kind = image[j].kind /\ image'[j].deleted = image[j].deleted
      /\ \A j \in Images \ {i} : image'[j] = image[j]
  BY <1>1, <1>4, Restated
<1>6. JobPart'
  BY <1>2, <1>3, MovedKeepsJobPart
<1>7. UploadPart'
  BY <1>2, <1>5, SameUploads
<1>8. ImagePart'
  BY <1>2, <1>5, SameImages
<1>9. QED
  BY <1>1, <1>2, <1>3, <1>5, <1>6, <1>7, <1>8

LEMMA QueueKeeps ==
  ASSUME JobPart, UploadPart, ImagePart,
         \/ \E w \in Workers : Mark(w) \/ Fail(w) \/ \E i \in Images : Claim(w, i)
         \/ \E i \in Images : BackoffElapses(i) \/ RetryAdminJob(i)
  PROVE  JobPart' /\ UploadPart' /\ ImagePart' /\ UNCHANGED <<image, uploader, store>>
<1>1. UNCHANGED <<image, avatar, uploader, store>>
  BY DEF Mark, Fail, Claim, BackoffElapses, RetryAdminJob
<1>2. JobPart' /\ \A j \in Images : rows[j].status = "absent" => rows'[j].status = "absent"
  <2>1. ASSUME NEW w \in Workers, Mark(w) \/ Fail(w)
        PROVE  <1>2
    BY <2>1, MarkKeepsJobPart, FailKeepsJobPart
  <2>2. ASSUME NEW w \in Workers, NEW i \in Images, Claim(w, i)
        PROVE  <1>2
    BY <2>2, ClaimKeepsJobPart
  <2>3. ASSUME NEW i \in Images, BackoffElapses(i) \/ RetryAdminJob(i)
        PROVE  <1>2
    BY <2>3, IdleRowKeepsJobPart
  <2>4. QED
    BY <2>1, <2>2, <2>3
<1>3. UploadPart'
  BY <1>1, SameUploads
<1>4. image \in [Images -> Image]
  BY DEF ImagePart
<1>5. ImagePart'
  BY <1>1, <1>2, <1>4, SameImages
<1>6. QED
  BY <1>1, <1>2, <1>3, <1>5

-----------------------------------------------------------------------------
(* The steps of an upload.                                                 *)

LEMMA UnoccupiedFacts ==
  Unoccupied \in Uploader /\ Unoccupied.pc = "idle" /\ Unoccupied.replaced = {}
  BY DEF Unoccupied, Uploader, Kind

\* Upload u goes on with the image it began with, or another one begins.
LEMMA UploadMoves ==
  ASSUME UploadPart, NEW u \in Uploaders, NEW next \in Uploader,
         uploader' = [uploader EXCEPT ![u] = next],
         \A i \in Images : /\ image'[i].kind = image[i].kind
                           /\ image[i].deleted => image'[i].deleted,
         next.pc # "idle" =>
           /\ next.image \in Images
           /\ next.pc \in {"read", "lock", "commit"} => image[next.image].kind = "absent"
           /\ \A v \in Uploaders \ {u} : uploader[v].image # next.image
                                         \/ uploader[v].pc = "idle",
         next.pc \in {"read", "lock"} => next.kind = "avatar",
         next.kind = "content" => next.replaced = {},
         \A o \in next.replaced :
           /\ image[o[2]].kind = "avatar"
           /\ next.pc = "purge" => image'[o[2]].deleted
  PROVE  UploadPart'
<1>1. /\ uploader' \in [Uploaders -> Uploader] /\ uploader'[u] = next
      /\ \A v \in Uploaders \ {u} : uploader'[v] = uploader[v]
  BY DEF UploadPart
<1>2. ASSUME NEW v \in Uploaders PROVE UploadFits(v)'
  <2>1. CASE v = u
    <3>1. \A o \in next.replaced : o[2] \in Images
      BY DEF Uploader, Object
    <3>2. QED
      BY <1>1, <2>1, <3>1 DEF UploadFits
  <2>2. CASE v # u
    <3>1. uploader'[v] = uploader[v] /\ uploader[v] \in Uploader /\ UploadFits(v)
      BY <1>1, <2>2 DEF UploadPart
    <3>2. \A o \in uploader[v].replaced : o[2] \in Images
      BY <3>1 DEF Uploader, Object
    <3>3. QED
      BY <3>1, <3>2 DEF UploadFits
  <2>3. QED
    BY <2>1, <2>2
<1>3. OneUploadPerImage'
  <2>1. SUFFICES ASSUME NEW v \in Uploaders, NEW x \in Uploaders, v # x,
                        uploader'[v].pc # "idle", uploader'[x].pc # "idle"
                 PROVE  uploader'[v].image # uploader'[x].image
    BY DEF OneUploadPerImage
  <2>2. CASE v = u
    BY <1>1, <2>1, <2>2
  <2>3. CASE x = u
    BY <1>1, <2>1, <2>3
  <2>4. CASE v # u /\ x # u
    BY <1>1, <2>1, <2>4 DEF UploadPart, OneUploadPerImage
  <2>5. QED
    BY <2>2, <2>3, <2>4
<1>4. QED
  BY <1>1, <1>2, <1>3 DEF UploadPart

LEMMA BeginKeeps ==
  ASSUME JobPart, UploadPart, ImagePart, NEW u \in Uploaders, NEW kind \in Kind,
         NEW i \in Images, Begin(u, kind, i)
  PROVE  JobPart' /\ UploadPart' /\ ImagePart'
<1> DEFINE next == [Unoccupied EXCEPT !.pc = IF kind = "avatar" THEN "read" ELSE "commit",
                                      !.kind = kind, !.image = i]
<1>1. UNCHANGED <<image, avatar, rows, worker>> /\ uploader' = [uploader EXCEPT ![u] = next]
  BY DEF Begin
<1>2. image[i].kind = "absent" /\ \A v \in Uploaders : uploader[v].image # i
  BY DEF Begin, Fresh
<1>3. /\ next \in Uploader /\ next.image = i /\ next.replaced = {}
      /\ next.pc = "read" => next.kind = "avatar"
      /\ next.pc # "lock"
  BY DEF Unoccupied, Uploader
<1> HIDE DEF next
<1>4. UploadPart'
  BY <1>1, <1>2, <1>3, UploadMoves
<1>5. JobPart' /\ ImagePart'
  BY <1>1 DEF JobPart, HoldsItsJob, OneWorkerPerImage, ImagePart, AvatarIsLive, LiveAvatars
<1>6. QED
  BY <1>4, <1>5

\* An upload goes on, or ends, and the tables stay as they are.
LEMMA UploadGoesOn ==
  ASSUME JobPart, UploadPart, ImagePart, NEW u \in Uploaders,
         \/ Read(u) \/ Lock(u) \/ UndoUpload(u) \/ PurgeReplaced(u) \/ CrashUpload(u)
         \/ Commit(u) /\ UNCHANGED <<image, avatar, rows>> /\ Goes(u, "undo")
  PROVE  JobPart' /\ UploadPart' /\ ImagePart'
<1>1. UNCHANGED <<image, avatar, rows, worker>>
  BY DEF Read, Lock, UndoUpload, PurgeReplaced, CrashUpload, Commit
<1>2. /\ uploader[u] \in Uploader /\ UploadFits(u)
      /\ \A v \in Uploaders \ {u} :
           uploader[u].pc # "idle" => uploader[v].image # uploader[u].image
                                      \/ uploader[v].pc = "idle"
  BY DEF UploadPart, OneUploadPerImage
<1>3. UploadPart'
  <2>1. CASE UndoUpload(u) \/ PurgeReplaced(u) \/ CrashUpload(u)
    <3>1. uploader' = [uploader EXCEPT ![u] = Unoccupied]
      BY <2>1 DEF UndoUpload, PurgeReplaced, CrashUpload, Leaves
    <3>2. QED
      BY <1>1, <3>1, UnoccupiedFacts, UploadMoves
  <2>2. CASE Read(u)
    <3> DEFINE next == [uploader[u] EXCEPT !.pc = "lock", !.seen = LiveAvatars]
    <3>1. uploader' = [uploader EXCEPT ![u] = next] /\ uploader[u].pc = "read"
      BY <2>2 DEF Read
    <3>2. LiveAvatars \subseteq Images
      BY DEF LiveAvatars
    <3>3. /\ next \in Uploader /\ next.pc = "lock" /\ next.image = uploader[u].image
          /\ next.kind = uploader[u].kind /\ next.replaced = uploader[u].replaced
      BY <1>2, <3>2 DEF Uploader
    <3> HIDE DEF next
    <3>4. QED
      BY <1>1, <1>2, <3>1, <3>3, UploadMoves DEF UploadFits
  <2>3. CASE Lock(u)
    <3> DEFINE live == uploader[u].seen \cap LiveAvatars
               objects == {<<image[i].key, i>> : i \in live}
               next == [uploader[u] EXCEPT !.pc = "commit", !.seen = live, !.replaced = objects]
    <3>1. uploader' = [uploader EXCEPT ![u] = next] /\ uploader[u].pc = "lock"
      BY <2>3 DEF Lock
    <3>2. live \subseteq Images /\ \A i \in live : image[i].kind = "avatar"
      BY DEF LiveAvatars
    <3>3. objects \subseteq Object
      BY <3>2 DEF ImagePart, Image, Object
    <3>4. \A o \in objects : image[o[2]].kind = "avatar"
      BY <3>2
    <3> HIDE DEF live, objects
    <3>5. /\ next \in Uploader /\ next.pc = "commit" /\ next.image = uploader[u].image
          /\ next.kind = uploader[u].kind /\ next.replaced = objects
      BY <1>2, <3>2, <3>3 DEF Uploader
    <3> HIDE DEF next
    <3>6. next.kind # "content"
      BY <1>2, <3>1, <3>5 DEF UploadFits
    <3>7. QED
      BY <1>1, <1>2, <3>1, <3>4, <3>5, <3>6, UploadMoves DEF UploadFits
  <2>4. CASE Commit(u) /\ UNCHANGED <<image, avatar, rows>> /\ Goes(u, "undo")
    <3> DEFINE next == [uploader[u] EXCEPT !.pc = "undo"]
    <3>1. uploader' = [uploader EXCEPT ![u] = next] /\ uploader[u].pc = "commit"
      BY <2>4 DEF Commit, Goes
    <3>2. /\ next \in Uploader /\ next.pc = "undo" /\ next.image = uploader[u].image
          /\ next.kind = uploader[u].kind /\ next.replaced = uploader[u].replaced
      BY <1>2 DEF Uploader
    <3> HIDE DEF next
    <3>3. QED
      BY <1>1, <1>2, <3>1, <3>2, UploadMoves DEF UploadFits
  <2>5. QED
    BY <2>1, <2>2, <2>3, <2>4
<1>4. JobPart' /\ ImagePart'
  BY <1>1 DEF JobPart, HoldsItsJob, OneWorkerPerImage, ImagePart, AvatarIsLive, LiveAvatars
<1>5. QED
  BY <1>3, <1>4

\* The transaction of an upload: its row and its job are new, and what it
\* replaces is deleted.
LEMMA InsertedFacts ==
  ASSUME JobPart, UploadPart, ImagePart, NEW u \in Uploaders, uploader[u].pc = "commit",
         Inserted(u)
  PROVE  /\ uploader[u].image \in Images
         /\ image[uploader[u].image].kind = "absent"
         /\ rows[uploader[u].image].status = "absent"
         /\ image' \in [Images -> Image]
         /\ image'[uploader[u].image] = [kind |-> uploader[u].kind, status |-> "pending",
                                         key |-> "pending", deleted |-> FALSE]
         /\ \A j \in Images \ {uploader[u].image} :
              /\ image'[j].kind = image[j].kind
              /\ image'[j].status = image[j].status
              /\ image'[j].key = image[j].key
              /\ image'[j].deleted <=> image[j].deleted \/ j \in Replaced(u)
<1> DEFINE i == uploader[u].image
           gone == Replaced(u)
<1>1. /\ uploader[u] \in Uploader /\ i \in Images
      /\ image[i].kind = "absent" /\ rows[i].status = "absent"
  BY DEF UploadPart, UploadFits, ImagePart
<1>2. image' = [j \in Images |->
                  IF j = i THEN [kind |-> uploader[u].kind, status |-> "pending",
                                 key |-> "pending", deleted |-> FALSE]
                  ELSE [image[j] EXCEPT !.deleted = @ \/ j \in gone]]
  BY DEF Inserted
<1> HIDE DEF gone
<1>3. [kind |-> uploader[u].kind, status |-> "pending", key |-> "pending", deleted |-> FALSE]
        \in Image
  BY <1>1 DEF Uploader, Kind, Image, Status, Key
<1>4. ASSUME NEW j \in Images
      PROVE  /\ [image[j] EXCEPT !.deleted = @ \/ j \in gone] \in Image
             /\ [image[j] EXCEPT !.deleted = @ \/ j \in gone].kind = image[j].kind
             /\ [image[j] EXCEPT !.deleted = @ \/ j \in gone].status = image[j].status
             /\ [image[j] EXCEPT !.deleted = @ \/ j \in gone].key = image[j].key
             /\ [image[j] EXCEPT !.deleted = @ \/ j \in gone].deleted
                  = (image[j].deleted \/ j \in gone)
  <2>1. image[j] \in Image
    BY DEF ImagePart
  <2>2. PICK deleted \in BOOLEAN : deleted = (image[j].deleted \/ j \in gone)
    OBVIOUS
  <2>3. [image[j] EXCEPT !.deleted = @ \/ j \in gone] = [image[j] EXCEPT !.deleted = deleted]
    BY <2>2
  <2>4. QED
    BY <2>1, <2>2, <2>3 DEF Image
<1>5. image' \in [Images -> Image]
  BY <1>2, <1>3, <1>4
<1>6. ASSUME NEW j \in Images \ {i}
      PROVE  /\ image'[j].kind = image[j].kind
             /\ image'[j].status = image[j].status
             /\ image'[j].key = image[j].key
             /\ image'[j].deleted = (image[j].deleted \/ j \in gone)
  BY <1>2, <1>4
<1> USE DEF gone
<1>7. QED
  BY <1>1, <1>2, <1>5, <1>6

\* A content image replaces nothing, and an avatar every other one that is live,
\* among them what it has read.
LEMMA ReplacedFacts ==
  ASSUME UploadPart, ImagePart, NEW u \in Uploaders
  PROVE  /\ uploader[u].kind = "content" => Replaced(u) = {}
         /\ \A j \in Replaced(u) : image[j].kind = "avatar"
         /\ \A o \in uploader[u].replaced :
              o[2] # uploader[u].image => image[o[2]].deleted \/ o[2] \in Replaced(u)
<1>1. UploadFits(u) /\ uploader[u] \in Uploader
  BY DEF UploadPart
<1>2. \A o \in uploader[u].replaced : o[2] \in Images /\ image[o[2]].kind = "avatar"
  BY <1>1 DEF UploadFits, Uploader, Object
<1>3. QED
  BY <1>1, <1>2 DEF UploadFits, Replaced, LiveAvatars

LEMMA CommitKeeps ==
  ASSUME JobPart, UploadPart, ImagePart, NEW u \in Uploaders, Commit(u)
  PROVE  JobPart' /\ UploadPart' /\ ImagePart'
<1> DEFINE i == uploader[u].image
<1>1. CASE UNCHANGED <<image, avatar, rows>> /\ Goes(u, "undo")
  BY <1>1, UploadGoesOn
<1>2. CASE Inserted(u) /\ (Goes(u, "purge") \/ Goes(u, "undo"))
  <2>1. uploader[u].pc = "commit" /\ worker' = worker
    BY DEF Commit
  <2>2. /\ i \in Images /\ image[i].kind = "absent" /\ rows[i].status = "absent"
        /\ image' \in [Images -> Image]
        /\ image'[i] = [kind |-> uploader[u].kind, status |-> "pending",
                        key |-> "pending", deleted |-> FALSE]
        /\ \A j \in Images \ {i} : /\ image'[j].kind = image[j].kind
                                   /\ image'[j].deleted <=> image[j].deleted \/ j \in Replaced(u)
    BY <1>2, <2>1, InsertedFacts
  <2>3. image'[i].kind = uploader[u].kind /\ ~image'[i].deleted
    BY <2>2
  <2>4. /\ uploader[u] \in Uploader /\ UploadFits(u)
        /\ uploader[u].kind \in {"avatar", "content"}
    BY DEF UploadPart, Uploader, Kind
  <2>5. /\ rows' \in [Images -> Row]
        /\ rows'[i] = NewRow
        /\ \A j \in Images \ {i} :
             \/ rows'[j] = rows[j]
             \/ rows[j].status = "pending" /\ rows'[j].status = "succeeded"
    <3> DEFINE gone == Replaced(u)
    <3>1. rows' = [j \in Images |->
                     IF j = i THEN NewRow
                     ELSE IF j \in gone /\ rows[j].status = "pending" THEN MarkedSucceeded(rows[j])
                     ELSE rows[j]]
      BY <1>2 DEF Inserted
    <3> HIDE DEF gone
    <3>2. \A j \in Images : /\ rows[j] \in Row /\ MarkedSucceeded(rows[j]) \in Row
                            /\ MarkedSucceeded(rows[j]).status = "succeeded"
      BY MarkedSucceededFacts DEF JobPart
    <3>3. QED
      BY <2>2, <3>1, <3>2, NewRowFacts
  <2>6. JobPart'
    <3>1. \A j \in Images : rows'[j].status = "pending" => rows'[j].attempts < MaxAttempts
      BY <2>5, NewRowFacts, MaxAttemptsAssumption DEF JobPart
    <3>2. \A w \in Workers :
            worker[w].pc # "idle" => rows'[worker[w].image] = rows[worker[w].image]
      BY <2>2, <2>5 DEF JobPart, HoldsItsJob
    <3>3. QED
      BY <2>1, <2>5, <3>1, <3>2, RowsChangeKeepsJobPart DEF JobPart
  <2>7. ImagePart'
    <3>1. AvatarIsLive' /\ avatar' \in Images \cup {NoImage}
      <4>1. CASE uploader[u].kind = "avatar"
        BY <1>2, <2>2, <2>3, <4>1 DEF Inserted, AvatarIsLive, LiveAvatars
      <4>2. CASE uploader[u].kind = "content"
        <5>1. avatar' = avatar /\ Replaced(u) = {}
          BY <1>2, <4>2, ReplacedFacts DEF Inserted
        <5>2. avatar # NoImage => avatar \in Images \ {i} /\ image[avatar].kind = "avatar"
                                  /\ ~image[avatar].deleted
          BY <2>2 DEF ImagePart, AvatarIsLive, LiveAvatars
        <5>3. QED
          BY <2>2, <5>1, <5>2 DEF ImagePart, AvatarIsLive, LiveAvatars
      <4>3. QED
        BY <2>4, <4>1, <4>2
    <3>2. \A j \in Images : image'[j].kind = "absent" => rows'[j].status = "absent"
      BY <2>2, <2>3, <2>4, <2>5 DEF ImagePart
    <3>3. QED
      BY <2>2, <3>1, <3>2 DEF ImagePart
  <2>8. UploadPart'
    <3> DEFINE pc == uploader'[u].pc
               next == [uploader[u] EXCEPT !.pc = pc]
    <3>1. uploader' = [uploader EXCEPT ![u] = next] /\ pc \in {"purge", "undo"}
      BY <1>2 DEF Goes, UploadPart, Uploader
    <3> HIDE DEF pc
    <3>2. /\ next \in Uploader /\ next.pc = pc /\ next.image = i
          /\ next.replaced = uploader[u].replaced /\ next.kind = uploader[u].kind
      BY <2>4, <3>1 DEF Uploader
    <3> HIDE DEF next
    <3>3. /\ uploader' \in [Uploaders -> Uploader] /\ uploader'[u] = next
          /\ \A v \in Uploaders \ {u} : uploader'[v] = uploader[v]
      BY <3>1, <3>2 DEF UploadPart
    <3>4. \A v \in Uploaders \ {u} : uploader[v].pc # "idle" => uploader[v].image # i
      BY <2>1 DEF UploadPart, OneUploadPerImage
    <3>5. \A j \in Images \ {i} : image[j].deleted => image'[j].deleted
      BY <2>2
    <3>6. ASSUME NEW v \in Uploaders PROVE UploadFits(v)'
      <4>1. uploader[v] \in Uploader /\ UploadFits(v)
        BY DEF UploadPart
      <4>2. \A o \in uploader[v].replaced : o[2] \in Images \ {i} /\ image[o[2]].kind = "avatar"
        BY <2>2, <4>1 DEF Uploader, Object, UploadFits
      <4>3. CASE v = u
        <5>1. \A o \in uploader[u].replaced : image'[o[2]].kind = "avatar" /\ image'[o[2]].deleted
          BY <2>2, <4>2, <4>3, ReplacedFacts
        <5>2. QED
          BY <2>2, <2>4, <3>1, <3>2, <3>3, <4>3, <5>1 DEF UploadFits
      <4>4. CASE v # u
        <5>1. uploader'[v] = uploader[v]
          BY <3>3, <4>4
        <5>2. \A o \in uploader[v].replaced :
                /\ image'[o[2]].kind = "avatar"
                /\ uploader[v].pc = "purge" => image'[o[2]].deleted
          BY <2>2, <3>5, <4>1, <4>2 DEF UploadFits
        <5>3. uploader[v].pc \in {"read", "lock", "commit"}
                => image'[uploader[v].image].kind = "absent"
          BY <2>2, <3>4, <4>1, <4>4 DEF UploadFits
        <5>4. QED
          BY <4>1, <5>1, <5>2, <5>3 DEF UploadFits
      <4>5. QED
        BY <4>3, <4>4
    <3>7. OneUploadPerImage'
      <4>1. SUFFICES ASSUME NEW v \in Uploaders, NEW x \in Uploaders, v # x,
                            uploader'[v].pc # "idle", uploader'[x].pc # "idle"
                     PROVE  uploader'[v].image # uploader'[x].image
        BY DEF OneUploadPerImage
      <4>2. CASE v = u
        BY <3>2, <3>3, <3>4, <4>1, <4>2
      <4>3. CASE x = u
        BY <3>2, <3>3, <3>4, <4>1, <4>3
      <4>4. CASE v # u /\ x # u
        BY <3>3, <4>1, <4>4 DEF UploadPart, OneUploadPerImage
      <4>5. QED
        BY <4>2, <4>3, <4>4
    <3>8. QED
      BY <3>3, <3>6, <3>7 DEF UploadPart
  <2>9. QED
    BY <2>6, <2>7, <2>8
<1>3. QED
  BY <1>1, <1>2 DEF Commit

LEMMA DeleteKeeps ==
  ASSUME JobPart, UploadPart, ImagePart, NEW i \in Images, DeleteContentImage(i)
  PROVE  /\ JobPart' /\ UploadPart' /\ ImagePart'
         /\ image' \in [Images -> Image]
         /\ \A j \in Images : /\ image'[j].kind = image[j].kind
                              /\ image'[j].status = image[j].status
                              /\ image'[j].key = image[j].key
                              /\ image[j].deleted => image'[j].deleted
<1>1. /\ image[i].kind = "content" /\ image' = [image EXCEPT ![i].deleted = TRUE]
      /\ UNCHANGED <<avatar, rows, uploader, worker>>
  BY DEF DeleteContentImage
<1>2. image \in [Images -> Image]
  BY DEF ImagePart
<1>3. /\ image' \in [Images -> Image]
      /\ \A j \in Images : /\ image'[j].kind = image[j].kind
                           /\ image'[j].status = image[j].status
                           /\ image'[j].key = image[j].key
                           /\ image[j].deleted => image'[j].deleted
      /\ \A j \in Images \ {i} : image'[j] = image[j]
  BY <1>1, <1>2 DEF Image
<1>4. UploadPart'
  BY <1>1, <1>3, SameUploads
<1>5. JobPart'
  BY <1>1 DEF JobPart, HoldsItsJob, OneWorkerPerImage
<1>6. ImagePart'
  BY <1>1, <1>3 DEF ImagePart, AvatarIsLive, LiveAvatars
<1>7. QED
  BY <1>3, <1>4, <1>5, <1>6

-----------------------------------------------------------------------------
(* Types, and the avatar.                                                  *)

LEMMA OtherKept ==
  ASSUME JobPart, UploadPart, ImagePart, OtherPart, [Next]_vars
  PROVE  OtherPart'
<1>1. \A w \in Workers : worker[w].pc # "idle" => Result(w) \in Object
  BY DEF JobPart, HoldsItsJob, Result, Object, Key
<1>2. requests' \in 0 .. MaxRequests
  <2>1. requests' = requests \/ Requested
    BY DEF Next, vars, Begin, UploadStep, Read, Lock, Commit, UndoUpload, PurgeReplaced,
           CrashUpload, DeleteContentImage, BackoffElapses, RetryAdminJob, WorkerStep, Claim,
           Load, Open, Put, Complete, Undo, Purge, Mark, FailImage, Fail, Crash
  <2>2. QED
    BY <2>1, BoundsAssumption DEF Requested, OtherPart
<1>3. faults' = faults
  BY DEF Next, vars, Begin, UploadStep, Read, Lock, Commit, UndoUpload, PurgeReplaced,
         CrashUpload, DeleteContentImage, BackoffElapses, RetryAdminJob, WorkerStep, Claim,
         Load, Open, Put, Complete, Undo, Purge, Mark, FailImage, Fail, Crash
<1>4. \/ store' \subseteq store
      \/ \E i \in Images : store' = store \cup {<<"pending", i>>}
      \/ \E w \in Workers : worker[w].pc # "idle" /\ store' = store \cup {Result(w)}
  BY DEF Next, vars, Begin, UploadStep, Read, Lock, Commit, UndoUpload, PurgeReplaced,
         CrashUpload, DeleteContentImage, BackoffElapses, RetryAdminJob, WorkerStep, Claim,
         Load, Open, Put, Complete, Undo, Purge, Mark, FailImage, Fail, Crash, Removed, At
<1>5. store' \subseteq Object
  BY <1>1, <1>4 DEF OtherPart, Object, Key
<1>6. QED
  BY <1>2, <1>3, <1>5 DEF OtherPart

LEMMA InitEstablishesIInv == Init => IInv
<1> SUFFICES ASSUME Init PROVE IInv
  OBVIOUS
<1>1. JobPart
  BY NewRowFacts, RestingFacts, MaxAttemptsAssumption
     DEF Init, JobPart, HoldsItsJob, OneWorkerPerImage
<1>2. UploadPart
  BY UnoccupiedFacts DEF Init, UploadPart, UploadFits, OneUploadPerImage, Unoccupied
<1>3. ImagePart
  <2>1. [kind |-> "absent", status |-> "pending", key |-> "pending",
         deleted |-> FALSE] \in Image
    BY DEF Image, Status, Key
  <2>2. QED
    BY <2>1, NewRowFacts DEF Init, ImagePart, AvatarIsLive
<1>4. OtherPart
  BY BoundsAssumption DEF Init, OtherPart
<1>5. QED
  BY <1>1, <1>2, <1>3, <1>4 DEF IInv

LEMMA NextKeepsIInv == IInv /\ [Next]_vars => IInv'
<1> SUFFICES ASSUME IInv, [Next]_vars PROVE IInv'
  OBVIOUS
<1> USE DEF IInv
<1>1. OtherPart'
  BY OtherKept
<1>2. JobPart' /\ UploadPart' /\ ImagePart'
  <2>1. ASSUME NEW u \in Uploaders, NEW kind \in Kind, NEW i \in Images, Begin(u, kind, i)
        PROVE  <1>2
    BY <2>1, BeginKeeps
  <2>2. ASSUME NEW u \in Uploaders, UploadStep(u) \/ CrashUpload(u)
        PROVE  <1>2
    BY <2>2, UploadGoesOn, CommitKeeps DEF UploadStep
  <2>3. ASSUME NEW i \in Images, DeleteContentImage(i) \/ BackoffElapses(i) \/ RetryAdminJob(i)
        PROVE  <1>2
    BY <2>3, DeleteKeeps, QueueKeeps
  <2>4. ASSUME NEW w \in Workers, WorkerStep(w) \/ Crash(w)
        PROVE  <1>2
    BY <2>4, WorkerKeeps, QueueKeeps DEF WorkerStep
  <2>5. CASE UNCHANGED vars
    BY <2>5 DEF vars, JobPart, HoldsItsJob, OneWorkerPerImage, UploadPart, UploadFits,
                OneUploadPerImage, ImagePart, AvatarIsLive, LiveAvatars
  <2>6. QED
    BY <2>1, <2>2, <2>3, <2>4, <2>5 DEF Next
<1>3. QED
  BY <1>1, <1>2

LEMMA Invariance == Spec => []IInv
<1>1. QED
  BY InitEstablishesIInv, NextKeepsIInv, PTL DEF Spec

\* Every variable has its type, whatever fails.
THEOREM TypeCorrect == Spec => []TypeOK
<1>1. IInv => TypeOK
  BY DEF IInv, JobPart, UploadPart, ImagePart, OtherPart, TypeOK
<1>2. QED
  BY <1>1, Invariance, PTL

\* The avatar of the owner is never one that was replaced, however many uploads
\* overlap, and whatever fails.
THEOREM TheAvatarIsLive == Spec => []AvatarIsLive
<1>1. IInv => AvatarIsLive
  BY DEF IInv, ImagePart
<1>2. QED
  BY <1>1, Invariance, PTL

-----------------------------------------------------------------------------
(* What is served.                                                         *)

\* A worker's image is "running" until its result is known, and the result is in
\* the store before the row names it; if the avatar was replaced meanwhile, it
\* never will.
WorkFits(w) ==
  /\ worker[w].pc \in {"open", "put", "complete", "undo"}
       => image[worker[w].image].status = "running"
  /\ worker[w].pc = "complete" /\ Reaches(worker[w].image) => Result(w) \in store

ProcessedFits(i) ==
  image[i].status = "processed" =>
    image[i].key = "processed" /\ (~image[i].deleted => <<"processed", i>> \in store)

ServedPart ==
  "lost_reply" \notin faults =>
    (\A w \in Workers : WorkFits(w)) /\ (\A i \in Images : ProcessedFits(i))

\* Users insert and delete rows; of the objects they remove none is a result
\* that a live row names or is about to.
LEMMA UsersKeepServed ==
  ASSUME JobPart, NEW gone, worker' = worker,
         \A w \in Workers : WorkFits(w), \A i \in Images : ProcessedFits(i),
         \A j \in Images :
           \/ /\ image'[j].kind = image[j].kind /\ image'[j].status = image[j].status
              /\ image'[j].key = image[j].key
              /\ image[j].deleted => image'[j].deleted
           \/ image'[j].status = "pending" /\ rows[j].status = "absent",
         store \ gone \subseteq store',
         \A o \in gone : \/ o[1] = "pending"
                         \/ image'[o[2]].deleted /\ image'[o[2]].kind = "avatar"
  PROVE  (\A w \in Workers : WorkFits(w)') /\ (\A i \in Images : ProcessedFits(i)')
<1>1. ASSUME NEW w \in Workers PROVE WorkFits(w)'
  <2>1. CASE worker[w].pc = "idle"
    BY <2>1 DEF WorkFits
  <2>2. CASE worker[w].pc # "idle"
    <3> DEFINE i == worker[w].image
    <3>1. i \in Images /\ rows[i].status # "absent"
      BY <2>2 DEF JobPart, HoldsItsJob
    <3>2. /\ image'[i].kind = image[i].kind /\ image'[i].status = image[i].status
          /\ image[i].deleted => image'[i].deleted
      BY <3>1
    <3>3. ASSUME worker[w].pc = "complete", image'[i].kind = "content" \/ ~image'[i].deleted
          PROVE  <<"processed", i>> \in store'
      <4>1. <<"processed", i>> \in store
        BY <3>2, <3>3 DEF WorkFits, Reaches, Result
      <4>2. <<"processed", i>> \notin gone
        <5>1. <<"processed", i>>[1] # "pending" /\ <<"processed", i>>[2] = i
          OBVIOUS
        <5>2. ~(image'[i].deleted /\ image'[i].kind = "avatar")
          BY <3>3
        <5>3. QED
          BY <5>1, <5>2
      <4>3. QED
        BY <4>1, <4>2
    <3>4. QED
      BY <3>2, <3>3 DEF WorkFits, Reaches, Result
  <2>3. QED
    BY <2>1, <2>2
<1>2. ASSUME NEW i \in Images PROVE ProcessedFits(i)'
  <2>1. SUFFICES ASSUME image'[i].status = "processed"
                 PROVE  image'[i].key = "processed"
                        /\ (~image'[i].deleted => <<"processed", i>> \in store')
    BY DEF ProcessedFits
  <2>2. /\ image[i].status = "processed" /\ image'[i].key = image[i].key
        /\ image[i].deleted => image'[i].deleted
    BY <2>1
  <2>3. <<"processed", i>>[1] # "pending" /\ <<"processed", i>>[2] = i
    OBVIOUS
  <2>4. QED
    BY <2>2, <2>3 DEF ProcessedFits
<1>3. QED
  BY <1>1, <1>2

LEMMA UserStepKeepsServed ==
  ASSUME IInv, \A w \in Workers : WorkFits(w), \A i \in Images : ProcessedFits(i),
         \/ \E u \in Uploaders :
              \/ \E kind \in Kind, i \in Images : Begin(u, kind, i)
              \/ UploadStep(u) \/ CrashUpload(u)
         \/ \E i \in Images : DeleteContentImage(i)
  PROVE  (\A w \in Workers : WorkFits(w)') /\ (\A i \in Images : ProcessedFits(i)')
<1> USE DEF IInv
<1>1. CASE \E u \in Uploaders :
             \/ \E kind \in Kind, i \in Images : Begin(u, kind, i)
             \/ Read(u) \/ Lock(u) \/ CrashUpload(u)
             \/ Commit(u) /\ UNCHANGED image
  <2>1. image' = image /\ worker' = worker /\ store \subseteq store'
    BY <1>1 DEF Begin, Read, Lock, CrashUpload, Commit
  <2> DEFINE gone == {}
  <2>2. store \ gone \subseteq store' /\ \A o \in gone : o[1] = "pending"
    BY <2>1
  <2> HIDE DEF gone
  <2>3. QED
    BY <2>1, <2>2, UsersKeepServed
<1>2. ASSUME NEW u \in Uploaders, Commit(u), Inserted(u)
      PROVE  (\A w \in Workers : WorkFits(w)') /\ (\A i \in Images : ProcessedFits(i)')
  <2>1. worker' = worker /\ store' = store /\ uploader[u].pc = "commit"
    BY <1>2 DEF Commit
  <2>2. /\ uploader[u].image \in Images /\ rows[uploader[u].image].status = "absent"
        /\ image'[uploader[u].image] = [kind |-> uploader[u].kind, status |-> "pending",
                                        key |-> "pending", deleted |-> FALSE]
        /\ \A j \in Images \ {uploader[u].image} :
             /\ image'[j].kind = image[j].kind /\ image'[j].status = image[j].status
             /\ image'[j].key = image[j].key
             /\ image[j].deleted => image'[j].deleted
    BY <1>2, <2>1, InsertedFacts
  <2>3. image'[uploader[u].image].status = "pending"
    BY <2>2
  <2> DEFINE gone == {}
  <2>4. store \ gone \subseteq store' /\ \A o \in gone : o[1] = "pending"
    BY <2>1
  <2> HIDE DEF gone
  <2>5. QED
    BY <2>1, <2>2, <2>3, <2>4, UsersKeepServed
<1>3. ASSUME NEW u \in Uploaders, UndoUpload(u)
      PROVE  (\A w \in Workers : WorkFits(w)') /\ (\A i \in Images : ProcessedFits(i)')
  <2> DEFINE gone == {<<"pending", uploader[u].image>>}
  <2>1. image' = image /\ worker' = worker /\ store \ gone \subseteq store'
    BY <1>3 DEF UndoUpload, Removed
  <2>2. \A o \in gone : o[1] = "pending"
    OBVIOUS
  <2> HIDE DEF gone
  <2>3. QED
    BY <2>1, <2>2, UsersKeepServed
<1>4. ASSUME NEW u \in Uploaders, PurgeReplaced(u)
      PROVE  (\A w \in Workers : WorkFits(w)') /\ (\A i \in Images : ProcessedFits(i)')
  <2> DEFINE gone == uploader[u].replaced
  <2>1. image' = image /\ worker' = worker /\ store \ gone \subseteq store'
        /\ uploader[u].pc = "purge"
    BY <1>4 DEF PurgeReplaced, Removed
  <2>2. \A o \in gone : image'[o[2]].deleted /\ image'[o[2]].kind = "avatar"
    BY <2>1 DEF UploadPart, UploadFits
  <2> HIDE DEF gone
  <2>3. QED
    BY <2>1, <2>2, UsersKeepServed
<1>5. ASSUME NEW i \in Images, DeleteContentImage(i)
      PROVE  (\A w \in Workers : WorkFits(w)') /\ (\A j \in Images : ProcessedFits(j)')
  <2>1. \A j \in Images : /\ image'[j].kind = image[j].kind
                          /\ image'[j].status = image[j].status
                          /\ image'[j].key = image[j].key
                          /\ image[j].deleted => image'[j].deleted
    BY <1>5, DeleteKeeps
  <2> DEFINE gone == {}
  <2>2. /\ worker' = worker /\ store \ gone \subseteq store'
        /\ \A o \in gone : o[1] = "pending"
    BY <1>5 DEF DeleteContentImage
  <2> HIDE DEF gone
  <2>3. QED
    BY <2>1, <2>2, UsersKeepServed
<1>6. QED
  BY <1>1, <1>2, <1>3, <1>4, <1>5 DEF UploadStep, Commit

\* Worker w moves; what it writes is its own image, what it removes is not what
\* a row names.
LEMMA WorkerStepKeepsServed ==
  ASSUME IInv, "lost_reply" \notin faults, NEW w \in Workers,
         \A v \in Workers : WorkFits(v), \A i \in Images : ProcessedFits(i),
         \/ Load(w) \/ Open(w) \/ Put(w) \/ Complete(w) \/ Undo(w) \/ Purge(w)
         \/ FailImage(w) \/ Crash(w)
  PROVE  (\A v \in Workers : WorkFits(v)') /\ (\A i \in Images : ProcessedFits(i)')
<1> USE DEF IInv
<1>0. PICK i \in Images : i = worker[w].image
  BY WorkerKeeps
<1>1. /\ Moved(w)
      /\ \A j \in Images : image'[j].deleted = image[j].deleted
      /\ \A j \in Images \ {i} : image'[j] = image[j]
  BY <1>0, WorkerKeeps
<1>2. worker[w].pc # "idle"
  BY DEF Load, Open, Put, Complete, Undo, Purge, FailImage, Crash, At
<1>3. image[i].kind = image'[i].kind
  <2>1. image \in [Images -> Image]
    BY DEF ImagePart
  <2>2. QED
    BY <1>0, <1>1, <2>1 DEF Load, Open, Put, Complete, Undo, Purge, FailImage, Crash, Image
<1>4. store \ {Result(w), Original(w)} \subseteq store'
  BY DEF Load, Open, Put, Complete, Undo, Purge, FailImage, Crash, Removed
<1>5. ASSUME NEW v \in Workers \ {w} PROVE WorkFits(v)'
  <2>1. worker'[v] = worker[v]
    BY <1>1 DEF Moved
  <2>2. CASE worker[v].pc = "idle"
    BY <2>1, <2>2 DEF WorkFits
  <2>3. CASE worker[v].pc # "idle"
    <3>1. worker[v].image \in Images \ {i}
      BY <1>0, <1>2, <2>3 DEF JobPart, HoldsItsJob, OneWorkerPerImage
    <3>2. image'[worker[v].image] = image[worker[v].image]
      BY <1>1, <3>1
    <3>3. Result(v) # Result(w) /\ Result(v) # Original(w)
      BY <1>0, <3>1 DEF Result, Original
    <3>4. Result(v)' = Result(v)
      BY <2>1 DEF Result
    <3>5. QED
      BY <1>4, <2>1, <3>2, <3>3, <3>4 DEF WorkFits, Reaches
  <2>4. QED
    BY <2>2, <2>3
<1>6. ASSUME NEW j \in Images \ {i} PROVE ProcessedFits(j)'
  <2>1. <<"processed", j>> # Result(w) /\ <<"processed", j>> # Original(w)
    BY <1>0 DEF Result, Original
  <2>2. QED
    BY <1>1, <1>4, <2>1 DEF ProcessedFits
<1>7. WorkFits(w)' /\ ProcessedFits(i)'
  <2> USE DEF At
  <2>1. image \in [Images -> Image] /\ image[i] \in Image /\ WorkFits(w) /\ ProcessedFits(i)
    BY <1>0, <1>1 DEF ImagePart
  <2>2. ASSUME NEW pc \in {"put", "complete", "undo", "purge", "mark", "failimage", "fail"},
               Goto(w, pc)
        PROVE  /\ worker'[w].pc = pc /\ worker'[w].image = i
               /\ Result(w)' = Result(w)
    BY <1>0, <1>2, <2>2, GotoMoves DEF Result
  <2>3. CASE Load(w)
    <3>1. CASE /\ image' = [image EXCEPT ![i].status = "running"]
               /\ worker' = [worker EXCEPT ![w].pc = "open", ![w].key = image[i].key]
      <4>1. image'[i].status = "running"
        BY <1>0, <1>1, <2>1, <3>1
      <4>2. worker'[w].pc = "open" /\ worker'[w].image = i
        BY <1>0, <3>1 DEF JobPart, Worker
      <4>3. QED
        BY <1>0, <4>1, <4>2 DEF WorkFits, ProcessedFits
    <3>2. CASE image' = image /\ (Goto(w, "mark") \/ Goto(w, "failimage"))
      <4>1. worker'[w].pc \in {"mark", "failimage"} /\ store' = store
        BY <1>0, <2>2, <2>3, <3>2 DEF Load
      <4>2. QED
        BY <1>0, <2>1, <3>2, <4>1 DEF WorkFits, ProcessedFits
    <3>3. QED
      BY <1>0, <2>3, <3>1, <3>2 DEF Load
  <2>4. CASE Open(w)
    <3>1. image' = image /\ store' = store /\ worker[w].pc = "open"
          /\ worker'[w].pc \in {"put", "failimage"} /\ worker'[w].image = i
      BY <1>0, <2>2, <2>4 DEF Open
    <3>2. QED
      BY <1>0, <2>1, <3>1 DEF WorkFits, ProcessedFits
  <2>5. CASE Put(w)
    <3>1. image' = image /\ worker[w].pc = "put" /\ store \subseteq store'
      BY <1>0, <2>5 DEF Put
    <3>2. CASE Goto(w, "complete") /\ store' = store \cup {Result(w)}
      BY <1>0, <2>1, <2>2, <3>1, <3>2 DEF WorkFits, ProcessedFits
    <3>3. CASE Goto(w, "failimage")
      <4>1. worker'[w].pc = "failimage"
        BY <1>0, <2>2, <3>3
      <4>2. QED
        BY <1>0, <2>1, <3>1, <4>1 DEF WorkFits, ProcessedFits
    <3>4. QED
      BY <1>0, <2>5, <3>2, <3>3 DEF Put
  <2>6. CASE Complete(w)
    <3>1. store' = store /\ worker[w].pc = "complete"
      BY <1>0, <2>6 DEF Complete
    <3>2. CASE /\ Reaches(i) /\ Goto(w, "purge")
               /\ image' = [image EXCEPT ![i].status = "processed", ![i].key = "processed"]
      <4>1. worker'[w].pc = "purge" /\ image'[i].key = "processed"
        BY <1>0, <1>1, <2>1, <2>2, <3>2 DEF Image
      <4>2. <<"processed", i>> \in store'
        BY <1>0, <2>1, <3>1, <3>2 DEF WorkFits, Result
      <4>3. QED
        BY <1>0, <4>1, <4>2 DEF WorkFits, ProcessedFits
    <3>3. CASE image' = image /\ Goto(w, "undo")
      <4>1. worker'[w].pc = "undo" /\ worker'[w].image = i
        BY <1>0, <2>2, <3>3
      <4>2. QED
        BY <1>0, <2>1, <3>1, <3>3, <4>1 DEF WorkFits, ProcessedFits
    <3>4. QED
      BY <1>0, <2>6, <3>2, <3>3 DEF Complete
  <2>7. CASE Undo(w)
    <3>1. image' = image /\ worker[w].pc = "undo" /\ worker'[w].pc = "failimage"
      BY <1>0, <2>2, <2>7 DEF Undo
    <3>2. image'[i].status # "processed"
      BY <1>0, <2>1, <3>1 DEF WorkFits
    <3>3. QED
      BY <1>0, <3>1, <3>2 DEF WorkFits, ProcessedFits
  <2>8. CASE Purge(w)
    <3>1. image' = image /\ worker'[w].pc = "mark"
          /\ store \ ({Original(w)} \ {Result(w)}) \subseteq store'
      BY <1>0, <2>2, <2>8 DEF Purge, Removed
    <3>2. <<"processed", i>> \in store => <<"processed", i>> \in store'
      BY <1>0, <3>1 DEF Result
    <3>3. QED
      BY <1>0, <2>1, <3>1, <3>2 DEF WorkFits, ProcessedFits
  <2>9. CASE FailImage(w)
    <3>1. store' = store /\ worker'[w].pc = "fail"
      BY <1>0, <2>2, <2>9 DEF FailImage
    <3>2. image' = image \/ image' = [image EXCEPT ![i].status = "failed"]
      BY <1>0, <2>9 DEF FailImage
    <3>3. image'[i] = image[i] \/ image'[i].status = "failed"
      BY <1>1, <2>1, <3>2 DEF Image
    <3>4. QED
      BY <1>0, <2>1, <3>1, <3>3 DEF WorkFits, ProcessedFits
  <2>10. CASE Crash(w)
    <3>1. image' = image /\ store' = store /\ worker'[w].pc = "idle"
      BY <1>0, <2>10, RestMoves DEF Crash
    <3>2. QED
      BY <1>0, <2>1, <3>1 DEF WorkFits, ProcessedFits
  <2>11. QED
    BY <1>0, <2>3, <2>4, <2>5, <2>6, <2>7, <2>8, <2>9, <2>10
<1>8. QED
  BY <1>5, <1>6, <1>7

LEMMA QueueKeepsServed ==
  ASSUME IInv, \A v \in Workers : WorkFits(v), \A i \in Images : ProcessedFits(i),
         \/ \E w \in Workers : Mark(w) \/ Fail(w) \/ \E i \in Images : Claim(w, i)
         \/ \E i \in Images : BackoffElapses(i) \/ RetryAdminJob(i)
  PROVE  (\A v \in Workers : WorkFits(v)') /\ (\A i \in Images : ProcessedFits(i)')
<1>1. image' = image /\ store' = store
  BY QueueKeeps DEF IInv
<1>2. \A v \in Workers : \/ worker'[v] = worker[v]
                         \/ worker'[v].pc \in {"load", "idle", "failimage"}
  BY MarkKeepsJobPart, FailKeepsJobPart, ClaimKeepsJobPart, IdleRowKeepsJobPart DEF IInv
<1>3. QED
  BY <1>1, <1>2 DEF WorkFits, ProcessedFits, Reaches, Result

LEMMA NextKeepsServed == IInv /\ ServedPart /\ [Next]_vars => ServedPart'
<1> SUFFICES ASSUME IInv, ServedPart, [Next]_vars, "lost_reply" \notin faults'
             PROVE  (\A v \in Workers : WorkFits(v)') /\ (\A i \in Images : ProcessedFits(i)')
  BY DEF ServedPart
<1>1. "lost_reply" \notin faults
  BY DEF Next, vars, Begin, UploadStep, Read, Lock, Commit, UndoUpload, PurgeReplaced,
         CrashUpload, DeleteContentImage, BackoffElapses, RetryAdminJob, WorkerStep, Claim,
         Load, Open, Put, Complete, Undo, Purge, Mark, FailImage, Fail, Crash
<1>2. (\A v \in Workers : WorkFits(v)) /\ (\A i \in Images : ProcessedFits(i))
  BY <1>1 DEF ServedPart
<1>3. CASE \/ \E u \in Uploaders :
                \/ \E kind \in Kind, i \in Images : Begin(u, kind, i)
                \/ UploadStep(u) \/ CrashUpload(u)
           \/ \E i \in Images : DeleteContentImage(i)
  BY <1>2, <1>3, UserStepKeepsServed
<1>4. CASE \E w \in Workers : \/ Load(w) \/ Open(w) \/ Put(w) \/ Complete(w) \/ Undo(w)
                              \/ Purge(w) \/ FailImage(w) \/ Crash(w)
  BY <1>1, <1>2, <1>4, WorkerStepKeepsServed
<1>5. CASE \/ \E w \in Workers : Mark(w) \/ Fail(w) \/ \E i \in Images : Claim(w, i)
           \/ \E i \in Images : BackoffElapses(i) \/ RetryAdminJob(i)
  BY <1>2, <1>5, QueueKeepsServed
<1>6. CASE UNCHANGED vars
  BY <1>2, <1>6 DEF vars, WorkFits, ProcessedFits, Reaches, Result
<1>7. QED
  BY <1>3, <1>4, <1>5, <1>6 DEF Next, WorkerStep

\* What the API serves has its object: a row names a result only once it is
\* stored, and nobody removes it while the row is live, unless a statement that
\* took effect was reported as failed.
THEOREM WhatIsServedIsThere == Spec => []ServedHasItsObject
<1>1. Init => ServedPart
  BY DEF Init, ServedPart, WorkFits, ProcessedFits, Resting
<1>2. IInv /\ ServedPart => ServedHasItsObject
  BY DEF ServedPart, ProcessedFits, ServedHasItsObject
<1>3. QED
  BY <1>1, <1>2, NextKeepsServed, Invariance, PTL DEF Spec

-----------------------------------------------------------------------------
(* The gallery.                                                            *)

\* Which steps each kind of transaction takes.
Path(c) ==
  /\ edit[c].kind = "upload" => edit[c].pc \in {"idle", "quota", "insert", "key"}
  /\ edit[c].kind = "upload_primary" =>
       edit[c].pc \in {"idle", "quota", "snap", "rows", "insert", "key"}
  /\ edit[c].kind = "preview" => edit[c].pc \in {"item", "look", "quota", "insert"}
  /\ edit[c].kind = "choose" => edit[c].pc \in {"item", "snap", "rows", "set"}
  /\ edit[c].kind \in {"unset", "remove"} => edit[c].pc \in {"item", "set"}

\* Rows are updated late.
HoldsLate(c) == edit[c].held # {} => edit[c].pc \in {"insert", "key", "set"}

OneHoldsItem == \A c, d \in Editors : G!HoldsItem(c) /\ G!HoldsItem(d) => c = d

OneHoldsQuota == \A c, d \in Editors : G!HoldsQuota(c) /\ G!HoldsQuota(d) => c = d

\* Under the item's lock no primary image appears that the edit has not seen.
SeesAll(c) ==
  edit[c].kind = "choose" =>
    /\ G!At(c, "rows") => G!Primaries \subseteq edit[c].seen \cup {edit[c].row}
    /\ G!At(c, "set") => G!Primaries \subseteq edit[c].held \cup {edit[c].row}

GalleryInv ==
  /\ G!TypeOK
  /\ \A c \in Editors : Path(c) /\ HoldsLate(c) /\ G!FillsAGap(c) /\ SeesAll(c)
  /\ OneHoldsItem
  /\ OneHoldsQuota

-----------------------------------------------------------------------------
LEMMA NoEditIsIdle ==
  /\ G!NoEdit \in G!Edit
  /\ G!NoEdit.pc = "idle" /\ G!NoEdit.kind = "upload"
  /\ G!NoEdit.held = {} /\ G!NoEdit.seen = {}
  BY GalleryAssumption DEF G!NoEdit, G!Opened, G!Edit, G!Kind

LEMMA GalleryInit ==
  ASSUME G!Init
  PROVE  GalleryInv
<1>1. \A c \in Editors : edit[c] = G!NoEdit
  BY DEF G!Init
<1>2. G!TypeOK
  BY NoEditIsIdle, GalleryAssumption DEF G!Init, G!TypeOK
<1>3. QED
  BY <1>1, <1>2, NoEditIsIdle
  DEF GalleryInv, Path, HoldsLate, G!FillsAGap, SeesAll, OneHoldsItem, OneHoldsQuota,
      G!HoldsItem, G!HoldsQuota, G!Uploads, G!At

LEMMA BeginKeepsGallery ==
  ASSUME GalleryInv, NEW c \in Editors, NEW kind \in G!Kind, NEW p \in Pictures,
         G!Begin(c, kind, p)
  PROVE  GalleryInv'
<1>1. PICK e \in G!Edit :
        /\ edit' = [edit EXCEPT ![c] = e]
        /\ e.kind = kind /\ e.row = p /\ e.seen = {} /\ e.held = {}
        /\ e.pc = IF kind \in {"upload", "upload_primary"} THEN "quota" ELSE "item"
  <2> DEFINE e == G!Opened(IF kind \in {"upload", "upload_primary"} THEN "quota" ELSE "item",
                             kind, p)
  <2>1. e \in G!Edit
    BY DEF G!Opened, G!Edit
  <2>2. e.kind = kind /\ e.row = p /\ e.seen = {} /\ e.held = {}
        /\ e.pc = IF kind \in {"upload", "upload_primary"} THEN "quota" ELSE "item"
    BY DEF G!Opened
  <2>3. edit' = [edit EXCEPT ![c] = e]
    BY DEF G!Begin
  <2>4. QED
    BY <2>1, <2>2, <2>3
<1>2. UNCHANGED <<owned, picture>> /\ edits' \in 0 .. MaxEdits
  BY GalleryAssumption DEF G!Begin, GalleryInv, G!TypeOK
<1>3. edit \in [Editors -> G!Edit]
  BY DEF GalleryInv, G!TypeOK
<1>4. G!TypeOK'
  BY <1>1, <1>2, <1>3 DEF GalleryInv, G!TypeOK
<1>5. ASSUME NEW d \in Editors
      PROVE  Path(d)' /\ HoldsLate(d)' /\ G!FillsAGap(d)' /\ SeesAll(d)'
  <2>1. CASE d = c
    BY <1>1, <1>2, <1>3, <2>1
    DEF G!Kind, Path, HoldsLate, G!FillsAGap, SeesAll, G!At
  <2>2. CASE d # c
    BY <1>1, <1>2, <1>3, <2>2
    DEF GalleryInv, Path, HoldsLate, G!FillsAGap, SeesAll, G!At, G!Live, G!Primaries
  <2>3. QED
    BY <2>1, <2>2
<1>6. OneHoldsItem' /\ OneHoldsQuota'
  BY <1>1, <1>2, <1>3 DEF GalleryInv, OneHoldsItem, OneHoldsQuota, G!HoldsItem, G!HoldsQuota,
      G!Uploads, G!At
<1>7. QED
  BY <1>4, <1>5, <1>6 DEF GalleryInv

LEMMA TakeQuotaKeepsGallery ==
  ASSUME GalleryInv, NEW c \in Editors, G!TakeQuota(c)
  PROVE  GalleryInv'
<1>1. G!TypeOK'
  BY NoEditIsIdle DEF GalleryInv, G!TypeOK, G!Edit, G!Kind, G!TakeQuota, G!Goes, G!Ends,
      G!Committed, G!Live, G!Primaries, G!Uploads
<1>2. ASSUME NEW d \in Editors
      PROVE  Path(d)' /\ HoldsLate(d)' /\ G!FillsAGap(d)' /\ SeesAll(d)'
  BY NoEditIsIdle
  DEF GalleryInv, G!TypeOK, G!Edit, G!Kind, Path, HoldsLate, G!FillsAGap, SeesAll,
      OneHoldsItem, G!TakeQuota,
      G!Goes, G!Ends, G!Committed, G!Live, G!Primaries, G!HoldsItem, G!Uploads, G!WaitsFor, G!At
<1>3. OneHoldsItem'
  BY NoEditIsIdle
  DEF GalleryInv, G!TypeOK, G!Edit, Path, OneHoldsItem, G!TakeQuota, G!Goes, G!Ends,
      G!HoldsItem, G!Uploads, G!WaitsFor, G!At
<1>4. OneHoldsQuota'
  BY NoEditIsIdle
  DEF GalleryInv, G!TypeOK, G!Edit, Path, OneHoldsQuota, G!TakeQuota, G!Goes, G!Ends,
      G!HoldsQuota, G!Uploads, G!WaitsFor, G!At
<1>5. QED
  BY <1>1, <1>2, <1>3, <1>4 DEF GalleryInv

LEMMA TakeItemKeepsGallery ==
  ASSUME GalleryInv, NEW c \in Editors, G!TakeItem(c)
  PROVE  GalleryInv'
<1>1. G!TypeOK'
  BY NoEditIsIdle DEF GalleryInv, G!TypeOK, G!Edit, G!Kind, G!TakeItem, G!Goes, G!Ends,
      G!Committed, G!Live, G!Primaries, G!Uploads
<1>2. ASSUME NEW d \in Editors
      PROVE  Path(d)' /\ HoldsLate(d)' /\ G!FillsAGap(d)' /\ SeesAll(d)'
  BY NoEditIsIdle
  DEF GalleryInv, G!TypeOK, G!Edit, G!Kind, Path, HoldsLate, G!FillsAGap, SeesAll,
      OneHoldsItem, G!TakeItem,
      G!Goes, G!Ends, G!Committed, G!Live, G!Primaries, G!HoldsItem, G!Uploads, G!WaitsFor, G!At
<1>3. OneHoldsItem'
  BY NoEditIsIdle
  DEF GalleryInv, G!TypeOK, G!Edit, Path, OneHoldsItem, G!TakeItem, G!Goes, G!Ends,
      G!HoldsItem, G!Uploads, G!WaitsFor, G!At
<1>4. OneHoldsQuota'
  BY NoEditIsIdle
  DEF GalleryInv, G!TypeOK, G!Edit, Path, OneHoldsQuota, G!TakeItem, G!Goes, G!Ends,
      G!HoldsQuota, G!Uploads, G!WaitsFor, G!At
<1>5. QED
  BY <1>1, <1>2, <1>3, <1>4 DEF GalleryInv

LEMMA LookKeepsGallery ==
  ASSUME GalleryInv, NEW c \in Editors, G!Look(c)
  PROVE  GalleryInv'
<1>1. G!TypeOK'
  BY NoEditIsIdle DEF GalleryInv, G!TypeOK, G!Edit, G!Kind, G!Look, G!Goes, G!Ends,
      G!Committed, G!Live, G!Primaries, G!Uploads
<1>2. ASSUME NEW d \in Editors
      PROVE  Path(d)' /\ HoldsLate(d)' /\ G!FillsAGap(d)' /\ SeesAll(d)'
  BY NoEditIsIdle
  DEF GalleryInv, G!TypeOK, G!Edit, G!Kind, Path, HoldsLate, G!FillsAGap, SeesAll,
      OneHoldsItem, G!Look,
      G!Goes, G!Ends, G!Committed, G!Live, G!Primaries, G!HoldsItem, G!Uploads, G!WaitsFor, G!At
<1>3. OneHoldsItem'
  BY NoEditIsIdle
  DEF GalleryInv, G!TypeOK, G!Edit, Path, OneHoldsItem, G!Look, G!Goes, G!Ends, G!HoldsItem,
      G!Uploads, G!WaitsFor, G!At
<1>4. OneHoldsQuota'
  BY NoEditIsIdle
  DEF GalleryInv, G!TypeOK, G!Edit, Path, OneHoldsQuota, G!Look, G!Goes, G!Ends, G!HoldsQuota,
      G!Uploads, G!WaitsFor, G!At
<1>5. QED
  BY <1>1, <1>2, <1>3, <1>4 DEF GalleryInv

LEMMA SnapKeepsGallery ==
  ASSUME GalleryInv, NEW c \in Editors, G!Snap(c)
  PROVE  GalleryInv'
<1>1. G!TypeOK'
  BY NoEditIsIdle DEF GalleryInv, G!TypeOK, G!Edit, G!Kind, G!Snap, G!Goes, G!Ends,
      G!Committed, G!Live, G!Primaries, G!Uploads
<1>2. ASSUME NEW d \in Editors
      PROVE  Path(d)' /\ HoldsLate(d)' /\ G!FillsAGap(d)' /\ SeesAll(d)'
  BY NoEditIsIdle
  DEF GalleryInv, G!TypeOK, G!Edit, G!Kind, Path, HoldsLate, G!FillsAGap, SeesAll,
      OneHoldsItem, G!Snap,
      G!Goes, G!Ends, G!Committed, G!Live, G!Primaries, G!HoldsItem, G!Uploads, G!WaitsFor, G!At
<1>3. OneHoldsItem'
  BY NoEditIsIdle
  DEF GalleryInv, G!TypeOK, G!Edit, Path, OneHoldsItem, G!Snap, G!Goes, G!Ends, G!HoldsItem,
      G!Uploads, G!WaitsFor, G!At
<1>4. OneHoldsQuota'
  BY NoEditIsIdle
  DEF GalleryInv, G!TypeOK, G!Edit, Path, OneHoldsQuota, G!Snap, G!Goes, G!Ends, G!HoldsQuota,
      G!Uploads, G!WaitsFor, G!At
<1>5. QED
  BY <1>1, <1>2, <1>3, <1>4 DEF GalleryInv

LEMMA RowsKeepsGallery ==
  ASSUME GalleryInv, NEW c \in Editors, G!Rows(c)
  PROVE  GalleryInv'
<1>1. G!TypeOK'
  <2>1. edit[c] \in G!Edit
    BY DEF GalleryInv, G!TypeOK
  <2>2. [edit[c] EXCEPT !.pc = IF G!Uploads(c) THEN "insert" ELSE "set",
                        !.held = edit[c].seen \cap G!Primaries] \in G!Edit
    BY <2>1 DEF G!Edit, G!Primaries
  <2>3. edit' \in [Editors -> G!Edit]
    BY <2>2 DEF GalleryInv, G!TypeOK, G!Rows
  <2>4. QED
    BY <2>3 DEF GalleryInv, G!TypeOK, G!Rows
<1>2. ASSUME NEW d \in Editors
      PROVE  Path(d)' /\ HoldsLate(d)' /\ G!FillsAGap(d)' /\ SeesAll(d)'
  BY NoEditIsIdle
  DEF GalleryInv, G!TypeOK, G!Edit, G!Kind, Path, HoldsLate, G!FillsAGap, SeesAll,
      OneHoldsItem, G!Rows,
      G!Goes, G!Ends, G!Committed, G!Live, G!Primaries, G!HoldsItem, G!Uploads, G!WaitsFor, G!At
<1>3. OneHoldsItem'
  BY NoEditIsIdle
  DEF GalleryInv, G!TypeOK, G!Edit, Path, OneHoldsItem, G!Rows, G!Goes, G!Ends, G!HoldsItem,
      G!Uploads, G!WaitsFor, G!At
<1>4. OneHoldsQuota'
  BY NoEditIsIdle
  DEF GalleryInv, G!TypeOK, G!Edit, Path, OneHoldsQuota, G!Rows, G!Goes, G!Ends, G!HoldsQuota,
      G!Uploads, G!WaitsFor, G!At
<1>5. QED
  BY <1>1, <1>2, <1>3, <1>4 DEF GalleryInv

LEMMA InsertKeepsGallery ==
  ASSUME GalleryInv, NEW c \in Editors, G!Insert(c)
  PROVE  GalleryInv'
<1>1. G!TypeOK'
  BY NoEditIsIdle DEF GalleryInv, G!TypeOK, G!Edit, G!Kind, G!Insert, G!Goes, G!Ends,
      G!Committed, G!Live, G!Primaries, G!Uploads
<1>2. ASSUME NEW d \in Editors
      PROVE  Path(d)' /\ HoldsLate(d)' /\ G!FillsAGap(d)' /\ SeesAll(d)'
  BY NoEditIsIdle
  DEF GalleryInv, G!TypeOK, G!Edit, G!Kind, Path, HoldsLate, G!FillsAGap, SeesAll,
      OneHoldsItem, G!Insert,
      G!Goes, G!Ends, G!Committed, G!Live, G!Primaries, G!HoldsItem, G!Uploads, G!WaitsFor, G!At
<1>3. OneHoldsItem'
  BY NoEditIsIdle
  DEF GalleryInv, G!TypeOK, G!Edit, Path, OneHoldsItem, G!Insert, G!Goes, G!Ends, G!HoldsItem,
      G!Uploads, G!WaitsFor, G!At
<1>4. OneHoldsQuota'
  BY NoEditIsIdle
  DEF GalleryInv, G!TypeOK, G!Edit, Path, OneHoldsQuota, G!Insert, G!Goes, G!Ends,
      G!HoldsQuota, G!Uploads, G!WaitsFor, G!At
<1>5. QED
  BY <1>1, <1>2, <1>3, <1>4 DEF GalleryInv

LEMMA KeyKeepsGallery ==
  ASSUME GalleryInv, NEW c \in Editors, G!Key(c)
  PROVE  GalleryInv'
<1>1. G!TypeOK'
  BY NoEditIsIdle DEF GalleryInv, G!TypeOK, G!Edit, G!Kind, G!Key, G!Goes, G!Ends,
      G!Committed, G!Live, G!Primaries, G!Uploads
<1>2. ASSUME NEW d \in Editors
      PROVE  Path(d)' /\ HoldsLate(d)' /\ G!FillsAGap(d)' /\ SeesAll(d)'
  BY NoEditIsIdle
  DEF GalleryInv, G!TypeOK, G!Edit, G!Kind, Path, HoldsLate, G!FillsAGap, SeesAll,
      OneHoldsItem, G!Key,
      G!Goes, G!Ends, G!Committed, G!Live, G!Primaries, G!HoldsItem, G!Uploads, G!WaitsFor, G!At
<1>3. OneHoldsItem'
  BY NoEditIsIdle
  DEF GalleryInv, G!TypeOK, G!Edit, Path, OneHoldsItem, G!Key, G!Goes, G!Ends, G!HoldsItem,
      G!Uploads, G!WaitsFor, G!At
<1>4. OneHoldsQuota'
  BY NoEditIsIdle
  DEF GalleryInv, G!TypeOK, G!Edit, Path, OneHoldsQuota, G!Key, G!Goes, G!Ends, G!HoldsQuota,
      G!Uploads, G!WaitsFor, G!At
<1>5. QED
  BY <1>1, <1>2, <1>3, <1>4 DEF GalleryInv

LEMMA SetKeepsGallery ==
  ASSUME GalleryInv, NEW c \in Editors, G!Set(c)
  PROVE  GalleryInv'
<1>1. G!TypeOK'
  <2>1. edit' \in [Editors -> G!Edit]
    BY NoEditIsIdle DEF GalleryInv, G!TypeOK, G!Set, G!Ends
  <2>2. edit[c].kind \in {"choose", "unset", "remove"}
    BY DEF GalleryInv, G!TypeOK, G!Edit, G!Kind, Path, G!Set, G!At
  <2>3. picture' \in [Pictures -> {"absent", "plain", "primary", "deleted"}]
    BY <2>2 DEF GalleryInv, G!TypeOK, G!Set, G!Committed
  <2>4. QED
    BY <2>1, <2>3 DEF GalleryInv, G!TypeOK, G!Set
<1>2. ASSUME NEW d \in Editors
      PROVE  Path(d)' /\ HoldsLate(d)' /\ G!FillsAGap(d)' /\ SeesAll(d)'
  BY NoEditIsIdle
  DEF GalleryInv, G!TypeOK, G!Edit, G!Kind, Path, HoldsLate, G!FillsAGap, SeesAll,
      OneHoldsItem, G!Set,
      G!Goes, G!Ends, G!Committed, G!Live, G!Primaries, G!HoldsItem, G!Uploads, G!WaitsFor, G!At
<1>3. OneHoldsItem'
  BY NoEditIsIdle
  DEF GalleryInv, G!TypeOK, G!Edit, Path, OneHoldsItem, G!Set, G!Goes, G!Ends, G!HoldsItem,
      G!Uploads, G!WaitsFor, G!At
<1>4. OneHoldsQuota'
  BY NoEditIsIdle
  DEF GalleryInv, G!TypeOK, G!Edit, Path, OneHoldsQuota, G!Set, G!Goes, G!Ends, G!HoldsQuota,
      G!Uploads, G!WaitsFor, G!At
<1>5. QED
  BY <1>1, <1>2, <1>3, <1>4 DEF GalleryInv

LEMMA RollBackKeepsGallery ==
  ASSUME GalleryInv, NEW c \in Editors, G!RollBack(c)
  PROVE  GalleryInv'
<1>1. G!TypeOK'
  BY NoEditIsIdle DEF GalleryInv, G!TypeOK, G!Edit, G!Kind, G!RollBack, G!Goes, G!Ends,
      G!Committed, G!Live, G!Primaries, G!Uploads
<1>2. ASSUME NEW d \in Editors
      PROVE  Path(d)' /\ HoldsLate(d)' /\ G!FillsAGap(d)' /\ SeesAll(d)'
  BY NoEditIsIdle
  DEF GalleryInv, G!TypeOK, G!Edit, G!Kind, Path, HoldsLate, G!FillsAGap, SeesAll,
      OneHoldsItem, G!RollBack,
      G!Goes, G!Ends, G!Committed, G!Live, G!Primaries, G!HoldsItem, G!Uploads, G!WaitsFor, G!At
<1>3. OneHoldsItem'
  BY NoEditIsIdle
  DEF GalleryInv, G!TypeOK, G!Edit, Path, OneHoldsItem, G!RollBack, G!Goes, G!Ends,
      G!HoldsItem, G!Uploads, G!WaitsFor, G!At
<1>4. OneHoldsQuota'
  BY NoEditIsIdle
  DEF GalleryInv, G!TypeOK, G!Edit, Path, OneHoldsQuota, G!RollBack, G!Goes, G!Ends,
      G!HoldsQuota, G!Uploads, G!WaitsFor, G!At
<1>5. QED
  BY <1>1, <1>2, <1>3, <1>4 DEF GalleryInv

LEMMA GalleryNext ==
  ASSUME GalleryInv, G!Next \/ UNCHANGED galleryVars
  PROVE  GalleryInv'
<1>1. CASE UNCHANGED galleryVars
  BY <1>1
  DEF galleryVars, GalleryInv, G!TypeOK, Path, HoldsLate, G!FillsAGap, SeesAll, OneHoldsItem,
      OneHoldsQuota,
      G!HoldsItem, G!HoldsQuota, G!Uploads, G!At, G!Live, G!Primaries
<1>2. CASE G!DeleteItem
  BY <1>2
  DEF G!DeleteItem, GalleryInv, G!TypeOK, Path, HoldsLate, G!FillsAGap, SeesAll, OneHoldsItem,
      OneHoldsQuota,
      G!HoldsItem, G!HoldsQuota, G!Uploads, G!At, G!Live, G!Primaries
<1>3. ASSUME NEW c \in Editors,
             \/ \E kind \in G!Kind, p \in Pictures : G!Begin(c, kind, p)
             \/ G!TakeQuota(c) \/ G!TakeItem(c) \/ G!Look(c) \/ G!Snap(c) \/ G!Rows(c)
             \/ G!Insert(c) \/ G!Key(c) \/ G!Set(c) \/ G!RollBack(c)
      PROVE  GalleryInv'
  BY <1>3, BeginKeepsGallery, TakeQuotaKeepsGallery, TakeItemKeepsGallery, LookKeepsGallery,
      SnapKeepsGallery, RowsKeepsGallery,
     InsertKeepsGallery, KeyKeepsGallery, SetKeepsGallery, RollBackKeepsGallery
<1>4. QED
  BY <1>1, <1>2, <1>3 DEF G!Next

\* A request that meets the unique index is an upload: the preview holds the item
\* and has seen no image, an edit holds it and has seen every primary image.
LEMMA Conflicting ==
  ASSUME GalleryInv, NEW c \in Editors
  PROVE  G!OnlyUploadsConflict(c)
  BY DEF GalleryInv, G!TypeOK, G!Edit, G!Kind, Path, G!FillsAGap, SeesAll,
      G!OnlyUploadsConflict, G!Conflicts, G!Uploads,
         G!At, G!Live, G!Primaries

\* Whoever holds the quota has what an upload waits for first, and whoever holds
\* the item what the others wait for first.
LEMMA Deadlocking ==
  ASSUME GalleryInv, NEW c \in Editors
  PROVE  G!OnlyUploadsDeadlock(c)
<1> SUFFICES ASSUME NEW d \in Editors, c \in G!WaitsFor(d), d \in G!WaitsFor(c)
             PROVE  G!Uploads(c) # G!Uploads(d)
  BY DEF G!OnlyUploadsDeadlock, G!Deadlocked
<1>1. c # d
  BY DEF G!WaitsFor
<1>2. ~(G!Uploads(c) /\ G!Uploads(d))
  BY <1>1 DEF GalleryInv, G!TypeOK, G!Edit, G!Kind, Path, HoldsLate, OneHoldsQuota,
      G!HoldsItem, G!HoldsQuota,
              G!HoldsEntry, G!Uploads, G!WaitsFor, G!At
<1>3. ~(~G!Uploads(c) /\ ~G!Uploads(d))
  BY <1>1 DEF GalleryInv, G!TypeOK, G!Edit, G!Kind, Path, HoldsLate, OneHoldsItem,
      G!HoldsItem, G!HoldsQuota,
              G!HoldsEntry, G!Uploads, G!WaitsFor, G!At
<1>4. G!Uploads(c) \in BOOLEAN /\ G!Uploads(d) \in BOOLEAN
  BY DEF G!Uploads
<1>5. QED
  BY <1>2, <1>3, <1>4

-----------------------------------------------------------------------------
(* Sums.                                                                   *)

\* What a sum counts: S!SizeOf(es) is the number of units of es.
Units(f, es) == {u \in es \X S!Size : u[2] <= f[u[1]].size}

LEMMA UnitsAreFinite ==
  ASSUME NEW f, NEW es \in SUBSET Entries
  PROVE  IsFiniteSet(Units(f, es)) /\ Cardinality(Units(f, es)) \in Nat
<1>1. IsFiniteSet(S!Size)
  <2>1. 1 \in Int /\ 2 \in Int
    OBVIOUS
  <2>2. QED
    BY <2>1, FS_Interval DEF S!Size
<1>2. IsFiniteSet(es)
  BY FS_Subset, StorageAssumption
<1>3. IsFiniteSet(es \X S!Size)
  BY <1>1, <1>2, FS_Product
<1>4. Units(f, es) \in SUBSET (es \X S!Size)
  BY DEF Units
<1>5. QED
  BY <1>3, <1>4, FS_Subset, FS_CardinalityType

\* More entries, or larger ones, have no fewer units.
LEMMA UnitsGrow ==
  ASSUME NEW f, NEW g, NEW es \in SUBSET Entries, NEW fs \in SUBSET Entries, es \subseteq fs,
         \A e \in es : f[e].size \in S!Size /\ g[e].size \in S!Size /\ f[e].size <= g[e].size
  PROVE  Cardinality(Units(f, es)) <= Cardinality(Units(g, fs))
<1>1. ASSUME NEW u \in Units(f, es) PROVE u \in Units(g, fs)
  BY <1>1 DEF Units, S!Size
<1>2. Units(f, es) \in SUBSET Units(g, fs)
  BY <1>1
<1>3. QED
  BY <1>2, UnitsAreFinite, FS_Subset

LEMMA UnitsAddUp ==
  ASSUME NEW f, NEW es \in SUBSET Entries, NEW fs \in SUBSET Entries, es \cap fs = {}
  PROVE  Cardinality(Units(f, es \cup fs)) =
           Cardinality(Units(f, es)) + Cardinality(Units(f, fs))
<1>1. Units(f, es \cup fs) = Units(f, es) \cup Units(f, fs)
  BY DEF Units
<1>2. Units(f, es) \cap Units(f, fs) = {}
  BY DEF Units
<1>3. Cardinality(Units(f, es) \cap Units(f, fs)) = 0
  BY <1>2, FS_EmptySet
<1>4. /\ IsFiniteSet(Units(f, es)) /\ Cardinality(Units(f, es)) \in Nat
      /\ IsFiniteSet(Units(f, fs)) /\ Cardinality(Units(f, fs)) \in Nat
  BY UnitsAreFinite
<1>5. Cardinality(Units(f, es) \cup Units(f, fs)) =
        Cardinality(Units(f, es)) + Cardinality(Units(f, fs))
          - Cardinality(Units(f, es) \cap Units(f, fs))
  BY <1>4, FS_Union
<1>6. Cardinality(Units(f, es \cup fs)) = Cardinality(Units(f, es) \cup Units(f, fs))
  BY <1>1
<1> HIDE DEF Units
<1>7. QED
  BY <1>3, <1>4, <1>5, <1>6

LEMMA UnitsOfOne ==
  ASSUME NEW f, NEW e \in Entries, f[e].size \in S!Size
  PROVE  Cardinality(Units(f, {e})) = f[e].size
<1>1. CASE f[e].size = 1
  <2>1. Units(f, {e}) = {<<e, 1>>}
    BY <1>1 DEF Units, S!Size
  <2>2. QED
    BY <1>1, <2>1, FS_Singleton
<1>2. CASE f[e].size = 2
  <2>1. Units(f, {e}) = {<<e, 1>>} \cup {<<e, 2>>}
    BY <1>2 DEF Units, S!Size
  <2>2. IsFiniteSet({<<e, 1>>}) /\ Cardinality({<<e, 1>>}) = 1
    BY FS_Singleton
  <2>3. Cardinality({<<e, 1>>} \cup {<<e, 2>>}) = 1 + 1
    BY <2>2, FS_AddElement, <<e, 2>> \notin {<<e, 1>>}
  <2>4. QED
    BY <1>2, <2>1, <2>3
<1>3. QED
  BY <1>1, <1>2 DEF S!Size

LEMMA UnitsAlike ==
  ASSUME NEW f, NEW g, NEW es, \A e \in es : f[e].size = g[e].size
  PROVE  Units(f, es) = Units(g, es)
  BY DEF Units

-----------------------------------------------------------------------------
\* What counts against the quota.
Counted == {e \in Entries : entry[e].sort \in Packages \/ entry[e].live}

LEMMA UsageInUnits ==
  /\ S!Usage = Cardinality(Units(entry, Counted))
  /\ S!Usage' = Cardinality(Units(entry', Counted'))
  BY DEF S!Usage, S!SizeOf, S!Cardinality, Cardinality, Units, Counted

LEMMA DeltaInUnits ==
  ASSUME NEW s
  PROVE  /\ S!Delta(s) = send[s].new.size - Cardinality(Units(entry, send[s].taken))
         /\ S!Delta(s)' = send'[s].new.size - Cardinality(Units(entry', send'[s].taken))
  BY DEF S!Delta, S!SizeOf, S!Cardinality, Cardinality, Units

-----------------------------------------------------------------------------
\* What an upload holds at each of its steps.
SendFits(s) ==
  /\ ~S!At(s, "idle") => send[s].new \in S!Offered
  /\ send[s].pc \in {"read", "lock"} => send[s].new.sort = "avatar"
  /\ send[s].new.sort # "avatar" => send[s].taken = {}
  /\ S!At(s, "hash") => send[s].new.sort \in Packages
  /\ send[s].pc \in {"read", "lock", "quota", "hash", "write"} => entry[send[s].row] = S!Absent
  /\ send[s].pc \in {"quota", "write"} => send[s].taken \subseteq S!Avatars

OneUploadPerRow ==
  \A s, t \in Senders :
    ~S!At(s, "idle") /\ ~S!At(t, "idle") /\ send[s].row = send[t].row => s = t

SendPart == (\A s \in Senders : SendFits(s)) /\ OneUploadPerRow

QuotaIsLocked == \A s, t \in Senders : S!HoldsQuota(s) /\ S!HoldsQuota(t) => s = t

\* Whoever has been admitted under the quota lock still has the room.
RoomPart ==
  "growth" \notin mishaps =>
    /\ S!Usage <= Quota
    /\ \A s \in Senders : S!HoldsQuota(s) => S!Usage + S!Delta(s) <= Quota

\* Whoever has looked for its package under the lock of the hash is alone, and
\* there is still none.
CopyPart ==
  /\ \A s, t \in Senders :
       S!HoldsHash(s) /\ S!HoldsHash(t) /\ send[s].new.sort = send[t].new.sort => s = t
  /\ \A s \in Senders : S!HoldsHash(s) =>
       \A e \in Entries : entry[e].live => entry[e].sort # send[s].new.sort
  /\ S!OneCopyPerPackage

QuarantinePart ==
  mishaps \cap {"crash", "lost"} = {} =>
    \A e \in quarantine :
      \/ entry[e].sort \in Packages
      \/ \E s \in Senders : ~S!At(s, "idle") /\ send[s].row = e /\ send[s].new.sort \in Packages

StorageInv ==
  S!TypeOK /\ SendPart /\ QuotaIsLocked /\ RoomPart /\ CopyPart /\ QuarantinePart

LEMMA NoSendIsIdle ==
  /\ S!NoSend \in S!Send
  /\ S!NoSend.pc = "idle" /\ S!NoSend.new = S!Absent /\ S!NoSend.taken = {}
  BY StorageAssumption DEF S!NoSend, S!Send, S!Absent, S!Entry, S!Size

LEMMA StorageInit ==
  ASSUME S!Init
  PROVE  StorageInv
<1>1. S!TypeOK
  BY NoSendIsIdle, StorageAssumption DEF S!Init, S!TypeOK, S!Absent, S!Entry, S!Size
<1>2. \A s \in Senders : send[s].pc = "idle" /\ send[s].new.sort = "absent" /\ send[s].taken = {}
  BY NoSendIsIdle DEF S!Init, S!Absent
<1>3. S!Usage = 0
  <2>1. Counted = {}
    BY StorageAssumption DEF Counted, S!Init, S!Absent
  <2>2. Units(entry, Counted) = {}
    BY <2>1 DEF Units
  <2>3. QED
    BY <2>2, UsageInUnits, FS_EmptySet
<1>4. SendPart
  BY <1>2 DEF SendPart, SendFits, OneUploadPerRow, S!At
<1>5. RoomPart /\ QuotaIsLocked
  BY <1>2, <1>3, StorageAssumption DEF RoomPart, QuotaIsLocked, S!HoldsQuota
<1>6. CopyPart
  BY <1>2, StorageAssumption DEF CopyPart, S!HoldsHash, S!OneCopyPerPackage, S!At, S!Init,
      S!Absent
<1>7. QED
  BY <1>1, <1>4, <1>5, <1>6 DEF StorageInv, QuarantinePart, S!Init

LEMMA Amounts ==
  ASSUME S!TypeOK
  PROVE  S!Usage \in Nat /\ \A s \in Senders : S!Delta(s) \in Int
<1>1. S!Usage \in Nat
  BY UsageInUnits, UnitsAreFinite, Counted \in SUBSET Entries DEF Counted
<1>2. ASSUME NEW s \in Senders PROVE S!Delta(s) \in Int
  <2>1. send[s].taken \in SUBSET Entries /\ send[s].new.size \in Int
    BY DEF S!TypeOK, S!Send, S!Entry, S!Size
  <2>2. Cardinality(Units(entry, send[s].taken)) \in Nat
    BY <2>1, UnitsAreFinite
  <2>3. QED
    BY <2>1, <2>2, DeltaInUnits
<1>3. QED
  BY <1>1, <1>2

\* An upload whose rows keep their sizes keeps its amount, and so its locks.
LEMMA AmountStays ==
  ASSUME NEW t \in Senders, send'[t] = send[t],
         \A e \in send[t].taken : entry'[e].size = entry[e].size
  PROVE  S!Delta(t)' = S!Delta(t) /\ (S!HoldsQuota(t)' <=> S!HoldsQuota(t))
<1>1. Units(entry', send[t].taken) = Units(entry, send[t].taken)
  BY UnitsAlike
<1>2. S!Delta(t)' = S!Delta(t)
  BY <1>1, DeltaInUnits
<1>3. QED
  BY <1>2 DEF S!HoldsQuota

\* A step of one upload that leaves the table alone.
LEMMA RoomStays ==
  ASSUME StorageInv, NEW s \in Senders, entry' = entry, mishaps' = mishaps,
         \A t \in Senders \ {s} : send'[t] = send[t],
         S!HoldsQuota(s)' =>
           \/ S!HoldsQuota(s) /\ S!Delta(s)' = S!Delta(s)
           \/ /\ \A t \in Senders : ~S!HoldsQuota(t)
              /\ S!Usage + S!Delta(s)' <= Quota
  PROVE  QuotaIsLocked' /\ RoomPart'
<1>1. S!Usage' = S!Usage
  BY UsageInUnits DEF Counted
<1>2. \A t \in Senders \ {s} :
        S!Delta(t)' = S!Delta(t) /\ (S!HoldsQuota(t)' <=> S!HoldsQuota(t))
  BY AmountStays
<1>3. QuotaIsLocked'
  BY <1>2 DEF StorageInv, QuotaIsLocked
<1>4. RoomPart'
  BY <1>1, <1>2 DEF StorageInv, RoomPart
<1>5. QED
  BY <1>3, <1>4

LEMMA OfferedAreEntries == S!Offered \subseteq S!Entry
<1>1. ASSUME NEW new \in [sort : {"image", "avatar"}, size : S!Size, live : {TRUE}]
      PROVE  new \in S!Entry
  BY DEF S!Entry
<1>2. 1 \in S!Size /\ 2 \in S!Size
  BY DEF S!Size
<1>3. ASSUME NEW new \in [sort : Heavy, size : {2}, live : {TRUE}]
      PROVE  new \in S!Entry
  BY <1>2, StorageAssumption DEF S!Entry
<1>4. ASSUME NEW new \in [sort : Packages \ Heavy, size : {1}, live : {TRUE}]
      PROVE  new \in S!Entry
  BY <1>2 DEF S!Entry
<1>5. QED
  BY <1>1, <1>3, <1>4 DEF S!Offered

LEMMA BeginKeepsStorage ==
  ASSUME StorageInv, NEW s \in Senders, NEW e \in Entries, NEW new \in S!Offered,
         S!Begin(s, e, new)
  PROVE  StorageInv'
<1> DEFINE next == [pc |-> IF new.sort = "avatar" THEN "read" ELSE "quota",
                    row |-> e, new |-> new, taken |-> {}]
<1>0. send' = [send EXCEPT ![s] = next] /\ send \in [Senders -> S!Send]
  BY DEF S!Begin, StorageInv, S!TypeOK
<1>a. new \in S!Entry
  BY OfferedAreEntries
<1>b. next \in S!Send
  BY <1>a DEF S!Send
<1>c. \A t \in Senders : send'[t] = IF t = s THEN next ELSE send[t]
  BY <1>0
<1>1. S!TypeOK'
  BY <1>0, <1>b, StorageAssumption DEF StorageInv, S!TypeOK, S!Begin, S!Requested
<1>2. SendPart'
  BY <1>c DEF StorageInv, SendPart, SendFits, OneUploadPerRow, S!Begin, S!At, S!Avatars
<1>3. QuotaIsLocked' /\ RoomPart'
  <2>1. ~S!HoldsQuota(s)'
    BY <1>c DEF S!HoldsQuota
  <2>2. QED
    BY <1>c, <2>1, RoomStays DEF S!Begin
<1>4. CopyPart'
  BY <1>c DEF StorageInv, CopyPart, S!HoldsHash, S!OneCopyPerPackage, S!Begin, S!At
<1>5. QuarantinePart'
  BY <1>c DEF StorageInv, QuarantinePart, S!Begin, S!At
<1>6. QED
  BY <1>1, <1>2, <1>3, <1>4, <1>5 DEF StorageInv

\* A step of an upload that is under way and goes on.
LEMMA SendGoesOn ==
  ASSUME StorageInv, NEW s \in Senders, UNCHANGED <<entry, quarantine, mishaps>>,
         \A t \in Senders \ {s} : send'[t] = send[t],
         send'[s].row = send[s].row, send'[s].new = send[s].new,
         ~S!At(s, "idle"), ~S!At(s, "idle")', SendFits(s)',
         S!HoldsQuota(s)' =>
           \/ S!HoldsQuota(s) /\ S!Delta(s)' = S!Delta(s)
           \/ /\ \A t \in Senders : ~S!HoldsQuota(t)
              /\ S!Usage + S!Delta(s)' <= Quota,
         S!HoldsHash(s)' =>
           /\ \A t \in Senders : S!HoldsHash(t) => send[t].new.sort # send[s].new.sort
           /\ \A e \in Entries : entry[e].live => entry[e].sort # send[s].new.sort
  PROVE  SendPart' /\ QuotaIsLocked' /\ RoomPart' /\ CopyPart' /\ QuarantinePart'
<1>1. \A t \in Senders : S!At(t, "idle")' <=> S!At(t, "idle")
  BY DEF S!At
<1>2. \A t \in Senders : send'[t].row = send[t].row /\ send'[t].new = send[t].new
  OBVIOUS
<1>3. ASSUME NEW t \in Senders \ {s} PROVE SendFits(t)'
  BY DEF StorageInv, SendPart, SendFits, S!At, S!Avatars
<1>4. SendPart'
  BY <1>1, <1>2, <1>3 DEF StorageInv, SendPart, OneUploadPerRow
<1>5. \A t \in Senders \ {s} : S!HoldsHash(t)' <=> S!HoldsHash(t)
  BY DEF S!HoldsHash, S!At
<1>6. CopyPart'
  BY <1>2, <1>5 DEF StorageInv, CopyPart, S!OneCopyPerPackage
<1>7. QuarantinePart'
  BY <1>1, <1>2 DEF StorageInv, QuarantinePart
<1>8. QED
  BY <1>4, <1>6, <1>7, RoomStays

LEMMA ReadKeepsStorage ==
  ASSUME StorageInv, NEW s \in Senders, S!Read(s)
  PROVE  StorageInv'
<1>1. /\ \A t \in Senders \ {s} : send'[t] = send[t]
      /\ send'[s].pc = "lock" /\ send'[s].row = send[s].row /\ send'[s].new = send[s].new
      /\ UNCHANGED <<entry, quarantine, sends, mishaps>>
  BY DEF S!Read, StorageInv, S!TypeOK, S!Send
<1>2. S!TypeOK'
  BY DEF S!Read, StorageInv, S!TypeOK, S!Send, S!Avatars
<1>3. SendFits(s)'
  BY <1>1 DEF StorageInv, SendPart, SendFits, S!Read, S!At
<1>4. ~S!HoldsQuota(s)' /\ ~S!HoldsHash(s)' /\ ~S!At(s, "idle") /\ ~S!At(s, "idle")'
  BY <1>1 DEF S!HoldsQuota, S!HoldsHash, S!At, S!Read
<1>5. QED
  BY <1>1, <1>2, <1>3, <1>4, SendGoesOn DEF StorageInv

LEMMA LockKeepsStorage ==
  ASSUME StorageInv, NEW s \in Senders, S!Lock(s)
  PROVE  StorageInv'
<1>1. /\ \A t \in Senders \ {s} : send'[t] = send[t]
      /\ send'[s].pc = "quota" /\ send'[s].row = send[s].row /\ send'[s].new = send[s].new
      /\ send'[s].taken = send[s].taken \cap S!Avatars
      /\ UNCHANGED <<entry, quarantine, sends, mishaps>>
  BY DEF S!Lock, StorageInv, S!TypeOK, S!Send
<1>2. S!TypeOK'
  BY DEF S!Lock, StorageInv, S!TypeOK, S!Send
<1>3. SendFits(s)'
  BY <1>1 DEF StorageInv, SendPart, SendFits, S!Lock, S!At, S!Avatars
<1>4. ~S!HoldsQuota(s)' /\ ~S!HoldsHash(s)' /\ ~S!At(s, "idle") /\ ~S!At(s, "idle")'
  BY <1>1 DEF S!HoldsQuota, S!HoldsHash, S!At, S!Lock
<1>5. QED
  BY <1>1, <1>2, <1>3, <1>4, SendGoesOn DEF StorageInv

LEMMA EnsureQuotaKeepsStorage ==
  ASSUME StorageInv, NEW s \in Senders, S!EnsureQuota(s)
  PROVE  StorageInv'
<1>1. /\ \A t \in Senders \ {s} : send'[t] = send[t]
      /\ send'[s].pc = IF S!Delta(s) > 0 /\ S!Delta(s) > Quota - S!Usage THEN "undo"
                       ELSE IF send[s].new.sort \in Packages THEN "hash" ELSE "write"
      /\ send'[s].row = send[s].row /\ send'[s].new = send[s].new
      /\ send'[s].taken = send[s].taken
      /\ UNCHANGED <<entry, quarantine, sends, mishaps>>
  BY DEF S!EnsureQuota, S!Admitted, S!Goes, StorageInv, S!TypeOK, S!Send
<1>2. S!TypeOK'
  BY DEF S!EnsureQuota, S!Admitted, S!Goes, StorageInv, S!TypeOK, S!Send
<1>3. SendFits(s)'
  BY <1>1 DEF StorageInv, SendPart, SendFits, S!EnsureQuota, S!At, S!Avatars
<1>4. S!Delta(s)' = S!Delta(s)
  BY <1>1, DeltaInUnits
<1>5. S!HoldsQuota(s)' =>
        /\ \A t \in Senders : ~S!HoldsQuota(t)
        /\ S!Usage + S!Delta(s)' <= Quota
  BY <1>1, <1>4, Amounts, StorageAssumption DEF S!HoldsQuota, S!EnsureQuota, StorageInv
<1>6. ~S!HoldsHash(s)' /\ ~S!At(s, "idle") /\ ~S!At(s, "idle")'
  BY <1>1 DEF S!HoldsHash, S!At, S!EnsureQuota
<1>7. QED
  BY <1>1, <1>2, <1>3, <1>5, <1>6, SendGoesOn DEF StorageInv

LEMMA CheckDuplicateKeepsStorage ==
  ASSUME StorageInv, NEW s \in Senders, S!CheckDuplicate(s)
  PROVE  StorageInv'
<1> DEFINE found == \E e \in Entries : entry[e].live /\ entry[e].sort = send[s].new.sort
<1>1. /\ \A t \in Senders \ {s} : send'[t] = send[t]
      /\ send'[s].pc = IF found THEN "undo" ELSE "write"
      /\ send'[s].row = send[s].row /\ send'[s].new = send[s].new
      /\ send'[s].taken = send[s].taken
      /\ UNCHANGED <<entry, quarantine, sends, mishaps>>
  BY DEF S!CheckDuplicate, S!Goes, StorageInv, S!TypeOK, S!Send
<1>2. S!TypeOK'
  BY DEF S!CheckDuplicate, S!Goes, StorageInv, S!TypeOK, S!Send
<1>3. SendFits(s)'
  BY <1>1, StorageAssumption DEF StorageInv, SendPart, SendFits, S!CheckDuplicate, S!At,
      S!Avatars
<1>4. S!Delta(s)' = S!Delta(s)
  BY <1>1, DeltaInUnits
<1>5. S!HoldsQuota(s)' => S!HoldsQuota(s) /\ S!Delta(s)' = S!Delta(s)
  BY <1>1, <1>4 DEF S!HoldsQuota, S!CheckDuplicate, S!At
<1>6. S!HoldsHash(s)' =>
        /\ \A t \in Senders : S!HoldsHash(t) => send[t].new.sort # send[s].new.sort
        /\ \A e \in Entries : entry[e].live => entry[e].sort # send[s].new.sort
  BY <1>1 DEF S!HoldsHash, S!At, S!CheckDuplicate
<1>7. ~S!At(s, "idle") /\ ~S!At(s, "idle")'
  BY <1>1 DEF S!At, S!CheckDuplicate
<1>8. QED
  BY <1>1, <1>2, <1>3, <1>5, <1>6, <1>7, SendGoesOn DEF StorageInv

LEMMA OfferedIsLive ==
  ASSUME NEW new \in S!Offered
  PROVE  new.live = TRUE /\ new.sort \in Packages \cup {"image", "avatar"}
  BY StorageAssumption DEF S!Offered

\* What the insert and the soft deletion of the avatars do to the usage.
LEMMA WriteFillsTheRoom ==
  ASSUME S!TypeOK, NEW row \in Entries, NEW new \in S!Offered, NEW taken \in SUBSET S!Avatars,
         NEW replaced, replaced = IF taken = {} THEN {} ELSE S!Avatars,
         entry[row] = S!Absent, entry'[row] = new,
         \A e \in Entries \ {row} :
           /\ entry'[e].size = entry[e].size /\ entry'[e].sort = entry[e].sort
           /\ entry'[e].live <=> entry[e].live /\ e \notin replaced
  PROVE  S!Usage' <= S!Usage + new.size - Cardinality(Units(entry, taken))
<1> DEFINE rest == Counted \ replaced
<1>1. /\ replaced \subseteq Counted /\ taken \subseteq replaced
      /\ Counted \subseteq Entries /\ rest \subseteq Entries /\ row \notin Counted
  BY StorageAssumption DEF S!Avatars, Counted, S!Absent
<1>2. \A e \in Entries :
        /\ e # row => entry'[e].size = entry[e].size /\ entry'[e].sort = entry[e].sort
        /\ e # row => (entry'[e].live <=> entry[e].live /\ e \notin replaced)
        /\ e = row => entry'[e] = new
  OBVIOUS
<1>3. Counted' = rest \cup {row}
  <2>1. ASSUME NEW e \in Entries PROVE e \in Counted' <=> e \in rest \cup {row}
    <3>1. CASE e = row
      BY <1>2, <3>1, OfferedIsLive DEF Counted
    <3>2. CASE e # row
      <4>1. e \in replaced => entry[e].sort \notin Packages
        BY StorageAssumption DEF S!Avatars
      <4>2. QED
        BY <1>2, <3>2, <4>1 DEF Counted
    <3>3. QED
      BY <3>1, <3>2
  <2>2. Counted' \subseteq Entries
    BY DEF Counted
  <2>3. QED
    BY <2>1, <2>2, <1>1
<1>4. Units(entry', rest) = Units(entry, rest)
  BY <1>1, <1>2 DEF Units
<1>5. Cardinality(Units(entry', {row})) = new.size
  <2>1. new.size \in S!Size
    BY OfferedAreEntries DEF S!Entry
  <2>2. QED
    BY <1>2, <2>1, UnitsOfOne
<1>6. Cardinality(Units(entry', rest \cup {row})) =
        Cardinality(Units(entry', rest)) + Cardinality(Units(entry', {row}))
  <2>1. rest \cap {row} = {}
    BY <1>1
  <2>2. QED
    BY <2>1, <1>1, UnitsAddUp
<1>7. Cardinality(Units(entry, rest \cup replaced)) =
        Cardinality(Units(entry, rest)) + Cardinality(Units(entry, replaced))
  BY <1>1, UnitsAddUp
<1>8. rest \cup replaced = Counted
  BY <1>1
<1>9. Cardinality(Units(entry, taken)) <= Cardinality(Units(entry, replaced))
  <2>1. \A e \in taken : entry[e].size \in S!Size /\ entry[e].size <= entry[e].size
    BY <1>1 DEF S!TypeOK, S!Entry, S!Size
  <2>2. QED
    BY <1>1, <2>1, UnitsGrow
<1>10. /\ Cardinality(Units(entry, rest)) \in Nat /\ Cardinality(Units(entry, replaced)) \in Nat
       /\ Cardinality(Units(entry, taken)) \in Nat
  BY <1>1, UnitsAreFinite
<1>11. new.size \in Int
  BY OfferedAreEntries DEF S!Entry, S!Size
<1>12. S!Usage = Cardinality(Units(entry, rest)) + Cardinality(Units(entry, replaced))
  BY <1>7, <1>8, UsageInUnits
<1>13. S!Usage' = Cardinality(Units(entry, rest)) + new.size
  BY <1>3, <1>4, <1>5, <1>6, UsageInUnits
<1> HIDE DEF rest
<1>14. QED
  BY <1>9, <1>10, <1>11, <1>12, <1>13

\* The commit of an upload, whether or not its reply arrives.
LEMMA CommitKeepsStorage ==
  ASSUME StorageInv, NEW s \in Senders, NEW replaced,
         replaced = IF send[s].taken = {} THEN {} ELSE S!Avatars,
         S!At(s, "write"), replaced \cap S!HeldByOthers(s) = {},
         entry' = [e \in Entries |->
                    IF e = send[s].row THEN send[s].new
                    ELSE [entry[e] EXCEPT !.live = @ /\ e \notin replaced]],
         S!Ends(s) \/ S!Goes(s, "undo"),
         UNCHANGED <<quarantine, sends, mishaps>>
  PROVE  StorageInv'
<1> DEFINE row == send[s].row
           new == send[s].new
<1>1. /\ S!TypeOK /\ send \in [Senders -> S!Send] /\ row \in Entries /\ new \in S!Offered
      /\ entry[row] = S!Absent /\ send[s].taken \in SUBSET S!Avatars
  BY DEF StorageInv, SendPart, SendFits, S!At, S!TypeOK, S!Send
<1>2. /\ new \in S!Entry /\ new.live = TRUE /\ new.sort \in Packages \cup {"image", "avatar"}
      /\ new.size \in Int
  <2>1. new \in S!Entry
    BY <1>1, OfferedAreEntries
  <2>2. new.live = TRUE /\ new.sort \in Packages \cup {"image", "avatar"}
    BY <1>1, OfferedIsLive
  <2>3. new.size \in Int
    BY <2>1 DEF S!Entry, S!Size
  <2>4. QED
    BY <2>1, <2>2, <2>3
<1>3. /\ \A t \in Senders \ {s} : send'[t] = send[t]
      /\ send'[s] = S!NoSend \/ send'[s] = [send[s] EXCEPT !.pc = "undo"]
      /\ send'[s] \in S!Send /\ send'[s].pc \in {"idle", "undo"}
      /\ send'[s].pc = "undo" => send'[s].row = row /\ send'[s].new = new
                                 /\ send'[s].taken = send[s].taken
  BY <1>1, NoSendIsIdle DEF S!Ends, S!Goes, S!Send
<1>4. \A e \in Entries :
        /\ e # row => entry'[e].size = entry[e].size /\ entry'[e].sort = entry[e].sort
        /\ e # row => (entry'[e].live <=> entry[e].live /\ e \notin replaced)
        /\ e # row => entry'[e] = [entry[e] EXCEPT !.live = @ /\ e \notin replaced]
        /\ e = row => entry'[e] = new
  BY <1>1 DEF S!TypeOK, S!Entry
<1>5. S!TypeOK'
  <2>1. ASSUME NEW e \in Entries PROVE entry'[e] \in S!Entry
    <3>1. entry[e] \in S!Entry
      BY <1>1 DEF S!TypeOK
    <3>2. [entry[e] EXCEPT !.live = @ /\ e \notin replaced] \in S!Entry
      BY <3>1 DEF S!Entry
    <3>3. QED
      BY <1>2, <1>4, <3>2
  <2>2. entry' \in [Entries -> S!Entry]
    BY <2>1
  <2>3. send' \in [Senders -> S!Send]
    BY <1>1, <1>3 DEF S!Ends, S!Goes
  <2>4. QED
    BY <1>1, <2>2, <2>3 DEF S!TypeOK
<1>6. ASSUME NEW t \in Senders \ {s}, ~S!At(t, "idle")
      PROVE  /\ SendFits(t)' /\ send[t].row # row /\ send[t].row \in Entries
             /\ send[t].pc \in {"hash", "write"} => row \notin send[t].taken
  <2>1. send[t].row # row /\ ~S!At(s, "idle") /\ send[t].row \in Entries
    BY <1>1, <1>6 DEF StorageInv, SendPart, OneUploadPerRow, S!At, S!Send
  <2>2. SendFits(t)
    BY DEF StorageInv, SendPart
  <2>3. entry[send[t].row] = S!Absent => entry'[send[t].row] = S!Absent
    <3>1. SUFFICES ASSUME entry[send[t].row] = S!Absent
                   PROVE  entry'[send[t].row] = S!Absent
      OBVIOUS
    <3>2. entry'[send[t].row] \in S!Entry
      BY <1>5, <2>1 DEF S!TypeOK
    <3>3. /\ entry'[send[t].row].sort = "absent" /\ entry'[send[t].row].size = 1
          /\ ~entry'[send[t].row].live
      BY <1>4, <2>1, <3>1 DEF S!Absent
    <3>4. QED
      BY <3>2, <3>3 DEF S!Entry, S!Absent
  <2>4. row \notin S!Avatars
    BY <1>1 DEF S!Avatars, S!Absent
  <2>5. send[t].pc \in {"quota", "write"} => send[t].taken \subseteq S!Avatars'
    <3>1. SUFFICES ASSUME send[t].pc \in {"quota", "write"}
                   PROVE  send[t].taken \subseteq S!Avatars'
      OBVIOUS
    <3>2. send[t].taken \cap replaced = {}
      BY <3>1 DEF S!HeldByOthers, S!HoldsRows
    <3>3. send[t].taken \subseteq S!Avatars
      BY <2>2, <3>1 DEF SendFits
    <3>4. QED
      BY <1>4, <2>4, <3>2, <3>3 DEF S!Avatars
  <2>6. SendFits(t)'
    BY <1>3, <2>2, <2>3, <2>5 DEF SendFits, S!At
  <2>7. send[t].pc \in {"hash", "write"} => row \notin send[t].taken
    BY <2>2, <2>4, StorageAssumption DEF SendFits, S!At
  <2>8. QED
    BY <2>1, <2>6, <2>7
<1>7. SendPart'
  <2>1. SendFits(s)'
    <3>1. CASE send'[s] = S!NoSend
      BY <3>1, NoSendIsIdle DEF SendFits, S!At
    <3>2. CASE send'[s] = [send[s] EXCEPT !.pc = "undo"]
      <4>1. /\ send'[s].pc = "undo" /\ send'[s].new = new /\ send'[s].taken = send[s].taken
        BY <1>1, <3>2 DEF S!Send
      <4>2. new.sort # "avatar" => send[s].taken = {}
        BY DEF StorageInv, SendPart, SendFits
      <4>3. QED
        BY <1>1, <4>1, <4>2 DEF SendFits, S!At
    <3>3. QED
      BY <1>3, <3>1, <3>2
  <2>2. ASSUME NEW t \in Senders \ {s} PROVE SendFits(t)'
    <3>1. CASE S!At(t, "idle")
      BY <1>3, <3>1 DEF StorageInv, SendPart, SendFits, S!At
    <3>2. CASE ~S!At(t, "idle")
      BY <1>6, <3>2
    <3>3. QED
      BY <3>1, <3>2
  <2>3. OneUploadPerRow'
    BY <1>3, S!At(s, "write") DEF StorageInv, SendPart, OneUploadPerRow, S!At
  <2>4. QED
    BY <2>1, <2>2, <2>3 DEF SendPart
<1>8. ~S!HoldsQuota(s)' /\ ~S!HoldsHash(s)'
  BY <1>3 DEF S!HoldsQuota, S!HoldsHash, S!At
<1>9. ASSUME NEW t \in Senders \ {s}, send[t].pc \in {"hash", "write"}
      PROVE  S!Delta(t)' = S!Delta(t) /\ (S!HoldsQuota(t)' <=> S!HoldsQuota(t))
  <2>1. row \notin send[t].taken
    BY <1>6, <1>9 DEF S!At
  <2>2. send[t].taken \subseteq Entries
    BY <1>1 DEF S!Send
  <2>3. QED
    BY <1>3, <1>4, <2>1, <2>2, AmountStays
<1>10. ASSUME NEW t \in Senders, S!HoldsQuota(t)'
       PROVE  t # s /\ S!HoldsQuota(t) /\ S!Delta(t)' = S!Delta(t)
  <2>1. t # s
    BY <1>8, <1>10
  <2>2. send[t].pc \in {"hash", "write"}
    BY <1>3, <1>10, <2>1 DEF S!HoldsQuota
  <2>3. QED
    BY <1>9, <1>10, <2>1, <2>2
<1>11. QuotaIsLocked'
  BY <1>10 DEF StorageInv, QuotaIsLocked
<1>12. RoomPart'
  <2>1. SUFFICES ASSUME "growth" \notin mishaps
                 PROVE  /\ S!Usage' <= Quota
                        /\ \A t \in Senders : S!HoldsQuota(t)' => S!Usage' + S!Delta(t)' <= Quota
    BY DEF RoomPart
  <2>2. S!Usage' <= S!Usage + S!Delta(s)
    <3>1. S!Usage' <= S!Usage + new.size - Cardinality(Units(entry, send[s].taken))
      <4>1. /\ entry'[row] = new
            /\ \A e \in Entries \ {row} :
                 /\ entry'[e].size = entry[e].size /\ entry'[e].sort = entry[e].sort
                 /\ entry'[e].live <=> entry[e].live /\ e \notin replaced
        BY <1>1, <1>4
      <4> HIDE DEF row, new
      <4>2. QED
        BY <1>1, <4>1, WriteFillsTheRoom
    <3>2. Cardinality(Units(entry, send[s].taken)) \in Nat
      BY <1>1, UnitsAreFinite, S!Avatars \subseteq Entries DEF S!Avatars
    <3>3. QED
      BY <1>1, <1>2, <3>1, <3>2, Amounts, DeltaInUnits
  <2>3. S!Usage \in Nat /\ S!Usage' \in Nat /\ \A t \in Senders : S!Delta(t) \in Int
    <3>1. S!Usage' \in Nat
      BY UsageInUnits, UnitsAreFinite, Counted' \in SUBSET Entries DEF Counted
    <3>2. QED
      BY <1>1, <3>1, Amounts
  <2>4. S!Usage <= Quota /\ (S!HoldsQuota(s) => S!Usage + S!Delta(s) <= Quota)
    BY <2>1 DEF StorageInv, RoomPart
  <2>5. ~S!HoldsQuota(s) => S!Delta(s) <= 0
    BY <2>3 DEF S!HoldsQuota, S!At
  <2>6. S!Usage' <= Quota
    BY <2>2, <2>3, <2>4, <2>5, StorageAssumption
  <2>7. ASSUME NEW t \in Senders, S!HoldsQuota(t)' PROVE S!Usage' + S!Delta(t)' <= Quota
    <3>1. t # s /\ S!HoldsQuota(t) /\ S!Delta(t)' = S!Delta(t)
      BY <1>10, <2>7
    <3>2. ~S!HoldsQuota(s)
      BY <3>1 DEF StorageInv, QuotaIsLocked
    <3>3. S!Usage + S!Delta(t) <= Quota
      BY <2>1, <3>1 DEF StorageInv, RoomPart
    <3>4. QED
      BY <2>2, <2>3, <2>5, <3>1, <3>2, <3>3, StorageAssumption
  <2>8. QED
    BY <2>6, <2>7
<1>13. ASSUME NEW e \in Entries, entry'[e].live
       PROVE  (e = row /\ entry'[e].sort = new.sort)
                \/ (e # row /\ entry[e].live /\ entry'[e].sort = entry[e].sort)
  BY <1>4, <1>13
<1>14. new.sort \in Packages => S!HoldsHash(s)
  BY DEF S!HoldsHash
<1>15. CopyPart'
  <2>1. \A t \in Senders : S!HoldsHash(t)' => t # s /\ S!HoldsHash(t) /\ send'[t] = send[t]
    BY <1>3, <1>8 DEF S!HoldsHash, S!At
  <2>2. ASSUME NEW t \in Senders, S!HoldsHash(t), t # s PROVE send[t].new.sort # new.sort
    BY <1>14, <2>2 DEF StorageInv, CopyPart, S!HoldsHash
  <2>3. ASSUME NEW t \in Senders, S!HoldsHash(t)', NEW e \in Entries, entry'[e].live
        PROVE  entry'[e].sort # send'[t].new.sort
    BY <2>1, <2>2, <2>3, <1>13 DEF StorageInv, CopyPart
  <2>4. S!OneCopyPerPackage'
    <3>1. SUFFICES ASSUME NEW d \in Entries, NEW e \in Entries, entry'[d].sort \in Packages,
                          entry'[d].live, entry'[e].live, entry'[d].sort = entry'[e].sort
                   PROVE  d = e
      BY DEF S!OneCopyPerPackage
    <3>2. CASE d # row /\ e # row
      BY <1>13, <3>1, <3>2 DEF StorageInv, CopyPart, S!OneCopyPerPackage
    <3>3. CASE d = row \/ e = row
      <4>1. new.sort \in Packages
        BY <1>4, <3>1, <3>3
      <4>2. \A x \in Entries : entry[x].live => entry[x].sort # new.sort
        BY <1>14, <4>1 DEF StorageInv, CopyPart
      <4>3. QED
        BY <1>13, <3>1, <3>3, <4>2
    <3>4. QED
      BY <3>2, <3>3
  <2>5. QED
    BY <2>1, <2>3, <2>4 DEF StorageInv, CopyPart
<1>16. QuarantinePart'
  <2>1. SUFFICES ASSUME mishaps \cap {"crash", "lost"} = {}, NEW e \in quarantine
                 PROVE  \/ entry'[e].sort \in Packages
                        \/ \E t \in Senders : /\ ~S!At(t, "idle")' /\ send'[t].row = e
                                              /\ send'[t].new.sort \in Packages
    BY DEF QuarantinePart
  <2>2. e \in Entries
    BY <1>1 DEF S!TypeOK
  <2>3. CASE e = row
    <3>1. entry[e].sort \notin Packages
      BY <1>1, <2>3, StorageAssumption DEF S!Absent
    <3>2. PICK t \in Senders : /\ ~S!At(t, "idle") /\ send[t].row = e
                               /\ send[t].new.sort \in Packages
      BY <2>1, <3>1 DEF StorageInv, QuarantinePart
    <3>3. t = s
      BY <2>3, <3>2, S!At(s, "write") DEF StorageInv, SendPart, OneUploadPerRow, S!At
    <3>4. QED
      BY <1>4, <2>2, <2>3, <3>2, <3>3
  <2>4. CASE e # row
    <3>1. CASE entry[e].sort \in Packages
      BY <1>4, <2>2, <2>4, <3>1
    <3>2. CASE \E t \in Senders : /\ ~S!At(t, "idle") /\ send[t].row = e
                                 /\ send[t].new.sort \in Packages
      <4>1. PICK t \in Senders : /\ ~S!At(t, "idle") /\ send[t].row = e
                                /\ send[t].new.sort \in Packages
        BY <3>2
      <4>2. t # s
        BY <2>4, <4>1
      <4>3. send'[t] = send[t]
        BY <1>3, <4>2
      <4>4. QED
        BY <4>1, <4>3 DEF S!At
    <3>3. QED
      BY <2>1, <3>1, <3>2 DEF StorageInv, QuarantinePart
  <2>5. QED
    BY <2>3, <2>4
<1>17. QED
  BY <1>5, <1>7, <1>11, <1>12, <1>15, <1>16 DEF StorageInv

LEMMA WriteKeepsStorage ==
  ASSUME StorageInv, NEW s \in Senders, S!Write(s)
  PROVE  StorageInv'
<1>1. CASE S!Goes(s, "undo") /\ UNCHANGED entry
  <2>1. /\ \A t \in Senders \ {s} : send'[t] = send[t]
        /\ send'[s].pc = "undo" /\ send'[s].row = send[s].row /\ send'[s].new = send[s].new
        /\ send'[s].taken = send[s].taken
        /\ UNCHANGED <<entry, quarantine, sends, mishaps>>
    BY <1>1 DEF S!Write, S!Goes, StorageInv, S!TypeOK, S!Send
  <2>2. S!TypeOK'
    BY <1>1 DEF S!Write, S!Goes, StorageInv, S!TypeOK, S!Send
  <2>3. SendFits(s)'
    BY <2>1 DEF StorageInv, SendPart, SendFits, S!Write, S!At
  <2>4. ~S!HoldsQuota(s)' /\ ~S!HoldsHash(s)' /\ ~S!At(s, "idle") /\ ~S!At(s, "idle")'
    BY <2>1 DEF S!HoldsQuota, S!HoldsHash, S!At, S!Write
  <2>5. QED
    BY <2>1, <2>2, <2>3, <2>4, SendGoesOn DEF StorageInv
<1>2. CASE ~UNCHANGED entry \/ ~S!Goes(s, "undo")
  <2> DEFINE replaced == IF send[s].taken = {} THEN {} ELSE S!Avatars
  <2>1. /\ S!At(s, "write") /\ replaced \cap S!HeldByOthers(s) = {}
        /\ entry' = [e \in Entries |->
                       IF e = send[s].row THEN send[s].new
                       ELSE [entry[e] EXCEPT !.live = @ /\ e \notin replaced]]
        /\ S!Ends(s) \/ S!Goes(s, "undo")
        /\ UNCHANGED <<quarantine, sends, mishaps>>
    BY <1>2 DEF S!Write
  <2>2. QED
    BY <2>1, CommitKeepsStorage
<1>3. QED
  BY <1>1, <1>2

\* The end of an upload that leaves the table alone.
LEMMA UploadEnds ==
  ASSUME StorageInv, NEW s \in Senders, S!Ends(s), UNCHANGED <<entry, sends, mishaps>>,
         ~S!At(s, "idle"),
         \/ UNCHANGED quarantine /\ mishaps \cap {"crash", "lost"} # {}
         \/ quarantine' = quarantine \ {send[s].row}
  PROVE  StorageInv'
<1>1. /\ \A t \in Senders \ {s} : send'[t] = send[t]
      /\ send'[s] = S!NoSend /\ send' \in [Senders -> S!Send]
  BY NoSendIsIdle DEF S!Ends, StorageInv, S!TypeOK
<1>2. S!TypeOK'
  BY <1>1 DEF StorageInv, S!TypeOK
<1>3. ~S!HoldsQuota(s)' /\ ~S!HoldsHash(s)' /\ S!At(s, "idle")'
  BY <1>1, NoSendIsIdle DEF S!HoldsQuota, S!HoldsHash, S!At
<1>4. SendPart'
  <2>1. SendFits(s)'
    BY <1>1, NoSendIsIdle DEF SendFits, S!At
  <2>2. ASSUME NEW t \in Senders \ {s} PROVE SendFits(t)'
    BY <1>1 DEF StorageInv, SendPart, SendFits, S!At, S!Avatars
  <2>3. OneUploadPerRow'
    BY <1>1, <1>3 DEF StorageInv, SendPart, OneUploadPerRow, S!At
  <2>4. QED
    BY <2>1, <2>2, <2>3 DEF SendPart
<1>5. QuotaIsLocked' /\ RoomPart'
  BY <1>1, <1>3, RoomStays
<1>6. CopyPart'
  BY <1>1, <1>3 DEF StorageInv, CopyPart, S!OneCopyPerPackage, S!HoldsHash, S!At
<1>7. QuarantinePart'
  <2>1. SUFFICES ASSUME mishaps \cap {"crash", "lost"} = {}, NEW e \in quarantine,
                        e # send[s].row
                 PROVE  \/ entry[e].sort \in Packages
                        \/ \E t \in Senders : /\ ~S!At(t, "idle")' /\ send'[t].row = e
                                              /\ send'[t].new.sort \in Packages
    BY DEF QuarantinePart
  <2>2. QED
    BY <1>1, <2>1 DEF StorageInv, QuarantinePart, S!At
<1>8. QED
  BY <1>2, <1>4, <1>5, <1>6, <1>7 DEF StorageInv

LEMMA UndoKeepsStorage ==
  ASSUME StorageInv, NEW s \in Senders, S!Undo(s)
  PROVE  StorageInv'
<1>1. ~S!At(s, "idle")
  BY DEF S!Undo, S!At
<1>2. \/ UNCHANGED quarantine /\ mishaps \cap {"crash", "lost"} # {}
      \/ quarantine' = quarantine \ {send[s].row}
  BY DEF S!Undo
<1>3. QED
  BY <1>1, <1>2, UploadEnds DEF S!Undo

LEMMA CrashKeepsStorage ==
  ASSUME StorageInv, NEW s \in Senders, S!Crash(s)
  PROVE  StorageInv'
<1>1. mishaps \cap {"crash", "lost"} # {}
  BY DEF S!Crash
<1>2. QED
  BY <1>1, UploadEnds DEF S!Crash

LEMMA DeleteKeepsStorage ==
  ASSUME StorageInv, NEW e \in Entries, S!Delete(e)
  PROVE  StorageInv'
<1>1. \A d \in Entries :
        /\ entry'[d].size = entry[d].size /\ entry'[d].sort = entry[d].sort
        /\ entry'[d].live <=> entry[d].live /\ d # e
        /\ d # e => entry'[d] = entry[d]
  BY DEF S!Delete, StorageInv, S!TypeOK, S!Entry
<1>2. S!TypeOK'
  <2>1. entry \in [Entries -> S!Entry] /\ entry' = [entry EXCEPT ![e].live = FALSE]
    BY DEF S!Delete, StorageInv, S!TypeOK
  <2>2. [entry[e] EXCEPT !.live = FALSE] \in S!Entry
    BY <2>1 DEF S!Entry
  <2>3. entry' \in [Entries -> S!Entry]
    BY <2>1, <2>2
  <2>4. QED
    BY <2>3, StorageAssumption DEF S!Delete, S!Requested, StorageInv, S!TypeOK
<1>3. S!Usage' <= S!Usage
  <2>1. \A d \in Counted' : /\ entry[d].size \in S!Size /\ entry'[d].size \in S!Size
                           /\ entry'[d].size <= entry[d].size
    BY <1>1 DEF Counted, StorageInv, S!TypeOK, S!Entry, S!Size
  <2>2. /\ Counted' \in SUBSET Entries /\ Counted \in SUBSET Entries
        /\ Counted' \subseteq Counted
    BY <1>1 DEF Counted
  <2>3. QED
    BY <2>1, <2>2, UnitsGrow, UsageInUnits
<1>4. \A t \in Senders : S!Delta(t)' = S!Delta(t) /\ (S!HoldsQuota(t)' <=> S!HoldsQuota(t))
  <2>1. \A t \in Senders : send'[t] = send[t] /\ send[t].taken \subseteq Entries
    BY DEF S!Delete, StorageInv, S!TypeOK, S!Send
  <2>2. QED
    BY <1>1, <2>1, AmountStays
<1>5. QuotaIsLocked'
  BY <1>4 DEF StorageInv, QuotaIsLocked
<1>6. RoomPart'
  <2>1. S!Usage \in Nat /\ S!Usage' \in Nat /\ \A t \in Senders : S!Delta(t) \in Int
    <3>1. S!Usage' \in Nat
      BY <1>2, UsageInUnits, UnitsAreFinite, Counted' \in SUBSET Entries DEF Counted
    <3>2. QED
      BY <3>1, Amounts DEF StorageInv
  <2>2. QED
    BY <1>3, <1>4, <2>1, StorageAssumption DEF StorageInv, RoomPart, S!Delete
<1>7. \A d \in Entries : entry[d] = S!Absent => entry'[d] = S!Absent
  BY <1>1 DEF S!Delete, S!Absent
<1>8. S!Avatars' = S!Avatars
  BY <1>1 DEF S!Delete, S!Avatars
<1>9. SendPart'
  BY <1>7, <1>8, <1>2 DEF StorageInv, SendPart, SendFits, OneUploadPerRow, S!Delete, S!At,
                          S!TypeOK, S!Send
<1>10. CopyPart'
  BY <1>1 DEF StorageInv, CopyPart, S!OneCopyPerPackage, S!HoldsHash, S!At, S!Delete
<1>11. QuarantinePart'
  BY <1>1 DEF StorageInv, QuarantinePart, S!TypeOK, S!At, S!Delete
<1>12. QED
  BY <1>2, <1>5, <1>6, <1>9, <1>10, <1>11 DEF StorageInv

LEMMA CompleteImageKeepsStorage ==
  ASSUME StorageInv, NEW e \in Entries, NEW size \in S!Size, S!CompleteImage(e, size)
  PROVE  StorageInv'
<1>1. /\ \A d \in Entries : entry'[d].sort = entry[d].sort /\ entry'[d].live = entry[d].live
      /\ \A d \in Entries \ {e} : entry'[d] = entry[d]
      /\ entry'[e].size = size
  BY DEF S!CompleteImage, StorageInv, S!TypeOK, S!Entry
<1>2. S!TypeOK'
  BY StorageAssumption DEF S!CompleteImage, S!Requested, StorageInv, S!TypeOK, S!Entry
<1>3. "growth" \notin mishaps => S!Usage' <= S!Usage
  <2>1. SUFFICES ASSUME "growth" \notin mishaps PROVE S!Usage' <= S!Usage
    OBVIOUS
  <2>2. size <= entry[e].size
    BY <2>1 DEF S!CompleteImage, StorageInv, S!TypeOK, S!Entry, S!Size
  <2>3. \A d \in Counted' : /\ entry[d].size \in S!Size /\ entry'[d].size \in S!Size
                           /\ entry'[d].size <= entry[d].size
    BY <1>1, <2>2 DEF Counted, StorageInv, S!TypeOK, S!Entry, S!Size
  <2>4. /\ Counted' \in SUBSET Entries /\ Counted \in SUBSET Entries
        /\ Counted' \subseteq Counted
    BY <1>1 DEF Counted
  <2>5. QED
    BY <2>3, <2>4, UnitsGrow, UsageInUnits
<1>4. ASSUME NEW t \in Senders, send[t].pc \in {"hash", "write"}
      PROVE  S!Delta(t)' = S!Delta(t) /\ (S!HoldsQuota(t)' <=> S!HoldsQuota(t))
  <2>1. e \notin send[t].taken
    <3>1. S!At(t, "hash") => send[t].taken = {}
      BY StorageAssumption DEF StorageInv, SendPart, SendFits
    <3>2. QED
      BY <1>4, <3>1 DEF S!CompleteImage, S!HoldsRows, S!At
  <2>2. send'[t] = send[t] /\ send[t].taken \subseteq Entries
    BY DEF S!CompleteImage, StorageInv, S!TypeOK, S!Send
  <2>3. QED
    BY <1>1, <2>1, <2>2, AmountStays
<1>5. ASSUME NEW t \in Senders, S!HoldsQuota(t)'
      PROVE  S!HoldsQuota(t) /\ S!Delta(t)' = S!Delta(t)
  BY <1>4, <1>5 DEF S!HoldsQuota, S!CompleteImage
<1>6. QuotaIsLocked'
  BY <1>5 DEF StorageInv, QuotaIsLocked
<1>7. RoomPart'
  <2>1. S!Usage \in Nat /\ S!Usage' \in Nat /\ \A t \in Senders : S!Delta(t) \in Int
    <3>1. S!Usage' \in Nat
      BY <1>2, UsageInUnits, UnitsAreFinite, Counted' \in SUBSET Entries DEF Counted
    <3>2. QED
      BY <3>1, Amounts DEF StorageInv
  <2>2. QED
    BY <1>3, <1>5, <2>1, StorageAssumption DEF StorageInv, RoomPart, S!CompleteImage
<1>8. \A d \in Entries : entry[d] = S!Absent => entry'[d] = S!Absent
  BY <1>1 DEF S!CompleteImage, S!Absent
<1>9. S!Avatars' = S!Avatars
  BY <1>1 DEF S!Avatars
<1>10. SendPart'
  BY <1>2, <1>8, <1>9 DEF StorageInv, SendPart, SendFits, OneUploadPerRow, S!CompleteImage,
      S!At,
                          S!TypeOK, S!Send
<1>11. CopyPart'
  BY <1>1 DEF StorageInv, CopyPart, S!OneCopyPerPackage, S!HoldsHash, S!At, S!CompleteImage
<1>12. QuarantinePart'
  BY <1>1 DEF StorageInv, QuarantinePart, S!TypeOK, S!At, S!CompleteImage
<1>13. QED
  BY <1>2, <1>6, <1>7, <1>10, <1>11, <1>12 DEF StorageInv

LEMMA StorageStutters ==
  ASSUME StorageInv, UNCHANGED storageVars
  PROVE  StorageInv'
<1>1. S!TypeOK' /\ SendPart'
  BY DEF storageVars, StorageInv, S!TypeOK, SendPart, SendFits, OneUploadPerRow, S!At, S!Avatars
<1>2. S!Usage' = S!Usage /\ \A s \in Senders : S!Delta(s)' = S!Delta(s)
  BY UsageInUnits, DeltaInUnits DEF storageVars, Counted
<1>3. \A s \in Senders : S!HoldsQuota(s)' <=> S!HoldsQuota(s)
  BY <1>2 DEF storageVars, S!HoldsQuota
<1>4. RoomPart' /\ QuotaIsLocked'
  BY <1>2, <1>3 DEF storageVars, StorageInv, RoomPart, QuotaIsLocked
<1>5. CopyPart' /\ QuarantinePart'
  BY DEF storageVars, StorageInv, CopyPart, QuarantinePart, S!OneCopyPerPackage, S!HoldsHash,
      S!At
<1>6. QED
  BY <1>1, <1>4, <1>5 DEF StorageInv

LEMMA StorageNext ==
  ASSUME StorageInv, S!Next \/ UNCHANGED storageVars
  PROVE  StorageInv'
<1>1. ASSUME NEW s \in Senders, S!Upload(s) PROVE StorageInv'
  BY <1>1, ReadKeepsStorage, LockKeepsStorage, EnsureQuotaKeepsStorage,
      CheckDuplicateKeepsStorage,
     WriteKeepsStorage, UndoKeepsStorage DEF S!Upload
<1>2. QED
  BY <1>1, BeginKeepsStorage, CrashKeepsStorage, DeleteKeepsStorage, CompleteImageKeepsStorage,
     StorageStutters DEF S!Next

-----------------------------------------------------------------------------
(* The system that TLC runs.                                               *)

imagesVars == <<part, vars, galleryVars, storageVars>>

LEMMA ImagesImplyProcessing == ImagesSpec => Spec
<1>1. ImagesInit => Init
  BY DEF ImagesInit
<1>2. [ImagesNext]_imagesVars => [Next]_vars
  BY DEF ImagesNext, imagesVars
<1>3. QED
  BY <1>1, <1>2, PTL DEF ImagesSpec, imagesVars, Spec

LEMMA ImagesKeepGallery == ImagesSpec => []GalleryInv
<1>1. ImagesInit => GalleryInv
  BY GalleryInit DEF ImagesInit
<1>2. GalleryInv /\ [ImagesNext]_imagesVars => GalleryInv'
  BY GalleryNext DEF ImagesNext, imagesVars
<1>3. QED
  BY <1>1, <1>2, PTL DEF ImagesSpec, imagesVars

LEMMA ImagesKeepStorage == ImagesSpec => []StorageInv
<1>1. ImagesInit => StorageInv
  BY StorageInit DEF ImagesInit
<1>2. StorageInv /\ [ImagesNext]_imagesVars => StorageInv'
  BY StorageNext DEF ImagesNext, imagesVars
<1>3. QED
  BY <1>1, <1>2, PTL DEF ImagesSpec, imagesVars

\* Every variable of the three parts has its type, whatever fails.
THEOREM ImagesAreTyped == ImagesSpec => []Typed
<1>1. TypeOK /\ GalleryInv /\ StorageInv => Typed
  BY DEF Typed, GalleryInv, StorageInv
<1>2. QED
  BY <1>1, ImagesImplyProcessing, TypeCorrect, ImagesKeepGallery, ImagesKeepStorage, PTL

\* For every number of requests and images: the worker adds its preview only where
\* there is no image, only uploads are refused by the unique index, and
\* transactions that wait for one another are an upload and one that is none.
THEOREM GalleryIsSafe == ImagesSpec => []GalleryHolds
<1>1. GalleryInv => GalleryHolds
  BY Conflicting, Deadlocking DEF GalleryHolds, G!GalleryHolds, GalleryInv
<1>2. QED
  BY <1>1, ImagesKeepGallery, PTL

\* For every number of uploads, packages and rows, and every quota: uploads that
\* overlap stay within it, also where an avatar that is not larger takes no lock,
\* no package is there twice, and none lies in quarantine uncounted.
THEOREM StorageIsSafe == ImagesSpec => []StorageHolds
<1>1. StorageInv => S!UsageWithinQuota
  BY DEF StorageInv, RoomPart, S!UsageWithinQuota
<1>2. StorageInv => S!OneCopyPerPackage
  BY DEF StorageInv, CopyPart
<1>3. StorageInv => S!QuarantineIsCounted
  BY DEF StorageInv, QuarantinePart, S!QuarantineIsCounted
<1>4. StorageInv => StorageHolds
  BY <1>1, <1>2, <1>3 DEF StorageHolds, S!StorageHolds
<1>5. QED
  BY <1>4, ImagesKeepStorage, PTL
=============================================================================
