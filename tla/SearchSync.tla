----------------------------- MODULE SearchSync -----------------------------
(***************************************************************************)
(* How the Meilisearch index follows PostgreSQL.  Most transactions that   *)
(* change what is indexed of an item queue a job, which a worker carries   *)
(* out later.  An "upsert" job reads the rows again, a "delete" job does   *)
(* not, and both call Meilisearch after the read, outside any transaction. *)
(*                                                                         *)
(* Not every change is announced by a job.  The names of categories, tags  *)
(* and authors, the download counter and a primary image that is uploaded  *)
(* over another one change quietly; and when an image has been processed,  *)
(* the job is queued by a statement of its own, which may fail or never    *)
(* run.  So the program promises of a document only that it is no older    *)
(* than the last change that was announced.                                *)
(*                                                                         *)
(* Meilisearch queues the calls it has accepted and applies them in that   *)
(* order, so an accepted call is modelled as applied.                      *)
(***************************************************************************)
EXTENDS JobRows, FiniteSets

CONSTANTS
  Contents,
  MaxJobs,       \* bound: search jobs ever inserted
  MaxEdits,      \* bound: changes of what is indexed of an item
  NoContent,
  NoDocument,    \* no document of an item in the index, or in a worker's hands
  FaultSets      \* the environments considered, each a set of fault kinds

ASSUME SearchAssumption ==
  /\ NoContent \notin Contents
  /\ MaxJobs \in Nat \ {0} /\ MaxEdits \in Nat

\* "overlap": transactions that begin in one order and commit in the other.
FaultKinds == {"crash", "db_error", "lost_reply", "search_error", "overlap"}

ASSUME FaultSetsAssumption == FaultSets \subseteq SUBSET FaultKinds

VARIABLES
  item,     \* what the tables hold of an item, and what was announced of it
  index,    \* the documents in Meilisearch
  rows,     \* worker_jobs of the search_index_queue
  payload,  \* their content and action
  worker,   \* where each worker is, and what it holds
  faults    \* the fault kinds that may strike: chosen once, never changed

vars == <<item, index, rows, payload, worker, faults>>

-----------------------------------------------------------------------------
Jobs == 1 .. MaxJobs

\* A document stands for all columns that GetContentSearchDocument joins: of
\* the item (title, counters, updated_at), its category, author and tags, and
\* its processed primary image.  It is the number of changes they have seen.
Document == 0 .. MaxEdits
ASSUME DocumentAssumption == NoDocument \notin Document

\* Searchable or not; the document the tables hold now; the document they held
\* when an upsert or delete job was last queued (a ghost); and one image on its
\* way (bound: one of an item at a time), "processed" being the moment between
\* CompleteImageProcessing and EnqueueSearchIndex, "refreshed" the moment
\* before the image job is marked.
Item == [shown     : BOOLEAN,
         version   : Document,
         announced : Document,
         image     : {"none", "pending", "processed", "refreshed"}]
Action == {"upsert_content", "delete_content"}
Payload == [content : Contents \cup {NoContent}, action : Action]

Worker == [pc       : {"idle", "load", "upsert", "delete", "mark", "fail"},
           job      : 0 .. MaxJobs,
           attempt  : 0 .. MaxAttempts,
           document : Document \cup {NoDocument}]

Resting == [pc |-> "idle", job |-> 0, attempt |-> 0, document |-> NoDocument]

TypeOK ==
  /\ item \in [Contents -> Item]
  /\ index \in [Contents -> Document \cup {NoDocument}]
  /\ rows \in [Jobs -> Row]
  /\ payload \in [Jobs -> Payload]
  /\ worker \in [Workers -> Worker]
  /\ faults \in FaultSets

Init ==
  /\ item = [c \in Contents |->
              [shown |-> FALSE, version |-> 0, announced |-> 0, image |-> "none"]]
  /\ index = [c \in Contents |-> NoDocument]
  /\ rows = [j \in Jobs |-> NoRow]
  /\ payload = [j \in Jobs |-> [content |-> NoContent, action |-> "upsert_content"]]
  /\ worker = [w \in Workers |-> Resting]
  /\ faults \in FaultSets

-----------------------------------------------------------------------------
(* Producers that announce: one transaction changes the rows and queues    *)
(* the job.                                                                *)

\* Bound: a job number is left for every refresh that has yet to be queued.
Room ==
  Cardinality({j \in Jobs : rows[j].status = "absent"})
    > Cardinality({c \in Contents : item[c].image = "processed"})

\* Mutant: the newest job gets the lowest number, so it is claimed first.
EnqueueFirst(c, action) ==
  \E j \in Jobs :
    /\ rows[j].status = "absent" /\ \A i \in Jobs : i > j => rows[i].status # "absent"
    /\ rows' = [rows EXCEPT ![j] = NewRow]
    /\ payload' = [payload EXCEPT ![j] = [content |-> c, action |-> action]]

\* enqueueContentSearchTx and enqueueSearchIndexTx.  Job numbers follow
\* created_at, the begin of the transaction that queues the job: one that
\* commits later may have begun earlier.
Enqueue(c, action) ==
  \E j \in Jobs :
    /\ rows[j].status = "absent"
    /\ "overlap" \in faults \/ \A i \in Jobs : i < j => rows[i].status # "absent"
    /\ rows' = [rows EXCEPT ![j] = NewRow]
    /\ payload' = [payload EXCEPT ![j] = [content |-> c, action |-> action]]

\* The item's row gets a new updated_at at least, in the transaction of the job.
Announce(c, shown, action) ==
  /\ Room /\ item[c].version < MaxEdits
  /\ item' = [item EXCEPT ![c].shown = shown, ![c].version = @ + 1,
                          ![c].announced = item[c].version + 1]
  /\ Enqueue(c, action)
  /\ UNCHANGED <<index, worker, faults>>

\* Publication, approval, restore, or a change of visibility to public.
Show(c) == ~item[c].shown /\ Announce(c, TRUE, "upsert_content")

\* Reject, hide, delete, or an owner's change that takes the item out; the
\* first two queue their job for an item that was not shown, too.
Withdraw(c) == Announce(c, FALSE, "delete_content")

\* Mutant: a change that should be announced is not.
EditQuietly(c) ==
  /\ item[c].version < MaxEdits
  /\ item' = [item EXCEPT ![c].version = @ + 1, ![c].announced = item[c].version + 1]
  /\ UNCHANGED <<rows, payload, index, worker, faults>>

\* A like, a comment, an owner's update of a public item or of its images; or
\* the publication or restore of an item that is not listed.
Edit(c) == Announce(c, item[c].shown, "upsert_content")

-----------------------------------------------------------------------------
(* Changes of indexed columns that no job announces.                       *)

Quietly(c) ==
  /\ item[c].version < MaxEdits
  /\ item' = [item EXCEPT ![c].version = @ + 1]
  /\ UNCHANGED <<index, rows, payload, worker, faults>>

\* UpdateAdminCategory, UpdateAdminTag and UpdateProfile: names that stand in
\* the document of every item they belong to.
Rename(c) == Quietly(c)

\* DownloadRepository.RecordEvent: downloads_count + 1.
CountDownload(c) == Quietly(c)

\* UpdateOwned, the outcome of a scan, a rescan or a new link, for an item that
\* is not and does not become searchable.
UpdateHidden(c) == ~item[c].shown /\ Quietly(c)

-----------------------------------------------------------------------------
(* An image of the item, from its upload to the search job.  None of these *)
(* statements shares a transaction with another.                           *)

ImageStep(c, from, to) ==
  /\ item[c].image = from
  /\ item' = [item EXCEPT ![c].image = to]
  /\ UNCHANGED <<index, rows, payload, worker, faults>>

\* The same, where the preview may change: \E, as the image may not be the
\* primary one, or may replace none.
PreviewStep(c, from, to) ==
  /\ item[c].image = from
  /\ \E version \in {item[c].version, item[c].version + 1} \cap Document :
       item' = [item EXCEPT ![c].image = to, ![c].version = version]
  /\ UNCHANGED <<index, rows, payload, worker, faults>>

\* CreateContentImage: a new primary image takes the preview away until it is
\* processed.
UploadImage(c) == PreviewStep(c, "none", "pending")

CompleteImage(c) == Room /\ PreviewStep(c, "pending", "processed")

\* FailImageProcessing, or an image whose job is never carried out.
FailImage(c) == ImageStep(c, "pending", "none")

\* EnqueueSearchIndex: what the tables hold by now is announced.
SendRefresh(c) ==
  /\ item[c].image = "processed"
  /\ item' = [item EXCEPT ![c].image = "refreshed", ![c].announced = item[c].version]
  /\ Enqueue(c, "upsert_content")
  /\ UNCHANGED <<index, worker, faults>>

\* The worker dies before the call, its error is only logged, or
\* CompleteImageProcessing seemed to fail; nobody makes up for it.
LoseRefresh(c) ==
  \/ "crash" \in faults /\ ImageStep(c, "processed", "none")
  \/ faults \cap {"db_error", "lost_reply"} # {} /\ ImageStep(c, "processed", "refreshed")

FinishImage(c) == ImageStep(c, "refreshed", "none")

\* MarkSucceeded seems to fail: the processed image becomes a failed one.
SpoilImage(c) ==
  faults \cap {"db_error", "lost_reply"} # {} /\ PreviewStep(c, "refreshed", "none")

-----------------------------------------------------------------------------
(* The worker: processSearchQueue and processSearchIndex.                  *)

At(w, pc) == worker[w].pc = pc

\* A document is held from its load to its upsert only.
Goto(w, pc) == worker' = [worker EXCEPT ![w].pc = pc, ![w].document = NoDocument]

Content(w) == payload[worker[w].job].content

Claim(w, j) ==
  /\ At(w, "idle")
  /\ Claimable(rows[j]) /\ \A i \in Jobs : i < j => ~Claimable(rows[i])
  /\ rows' = [rows EXCEPT ![j] = ClaimedBy(@, w)]
  /\ worker' = [worker EXCEPT ![w] =
                  [pc |-> IF payload[j].action = "delete_content" THEN "delete" ELSE "load",
                   job |-> j, attempt |-> rows[j].attempts + 1, document |-> NoDocument]]
  /\ UNCHANGED <<item, index, payload, faults>>

\* GetContentSearchDocument: the row as it is now, or the document must go.
Load(w) ==
  /\ At(w, "load")
  /\ LET i == item[Content(w)] IN
       \/ /\ i.shown
          /\ worker' = [worker EXCEPT ![w].pc = "upsert", ![w].document = i.version]
       \/ /\ ~i.shown
          /\ Goto(w, "delete")
       \/ "db_error" \in faults /\ Goto(w, "fail")
  /\ UNCHANGED <<item, index, rows, payload, faults>>

\* A call to Meilisearch that sets the item's entry: accepted, refused, or
\* accepted and reported as failed.
Call(w, entry) ==
  \/ /\ index' = [index EXCEPT ![Content(w)] = entry]
     /\ Goto(w, "mark") \/ ("lost_reply" \in faults /\ Goto(w, "fail"))
  \/ /\ "search_error" \in faults
     /\ UNCHANGED index
     /\ Goto(w, "fail")

Upsert(w) ==
  /\ At(w, "upsert")
  /\ Call(w, worker[w].document)
  /\ UNCHANGED <<item, rows, payload, faults>>

Delete(w) ==
  /\ At(w, "delete")
  /\ Call(w, NoDocument)
  /\ UNCHANGED <<item, rows, payload, faults>>

Mark(w) ==
  /\ At(w, "mark")
  /\ \/ /\ rows' = [rows EXCEPT ![worker[w].job] = MarkedSucceeded(@)]
        /\ \/ worker' = [worker EXCEPT ![w] = Resting]
           \/ "lost_reply" \in faults /\ Goto(w, "fail")
     \/ "db_error" \in faults /\ UNCHANGED rows /\ Goto(w, "fail")
  /\ UNCHANGED <<item, index, payload, faults>>

Fail(w) ==
  /\ At(w, "fail")
  /\ \/ rows' = [rows EXCEPT ![worker[w].job] = MarkedFailed(@, worker[w].attempt)]
     \/ "db_error" \in faults /\ UNCHANGED rows
  /\ worker' = [worker EXCEPT ![w] = Resting]
  /\ UNCHANGED <<item, index, payload, faults>>

Crash(w) ==
  /\ "crash" \in faults
  /\ ~At(w, "idle")
  /\ worker' = [worker EXCEPT ![w] = Resting]
  /\ UNCHANGED <<item, index, rows, payload, faults>>

BackoffElapses(j) ==
  /\ Waiting(rows[j])
  /\ rows' = [rows EXCEPT ![j] = MadeDue(@)]
  /\ UNCHANGED <<item, index, payload, worker, faults>>

RetryAdminJob(j) ==
  /\ Retryable(rows[j])
  /\ rows' = [rows EXCEPT ![j] = Retried(@)]
  /\ UNCHANGED <<item, index, payload, worker, faults>>

-----------------------------------------------------------------------------
WorkerStep(w) ==
  \/ \E j \in Jobs : Claim(w, j)
  \/ Load(w) \/ Upsert(w) \/ Delete(w) \/ Mark(w) \/ Fail(w)

Change(c) ==
  \/ Show(c) \/ Withdraw(c) \/ Edit(c)
  \/ Rename(c) \/ CountDownload(c) \/ UpdateHidden(c)

Image(c) ==
  \/ UploadImage(c) \/ CompleteImage(c) \/ FailImage(c)
  \/ SendRefresh(c) \/ LoseRefresh(c) \/ FinishImage(c) \/ SpoilImage(c)

Next ==
  \/ \E c \in Contents : Change(c) \/ Image(c)
  \/ \E w \in Workers : WorkerStep(w) \/ Crash(w)
  \/ \E j \in Jobs : BackoffElapses(j) \/ RetryAdminJob(j)

Spec == Init /\ [][Next]_vars

\* The worker loop polls for ever and goes on from one statement to the next,
\* time passes; changes are never owed.
Fairness ==
  /\ \A c \in Contents : WF_vars(SendRefresh(c))
  /\ \A w \in Workers : WF_vars(WorkerStep(w))
  /\ \A j \in Jobs : WF_vars(BackoffElapses(j))

FairSpec == Spec /\ Fairness

-----------------------------------------------------------------------------
(* Properties.                                                             *)

\* An item that is shown can be found, with a document no older than the last
\* change that a job announced; one that is not shown cannot be found.  Names,
\* the download counter, a preview taken away by an upload and a refresh that
\* was lost may be missing from the document: nothing announced them.
InStep(c) ==
  IF item[c].shown
    THEN index[c] # NoDocument /\ index[c] \in item[c].announced .. item[c].version
    ELSE index[c] = NoDocument

\* Every job was carried out.
AllDone == \A j \in Jobs : rows[j].status \in {"absent", "succeeded"}

NeverWithdrawn(c) ==
  \A j \in Jobs : ~(payload[j].content = c /\ payload[j].action = "delete_content")

\* When every queued job was carried out, the index shows what was announced:
\* always if no attempt failed and no transactions overlapped, as jobs are
\* claimed in the order of the changes and an upsert reads the rows again; and
\* whatever failed or overlapped for items that never left the catalogue, to
\* which an upsert that comes late or twice does no harm.
SyncedWhenDone ==
  AllDone =>
    \A c \in Contents : faults \subseteq {"crash"} \/ NeverWithdrawn(c) => InStep(c)

\* What the catalogue shows can be found, once every job was carried out.
ShownIsFound ==
  AllDone => \A c \in Contents : item[c].shown => index[c] # NoDocument

\* Without faults the index catches up with the last change that was announced
\* and stays in step; the processing of an image is always announced in the end.
EventuallyInStep ==
  (faults = {}) => <>[](\A c \in Contents : InStep(c) /\ item[c].image # "processed")
=============================================================================
