--------------------------- MODULE ContentSafety ---------------------------
(***************************************************************************)
(* What must hold of the content pipeline.                                 *)
(***************************************************************************)
EXTENDS ContentPipeline, FiniteSets

\* A committed transaction is never reported as failed.
RepliesArrive == "lost_reply" \notin faults

\* A published item is one that may be served: its file was found clean, lies
\* in the private bucket, and the item is neither hidden nor deleted.  Seven
\* handlers write these columns and none of them checks all of them: approve
\* ignores hidden_at and deleted_at, the scan verdict overwrites any status.
PublishedIsServable ==
  \A c \in Contents :
    item[c].status = "published" => Downloadable(c) /\ item[c].published

\* A deleted item never gets a status from which someone could bring it back:
\* a late scan verdict or a rescan may overwrite "deleted", nothing else may.
DeletedStaysWithdrawn ==
  \A c \in Contents :
    item[c].deleted => item[c].status \in {"deleted", "pending_scan", "scan_failed"}

\* The object behind a published item exists: no failed or repeated promotion
\* removes the copy that another one has published.
PublishedHasObject ==
  RepliesArrive =>
    \A c \in Contents :
      item[c].status = "published" => <<file[c].bucket, c>> \in store

\* Whenever an item enters or leaves the set of searchable rows, the same
\* transaction queues a search job, so the index cannot be left behind.
IndexIsTold ==
  RepliesArrive => \A c \in Contents : announced[c] = Searchable(item[c])

\* At most one scan job of a file can still run, so two workers never judge
\* or promote the same file at the same time.
LiveScan(c, j) ==
  payload[j].content = c /\ rows[j].status \in {"pending", "running", "dead"}

OneLiveScan ==
  RepliesArrive =>
    \A c \in Contents : \A i, j \in Jobs : LiveScan(c, i) /\ LiveScan(c, j) => i = j

\* A private copy that no row points to is in the hands of someone who will
\* publish or remove it: without faults promotion leaks no objects.
Promoting(c) ==
  \E a \in Actors : actor[a].content = c /\ actor[a].pc \in {"publish", "undo"}

NoStrayCopy ==
  faults = {} =>
    \A c \in Contents :
      <<"private", c>> \in store => file[c].bucket = "private" \/ Promoting(c)

\* A file with a verdict against it never becomes clean without a rescan,
\* which makes it pending first: not even when an attempt whose result was
\* reported lost is repeated and finds the file clean.
VerdictStands ==
  [][\A c \in Contents :
       file[c].scan \in {"failed", "suspicious", "infected"} =>
         file'[c].scan # "clean"]_vars

\* What a moderator hid or rejected is not downloadable until a moderator
\* approves or restores it, or an administrator has it scanned again.
TakedownHolds == \A c \in Contents : takenDown[c] => ~Downloadable(c)

-----------------------------------------------------------------------------
(* What must happen, as long as nothing fails.                             *)

\* An upload does not wait for its scan for ever: it gets a verdict, or its
\* job is dead and shown to the administrator.
ScanEnds ==
  \A c \in Contents :
    (item[c].status = "pending_scan")
      ~> (item[c].status # "pending_scan"
            \/ \E j \in Jobs : payload[j].content = c /\ rows[j].status = "dead")

\* A clean item that waits in pending_moderation is decided: the reconcile
\* pass publishes it if nobody else decides first.
CleanIsDecided ==
  \A c \in Contents :
    (item[c].status = "pending_moderation") ~> (item[c].status # "pending_moderation")

\* The quarantined original of a published item is eventually removed.
QuarantineIsPurged ==
  \A c \in Contents :
    (item[c].status = "published") ~> (<<"quarantine", c>> \notin store)

\* Without faults whatever entered the pipeline leaves it: uploads are scanned,
\* clean items are decided, and published ones leave the quarantine.
PipelineDrains == ScanEnds /\ CleanIsDecided /\ QuarantineIsPurged
=============================================================================
