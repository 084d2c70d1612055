------------------------------ MODULE Gallery ------------------------------
(***************************************************************************)
(* The images of one item and which of them is its primary image.          *)
(*                                                                         *)
(* The owner uploads images, edits and deletes them; a worker adds the     *)
(* preview embedded in the package if the item has no image.  An upload    *)
(* takes the owner's quota lock first and meets the item's row only at its *)
(* INSERT (the foreign key); everybody else locks the item first.  What a  *)
(* transaction has written counts from its commit, an aborted one leaves   *)
(* nothing.                                                                *)
(*                                                                         *)
(* Left out: texts and order, the jobs, the objects (ImageProcessing).     *)
(***************************************************************************)
EXTENDS Naturals

CONSTANTS
  Editors,    \* requests and worker passes under way at the same time
  Pictures,   \* identifiers of image rows
  MaxEdits    \* bound: requests and passes

VARIABLES
  owned,    \* the item is neither deleted nor somebody else's
  picture,  \* content_images of the item, as committed
  edit,     \* where each transaction is, and what it holds
  edits     \* transactions so far

galleryVars == <<owned, picture, edit, edits>>

-----------------------------------------------------------------------------
\* "preview" is the worker's, the others are requests of the owner.
Kind == {"upload", "upload_primary", "preview", "choose", "unset", "remove"}

\* seen: the rows its statement has selected; held: those it has updated.
Edit == [pc   : {"idle", "quota", "item", "look", "snap", "rows", "insert", "key", "set"},
         kind : Kind,
         row  : Pictures,
         seen : SUBSET Pictures,
         held : SUBSET Pictures]

Opened(pc, kind, p) == [pc |-> pc, kind |-> kind, row |-> p, seen |-> {}, held |-> {}]

NoEdit == Opened("idle", "upload", CHOOSE p \in Pictures : TRUE)

TypeOK ==
  /\ owned \in BOOLEAN
  /\ picture \in [Pictures -> {"absent", "plain", "primary", "deleted"}]
  /\ edit \in [Editors -> Edit]
  /\ edits \in 0 .. MaxEdits

Init ==
  /\ owned = TRUE
  /\ picture = [p \in Pictures |-> "absent"]
  /\ edit = [c \in Editors |-> NoEdit]
  /\ edits = 0

Live == {p \in Pictures : picture[p] \in {"plain", "primary"}}

Primaries == {p \in Pictures : picture[p] = "primary"}

-----------------------------------------------------------------------------
(* Locks.                                                                  *)

At(c, pc) == edit[c].pc = pc

Uploads(c) == edit[c].kind \in {"upload", "upload_primary"}

\* pg_advisory_xact_lock of ensureOwnerStorageQuota.
HoldsQuota(c) ==
  \/ Uploads(c) /\ edit[c].pc \in {"snap", "rows", "insert", "key"}
  \/ edit[c].kind = "preview" /\ At(c, "insert")

\* Mutant: the preview reads the item without FOR UPDATE.
HoldsItemEditing(c) ==
  edit[c].kind \in {"choose", "unset", "remove"} /\ edit[c].pc \notin {"idle", "item"}

\* FOR UPDATE on the item, which excludes the KEY SHARE of a foreign key.
HoldsItem(c) == ~Uploads(c) /\ edit[c].pc \notin {"idle", "item"}

\* An entry in the unique index over primary images, not yet committed.
HoldsEntry(c) == edit[c].kind = "upload_primary" /\ At(c, "key")

WaitsFor(c) ==
  {d \in Editors \ {c} :
     \/ At(c, "quota") /\ HoldsQuota(d)
     \/ edit[c].pc \in {"item", "key"} /\ HoldsItem(d)
     \/ edit[c].pc \in {"look", "rows"} /\ edit[c].seen \cap edit[d].held # {}
     \/ At(c, "set") /\ \/ edit[c].row \in edit[d].held
                        \/ edit[c].kind = "choose" /\ HoldsEntry(d)}

\* The unique index refuses what it is about to write.
Conflicts(c) ==
  /\ \/ edit[c].kind = "choose" /\ At(c, "set")
     \/ edit[c].kind \in {"upload_primary", "preview"} /\ At(c, "insert")
  /\ Primaries \ (edit[c].held \cup {edit[c].row}) # {}

-----------------------------------------------------------------------------
Goes(c, pc) == edit' = [edit EXCEPT ![c].pc = pc]

Ends(c) == edit' = [edit EXCEPT ![c] = NoEdit]

\* Up to the first lock.  An upload checks the owner here; the worker looks
\* for images a first time before it stores the preview.
Begin(c, kind, p) ==
  /\ At(c, "idle")
  /\ edits < MaxEdits /\ edits' = edits + 1
  /\ IF kind \in {"choose", "unset", "remove"}
       THEN picture[p] # "absent"
       ELSE picture[p] = "absent" /\ \A d \in Editors : At(d, "idle") \/ edit[d].row # p
  /\ kind \in {"upload", "upload_primary", "preview"} => owned
  /\ kind = "preview" => Live = {}
  /\ edit' = [edit EXCEPT ![c] =
                Opened(IF kind \in {"upload", "upload_primary"} THEN "quota" ELSE "item", kind, p)]
  /\ UNCHANGED <<owned, picture>>

\* ensureOwnerStorageQuota, which may refuse.
TakeQuota(c) ==
  /\ At(c, "quota") /\ WaitsFor(c) = {}
  /\ \/ Goes(c, IF edit[c].kind = "upload_primary" THEN "snap" ELSE "insert")
     \/ Ends(c)
  /\ UNCHANGED <<owned, picture, edits>>

\* ensureContentOwnerTx, or the first statements of CreateContentImageFallback:
\* LIMIT 1 selects any of the images there are.
TakeItem(c) ==
  /\ At(c, "item") /\ WaitsFor(c) = {}
  /\ \/ ~owned /\ Ends(c)
     \/ owned /\ edit[c].kind = "choose" /\ Goes(c, "snap")
     \/ owned /\ edit[c].kind \in {"unset", "remove"} /\ Goes(c, "set")
     \/ owned /\ edit[c].kind = "preview" /\ Live = {} /\ Goes(c, "quota")
     \/ /\ owned /\ edit[c].kind = "preview"
        /\ \E p \in Live : edit' = [edit EXCEPT ![c].pc = "look", ![c].seen = {p}]
  /\ UNCHANGED <<owned, picture, edits>>

\* ErrContentImageFallbackExists.
Look(c) ==
  /\ At(c, "look") /\ WaitsFor(c) = {}
  /\ Ends(c)
  /\ UNCHANGED <<owned, picture, edits>>

\* The UPDATE that clears the primary image selects what is committed when it
\* starts ...
Snap(c) ==
  /\ At(c, "snap")
  /\ edit' = [edit EXCEPT ![c].pc = "rows", ![c].seen = Primaries \ {edit[c].row}]
  /\ UNCHANGED <<owned, picture, edits>>

\* ... waits for whoever has updated one of those rows, and takes the ones that
\* are still primary.
Rows(c) ==
  /\ At(c, "rows") /\ WaitsFor(c) = {}
  /\ edit' = [edit EXCEPT ![c].pc = IF Uploads(c) THEN "insert" ELSE "set",
                          ![c].held = edit[c].seen \cap Primaries]
  /\ UNCHANGED <<owned, picture, edits>>

Committed(c, status) ==
  picture' = [p \in Pictures |->
                IF p = edit[c].row THEN status
                ELSE IF p \in edit[c].held THEN "plain" ELSE picture[p]]

\* The INSERT; the worker's, which holds the item, is followed by its commit.
Insert(c) ==
  /\ At(c, "insert")
  /\ \/ Conflicts(c) /\ Ends(c) /\ UNCHANGED picture
     \/ ~Conflicts(c) /\ Uploads(c) /\ Goes(c, "key") /\ UNCHANGED picture
     \/ ~Conflicts(c) /\ ~Uploads(c) /\ Committed(c, "primary") /\ Ends(c)
  /\ UNCHANGED <<owned, edits>>

\* The foreign key and the commit of an upload.
Key(c) ==
  /\ At(c, "key") /\ WaitsFor(c) = {}
  /\ Committed(c, IF edit[c].kind = "upload_primary" THEN "primary" ELSE "plain")
  /\ Ends(c)
  /\ UNCHANGED <<owned, edits>>

\* UpdateOwnedContentImage and DeleteOwnedContentImage from their UPDATE on.
Set(c) ==
  /\ At(c, "set") /\ WaitsFor(c) = {}
  /\ \/ edit[c].row \notin Live /\ UNCHANGED picture
     \/ Conflicts(c) /\ UNCHANGED picture
     \/ /\ edit[c].row \in Live /\ ~Conflicts(c)
        /\ Committed(c, CASE edit[c].kind = "choose" -> "primary"
                          [] edit[c].kind = "unset" -> "plain"
                          [] edit[c].kind = "remove" -> "deleted")
  /\ Ends(c)
  /\ UNCHANGED <<owned, edits>>

\* A time-out, a crash, or the database that breaks a deadlock.
RollBack(c) ==
  /\ ~At(c, "idle")
  /\ Ends(c)
  /\ UNCHANGED <<owned, picture, edits>>

\* DeleteOwned, one statement.
DeleteItem ==
  /\ owned
  /\ \A d \in Editors : ~HoldsItem(d)
  /\ owned' = FALSE
  /\ UNCHANGED <<picture, edit, edits>>

Next ==
  \/ \E c \in Editors :
       \/ \E kind \in Kind, p \in Pictures : Begin(c, kind, p)
       \/ TakeQuota(c) \/ TakeItem(c) \/ Look(c) \/ Snap(c) \/ Rows(c)
       \/ Insert(c) \/ Key(c) \/ Set(c) \/ RollBack(c)
  \/ DeleteItem

Spec == Init /\ [][Next]_galleryVars

-----------------------------------------------------------------------------
(* Properties.                                                             *)

\* A preview is only added where there is no image: what the worker read under
\* the item's lock is still so when it inserts, however uploads overlap.
FillsAGap(c) ==
  edit[c].kind = "preview" /\ edit[c].pc \in {"quota", "insert"} => Live = {}

\* Of two requests that choose the primary image the unique index refuses at
\* most an upload: edits and previews never meet it.
OnlyUploadsConflict(c) == Conflicts(c) => Uploads(c)

\* Transactions that wait for one another are an upload, which locks quota and
\* item in the other order, and one of the others.
Deadlocked(c, d) == c \in WaitsFor(d) /\ d \in WaitsFor(c)

OnlyUploadsDeadlock(c) ==
  \A d \in Editors : Deadlocked(c, d) => (Uploads(c) # Uploads(d))

GalleryHolds ==
  \A c \in Editors : FillsAGap(c) /\ OnlyUploadsConflict(c) /\ OnlyUploadsDeadlock(c)
=============================================================================
