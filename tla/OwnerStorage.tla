---------------------------- MODULE OwnerStorage ----------------------------
(***************************************************************************)
(* What one owner may store: packages, images and avatars against a quota, *)
(* and no package twice.                                                   *)
(*                                                                         *)
(* An upload stores its object, then adds its row in a transaction that    *)
(* takes the owner's quota lock, sums up what the owner has, and, for a    *)
(* package, takes the lock of its hash and looks for it.  An avatar only   *)
(* adds what it is larger than those it replaces, and takes no lock if it  *)
(* is not larger.  The worker that re-encodes an image writes its new size *)
(* without asking.  Advisory locks are held until the commit.              *)
(***************************************************************************)
EXTENDS Integers, FiniteSets

CONSTANTS
  Senders,     \* uploads under way at the same time
  Entries,     \* identifiers of rows
  Packages,    \* packages that differ in their hash
  Heavy,       \* those of size 2
  Quota,       \* UserStorageQuotaBytes, in units of a small image; positive
  MaxSends,    \* bound: uploads, deletions and images re-encoded
  StorageFaults  \* the environments considered, each a set of fault kinds

\* "growth": an image is larger once it is encoded again.
\* "crash": an upload stops between two steps.
\* "lost": the reply to a commit, or a removal, is lost.
StorageFaultKinds == {"growth", "crash", "lost"}

VARIABLES
  entry,       \* content_files, content_images and user_images of the owner
  quarantine,  \* the entries whose package is in the quarantine bucket
  send,        \* where each upload is, and what it holds
  sends,       \* requests so far
  mishaps      \* the fault kinds that may strike: chosen once, never changed

storageVars == <<entry, quarantine, send, sends, mishaps>>

-----------------------------------------------------------------------------
Size == 1 .. 2

\* sort: for a package its hash; live: the image, or the item of the package, is
\* not deleted.
Entry == [sort : Packages \cup {"image", "avatar", "absent"}, size : Size, live : BOOLEAN]

\* taken: live avatars that its statement has selected, then those it replaces.
Send == [pc    : {"idle", "read", "lock", "quota", "hash", "write", "undo"},
         row   : Entries,
         new   : Entry,
         taken : SUBSET Entries]

Absent == [sort |-> "absent", size |-> 1, live |-> FALSE]

NoSend ==
  [pc |-> "idle", row |-> CHOOSE e \in Entries : TRUE, new |-> Absent, taken |-> {}]

TypeOK ==
  /\ entry \in [Entries -> Entry]
  /\ quarantine \subseteq Entries
  /\ send \in [Senders -> Send]
  /\ sends \in 0 .. MaxSends
  /\ mishaps \subseteq StorageFaultKinds

Init ==
  /\ entry = [e \in Entries |-> Absent]
  /\ quarantine = {}
  /\ send = [s \in Senders |-> NoSend]
  /\ sends = 0
  /\ mishaps \in StorageFaults

\* SUM(file_size), unit by unit.
SizeOf(es) == Cardinality({u \in es \X Size : u[2] <= entry[u[1]].size})

\* ownerStorageUsage: every file of the owner, also those of deleted items, and
\* the images that are not deleted.
Usage == SizeOf({e \in Entries : entry[e].sort \in Packages \/ entry[e].live})

Avatars == {e \in Entries : entry[e].sort = "avatar" /\ entry[e].live}

Requested == sends < MaxSends /\ sends' = sends + 1

-----------------------------------------------------------------------------
(* Locks.                                                                  *)

At(s, pc) == send[s].pc = pc

Goes(s, pc) == send' = [send EXCEPT ![s].pc = pc]

Ends(s) == send' = [send EXCEPT ![s] = NoSend]

\* What the transaction adds to the usage.
Delta(s) == send[s].new.size - SizeOf(send[s].taken)

HoldsQuota(s) == send[s].pc \in {"hash", "write"} /\ Delta(s) > 0

HoldsHash(s) == At(s, "write") /\ send[s].new.sort \in Packages

\* The avatars it has selected FOR UPDATE.
HoldsRows(s) == IF send[s].pc \in {"quota", "write"} THEN send[s].taken ELSE {}

HeldByOthers(s) == UNION {HoldsRows(t) : t \in Senders \ {s}}

-----------------------------------------------------------------------------
(* Uploads.                                                                *)

\* The handler up to PutObject: a package or an image is first checked against
\* the quota without any lock, an avatar is not.
Begin(s, e, new) ==
  /\ At(s, "idle")
  /\ Requested
  /\ entry[e] = Absent /\ e \notin quarantine
  /\ \A t \in Senders : At(t, "idle") \/ send[t].row # e
  /\ new.sort # "avatar" => new.size <= Quota - Usage
  /\ quarantine' = IF new.sort \in Packages THEN quarantine \cup {e} ELSE quarantine
  /\ send' = [send EXCEPT ![s] =
                [pc |-> IF new.sort = "avatar" THEN "read" ELSE "quota",
                 row |-> e, new |-> new, taken |-> {}]]
  /\ UNCHANGED <<entry, mishaps>>

\* userAvatarObjectsForReplacement selects what is committed when it starts ...
Read(s) ==
  /\ At(s, "read")
  /\ send' = [send EXCEPT ![s].pc = "lock", ![s].taken = Avatars]
  /\ UNCHANGED <<entry, quarantine, sends, mishaps>>

\* ... and returns what is still live once it has the rows.
Lock(s) ==
  /\ At(s, "lock")
  /\ send[s].taken \cap HeldByOthers(s) = {}
  /\ send' = [send EXCEPT ![s].pc = "quota", ![s].taken = @ \cap Avatars]
  /\ UNCHANGED <<entry, quarantine, sends, mishaps>>

Admitted(s) == Goes(s, IF send[s].new.sort \in Packages THEN "hash" ELSE "write")

\* Mutant: the usage is read before the lock is taken.
EnsureQuotaUnlocked(s) ==
  /\ At(s, "quota")
  /\ IF Delta(s) <= Quota - Usage \/ Delta(s) <= 0 THEN Admitted(s) ELSE Goes(s, "undo")
  /\ UNCHANGED <<entry, quarantine, sends, mishaps>>

\* ensureOwnerStorageQuota.
EnsureQuota(s) ==
  /\ At(s, "quota")
  /\ Delta(s) > 0 => \A t \in Senders : ~HoldsQuota(t)
  /\ IF Delta(s) > 0 /\ Delta(s) > Quota - Usage THEN Goes(s, "undo") ELSE Admitted(s)
  /\ UNCHANGED <<entry, quarantine, sends, mishaps>>

\* The lock of the hash and ErrDuplicateFile.
CheckDuplicate(s) ==
  /\ At(s, "hash")
  /\ \A t \in Senders : HoldsHash(t) => send[t].new.sort # send[s].new.sort
  /\ Goes(s, IF \E e \in Entries : entry[e].live /\ entry[e].sort = send[s].new.sort
             THEN "undo" ELSE "write")
  /\ UNCHANGED <<entry, quarantine, sends, mishaps>>

\* The INSERT, softDeleteReplacedUserAvatars, and the commit, or its failure.
Write(s) ==
  LET replaced == IF send[s].taken = {} THEN {} ELSE Avatars IN
  /\ At(s, "write")
  /\ replaced \cap HeldByOthers(s) = {}
  /\ \/ /\ entry' = [e \in Entries |->
                       IF e = send[s].row THEN send[s].new
                       ELSE [entry[e] EXCEPT !.live = @ /\ e \notin replaced]]
        /\ Ends(s) \/ ("lost" \in mishaps /\ Goes(s, "undo"))
     \/ Goes(s, "undo") /\ UNCHANGED entry
  /\ UNCHANGED <<quarantine, sends, mishaps>>

\* RemoveObject, its error ignored.
Undo(s) ==
  /\ At(s, "undo")
  /\ \/ quarantine' = quarantine \ {send[s].row}
     \/ "lost" \in mishaps /\ UNCHANGED quarantine
  /\ Ends(s)
  /\ UNCHANGED <<entry, sends, mishaps>>

Crash(s) ==
  /\ "crash" \in mishaps
  /\ ~At(s, "idle")
  /\ Ends(s)
  /\ UNCHANGED <<entry, quarantine, sends, mishaps>>

-----------------------------------------------------------------------------
(* What else changes the usage.                                            *)

\* DeleteOwnedContentImage, and DeleteOwned for the item of a package.
Delete(e) ==
  /\ entry[e].sort # "avatar" /\ entry[e].live
  /\ Requested
  /\ entry' = [entry EXCEPT ![e].live = FALSE]
  /\ UNCHANGED <<quarantine, send, mishaps>>

\* CompleteImageProcessing; an avatar that is being replaced is locked.
CompleteImage(e, size) ==
  /\ \/ entry[e].sort = "image"
     \/ entry[e].sort = "avatar" /\ entry[e].live
  /\ \A s \in Senders : e \notin HoldsRows(s)
  /\ Requested
  /\ size > entry[e].size => "growth" \in mishaps
  /\ entry' = [entry EXCEPT ![e].size = size]
  /\ UNCHANGED <<quarantine, send, mishaps>>

Upload(s) ==
  \/ Read(s) \/ Lock(s) \/ EnsureQuota(s) \/ CheckDuplicate(s) \/ Write(s) \/ Undo(s)

Offered ==
  [sort : {"image", "avatar"}, size : Size, live : {TRUE}]
    \cup [sort : Heavy, size : {2}, live : {TRUE}]
    \cup [sort : Packages \ Heavy, size : {1}, live : {TRUE}]

Next ==
  \/ \E s \in Senders :
       \/ \E e \in Entries, new \in Offered : Begin(s, e, new)
       \/ Upload(s) \/ Crash(s)
  \/ \E e \in Entries : Delete(e) \/ \E size \in Size : CompleteImage(e, size)

-----------------------------------------------------------------------------
(* Properties.                                                             *)

\* Uploads that overlap do not add up to more than the quota, also where an
\* avatar that is not larger takes no lock; only re-encoded images pass it.
UsageWithinQuota == "growth" \notin mishaps => Usage <= Quota

\* The owner has no package twice, unless the first was deleted.
OneCopyPerPackage ==
  \A d, e \in Entries :
    entry[d].sort \in Packages /\ entry[d].live /\ entry[e].live /\ entry[d].sort = entry[e].sort
      => d = e

\* Unless a process stops or a call is lost, a package in the quarantine bucket
\* has its row, and is counted, or is in the hands of an upload.
QuarantineIsCounted ==
  mishaps \cap {"crash", "lost"} = {} =>
    \A e \in quarantine :
      entry[e].sort \in Packages \/ \E s \in Senders : ~At(s, "idle") /\ send[s].row = e

StorageHolds == UsageWithinQuota /\ OneCopyPerPackage /\ QuarantineIsCounted
=============================================================================
