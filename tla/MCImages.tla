------------------------------ MODULE MCImages ------------------------------
(***************************************************************************)
(* The images that TLC checks: their processing (ImageProcessing), the     *)
(* primary image of an item (Gallery) and the owner's quota (OwnerStorage).*)
(* Each abstracts from what the others tell apart, so one run checks them  *)
(* one at a time: the rigid variable "part" says which takes steps, and    *)
(* the others stay in one initial state.                                   *)
(***************************************************************************)
EXTENDS ImageProcessing, FiniteSets

CONSTANTS
  Editors, Pictures, MaxEdits,
  Senders, Entries, Packages, Heavy, Quota, MaxSends, StorageFaults

VARIABLES
  part,
  owned, picture, edit, edits,
  entry, quarantine, send, sends, mishaps

galleryVars == <<owned, picture, edit, edits>>

storageVars == <<entry, quarantine, send, sends, mishaps>>

G == INSTANCE Gallery
S == INSTANCE OwnerStorage

ASSUME GalleryAssumption == Pictures # {} /\ MaxEdits \in Nat

ASSUME StorageAssumption ==
  /\ Packages \cap {"image", "avatar", "absent"} = {} /\ Heavy \subseteq Packages
  /\ Entries # {} /\ IsFiniteSet(Entries)
  /\ Quota \in Nat /\ MaxSends \in Nat
  /\ StorageFaults \subseteq SUBSET S!StorageFaultKinds

\* Where processing and storage wait while another part takes steps.
ImagesRest == faults = {}
StorageRests == "crash" \notin mishaps

ImagesInit ==
  /\ part \in {"processing", "gallery", "storage"}
  /\ Init /\ (part = "processing" \/ ImagesRest)
  /\ G!Init
  /\ S!Init /\ (part = "storage" \/ StorageRests)

ImagesNext ==
  /\ UNCHANGED part
  /\ \/ part = "processing" /\ Next /\ UNCHANGED <<galleryVars, storageVars>>
     \/ part = "gallery" /\ G!Next /\ UNCHANGED <<vars, storageVars>>
     \/ part = "storage" /\ S!Next /\ UNCHANGED <<vars, galleryVars>>

\* While processing rests none of its fair steps is possible.
ImagesSpec ==
  ImagesInit /\ [][ImagesNext]_<<part, vars, galleryVars, storageVars>> /\ Fairness

-----------------------------------------------------------------------------
\* Every variable has its type, in all three.
Typed == TypeOK /\ G!TypeOK /\ S!TypeOK

\* Previews fill gaps only, and only uploads meet the unique index or a
\* deadlock with others: see Gallery.
GalleryHolds == G!GalleryHolds

\* The quota, duplicates, and what lies in quarantine: see OwnerStorage.
StorageHolds == S!StorageHolds
=============================================================================
