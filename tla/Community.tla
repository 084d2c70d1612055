------------------------------ MODULE Community ------------------------------
(***************************************************************************)
(* Likes, comments and reports of one item, their counters, and their      *)
(* moderation, while the item is published and withdrawn.                  *)
(*                                                                         *)
(* A like, an unlike and a review lock the row they decide on before they  *)
(* read it and hold it until they commit, so each is one step.  A comment  *)
(* reads the item and the comment it answers without a lock, in the        *)
(* snapshot of its first statement, and counts itself later.               *)
(***************************************************************************)
EXTENDS Integers, FiniteSets

CONSTANTS
  People,    \* accounts that write, like, report and moderate
  Comments,  \* bound: identifiers for rows of comments
  NoComment, \* a NULL parent_id, and no comment in progress
  Reports,   \* bound: identifiers for rows of reports
  Unresolved \* a NULL resolved_by

VARIABLES
  public,    \* published, public, neither hidden nor deleted
  likes,     \* the rows of likes: at most one of each account
  counts,    \* likes_count and comments_count of the item
  comments,
  writing,   \* the comment transaction each account has open
  reports

vars == <<public, likes, counts, comments, writing, reports>>

Comment == [status : {"absent", "visible", "hidden"}, parent : Comments \cup {NoComment}]

\* commented: comments_count as the transaction's first statement saw it.
Writing == [open : BOOLEAN, parent : Comments \cup {NoComment}, commented : Nat]

ReportStatus == {"open", "in_review", "resolved", "rejected"}

Report == [status : ReportStatus \cup {"absent"}, resolvedBy : People \cup {Unresolved}]

Closed == [open |-> FALSE, parent |-> NoComment, commented |-> 0]

NoRow == [status |-> "absent", parent |-> NoComment]

TypeOK ==
  /\ public \in BOOLEAN
  /\ likes \in SUBSET People
  /\ counts \in [likes : Nat, comments : Nat]
  /\ comments \in [Comments -> Comment]
  /\ writing \in [People -> Writing]
  /\ reports \in [Reports -> Report]

Init ==
  /\ public = TRUE
  /\ likes = {}
  /\ counts = [likes |-> 0, comments |-> 0]
  /\ comments = [c \in Comments |-> NoRow]
  /\ writing = [p \in People |-> Closed]
  /\ reports = [r \in Reports |-> [status |-> "absent", resolvedBy |-> Unresolved]]

-----------------------------------------------------------------------------
\* GREATEST(count - 1, 0)
Decreased(count) == IF count = 0 THEN 0 ELSE count - 1

\* INSERT ... ON CONFLICT DO NOTHING; only a new row is counted.
Like(p) ==
  /\ public
  /\ likes' = likes \cup {p}
  /\ counts' = IF p \in likes THEN counts ELSE [counts EXCEPT !.likes = @ + 1]
  /\ UNCHANGED <<public, comments, writing, reports>>

Unlike(p) ==
  /\ public
  /\ likes' = likes \ {p}
  /\ counts' = IF p \in likes THEN [counts EXCEPT !.likes = Decreased(@)] ELSE counts
  /\ UNCHANGED <<public, comments, writing, reports>>

\* The snapshot in which the item is public and the parent is visible ...
CreateComment(p, parent) ==
  /\ ~writing[p].open
  /\ public
  /\ parent # NoComment => comments[parent].status = "visible"
  /\ writing' = [writing EXCEPT ![p] =
                   [open |-> TRUE, parent |-> parent, commented |-> counts.comments]]
  /\ UNCHANGED <<public, likes, counts, comments, reports>>

\* Mutant: the count is computed from what the first statement saw.
CountFromSnapshot(p) == writing[p].commented + 1

\* comments_count + 1, of the row as the UPDATE finds it.
Counted(p) == counts.comments + 1

\* ... and the insert, the counter and the commit.
CommitComment(p, c) ==
  /\ writing[p].open
  /\ comments[c].status = "absent"
  /\ comments' = [comments EXCEPT ![c] = [status |-> "visible", parent |-> writing[p].parent]]
  /\ counts' = [counts EXCEPT !.comments = Counted(p)]
  /\ writing' = [writing EXCEPT ![p] = Closed]
  /\ UNCHANGED <<public, likes, reports>>

\* A statement fails or the two seconds are over.
AbandonComment(p) ==
  /\ writing[p].open
  /\ writing' = [writing EXCEPT ![p] = Closed]
  /\ UNCHANGED <<public, likes, counts, comments, reports>>

\* What a review may start from.  Nothing writes pending_moderation, so that
\* an approval always finds "no such comment".
AllowedStatuses(status) ==
  IF status = "visible" THEN {"pending_moderation"} ELSE {"pending_moderation", "visible"}

\* ApproveComment and HideComment, whatever state the item is in.
ReviewComment(c, status) ==
  /\ comments[c].status \in AllowedStatuses(status)
  /\ comments' = [comments EXCEPT ![c].status = status]
  /\ counts' = [counts EXCEPT !.comments =
                  IF status = "visible" THEN @ + 1
                  ELSE IF comments[c].status = "visible" THEN Decreased(@) ELSE @]
  /\ UNCHANGED <<public, likes, writing, reports>>

ReportContent(r) ==
  /\ public
  /\ reports[r].status = "absent"
  /\ reports' = [reports EXCEPT ![r].status = "open"]
  /\ UNCHANGED <<public, likes, counts, comments, writing>>

\* Any status but the present one; only a settled report names who settled it.
ReviewReport(r, p, status) ==
  /\ reports[r].status \notin {"absent", status}
  /\ reports' = [reports EXCEPT ![r] =
       [status |-> status,
        resolvedBy |-> IF status \in {"resolved", "rejected"} THEN p ELSE Unresolved]]
  /\ UNCHANGED <<public, likes, counts, comments, writing>>

\* The item is published, or hidden, edited or deleted: ContentPipeline.
ItemMoves ==
  /\ public' = ~public
  /\ UNCHANGED <<likes, counts, comments, writing, reports>>

Next ==
  \/ \E p \in People : Like(p) \/ Unlike(p) \/ AbandonComment(p)
  \/ \E p \in People, parent \in Comments \cup {NoComment} : CreateComment(p, parent)
  \/ \E p \in People, c \in Comments : CommitComment(p, c)
  \/ \E c \in Comments, status \in {"visible", "hidden"} : ReviewComment(c, status)
  \/ \E r \in Reports : ReportContent(r)
  \/ \E r \in Reports, p \in People, status \in ReportStatus : ReviewReport(r, p, status)
  \/ ItemMoves

Spec == Init /\ [][Next]_vars

-----------------------------------------------------------------------------
Visible == {c \in Comments : comments[c].status = "visible"}

\* The counters that lists show and the search index ranks by never drift from
\* the rows, whatever likes, comments and reviews meet each other, and however
\* often one of them is repeated.
CountersMatchRows ==
  /\ counts.likes = Cardinality(likes)
  /\ counts.comments = Cardinality(Visible)
=============================================================================
