------------------------------- MODULE Listing -------------------------------
(***************************************************************************)
(* Reading a list page by page while its rows change.  Every list that     *)
(* hands out a cursor does it so: ORDER BY key DESC, id DESC, limit + 1    *)
(* rows, and a cursor made of the key and the id of the last row shown,    *)
(* from which the next request continues with (key, id) < cursor.  The     *)
(* lists differ in their key and in what can happen to a row while a       *)
(* reader turns the pages; between two pages anything may happen.          *)
(***************************************************************************)
EXTENDS Naturals, FiniteSets

CONSTANTS
  Rows,        \* identifiers, compared like the table's uuids
  Keys,        \* bound: values of the sort column
  Limits,      \* bound: page sizes a reader asks for
  NullKey,     \* a NULL in the sort column
  Start,       \* no cursor: the first page
  MaxChanges   \* bound: changes of rows during the walk

VARIABLES
  order,    \* what the key of the list that is read can do: never changes
  limit,    \* the reader's page size: never changes
  row,      \* the table
  cursor,   \* next_cursor of the last page
  ended,    \* "no": a page follows; "end": none does; "cut": see NextPage
  shown, twice,    \* history: the rows shown to the reader, and those repeated
  before, changed, \* history: the rows there were at the start, and those changed since
  changes

vars == <<order, limit, row, cursor, ended, shown, twice, before, changed, changes>>

-----------------------------------------------------------------------------
(* The lists.  A key is "fixed" when no statement changes it, "renewed"    *)
(* when it can only get a later value, while the row is off the list,      *)
(* "rising" when it can get a greater value at any time, and "moving" when *)
(* it can go either way.  Rows can leave a list, unless nothing removes    *)
(* them and no filter depends on what changes.                             *)

List(key, nullable, leaves) == [key |-> key, nullable |-> nullable, leaves |-> leaves]

\* published_at keeps its first value until an edit or a rescan clears it.
ContentOrder(sort) ==
  CASE sort = "newest"    -> List("renewed", FALSE, TRUE)
    [] sort = "likes"     -> List("moving", FALSE, TRUE)
    [] sort = "downloads" -> List("rising", FALSE, TRUE)

\* A restored server that never answered has a NULL published_at; unknown
\* player counts are read as -1.
ServerOrder(sort) ==
  CASE sort = "newest"  -> List("fixed", TRUE, TRUE)
    [] sort = "players" -> List("moving", FALSE, TRUE)
    [] sort = "updated" -> List("rising", FALSE, TRUE)

PublishedContent == {ContentOrder(sort) : sort \in {"newest", "likes", "downloads"}}

OwnedContent == {List("fixed", FALSE, TRUE)}

PublishedServers == {ServerOrder(sort) : sort \in {"newest", "players", "updated"}}

OwnedServers == {List("rising", FALSE, TRUE)}

VisibleComments == {List("fixed", FALSE, TRUE)}

AdminJobs == {List("fixed", FALSE, TRUE)}

AdminFiles == {List("fixed", FALSE, TRUE)}

AuditLogs == {List("fixed", FALSE, FALSE)}

Lists == UNION {PublishedContent, OwnedContent, PublishedServers, OwnedServers,
                VisibleComments, AdminJobs, AdminFiles, AuditLogs}

-----------------------------------------------------------------------------
Row == [listed : BOOLEAN, key : Keys \cup {NullKey}]

Cursor == [key : Keys, id : Rows]

TypeOK ==
  /\ order \in Lists
  /\ limit \in Limits
  /\ row \in [Rows -> Row]
  /\ cursor \in Cursor \cup {Start}
  /\ ended \in {"no", "end", "cut"}
  /\ \A seen \in {shown, twice, before, changed} : seen \subseteq Rows
  /\ changes \in 0 .. MaxChanges

Init ==
  /\ order \in Lists
  /\ limit \in Limits
  /\ row \in [Rows -> Row]
  /\ \A r \in Rows : row[r].key = NullKey => order.nullable
  /\ cursor = Start
  /\ ended = "no"
  /\ shown = {} /\ twice = {} /\ changed = {}
  /\ before = {r \in Rows : row[r].listed}
  /\ changes = 0

\* ORDER BY key DESC, id DESC; PostgreSQL puts NULLs first.
Precedes(r, s) ==
  \/ row[r].key = NullKey /\ row[s].key # NullKey
  \/ row[r].key # NullKey /\ row[s].key # NullKey /\ row[r].key > row[s].key
  \/ row[r].key = row[s].key /\ r > s

\* Mutant: the identifier does not break ties.
BeyondKeyOnly(r) ==
  cursor = Start \/ (row[r].key # NullKey /\ row[r].key < cursor.key)

\* (key, id) < cursor, which is not true of a NULL.
Beyond(r) ==
  \/ cursor = Start
  \/ /\ row[r].key # NullKey
     /\ row[r].key < cursor.key \/ (row[r].key = cursor.key /\ r < cursor.id)

Matching == {r \in Rows : row[r].listed /\ Beyond(r)}

Page == {r \in Matching : Cardinality({s \in Matching : Precedes(s, r)}) < limit}

Last == CHOOSE r \in Page : \A s \in Page : s = r \/ Precedes(s, r)

\* There is a next page if the statement found one row more than it shows.
\* Its cursor is encoded only if it has a value: after a row whose key is
\* NULL the reader is told that the list has ended.
NextPage ==
  /\ ended = "no"
  /\ shown' = shown \cup Page
  /\ twice' = twice \cup (shown \cap Page)
  /\ IF Cardinality(Matching) <= limit
       THEN ended' = "end" /\ UNCHANGED cursor
       ELSE IF row[Last].key = NullKey
         THEN ended' = "cut" /\ UNCHANGED cursor
         ELSE cursor' = [key |-> row[Last].key, id |-> Last] /\ UNCHANGED ended
  /\ UNCHANGED <<order, limit, row, before, changed, changes>>

Changes(r, new) ==
  /\ ended = "no"
  /\ changes < MaxChanges
  /\ row' = [row EXCEPT ![r] = new]
  /\ changed' = changed \cup {r}
  /\ changes' = changes + 1
  /\ UNCHANGED <<order, limit, cursor, ended, shown, twice, before>>

\* What a key may become when the row comes to the list (again).
Becomes(old, new) ==
  \/ new = old
  \/ old = NullKey
  \/ order.key = "moving"
  \/ order.key \in {"renewed", "rising"} /\ new > old

\* A row is inserted, published, restored, or changed so that it matches.
Enter(r) ==
  /\ ~row[r].listed
  /\ \E k \in Keys : Becomes(row[r].key, k) /\ Changes(r, [listed |-> TRUE, key |-> k])

\* It is hidden, deleted, or changed so that it does not match any more.
Leave(r) ==
  /\ order.leaves
  /\ row[r].listed
  /\ Changes(r, [row[r] EXCEPT !.listed = FALSE])

\* The key of a row on the list changes: a like, a download, a probe.
Rekey(r) ==
  /\ row[r].listed
  /\ order.key \in {"rising", "moving"} \/ row[r].key = NullKey
  /\ \E k \in Keys \ {row[r].key} :
       Becomes(row[r].key, k) /\ Changes(r, [row[r] EXCEPT !.key = k])

Next ==
  \/ NextPage
  \/ \E r \in Rows : Enter(r) \/ Leave(r) \/ Rekey(r)

Spec == Init /\ [][Next]_vars

-----------------------------------------------------------------------------
\* Whoever turns all pages has seen every row that was on the list from the
\* first page to the last and kept its key, wherever other rows went
\* meanwhile; and no row twice, unless the list is ordered by a key that can
\* fall.  A list that was cut off at a NULL key promises nothing.
WalkIsFaithful ==
  /\ ended = "end" => before \ changed \subseteq shown
  /\ twice # {} => order.key = "moving" \/ order.nullable
=============================================================================
