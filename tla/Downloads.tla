------------------------------ MODULE Downloads ------------------------------
(***************************************************************************)
(* One reader's download of an item whose owner may edit it meanwhile: the *)
(* link of a private item, the lookup in two statements, the byte range,   *)
(* the object store and the download event.  A header is what its text     *)
(* parses to; a file is the positions of its bytes.                        *)
(***************************************************************************)
EXTENDS Integers

CONSTANTS
  Sizes,      \* bound: file sizes considered, none of them zero
  MaxNumber,  \* bound: numbers in a Range header
  MaxMoves    \* bound: changes the owner or a moderator makes

NoLink == 0

Links == NoLink .. 2  \* 1 is the item's token once it has one, 2 any other text

VARIABLES
  size,      \* content_files.file_size: never changes
  target,    \* the item: the columns that the lookup compares
  handed,    \* history: the owner has been given the link
  reader,    \* the request in progress, or the answer to the last one
  moves

vars == <<size, target, handed, reader, moves>>

Header ==
  [kind : {"span"}, from : 0 .. MaxNumber, to : 0 .. MaxNumber]
    \cup [kind : {"open"}, from : 0 .. MaxNumber]
    \cup [kind : {"suffix"}, count : 0 .. MaxNumber]
    \cup [kind : {"absent", "malformed"}]

Item == [published : BOOLEAN, visibility : {"public", "private"}, token : Links]

Nothing == [start |-> 0, end |-> -1, partial |-> FALSE]

Idle == [pc |-> "idle", header |-> [kind |-> "absent"], link |-> NoLink, method |-> "GET",
         status |-> 0, range |-> Nothing, counted |-> FALSE, edited |-> FALSE]

Range == [start : 0 .. MaxNumber, end : -1 .. MaxNumber, partial : BOOLEAN]

TypeOK ==
  /\ size \in Sizes
  /\ target \in Item
  /\ handed \in BOOLEAN
  /\ reader.pc \in {"idle", "unlisted", "public", "range", "open", "record", "answered"}
  /\ reader.header \in Header
  /\ reader.status \in {0, 200, 206, 404, 416, 500}
  /\ reader.range \in Range
  /\ moves \in 0 .. MaxMoves

Init ==
  /\ size \in Sizes
  /\ target = [published |-> TRUE, visibility |-> "private", token |-> NoLink]
  /\ handed = FALSE
  /\ reader = Idle
  /\ moves = 0

-----------------------------------------------------------------------------
\* Mutant: a suffix longer than the file is not cut to it.
SuffixUncut(count) == [ok |-> count > 0, start |-> size - count, end |-> size - 1]

\* bytes=-count
Suffix(count) ==
  [ok |-> count > 0, start |-> IF count > size THEN 0 ELSE size - count, end |-> size - 1]

\* parseRangeHeader: what the header asks of a file of this size.
Asked(header) ==
  CASE header.kind = "suffix"    -> Suffix(header.count)
    [] header.kind = "open"      -> [ok |-> TRUE, start |-> header.from, end |-> size - 1]
    [] header.kind = "span"      -> [ok |-> TRUE, start |-> header.from, end |-> header.to]
    [] header.kind = "malformed" -> [ok |-> FALSE, start |-> 0, end |-> 0]

Satisfiable(asked) == asked.ok /\ asked.start < size /\ asked.start <= asked.end

Served(asked) ==
  [start |-> asked.start, end |-> IF asked.end >= size THEN size - 1 ELSE asked.end,
   partial |-> TRUE]

shouldRecordDownload(range) == ~range.partial \/ range.start = 0

-----------------------------------------------------------------------------
Answer(status) == reader' = [reader EXCEPT !.pc = "answered", !.status = status]

Goto(pc) == reader' = [reader EXCEPT !.pc = pc]

Others == UNCHANGED <<size, target, handed, moves>>

Request(header, link, method) ==
  /\ reader.pc = "idle"
  /\ link = 1 => handed
  /\ reader' = [Idle EXCEPT !.pc = "unlisted", !.header = header, !.link = link, !.method = method]
  /\ Others

\* GetUnlistedTarget, tried only with an access token.
LookUpUnlisted ==
  /\ reader.pc = "unlisted"
  /\ IF /\ target.published /\ target.visibility = "private"
        /\ reader.link # NoLink /\ reader.link = target.token
       THEN Goto("range")
       ELSE Goto("public")
  /\ Others

\* GetPublicTarget.
LookUpPublic ==
  /\ reader.pc = "public"
  /\ IF target.published /\ target.visibility = "public" THEN Goto("range") ELSE Answer(404)
  /\ Others

ParseRange ==
  /\ reader.pc = "range"
  /\ IF reader.header.kind = "absent"
       THEN reader' = [reader EXCEPT !.pc = "open",
                         !.range = [start |-> 0, end |-> size - 1, partial |-> FALSE]]
       ELSE IF Satisfiable(Asked(reader.header))
         THEN reader' = [reader EXCEPT !.pc = "open", !.range = Served(Asked(reader.header))]
         ELSE Answer(416)
  /\ Others

Success == IF reader.range.partial THEN 206 ELSE 200

\* HEAD answers from the row; GET opens the object, which may fail.
OpenObject ==
  /\ reader.pc = "open"
  /\ \/ reader.method = "HEAD" /\ Answer(Success)
     \/ reader.method = "GET" /\ (Goto("record") \/ Answer(500))
  /\ Others

\* RecordEvent counts what begins with the first byte; if it fails, or is
\* said to have failed, nothing is sent.
Record ==
  /\ reader.pc = "record"
  /\ \/ /\ shouldRecordDownload(reader.range)
        /\ \/ reader' = [reader EXCEPT !.pc = "answered", !.status = Success, !.counted = TRUE]
           \/ \E done \in BOOLEAN :
                reader' = [reader EXCEPT !.pc = "answered", !.status = 500, !.counted = done]
     \/ ~shouldRecordDownload(reader.range) /\ Answer(Success)
  /\ Others

Finish == reader.pc = "answered" /\ reader' = Idle /\ Others

\* EnsureUnlistedDownloadToken: the owner's click locks the item, and gets
\* the token there is or makes one.
EnsureUnlistedDownloadToken ==
  /\ target.published /\ target.visibility = "private"
  /\ target' = [target EXCEPT !.token = 1]
  /\ handed' = TRUE
  /\ UNCHANGED <<size, reader, moves>>

\* The owner's edit, which may change the visibility and may or may not take
\* the item off the catalogue; publication and a take-down change the status.
Edit(visibility, published) ==
  /\ moves < MaxMoves
  /\ target' = [target EXCEPT !.visibility = visibility, !.published = published]
  /\ target' # target
  /\ moves' = moves + 1
  /\ reader' = [reader EXCEPT !.edited = TRUE]
  /\ UNCHANGED <<size, handed>>

Next ==
  \/ \E header \in Header, link \in Links, method \in {"GET", "HEAD"} :
       Request(header, link, method)
  \/ LookUpUnlisted \/ LookUpPublic \/ ParseRange \/ OpenObject \/ Record \/ Finish
  \/ EnsureUnlistedDownloadToken
  \/ \E visibility \in {"public", "private"}, published \in BOOLEAN : Edit(visibility, published)

Spec == Init /\ [][Next]_vars

-----------------------------------------------------------------------------
Positions == 0 .. size - 1

\* The bytes a header asks for, as HTTP defines it.  "malformed" stands for what
\* parseRangeHeader cannot read and for several ranges: it refuses both, so they
\* count as asking for nothing, though HTTP would allow to ignore them.
Wanted(header) ==
  CASE header.kind = "absent"    -> Positions
    [] header.kind = "span"      -> {i \in Positions : header.from <= i /\ i <= header.to}
    [] header.kind = "open"      -> {i \in Positions : header.from <= i}
    [] header.kind = "suffix"    -> {i \in Positions : i + header.count >= size}
    [] header.kind = "malformed" -> {}

Succeeded == reader.status \in {200, 206}

\* An answer has exactly the bytes that were asked for, is refused exactly if
\* these are none, is counted as a download if and only if its first byte is
\* the file's; and whoever holds the link of a private item is turned away
\* only if the item was withdrawn or edited while the request was served.
AnswersAreExact ==
  reader.pc = "answered" =>
    /\ Succeeded => reader.range.start .. reader.range.end = Wanted(reader.header)
    /\ reader.status = 416 => Wanted(reader.header) = {}
    /\ Succeeded => (reader.counted <=> reader.method = "GET" /\ 0 \in Wanted(reader.header))
    /\ reader.status = 404 /\ reader.link = 1 => reader.edited \/ ~target.published
=============================================================================
