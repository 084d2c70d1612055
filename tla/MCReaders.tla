------------------------------ MODULE MCReaders ------------------------------
(***************************************************************************)
(* What readers depend on: the search index (SearchSync), the lists of the *)
(* API (Listing), downloads (Downloads) and the rate limit of the requests *)
(* that write (RateLimiter).  They share no state, so one run checks them  *)
(* one at a time: the rigid variable "part" says which one takes steps,    *)
(* and the others stay in one initial state.                               *)
(***************************************************************************)
EXTENDS SearchSync, Integers

CONSTANTS Rows, Keys, Limits, NullKey, Start, MaxChanges, Sizes, MaxNumber, MaxMoves,
          Callers, Limit, MaxCount, Disruptions

VARIABLES
  part,
  order, limit, row, cursor, ended, shown, twice, before, changed, changes,
  size, target, handed, reader, moves,
  count, expires, call, passed, disrupted

listVars == <<order, limit, row, cursor, ended, shown, twice, before, changed, changes>>

downloadVars == <<size, target, handed, reader, moves>>

limitVars == <<count, expires, call, passed, disrupted>>

L == INSTANCE Listing
D == INSTANCE Downloads
R == INSTANCE RateLimiter

ASSUME ListAssumption ==
  /\ Rows \subseteq Int /\ IsFiniteSet(Rows)
  /\ Keys \subseteq Int /\ NullKey \notin Keys
  /\ Limits \subseteq Nat \ {0}
  /\ Start \notin L!Cursor
  /\ MaxChanges \in Nat

\* The ends of all files are numbers that a header can name.
ASSUME DownloadAssumption ==
  /\ MaxNumber \in Nat /\ MaxMoves \in Nat
  /\ Sizes \subseteq 1 .. MaxNumber + 1

ASSUME LimitAssumption == Limit \in Nat /\ MaxCount \in Nat

\* The states in which the others wait.
IndexRests == faults = {}
ListRests == order \in L!AuditLogs /\ limit = 1 /\ row = [r \in Rows |-> [listed |-> FALSE, key |-> 1]]
DownloadRests == size = 1
LimitRests == disrupted = {}

ReadersInit ==
  /\ part \in {"index", "list", "download", "limit"}
  /\ Init /\ (part = "index" \/ IndexRests)
  /\ L!Init /\ (part = "list" \/ ListRests)
  /\ D!Init /\ (part = "download" \/ DownloadRests)
  /\ R!Init /\ (part = "limit" \/ LimitRests)

ReadersNext ==
  /\ UNCHANGED part
  /\ \/ part = "index" /\ Next /\ UNCHANGED <<listVars, downloadVars, limitVars>>
     \/ part = "list" /\ L!Next /\ UNCHANGED <<vars, downloadVars, limitVars>>
     \/ part = "download" /\ D!Next /\ UNCHANGED <<vars, listVars, limitVars>>
     \/ part = "limit" /\ R!Next /\ UNCHANGED <<vars, listVars, downloadVars>>

\* While a part rests none of its fair steps is possible, so its fairness can
\* be stated as it is.
ReadersSpec ==
  /\ ReadersInit
  /\ [][ReadersNext]_<<part, vars, listVars, downloadVars, limitVars>>
  /\ Fairness
  /\ R!Fairness

\* Every variable has its type, in all four.
Typed == TypeOK /\ L!TypeOK /\ D!TypeOK /\ R!TypeOK

\* Turning pages misses and repeats nothing: see Listing.
WalkIsFaithful == L!WalkIsFaithful

\* Ranges, refusals, counted downloads and links: see Downloads.
AnswersAreExact == D!AnswersAreExact

\* Windows let through what they may and end: see RateLimiter.
LimitHolds == R!LimitHolds
=============================================================================
