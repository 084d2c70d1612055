----------------------------- MODULE MCAccounts -----------------------------
(***************************************************************************)
(* The accounts that TLC checks: sessions and roles (Accounts), addresses  *)
(* and mails (Registration), likes, comments and reports (Community).      *)
(* They share no state that both sides change, so one run checks them one  *)
(* at a time: the rigid variable "part" says which takes steps, and the    *)
(* others stay where they are.                                             *)
(*                                                                         *)
(* Accounts, addresses and requests are interchangeable, and no property   *)
(* of the run is a liveness one.                                           *)
(***************************************************************************)
EXTENDS Accounts, TLC

CONSTANTS
  Mailboxes, NoAddress, MaxTokens, DailyLimit, MaxTries, MaxClaims,
  Comments, NoComment, Reports, Unresolved

VARIABLES
  part,
  accounts, tokens, jobs, recent, tx, worker, claims, accepted, proven,
  public, likes, counts, comments, writing, reports

mailVars == <<accounts, tokens, jobs, recent, tx, worker, claims, accepted, proven>>

socialVars == <<public, likes, counts, comments, writing, reports>>

R == INSTANCE Registration WITH Addresses <- Mailboxes
C == INSTANCE Community WITH People <- Users

ASSUME MailAssumption ==
  /\ Clients # {} /\ IsFiniteSet(Clients)
  /\ NoAddress \notin Mailboxes
  /\ DailyLimit \in Nat \ {0} /\ MaxTries \in Nat \ {0}
  /\ MaxTokens \in Nat /\ MaxClaims \in Nat

\* Where Accounts waits while another part takes steps: a state that does not
\* tell the accounts apart, or they would not be interchangeable.
SessionsRest ==
  /\ users = [u \in Users |->
       [email |-> NoAddress, role |-> "owner", banned |-> FALSE, password |-> 0]]
  /\ sessions = << >> /\ links = << >>
  /\ request = [c \in Clients |-> Idle]
  /\ spent = {} /\ requests = 0 /\ faults = {}

AccountsInit ==
  /\ part \in {"sessions", "mails", "social"}
  /\ IF part = "sessions" THEN Init ELSE SessionsRest
  /\ R!Init
  /\ C!Init

AccountsNext ==
  /\ UNCHANGED part
  /\ \/ part = "sessions" /\ Next /\ UNCHANGED <<mailVars, socialVars>>
     \/ part = "mails" /\ R!Next /\ UNCHANGED <<vars, socialVars>>
     \/ part = "social" /\ C!Next /\ UNCHANGED <<vars, mailVars>>

AccountsSpec == AccountsInit /\ [][AccountsNext]_<<part, vars, mailVars, socialVars>>

Interchangeable == Permutations(Users) \cup Permutations(Addresses) \cup Permutations(Clients)

-----------------------------------------------------------------------------
\* Every variable has its type, in all three.
Typed == (part = "sessions" => TypeOK) /\ R!TypeOK /\ C!TypeOK

\* Only an address that its account has proved counts as verified: see Registration.
VerifiedMeansProven == R!VerifiedMeansProven

\* No link is mailed twice and one is good at a time: see Registration.
LinksAreSingle == R!LinksAreSingle

\* The daily limit and by how much it can be passed: see Registration.
MailsWithinLimit == R!MailsWithinLimit

\* The counters are the numbers of the rows: see Community.
CountersMatchRows == C!CountersMatchRows
=============================================================================
