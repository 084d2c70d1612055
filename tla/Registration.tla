---------------------------- MODULE Registration ----------------------------
(***************************************************************************)
(* Registration, the verification of an address and its change: the        *)
(* transactions that issue a link and those that redeem one, the daily     *)
(* limit on mails, and the worker that hands mails to the provider.        *)
(*                                                                         *)
(* A transaction takes its row locks one after the other and writes when   *)
(* it commits: one that issues a link locks the account and then the links *)
(* it supersedes, one that redeems a link locks the link and then the      *)
(* account.  Two that wait for each other are a deadlock, of which the     *)
(* database aborts one.  Each link has one mail job.                       *)
(***************************************************************************)
EXTENDS Integers, Sequences, FiniteSets

CONSTANTS
  Users,       \* identifiers for accounts
  Clients,     \* transactions under way at the same time
  Addresses,   \* e-mail addresses
  NoAddress,   \* of an account that is not registered yet
  MaxTokens,   \* bound: links ever issued
  DailyLimit,  \* BEEBA_EMAIL_DAILY_LIMIT, positive: zero is refused at start
  MaxTries,    \* column max_attempts of a mail job
  MaxClaims    \* bound: executions of mail jobs

VARIABLES
  accounts,  \* email and email_verified_at
  tokens,    \* email_verification_tokens and email_change_tokens, as issued
  jobs,      \* the mail job of each of them
  recent,    \* the jobs of the last 24 hours
  tx,        \* where each transaction is, and the rows it has locked
  worker,    \* the mail the worker is busy with
  claims,    \* executions of mail jobs so far
  accepted,  \* what the provider has delivered
  proven     \* history: the addresses that a link opened there has proved

vars == <<accounts, tokens, jobs, recent, tx, worker, claims, accepted, proven>>

-----------------------------------------------------------------------------
Account == [email : Addresses \cup {NoAddress}, verified : BOOLEAN]

TokenIds == 1 .. MaxTokens

\* stale: used_at is set or expires_at has passed.
Token == [kind : {"verify", "change"}, user : Users, email : Addresses, stale : BOOLEAN]

\* secret: the payload still has the link's token.
Job == [status : {"pending", "running", "succeeded", "dead"}, tries : 0 .. MaxTries,
        secret : BOOLEAN]

\* What a transaction that issues a link has locked and will write.
Issuing == [op : {"register", "resend", "change"}, user : Users, email : Addresses,
            old : SUBSET TokenIds]

Tx ==
  [pc : {"idle"}]
    \cup [pc : {"supersede", "count", "insert"}, issue : Issuing]
    \cup [pc : {"account", "redeem"}, token : TokenIds]

Worker == [pc : {"idle"}] \cup [pc : {"load", "send", "mark", "fail"}, job : TokenIds]

\* key: the Idempotency-Key of the request that the provider accepted.
Mail == [token : TokenIds, key : TokenIds \X (0 .. MaxTries), to : Addresses]

TypeOK ==
  /\ accounts \in [Users -> Account]
  /\ tokens \in Seq(Token) /\ Len(tokens) <= MaxTokens
  /\ jobs \in Seq(Job) /\ Len(jobs) = Len(tokens)
  /\ recent \subseteq DOMAIN tokens
  /\ tx \in [Clients -> Tx]
  /\ worker \in Worker
  /\ claims \in 0 .. MaxClaims
  /\ accepted \subseteq Mail
  /\ proven \subseteq Users \X Addresses

Idle == [pc |-> "idle"]

Init ==
  /\ accounts = [u \in Users |-> [email |-> NoAddress, verified |-> FALSE]]
  /\ tokens = << >>
  /\ jobs = << >>
  /\ recent = {}
  /\ tx = [c \in Clients |-> Idle]
  /\ worker = Idle
  /\ claims = 0
  /\ accepted = {}
  /\ proven = {}

-----------------------------------------------------------------------------
(* Row locks.  A row being registered is seen by nobody, but its identifier *)
(* and its address are taken.                                               *)

Issues(c) == tx[c].pc \in {"supersede", "count", "insert"}

HoldsUser(c, u) ==
  \/ Issues(c) /\ tx[c].issue.user = u
  \/ tx[c].pc = "redeem" /\ tokens[tx[c].token].user = u

HoldsToken(c, k) ==
  \/ tx[c].pc \in {"count", "insert"} /\ k \in tx[c].issue.old
  \/ tx[c].pc \in {"account", "redeem"} /\ tx[c].token = k

FreeUser(c, u) == \A d \in Clients \ {c} : ~HoldsUser(d, u)

FreeTokens(c, old) == \A d \in Clients \ {c}, k \in old : ~HoldsToken(d, k)

Goto(c, next) ==
  /\ tx' = [tx EXCEPT ![c] = next]
  /\ UNCHANGED <<accounts, tokens, jobs, recent, worker, claims, accepted, proven>>

\* Refused, failed, timed out, or chosen as the victim of a deadlock.
Abort(c) == tx[c] # Idle /\ Goto(c, Idle)

Owns(u, email) == accounts[u].email = email

\* The address of another account.
Taken(email, u) == \E v \in Users \ {u} : Owns(v, email)

\* users.email is unique, also against a registration that is not committed: a
\* write of the same address waits for it.
Unclaimed(c, email) ==
  ~\E d \in Clients \ {c} :
     Issues(d) /\ tx[d].issue.op = "register" /\ tx[d].issue.email = email

-----------------------------------------------------------------------------
(* Issuing a link.                                                         *)

\* Create: the account and its role are inserted.
Create(c, u, email) ==
  /\ tx[c] = Idle
  /\ Owns(u, NoAddress) /\ FreeUser(c, u)
  /\ ~Taken(email, u) /\ Unclaimed(c, email)
  /\ Goto(c, [pc |-> "count",
              issue |-> [op |-> "register", user |-> u, email |-> email, old |-> {}]])

\* RequestEmailVerification locks the account; nothing is sent for an address
\* that is verified.
RequestEmailVerification(c, u) ==
  /\ tx[c] = Idle
  /\ ~Owns(u, NoAddress) /\ FreeUser(c, u)
  /\ ~accounts[u].verified
  /\ Goto(c, [pc |-> "supersede", issue |->
       [op |-> "resend", user |-> u, email |-> accounts[u].email, old |-> {}]])

\* RequestEmailChange, after the password was proved: see Accounts.
RequestEmailChange(c, u, email) ==
  /\ tx[c] = Idle
  /\ ~Owns(u, NoAddress) /\ FreeUser(c, u)
  /\ ~Owns(u, email) /\ ~Taken(email, u)
  /\ Goto(c, [pc |-> "supersede",
              issue |-> [op |-> "change", user |-> u, email |-> email, old |-> {}]])

\* Unused links to the same end; of a change, also those of other accounts to
\* the same address.
Superseded(issue) ==
  {k \in DOMAIN tokens :
     /\ ~tokens[k].stale
     /\ IF issue.op = "resend" THEN tokens[k].kind = "verify" /\ tokens[k].user = issue.user
        ELSE /\ tokens[k].kind = "change"
             /\ tokens[k].user = issue.user \/ tokens[k].email = issue.email}

\* UPDATE ... SET used_at: waits for whoever redeems one of them.
Supersede(c) ==
  /\ tx[c].pc = "supersede"
  /\ LET old == Superseded(tx[c].issue)
     IN /\ FreeTokens(c, old)
        /\ Goto(c, [pc |-> "count", issue |-> [tx[c].issue EXCEPT !.old = old]])

\* Mutant: count > limit.
WithinDailyLimitOrAt == Cardinality(recent) <= DailyLimit

WithinDailyLimit == Cardinality(recent) < DailyLimit

\* enforceEmailDailyLimit counts what other transactions have committed.
EnforceEmailDailyLimit(c) ==
  /\ tx[c].pc = "count"
  /\ WithinDailyLimit
  /\ Goto(c, [tx[c] EXCEPT !.pc = "insert"])

Spent(old) ==
  [k \in DOMAIN tokens |-> IF k \in old THEN [tokens[k] EXCEPT !.stale = TRUE] ELSE tokens[k]]

\* The link, its mail job and the commit.
InsertToken(c) ==
  /\ tx[c].pc = "insert"
  /\ Len(tokens) < MaxTokens
  /\ LET issue == tx[c].issue
     IN /\ accounts' = IF issue.op = "register"
                         THEN [accounts EXCEPT ![issue.user].email = issue.email]
                         ELSE accounts
        /\ tokens' = Append(Spent(issue.old),
             [kind |-> IF issue.op = "change" THEN "change" ELSE "verify",
              user |-> issue.user, email |-> issue.email, stale |-> FALSE])
  /\ jobs' = Append(jobs, [status |-> "pending", tries |-> 0, secret |-> TRUE])
  /\ recent' = recent \cup {Len(tokens) + 1}
  /\ tx' = [tx EXCEPT ![c] = Idle]
  /\ UNCHANGED <<worker, claims, accepted, proven>>

-----------------------------------------------------------------------------
(* Redeeming a link that has arrived.                                      *)

Arrived(k) == {mail \in accepted : mail.token = k}

\* FOR UPDATE OF evt, u: first the link ...
LockToken(c, k) ==
  /\ tx[c] = Idle
  /\ k \in DOMAIN tokens /\ Arrived(k) # {}
  /\ ~tokens[k].stale /\ FreeTokens(c, {k})
  /\ Goto(c, [pc |-> "account", token |-> k])

\* ... then the account.  That the link has not expired was decided by the time
\* at which the transaction began.
LockAccount(c) ==
  /\ tx[c].pc = "account"
  /\ FreeUser(c, tokens[tx[c].token].user)
  /\ Goto(c, [pc |-> "redeem", token |-> tx[c].token])

Redeems(c, kind) == tx[c].pc = "redeem" /\ tokens[tx[c].token].kind = kind

Proves(c) ==
  proven' = proven \cup {<<tokens[tx[c].token].user, mail.to>> : mail \in Arrived(tx[c].token)}

VerifyEmail(c) ==
  /\ Redeems(c, "verify")
  /\ accounts' = [accounts EXCEPT ![tokens[tx[c].token].user].verified = TRUE]
  /\ tokens' = Spent({tx[c].token})
  /\ Proves(c)
  /\ tx' = [tx EXCEPT ![c] = Idle]
  /\ UNCHANGED <<jobs, recent, worker, claims, accepted>>

\* The new address is verified, and every link that would verify the account
\* expires.
ConfirmEmailChange(c) ==
  /\ Redeems(c, "change")
  /\ LET link == tokens[tx[c].token]
         old == {k \in DOMAIN tokens :
                   tokens[k].kind = "verify" /\ tokens[k].user = link.user /\ ~tokens[k].stale}
     IN /\ ~Taken(link.email, link.user) /\ Unclaimed(c, link.email)
        /\ FreeTokens(c, old)
        /\ accounts' = [accounts EXCEPT ![link.user] = [email |-> link.email, verified |-> TRUE]]
        /\ tokens' = Spent(old \cup {tx[c].token})
  /\ Proves(c)
  /\ tx' = [tx EXCEPT ![c] = Idle]
  /\ UNCHANGED <<jobs, recent, worker, claims, accepted>>

-----------------------------------------------------------------------------
(* The worker's mail queue; its claims, marks and retries are those of     *)
(* JobQueue, without faults of the database.                               *)

Busy(next, rows) ==
  /\ worker' = next
  /\ jobs' = rows
  /\ UNCHANGED <<accounts, tokens, recent, tx, proven>>

\* A job that is done or given up loses the token.
Ended(k, status) == [jobs EXCEPT ![k].status = status, ![k].secret = FALSE]

ClaimMail(k) ==
  /\ worker = Idle
  /\ k \in DOMAIN jobs /\ jobs[k].status = "pending"
  /\ Busy([pc |-> "load", job |-> k],
          [jobs EXCEPT ![k].status = "running", ![k].tries = @ + 1])
  /\ claims < MaxClaims /\ claims' = claims + 1
  /\ UNCHANGED accepted

\* A payload without its token is refused; a link that is used or has expired
\* is not mailed, and its job has succeeded.
GetTokenForSend ==
  /\ worker.pc = "load"
  /\ LET k == worker.job
     IN \/ ~jobs[k].secret /\ Busy([worker EXCEPT !.pc = "fail"], jobs)
        \/ jobs[k].secret /\ tokens[k].stale /\ Busy(Idle, Ended(k, "succeeded"))
        \/ jobs[k].secret /\ ~tokens[k].stale /\ Busy([worker EXCEPT !.pc = "send"], jobs)
  /\ UNCHANGED <<claims, accepted>>

\* Mutant: the key is that of the attempt.
KeyOfAttempt(k) == <<k, jobs[k].tries>>

\* The kind of the mail and the identifier of its link.
IdempotencyKey(k) == <<k, 0>>

\* Mutant: the address the account has now.
RecipientOfAccount(k) == accounts[tokens[k].user].email

Recipient(k) == tokens[k].email

\* The provider delivers a request whose key it has not seen; the worker may be
\* told that it failed, before or after that.
Send ==
  /\ worker.pc = "send"
  /\ LET k == worker.job
         mail == [token |-> k, key |-> IdempotencyKey(k), to |-> Recipient(k)]
         seen == \E m \in accepted : m.key = mail.key
     IN \/ /\ accepted' = IF seen THEN accepted ELSE accepted \cup {mail}
           /\ \E pc \in {"mark", "fail"} : Busy([worker EXCEPT !.pc = pc], jobs)
        \/ Busy([worker EXCEPT !.pc = "fail"], jobs) /\ UNCHANGED accepted
  /\ UNCHANGED claims

\* MarkSucceeded, which may fail.
Mark ==
  /\ worker.pc = "mark"
  /\ \/ Busy(Idle, Ended(worker.job, "succeeded"))
     \/ Busy([worker EXCEPT !.pc = "fail"], jobs)
  /\ UNCHANGED <<claims, accepted>>

MarkFailed ==
  /\ worker.pc = "fail"
  /\ LET k == worker.job
     IN Busy(Idle, IF jobs[k].tries >= MaxTries THEN Ended(k, "dead")
                   ELSE [jobs EXCEPT ![k].status = "pending"])
  /\ UNCHANGED <<claims, accepted>>

\* An administrator revives a job that has lost its token.
RetryAdminJob(k) ==
  /\ k \in DOMAIN jobs /\ jobs[k].status = "dead"
  /\ Busy(worker, [jobs EXCEPT ![k].status = "pending", ![k].tries = 0])
  /\ UNCHANGED <<claims, accepted>>

-----------------------------------------------------------------------------
\* 24 hours after they were inserted a link has expired and its job is no longer
\* counted.  That the link of a change expires earlier is left out: it would be
\* as stale as one that was superseded.
DayPasses(k) ==
  /\ k \in recent /\ \A i \in recent : k <= i
  /\ tokens' = Spent({k})
  /\ recent' = recent \ {k}
  /\ UNCHANGED <<accounts, jobs, tx, worker, claims, accepted, proven>>

Next ==
  \/ \E c \in Clients :
       \/ \E u \in Users, email \in Addresses : Create(c, u, email) \/ RequestEmailChange(c, u, email)
       \/ \E u \in Users : RequestEmailVerification(c, u)
       \/ Supersede(c) \/ EnforceEmailDailyLimit(c) \/ InsertToken(c)
       \/ \E k \in DOMAIN tokens : LockToken(c, k)
       \/ LockAccount(c) \/ VerifyEmail(c) \/ ConfirmEmailChange(c)
       \/ Abort(c)
  \/ \E k \in DOMAIN tokens : ClaimMail(k) \/ RetryAdminJob(k) \/ DayPasses(k)
  \/ GetTokenForSend \/ Send \/ Mark \/ MarkFailed

Spec == Init /\ [][Next]_vars

-----------------------------------------------------------------------------
\* An address counts as verified only if its account has opened a link that was
\* mailed to that very address, whatever changes and mails were under way.
VerifiedMeansProven ==
  \A u \in Users : accounts[u].verified => <<u, accounts[u].email>> \in proven

\* Nobody gets the same link twice, however often its job is executed; and an
\* account has at most one good link that verifies it.
LinksAreSingle ==
  /\ \A k \in DOMAIN tokens : Cardinality(Arrived(k)) <= 1
  /\ \A j, k \in DOMAIN tokens :
       /\ tokens[j].kind = "verify" /\ tokens[k].kind = "verify"
       /\ tokens[j].user = tokens[k].user
       /\ ~tokens[j].stale /\ ~tokens[k].stale
       => j = k

\* Transactions that count together can pass the daily limit together, but by
\* no more than all but one of them.
MailsWithinLimit == Cardinality(recent) <= DailyLimit + Cardinality(Clients) - 1
=============================================================================
