------------------------- MODULE MCAccounts_proofs -------------------------
(***************************************************************************)
(* Proofs about addresses and mails (R!), about likes and comments (C!),   *)
(* and about the system that TLC runs, where each takes its turn with the  *)
(* sessions of Accounts.                                                   *)
(*                                                                         *)
(* Addresses: whoever issues or redeems a link holds its account, so that  *)
(* nobody else changes the address it has read; and a link that is still   *)
(* good verifies the address its account has now.  What a transaction has  *)
(* found out about a link that expires under it is weaker: either that, or *)
(* the address the account has got in the meantime is proved already.      *)
(***************************************************************************)
EXTENDS MCAccounts, Accounts_proofs

-----------------------------------------------------------------------------
(* Addresses and mails.                                                    *)

\* What a transaction that issues a link, or redeems one, knows of it.
IssueFits(c) ==
  R!Issues(c) =>
    LET issue == tx[c].issue
    IN /\ issue.op = "register" <=> accounts[issue.user].email = NoAddress
       /\ issue.op = "resend" => issue.email = accounts[issue.user].email
       /\ issue.op = "resend" /\ tx[c].pc # "supersede" =>
            \A k \in DOMAIN tokens :
              tokens[k].kind = "verify" /\ tokens[k].user = issue.user /\ ~tokens[k].stale
                => k \in issue.old

RedeemFits(c) ==
  tx[c].pc \in {"account", "redeem"} =>
    LET k == tx[c].token
        u == tokens[k].user
    IN /\ k \in DOMAIN tokens /\ R!Arrived(k) # {}
       /\ tokens[k].kind = "verify" =>
            accounts[u].email = tokens[k].email \/ <<u, accounts[u].email>> \in proven

TokenFits(k) ==
  /\ accounts[tokens[k].user].email # NoAddress
  /\ tokens[k].kind = "verify" /\ ~tokens[k].stale => tokens[k].email = accounts[tokens[k].user].email

TokensFit == \A k \in DOMAIN tokens : TokenFits(k)

OneHoldsUser ==
  \A c, d \in Clients, u \in Users : R!HoldsUser(c, u) /\ R!HoldsUser(d, u) => c = d

TxFits == OneHoldsUser /\ \A c \in Clients : IssueFits(c) /\ RedeemFits(c)

OneGoodVerifyLink ==
  \A j, k \in DOMAIN tokens :
    /\ tokens[j].kind = "verify" /\ tokens[k].kind = "verify"
    /\ tokens[j].user = tokens[k].user
    /\ ~tokens[j].stale /\ ~tokens[k].stale
    => j = k

MailsFit ==
  \A mail \in accepted :
    /\ mail.token \in DOMAIN tokens
    /\ mail.to = tokens[mail.token].email
    /\ mail.key = <<mail.token, 0>>

JobsFit ==
  /\ \A k \in DOMAIN jobs : jobs[k].status = "pending" => jobs[k].tries < MaxTries
  /\ worker.pc # "idle" => worker.job \in DOMAIN jobs

\* Whoever has counted and not inserted yet.
Inserting == {c \in Clients : tx[c].pc = "insert"}

LimitPart == Cardinality(recent) + Cardinality(Inserting) <= DailyLimit + Cardinality(Clients) - 1

LinkPart == TokensFit /\ TxFits /\ OneGoodVerifyLink /\ R!VerifiedMeansProven

MailInv == R!TypeOK /\ LinkPart /\ MailsFit /\ JobsFit /\ LimitPart

\* One step of the rows of links: those there were keep what they say, and only
\* grow old.
TokensAge ==
  \A k \in DOMAIN tokens :
    /\ k \in DOMAIN tokens'
    /\ tokens'[k].kind = tokens[k].kind /\ tokens'[k].user = tokens[k].user
    /\ tokens'[k].email = tokens[k].email
    /\ tokens[k].stale => tokens'[k].stale

LEMMA MailTables ==
  ASSUME R!TypeOK
  PROVE  /\ tokens \in Seq(R!Token) /\ jobs \in Seq(R!Job) /\ Len(tokens) \in 0 .. MaxTokens
         /\ DOMAIN tokens = 1 .. Len(tokens) /\ DOMAIN jobs = 1 .. Len(tokens)
         /\ DOMAIN tokens \subseteq R!TokenIds
         /\ \A k \in DOMAIN tokens :
              /\ tokens[k] \in R!Token /\ tokens[k].user \in Users /\ tokens[k].email \in Mailboxes
              /\ tokens[k].kind \in {"verify", "change"} /\ tokens[k].stale \in BOOLEAN
         /\ \A k \in DOMAIN jobs : jobs[k] \in R!Job
         /\ IsFiniteSet(recent) /\ Cardinality(recent) \in Nat
<1>1. tokens \in Seq(R!Token) /\ jobs \in Seq(R!Job) /\ Len(tokens) <= MaxTokens
      /\ Len(jobs) = Len(tokens) /\ recent \subseteq DOMAIN tokens
  BY DEF R!TypeOK
<1>2. Len(tokens) \in 0 .. MaxTokens /\ DOMAIN tokens = 1 .. Len(tokens)
      /\ DOMAIN jobs = 1 .. Len(tokens) /\ DOMAIN tokens \subseteq R!TokenIds
  BY <1>1, MailAssumption, LenProperties DEF R!TokenIds
<1>3. \A k \in DOMAIN tokens : tokens[k] \in R!Token
  BY <1>1, <1>2, ElementOfSeq
<1>4. \A k \in DOMAIN jobs : jobs[k] \in R!Job
  BY <1>1, <1>2, ElementOfSeq
<1>5. IsFiniteSet(1 .. Len(tokens))
  BY <1>2, FS_Interval
<1>6. IsFiniteSet(recent) /\ Cardinality(recent) \in Nat
  BY <1>1, <1>2, <1>5, FS_Subset, FS_CardinalityType
<1>7. QED
  BY <1>1, <1>2, <1>3, <1>4, <1>6 DEF R!Token

LEMMA TxShapes ==
  ASSUME R!TypeOK, NEW c \in Clients
  PROVE  /\ tx[c] \in R!Tx
         /\ R!Issues(c) =>
              /\ tx[c].issue \in R!Issuing /\ tx[c].issue.user \in Users
              /\ tx[c].issue.email \in Mailboxes
              /\ tx[c].issue.op \in {"register", "resend", "change"}
              /\ tx[c] = [pc |-> tx[c].pc, issue |-> tx[c].issue]
         /\ tx[c].pc \in {"account", "redeem"} => tx[c].token \in R!TokenIds
         /\ tx[c].pc = "idle" <=> tx[c] = R!Idle
<1>1. tx[c] \in R!Tx
  BY DEF R!TypeOK
<1>2. CASE tx[c] \in [pc : {"idle"}]
  BY <1>1, <1>2 DEF R!Issues, R!Idle
<1>3. CASE tx[c] \in [pc : {"supersede", "count", "insert"}, issue : R!Issuing]
  <2>1. tx[c].issue \in R!Issuing /\ tx[c].pc \in {"supersede", "count", "insert"}
        /\ tx[c] = [pc |-> tx[c].pc, issue |-> tx[c].issue]
    BY <1>3
  <2>2. tx[c].issue.user \in Users /\ tx[c].issue.email \in Mailboxes
        /\ tx[c].issue.op \in {"register", "resend", "change"}
    BY <2>1 DEF R!Issuing
  <2>3. QED
    BY <1>1, <2>1, <2>2 DEF R!Idle
<1>4. CASE tx[c] \in [pc : {"account", "redeem"}, token : R!TokenIds]
  BY <1>1, <1>4 DEF R!Issues, R!Idle
<1>5. QED
  BY <1>1, <1>2, <1>3, <1>4 DEF R!Tx

LEMMA SpentIs ==
  ASSUME R!TypeOK, NEW old
  PROVE  /\ R!Spent(old) \in Seq(R!Token) /\ Len(R!Spent(old)) = Len(tokens)
         /\ DOMAIN R!Spent(old) = DOMAIN tokens
         /\ \A k \in DOMAIN tokens :
              /\ R!Spent(old)[k].kind = tokens[k].kind /\ R!Spent(old)[k].user = tokens[k].user
              /\ R!Spent(old)[k].email = tokens[k].email
              /\ R!Spent(old)[k].stale <=> tokens[k].stale \/ k \in old
<1> DEFINE f == R!Spent(old)
<1>1. DOMAIN tokens = 1 .. Len(tokens) /\ Len(tokens) \in Nat
      /\ \A k \in DOMAIN tokens : tokens[k] \in R!Token
  BY MailTables
<1>2. ASSUME NEW k \in DOMAIN tokens
      PROVE  /\ f[k] \in R!Token
             /\ f[k].kind = tokens[k].kind /\ f[k].user = tokens[k].user /\ f[k].email = tokens[k].email
             /\ f[k].stale <=> tokens[k].stale \/ k \in old
  <2>1. [tokens[k] EXCEPT !.stale = TRUE] \in R!Token
    BY <1>1 DEF R!Token
  <2>2. f[k] = IF k \in old THEN [tokens[k] EXCEPT !.stale = TRUE] ELSE tokens[k]
    BY DEF R!Spent
  <2>3. QED
    BY <1>1, <2>1, <2>2 DEF R!Token
<1>3. f \in [1 .. Len(tokens) -> R!Token]
  BY <1>1, <1>2 DEF R!Spent
<1> HIDE DEF f
<1>4. f \in Seq(R!Token) /\ Len(f) = Len(tokens) /\ DOMAIN f = 1 .. Len(tokens)
  BY <1>1, <1>3, AsSeq
<1>5. QED
  BY <1>1, <1>2, <1>4 DEF f

LEMMA MailInit ==
  ASSUME R!Init
  PROVE  MailInv
<1>1. R!TypeOK
  BY MailAssumption, EmptySeq
  DEF R!Init, R!TypeOK, R!Account, R!Tx, R!Worker, R!Idle
<1>2. DOMAIN tokens = {} /\ DOMAIN jobs = {} /\ accepted = {} /\ worker.pc = "idle"
      /\ \A c \in Clients : tx[c].pc = "idle"
  BY DEF R!Init, R!Idle
<1>3. LinkPart
  BY <1>2 DEF LinkPart, TokensFit, TxFits, OneHoldsUser, IssueFits, RedeemFits,
      OneGoodVerifyLink,
              R!VerifiedMeansProven, R!HoldsUser, R!Issues, R!Init
<1>4. LimitPart
  <2>1. Inserting = {} /\ recent = {}
    BY <1>2 DEF Inserting, R!Init
  <2>2. Cardinality(Clients) \in Nat /\ Cardinality(Clients) # 0
    BY MailAssumption, FS_EmptySet, FS_CardinalityType
  <2>3. QED
    BY <2>1, <2>2, FS_EmptySet, MailAssumption DEF LimitPart
<1>5. QED
  BY <1>1, <1>2, <1>3, <1>4 DEF MailInv, MailsFit, JobsFit

LEMMA InsertingIsFinite ==
  /\ IsFiniteSet(Inserting) /\ Cardinality(Inserting) \in Nat
  /\ IsFiniteSet(Inserting') /\ Cardinality(Inserting') \in Nat
  /\ Cardinality(Inserting') <= Cardinality(Clients)
  /\ Cardinality(Clients) \in Nat
<1>1. Inserting \in SUBSET Clients /\ Inserting' \in SUBSET Clients
  BY DEF Inserting
<1>2. QED
  BY <1>1, MailAssumption, FS_Subset, FS_CardinalityType

LEMMA LimitStays ==
  ASSUME R!TypeOK, LimitPart, recent' \subseteq recent, Inserting' \subseteq Inserting
  PROVE  LimitPart'
<1>1. IsFiniteSet(recent) /\ Cardinality(recent) \in Nat
  BY MailTables
<1>2. Cardinality(recent') <= Cardinality(recent) /\ Cardinality(recent') \in Nat
  BY <1>1, recent' \in SUBSET recent, FS_Subset, FS_CardinalityType
<1>3. Cardinality(Inserting') <= Cardinality(Inserting)
  BY InsertingIsFinite, Inserting' \in SUBSET Inserting, FS_Subset
<1>4. QED
  BY <1>1, <1>2, <1>3, InsertingIsFinite, MailAssumption DEF LimitPart

-----------------------------------------------------------------------------
(* Steps that only take locks, or give them up.                            *)

LEMMA GotoKeeps ==
  ASSUME MailInv, NEW c \in Clients, NEW next \in R!Tx, R!Goto(c, next),
         IssueFits(c)', RedeemFits(c)',
         \A u \in Users : R!HoldsUser(c, u)' => R!HoldsUser(c, u) \/ R!FreeUser(c, u),
         next.pc = "insert" => R!WithinDailyLimit
  PROVE  MailInv'
<1>1. /\ UNCHANGED <<accounts, tokens, jobs, recent, worker, claims, accepted, proven>>
      /\ tx' \in [Clients -> R!Tx] /\ tx'[c] = next
      /\ \A d \in Clients \ {c} : tx'[d] = tx[d]
  BY DEF R!Goto, MailInv, R!TypeOK
<1>2. R!TypeOK'
  BY <1>1 DEF MailInv, R!TypeOK
<1>3. \A d \in Clients \ {c} : IssueFits(d)' /\ RedeemFits(d)'
  BY <1>1 DEF MailInv, LinkPart, TxFits, IssueFits, RedeemFits, R!Issues, R!Arrived
<1>4. \A d \in Clients \ {c}, u \in Users : R!HoldsUser(d, u)' <=> R!HoldsUser(d, u)
  BY <1>1 DEF R!HoldsUser, R!Issues
<1>5. OneHoldsUser'
  BY <1>4 DEF MailInv, LinkPart, TxFits, OneHoldsUser, R!FreeUser
<1>6. TokensFit' /\ OneGoodVerifyLink' /\ R!VerifiedMeansProven' /\ MailsFit' /\ JobsFit'
  BY <1>1 DEF MailInv, LinkPart, TokensFit, TokenFits, OneGoodVerifyLink, R!VerifiedMeansProven,
              MailsFit, JobsFit
<1>7. LimitPart'
  <2>1. CASE next.pc = "insert"
    <3>1. Cardinality(recent) < DailyLimit
      BY <2>1 DEF R!WithinDailyLimit, R!Cardinality, Cardinality
    <3>2. Cardinality(recent) \in Nat
      BY MailTables DEF MailInv
    <3>3. QED
      BY <1>1, <3>1, <3>2, InsertingIsFinite, MailAssumption DEF LimitPart
  <2>2. CASE next.pc # "insert"
    <3>1. Inserting' \subseteq Inserting
      BY <1>1, <2>2 DEF Inserting
    <3>2. QED
      BY <1>1, <3>1, LimitStays DEF MailInv
  <2>3. QED
    BY <2>1, <2>2
<1>8. QED
  BY <1>2, <1>3, <1>5, <1>6, <1>7 DEF MailInv, LinkPart, TxFits

\* Whoever begins to issue a link.
LEMMA IssuingBegins ==
  ASSUME MailInv, NEW c \in Clients, NEW issue \in R!Issuing, NEW pc \in {"supersede", "count"},
         R!Goto(c, [pc |-> pc, issue |-> issue]), R!FreeUser(c, issue.user),
         issue.op = "register" <=> accounts[issue.user].email = NoAddress,
         issue.op = "resend" => issue.email = accounts[issue.user].email /\ pc = "supersede"
  PROVE  MailInv'
<1> DEFINE next == [pc |-> pc, issue |-> issue]
<1>1. next \in R!Tx
  BY DEF R!Tx
<1>2. tx'[c] = next /\ UNCHANGED <<accounts, tokens>>
  BY DEF R!Goto, MailInv, R!TypeOK
<1>3. IssueFits(c)' /\ RedeemFits(c)'
  BY <1>2 DEF IssueFits, RedeemFits
<1>4. \A u \in Users : R!HoldsUser(c, u)' => R!FreeUser(c, u)
  BY <1>2 DEF R!HoldsUser
<1>5. QED
  BY <1>1, <1>3, <1>4, GotoKeeps

LEMMA CreateKeeps ==
  ASSUME MailInv, NEW c \in Clients, NEW u \in Users, NEW email \in Mailboxes,
         R!Create(c, u, email)
  PROVE  MailInv'
<1> DEFINE issue == [op |-> "register", user |-> u, email |-> email, old |-> {}]
<1>1. issue \in R!Issuing
  BY DEF R!Issuing
<1>2. /\ R!Goto(c, [pc |-> "count", issue |-> issue]) /\ R!FreeUser(c, u)
      /\ accounts[u].email = NoAddress
  BY DEF R!Create, R!Owns
<1>3. QED
  BY <1>1, <1>2, IssuingBegins

LEMMA RequestEmailVerificationKeeps ==
  ASSUME MailInv, NEW c \in Clients, NEW u \in Users, R!RequestEmailVerification(c, u)
  PROVE  MailInv'
<1> DEFINE issue == [op |-> "resend", user |-> u, email |-> accounts[u].email, old |-> {}]
<1>1. /\ R!Goto(c, [pc |-> "supersede", issue |-> issue]) /\ R!FreeUser(c, u)
      /\ accounts[u].email # NoAddress
  BY DEF R!RequestEmailVerification, R!Owns
<1>2. issue \in R!Issuing
  BY <1>1 DEF R!Issuing, MailInv, R!TypeOK, R!Account
<1>3. QED
  BY <1>1, <1>2, IssuingBegins

LEMMA AskEmailChangeKeeps ==
  ASSUME MailInv, NEW c \in Clients, NEW u \in Users, NEW email \in Mailboxes,
         R!RequestEmailChange(c, u, email)
  PROVE  MailInv'
<1> DEFINE issue == [op |-> "change", user |-> u, email |-> email, old |-> {}]
<1>1. issue \in R!Issuing
  BY DEF R!Issuing
<1>2. /\ R!Goto(c, [pc |-> "supersede", issue |-> issue]) /\ R!FreeUser(c, u)
      /\ accounts[u].email # NoAddress
  BY DEF R!RequestEmailChange, R!Owns
<1>3. QED
  BY <1>1, <1>2, IssuingBegins

LEMMA SupersedeKeeps ==
  ASSUME MailInv, NEW c \in Clients, R!Supersede(c)
  PROVE  MailInv'
<1> DEFINE old == R!Superseded(tx[c].issue)
           issue == [tx[c].issue EXCEPT !.old = old]
           next == [pc |-> "count", issue |-> issue]
<1>1. /\ tx[c].pc = "supersede" /\ R!Goto(c, next) /\ R!Issues(c)
      /\ tx[c].issue \in R!Issuing
  BY TxShapes DEF R!Supersede, R!Issues, MailInv
<1>2. old \subseteq R!TokenIds
  BY MailTables DEF R!Superseded, MailInv
<1>3. issue \in R!Issuing /\ issue.op = tx[c].issue.op /\ issue.user = tx[c].issue.user
      /\ issue.email = tx[c].issue.email /\ issue.old = old
  BY <1>1, <1>2 DEF R!Issuing
<1>4. next \in R!Tx
  BY <1>3 DEF R!Tx
<1>5. tx'[c] = next /\ UNCHANGED <<accounts, tokens>>
  BY <1>1 DEF R!Goto, MailInv, R!TypeOK
<1>6. IssueFits(c)
  BY DEF MailInv, LinkPart, TxFits
<1>7. issue.op = "resend" =>
        \A k \in DOMAIN tokens :
          tokens[k].kind = "verify" /\ tokens[k].user = issue.user /\ ~tokens[k].stale => k \in old
  BY <1>3 DEF R!Superseded
<1> HIDE DEF issue, old
<1>8. IssueFits(c)' /\ RedeemFits(c)'
  BY <1>1, <1>3, <1>5, <1>6, <1>7 DEF IssueFits, RedeemFits
<1>9. \A u \in Users : R!HoldsUser(c, u)' => R!HoldsUser(c, u)
  BY <1>1, <1>3, <1>5 DEF R!HoldsUser, R!Issues
<1>10. QED
  BY <1>1, <1>4, <1>8, <1>9, GotoKeeps

LEMMA EnforceEmailDailyLimitKeeps ==
  ASSUME MailInv, NEW c \in Clients, R!EnforceEmailDailyLimit(c)
  PROVE  MailInv'
<1> DEFINE next == [tx[c] EXCEPT !.pc = "insert"]
<1>1. /\ tx[c].pc = "count" /\ R!Goto(c, next) /\ R!Issues(c) /\ R!WithinDailyLimit
      /\ tx[c].issue \in R!Issuing /\ tx[c] = [pc |-> tx[c].pc, issue |-> tx[c].issue]
  BY TxShapes DEF R!EnforceEmailDailyLimit, R!Issues, MailInv
<1>2. next = [pc |-> "insert", issue |-> tx[c].issue]
  BY <1>1
<1>3. next \in R!Tx
  BY <1>1, <1>2 DEF R!Tx
<1>4. tx'[c] = next /\ UNCHANGED <<accounts, tokens>>
  BY <1>1 DEF R!Goto, MailInv, R!TypeOK
<1>5. IssueFits(c)
  BY DEF MailInv, LinkPart, TxFits
<1> HIDE DEF next
<1>6. IssueFits(c)' /\ RedeemFits(c)'
  BY <1>1, <1>2, <1>4, <1>5 DEF IssueFits, RedeemFits, R!Issues
<1>7. \A u \in Users : R!HoldsUser(c, u)' => R!HoldsUser(c, u)
  BY <1>1, <1>2, <1>4 DEF R!HoldsUser, R!Issues
<1>8. QED
  BY <1>1, <1>3, <1>6, <1>7, GotoKeeps

LEMMA LockTokenKeeps ==
  ASSUME MailInv, NEW c \in Clients, NEW k \in DOMAIN tokens, R!LockToken(c, k)
  PROVE  MailInv'
<1> DEFINE next == [pc |-> "account", token |-> k]
<1>1. next \in R!Tx
  BY MailTables DEF R!Tx, MailInv
<1>2. tx'[c] = next /\ UNCHANGED <<accounts, tokens, proven, accepted>> /\ R!Goto(c, next)
  BY DEF R!LockToken, R!Goto, MailInv, R!TypeOK
<1>3. R!Arrived(k) # {} /\ ~tokens[k].stale /\ TokenFits(k)
  BY DEF R!LockToken, MailInv, LinkPart, TokensFit
<1>4. IssueFits(c)' /\ RedeemFits(c)'
  BY <1>2, <1>3 DEF IssueFits, RedeemFits, R!Issues, R!Arrived, TokenFits
<1>5. \A u \in Users : ~R!HoldsUser(c, u)'
  BY <1>2 DEF R!HoldsUser, R!Issues
<1>6. QED
  BY <1>1, <1>2, <1>4, <1>5, GotoKeeps

LEMMA LockAccountKeeps ==
  ASSUME MailInv, NEW c \in Clients, R!LockAccount(c)
  PROVE  MailInv'
<1> DEFINE next == [pc |-> "redeem", token |-> tx[c].token]
<1>1. next \in R!Tx
  BY TxShapes DEF R!Tx, MailInv, R!LockAccount
<1>2. tx'[c] = next /\ UNCHANGED <<accounts, tokens, proven, accepted>> /\ R!Goto(c, next)
      /\ tx[c].pc = "account" /\ R!FreeUser(c, tokens[tx[c].token].user)
  BY DEF R!LockAccount, R!Goto, MailInv, R!TypeOK
<1>3. RedeemFits(c)
  BY DEF MailInv, LinkPart, TxFits
<1>4. IssueFits(c)' /\ RedeemFits(c)'
  BY <1>2, <1>3 DEF IssueFits, RedeemFits, R!Issues, R!Arrived
<1>5. \A u \in Users : R!HoldsUser(c, u)' => R!FreeUser(c, u)
  BY <1>2 DEF R!HoldsUser, R!Issues
<1>6. QED
  BY <1>1, <1>2, <1>4, <1>5, GotoKeeps

LEMMA AbortKeeps ==
  ASSUME MailInv, NEW c \in Clients, R!Abort(c)
  PROVE  MailInv'
<1>1. R!Idle \in R!Tx /\ R!Idle.pc = "idle"
  BY DEF R!Tx, R!Idle
<1>2. tx'[c] = R!Idle /\ R!Goto(c, R!Idle)
  BY DEF R!Abort, R!Goto, MailInv, R!TypeOK
<1>3. IssueFits(c)' /\ RedeemFits(c)' /\ \A u \in Users : ~R!HoldsUser(c, u)'
  BY <1>1, <1>2 DEF IssueFits, RedeemFits, R!Issues, R!HoldsUser
<1>4. QED
  BY <1>1, <1>2, <1>3, GotoKeeps

-----------------------------------------------------------------------------
(* Steps that write.                                                       *)

\* The account of a link is not one that is being registered.
LEMMA LinkedIsRegistered ==
  ASSUME MailInv, NEW k \in DOMAIN tokens
  PROVE  accounts[tokens[k].user].email # NoAddress
  BY DEF MailInv, LinkPart, TokensFit, TokenFits

LEMMA InsertTokenKeeps ==
  ASSUME MailInv, NEW c \in Clients, R!InsertToken(c)
  PROVE  MailInv'
<1>0. PICK n \in Nat : n = Len(tokens)
  <2>1. Len(tokens) \in Nat
    BY MailTables, MailAssumption DEF MailInv
  <2>2. QED
    BY <2>1
<1> DEFINE issue == tx[c].issue
           u == issue.user
           link == [kind |-> IF issue.op = "change" THEN "change" ELSE "verify",
                    user |-> u, email |-> issue.email, stale |-> FALSE]
           aged == R!Spent(issue.old)
<1>1. /\ R!TypeOK /\ R!Issues(c) /\ tx[c].pc = "insert" /\ issue \in R!Issuing
      /\ u \in Users /\ issue.email \in Mailboxes
      /\ issue.op \in {"register", "resend", "change"}
      /\ IssueFits(c) /\ issue.email # NoAddress
  BY TxShapes, MailAssumption DEF MailInv, R!InsertToken, R!Issues, LinkPart, TxFits
<1>2. /\ n \in Nat /\ n < MaxTokens /\ DOMAIN tokens = 1 .. n /\ DOMAIN jobs = 1 .. n
      /\ recent \subseteq 1 .. n
  BY <1>0, <1>1, MailTables DEF R!InsertToken, R!TypeOK
<1>3. link \in R!Token
  BY <1>1 DEF R!Token
<1>4. /\ aged \in Seq(R!Token) /\ Len(aged) = n
      /\ \A k \in 1 .. n :
           /\ aged[k].kind = tokens[k].kind /\ aged[k].user = tokens[k].user
           /\ aged[k].email = tokens[k].email
           /\ aged[k].stale <=> tokens[k].stale \/ k \in issue.old
  BY <1>0, <1>1, <1>2, SpentIs
<1>5. tokens' = Append(aged, link)
  BY DEF R!InsertToken
<1>6. /\ tokens' \in Seq(R!Token) /\ Len(tokens') = n + 1 /\ DOMAIN tokens' = 1 .. n + 1
      /\ tokens'[n + 1] = link /\ \A k \in 1 .. n : tokens'[k] = aged[k]
  BY <1>3, <1>4, <1>5, AppendIs
<1>7. \A k \in 1 .. n :
        /\ tokens'[k].kind = tokens[k].kind /\ tokens'[k].user = tokens[k].user
        /\ tokens'[k].email = tokens[k].email
        /\ tokens'[k].stale <=> tokens[k].stale \/ k \in issue.old
  BY <1>4, <1>6
<1>8. /\ link.kind = (IF issue.op = "change" THEN "change" ELSE "verify")
      /\ link.user = u /\ link.email = issue.email
  OBVIOUS
<1>9. /\ accounts' \in [Users -> R!Account]
      /\ \A v \in Users : accounts'[v].verified = accounts[v].verified
      /\ \A v \in Users : v # u \/ issue.op # "register" => accounts'[v] = accounts[v]
      /\ issue.op = "register" => accounts'[u].email = issue.email
  <2>1. accounts \in [Users -> R!Account] /\ accounts[u] \in R!Account
    BY <1>1 DEF R!TypeOK
  <2>2. [accounts[u] EXCEPT !.email = issue.email] \in R!Account
    BY <1>1, <2>1 DEF R!Account
  <2>3. accounts' = IF issue.op = "register"
                      THEN [accounts EXCEPT ![u] = [accounts[u] EXCEPT !.email = issue.email]]
                      ELSE accounts
    BY DEF R!InsertToken
  <2>4. accounts' \in [Users -> R!Account]
    BY <1>1, <2>1, <2>2, <2>3
  <2>5. CASE issue.op = "register"
    <3>1. accounts'[u] = [accounts[u] EXCEPT !.email = issue.email]
          /\ \A v \in Users \ {u} : accounts'[v] = accounts[v]
      BY <1>1, <2>1, <2>3, <2>5
    <3>2. accounts'[u].email = issue.email /\ accounts'[u].verified = accounts[u].verified
      BY <2>1, <3>1 DEF R!Account
    <3>3. QED
      BY <2>4, <2>5, <3>1, <3>2
  <2>6. CASE issue.op # "register"
    BY <2>3, <2>4, <2>6
  <2>7. QED
    BY <2>5, <2>6
<1>10. /\ jobs' \in Seq(R!Job) /\ Len(jobs') = n + 1 /\ DOMAIN jobs' = 1 .. n + 1
       /\ \A k \in 1 .. n : jobs'[k] = jobs[k]
       /\ jobs'[n + 1].tries = 0
  <2> DEFINE job == [status |-> "pending", tries |-> 0, secret |-> TRUE]
  <2>1. job \in R!Job /\ job.tries = 0
    BY MailAssumption DEF R!Job
  <2>2. jobs \in Seq(R!Job) /\ Len(jobs) = n /\ jobs' = Append(jobs, job)
    BY <1>0, <1>1 DEF R!InsertToken, R!TypeOK
  <2>3. QED
    BY <2>1, <2>2, AppendIs
<1>11. /\ UNCHANGED <<worker, claims, accepted, proven>> /\ recent' = recent \cup {n + 1}
       /\ tx' \in [Clients -> R!Tx] /\ tx'[c].pc = "idle"
       /\ \A d \in Clients \ {c} : tx'[d] = tx[d]
  BY <1>0, <1>1 DEF R!InsertToken, R!TypeOK, R!Tx, R!Idle
<1>a. /\ issue.op = "register" <=> accounts[u].email = NoAddress
      /\ issue.op = "resend" =>
           /\ issue.email = accounts[u].email
           /\ \A k \in 1 .. n :
                tokens[k].kind = "verify" /\ tokens[k].user = u /\ ~tokens[k].stale => k \in issue.old
  BY <1>1, <1>2 DEF IssueFits
<1>b. /\ tokens'[n + 1].kind = (IF issue.op = "change" THEN "change" ELSE "verify")
      /\ tokens'[n + 1].user = u /\ tokens'[n + 1].email = issue.email
  BY <1>6, <1>8
<1> HIDE DEF aged, link, issue, u
<1>c. \A k \in DOMAIN tokens' : k \in 1 .. n \/ k = n + 1
  BY <1>2, <1>6
<1>12. R!TypeOK'
  <2>1. Len(tokens') <= MaxTokens /\ Len(jobs') = Len(tokens')
    BY <1>2, <1>6, <1>10, MailAssumption
  <2>2. recent' \subseteq DOMAIN tokens'
    BY <1>2, <1>6, <1>11
  <2>3. QED
    BY <1>1, <1>6, <1>9, <1>10, <1>11, <2>1, <2>2 DEF R!TypeOK
<1>13. \A k \in 1 .. n : accounts'[tokens[k].user].email = accounts[tokens[k].user].email
                         /\ (issue.op = "register" => tokens[k].user # u)
  <2>1. ASSUME NEW k \in 1 .. n
        PROVE  accounts'[tokens[k].user].email = accounts[tokens[k].user].email
               /\ (issue.op = "register" => tokens[k].user # u)
    <3>1. accounts[tokens[k].user].email # NoAddress /\ tokens[k].user \in Users
      BY <1>1, <1>2, LinkedIsRegistered, MailTables
    <3>2. QED
      BY <1>9, <1>a, <3>1
  <2>2. QED
    BY <2>1
<1>14. TokensFit'
  <2>1. ASSUME NEW k \in 1 .. n PROVE TokenFits(k)'
    BY <1>2, <1>7, <1>13 DEF MailInv, LinkPart, TokensFit, TokenFits
  <2>2. TokenFits(n + 1)'
    <3>1. CASE issue.op = "register"
      BY <1>1, <1>9, <1>a, <1>b, <3>1 DEF TokenFits
    <3>2. CASE issue.op # "register"
      <4>1. accounts'[u] = accounts[u] /\ accounts[u].email # NoAddress
        BY <1>1, <1>9, <1>a, <3>2
      <4>2. issue.op = "change" \/ issue.email = accounts[u].email
        BY <1>1, <1>a, <3>2
      <4>3. QED
        BY <1>b, <4>1, <4>2 DEF TokenFits
    <3>3. QED
      BY <3>1, <3>2
  <2>3. QED
    BY <1>c, <2>1, <2>2 DEF TokensFit
<1>15. \A d \in Clients \ {c} : tx[d].pc \in {"account", "redeem"} => tx[d].token \in 1 .. n
  BY <1>2 DEF MailInv, LinkPart, TxFits, RedeemFits
<1>16. \A d \in Clients, v \in Users : R!HoldsUser(d, v)' => d # c /\ R!HoldsUser(d, v)
  BY <1>7, <1>11, <1>15 DEF R!HoldsUser, R!Issues
<1>17. OneHoldsUser'
  BY <1>16 DEF MailInv, LinkPart, TxFits, OneHoldsUser
<1>18. ASSUME NEW d \in Clients \ {c}, R!Issues(d)
       PROVE  tx[d].issue.user \in Users /\ tx[d].issue.user # u
  <2>1. R!HoldsUser(c, u) /\ R!HoldsUser(d, tx[d].issue.user)
    BY <1>1, <1>18 DEF R!HoldsUser, u, issue
  <2>2. tx[d].issue.user \in Users
    BY <1>1, <1>18, TxShapes
  <2>3. QED
    BY <1>1, <2>1, <2>2 DEF MailInv, LinkPart, TxFits, OneHoldsUser
<1>19. ASSUME NEW d \in Clients PROVE IssueFits(d)' /\ RedeemFits(d)'
  <2>1. CASE d = c
    BY <1>11, <2>1 DEF IssueFits, RedeemFits, R!Issues
  <2>2. CASE d # c /\ R!Issues(d)
    <3>1. accounts'[tx[d].issue.user] = accounts[tx[d].issue.user] /\ tx'[d] = tx[d]
          /\ tx[d].issue.user # u
      BY <1>9, <1>11, <1>18, <2>2
    <3>2. IssueFits(d)
      BY DEF MailInv, LinkPart, TxFits
    <3>3. IssueFits(d)'
      <4>1. SUFFICES ASSUME tx[d].issue.op = "resend", tx[d].pc # "supersede",
                            NEW k \in DOMAIN tokens', tokens'[k].kind = "verify",
                            tokens'[k].user = tx[d].issue.user, ~tokens'[k].stale
                     PROVE  k \in tx[d].issue.old
        BY <2>2, <3>1, <3>2 DEF IssueFits, R!Issues
      <4>2. k \in 1 .. n
        BY <1>b, <1>c, <3>1, <4>1
      <4>3. /\ k \in DOMAIN tokens /\ tokens[k].kind = "verify"
            /\ tokens[k].user = tx[d].issue.user /\ ~tokens[k].stale
        BY <1>2, <1>7, <4>1, <4>2
      <4>4. QED
        BY <2>2, <3>2, <4>1, <4>3 DEF IssueFits
    <3>4. RedeemFits(d)'
      BY <2>2, <3>1 DEF RedeemFits, R!Issues
    <3>5. QED
      BY <3>3, <3>4
  <2>3. CASE d # c /\ ~R!Issues(d)
    <3>1. tx'[d] = tx[d] /\ RedeemFits(d)
      BY <1>11, <2>3 DEF MailInv, LinkPart, TxFits
    <3>2. IssueFits(d)'
      BY <2>3, <3>1 DEF IssueFits, R!Issues
    <3>3. RedeemFits(d)'
      <4>1. SUFFICES ASSUME tx[d].pc \in {"account", "redeem"}
                     PROVE  RedeemFits(d)'
        BY <3>1 DEF RedeemFits
      <4>2. tx[d].token \in 1 .. n /\ tx[d].token \in DOMAIN tokens'
        BY <1>2, <1>6, <1>15, <2>3, <4>1
      <4>3. /\ tokens'[tx[d].token].kind = tokens[tx[d].token].kind
            /\ tokens'[tx[d].token].user = tokens[tx[d].token].user
            /\ tokens'[tx[d].token].email = tokens[tx[d].token].email
            /\ accounts'[tokens[tx[d].token].user].email = accounts[tokens[tx[d].token].user].email
        BY <1>7, <1>13, <4>2
      <4>4. QED
        BY <1>11, <3>1, <4>1, <4>2, <4>3 DEF RedeemFits, R!Arrived
    <3>4. QED
      BY <3>2, <3>3
  <2>4. QED
    BY <2>1, <2>2, <2>3
<1>20. OneGoodVerifyLink'
  <2>1. ASSUME NEW k \in 1 .. n, tokens'[k].kind = "verify", tokens'[k].user = u,
  ~tokens'[k].stale,
               link.kind = "verify"
        PROVE  FALSE
    <3>1. issue.op \in {"register", "resend"}
      BY <1>1, <1>8, <2>1
    <3>2. issue.op # "register"
      BY <1>7, <1>13, <2>1
    <3>3. k \in issue.old
      BY <1>7, <1>a, <2>1, <3>1, <3>2
    <3>4. QED
      BY <1>7, <2>1, <3>3
  <2>2. ASSUME NEW j \in 1 .. n, NEW k \in 1 .. n,
               tokens'[j].kind = "verify", tokens'[k].kind = "verify",
               tokens'[j].user = tokens'[k].user, ~tokens'[j].stale, ~tokens'[k].stale
        PROVE  j = k
    BY <1>2, <1>7, <2>2 DEF MailInv, LinkPart, OneGoodVerifyLink
  <2>3. \A k \in DOMAIN tokens' : k \in 1 .. n \/ k = n + 1
    BY <1>2, <1>6
  <2>4. QED
    BY <1>6, <1>8, <2>1, <2>2, <2>3 DEF OneGoodVerifyLink
<1>21. R!VerifiedMeansProven'
  <2>1. ASSUME NEW v \in Users, accounts'[v].verified
        PROVE  <<v, accounts'[v].email>> \in proven
    <3>1. <<v, accounts[v].email>> \in proven
      BY <1>9, <2>1 DEF MailInv, LinkPart, R!VerifiedMeansProven
    <3>2. accounts[v].email # NoAddress
      BY <1>1, <3>1, MailAssumption DEF R!TypeOK
    <3>3. accounts'[v] = accounts[v]
      BY <1>9, <1>a, <3>2
    <3>4. QED
      BY <3>1, <3>3
  <2>2. QED
    BY <1>11, <2>1 DEF R!VerifiedMeansProven
<1>22. MailsFit'
  BY <1>2, <1>6, <1>7, <1>11 DEF MailInv, MailsFit
<1>23. JobsFit'
  BY <1>2, <1>10, <1>11, MailAssumption DEF MailInv, JobsFit
<1>24. LimitPart'
  <2>1. Cardinality(recent') = Cardinality(recent) + 1 /\ Cardinality(recent) \in Nat
    <3>1. n + 1 \notin recent
      BY <1>2
    <3>2. IsFiniteSet(recent) /\ Cardinality(recent) \in Nat
      BY <1>1, MailTables
    <3>3. QED
      BY <1>11, <3>1, <3>2, FS_AddElement
  <2>2. Cardinality(Inserting') = Cardinality(Inserting) - 1
    <3>1. Inserting' = Inserting \ {c} /\ c \in Inserting
      BY <1>1, <1>11 DEF Inserting
    <3>2. QED
      BY <3>1, InsertingIsFinite, FS_RemoveElement
  <2>3. QED
    BY <2>1, <2>2, InsertingIsFinite, MailAssumption DEF MailInv, LimitPart
<1>25. QED
  BY <1>12, <1>14, <1>17, <1>19, <1>20, <1>21, <1>22, <1>23, <1>24
     DEF MailInv, LinkPart, TxFits

\* Whoever redeems a link verifies the account, and with it the address that the
\* link was mailed to or one that is proved already.
LEMMA RedeemKeeps ==
  ASSUME MailInv, NEW c \in Clients, tx[c].pc = "redeem", NEW old, NEW e,
         tx[c].token \in old,
         accounts' \in [Users -> R!Account],
         accounts'[tokens[tx[c].token].user].email = e,
         \A v \in Users \ {tokens[tx[c].token].user} : accounts'[v] = accounts[v],
         tokens' = R!Spent(old), R!Proves(c), tx' = [tx EXCEPT ![c] = R!Idle],
         UNCHANGED <<jobs, recent, worker, claims, accepted>>,
         \/ /\ tokens[tx[c].token].kind = "verify"
            /\ e = accounts[tokens[tx[c].token].user].email
         \/ /\ tokens[tx[c].token].kind = "change" /\ e = tokens[tx[c].token].email
            /\ \A j \in DOMAIN tokens :
                 tokens[j].kind = "verify" /\ tokens[j].user = tokens[tx[c].token].user
                   /\ ~tokens[j].stale => j \in old
  PROVE  MailInv'
<1> DEFINE k == tx[c].token
           u == tokens[k].user
<1>1. /\ R!TypeOK /\ RedeemFits(c) /\ k \in DOMAIN tokens /\ u \in Users
      /\ tokens[k].email \in Mailboxes /\ accounts[u].email # NoAddress
      /\ DOMAIN tokens = 1 .. Len(tokens)
  <2>1. R!TypeOK /\ RedeemFits(c)
    BY DEF MailInv, LinkPart, TxFits
  <2>2. k \in DOMAIN tokens
    BY <2>1 DEF RedeemFits
  <2>3. QED
    BY <2>1, <2>2, MailTables, LinkedIsRegistered
<1>2. /\ tokens' \in Seq(R!Token) /\ Len(tokens') = Len(tokens) /\ DOMAIN tokens' = DOMAIN tokens
      /\ \A j \in DOMAIN tokens :
           /\ tokens'[j].kind = tokens[j].kind /\ tokens'[j].user = tokens[j].user
           /\ tokens'[j].email = tokens[j].email
           /\ tokens'[j].stale <=> tokens[j].stale \/ j \in old
  BY <1>1, SpentIs
<1>3. /\ tx' \in [Clients -> R!Tx] /\ tx'[c].pc = "idle"
      /\ \A d \in Clients \ {c} : tx'[d] = tx[d]
  BY <1>1 DEF R!TypeOK, R!Tx, R!Idle
<1>4. PICK mail \in accepted : mail.token = k
  BY <1>1 DEF RedeemFits, R!Arrived
<1>5. mail.to = tokens[k].email /\ mail \in R!Arrived(k)
  BY <1>4 DEF MailInv, MailsFit, R!Arrived
<1>6. proven' = proven \cup {<<u, m.to>> : m \in R!Arrived(k)}
  BY DEF R!Proves
<1>7. proven \subseteq proven' /\ <<u, tokens[k].email>> \in proven'
  BY <1>5, <1>6
<1>8. proven' \subseteq Users \X Mailboxes
  <2>1. \A m \in R!Arrived(k) : m.to \in Mailboxes
    BY <1>1 DEF R!TypeOK, R!Mail, R!Arrived
  <2>2. QED
    BY <1>1, <1>6, <2>1 DEF R!TypeOK
<1>9. e # NoAddress /\ <<u, e>> \in proven'
  <2>1. CASE tokens[k].kind = "verify" /\ e = accounts[u].email
    BY <1>1, <1>7, <2>1 DEF RedeemFits
  <2>2. CASE e = tokens[k].email
    BY <1>1, <1>7, <2>2, MailAssumption
  <2>3. QED
    BY <2>1, <2>2
<1> HIDE DEF k, u
<1>e. accounts'[u].email = e /\ \A v \in Users \ {u} : accounts'[v] = accounts[v]
  BY DEF k, u
<1>10. R!TypeOK'
  BY <1>1, <1>2, <1>3, <1>8 DEF R!TypeOK
<1>11. TokensFit'
  <2>1. SUFFICES ASSUME NEW j \in DOMAIN tokens PROVE TokenFits(j)'
    BY <1>2 DEF TokensFit
  <2>2. TokenFits(j) /\ tokens[j].user \in Users
    BY <1>1, MailTables DEF MailInv, LinkPart, TokensFit
  <2>3. CASE tokens[j].user = u
    <3>1. tokens[j].kind = "verify" /\ ~tokens[j].stale /\ j \notin old => e = accounts[u].email
      BY <2>3 DEF k, u
    <3>2. QED
      BY <1>2, <1>9, <1>e, <2>2, <2>3, <3>1 DEF TokenFits
  <2>4. CASE tokens[j].user # u
    <3>1. accounts'[tokens[j].user] = accounts[tokens[j].user]
      BY <1>e, <2>2, <2>4
    <3>2. QED
      BY <1>2, <2>2, <3>1 DEF TokenFits
  <2>5. QED
    BY <2>3, <2>4
<1>12. \A d \in Clients : tx[d].pc \in {"account", "redeem"} => tx[d].token \in DOMAIN tokens
  BY DEF MailInv, LinkPart, TxFits, RedeemFits
<1>13. \A d \in Clients, v \in Users : R!HoldsUser(d, v)' => d # c /\ R!HoldsUser(d, v)
  BY <1>2, <1>3, <1>12 DEF R!HoldsUser, R!Issues
<1>14. OneHoldsUser'
  BY <1>13 DEF MailInv, LinkPart, TxFits, OneHoldsUser
<1>15. ASSUME NEW d \in Clients \ {c}, R!Issues(d)
       PROVE  tx[d].issue.user \in Users /\ tx[d].issue.user # u
  <2>1. R!HoldsUser(c, u) /\ R!HoldsUser(d, tx[d].issue.user)
    BY <1>15 DEF R!HoldsUser, u, k
  <2>2. tx[d].issue.user \in Users
    BY <1>1, <1>15, TxShapes
  <2>3. QED
    BY <1>1, <2>1, <2>2 DEF MailInv, LinkPart, TxFits, OneHoldsUser
<1>16. ASSUME NEW d \in Clients PROVE IssueFits(d)' /\ RedeemFits(d)'
  <2>1. CASE d = c
    BY <1>3, <2>1 DEF IssueFits, RedeemFits, R!Issues
  <2>2. CASE d # c
    <3>1. tx'[d] = tx[d] /\ IssueFits(d) /\ RedeemFits(d)
      BY <1>3, <2>2 DEF MailInv, LinkPart, TxFits
    <3>2. IssueFits(d)'
      <4>1. SUFFICES ASSUME R!Issues(d) PROVE IssueFits(d)'
        BY <3>1 DEF IssueFits, R!Issues
      <4>2. accounts'[tx[d].issue.user] = accounts[tx[d].issue.user]
        BY <1>15, <1>e, <2>2, <4>1
      <4>3. QED
        BY <1>2, <3>1, <4>1, <4>2 DEF IssueFits, R!Issues
    <3>3. RedeemFits(d)'
      <4> DEFINE j == tx[d].token
                 v == tokens[j].user
      <4>1. SUFFICES ASSUME tx[d].pc \in {"account", "redeem"}
                     PROVE  /\ j \in DOMAIN tokens' /\ R!Arrived(j) # {}
                            /\ tokens'[j].kind = "verify" =>
                                 \/ accounts'[tokens'[j].user].email = tokens'[j].email
                                 \/ <<tokens'[j].user,
                                      accounts'[tokens'[j].user].email>> \in proven'
        BY <3>1 DEF RedeemFits, R!Arrived
      <4>2. /\ j \in DOMAIN tokens /\ R!Arrived(j) # {} /\ v \in Users
            /\ tokens[j].kind = "verify" =>
                 accounts[v].email = tokens[j].email \/ <<v, accounts[v].email>> \in proven
        BY <1>1, <3>1, <4>1, MailTables DEF RedeemFits
      <4>3. /\ tokens'[j].kind = tokens[j].kind /\ tokens'[j].user = v
            /\ tokens'[j].email = tokens[j].email
        BY <1>2, <4>2
      <4>4. CASE v = u
        BY <1>2, <1>9, <1>e, <4>2, <4>3, <4>4
      <4>5. CASE v # u
        BY <1>2, <1>7, <1>e, <4>2, <4>3, <4>5
      <4>6. QED
        BY <4>4, <4>5
    <3>4. QED
      BY <3>2, <3>3
  <2>3. QED
    BY <2>1, <2>2
<1>17. OneGoodVerifyLink'
  BY <1>2 DEF MailInv, LinkPart, OneGoodVerifyLink
<1>18. R!VerifiedMeansProven'
  <2>1. ASSUME NEW v \in Users, accounts'[v].verified
        PROVE  <<v, accounts'[v].email>> \in proven'
    <3>1. CASE v = u
      BY <1>9, <1>e, <3>1
    <3>2. CASE v # u
      BY <1>7, <1>e, <2>1, <3>2 DEF MailInv, LinkPart, R!VerifiedMeansProven
    <3>3. QED
      BY <3>1, <3>2
  <2>2. QED
    BY <2>1 DEF R!VerifiedMeansProven
<1>19. MailsFit' /\ JobsFit'
  BY <1>2 DEF MailInv, MailsFit, JobsFit
<1>20. LimitPart'
  <2>1. Inserting' \subseteq Inserting
    BY <1>3 DEF Inserting
  <2>2. QED
    BY <1>1, <2>1, LimitStays DEF MailInv
<1>21. QED
  BY <1>10, <1>11, <1>14, <1>16, <1>17, <1>18, <1>19, <1>20 DEF MailInv, LinkPart, TxFits

LEMMA VerifyEmailKeeps ==
  ASSUME MailInv, NEW c \in Clients, R!VerifyEmail(c)
  PROVE  MailInv'
<1> DEFINE k == tx[c].token
           u == tokens[k].user
           old == {k}
<1>1. tx[c].pc = "redeem" /\ tokens[k].kind = "verify"
  BY DEF R!VerifyEmail, R!Redeems
<1>2. u \in Users
  BY <1>1, MailTables DEF MailInv, LinkPart, TxFits, RedeemFits
<1>3. accounts \in [Users -> R!Account] /\ accounts' = [accounts EXCEPT ![u].verified = TRUE]
  BY DEF R!VerifyEmail, MailInv, R!TypeOK
<1>4. /\ accounts' \in [Users -> R!Account] /\ accounts'[u].email = accounts[u].email
      /\ \A v \in Users \ {u} : accounts'[v] = accounts[v]
  <2>1. accounts[u] \in R!Account
    BY <1>2, <1>3
  <2>2. /\ [accounts[u] EXCEPT !.verified = TRUE] \in R!Account
        /\ [accounts[u] EXCEPT !.verified = TRUE].email = accounts[u].email
    BY <2>1 DEF R!Account
  <2>3. QED
    BY <1>2, <1>3, <2>2
<1>5. /\ tokens' = R!Spent(old) /\ k \in old /\ R!Proves(c) /\ tx' = [tx EXCEPT ![c] = R!Idle]
      /\ UNCHANGED <<jobs, recent, worker, claims, accepted>>
  BY DEF R!VerifyEmail
<1> HIDE DEF old
<1>6. QED
  BY <1>1, <1>4, <1>5, RedeemKeeps

LEMMA MailedChangeKeeps ==
  ASSUME MailInv, NEW c \in Clients, R!ConfirmEmailChange(c)
  PROVE  MailInv'
<1> DEFINE k == tx[c].token
           u == tokens[k].user
           good == {j \in DOMAIN tokens :
                      tokens[j].kind = "verify" /\ tokens[j].user = u /\ ~tokens[j].stale}
<1>1. tx[c].pc = "redeem" /\ tokens[k].kind = "change"
  BY DEF R!ConfirmEmailChange, R!Redeems
<1>2. u \in Users /\ tokens[k].email \in Mailboxes
  BY <1>1, MailTables DEF MailInv, LinkPart, TxFits, RedeemFits
<1>3. /\ accounts \in [Users -> R!Account]
      /\ accounts' = [accounts EXCEPT ![u] = [email |-> tokens[k].email, verified |-> TRUE]]
  BY DEF R!ConfirmEmailChange, MailInv, R!TypeOK
<1>4. /\ accounts' \in [Users -> R!Account] /\ accounts'[u].email = tokens[k].email
      /\ \A v \in Users \ {u} : accounts'[v] = accounts[v]
  BY <1>2, <1>3 DEF R!Account
<1>5. /\ tokens' = R!Spent(good \cup {k}) /\ R!Proves(c) /\ tx' = [tx EXCEPT ![c] = R!Idle]
      /\ UNCHANGED <<jobs, recent, worker, claims, accepted>>
  BY DEF R!ConfirmEmailChange
<1>6. \A j \in DOMAIN tokens :
        tokens[j].kind = "verify" /\ tokens[j].user = u /\ ~tokens[j].stale => j \in good \cup {k}
  OBVIOUS
<1> HIDE DEF good
<1>7. QED
  BY <1>1, <1>4, <1>5, <1>6, RedeemKeeps

-----------------------------------------------------------------------------
(* Steps of the worker, and time.                                          *)

LEMMA WorkerKeeps ==
  ASSUME MailInv, UNCHANGED <<accounts, tokens, recent, tx, proven>>,
         jobs' \in Seq(R!Job), Len(jobs') = Len(jobs), worker' \in R!Worker,
         claims' \in 0 .. MaxClaims, accepted \subseteq accepted', accepted' \subseteq R!Mail,
         MailsFit', JobsFit'
  PROVE  MailInv'
<1>1. R!TypeOK'
  BY DEF MailInv, R!TypeOK
<1>2. \A c \in Clients : IssueFits(c)' /\ RedeemFits(c)'
  BY DEF MailInv, LinkPart, TxFits, IssueFits, RedeemFits, R!Issues, R!Arrived
<1>3. OneHoldsUser' /\ TokensFit' /\ OneGoodVerifyLink' /\ R!VerifiedMeansProven'
  BY DEF MailInv, LinkPart, TxFits, OneHoldsUser, TokensFit, TokenFits, OneGoodVerifyLink,
         R!VerifiedMeansProven, R!HoldsUser, R!Issues
<1>4. LimitPart'
  BY DEF MailInv, LimitPart, Inserting
<1>5. QED
  BY <1>1, <1>2, <1>3, <1>4 DEF MailInv, LinkPart, TxFits

\* One job row is written.
LEMMA JobWritten ==
  ASSUME MailInv, NEW k \in DOMAIN jobs, NEW job \in R!Job, jobs' = [jobs EXCEPT ![k] = job]
  PROVE  /\ jobs' \in Seq(R!Job) /\ Len(jobs') = Len(jobs) /\ DOMAIN jobs' = DOMAIN jobs
         /\ jobs'[k] = job /\ \A j \in DOMAIN jobs \ {k} : jobs'[j] = jobs[j]
<1>1. /\ jobs \in Seq(R!Job) /\ DOMAIN jobs = 1 .. Len(jobs) /\ Len(jobs) \in Nat
      /\ jobs \in [1 .. Len(jobs) -> R!Job]
  BY LenProperties DEF MailInv, R!TypeOK
<1>2. jobs' \in [1 .. Len(jobs) -> R!Job]
  BY <1>1
<1>3. jobs' \in Seq(R!Job) /\ Len(jobs') = Len(jobs) /\ DOMAIN jobs' = 1 .. Len(jobs)
  BY <1>1, <1>2, AsSeq
<1>4. QED
  BY <1>1, <1>3

\* A step of the worker that hands nothing to the provider.
LEMMA WorkerMoves ==
  ASSUME MailInv, NEW next \in R!Worker, NEW rows, R!Busy(next, rows),
         UNCHANGED accepted, claims' \in 0 .. MaxClaims,
         next.pc # "idle" => next.job \in DOMAIN jobs,
         \/ rows = jobs
         \/ \E k \in DOMAIN jobs, job \in R!Job :
              /\ rows = [jobs EXCEPT ![k] = job]
              /\ job.status = "pending" => job.tries < MaxTries
  PROVE  MailInv'
<1>1. /\ jobs' \in Seq(R!Job) /\ Len(jobs') = Len(jobs) /\ DOMAIN jobs' = DOMAIN jobs
      /\ \A k \in DOMAIN jobs : jobs'[k].status = "pending" => jobs'[k].tries < MaxTries
  <2>1. CASE rows = jobs
    BY <2>1 DEF R!Busy, MailInv, R!TypeOK, JobsFit
  <2>2. ASSUME NEW k \in DOMAIN jobs, NEW job \in R!Job, rows = [jobs EXCEPT ![k] = job],
               job.status = "pending" => job.tries < MaxTries
        PROVE  /\ jobs' \in Seq(R!Job) /\ Len(jobs') = Len(jobs) /\ DOMAIN jobs' = DOMAIN jobs
               /\ \A j \in DOMAIN jobs : jobs'[j].status = "pending" => jobs'[j].tries < MaxTries
    <3>1. jobs' = [jobs EXCEPT ![k] = job]
      BY <2>2 DEF R!Busy
    <3>2. /\ jobs' \in Seq(R!Job) /\ Len(jobs') = Len(jobs) /\ DOMAIN jobs' = DOMAIN jobs
          /\ jobs'[k] = job /\ \A j \in DOMAIN jobs \ {k} : jobs'[j] = jobs[j]
      BY <3>1, JobWritten
    <3>3. QED
      BY <2>2, <3>2 DEF MailInv, JobsFit
  <2>3. QED
    BY <2>1, <2>2
<1>2. JobsFit' /\ worker' \in R!Worker
  BY <1>1 DEF JobsFit, R!Busy
<1>3. MailsFit' /\ UNCHANGED <<accounts, tokens, recent, tx, proven>>
  BY DEF R!Busy, MailInv, MailsFit
<1>4. accepted' \subseteq R!Mail
  BY DEF MailInv, R!TypeOK
<1>5. QED
  BY <1>1, <1>2, <1>3, <1>4, WorkerKeeps

LEMMA WorkerShapes ==
  ASSUME MailInv
  PROVE  /\ worker.pc # "idle" =>
              /\ worker.job \in DOMAIN jobs /\ worker.job \in DOMAIN tokens
              /\ \A pc \in {"load", "send", "mark", "fail"} :
                   [worker EXCEPT !.pc = pc] \in R!Worker
              /\ \A pc \in {"load", "send", "mark", "fail"} :
                   [worker EXCEPT !.pc = pc].job = worker.job
         /\ R!Idle \in R!Worker /\ R!Idle.pc = "idle"
         /\ claims \in 0 .. MaxClaims /\ DOMAIN jobs = DOMAIN tokens
<1>1. worker \in R!Worker /\ DOMAIN jobs = DOMAIN tokens /\ claims \in 0 .. MaxClaims
  BY MailTables DEF MailInv, R!TypeOK
<1>2. worker.pc # "idle" =>
        worker \in [pc : {"load", "send", "mark", "fail"}, job : R!TokenIds]
  BY <1>1 DEF R!Worker
<1>3. worker.pc # "idle" => worker.job \in DOMAIN jobs
  BY DEF MailInv, JobsFit
<1>4. R!Idle \in R!Worker /\ R!Idle.pc = "idle"
  BY DEF R!Worker, R!Idle
<1>5. ASSUME worker.pc # "idle", NEW pc \in {"load", "send", "mark", "fail"}
      PROVE  [worker EXCEPT !.pc = pc] \in R!Worker /\ [worker EXCEPT !.pc = pc].job = worker.job
  BY <1>2, <1>5 DEF R!Worker
<1>6. QED
  BY <1>1, <1>3, <1>4, <1>5

LEMMA EndedIs ==
  ASSUME MailInv, NEW k \in DOMAIN jobs, NEW status \in {"succeeded", "dead"}
  PROVE  \E job \in R!Job :
           /\ R!Ended(k, status) = [jobs EXCEPT ![k] = job]
           /\ job.status = "pending" => job.tries < MaxTries
<1>1. jobs[k] \in R!Job
  BY MailTables DEF MailInv, R!TypeOK
<1> DEFINE job == [jobs[k] EXCEPT !.status = status, !.secret = FALSE]
<1>2. job \in R!Job /\ job.status # "pending"
  BY <1>1 DEF R!Job
<1>3. R!Ended(k, status) = [jobs EXCEPT ![k] = job]
  BY <1>1 DEF R!Ended, R!Job
<1>4. QED
  BY <1>2, <1>3

LEMMA ClaimMailKeeps ==
  ASSUME MailInv, NEW k \in DOMAIN tokens, R!ClaimMail(k)
  PROVE  MailInv'
<1> DEFINE next == [pc |-> "load", job |-> k]
           job == [jobs[k] EXCEPT !.status = "running", !.tries = @ + 1]
           rows == [jobs EXCEPT ![k].status = "running", ![k].tries = @ + 1]
<1>1. k \in DOMAIN jobs /\ jobs[k] \in R!Job /\ jobs[k].tries < MaxTries /\ k \in R!TokenIds
  BY MailTables DEF R!ClaimMail, MailInv, JobsFit
<1>2. job \in R!Job /\ job.status = "running"
  <2>1. jobs[k].tries + 1 \in 0 .. MaxTries
    BY <1>1, MailAssumption DEF R!Job
  <2>2. [jobs[k] EXCEPT !.status = "running"] \in R!Job
    BY <1>1 DEF R!Job
  <2>3. job = [[jobs[k] EXCEPT !.status = "running"] EXCEPT !.tries = jobs[k].tries + 1]
    BY <1>1 DEF R!Job
  <2>4. QED
    BY <2>1, <2>2, <2>3 DEF R!Job
<1>3. rows = [jobs EXCEPT ![k] = job]
  BY <1>1
<1>4. next \in R!Worker /\ next.job \in DOMAIN jobs
  BY <1>1 DEF R!Worker
<1>5. claims' \in 0 .. MaxClaims /\ UNCHANGED accepted /\ R!Busy(next, rows)
  BY MailAssumption DEF R!ClaimMail, MailInv, R!TypeOK
<1> HIDE DEF job, rows, next
<1>6. QED
  BY <1>1, <1>2, <1>3, <1>4, <1>5, WorkerMoves

LEMMA GetTokenForSendKeeps ==
  ASSUME MailInv, R!GetTokenForSend
  PROVE  MailInv'
<1> DEFINE k == worker.job
<1>1. worker.pc # "idle" /\ UNCHANGED <<claims, accepted>>
  BY DEF R!GetTokenForSend
<1>2. CASE \E pc \in {"fail", "send"} : R!Busy([worker EXCEPT !.pc = pc], jobs)
  BY <1>1, <1>2, WorkerShapes, WorkerMoves
<1>3. CASE R!Busy(R!Idle, R!Ended(k, "succeeded"))
  BY <1>1, <1>3, WorkerShapes, EndedIs, WorkerMoves
<1>4. QED
  BY <1>2, <1>3 DEF R!GetTokenForSend

LEMMA MarkKeeps ==
  ASSUME MailInv, R!Mark
  PROVE  MailInv'
<1>1. worker.pc # "idle" /\ UNCHANGED <<claims, accepted>>
  BY DEF R!Mark
<1>2. CASE R!Busy([worker EXCEPT !.pc = "fail"], jobs)
  BY <1>1, <1>2, WorkerShapes, WorkerMoves
<1>3. CASE R!Busy(R!Idle, R!Ended(worker.job, "succeeded"))
  BY <1>1, <1>3, WorkerShapes, EndedIs, WorkerMoves
<1>4. QED
  BY <1>2, <1>3 DEF R!Mark

LEMMA MarkFailedKeeps ==
  ASSUME MailInv, R!MarkFailed
  PROVE  MailInv'
<1> DEFINE k == worker.job
           job == [jobs[k] EXCEPT !.status = "pending"]
           rows == [jobs EXCEPT ![k].status = "pending"]
<1>1. worker.pc # "idle" /\ UNCHANGED <<claims, accepted>>
  BY DEF R!MarkFailed
<1>2. k \in DOMAIN jobs /\ jobs[k] \in R!Job
  BY <1>1, WorkerShapes, MailTables DEF MailInv
<1>3. CASE R!Busy(R!Idle, R!Ended(k, "dead"))
  BY <1>1, <1>2, <1>3, WorkerShapes, EndedIs, WorkerMoves
<1>4. CASE jobs[k].tries < MaxTries /\ R!Busy(R!Idle, rows)
  <2>1. job \in R!Job /\ job.tries < MaxTries
    BY <1>2, <1>4 DEF R!Job
  <2>2. rows = [jobs EXCEPT ![k] = job]
    BY <1>2
  <2> HIDE DEF job, rows, k
  <2>3. QED
    BY <1>1, <1>2, <1>4, <2>1, <2>2, WorkerShapes, WorkerMoves
<1>5. jobs[k].tries \in Int
  BY <1>2 DEF R!Job
<1>6. QED
  BY <1>3, <1>4, <1>5, MailAssumption DEF R!MarkFailed

LEMMA RetryAdminJobKeeps ==
  ASSUME MailInv, NEW k \in DOMAIN tokens, R!RetryAdminJob(k)
  PROVE  MailInv'
<1> DEFINE job == [jobs[k] EXCEPT !.status = "pending", !.tries = 0]
           rows == [jobs EXCEPT ![k].status = "pending", ![k].tries = 0]
<1>1. k \in DOMAIN jobs /\ jobs[k] \in R!Job /\ worker \in R!Worker
      /\ (worker.pc # "idle" => worker.job \in DOMAIN jobs)
  BY MailTables DEF R!RetryAdminJob, MailInv, R!TypeOK, JobsFit
<1>2. job \in R!Job /\ job.tries < MaxTries
  <2>1. 0 \in 0 .. MaxTries /\ 0 < MaxTries
    BY MailAssumption
  <2>2. QED
    BY <1>1, <2>1 DEF R!Job
<1>3. rows = [jobs EXCEPT ![k] = job]
  BY <1>1
<1>4. claims' \in 0 .. MaxClaims /\ UNCHANGED accepted /\ R!Busy(worker, rows)
  BY DEF R!RetryAdminJob, MailInv, R!TypeOK
<1> HIDE DEF job, rows
<1>5. QED
  BY <1>1, <1>2, <1>3, <1>4, WorkerMoves

LEMMA SendKeeps ==
  ASSUME MailInv, R!Send
  PROVE  MailInv'
<1> DEFINE k == worker.job
           mail == [token |-> k, key |-> R!IdempotencyKey(k), to |-> R!Recipient(k)]
<1>1. worker.pc # "idle" /\ UNCHANGED claims
  BY DEF R!Send
<1>2. k \in DOMAIN tokens /\ k \in R!TokenIds /\ tokens[k].email \in Mailboxes
  BY <1>1, WorkerShapes, MailTables DEF MailInv
<1>3. mail \in R!Mail /\ mail.token = k /\ mail.to = tokens[k].email /\ mail.key = <<k, 0>>
  BY <1>2, MailAssumption DEF R!Mail, R!IdempotencyKey, R!Recipient
<1>4. \E pc \in {"mark", "fail"} : R!Busy([worker EXCEPT !.pc = pc], jobs)
  BY DEF R!Send
<1>5. accepted' = accepted \/ accepted' = accepted \cup {mail}
  BY DEF R!Send
<1> HIDE DEF k, mail
<1>6. UNCHANGED <<accounts, tokens, jobs, recent, tx, proven>>
  BY <1>4 DEF R!Busy
<1>7. MailsFit' /\ accepted \subseteq accepted' /\ accepted' \subseteq R!Mail
  BY <1>2, <1>3, <1>5, <1>6 DEF MailInv, MailsFit, R!TypeOK
<1>8. worker' \in R!Worker /\ worker'.job \in DOMAIN jobs
  BY <1>1, <1>4, WorkerShapes DEF R!Busy
<1>9. JobsFit' /\ jobs' \in Seq(R!Job) /\ Len(jobs') = Len(jobs) /\ claims' \in 0 .. MaxClaims
  BY <1>1, <1>6, <1>8 DEF MailInv, JobsFit, R!TypeOK
<1>10. QED
  BY <1>6, <1>7, <1>8, <1>9, WorkerKeeps

LEMMA DayPassesKeeps ==
  ASSUME MailInv, NEW k \in DOMAIN tokens, R!DayPasses(k)
  PROVE  MailInv'
<1>1. /\ tokens' \in Seq(R!Token) /\ Len(tokens') = Len(tokens) /\ DOMAIN tokens' = DOMAIN tokens
      /\ \A j \in DOMAIN tokens :
           /\ tokens'[j].kind = tokens[j].kind /\ tokens'[j].user = tokens[j].user
           /\ tokens'[j].email = tokens[j].email
           /\ tokens'[j].stale <=> tokens[j].stale \/ j = k
  BY SpentIs DEF R!DayPasses, MailInv
<1>2. recent' \subseteq recent /\ UNCHANGED <<accounts, jobs, tx, worker, claims, accepted,
                                        proven>>
  BY DEF R!DayPasses
<1>3. R!TypeOK'
  BY <1>1, <1>2 DEF MailInv, R!TypeOK
<1>4. \A c \in Clients : tx[c].pc \in {"account", "redeem"} => tx[c].token \in DOMAIN tokens
  BY DEF MailInv, LinkPart, TxFits, RedeemFits
<1>5. \A c \in Clients : IssueFits(c)' /\ RedeemFits(c)'
  <2>1. SUFFICES ASSUME NEW c \in Clients PROVE IssueFits(c)' /\ RedeemFits(c)'
    OBVIOUS
  <2>2. IssueFits(c) /\ RedeemFits(c)
    BY DEF MailInv, LinkPart, TxFits
  <2>3. IssueFits(c)'
    BY <1>1, <1>2, <2>2 DEF IssueFits, R!Issues
  <2>4. RedeemFits(c)'
    BY <1>1, <1>2, <1>4, <2>2 DEF RedeemFits, R!Arrived
  <2>5. QED
    BY <2>3, <2>4
<1>6. \A c \in Clients, u \in Users : R!HoldsUser(c, u)' <=> R!HoldsUser(c, u)
  BY <1>1, <1>2, <1>4 DEF R!HoldsUser, R!Issues
<1>7. OneHoldsUser' /\ TokensFit' /\ OneGoodVerifyLink' /\ R!VerifiedMeansProven'
  <2>1. OneHoldsUser'
    BY <1>6 DEF MailInv, LinkPart, TxFits, OneHoldsUser
  <2>2. TokensFit' /\ OneGoodVerifyLink'
    BY <1>1, <1>2 DEF MailInv, LinkPart, TokensFit, TokenFits, OneGoodVerifyLink
  <2>3. R!VerifiedMeansProven'
    BY <1>2 DEF MailInv, LinkPart, R!VerifiedMeansProven
  <2>4. QED
    BY <2>1, <2>2, <2>3
<1>8. MailsFit' /\ JobsFit'
  BY <1>1, <1>2 DEF MailInv, MailsFit, JobsFit
<1>9. LimitPart'
  BY <1>2, LimitStays DEF MailInv, Inserting
<1>10. QED
  BY <1>3, <1>5, <1>7, <1>8, <1>9 DEF MailInv, LinkPart, TxFits

LEMMA MailNext ==
  ASSUME MailInv, R!Next \/ UNCHANGED mailVars
  PROVE  MailInv'
<1>1. CASE UNCHANGED mailVars
  <2>1. R!TypeOK' /\ MailsFit' /\ JobsFit' /\ LimitPart'
    BY <1>1 DEF mailVars, MailInv, R!TypeOK, MailsFit, JobsFit, LimitPart, Inserting
  <2>2. LinkPart'
    BY <1>1 DEF mailVars, MailInv, LinkPart, TokensFit, TokenFits, TxFits, OneHoldsUser,
        IssueFits,
         RedeemFits, OneGoodVerifyLink, R!VerifiedMeansProven, R!HoldsUser, R!Issues, R!Arrived
  <2>3. QED
    BY <2>1, <2>2 DEF MailInv
<1>2. ASSUME NEW c \in Clients, NEW u \in Users, NEW email \in Mailboxes,
             \/ R!Create(c, u, email) \/ R!RequestEmailChange(c, u, email)
             \/ R!RequestEmailVerification(c, u)
      PROVE  MailInv'
  BY <1>2, CreateKeeps, AskEmailChangeKeeps, RequestEmailVerificationKeeps
<1>3. ASSUME NEW c \in Clients, NEW u \in Users, R!RequestEmailVerification(c, u)
      PROVE  MailInv'
  BY <1>3, RequestEmailVerificationKeeps
<1>4. ASSUME NEW c \in Clients,
             \/ R!Supersede(c) \/ R!EnforceEmailDailyLimit(c) \/ R!InsertToken(c)
             \/ \E k \in DOMAIN tokens : R!LockToken(c, k)
             \/ R!LockAccount(c) \/ R!VerifyEmail(c) \/ R!ConfirmEmailChange(c) \/ R!Abort(c)
      PROVE  MailInv'
  BY <1>4, SupersedeKeeps, EnforceEmailDailyLimitKeeps, InsertTokenKeeps, LockTokenKeeps,
     LockAccountKeeps, VerifyEmailKeeps, MailedChangeKeeps, AbortKeeps
<1>5. ASSUME NEW k \in DOMAIN tokens, R!ClaimMail(k) \/ R!RetryAdminJob(k) \/ R!DayPasses(k)
      PROVE  MailInv'
  BY <1>5, ClaimMailKeeps, RetryAdminJobKeeps, DayPassesKeeps
<1>6. CASE R!GetTokenForSend \/ R!Send \/ R!Mark \/ R!MarkFailed
  BY <1>6, GetTokenForSendKeeps, SendKeeps, MarkKeeps, MarkFailedKeeps
<1>7. QED
  BY <1>1, <1>2, <1>3, <1>4, <1>5, <1>6 DEF R!Next

\* All mails of one link are the same request.
LEMMA OneMailPerLink ==
  ASSUME MailInv, NEW k \in DOMAIN tokens
  PROVE  Cardinality(R!Arrived(k)) <= 1
<1> DEFINE mail == [token |-> k, key |-> <<k, 0>>, to |-> tokens[k].email]
<1>1. R!Arrived(k) \subseteq {mail}
  BY DEF MailInv, MailsFit, R!TypeOK, R!Mail, R!Arrived
<1>2. IsFiniteSet({mail}) /\ Cardinality({mail}) = 1
  BY FS_Singleton
<1>3. QED
  BY <1>1, <1>2, FS_Subset

-----------------------------------------------------------------------------
(* Likes, comments and reports.                                            *)

\* The counters are the numbers of the rows.
Matching == counts.likes = Cardinality(likes) /\ counts.comments = Cardinality(C!Visible)

SocialInv ==
  /\ C!TypeOK
  /\ IsFiniteSet(likes) /\ IsFiniteSet(C!Visible)
  /\ Matching

-----------------------------------------------------------------------------
LEMMA SocialInitTypes ==
  ASSUME C!Init
  PROVE  C!TypeOK
  BY DEF C!Init, C!TypeOK, C!Comment, C!Writing, C!Report, C!Closed, C!NoRow

LEMMA SocialInit ==
  ASSUME C!Init
  PROVE  SocialInv
<1>1. likes = {} /\ C!Visible = {} /\ counts = [likes |-> 0, comments |-> 0]
  BY DEF C!Init, C!Visible, C!NoRow
<1>2. QED
  BY <1>1, SocialInitTypes, FS_EmptySet DEF SocialInv, Matching

\* Whoever leaves likes, comments and counts alone disturbs nothing but types.
LEMMA RestKeepsSocial ==
  ASSUME SocialInv, UNCHANGED <<likes, counts, comments>>, C!TypeOK'
  PROVE  SocialInv'
  BY DEF SocialInv, Matching, C!Visible

LEMMA CommentedTypes ==
  ASSUME SocialInv, NEW p \in Users, NEW parent \in Comments \cup {NoComment},
  C!CreateComment(p, parent)
  PROVE  C!TypeOK'
<1>1. [open |-> TRUE, parent |-> parent, commented |-> counts.comments] \in C!Writing
  BY DEF SocialInv, C!TypeOK, C!Writing
<1>2. writing' \in [Users -> C!Writing]
  BY <1>1 DEF SocialInv, C!TypeOK, C!CreateComment
<1>3. QED
  BY <1>2 DEF SocialInv, C!TypeOK, C!CreateComment

LEMMA AbandonedTypes ==
  ASSUME SocialInv, NEW p \in Users, C!AbandonComment(p)
  PROVE  C!TypeOK'
<1>1. C!Closed \in C!Writing
  BY DEF C!Closed, C!Writing
<1>2. QED
  BY <1>1 DEF SocialInv, C!TypeOK, C!AbandonComment

LEMMA ReportedTypes ==
  ASSUME SocialInv, NEW r \in Reports,
         \/ C!ReportContent(r)
         \/ \E p \in Users, status \in C!ReportStatus : C!ReviewReport(r, p, status)
  PROVE  C!TypeOK'
<1>1. reports[r] \in C!Report
  BY DEF SocialInv, C!TypeOK
<1>2. reports' \in [Reports -> C!Report]
  <2>1. CASE C!ReportContent(r)
    <3>1. [reports[r] EXCEPT !.status = "open"] \in C!Report
      BY <1>1 DEF C!Report, C!ReportStatus
    <3>2. QED
      BY <2>1, <3>1 DEF SocialInv, C!TypeOK, C!ReportContent
  <2>2. ASSUME NEW p \in Users, NEW status \in C!ReportStatus, C!ReviewReport(r, p, status)
        PROVE  reports' \in [Reports -> C!Report]
    <3>1. [status |-> status,
           resolvedBy |-> IF status \in {"resolved", "rejected"}
                           THEN p ELSE Unresolved] \in C!Report
      BY DEF C!Report
    <3>2. QED
      BY <2>2, <3>1 DEF SocialInv, C!TypeOK, C!ReviewReport
  <2>3. QED
    BY <2>1, <2>2
<1>3. QED
  BY <1>2 DEF SocialInv, C!TypeOK, C!ReportContent, C!ReviewReport

-----------------------------------------------------------------------------
LEMMA LikeKeepsSocial ==
  ASSUME SocialInv, NEW p \in Users, C!Like(p)
  PROVE  SocialInv'
<1>1. IsFiniteSet(likes')
      /\ Cardinality(likes') = IF p \in likes THEN Cardinality(likes) ELSE Cardinality(likes) + 1
  BY FS_AddElement DEF SocialInv, C!Like
<1>2. counts \in [likes : Nat, comments : Nat] /\ C!Visible' = C!Visible
  BY DEF SocialInv, C!TypeOK, C!Like, C!Visible
<1>3. counts' \in [likes : Nat, comments : Nat] /\ counts'.comments = counts.comments
      /\ counts'.likes = Cardinality(likes')
  BY <1>1, <1>2 DEF SocialInv, Matching, C!Like
<1>4. C!TypeOK'
  BY <1>3 DEF SocialInv, C!TypeOK, C!Like
<1>5. QED
  BY <1>1, <1>2, <1>3, <1>4 DEF SocialInv, Matching

LEMMA UnlikeKeepsSocial ==
  ASSUME SocialInv, NEW p \in Users, C!Unlike(p)
  PROVE  SocialInv'
<1>1. IsFiniteSet(likes')
      /\ Cardinality(likes') = IF p \in likes THEN Cardinality(likes) - 1 ELSE Cardinality(likes)
  BY FS_RemoveElement DEF SocialInv, C!Unlike
<1>2. counts \in [likes : Nat, comments : Nat] /\ C!Visible' = C!Visible
  BY DEF SocialInv, C!TypeOK, C!Unlike, C!Visible
<1>3. p \in likes => counts.likes # 0
  BY <1>2, FS_EmptySet DEF SocialInv, Matching
<1>4. counts' \in [likes : Nat, comments : Nat] /\ counts'.comments = counts.comments
      /\ counts'.likes = Cardinality(likes')
  BY <1>1, <1>2, <1>3 DEF SocialInv, Matching, C!Unlike, C!Decreased
<1>5. C!TypeOK'
  BY <1>4 DEF SocialInv, C!TypeOK, C!Unlike
<1>6. QED
  BY <1>1, <1>2, <1>4, <1>5 DEF SocialInv, Matching

LEMMA CommitKeepsSocial ==
  ASSUME SocialInv, NEW p \in Users, NEW c \in Comments, C!CommitComment(p, c)
  PROVE  SocialInv'
<1>1. /\ counts \in [likes : Nat, comments : Nat] /\ comments \in [Comments -> C!Comment]
      /\ writing \in [Users -> C!Writing]
  BY DEF SocialInv, C!TypeOK
<1>2. [status |-> "visible", parent |-> writing[p].parent] \in C!Comment
  BY <1>1 DEF C!Writing, C!Comment
<1>3. comments' \in [Comments -> C!Comment]
  BY <1>1, <1>2 DEF C!CommitComment
<1>4. C!Visible' = C!Visible \cup {c} /\ c \notin C!Visible
  BY <1>1 DEF C!CommitComment, C!Visible
<1>5. IsFiniteSet(C!Visible') /\ Cardinality(C!Visible') = Cardinality(C!Visible) + 1
  BY <1>4, FS_AddElement DEF SocialInv
<1>6. counts' \in [likes : Nat, comments : Nat] /\ counts'.likes = counts.likes
      /\ counts'.comments = Cardinality(C!Visible')
  BY <1>1, <1>5 DEF SocialInv, Matching, C!CommitComment, C!Counted
<1>7. C!Closed \in C!Writing
  BY DEF C!Closed, C!Writing
<1>8. C!TypeOK'
  BY <1>3, <1>6, <1>7 DEF SocialInv, C!TypeOK, C!CommitComment
<1>9. QED
  BY <1>5, <1>6, <1>8 DEF SocialInv, Matching, C!CommitComment

\* An approval finds no comment to start from, so a review hides.
LEMMA ReviewKeepsSocial ==
  ASSUME SocialInv, NEW c \in Comments, NEW status \in {"visible", "hidden"},
  C!ReviewComment(c, status)
  PROVE  SocialInv'
<1>1. counts \in [likes : Nat, comments : Nat] /\ comments \in [Comments -> C!Comment]
  BY DEF SocialInv, C!TypeOK
<1>2. comments[c] \in C!Comment
  BY <1>1
<1>3. status = "hidden" /\ comments[c].status = "visible"
  BY <1>2 DEF C!ReviewComment, C!AllowedStatuses, C!Comment
<1>4. [comments[c] EXCEPT !.status = status] \in C!Comment
  BY <1>2, <1>3 DEF C!Comment
<1>5. comments' \in [Comments -> C!Comment]
  BY <1>1, <1>4 DEF C!ReviewComment
<1>6. C!Visible' = C!Visible \ {c} /\ c \in C!Visible
  BY <1>1, <1>2, <1>3 DEF C!ReviewComment, C!Visible, C!Comment
<1>7. IsFiniteSet(C!Visible') /\ Cardinality(C!Visible') = Cardinality(C!Visible) - 1
  BY <1>6, FS_RemoveElement DEF SocialInv
<1>8. counts.comments # 0
  BY <1>6, FS_EmptySet DEF SocialInv, Matching
<1>9. counts' \in [likes : Nat, comments : Nat] /\ counts'.likes = counts.likes
      /\ counts'.comments = Cardinality(C!Visible')
  BY <1>1, <1>3, <1>7, <1>8 DEF SocialInv, Matching, C!ReviewComment, C!Decreased
<1>10. C!TypeOK'
  BY <1>5, <1>9 DEF SocialInv, C!TypeOK, C!ReviewComment
<1>11. QED
  BY <1>7, <1>9, <1>10 DEF SocialInv, Matching, C!ReviewComment

LEMMA SocialNext ==
  ASSUME SocialInv, C!Next \/ UNCHANGED socialVars
  PROVE  SocialInv'
<1>1. CASE UNCHANGED socialVars
  BY <1>1 DEF socialVars, SocialInv, C!TypeOK, Matching, C!Visible
<1>2. ASSUME NEW p \in Users, C!Like(p) \/ C!Unlike(p) \/ C!AbandonComment(p)
      PROVE  SocialInv'
  <2>1. CASE C!AbandonComment(p)
    BY <2>1, AbandonedTypes, RestKeepsSocial DEF C!AbandonComment
  <2>2. QED
    BY <1>2, <2>1, LikeKeepsSocial, UnlikeKeepsSocial
<1>3. ASSUME NEW p \in Users, NEW parent \in Comments \cup {NoComment},
             C!CreateComment(p, parent)
      PROVE  SocialInv'
  BY <1>3, CommentedTypes, RestKeepsSocial DEF C!CreateComment
<1>4. ASSUME NEW r \in Reports,
             \/ C!ReportContent(r)
             \/ \E p \in Users, status \in C!ReportStatus : C!ReviewReport(r, p, status)
      PROVE  SocialInv'
  BY <1>4, ReportedTypes, RestKeepsSocial DEF C!ReportContent, C!ReviewReport
<1>5. CASE C!ItemMoves
  <2>1. C!TypeOK'
    BY <1>5 DEF SocialInv, C!TypeOK, C!ItemMoves
  <2>2. QED
    BY <1>5, <2>1, RestKeepsSocial DEF C!ItemMoves
<1>6. QED
  BY <1>1, <1>2, <1>3, <1>4, <1>5, CommitKeepsSocial, ReviewKeepsSocial DEF C!Next

-----------------------------------------------------------------------------
(* The system that TLC runs.                                               *)

accountsVars == <<part, vars, mailVars, socialVars>>

\* Sessions take steps for ever or never.
LEMMA SessionsTakeTurns == AccountsSpec => [](part = "sessions" => TypeOK)
<1> DEFINE P == part = "sessions"
<1>1. AccountsInit /\ P => Init
  BY DEF AccountsInit
<1>2. [AccountsNext]_accountsVars /\ P => [Next]_vars
  BY DEF AccountsNext, accountsVars
<1>3. [AccountsNext]_accountsVars => (P' <=> P)
  BY DEF AccountsNext, accountsVars
<1> HIDE DEF P
<1>4. AccountsSpec /\ P => Spec
  BY <1>1, <1>2, <1>3, PTL DEF AccountsSpec, accountsVars, Spec
<1>5. AccountsSpec /\ ~P => []~P
  BY <1>3, PTL DEF AccountsSpec, accountsVars
<1>6. AccountsSpec => [](P => TypeOK)
  BY <1>4, <1>5, TypeCorrect, PTL
<1>7. QED
  BY <1>6 DEF P

LEMMA AccountsKeepMails == AccountsSpec => []MailInv
<1>1. AccountsInit => MailInv
  BY MailInit DEF AccountsInit
<1>2. MailInv /\ [AccountsNext]_accountsVars => MailInv'
  BY MailNext DEF AccountsNext, accountsVars
<1>3. QED
  BY <1>1, <1>2, PTL DEF AccountsSpec, accountsVars

LEMMA AccountsKeepSocial == AccountsSpec => []SocialInv
<1>1. AccountsInit => SocialInv
  BY SocialInit DEF AccountsInit
<1>2. SocialInv /\ [AccountsNext]_accountsVars => SocialInv'
  BY SocialNext DEF AccountsNext, accountsVars
<1>3. QED
  BY <1>1, <1>2, PTL DEF AccountsSpec, accountsVars

\* Every variable of the three parts has its type, whatever fails.
THEOREM AccountsAreTyped == AccountsSpec => []Typed
<1>1. (part = "sessions" => TypeOK) /\ MailInv /\ SocialInv => Typed
  BY DEF Typed, MailInv, SocialInv
<1>2. QED
  BY <1>1, SessionsTakeTurns, AccountsKeepMails, AccountsKeepSocial, PTL

\* An address counts as verified only if its account has opened a link mailed to
\* it, for every number of accounts, requests, links and mails: no change of the
\* address slips in between the link that was looked at and the account.
THEOREM VerifiedIsProven == AccountsSpec => []VerifiedMeansProven
<1>1. MailInv => VerifiedMeansProven
  BY DEF MailInv, LinkPart, VerifiedMeansProven
<1>2. QED
  BY <1>1, AccountsKeepMails, PTL

\* However often a mail job is executed its link is mailed once, and however many
\* requests overlap one link at a time verifies an account.
THEOREM LinksStaySingle == AccountsSpec => []LinksAreSingle
<1>1. MailInv => LinksAreSingle
  <2>1. MailInv => \A k \in DOMAIN tokens : R!Cardinality(R!Arrived(k)) <= 1
    BY OneMailPerLink DEF R!Cardinality, Cardinality
  <2>2. QED
    BY <2>1 DEF MailInv, LinkPart, OneGoodVerifyLink, LinksAreSingle, R!LinksAreSingle
<1>2. QED
  BY <1>1, AccountsKeepMails, PTL

\* The mails of a day pass their limit by fewer than there are transactions at a
\* time, whatever the limit: only those that have counted and not yet inserted can
\* add to it, and the first of them to count was below it.
THEOREM MailsStayWithinLimit == AccountsSpec => []MailsWithinLimit
<1>1. MailInv => MailsWithinLimit
  <2>1. SUFFICES ASSUME MailInv PROVE MailsWithinLimit
    OBVIOUS
  <2>2. Cardinality(recent) \in Nat /\ LimitPart
    BY <2>1, MailTables DEF MailInv
  <2>3. Cardinality(recent) <= DailyLimit + Cardinality(Clients) - 1
    BY <2>2, InsertingIsFinite, MailAssumption DEF LimitPart
  <2>4. R!MailsWithinLimit <=> Cardinality(recent) <= DailyLimit + Cardinality(Clients) - 1
    BY DEF R!MailsWithinLimit, R!Cardinality, Cardinality
  <2>5. QED
    BY <2>3, <2>4 DEF MailsWithinLimit
<1>2. QED
  BY <1>1, AccountsKeepMails, PTL

\* likes_count and comments_count are the numbers of rows, for every number of
\* accounts and comments and however likes, comments and reviews overlap.
THEOREM CountersAreExact == AccountsSpec => []CountersMatchRows
<1>1. SocialInv => CountersMatchRows
  BY DEF SocialInv, Matching, CountersMatchRows, C!CountersMatchRows, C!Cardinality, Cardinality
<1>2. QED
  BY <1>1, AccountsKeepSocial, PTL
=============================================================================
