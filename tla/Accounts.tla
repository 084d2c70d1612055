------------------------------ MODULE Accounts ------------------------------
(***************************************************************************)
(* Accounts, their sessions, and the administration of users.              *)
(*                                                                         *)
(* A handler reads the session or the account in one statement and writes  *)
(* in a later one; a transaction that changes an account first locks its   *)
(* row, and an insert that refers to an account waits for that lock.       *)
(*                                                                         *)
(* A pair of tokens is numbered by the rotations of its session; old ones  *)
(* may be presented again.  A password is named by the mailed link that    *)
(* set it.  Left out: expiry (a token nobody presents any more), the       *)
(* verification of an address, the daily limit of mails, and moderators,   *)
(* who have no part here.                                                  *)
(***************************************************************************)
EXTENDS Integers, Sequences, FiniteSets

CONSTANTS
  Users,         \* accounts
  Clients,       \* requests under way at the same time
  Addresses,     \* e-mail addresses
  MaxSessions,   \* bound: sessions ever opened
  MaxRotations,  \* bound: refreshes of a session
  MaxLinks,      \* bound: confirmation links ever mailed
  MaxRequests,   \* bound: requests
  FaultSets      \* the environments considered

ASSUME BoundsAssumption ==
  /\ MaxSessions \in Nat /\ MaxRotations \in Nat /\ MaxLinks \in Nat /\ MaxRequests \in Nat

ASSUME UsersAssumption ==
  /\ Users # {} /\ IsFiniteSet(Users) /\ IsFiniteSet(Addresses)
  /\ Cardinality(Users) <= Cardinality(Addresses)
  /\ "password" \notin Addresses

\* "overlap": a request arrives before the last one was answered.
ASSUME FaultSetsAssumption == FaultSets \subseteq SUBSET {"overlap"}

VARIABLES
  users,     \* users and user_roles
  sessions,  \* auth_sessions
  links,     \* password_change_tokens and email_change_tokens
  request,   \* where each request is, and what it holds
  spent,     \* history: the refresh tokens that have bought a new pair
  requests,  \* requests so far
  faults     \* chosen once, never changed

vars == <<users, sessions, links, request, spent, requests, faults>>

-----------------------------------------------------------------------------
\* The highest of a user's roles.
Role == {"user", "admin", "owner"}

\* The roles an administrator asks for; "none" is an empty list.
RoleInput == {"none", "admin", "owner"}

User == [email : Addresses, role : Role, banned : BOOLEAN, password : 0 .. MaxLinks]

\* password: the one the login proved.  late: history, the account was banned
\* or had another password when the row was inserted.
Session == [user : Users, pair : 0 .. MaxRotations, revoked : BOOLEAN,
            password : 0 .. MaxLinks, late : BOOLEAN]

Token == [session : 1 .. MaxSessions, pair : 0 .. MaxRotations]

\* email: where the mail of a password link went, or the new address.
Link == [kind : {"password", "email"}, user : Users, email : Addresses, used : BOOLEAN]

\* wants: "password", or the new address.  privileged: session.Roles has owner.
Request ==
  [pc : {"idle"}]
    \cup [pc : {"insert"}, user : Users, password : 0 .. MaxLinks]
    \cup [pc : {"rotate"}, token : Token]
    \cup [pc : {"verify", "submit"}, user : Users, wants : {"password"} \cup Addresses]
    \cup [pc : {"lock", "check", "commit"}, op : {"ban", "unban", "roles"},
          actor : Users, privileged : BOOLEAN, user : Users, role : RoleInput]

TypeOK ==
  /\ users \in [Users -> User]
  /\ sessions \in Seq(Session) /\ Len(sessions) <= MaxSessions
  /\ links \in Seq(Link) /\ Len(links) <= MaxLinks
  /\ request \in [Clients -> Request]
  /\ spent \subseteq Token
  /\ requests \in 0 .. MaxRequests
  /\ faults \in FaultSets

Idle == [pc |-> "idle"]

\* One account is the owner's; each has an address and no session.
Init ==
  /\ \E owner \in Users, e \in [Users -> Addresses] :
       /\ \A u, v \in Users : u # v => e[u] # e[v]
       /\ users = [u \in Users |-> [email    |-> e[u],
                                    role     |-> IF u = owner THEN "owner" ELSE "user",
                                    banned   |-> FALSE,
                                    password |-> 0]]
  /\ sessions = << >>
  /\ links = << >>
  /\ request = [c \in Clients |-> Idle]
  /\ spent = {}
  /\ requests = 0
  /\ faults \in FaultSets

-----------------------------------------------------------------------------
(* Requests and row locks.                                                 *)

Begins(c) ==
  /\ request[c] = Idle
  /\ "overlap" \notin faults => \A d \in Clients : request[d] = Idle
  /\ requests < MaxRequests
  /\ requests' = requests + 1

\* Refused, failed, timed out or disconnected: a transaction rolls back.
Abort(c) ==
  /\ request[c] # Idle
  /\ request' = [request EXCEPT ![c] = Idle]
  /\ UNCHANGED <<users, sessions, links, spent, requests, faults>>

Holds(c) == IF request[c].pc \in {"check", "commit"} THEN {request[c].user} ELSE {}

\* No other transaction holds the row of u FOR UPDATE.
Free(c, u) == \A d \in Clients \ {c} : u \notin Holds(d)

\* The tokens clients may present: every pair ever issued.
Issued ==
  {t \in Token : t.session \in DOMAIN sessions /\ t.pair <= sessions[t.session].pair}

\* The row still has this pair and is not revoked.
Live(t) == sessions[t.session].pair = t.pair /\ ~sessions[t.session].revoked

\* findSessionByTokenHash and the check of its caller.
Authenticated(t, u) ==
  /\ t \in Issued /\ Live(t)
  /\ sessions[t.session].user = u /\ ~users[u].banned

RevokeAll(u) ==
  sessions' = [s \in DOMAIN sessions |->
                 IF sessions[s].user = u THEN [sessions[s] EXCEPT !.revoked = TRUE]
                                         ELSE sessions[s]]

-----------------------------------------------------------------------------
(* Sessions.                                                               *)

\* The account is read and the password proved ...
Login(c, u) ==
  /\ Begins(c)
  /\ ~users[u].banned
  /\ request' = [request EXCEPT ![c] =
                   [pc |-> "insert", user |-> u, password |-> users[u].password]]
  /\ UNCHANGED <<users, sessions, links, spent, faults>>

\* ... and the insert looks at neither again; its foreign key waits for the row.
CreateSession(c) ==
  /\ request[c].pc = "insert"
  /\ Len(sessions) < MaxSessions
  /\ LET u == request[c].user
         password == request[c].password
     IN /\ Free(c, u)
        /\ sessions' = Append(sessions,
             [user |-> u, pair |-> 0, revoked |-> FALSE, password |-> password,
              late |-> users[u].banned \/ users[u].password # password])
  /\ request' = [request EXCEPT ![c] = Idle]
  /\ UNCHANGED <<users, links, spent, requests, faults>>

Refresh(c, t) ==
  /\ Begins(c)
  /\ \E u \in Users : Authenticated(t, u)
  /\ request' = [request EXCEPT ![c] = [pc |-> "rotate", token |-> t]]
  /\ UNCHANGED <<users, sessions, links, spent, faults>>

\* Mutant: without refresh_token_hash = $2.
RotatesLiveRow(t) ==
  /\ ~sessions[t.session].revoked
  /\ sessions[t.session].pair < MaxRotations

\* The WHERE of RotateSession; without a row the token is refused (Abort).
Rotates(t) == Live(t) /\ t.pair < MaxRotations

RotateSession(c) ==
  /\ request[c].pc = "rotate"
  /\ LET t == request[c].token
     IN /\ Rotates(t)
        /\ sessions' = [sessions EXCEPT ![t.session].pair = @ + 1]
        /\ spent' = spent \cup {t}
  /\ request' = [request EXCEPT ![c] = Idle]
  /\ UNCHANGED <<users, links, requests, faults>>

Logout(c, t) ==
  /\ Begins(c)
  /\ t \in Issued /\ Live(t)
  /\ sessions' = [sessions EXCEPT ![t.session].revoked = TRUE]
  /\ UNCHANGED <<users, links, request, spent, faults>>

-----------------------------------------------------------------------------
(* The password and the address: asked for in a session, confirmed by mail. *)

\* ChangePassword and ChangeEmail: RequireBearer ...
Change(c, t, u, wants) ==
  /\ Begins(c)
  /\ Authenticated(t, u)
  /\ wants # users[u].email
  /\ request' = [request EXCEPT ![c] = [pc |-> "verify", user |-> u, wants |-> wants]]
  /\ UNCHANGED <<users, sessions, links, spent, faults>>

\* ... the current password ...
GetPasswordHash(c) ==
  /\ request[c].pc = "verify"
  /\ ~users[request[c].user].banned
  /\ request' = [request EXCEPT ![c].pc = "submit"]
  /\ UNCHANGED <<users, sessions, links, spent, requests, faults>>

\* Mutant: the links mailed before stay good.
MailedAgain(old, link) ==
  /\ Len(links) < MaxLinks
  /\ links' = Append(links, link)

\* The old links expire, the new one is mailed.
Mailed(old, link) ==
  /\ Len(links) < MaxLinks
  /\ links' = Append([k \in DOMAIN links |->
                        IF k \in old THEN [links[k] EXCEPT !.used = TRUE] ELSE links[k]], link)

\* ... and the transaction, which locks the account.
RequestPasswordChange(c) ==
  /\ request[c].pc = "submit" /\ request[c].wants = "password"
  /\ LET u == request[c].user
     IN /\ Free(c, u)
        /\ ~users[u].banned
        /\ Mailed({k \in DOMAIN links : links[k].kind = "password" /\ links[k].user = u},
                  [kind |-> "password", user |-> u, email |-> users[u].email, used |-> FALSE])
  /\ request' = [request EXCEPT ![c] = Idle]
  /\ UNCHANGED <<users, sessions, spent, requests, faults>>

Taken(email, u) == \E v \in Users \ {u} : users[v].email = email

RequestEmailChange(c) ==
  /\ request[c].pc = "submit" /\ request[c].wants # "password"
  /\ LET u == request[c].user
         email == request[c].wants
     IN /\ Free(c, u)
        /\ ~users[u].banned
        /\ ~Taken(email, u)
        /\ Mailed({k \in DOMAIN links :
                     links[k].kind = "email" /\ (links[k].user = u \/ links[k].email = email)},
                  [kind |-> "email", user |-> u, email |-> email, used |-> FALSE])
  /\ request' = [request EXCEPT ![c] = Idle]
  /\ UNCHANGED <<users, sessions, spent, requests, faults>>

\* What both confirmations ask of a link.
Confirmable(c, k, kind) ==
  /\ k \in DOMAIN links /\ links[k].kind = kind /\ ~links[k].used
  /\ ~users[links[k].user].banned
  /\ Free(c, links[k].user)

ConfirmPasswordChange(c, k) ==
  /\ Begins(c)
  /\ Confirmable(c, k, "password")
  /\ LET u == links[k].user
     IN /\ links[k].email = users[u].email
        /\ users' = [users EXCEPT ![u].password = k]
        /\ RevokeAll(u)
  /\ links' = [links EXCEPT ![k].used = TRUE]
  /\ UNCHANGED <<request, spent, faults>>

ConfirmEmailChange(c, k) ==
  /\ Begins(c)
  /\ Confirmable(c, k, "email")
  /\ LET u == links[k].user
     IN /\ ~Taken(links[k].email, u)
        /\ users' = [users EXCEPT ![u].email = links[k].email]
  /\ links' = [links EXCEPT ![k].used = TRUE]
  /\ UNCHANGED <<sessions, request, spent, faults>>

-----------------------------------------------------------------------------
(* Administration.                                                         *)

\* RequireBearer, RequireRole and what the handler refuses; the roles of the
\* actor are not read again.
Administer(c, t, actor, op, u, role) ==
  /\ Begins(c)
  /\ Authenticated(t, actor)
  /\ users[actor].role \in {"admin", "owner"}
  /\ op \in {"ban", "unban"} => u # actor /\ role = "none"
  /\ role = "owner" => users[actor].role = "owner"
  /\ request' = [request EXCEPT ![c] =
                   [pc |-> "lock", op |-> op, actor |-> actor,
                    privileged |-> users[actor].role = "owner", user |-> u, role |-> role]]
  /\ UNCHANGED <<users, sessions, links, spent, faults>>

\* Mutant: SELECT without FOR UPDATE.
LockUserNever(c) ==
  /\ request[c].pc = "lock"
  /\ request' = [request EXCEPT ![c].pc = "check"]
  /\ UNCHANGED <<users, sessions, links, spent, requests, faults>>

\* loadAdminUserForUpdate.
LockUser(c) ==
  /\ request[c].pc = "lock"
  /\ Free(c, request[c].user)
  /\ request' = [request EXCEPT ![c].pc = "check"]
  /\ UNCHANGED <<users, sessions, links, spent, requests, faults>>

ActiveOwners == {u \in Users : users[u].role = "owner" /\ ~users[u].banned}

\* Mutant: the owners are not counted.
PermittedUncounted(r) ==
  LET owner == users[r.user].role = "owner"
  IN /\ r.op = "ban" => ~owner
     /\ r.op = "roles" /\ (owner \/ r.role = "owner") => r.privileged

\* An owner is not banned, only an owner makes or unmakes one, and the last one
\* stays; the rows of the other owners are counted, not locked.
Permitted(r) ==
  LET owner == users[r.user].role = "owner"
  IN /\ r.op = "ban" => ~owner
     /\ r.op = "roles" /\ (owner \/ r.role = "owner") => r.privileged
     /\ r.op = "roles" /\ owner /\ r.role # "owner" => Cardinality(ActiveOwners) > 1

Check(c) ==
  /\ request[c].pc = "check"
  /\ Permitted(request[c])
  /\ request' = [request EXCEPT ![c].pc = "commit"]
  /\ UNCHANGED <<users, sessions, links, spent, requests, faults>>

\* The writes of a permitted transaction; its audit row refers to the actor and
\* waits for whoever holds that account.
Commits(c, op) ==
  /\ request[c].pc = "commit" /\ request[c].op = op
  /\ Free(c, request[c].actor)
  /\ request' = [request EXCEPT ![c] = Idle]
  /\ UNCHANGED <<links, spent, requests, faults>>

\* Mutant: the sessions are left to expire.
BanUserOnly(c) ==
  /\ Commits(c, "ban")
  /\ users' = [users EXCEPT ![request[c].user].banned = TRUE]
  /\ UNCHANGED sessions

BanUser(c) ==
  /\ Commits(c, "ban")
  /\ users' = [users EXCEPT ![request[c].user].banned = TRUE]
  /\ RevokeAll(request[c].user)

UnbanUser(c) ==
  /\ Commits(c, "unban")
  /\ users' = [users EXCEPT ![request[c].user].banned = FALSE]
  /\ UNCHANGED sessions

\* Mutant: the list is stored as it came.
Unnormalized(role) == role

\* normalizeAdminRoles: the user role is always kept.
Normalized(role) == IF role = "none" THEN "user" ELSE role

SetUserRoles(c) ==
  /\ Commits(c, "roles")
  /\ users' = [users EXCEPT ![request[c].user].role = Normalized(request[c].role)]
  /\ UNCHANGED sessions

-----------------------------------------------------------------------------
Next ==
  \E c \in Clients :
    \/ \E u \in Users : Login(c, u)
    \/ \E t \in Token : Refresh(c, t) \/ Logout(c, t)
    \/ \E t \in Token, u \in Users, wants \in {"password"} \cup Addresses : Change(c, t, u, wants)
    \/ \E t \in Token, actor, u \in Users, op \in {"ban", "unban", "roles"}, role \in RoleInput :
         Administer(c, t, actor, op, u, role)
    \/ \E k \in DOMAIN links : ConfirmPasswordChange(c, k) \/ ConfirmEmailChange(c, k)
    \/ CreateSession(c) \/ RotateSession(c)
    \/ GetPasswordHash(c) \/ RequestPasswordChange(c) \/ RequestEmailChange(c)
    \/ LockUser(c) \/ Check(c) \/ BanUser(c) \/ UnbanUser(c) \/ SetUserRoles(c)
    \/ Abort(c)

Spec == Init /\ [][Next]_vars

-----------------------------------------------------------------------------
(* Properties.                                                             *)

\* A ban and a confirmed password end every session of the account, and no
\* refresh that was under way brings one back: a live session was proved with
\* the present password of an account that is not banned, unless its login had
\* read the account before and inserted the row after.
SessionsEndWithTheirGrounds ==
  \A s \in DOMAIN sessions :
    LET user == users[sessions[s].user]
    IN ~sessions[s].revoked /\ ~sessions[s].late
         => ~user.banned /\ user.password = sessions[s].password

\* Two tabs that refresh with the same token cannot both get a new pair: every
\* rotation of a session has spent a token of its own.
RefreshOnce ==
  \A s \in DOMAIN sessions : sessions[s].pair = Cardinality({t \in spent : t.session = s})

\* The password that a link sets is the one asked for last, and the mail went to
\* the address the account still has.
LatestLinkWins ==
  [][\A u \in Users : users'[u].password # users[u].password =>
       LET k == users'[u].password
       IN /\ links[k].user = u /\ links[k].kind = "password" /\ ~links[k].used
          /\ links[k].email = users[u].email
          /\ \A j \in k + 1 .. Len(links) :
               links[j].user = u => links[j].kind # "password"]_vars

\* No ban lands on an active owner, also when the role is granted while the ban
\* is being decided.
OwnersAreNeverBanned ==
  [][\A u \in ActiveOwners : ~users'[u].banned]_vars

\* "The last active owner cannot be removed" (openapi.yaml:2401), when
\* administrators act one after the other; two owners that step down together
\* count each other.
OwnerRemains == "overlap" \notin faults => ActiveOwners # {}
=============================================================================
