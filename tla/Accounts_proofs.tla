--------------------------- MODULE Accounts_proofs --------------------------
(***************************************************************************)
(* What Accounts promises, for every number of accounts, sessions and      *)
(* requests.  Types first; then each promise from an invariant of its own. *)
(***************************************************************************)
EXTENDS Accounts, FiniteSetTheorems, SequenceTheorems, TLAPS

\* What request c may do.
Step(c) ==
  \/ \E u \in Users : Login(c, u)
  \/ \E t \in Token : Refresh(c, t) \/ Logout(c, t)
  \/ \E t \in Token, u \in Users, wants \in {"password"} \cup Addresses :
       Change(c, t, u, wants)
  \/ \E t \in Token, actor, u \in Users, op \in {"ban", "unban", "roles"},
        role \in RoleInput : Administer(c, t, actor, op, u, role)
  \/ \E k \in DOMAIN links : ConfirmPasswordChange(c, k) \/ ConfirmEmailChange(c, k)
  \/ CreateSession(c) \/ RotateSession(c)
  \/ GetPasswordHash(c) \/ RequestPasswordChange(c) \/ RequestEmailChange(c)
  \/ LockUser(c) \/ Check(c) \/ BanUser(c) \/ UnbanUser(c) \/ SetUserRoles(c)
  \/ Abort(c)

-----------------------------------------------------------------------------
(* Sequences as functions.                                                 *)

LEMMA AsSeq ==
  ASSUME NEW S, NEW n \in Nat, NEW f \in [1 .. n -> S]
  PROVE  f \in Seq(S) /\ Len(f) = n /\ DOMAIN f = 1 .. n
<1>1. f \in Seq(S)
  BY SeqDef
<1>2. Len(f) \in Nat /\ f \in [1 .. Len(f) -> S] /\ DOMAIN f = 1 .. Len(f)
  BY <1>1, LenProperties
<1>3. DOMAIN f = 1 .. n
  OBVIOUS
<1>4. QED
  BY <1>1, <1>2, <1>3

LEMMA Tables ==
  ASSUME TypeOK
  PROVE  /\ Len(sessions) \in 0 .. MaxSessions /\ DOMAIN sessions = 1 .. Len(sessions)
         /\ sessions \in [1 .. Len(sessions) -> Session]
         /\ Len(links) \in 0 .. MaxLinks /\ DOMAIN links = 1 .. Len(links)
         /\ links \in [1 .. Len(links) -> Link]
<1>1. /\ sessions \in Seq(Session) /\ Len(sessions) <= MaxSessions
      /\ links \in Seq(Link) /\ Len(links) <= MaxLinks
  BY DEF TypeOK
<1>2. /\ Len(sessions) \in Nat /\ DOMAIN sessions = 1 .. Len(sessions)
      /\ sessions \in [1 .. Len(sessions) -> Session]
      /\ Len(links) \in Nat /\ DOMAIN links = 1 .. Len(links)
      /\ links \in [1 .. Len(links) -> Link]
  BY <1>1, LenProperties
<1>3. QED
  BY <1>1, <1>2, BoundsAssumption

LEMMA AppendIs ==
  ASSUME NEW S, NEW q \in Seq(S), NEW e \in S
  PROVE  /\ Append(q, e) \in Seq(S)
         /\ Len(Append(q, e)) = Len(q) + 1
         /\ DOMAIN Append(q, e) = 1 .. Len(q) + 1
         /\ \A i \in 1 .. Len(q) : Append(q, e)[i] = q[i]
         /\ Append(q, e)[Len(q) + 1] = e
  BY LenProperties

-----------------------------------------------------------------------------
(* Types.                                                                  *)

LEMMA RevokedSessions ==
  ASSUME TypeOK, NEW u, RevokeAll(u)
  PROVE  /\ sessions' \in Seq(Session) /\ Len(sessions') = Len(sessions)
         /\ DOMAIN sessions' = DOMAIN sessions
         /\ \A s \in DOMAIN sessions :
              sessions'[s] = IF sessions[s].user = u THEN [sessions[s] EXCEPT !.revoked = TRUE]
                                                     ELSE sessions[s]
<1>1. \A s \in DOMAIN sessions :
        (IF sessions[s].user = u THEN [sessions[s] EXCEPT !.revoked = TRUE]
                                 ELSE sessions[s]) \in Session
  BY Tables DEF Session
<1>2. sessions' \in [1 .. Len(sessions) -> Session]
  BY <1>1, Tables DEF RevokeAll
<1>3. QED
  BY <1>2, AsSeq, Tables DEF RevokeAll

LEMMA MailedLinks ==
  ASSUME TypeOK, NEW old, NEW link \in Link, Mailed(old, link)
  PROVE  /\ links' \in Seq(Link) /\ Len(links') = Len(links) + 1 /\ Len(links') <= MaxLinks
         /\ DOMAIN links' = 1 .. Len(links) + 1
         /\ links'[Len(links) + 1] = link
         /\ \A k \in DOMAIN links :
              links'[k] = IF k \in old THEN [links[k] EXCEPT !.used = TRUE] ELSE links[k]
<1> DEFINE q == [k \in DOMAIN links |->
                   IF k \in old THEN [links[k] EXCEPT !.used = TRUE] ELSE links[k]]
<1>1. \A k \in DOMAIN links :
        (IF k \in old THEN [links[k] EXCEPT !.used = TRUE] ELSE links[k]) \in Link
  BY Tables DEF Link
<1>2. q \in [1 .. Len(links) -> Link]
  BY <1>1, Tables
<1>3. q \in Seq(Link) /\ Len(q) = Len(links) /\ Len(links) \in Nat /\ DOMAIN links = 1 .. Len(links)
  BY <1>2, AsSeq, Tables
<1>4. \A k \in DOMAIN links :
        q[k] = IF k \in old THEN [links[k] EXCEPT !.used = TRUE] ELSE links[k]
  OBVIOUS
<1>5. links' = Append(q, link) /\ Len(links) < MaxLinks
  BY DEF Mailed
<1> HIDE DEF q
<1>6. /\ links' \in Seq(Link) /\ Len(links') = Len(links) + 1
      /\ DOMAIN links' = 1 .. Len(links) + 1
      /\ \A k \in 1 .. Len(links) : links'[k] = q[k]
      /\ links'[Len(links) + 1] = link
  BY <1>3, <1>5, AppendIs
<1>7. QED
  BY <1>3, <1>4, <1>5, <1>6, BoundsAssumption

LEMMA UsedLink ==
  ASSUME TypeOK, NEW k \in DOMAIN links, links' = [links EXCEPT ![k].used = TRUE]
  PROVE  /\ links' \in Seq(Link) /\ Len(links') = Len(links) /\ DOMAIN links' = DOMAIN links
         /\ \A j \in DOMAIN links :
              links'[j] = IF j = k THEN [links[k] EXCEPT !.used = TRUE] ELSE links[j]
<1>1. [links[k] EXCEPT !.used = TRUE] \in Link
  BY Tables DEF Link
<1>2. links' \in [1 .. Len(links) -> Link]
  BY <1>1, Tables
<1>3. QED
  BY <1>2, AsSeq, Tables

LEMMA Handed ==
  ASSUME TypeOK, NEW c \in Clients, NEW r \in Request, request' = [request EXCEPT ![c] = r]
  PROVE  request' \in [Clients -> Request] /\ request'[c] = r
         /\ \A d \in Clients \ {c} : request'[d] = request[d]
  BY DEF TypeOK

LEMMA IdleRequest == Idle \in Request
  BY DEF Idle, Request

\* What a request holds at each place.
LEMMA Shapes ==
  ASSUME TypeOK, NEW c \in Clients
  PROVE  /\ request[c] \in Request
         /\ request[c].pc = "insert" =>
              request[c] \in [pc : {"insert"}, user : Users, password : 0 .. MaxLinks]
         /\ request[c].pc = "rotate" => request[c] \in [pc : {"rotate"}, token : Token]
         /\ request[c].pc \in {"verify", "submit"} =>
              request[c] \in [pc : {"verify", "submit"}, user : Users,
                              wants : {"password"} \cup Addresses]
         /\ request[c].pc \in {"lock", "check", "commit"} =>
              request[c] \in [pc : {"lock", "check", "commit"}, op : {"ban", "unban", "roles"},
                              actor : Users, privileged : BOOLEAN, user : Users, role : RoleInput]
<1>1. request[c] \in Request
  BY DEF TypeOK
<1>2. QED
  BY <1>1 DEF Request

LEMMA TypesBegin == Init => TypeOK
<1> SUFFICES ASSUME Init PROVE TypeOK
  OBVIOUS
<1>1. users \in [Users -> User]
  <2>1. PICK owner \in Users, e \in [Users -> Addresses] :
          users = [u \in Users |-> [email    |-> e[u],
                                    role     |-> IF u = owner THEN "owner" ELSE "user",
                                    banned   |-> FALSE,
                                    password |-> 0]]
    BY DEF Init
  <2>2. \A u \in Users : [email    |-> e[u],
                          role     |-> IF u = owner THEN "owner" ELSE "user",
                          banned   |-> FALSE,
                          password |-> 0] \in User
    BY BoundsAssumption DEF User, Role
  <2>3. QED
    BY <2>1, <2>2
<1>2. sessions \in Seq(Session) /\ Len(sessions) <= MaxSessions
      /\ links \in Seq(Link) /\ Len(links) <= MaxLinks
  BY BoundsAssumption, EmptySeq DEF Init
<1>3. request \in [Clients -> Request]
  BY IdleRequest DEF Init
<1>4. spent \subseteq Token /\ requests \in 0 .. MaxRequests /\ faults \in FaultSets
  BY BoundsAssumption DEF Init
<1>5. QED
  BY <1>1, <1>2, <1>3, <1>4 DEF TypeOK

\* A request begins, and waits for its next step with what it has read.
LEMMA TypesBegun ==
  ASSUME TypeOK, NEW c \in Clients, Begins(c), UNCHANGED faults,
         UNCHANGED <<users, sessions, links, spent>>,
         NEW r \in Request, request' = [request EXCEPT ![c] = r]
  PROVE  TypeOK'
<1>1. requests' \in 0 .. MaxRequests
  BY BoundsAssumption DEF Begins, TypeOK
<1>2. request' \in [Clients -> Request]
  BY Handed
<1>3. QED
  BY <1>1, <1>2 DEF TypeOK

\* A request goes on, and changes nothing but what it holds.
LEMMA TypesHeld ==
  ASSUME TypeOK, NEW c \in Clients,
         UNCHANGED <<users, sessions, links, spent, requests, faults>>,
         NEW r \in Request, request' = [request EXCEPT ![c] = r]
  PROVE  TypeOK'
<1>1. request' \in [Clients -> Request]
  BY Handed
<1>2. QED
  BY <1>1 DEF TypeOK

LEMMA TypesRequests ==
  ASSUME TypeOK, NEW c \in Clients,
         \/ \E u \in Users : Login(c, u)
         \/ \E t \in Token : Refresh(c, t)
         \/ \E t \in Token, u \in Users, wants \in {"password"} \cup Addresses :
              Change(c, t, u, wants)
         \/ \E t \in Token, actor, u \in Users, op \in {"ban", "unban", "roles"},
               role \in RoleInput : Administer(c, t, actor, op, u, role)
  PROVE  TypeOK'
<1>1. CASE \E u \in Users : Login(c, u)
  <2>1. PICK u \in Users : Login(c, u)
    BY <1>1
  <2>2. [pc |-> "insert", user |-> u, password |-> users[u].password] \in Request
    BY DEF TypeOK, User, Request
  <2>3. QED
    BY <2>1, <2>2, TypesBegun DEF Login
<1>2. CASE \E t \in Token : Refresh(c, t)
  <2>1. PICK t \in Token : Refresh(c, t)
    BY <1>2
  <2>2. [pc |-> "rotate", token |-> t] \in Request
    BY DEF Request
  <2>3. QED
    BY <2>1, <2>2, TypesBegun DEF Refresh
<1>3. CASE \E t \in Token, u \in Users, wants \in {"password"} \cup Addresses :
             Change(c, t, u, wants)
  <2>1. PICK t \in Token, u \in Users, wants \in {"password"} \cup Addresses :
          Change(c, t, u, wants)
    BY <1>3
  <2>2. [pc |-> "verify", user |-> u, wants |-> wants] \in Request
    BY DEF Request
  <2>3. QED
    BY <2>1, <2>2, TypesBegun DEF Change
<1>4. CASE \E t \in Token, actor, u \in Users, op \in {"ban", "unban", "roles"},
              role \in RoleInput : Administer(c, t, actor, op, u, role)
  <2>1. PICK t \in Token, actor \in Users, u \in Users, op \in {"ban", "unban", "roles"},
              role \in RoleInput : Administer(c, t, actor, op, u, role)
    BY <1>4
  <2> DEFINE r == [pc |-> "lock", op |-> op, actor |-> actor,
                   privileged |-> users[actor].role = "owner", user |-> u, role |-> role]
  <2>2. (users[actor].role = "owner") \in BOOLEAN
    OBVIOUS
  <2>3. r \in Request
    BY <2>2 DEF Request
  <2>4. QED
    BY <2>1, <2>3, TypesBegun DEF Administer
<1>5. QED
  BY <1>1, <1>2, <1>3, <1>4

LEMMA TypesSteps ==
  ASSUME TypeOK, NEW c \in Clients,
         Abort(c) \/ GetPasswordHash(c) \/ LockUser(c) \/ Check(c)
  PROVE  TypeOK'
<1>1. CASE Abort(c)
  BY <1>1, IdleRequest, TypesHeld DEF Abort
<1>2. CASE GetPasswordHash(c)
  <2>1. [request[c] EXCEPT !.pc = "submit"] \in Request
    BY <1>2, Shapes DEF GetPasswordHash, Request
  <2>2. QED
    BY <1>2, <2>1, TypesHeld DEF GetPasswordHash
<1>3. CASE LockUser(c)
  <2>1. [request[c] EXCEPT !.pc = "check"] \in Request
    BY <1>3, Shapes DEF LockUser, Request
  <2>2. QED
    BY <1>3, <2>1, TypesHeld DEF LockUser
<1>4. CASE Check(c)
  <2>1. [request[c] EXCEPT !.pc = "commit"] \in Request
    BY <1>4, Shapes DEF Check, Request
  <2>2. QED
    BY <1>4, <2>1, TypesHeld DEF Check
<1>5. QED
  BY <1>1, <1>2, <1>3, <1>4

\* The statements on auth_sessions: the row inserted, rotated, revoked.
LEMMA CreatedSession ==
  ASSUME TypeOK, NEW c \in Clients, CreateSession(c)
  PROVE  /\ request[c].user \in Users /\ request[c].password \in 0 .. MaxLinks
         /\ sessions' \in Seq(Session) /\ Len(sessions') <= MaxSessions
         /\ DOMAIN sessions' = 1 .. Len(sessions) + 1 /\ Len(sessions) \in Nat
         /\ \A s \in DOMAIN sessions : sessions'[s] = sessions[s]
         /\ sessions'[Len(sessions) + 1] =
              [user |-> request[c].user, pair |-> 0, revoked |-> FALSE,
               password |-> request[c].password,
               late |-> \/ users[request[c].user].banned
                        \/ users[request[c].user].password # request[c].password]
<1> DEFINE late == \/ users[request[c].user].banned
                   \/ users[request[c].user].password # request[c].password
           e == [user |-> request[c].user, pair |-> 0, revoked |-> FALSE,
                 password |-> request[c].password, late |-> late]
<1>1. request[c].user \in Users /\ request[c].password \in 0 .. MaxLinks
  BY Shapes DEF CreateSession
<1>2. users[request[c].user].banned \in BOOLEAN
  BY <1>1 DEF TypeOK, User
<1>3. late \in BOOLEAN
  BY <1>2
<1>4. sessions' = Append(sessions, e) /\ Len(sessions) < MaxSessions
  BY DEF CreateSession
<1> HIDE DEF late
<1>5. e \in Session
  BY <1>1, <1>3, BoundsAssumption DEF Session
<1> HIDE DEF e
<1>6. /\ sessions' \in Seq(Session) /\ Len(sessions') = Len(sessions) + 1
      /\ DOMAIN sessions' = 1 .. Len(sessions) + 1
      /\ \A i \in 1 .. Len(sessions) : sessions'[i] = sessions[i]
      /\ sessions'[Len(sessions) + 1] = e
  BY <1>4, <1>5, AppendIs DEF TypeOK
<1> USE DEF e, late
<1>7. QED
  BY <1>1, <1>4, <1>6, Tables, BoundsAssumption

LEMMA PatchedSession ==
  ASSUME TypeOK, NEW k \in DOMAIN sessions, NEW e \in Session,
         sessions' = [sessions EXCEPT ![k] = e]
  PROVE  /\ sessions' \in Seq(Session) /\ Len(sessions') = Len(sessions)
         /\ DOMAIN sessions' = DOMAIN sessions
         /\ \A s \in DOMAIN sessions : sessions'[s] = IF s = k THEN e ELSE sessions[s]
<1>1. sessions' \in [1 .. Len(sessions) -> Session]
  BY Tables
<1>2. QED
  BY <1>1, AsSeq, Tables

LEMMA RotatedSession ==
  ASSUME TypeOK, NEW t \in Token, t.session \in DOMAIN sessions, Rotates(t),
         sessions' = [sessions EXCEPT ![t.session].pair = @ + 1]
  PROVE  /\ sessions' \in Seq(Session) /\ Len(sessions') = Len(sessions)
         /\ DOMAIN sessions' = DOMAIN sessions
         /\ \A s \in DOMAIN sessions :
              sessions'[s] = IF s = t.session THEN [sessions[s] EXCEPT !.pair = @ + 1]
                                              ELSE sessions[s]
<1>1. [sessions[t.session] EXCEPT !.pair = @ + 1] \in Session
  <2>1. sessions[t.session] \in Session
    BY Tables
  <2>2. sessions[t.session].pair < MaxRotations
    BY DEF Rotates, Live
  <2>3. sessions[t.session].pair + 1 \in 0 .. MaxRotations
    BY <2>1, <2>2, BoundsAssumption DEF Session
  <2>4. QED
    BY <2>1, <2>3 DEF Session
<1>2. QED
  BY <1>1, PatchedSession

LEMMA LoggedOut ==
  ASSUME TypeOK, NEW k \in DOMAIN sessions,
         sessions' = [sessions EXCEPT ![k].revoked = TRUE]
  PROVE  /\ sessions' \in Seq(Session) /\ Len(sessions') = Len(sessions)
         /\ DOMAIN sessions' = DOMAIN sessions
         /\ \A s \in DOMAIN sessions :
              sessions'[s] = IF s = k THEN [sessions[s] EXCEPT !.revoked = TRUE]
                                      ELSE sessions[s]
<1>1. [sessions[k] EXCEPT !.revoked = TRUE] \in Session
  BY Tables DEF Session
<1>2. QED
  BY <1>1, PatchedSession

LEMMA TypesSessions ==
  ASSUME TypeOK, NEW c \in Clients,
         CreateSession(c) \/ RotateSession(c) \/ \E t \in Token : Logout(c, t)
  PROVE  TypeOK'
<1>1. CASE CreateSession(c)
  <2>1. request' \in [Clients -> Request]
    BY <1>1, IdleRequest, Handed DEF CreateSession
  <2>2. QED
    BY <1>1, <2>1, CreatedSession DEF CreateSession, TypeOK
<1>2. CASE RotateSession(c)
  <2>1. request' \in [Clients -> Request]
    BY <1>2, IdleRequest, Handed DEF RotateSession
  <2>2. request[c].token \in Token
    BY <1>2, Shapes DEF RotateSession
  <2>3. sessions' \in Seq(Session) /\ Len(sessions') <= MaxSessions
    <3> DEFINE t == request[c].token
    <3>1. Rotates(t) /\ sessions' = [sessions EXCEPT ![t.session].pair = @ + 1]
      BY <1>2 DEF RotateSession
    <3>2. CASE t.session \in DOMAIN sessions
      BY <2>2, <3>1, <3>2, RotatedSession DEF TypeOK
    <3>3. CASE t.session \notin DOMAIN sessions
      <4>1. sessions' = sessions
        BY <3>1, <3>3, Tables
      <4>2. QED
        BY <4>1 DEF TypeOK
    <3>4. QED
      BY <3>2, <3>3
  <2>4. spent' \subseteq Token /\ UNCHANGED <<users, links, requests, faults>>
    BY <1>2, <2>2 DEF RotateSession, TypeOK
  <2>5. QED
    BY <2>1, <2>3, <2>4 DEF TypeOK
<1>3. CASE \E t \in Token : Logout(c, t)
  <2>1. PICK t \in Token : Logout(c, t)
    BY <1>3
  <2>2. sessions' \in Seq(Session) /\ Len(sessions') <= MaxSessions
    BY <2>1, LoggedOut DEF Logout, Issued, TypeOK
  <2>3. requests' \in 0 .. MaxRequests
    BY <2>1, BoundsAssumption DEF Logout, Begins, TypeOK
  <2>4. QED
    BY <2>1, <2>2, <2>3 DEF Logout, TypeOK
<1>4. QED
  BY <1>1, <1>2, <1>3

\* The statements on the link tables, and the account they change.
LEMMA TypesLinks ==
  ASSUME TypeOK, NEW c \in Clients,
         \/ RequestPasswordChange(c) \/ RequestEmailChange(c)
         \/ \E k \in DOMAIN links : ConfirmPasswordChange(c, k) \/ ConfirmEmailChange(c, k)
  PROVE  TypeOK'
<1>1. CASE RequestPasswordChange(c)
  <2>1. request' \in [Clients -> Request]
    BY <1>1, IdleRequest, Handed DEF RequestPasswordChange
  <2> DEFINE u == request[c].user
             link == [kind |-> "password", user |-> u, email |-> users[u].email, used |-> FALSE]
             old == {k \in DOMAIN links : links[k].kind = "password" /\ links[k].user = u}
  <2>2. u \in Users
    BY <1>1, Shapes DEF RequestPasswordChange
  <2>3. link \in Link
    BY <2>2 DEF TypeOK, User, Link
  <2>4. Mailed(old, link)
    BY <1>1 DEF RequestPasswordChange
  <2> HIDE DEF link, old
  <2>5. links' \in Seq(Link) /\ Len(links') <= MaxLinks
    BY <2>3, <2>4, MailedLinks
  <2>6. UNCHANGED <<users, sessions, spent, requests, faults>>
    BY <1>1 DEF RequestPasswordChange
  <2>7. QED
    BY <2>1, <2>5, <2>6 DEF TypeOK
<1>2. CASE RequestEmailChange(c)
  <2>1. request' \in [Clients -> Request]
    BY <1>2, IdleRequest, Handed DEF RequestEmailChange
  <2> DEFINE u == request[c].user
             email == request[c].wants
             link == [kind |-> "email", user |-> u, email |-> email, used |-> FALSE]
             old == {k \in DOMAIN links :
                       links[k].kind = "email" /\ (links[k].user = u \/ links[k].email = email)}
  <2>2. u \in Users /\ email \in Addresses
    BY <1>2, Shapes DEF RequestEmailChange
  <2>3. link \in Link
    BY <2>2 DEF Link
  <2>4. Mailed(old, link)
    BY <1>2 DEF RequestEmailChange
  <2> HIDE DEF link, old
  <2>5. links' \in Seq(Link) /\ Len(links') <= MaxLinks
    BY <2>3, <2>4, MailedLinks
  <2>6. UNCHANGED <<users, sessions, spent, requests, faults>>
    BY <1>2 DEF RequestEmailChange
  <2>7. QED
    BY <2>1, <2>5, <2>6 DEF TypeOK
<1>3. ASSUME NEW k \in DOMAIN links, ConfirmPasswordChange(c, k)
      PROVE  TypeOK'
  <2> DEFINE u == links[k].user
  <2>1. u \in Users /\ k \in 0 .. MaxLinks
    BY Tables, BoundsAssumption DEF Link
  <2>2. users' \in [Users -> User]
    <3>1. [users[u] EXCEPT !.password = k] \in User
      BY <2>1 DEF TypeOK, User
    <3>2. users' = [users EXCEPT ![u] = [users[u] EXCEPT !.password = k]]
      BY <1>3 DEF ConfirmPasswordChange
    <3>3. QED
      BY <2>1, <3>1, <3>2 DEF TypeOK
  <2>3. sessions' \in Seq(Session) /\ Len(sessions') <= MaxSessions
    <3>1. RevokeAll(u)
      BY <1>3 DEF ConfirmPasswordChange
    <3>2. QED
      BY <3>1, RevokedSessions DEF TypeOK
  <2>4. links' \in Seq(Link) /\ Len(links') <= MaxLinks
    BY <1>3, UsedLink DEF ConfirmPasswordChange, TypeOK
  <2>5. requests' \in 0 .. MaxRequests
    BY <1>3, BoundsAssumption DEF ConfirmPasswordChange, Begins, TypeOK
  <2>6. QED
    BY <1>3, <2>2, <2>3, <2>4, <2>5 DEF ConfirmPasswordChange, TypeOK
<1>4. ASSUME NEW k \in DOMAIN links, ConfirmEmailChange(c, k)
      PROVE  TypeOK'
  <2> DEFINE u == links[k].user
  <2>1. u \in Users /\ links[k].email \in Addresses
    BY Tables DEF Link
  <2>2. users' \in [Users -> User]
    <3>1. [users[u] EXCEPT !.email = links[k].email] \in User
      BY <2>1 DEF TypeOK, User
    <3>2. users' = [users EXCEPT ![u] = [users[u] EXCEPT !.email = links[k].email]]
      BY <1>4 DEF ConfirmEmailChange
    <3>3. QED
      BY <2>1, <3>1, <3>2 DEF TypeOK
  <2>3. links' \in Seq(Link) /\ Len(links') <= MaxLinks
    BY <1>4, UsedLink DEF ConfirmEmailChange, TypeOK
  <2>4. requests' \in 0 .. MaxRequests
    BY <1>4, BoundsAssumption DEF ConfirmEmailChange, Begins, TypeOK
  <2>5. QED
    BY <1>4, <2>2, <2>3, <2>4 DEF ConfirmEmailChange, TypeOK
<1>5. QED
  BY <1>1, <1>2, <1>3, <1>4

LEMMA TypesAdministration ==
  ASSUME TypeOK, NEW c \in Clients, BanUser(c) \/ UnbanUser(c) \/ SetUserRoles(c)
  PROVE  TypeOK'
<1>1. /\ request[c].user \in Users /\ request[c].role \in RoleInput
      /\ request' \in [Clients -> Request]
      /\ UNCHANGED <<links, spent, requests, faults>>
  BY IdleRequest, Handed, Shapes DEF BanUser, UnbanUser, SetUserRoles, Commits
<1> DEFINE u == request[c].user
<1>2. CASE BanUser(c)
  <2>1. [users[u] EXCEPT !.banned = TRUE] \in User
    BY <1>1 DEF TypeOK, User
  <2>2. users' = [users EXCEPT ![u] = [users[u] EXCEPT !.banned = TRUE]] /\ RevokeAll(u)
    BY <1>2 DEF BanUser
  <2>3. users' \in [Users -> User]
    BY <1>1, <2>1, <2>2 DEF TypeOK
  <2>4. sessions' \in Seq(Session) /\ Len(sessions') <= MaxSessions
    BY <2>2, RevokedSessions DEF TypeOK
  <2>5. QED
    BY <1>1, <2>3, <2>4 DEF TypeOK
<1>3. CASE UnbanUser(c)
  <2>1. [users[u] EXCEPT !.banned = FALSE] \in User
    BY <1>1 DEF TypeOK, User
  <2>2. users' = [users EXCEPT ![u] = [users[u] EXCEPT !.banned = FALSE]] /\ UNCHANGED sessions
    BY <1>3 DEF UnbanUser
  <2>3. users' \in [Users -> User]
    BY <1>1, <2>1, <2>2 DEF TypeOK
  <2>4. QED
    BY <1>1, <2>2, <2>3 DEF TypeOK
<1>4. CASE SetUserRoles(c)
  <2>1. [users[u] EXCEPT !.role = Normalized(request[c].role)] \in User
    BY <1>1 DEF TypeOK, User, Role, RoleInput, Normalized
  <2>2. /\ users' = [users EXCEPT ![u] = [users[u] EXCEPT !.role = Normalized(request[c].role)]]
        /\ UNCHANGED sessions
    BY <1>4 DEF SetUserRoles
  <2>3. users' \in [Users -> User]
    BY <1>1, <2>1, <2>2 DEF TypeOK
  <2>4. QED
    BY <1>1, <2>2, <2>3 DEF TypeOK
<1>5. QED
  BY <1>2, <1>3, <1>4

LEMMA TypesKept == TypeOK /\ [Next]_vars => TypeOK'
<1> SUFFICES ASSUME TypeOK, [Next]_vars PROVE TypeOK'
  OBVIOUS
<1>1. CASE Next
  <2>1. PICK c \in Clients : Step(c)
    BY <1>1 DEF Next, Step
  <2>2. QED
    BY <2>1, TypesRequests, TypesSteps, TypesSessions, TypesLinks, TypesAdministration DEF Step
<1>2. CASE UNCHANGED vars
  BY <1>2 DEF vars, TypeOK
<1>3. QED
  BY <1>1, <1>2

\* Every variable has its type, whatever requests, administrators and lost
\* connections do.
THEOREM TypeCorrect == Spec => []TypeOK
<1>1. Init => TypeOK
  BY TypesBegin
<1>2. TypeOK /\ [Next]_vars => TypeOK'
  BY TypesKept
<1>3. QED
  BY <1>1, <1>2, PTL DEF Spec

-----------------------------------------------------------------------------
(* Sessions.                                                               *)

\* The steps that write a table; all others only move a request on.
LEMMA Writers ==
  ASSUME [Next]_vars
  PROVE  \/ UNCHANGED <<users, sessions, links, spent>>
         \/ \E c \in Clients :
              \/ CreateSession(c) \/ RotateSession(c) \/ \E t \in Token : Logout(c, t)
              \/ RequestPasswordChange(c) \/ RequestEmailChange(c)
              \/ \E k \in DOMAIN links : ConfirmPasswordChange(c, k) \/ ConfirmEmailChange(c, k)
              \/ BanUser(c) \/ UnbanUser(c) \/ SetUserRoles(c)
<1>1. CASE Next
  <2>1. PICK c \in Clients : Step(c)
    BY <1>1 DEF Next, Step
  <2>2. QED
    BY <2>1 DEF Step, Login, Refresh, Change, Administer, GetPasswordHash, LockUser, Check, Abort
<1>2. CASE UNCHANGED vars
  BY <1>2 DEF vars
<1>3. QED
  BY <1>1, <1>2

\* The writes of an administrator change one column of one account.
LEMMA ChangedUser ==
  ASSUME TypeOK, NEW c \in Clients, BanUser(c) \/ UnbanUser(c) \/ SetUserRoles(c)
  PROVE  /\ request[c].user \in Users
         /\ \A v \in Users \ {request[c].user} : users'[v] = users[v]
         /\ BanUser(c) =>
              /\ users'[request[c].user].role = users[request[c].user].role
              /\ users'[request[c].user].banned
         /\ UnbanUser(c) =>
              /\ users'[request[c].user].role = users[request[c].user].role
              /\ ~users'[request[c].user].banned
         /\ SetUserRoles(c) =>
              /\ users'[request[c].user].role = Normalized(request[c].role)
              /\ users'[request[c].user].banned = users[request[c].user].banned
         /\ users'[request[c].user].password = users[request[c].user].password
<1>1. request[c].user \in Users
  BY Shapes DEF BanUser, UnbanUser, SetUserRoles, Commits
<1>2. users \in [Users -> User]
  BY DEF TypeOK
<1>3. CASE BanUser(c)
  BY <1>1, <1>2, <1>3 DEF BanUser, UnbanUser, SetUserRoles, Commits, User
<1>4. CASE UnbanUser(c)
  BY <1>1, <1>2, <1>4 DEF BanUser, UnbanUser, SetUserRoles, Commits, User
<1>5. CASE SetUserRoles(c)
  BY <1>1, <1>2, <1>5 DEF BanUser, UnbanUser, SetUserRoles, Commits, User
<1>6. QED
  BY <1>3, <1>4, <1>5

LEMMA ConfirmedUser ==
  ASSUME TypeOK, NEW c \in Clients, NEW k \in DOMAIN links,
         ConfirmPasswordChange(c, k) \/ ConfirmEmailChange(c, k)
  PROVE  /\ links[k].user \in Users
         /\ \A v \in Users \ {links[k].user} : users'[v] = users[v]
         /\ users'[links[k].user].role = users[links[k].user].role
         /\ users'[links[k].user].banned = users[links[k].user].banned
         /\ ConfirmPasswordChange(c, k) => users'[links[k].user].password = k
         /\ ConfirmEmailChange(c, k) =>
              users'[links[k].user].password = users[links[k].user].password
<1>1. links[k] \in Link /\ links[k].kind \in {"password", "email"}
  BY Tables DEF Link
<1>2. links[k].user \in Users
  BY <1>1 DEF Link
<1>3. users \in [Users -> User]
  BY DEF TypeOK
<1>4. CASE ConfirmPasswordChange(c, k)
  <2>1. ~ConfirmEmailChange(c, k)
    BY <1>4 DEF ConfirmPasswordChange, ConfirmEmailChange, Confirmable
  <2>2. QED
    BY <1>2, <1>3, <1>4, <2>1 DEF ConfirmPasswordChange, User
<1>5. CASE ConfirmEmailChange(c, k)
  <2>1. ~ConfirmPasswordChange(c, k)
    BY <1>5 DEF ConfirmPasswordChange, ConfirmEmailChange, Confirmable
  <2>2. QED
    BY <1>2, <1>3, <1>5, <2>1 DEF ConfirmEmailChange, User
<1>6. QED
  BY <1>4, <1>5

\* A live session whose login was not too late has its account's password.
Grounded(s) ==
  ~sessions[s].revoked /\ ~sessions[s].late
    => /\ ~users[sessions[s].user].banned
       /\ users[sessions[s].user].password = sessions[s].password

LEMMA GroundsKept ==
  ASSUME TypeOK, [Next]_vars, \A s \in DOMAIN sessions : Grounded(s)
  PROVE  \A s \in DOMAIN sessions' : Grounded(s)'
<1> USE DEF Grounded
<1>1. CASE UNCHANGED <<users, sessions, links, spent>>
  BY <1>1
<1>2. ASSUME NEW c \in Clients, CreateSession(c)
      PROVE  \A s \in DOMAIN sessions' : Grounded(s)'
  <2>0. PICK n \in Nat : n = Len(sessions) + 1
    BY Tables
  <2>1. users' = users
    BY <1>2 DEF CreateSession
  <2>2. \A s \in DOMAIN sessions : Grounded(s)'
    BY <1>2, <2>1, CreatedSession
  <2>3. Grounded(n)'
    <3> DEFINE late == \/ users[request[c].user].banned
                       \/ users[request[c].user].password # request[c].password
    <3>1. sessions'[n] = [user |-> request[c].user, pair |-> 0, revoked |-> FALSE,
                          password |-> request[c].password, late |-> late]
      BY <1>2, <2>0, CreatedSession
    <3> HIDE DEF late
    <3>2. /\ sessions'[n].user = request[c].user
          /\ sessions'[n].password = request[c].password
          /\ sessions'[n].late = late
      BY <3>1
    <3> USE DEF late
    <3>3. QED
      BY <2>1, <3>2
  <2>4. \A s \in DOMAIN sessions' : s \in DOMAIN sessions \/ s = n
    <3>1. DOMAIN sessions' = 1 .. n /\ Len(sessions) \in Nat
      BY <1>2, <2>0, CreatedSession
    <3>2. DOMAIN sessions = 1 .. Len(sessions)
      BY Tables
    <3>3. QED
      BY <2>0, <3>1, <3>2
  <2> HIDE DEF Grounded
  <2>5. QED
    BY <2>2, <2>3, <2>4
<1>3. ASSUME NEW c \in Clients, RotateSession(c)
      PROVE  \A s \in DOMAIN sessions' : Grounded(s)'
  <2> DEFINE t == request[c].token
  <2>1. /\ users' = users /\ t \in Token /\ Rotates(t)
        /\ sessions' = [sessions EXCEPT ![t.session].pair = @ + 1]
    BY <1>3, Shapes DEF RotateSession
  <2>2. CASE t.session \in DOMAIN sessions
    <3>1. /\ DOMAIN sessions' = DOMAIN sessions
          /\ \A s \in DOMAIN sessions :
               sessions'[s] = IF s = t.session THEN [sessions[s] EXCEPT !.pair = @ + 1]
                                               ELSE sessions[s]
      BY <2>1, <2>2, RotatedSession
    <3>2. \A s \in DOMAIN sessions : sessions[s] \in Session
      BY Tables
    <3>3. QED
      BY <2>1, <3>1, <3>2 DEF Session
  <2>3. CASE t.session \notin DOMAIN sessions
    BY <2>1, <2>3, Tables
  <2>4. QED
    BY <2>2, <2>3
<1>4. ASSUME NEW c \in Clients, NEW t \in Token, Logout(c, t)
      PROVE  \A s \in DOMAIN sessions' : Grounded(s)'
  <2>1. users' = users /\ t.session \in DOMAIN sessions
        /\ sessions' = [sessions EXCEPT ![t.session].revoked = TRUE]
    BY <1>4 DEF Logout, Issued
  <2>2. /\ DOMAIN sessions' = DOMAIN sessions
        /\ \A s \in DOMAIN sessions :
             sessions'[s] = IF s = t.session THEN [sessions[s] EXCEPT !.revoked = TRUE]
                                             ELSE sessions[s]
    BY <2>1, LoggedOut
  <2>3. \A s \in DOMAIN sessions : sessions[s] \in Session
    BY Tables
  <2>4. QED
    BY <2>1, <2>2, <2>3 DEF Session
<1>5. ASSUME NEW c \in Clients, NEW k \in DOMAIN links, ConfirmPasswordChange(c, k)
      PROVE  \A s \in DOMAIN sessions' : Grounded(s)'
  <2> DEFINE gone == links[k].user
  <2>1. RevokeAll(gone)
    BY <1>5 DEF ConfirmPasswordChange
  <2>2. \A v \in Users \ {gone} : users'[v] = users[v]
    BY <1>5, ConfirmedUser
  <2>3. \A s \in DOMAIN sessions : sessions[s] \in Session
    BY Tables
  <2>4. /\ DOMAIN sessions' = DOMAIN sessions
        /\ \A s \in DOMAIN sessions :
             sessions'[s] = IF sessions[s].user = gone
                              THEN [sessions[s] EXCEPT !.revoked = TRUE] ELSE sessions[s]
    BY <2>1, RevokedSessions
  <2>5. ASSUME NEW s \in DOMAIN sessions PROVE Grounded(s)'
    <3>1. CASE sessions[s].user = gone
      <4>1. sessions'[s].revoked
        BY <2>3, <2>4, <3>1 DEF Session
      <4>2. QED
        BY <4>1
    <3>2. CASE sessions[s].user # gone
      <4>1. sessions'[s] = sessions[s]
        BY <2>4, <3>2
      <4>2. users'[sessions[s].user] = users[sessions[s].user]
        BY <2>2, <2>3, <3>2 DEF Session
      <4>3. QED
        BY <4>1, <4>2
    <3>3. QED
      BY <3>1, <3>2
  <2> HIDE DEF Grounded
  <2>6. QED
    BY <2>4, <2>5
<1>6. ASSUME NEW c \in Clients, NEW k \in DOMAIN links, ConfirmEmailChange(c, k)
      PROVE  \A s \in DOMAIN sessions' : Grounded(s)'
  <2>1. sessions' = sessions
    BY <1>6 DEF ConfirmEmailChange
  <2>2. \A v \in Users : users'[v].banned = users[v].banned
                         /\ users'[v].password = users[v].password
    BY <1>6, ConfirmedUser
  <2>3. \A s \in DOMAIN sessions : sessions[s].user \in Users
    BY Tables DEF Session
  <2>4. QED
    BY <2>1, <2>2, <2>3
<1>7. ASSUME NEW c \in Clients, BanUser(c)
      PROVE  \A s \in DOMAIN sessions' : Grounded(s)'
  <2> DEFINE gone == request[c].user
  <2>1. RevokeAll(gone)
    BY <1>7 DEF BanUser
  <2>2. \A v \in Users \ {gone} : users'[v] = users[v]
    BY <1>7, ChangedUser
  <2>3. \A s \in DOMAIN sessions : sessions[s] \in Session
    BY Tables
  <2>4. /\ DOMAIN sessions' = DOMAIN sessions
        /\ \A s \in DOMAIN sessions :
             sessions'[s] = IF sessions[s].user = gone
                              THEN [sessions[s] EXCEPT !.revoked = TRUE] ELSE sessions[s]
    BY <2>1, RevokedSessions
  <2>5. ASSUME NEW s \in DOMAIN sessions PROVE Grounded(s)'
    <3>1. CASE sessions[s].user = gone
      <4>1. sessions'[s].revoked
        BY <2>3, <2>4, <3>1 DEF Session
      <4>2. QED
        BY <4>1
    <3>2. CASE sessions[s].user # gone
      <4>1. sessions'[s] = sessions[s]
        BY <2>4, <3>2
      <4>2. users'[sessions[s].user] = users[sessions[s].user]
        BY <2>2, <2>3, <3>2 DEF Session
      <4>3. QED
        BY <4>1, <4>2
    <3>3. QED
      BY <3>1, <3>2
  <2> HIDE DEF Grounded
  <2>6. QED
    BY <2>4, <2>5
<1>8. ASSUME NEW c \in Clients, UnbanUser(c) \/ SetUserRoles(c)
      PROVE  \A s \in DOMAIN sessions' : Grounded(s)'
  <2>1. sessions' = sessions
    BY <1>8 DEF UnbanUser, SetUserRoles
  <2>2. \A v \in Users : (users'[v].banned => users[v].banned)
                         /\ users'[v].password = users[v].password
    BY <1>8, ChangedUser
  <2>3. \A s \in DOMAIN sessions : sessions[s].user \in Users
    BY Tables DEF Session
  <2>4. QED
    BY <2>1, <2>2, <2>3
<1>9. ASSUME NEW c \in Clients, RequestPasswordChange(c) \/ RequestEmailChange(c)
      PROVE  \A s \in DOMAIN sessions' : Grounded(s)'
  BY <1>9 DEF RequestPasswordChange, RequestEmailChange
<1>10. QED
  BY <1>1, <1>2, <1>3, <1>4, <1>5, <1>6, <1>7, <1>8, <1>9, Writers

\* A ban, and a new password, end every session of the account: those that stay
\* live were proved with the present password of an account that is not banned.
THEOREM GroundsHold == Spec => []SessionsEndWithTheirGrounds
<1>1. Init => \A s \in DOMAIN sessions : Grounded(s)
  BY DEF Init
<1>2. TypeOK /\ [Next]_vars /\ (\A s \in DOMAIN sessions : Grounded(s))
        => (\A s \in DOMAIN sessions : Grounded(s))'
  BY GroundsKept
<1>3. (\A s \in DOMAIN sessions : Grounded(s)) => SessionsEndWithTheirGrounds
  BY DEF SessionsEndWithTheirGrounds, Grounded
<1>4. QED
  BY <1>1, <1>2, <1>3, TypeCorrect, PTL DEF Spec

-----------------------------------------------------------------------------
(* Refresh tokens.                                                         *)

\* A rotating request names a session that exists: rows are never removed.
RotatesKnown ==
  \A c \in Clients : request[c].pc = "rotate" => request[c].token.session \in DOMAIN sessions

\* Only the pairs before the present one are spent, ...
SpentBefore ==
  /\ IsFiniteSet(spent)
  /\ \A t \in spent : t.session \in DOMAIN sessions /\ t.pair < sessions[t.session].pair

\* ... so the token of the present pair is not, and each rotation adds one.
RefreshInv == RotatesKnown /\ SpentBefore /\ RefreshOnce

\* The steps that neither rotate nor insert a session.
LEMMA PairsStay ==
  ASSUME TypeOK, NEW c \in Clients,
         \/ \E t \in Token : Logout(c, t)
         \/ RequestPasswordChange(c) \/ RequestEmailChange(c)
         \/ \E k \in DOMAIN links : ConfirmPasswordChange(c, k) \/ ConfirmEmailChange(c, k)
         \/ BanUser(c) \/ UnbanUser(c) \/ SetUserRoles(c)
  PROVE  /\ spent' = spent /\ DOMAIN sessions' = DOMAIN sessions
         /\ \A s \in DOMAIN sessions : sessions'[s].pair = sessions[s].pair
<1>1. \A s \in DOMAIN sessions : sessions[s] \in Session
  BY Tables
<1>2. CASE \E t \in Token : Logout(c, t)
  <2>1. PICK t \in Token : Logout(c, t)
    BY <1>2
  <2>2. t.session \in DOMAIN sessions /\ spent' = spent
        /\ sessions' = [sessions EXCEPT ![t.session].revoked = TRUE]
    BY <2>1 DEF Logout, Issued
  <2>3. /\ DOMAIN sessions' = DOMAIN sessions
        /\ \A s \in DOMAIN sessions :
             sessions'[s] = IF s = t.session THEN [sessions[s] EXCEPT !.revoked = TRUE]
                                             ELSE sessions[s]
    BY <2>2, LoggedOut
  <2>4. QED
    BY <1>1, <2>2, <2>3 DEF Session
<1>3. ASSUME NEW u, RevokeAll(u)
      PROVE  /\ DOMAIN sessions' = DOMAIN sessions
             /\ \A s \in DOMAIN sessions : sessions'[s].pair = sessions[s].pair
  <2>1. /\ DOMAIN sessions' = DOMAIN sessions
        /\ \A s \in DOMAIN sessions :
             sessions'[s] = IF sessions[s].user = u THEN [sessions[s] EXCEPT !.revoked = TRUE]
                                                    ELSE sessions[s]
    BY <1>3, RevokedSessions
  <2>2. QED
    BY <1>1, <2>1 DEF Session
<1>4. CASE \E k \in DOMAIN links : ConfirmPasswordChange(c, k)
  BY <1>3, <1>4 DEF ConfirmPasswordChange
<1>5. CASE BanUser(c)
  BY <1>3, <1>5 DEF BanUser, Commits
<1>6. CASE \/ RequestPasswordChange(c) \/ RequestEmailChange(c)
           \/ \E k \in DOMAIN links : ConfirmEmailChange(c, k)
           \/ UnbanUser(c) \/ SetUserRoles(c)
  BY <1>6 DEF RequestPasswordChange, RequestEmailChange, ConfirmEmailChange,
              UnbanUser, SetUserRoles, Commits
<1>7. QED
  BY <1>2, <1>4, <1>5, <1>6

LEMMA RotationKnown ==
  ASSUME TypeOK, RotatesKnown, NEW c \in Clients, RotateSession(c)
  PROVE  /\ request[c].token \in Token /\ request[c].token.session \in DOMAIN sessions
         /\ Rotates(request[c].token) /\ spent' = spent \cup {request[c].token}
         /\ DOMAIN sessions' = DOMAIN sessions
         /\ \A s \in DOMAIN sessions :
              sessions'[s].pair = IF s = request[c].token.session THEN sessions[s].pair + 1
                                                                  ELSE sessions[s].pair
<1>1. /\ request[c].token \in Token /\ request[c].token.session \in DOMAIN sessions
      /\ Rotates(request[c].token) /\ spent' = spent \cup {request[c].token}
  BY Shapes DEF RotateSession, RotatesKnown
<1> DEFINE t == request[c].token
<1>2. sessions' = [sessions EXCEPT ![t.session].pair = @ + 1]
  BY DEF RotateSession
<1> HIDE DEF t
<1>3. t \in Token /\ t.session \in DOMAIN sessions /\ Rotates(t)
  BY <1>1 DEF t
<1>4. /\ DOMAIN sessions' = DOMAIN sessions
      /\ \A s \in DOMAIN sessions :
           sessions'[s] = IF s = t.session THEN [sessions[s] EXCEPT !.pair = @ + 1]
                                           ELSE sessions[s]
  BY <1>2, <1>3, RotatedSession
<1>5. \A s \in DOMAIN sessions : sessions[s] \in Session
  BY Tables
<1>6. \A s \in DOMAIN sessions :
        sessions'[s].pair = IF s = t.session THEN sessions[s].pair + 1 ELSE sessions[s].pair
  BY <1>4, <1>5 DEF Session
<1>7. QED
  BY <1>1, <1>4, <1>6 DEF t

LEMMA SessionsStay ==
  ASSUME TypeOK, RotatesKnown, [Next]_vars
  PROVE  DOMAIN sessions \subseteq DOMAIN sessions'
<1>1. ASSUME NEW c \in Clients, CreateSession(c)
      PROVE  DOMAIN sessions \subseteq DOMAIN sessions'
  <2>1. DOMAIN sessions = 1 .. Len(sessions) /\ Len(sessions) \in Nat
        /\ DOMAIN sessions' = 1 .. Len(sessions) + 1
    BY <1>1, Tables, CreatedSession
  <2>2. QED
    BY <2>1
<1>2. QED
  BY <1>1, RotationKnown, PairsStay, Writers

LEMMA RotatesKnownKept ==
  ASSUME TypeOK, RotatesKnown, [Next]_vars
  PROVE  RotatesKnown'
<1>1. SUFFICES ASSUME NEW d \in Clients, request'[d].pc = "rotate",
                      request'[d].token.session \notin DOMAIN sessions'
               PROVE  FALSE
  BY DEF RotatesKnown
<1>2. request'[d] # request[d]
  BY <1>1, SessionsStay DEF RotatesKnown
<1>3. request \in [Clients -> Request]
  BY DEF TypeOK
<1>4. PICK c \in Clients : Step(c)
  BY <1>2 DEF Next, Step, vars
<1>5. CASE \E t \in Token : Refresh(c, t)
  <2>1. PICK t \in Token : Refresh(c, t)
    BY <1>5
  <2>2. t.session \in DOMAIN sessions /\ request' = [request EXCEPT ![c] = [pc |-> "rotate", token |-> t]]
        /\ sessions' = sessions
    BY <2>1 DEF Refresh, Authenticated, Issued
  <2>3. request'[d] = [pc |-> "rotate", token |-> t]
    BY <1>2, <1>3, <2>2
  <2>4. QED
    BY <1>1, <2>2, <2>3
<1>6. CASE \/ \E u \in Users : Login(c, u)
           \/ \E t \in Token, u \in Users, wants \in {"password"} \cup Addresses :
                Change(c, t, u, wants)
           \/ \E t \in Token, actor, u \in Users, op \in {"ban", "unban", "roles"},
                 role \in RoleInput : Administer(c, t, actor, op, u, role)
  BY <1>1, <1>2, <1>3, <1>6 DEF Login, Change, Administer
<1>7. CASE \/ \E t \in Token : Logout(c, t)
           \/ \E k \in DOMAIN links : ConfirmPasswordChange(c, k) \/ ConfirmEmailChange(c, k)
  BY <1>2, <1>7 DEF Logout, ConfirmPasswordChange, ConfirmEmailChange
<1>8. CASE \/ CreateSession(c) \/ RotateSession(c) \/ RequestPasswordChange(c)
           \/ RequestEmailChange(c) \/ BanUser(c) \/ UnbanUser(c) \/ SetUserRoles(c) \/ Abort(c)
  <2>1. request' = [request EXCEPT ![c] = Idle]
    BY <1>8 DEF CreateSession, RotateSession, RequestPasswordChange, RequestEmailChange,
                BanUser, UnbanUser, SetUserRoles, Commits, Abort
  <2>2. QED
    BY <1>1, <1>2, <1>3, <2>1 DEF Idle
<1>9. CASE GetPasswordHash(c)
  <2>1. request' = [request EXCEPT ![c].pc = "submit"] /\ request[c].pc = "verify"
    BY <1>9 DEF GetPasswordHash
  <2>2. request'[d].pc = "submit"
    BY <1>2, <1>3, <2>1, Shapes
  <2>3. QED
    BY <1>1, <2>2
<1>10. CASE LockUser(c)
  <2>1. request' = [request EXCEPT ![c].pc = "check"] /\ request[c].pc = "lock"
    BY <1>10 DEF LockUser
  <2>2. request'[d].pc = "check"
    BY <1>2, <1>3, <2>1, Shapes
  <2>3. QED
    BY <1>1, <2>2
<1>11. CASE Check(c)
  <2>1. request' = [request EXCEPT ![c].pc = "commit"] /\ request[c].pc = "check"
    BY <1>11 DEF Check
  <2>2. request'[d].pc = "commit"
    BY <1>2, <1>3, <2>1, Shapes
  <2>3. QED
    BY <1>1, <2>2
<1>12. QED
  BY <1>4, <1>5, <1>6, <1>7, <1>8, <1>9, <1>10, <1>11 DEF Step

LEMMA RefreshKept ==
  ASSUME TypeOK, RefreshInv, [Next]_vars
  PROVE  RefreshInv'
<1>1. RotatesKnown'
  BY RotatesKnownKept DEF RefreshInv
<1>2. IsFiniteSet(spent) /\ RotatesKnown
      /\ \A t \in spent : t.session \in DOMAIN sessions /\ t.pair < sessions[t.session].pair
  BY DEF RefreshInv, SpentBefore
<1>3. ASSUME NEW s \in DOMAIN sessions
      PROVE  sessions[s].pair = Cardinality({x \in spent : x.session = s})
  BY Zenon DEF RefreshInv, RefreshOnce
<1>4. SpentBefore' /\ RefreshOnce'
  <2>1. CASE /\ spent' = spent /\ DOMAIN sessions' = DOMAIN sessions
             /\ \A s \in DOMAIN sessions : sessions'[s].pair = sessions[s].pair
    <3>1. SpentBefore'
      BY <1>2, <2>1 DEF SpentBefore
    <3>2. ASSUME NEW s \in DOMAIN sessions'
          PROVE  sessions'[s].pair = Cardinality({x \in spent' : x.session = s})
      <4>1. s \in DOMAIN sessions
        BY <2>1, <3>2
      <4>2. sessions[s].pair = Cardinality({x \in spent : x.session = s})
        BY <1>3, <4>1
      <4>3. {x \in spent' : x.session = s} = {x \in spent : x.session = s}
        BY <2>1
      <4>4. QED
        BY <2>1, <4>1, <4>2, <4>3
    <3>3. QED
      BY <3>1, <3>2, Zenon DEF RefreshOnce
  <2>2. CASE UNCHANGED <<users, sessions, links, spent>>
    BY <2>1, <2>2
  <2>3. ASSUME NEW c \in Clients, CreateSession(c)
        PROVE  SpentBefore' /\ RefreshOnce'
    <3>1. PICK n \in Nat : n = Len(sessions) + 1
      BY Tables
    <3>2. spent' = spent
      BY <2>3 DEF CreateSession
    <3>3. /\ DOMAIN sessions' = 1 .. n /\ Len(sessions) \in Nat
          /\ \A s \in DOMAIN sessions : sessions'[s] = sessions[s]
      BY <2>3, <3>1, CreatedSession
    <3>4. sessions'[n].pair = 0
      <4> DEFINE late == \/ users[request[c].user].banned
                         \/ users[request[c].user].password # request[c].password
      <4>1. sessions'[n] = [user |-> request[c].user, pair |-> 0, revoked |-> FALSE,
                            password |-> request[c].password, late |-> late]
        BY <2>3, <3>1, CreatedSession
      <4> HIDE DEF late
      <4>2. QED
        BY <4>1
    <3>5. DOMAIN sessions = 1 .. Len(sessions)
      BY Tables
    <3>6. SpentBefore'
      BY <1>2, <3>1, <3>2, <3>3, <3>5 DEF SpentBefore
    <3>7. {t \in spent : t.session = n} = {}
      BY <1>2, <3>1, <3>3, <3>5
    <3>8. sessions'[n].pair = Cardinality({t \in spent : t.session = n})
      BY <3>4, <3>7, FS_EmptySet
    <3>9. \A s \in DOMAIN sessions' : s \in DOMAIN sessions \/ s = n
      BY <3>1, <3>3, <3>5
    <3>10. ASSUME NEW s \in DOMAIN sessions'
           PROVE  sessions'[s].pair = Cardinality({x \in spent' : x.session = s})
      <4>1. CASE s = n
        BY <3>2, <3>8, <4>1
      <4>2. CASE s \in DOMAIN sessions
        <5>1. sessions[s].pair = Cardinality({x \in spent : x.session = s})
          BY <1>3, <4>2
        <5>2. QED
          BY <3>2, <3>3, <4>2, <5>1
      <4>3. QED
        BY <3>9, <3>10, <4>1, <4>2
    <3>11. QED
      BY <3>6, <3>10, Zenon DEF RefreshOnce
  <2>4. ASSUME NEW c \in Clients, RotateSession(c)
        PROVE  SpentBefore' /\ RefreshOnce'
    <3>1. PICK t \in Token : t = request[c].token
      BY <1>2, <2>4, RotationKnown
    <3>2. /\ t.session \in DOMAIN sessions /\ Rotates(t) /\ spent' = spent \cup {t}
          /\ DOMAIN sessions' = DOMAIN sessions
          /\ \A s \in DOMAIN sessions :
               sessions'[s].pair = IF s = t.session THEN sessions[s].pair + 1
                                                    ELSE sessions[s].pair
      BY <1>2, <2>4, <3>1, RotationKnown
    <3>3. \A s \in DOMAIN sessions : sessions[s].pair \in Nat
      BY Tables, BoundsAssumption DEF Session
    <3>4. t.pair = sessions[t.session].pair
      BY <3>2 DEF Rotates, Live
    <3>5. t \notin spent
      BY <1>2, <3>3, <3>4
    <3>6. SpentBefore'
      <4>1. IsFiniteSet(spent')
        BY <1>2, <3>2, FS_AddElement
      <4>2. ASSUME NEW x \in spent'
            PROVE  x.session \in DOMAIN sessions' /\ x.pair < sessions'[x.session].pair
        <5>1. CASE x = t
          BY <3>2, <3>3, <3>4, <5>1
        <5>2. CASE x \in spent
          <6>1. x.session \in DOMAIN sessions /\ x.pair < sessions[x.session].pair
            BY <1>2, <5>2
          <6>2. x.pair \in Nat
            BY <5>2 DEF TypeOK, Token
          <6>3. QED
            BY <3>2, <3>3, <6>1, <6>2
        <5>3. QED
          BY <3>2, <4>2, <5>1, <5>2
      <4>3. QED
        BY <4>1, <4>2 DEF SpentBefore
    <3>7. ASSUME NEW s \in DOMAIN sessions'
          PROVE  sessions'[s].pair = Cardinality({x \in spent' : x.session = s})
      <4>1. s \in DOMAIN sessions
        BY <3>2, <3>7
      <4>2. sessions[s].pair = Cardinality({x \in spent : x.session = s})
        BY <1>3, <4>1
      <4>3. CASE s = t.session
        <5>1. {x \in spent' : x.session = s} = {x \in spent : x.session = s} \cup {t}
          BY <3>2, <4>3
        <5>2. IsFiniteSet({x \in spent : x.session = s})
          BY <1>2, FS_Subset
        <5>3. Cardinality({x \in spent : x.session = s} \cup {t})
                = Cardinality({x \in spent : x.session = s}) + 1
          BY <3>5, <5>2, FS_AddElement
        <5>4. sessions'[s].pair = sessions[s].pair + 1
          BY <3>2, <4>1, <4>3
        <5>5. QED
          BY <4>2, <5>1, <5>3, <5>4
      <4>4. CASE s # t.session
        <5>1. {x \in spent' : x.session = s} = {x \in spent : x.session = s}
          BY <3>2, <4>4
        <5>2. sessions'[s].pair = sessions[s].pair
          BY <3>2, <4>1, <4>4
        <5>3. QED
          BY <4>2, <5>1, <5>2
      <4>5. QED
        BY <4>3, <4>4
    <3>8. QED
      BY <3>6, <3>7, Zenon DEF RefreshOnce
  <2>5. QED
    BY <2>1, <2>2, <2>3, <2>4, PairsStay, Writers
<1>5. QED
  BY <1>1, <1>4 DEF RefreshInv

\* However many requests present the same refresh token, it buys one new pair.
THEOREM TokensAreSpentOnce == Spec => []RefreshOnce
<1>1. Init => RefreshInv
  <2>1. IsFiniteSet({})
    BY FS_EmptySet
  <2>2. QED
    BY <2>1 DEF Init, Idle, RefreshInv, RotatesKnown, SpentBefore, RefreshOnce
<1>2. TypeOK /\ RefreshInv /\ [Next]_vars => RefreshInv'
  BY RefreshKept
<1>3. RefreshInv => RefreshOnce
  BY DEF RefreshInv
<1>4. QED
  BY <1>1, <1>2, <1>3, TypeCorrect, PTL DEF Spec

-----------------------------------------------------------------------------
(* Links.                                                                  *)

\* What a step writes of an account, and which step it is.
LEMMA AccountChanges ==
  ASSUME TypeOK, NEW c \in Clients, Step(c), NEW v \in Users
  PROVE  /\ users'[v].role # users[v].role => SetUserRoles(c) /\ v = request[c].user
         /\ users'[v].banned /\ ~users[v].banned => BanUser(c) /\ v = request[c].user
         /\ users'[v].password # users[v].password =>
              \E k \in DOMAIN links :
                ConfirmPasswordChange(c, k) /\ v = links[k].user /\ users'[v].password = k
<1>1. CASE users' = users
  BY <1>1
<1>2. CASE BanUser(c) \/ UnbanUser(c) \/ SetUserRoles(c)
  <2>1. CASE v = request[c].user
    BY <1>2, <2>1, ChangedUser
  <2>2. CASE v # request[c].user
    <3>1. users'[v] = users[v]
      BY <1>2, <2>2, ChangedUser
    <3>2. QED
      BY <3>1
  <2>3. QED
    BY <2>1, <2>2
<1>3. ASSUME NEW k \in DOMAIN links, ConfirmPasswordChange(c, k) \/ ConfirmEmailChange(c, k)
      PROVE  /\ users'[v].role = users[v].role
             /\ users'[v].banned = users[v].banned
             /\ users'[v].password # users[v].password =>
                  ConfirmPasswordChange(c, k) /\ v = links[k].user /\ users'[v].password = k
  <2>1. CASE v = links[k].user
    BY <1>3, <2>1, ConfirmedUser
  <2>2. CASE v # links[k].user
    <3>1. users'[v] = users[v]
      BY <1>3, <2>2, ConfirmedUser
    <3>2. QED
      BY <3>1
  <2>3. QED
    BY <2>1, <2>2
<1>4. \/ users' = users
      \/ BanUser(c) \/ UnbanUser(c) \/ SetUserRoles(c)
      \/ \E k \in DOMAIN links : ConfirmPasswordChange(c, k) \/ ConfirmEmailChange(c, k)
  BY DEF Step, Login, Refresh, Logout, Change, Administer, CreateSession, RotateSession,
         GetPasswordHash, RequestPasswordChange, RequestEmailChange, LockUser, Check, Abort
<1>5. QED
  BY <1>1, <1>2, <1>3, <1>4

\* Of two password links of one account the older is used or expired.
OneGoodLink ==
  \A k, j \in DOMAIN links :
    /\ k < j /\ links[k].user = links[j].user
    /\ links[k].kind = "password" /\ links[j].kind = "password"
    => links[k].used

\* A link that stays keeps what it is for, and once used it stays used.
LEMMA LinksKeep ==
  ASSUME TypeOK, NEW k \in DOMAIN links, NEW e, e \in {links[k], [links[k] EXCEPT !.used = TRUE]}
  PROVE  /\ e.user = links[k].user /\ e.kind = links[k].kind
         /\ links[k].used => e.used
  BY Tables DEF Link

LEMMA OneGoodLinkKept ==
  ASSUME TypeOK, OneGoodLink, [Next]_vars
  PROVE  OneGoodLink'
<1>1. CASE links' = links
  BY <1>1 DEF OneGoodLink
<1>2. ASSUME NEW k \in DOMAIN links, links' = [links EXCEPT ![k].used = TRUE]
      PROVE  OneGoodLink'
  <2>1. /\ DOMAIN links' = DOMAIN links
        /\ \A j \in DOMAIN links : links'[j] \in {links[j], [links[j] EXCEPT !.used = TRUE]}
    BY <1>2, UsedLink
  <2>2. \A j \in DOMAIN links :
          /\ links'[j].user = links[j].user /\ links'[j].kind = links[j].kind
          /\ links[j].used => links'[j].used
    BY <2>1, LinksKeep
  <2>3. QED
    BY <2>1, <2>2 DEF OneGoodLink
<1>3. ASSUME NEW c \in Clients, RequestPasswordChange(c) \/ RequestEmailChange(c)
      PROVE  OneGoodLink'
  <2>1. PICK old, link :
          /\ link \in Link /\ Mailed(old, link)
          /\ link.kind = "password" =>
               old = {k \in DOMAIN links : links[k].kind = "password" /\ links[k].user = link.user}
    <3>1. CASE RequestPasswordChange(c)
      <4> DEFINE u == request[c].user
                 link == [kind |-> "password", user |-> u, email |-> users[u].email,
                          used |-> FALSE]
                 old == {k \in DOMAIN links : links[k].kind = "password" /\ links[k].user = u}
      <4>1. u \in Users
        BY <3>1, Shapes DEF RequestPasswordChange
      <4>2. link \in Link /\ link.user = u
        BY <4>1 DEF TypeOK, User, Link
      <4>3. Mailed(old, link)
        BY <3>1 DEF RequestPasswordChange
      <4>4. old = {k \in DOMAIN links : links[k].kind = "password" /\ links[k].user = link.user}
        BY <4>2
      <4> HIDE DEF old, link
      <4>5. QED
        BY <4>2, <4>3, <4>4
    <3>2. CASE RequestEmailChange(c)
      <4> DEFINE u == request[c].user
                 email == request[c].wants
                 link == [kind |-> "email", user |-> u, email |-> email, used |-> FALSE]
                 old == {k \in DOMAIN links :
                           links[k].kind = "email" /\ (links[k].user = u \/ links[k].email = email)}
      <4>1. u \in Users /\ email \in Addresses
        BY <3>2, Shapes DEF RequestEmailChange
      <4>2. link \in Link /\ link.kind # "password"
        BY <4>1 DEF Link
      <4>3. Mailed(old, link)
        BY <3>2 DEF RequestEmailChange
      <4> HIDE DEF old, link
      <4>4. QED
        BY <4>2, <4>3
    <3>3. QED
      BY <1>3, <3>1, <3>2
  <2>2. PICK n \in Nat : n = Len(links) + 1
    BY Tables
  <2>3. /\ DOMAIN links' = 1 .. n /\ links'[n] = link
        /\ \A k \in DOMAIN links :
             links'[k] = IF k \in old THEN [links[k] EXCEPT !.used = TRUE] ELSE links[k]
    BY <2>1, <2>2, MailedLinks
  <2>4. \A k \in DOMAIN links :
          /\ links'[k].user = links[k].user /\ links'[k].kind = links[k].kind
          /\ links[k].used => links'[k].used
    BY <2>3, LinksKeep
  <2>5. \A k \in DOMAIN links : k \in old => links'[k].used
    BY <2>3, Tables DEF Link
  <2>6. DOMAIN links = 1 .. Len(links) /\ Len(links) \in Nat
    BY Tables
  <2>7. ASSUME NEW k \in DOMAIN links', NEW j \in DOMAIN links', k < j,
               links'[k].user = links'[j].user,
               links'[k].kind = "password", links'[j].kind = "password"
        PROVE  links'[k].used
    <3>1. k \in DOMAIN links
      BY <2>2, <2>3, <2>6, <2>7
    <3>2. CASE j = n
      <4>1. k \in old
        BY <2>1, <2>3, <2>4, <2>7, <3>1, <3>2
      <4>2. QED
        BY <2>5, <3>1, <4>1
    <3>3. CASE j \in DOMAIN links
      BY <2>4, <2>7, <3>1, <3>3 DEF OneGoodLink
    <3>4. QED
      BY <2>2, <2>3, <2>6, <2>7, <3>2, <3>3
  <2>8. QED
    BY <2>7 DEF OneGoodLink
<1>4. \/ links' = links
      \/ \E c \in Clients : RequestPasswordChange(c) \/ RequestEmailChange(c)
      \/ \E k \in DOMAIN links : links' = [links EXCEPT ![k].used = TRUE]
  BY Writers DEF CreateSession, RotateSession, Logout, ConfirmPasswordChange,
                 ConfirmEmailChange, BanUser, UnbanUser, SetUserRoles, Commits
<1>5. QED
  BY <1>1, <1>2, <1>3, <1>4

\* A password is set by the link that was mailed last, to the address that the
\* account still has, and by no link twice.
THEOREM OnlyTheLatestLink == Spec => LatestLinkWins
<1>1. Init => OneGoodLink
  BY DEF Init, OneGoodLink
<1>2. TypeOK /\ OneGoodLink /\ [Next]_vars => OneGoodLink'
  BY OneGoodLinkKept
<1>3. TypeOK /\ OneGoodLink /\ [Next]_vars =>
        [\A u \in Users : users'[u].password # users[u].password =>
           LET k == users'[u].password
           IN /\ links[k].user = u /\ links[k].kind = "password" /\ ~links[k].used
              /\ links[k].email = users[u].email
              /\ \A j \in k + 1 .. Len(links) :
                   links[j].user = u => links[j].kind # "password"]_vars
  <2> SUFFICES ASSUME TypeOK, OneGoodLink, Next, NEW u \in Users,
                      users'[u].password # users[u].password
               PROVE  LET k == users'[u].password
                      IN /\ links[k].user = u /\ links[k].kind = "password" /\ ~links[k].used
                         /\ links[k].email = users[u].email
                         /\ \A j \in k + 1 .. Len(links) :
                              links[j].user = u => links[j].kind # "password"
    OBVIOUS
  <2>1. PICK c \in Clients : Step(c)
    BY DEF Next, Step
  <2>2. PICK k \in DOMAIN links :
          ConfirmPasswordChange(c, k) /\ u = links[k].user /\ users'[u].password = k
    BY <2>1, AccountChanges
  <2>3. /\ links[k].kind = "password" /\ ~links[k].used
        /\ links[k].email = users[u].email
    BY <2>2 DEF ConfirmPasswordChange, Confirmable
  <2>4. ASSUME NEW j \in k + 1 .. Len(links), links[j].user = u
        PROVE  links[j].kind # "password"
    <3>1. j \in DOMAIN links /\ k < j
      BY Tables
    <3>2. QED
      BY <2>2, <2>3, <2>4, <3>1 DEF OneGoodLink
  <2>5. QED
    BY <2>2, <2>3, <2>4
<1>4. QED
  BY <1>1, <1>2, <1>3, TypeCorrect, PTL DEF Spec, LatestLinkWins

-----------------------------------------------------------------------------
(* Owners.                                                                 *)

\* No two transactions have the same account locked.
Exclusion ==
  \A c, d \in Clients : c # d => Holds(c) \cap Holds(d) = {}

\* A ban that is about to be written is not an owner's.
BansDecided ==
  \A c \in Clients : request[c].pc = "commit" /\ request[c].op = "ban"
    => users[request[c].user].role # "owner"

\* A role that is about to be taken from an owner leaves another one.
RolesDecided ==
  \A c \in Clients :
    /\ request[c].pc = "commit" /\ request[c].op = "roles" /\ request[c].role # "owner"
    /\ users[request[c].user].role = "owner"
    => ActiveOwners \ {request[c].user} # {}

\* Without overlap one request is under way at a time.
OneAtATime ==
  \A c, d \in Clients : c # d => request[c] = Idle \/ request[d] = Idle

\* A step moves one request, and only LockUser takes a lock, only Check decides.
LEMMA Moves ==
  ASSUME TypeOK, NEW c \in Clients, Step(c)
  PROVE  /\ \A d \in Clients \ {c} : request'[d] = request[d]
         /\ request[c] = Idle => Begins(c)
         /\ faults' = faults
         /\ request'[c].pc = "commit" => /\ Check(c)
                                         /\ request'[c] = [request[c] EXCEPT !.pc = "commit"]
         /\ request'[c].pc \in {"check", "commit"} =>
              /\ request'[c].user = request[c].user
              /\ LockUser(c) \/ request[c].pc \in {"check", "commit"}
<1>1. request \in [Clients -> Request]
  BY DEF TypeOK
<1>2. CASE \/ CreateSession(c) \/ RotateSession(c) \/ RequestPasswordChange(c)
           \/ RequestEmailChange(c) \/ BanUser(c) \/ UnbanUser(c) \/ SetUserRoles(c) \/ Abort(c)
  <2>1. /\ request' = [request EXCEPT ![c] = Idle] /\ faults' = faults
        /\ request[c].pc \in {"insert", "rotate", "submit", "commit"} \/ request[c] # Idle
    BY <1>2 DEF CreateSession, RotateSession, RequestPasswordChange, RequestEmailChange,
                BanUser, UnbanUser, SetUserRoles, Commits, Abort
  <2>2. QED
    BY <1>1, <2>1 DEF Idle
<1>3. CASE \/ \E t \in Token : Logout(c, t)
           \/ \E k \in DOMAIN links : ConfirmPasswordChange(c, k) \/ ConfirmEmailChange(c, k)
  <2>1. request' = request /\ faults' = faults /\ Begins(c) /\ request[c] = Idle
    BY <1>3 DEF Logout, ConfirmPasswordChange, ConfirmEmailChange, Begins
  <2>2. QED
    BY <2>1 DEF Idle
<1>4. CASE \/ \E u \in Users : Login(c, u)
           \/ \E t \in Token : Refresh(c, t)
           \/ \E t \in Token, u \in Users, wants \in {"password"} \cup Addresses :
                Change(c, t, u, wants)
           \/ \E t \in Token, actor, u \in Users, op \in {"ban", "unban", "roles"},
                 role \in RoleInput : Administer(c, t, actor, op, u, role)
  <2>1. \E r : /\ request' = [request EXCEPT ![c] = r]
               /\ r.pc \in {"insert", "rotate", "verify", "lock"}
    <3>1. ASSUME NEW u \in Users, Login(c, u)
          PROVE  <2>1
      <4> DEFINE r == [pc |-> "insert", user |-> u, password |-> users[u].password]
      <4>1. request' = [request EXCEPT ![c] = r] /\ r.pc = "insert"
        BY <3>1 DEF Login
      <4> HIDE DEF r
      <4>2. QED
        BY <4>1
    <3>2. ASSUME NEW t \in Token, Refresh(c, t)
          PROVE  <2>1
      <4> DEFINE r == [pc |-> "rotate", token |-> t]
      <4>1. request' = [request EXCEPT ![c] = r] /\ r.pc = "rotate"
        BY <3>2 DEF Refresh
      <4> HIDE DEF r
      <4>2. QED
        BY <4>1
    <3>3. ASSUME NEW t \in Token, NEW u \in Users, NEW wants \in {"password"} \cup Addresses,
                 Change(c, t, u, wants)
          PROVE  <2>1
      <4> DEFINE r == [pc |-> "verify", user |-> u, wants |-> wants]
      <4>1. request' = [request EXCEPT ![c] = r] /\ r.pc = "verify"
        BY <3>3 DEF Change
      <4> HIDE DEF r
      <4>2. QED
        BY <4>1
    <3>4. ASSUME NEW t \in Token, NEW actor \in Users, NEW u \in Users,
                 NEW op \in {"ban", "unban", "roles"}, NEW role \in RoleInput,
                 Administer(c, t, actor, op, u, role)
          PROVE  <2>1
      <4> DEFINE r == [pc |-> "lock", op |-> op, actor |-> actor,
                       privileged |-> users[actor].role = "owner", user |-> u, role |-> role]
      <4>1. request' = [request EXCEPT ![c] = r] /\ r.pc = "lock"
        BY <3>4 DEF Administer
      <4> HIDE DEF r
      <4>2. QED
        BY <4>1
    <3>5. QED
      BY <1>4, <3>1, <3>2, <3>3, <3>4
  <2>2. Begins(c) /\ faults' = faults
    BY <1>4 DEF Login, Refresh, Change, Administer
  <2>3. QED
    BY <1>1, <2>1, <2>2
<1>5. CASE GetPasswordHash(c)
  <2>1. /\ request' = [request EXCEPT ![c].pc = "submit"] /\ request[c].pc = "verify"
        /\ faults' = faults
    BY <1>5 DEF GetPasswordHash
  <2>2. QED
    BY <1>1, <2>1, Shapes DEF Idle
<1>6. CASE LockUser(c)
  <2>1. /\ request' = [request EXCEPT ![c].pc = "check"] /\ request[c].pc = "lock"
        /\ faults' = faults
    BY <1>6 DEF LockUser
  <2>2. QED
    BY <1>1, <1>6, <2>1, Shapes DEF Idle
<1>7. CASE Check(c)
  <2>1. /\ request' = [request EXCEPT ![c].pc = "commit"] /\ request[c].pc = "check"
        /\ faults' = faults
    BY <1>7 DEF Check
  <2>2. QED
    BY <1>1, <1>7, <2>1, Shapes DEF Idle
<1>8. QED
  BY <1>2, <1>3, <1>4, <1>5, <1>6, <1>7 DEF Step

LEMMA ExclusionKept ==
  ASSUME TypeOK, Exclusion, NEW c \in Clients, Step(c)
  PROVE  Exclusion'
<1>1. ASSUME NEW d \in Clients \ {c}
      PROVE  Holds(d)' = Holds(d)
  BY Moves DEF Holds
<1>2. Holds(c)' \subseteq Holds(c) \/ (LockUser(c) /\ Holds(c)' \subseteq {request[c].user})
  BY Moves DEF Holds
<1>3. ASSUME NEW d \in Clients \ {c}
      PROVE  Holds(c)' \cap Holds(d)' = {}
  <2>1. CASE Holds(c)' \subseteq Holds(c)
    BY <1>1, <2>1 DEF Exclusion
  <2>2. CASE LockUser(c) /\ Holds(c)' \subseteq {request[c].user}
    BY <1>1, <2>2 DEF LockUser, Free
  <2>3. QED
    BY <1>2, <2>1, <2>2
<1>4. QED
  BY <1>1, <1>3 DEF Exclusion

LEMMA BansDecidedKept ==
  ASSUME TypeOK, Exclusion, BansDecided, NEW c \in Clients, Step(c)
  PROVE  BansDecided'
<1>1. SUFFICES ASSUME NEW d \in Clients, request'[d].pc = "commit", request'[d].op = "ban"
               PROVE  users'[request'[d].user].role # "owner"
  BY DEF BansDecided
<1>2. CASE d = c
  <2>1. /\ Check(c) /\ request'[c] = [request[c] EXCEPT !.pc = "commit"]
    BY <1>1, <1>2, Moves
  <2>2. /\ request'[c].user = request[c].user /\ request'[c].op = request[c].op
        /\ users' = users /\ Permitted(request[c])
    BY <2>1, Shapes DEF Check
  <2>3. QED
    BY <1>1, <1>2, <2>2 DEF Permitted
<1>3. CASE d # c
  <2>1. request'[d] = request[d]
    BY <1>3, Moves
  <2>2. users[request[d].user].role # "owner" /\ request[d].user \in Users
    BY <1>1, <2>1, Shapes DEF BansDecided
  <2>3. ~(SetUserRoles(c) /\ request[d].user = request[c].user)
    BY <1>1, <1>3, <2>1 DEF Exclusion, Holds, SetUserRoles, Commits
  <2>4. users'[request[d].user].role = users[request[d].user].role
    BY <2>2, <2>3, AccountChanges
  <2>5. QED
    BY <2>1, <2>2, <2>4
<1>4. QED
  BY <1>2, <1>3

\* A ban never lands on an active owner, also when the role is granted while the
\* ban is being decided.
THEOREM NoOwnerIsBanned == Spec => OwnersAreNeverBanned
<1> DEFINE I == Exclusion /\ BansDecided
<1>1. Init => I
  BY DEF Init, Idle, Exclusion, BansDecided, Holds
<1>2. TypeOK /\ I /\ [Next]_vars => I'
  <2>1. TypeOK /\ I /\ Next => I'
    <3> SUFFICES ASSUME TypeOK, I, Next PROVE I'
      OBVIOUS
    <3>1. PICK c \in Clients : Step(c)
      BY DEF Next, Step
    <3>2. QED
      BY <3>1, ExclusionKept, BansDecidedKept
  <2>2. TypeOK /\ I /\ UNCHANGED vars => I'
    BY DEF vars, Exclusion, BansDecided, Holds
  <2>3. QED
    BY <2>1, <2>2
<1>3. TypeOK /\ I /\ [Next]_vars => [\A u \in ActiveOwners : ~users'[u].banned]_vars
  <2> SUFFICES ASSUME TypeOK, I, Next, NEW u \in ActiveOwners PROVE ~users'[u].banned
    OBVIOUS
  <2>1. PICK c \in Clients : Step(c)
    BY DEF Next, Step
  <2>2. u \in Users /\ users[u].role = "owner" /\ ~users[u].banned
    BY DEF ActiveOwners
  <2>3. ~(BanUser(c) /\ u = request[c].user)
    BY <2>2 DEF BansDecided, BanUser, Commits
  <2>4. QED
    BY <2>1, <2>2, <2>3, AccountChanges
<1> HIDE DEF I
<1>4. QED
  BY <1>1, <1>2, <1>3, TypeCorrect, PTL DEF Spec, OwnersAreNeverBanned

\* While requests come one after the other, what was decided still holds when it
\* is written.
OwnerInv ==
  "overlap" \notin faults => OneAtATime /\ RolesDecided /\ ActiveOwners # {}

LEMMA OneAtATimeKept ==
  ASSUME TypeOK, OneAtATime, "overlap" \notin faults, NEW c \in Clients, Step(c)
  PROVE  /\ \A d \in Clients \ {c} : request[d] = Idle
         /\ OneAtATime'
<1>1. \A d \in Clients \ {c} : request[d] = Idle
  BY Moves DEF OneAtATime, Begins
<1>2. \A d \in Clients \ {c} : request'[d] = Idle
  BY <1>1, Moves DEF Idle
<1>3. QED
  BY <1>1, <1>2 DEF OneAtATime, Idle

\* Two owners counted are one and another.
LEMMA Another ==
  ASSUME NEW S, NEW u, Cardinality(S) > 1
  PROVE  S \ {u} # {}
<1>1. SUFFICES ASSUME S \subseteq {u} PROVE FALSE
  OBVIOUS
<1>2. IsFiniteSet({u}) /\ Cardinality({u}) = 1
  BY FS_Singleton
<1>3. Cardinality(S) \in Nat /\ Cardinality(S) <= 1
  BY <1>1, <1>2, FS_Subset, FS_CardinalityType
<1>4. QED
  BY <1>3

LEMMA OwnersKept ==
  ASSUME TypeOK, BansDecided, RolesDecided, ActiveOwners # {}, NEW c \in Clients, Step(c)
  PROVE  ActiveOwners' # {}
<1>1. CASE SetUserRoles(c) /\ request[c].role # "owner"
           /\ users[request[c].user].role = "owner"
  <2>1. PICK v \in ActiveOwners : v # request[c].user
    BY <1>1 DEF RolesDecided, SetUserRoles, Commits
  <2>2. v \in Users /\ users'[v] = users[v]
    BY <1>1, <2>1, ChangedUser DEF ActiveOwners
  <2>3. v \in ActiveOwners'
    BY <2>1, <2>2 DEF ActiveOwners
  <2>4. QED
    BY <2>3
<1>2. CASE ~(SetUserRoles(c) /\ request[c].role # "owner"
             /\ users[request[c].user].role = "owner")
  <2>1. PICK v \in Users : users[v].role = "owner" /\ ~users[v].banned
    BY DEF ActiveOwners
  <2>2. users'[v].role = "owner"
    <3>1. CASE SetUserRoles(c) /\ v = request[c].user
      <4>1. users'[v].role = Normalized(request[c].role)
        BY <3>1, ChangedUser
      <4>2. request[c].role = "owner"
        BY <1>2, <2>1, <3>1
      <4>3. QED
        BY <4>1, <4>2 DEF Normalized
    <3>2. CASE ~(SetUserRoles(c) /\ v = request[c].user)
      BY <2>1, <3>2, AccountChanges
    <3>3. QED
      BY <3>1, <3>2
  <2>3. ~(BanUser(c) /\ v = request[c].user)
    BY <2>1 DEF BansDecided, BanUser, Commits
  <2>4. ~users'[v].banned
    <3>1. users[v].banned \in BOOLEAN
      BY DEF TypeOK, User
    <3>2. QED
      BY <2>1, <2>3, <3>1, AccountChanges
  <2>5. v \in ActiveOwners'
    BY <2>2, <2>4 DEF ActiveOwners
  <2>6. QED
    BY <2>5
<1>3. QED
  BY <1>1, <1>2

LEMMA RolesDecidedKept ==
  ASSUME TypeOK, NEW c \in Clients, Step(c),
         \A d \in Clients \ {c} : request[d] = Idle
  PROVE  RolesDecided'
<1>1. SUFFICES ASSUME NEW d \in Clients,
                      request'[d].pc = "commit", request'[d].op = "roles",
                      request'[d].role # "owner", users'[request'[d].user].role = "owner"
               PROVE  ActiveOwners' \ {request'[d].user} # {}
  BY DEF RolesDecided
<1>2. d = c
  <2>1. d # c => request'[d] = Idle
    BY Moves
  <2>2. request'[d] # Idle
    BY <1>1 DEF Idle
  <2>3. QED
    BY <2>1, <2>2
<1>3. Check(c) /\ request'[c] = [request[c] EXCEPT !.pc = "commit"]
  BY <1>1, <1>2, Moves
<1>4. /\ request'[c].user = request[c].user /\ request'[c].op = request[c].op
      /\ request'[c].role = request[c].role
      /\ users' = users /\ Permitted(request[c])
  BY <1>3, Shapes DEF Check
<1>5. Cardinality(ActiveOwners) > 1
  BY <1>1, <1>2, <1>4 DEF Permitted
<1>6. ActiveOwners' = ActiveOwners
  BY <1>4 DEF ActiveOwners
<1>7. QED
  BY <1>2, <1>4, <1>5, <1>6, Another

\* "The last active owner cannot be removed", when administrators act one after
\* the other.
THEOREM AnOwnerRemains == Spec => []OwnerRemains
<1> DEFINE I == Exclusion /\ BansDecided /\ OwnerInv
<1>1. Init => I
  <2> SUFFICES ASSUME Init PROVE I
    OBVIOUS
  <2>1. Exclusion /\ BansDecided /\ OneAtATime /\ RolesDecided
    BY DEF Init, Idle, Exclusion, BansDecided, OneAtATime, RolesDecided, Holds
  <2>2. PICK owner \in Users, e \in [Users -> Addresses] :
          users = [u \in Users |-> [email    |-> e[u],
                                    role     |-> IF u = owner THEN "owner" ELSE "user",
                                    banned   |-> FALSE,
                                    password |-> 0]]
    BY DEF Init
  <2>3. owner \in ActiveOwners
    BY <2>2 DEF ActiveOwners
  <2>4. QED
    BY <2>1, <2>3 DEF OwnerInv
<1>2. TypeOK /\ I /\ [Next]_vars => I'
  <2>1. TypeOK /\ I /\ Next => I'
    <3> SUFFICES ASSUME TypeOK, I, Next PROVE I'
      OBVIOUS
    <3>1. PICK c \in Clients : Step(c)
      BY DEF Next, Step
    <3>2. Exclusion' /\ BansDecided' /\ faults' = faults
      BY <3>1, ExclusionKept, BansDecidedKept, Moves
    <3>3. ASSUME "overlap" \notin faults
          PROVE  OneAtATime' /\ RolesDecided' /\ ActiveOwners' # {}
      BY <3>1, <3>3, OneAtATimeKept, RolesDecidedKept, OwnersKept DEF OwnerInv
    <3>4. QED
      BY <3>2, <3>3 DEF OwnerInv
  <2>2. TypeOK /\ I /\ UNCHANGED vars => I'
    BY DEF vars, Exclusion, BansDecided, Holds, OwnerInv, OneAtATime, RolesDecided, ActiveOwners
  <2>3. QED
    BY <2>1, <2>2
<1>3. I => OwnerRemains
  BY DEF OwnerInv, OwnerRemains
<1> HIDE DEF I
<1>4. QED
  BY <1>1, <1>2, <1>3, TypeCorrect, PTL DEF Spec
=============================================================================
