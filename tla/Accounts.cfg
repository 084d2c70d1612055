SPECIFICATION AccountsSpec
CONSTANTS
  Users = {u1, u2}
  Clients = {c1, c2}
  Addresses = {a1, a2, a3}
  MaxSessions = 2
  MaxRotations = 2
  MaxLinks = 2
  MaxRequests = 5
  FaultSets = {{}, {"overlap"}}
  Mailboxes = {m1, m2}
  NoAddress = noaddress
  MaxTokens = 3
  DailyLimit = 1
  MaxTries = 2
  MaxClaims = 2
  Comments = {k1, k2}
  NoComment = nocomment
  Reports = {r1}
  Unresolved = unresolved
INVARIANTS Typed SessionsEndWithTheirGrounds RefreshOnce OwnerRemains
INVARIANTS VerifiedMeansProven LinksAreSingle MailsWithinLimit CountersMatchRows
PROPERTIES LatestLinkWins OwnersAreNeverBanned
SYMMETRY Interchangeable
CHECK_DEADLOCK FALSE
