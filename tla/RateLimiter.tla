----------------------------- MODULE RateLimiter -----------------------------
(***************************************************************************)
(* The fixed-window limit of one caller on one kind of request: a counter  *)
(* in Redis, incremented by every request and removed by its expiry, which *)
(* the request that created it sets with a second command.                 *)
(***************************************************************************)
EXTENDS Integers

CONSTANTS
  Callers,    \* requests of the caller under way at the same time
  Limit,      \* requests that a window lets through
  MaxCount,   \* bound: requests in one window
  Disruptions \* the environments considered, each a set of disruption kinds

VARIABLES
  count,      \* the counter; 0 is no key
  expires,    \* the key has an expiry
  call,       \* what each request has been told
  passed,     \* history: requests let through since the key was created
  disrupted   \* chosen once: "error", a command fails, before or after it was
              \* executed; "stop", the API stops between two commands

vars == <<count, expires, call, passed, disrupted>>

Call == [pc : {"idle", "expire", "refused", "passed", "unavailable"}]

Idle == [pc |-> "idle"]

TypeOK ==
  /\ count \in 0 .. MaxCount
  /\ expires \in BOOLEAN
  /\ call \in [Callers -> Call]
  /\ passed \in 0 .. MaxCount
  /\ disrupted \in Disruptions

Init ==
  /\ count = 0
  /\ expires = FALSE
  /\ call = [c \in Callers |-> Idle]
  /\ passed = 0
  /\ disrupted \in Disruptions

-----------------------------------------------------------------------------
Goto(c, pc) == call' = [call EXCEPT ![c].pc = pc]

\* count <= limit.  A key is created with 1, so whoever goes on to set its
\* expiry is let through.
Decide(c, seen) ==
  IF seen <= Limit THEN /\ Goto(c, "passed") /\ passed' = passed + 1
                   ELSE /\ Goto(c, "refused") /\ UNCHANGED passed

\* INCR: the first request goes on to EXPIRE, the others are decided.
Incr(c) ==
  /\ call[c].pc = "idle"
  /\ count < MaxCount
  /\ count' = count + 1
  /\ IF count' = 1 THEN Goto(c, "expire") /\ UNCHANGED passed ELSE Decide(c, count')
  /\ UNCHANGED <<expires, disrupted>>

\* Mutant: the second command is left out.
ExpireNever(c) ==
  /\ call[c].pc = "expire"
  /\ Decide(c, 1)
  /\ UNCHANGED <<count, expires, disrupted>>

Expire(c) ==
  /\ call[c].pc = "expire"
  /\ expires' = (count > 0)
  /\ Decide(c, 1)
  /\ UNCHANGED <<count, disrupted>>

\* The first command is reported as failed, executed or not: 503.
IncrErrs(c) ==
  /\ "error" \in disrupted
  /\ call[c].pc = "idle"
  /\ count' = count \/ (count < MaxCount /\ count' = count + 1)
  /\ Goto(c, "unavailable")
  /\ UNCHANGED <<expires, passed, disrupted>>

ExpireErrs(c) ==
  /\ "error" \in disrupted
  /\ call[c].pc = "expire"
  /\ expires' \in {expires, count > 0}
  /\ Goto(c, "unavailable")
  /\ UNCHANGED <<count, passed, disrupted>>

Stop(c) ==
  /\ "stop" \in disrupted
  /\ call[c].pc = "expire"
  /\ Goto(c, "idle")
  /\ UNCHANGED <<count, expires, passed, disrupted>>

Answered(c) ==
  /\ call[c].pc \in {"refused", "passed", "unavailable"}
  /\ Goto(c, "idle")
  /\ UNCHANGED <<count, expires, passed, disrupted>>

\* Redis removes a key whose expiry is over.
WindowEnds ==
  /\ count > 0 /\ expires
  /\ count' = 0
  /\ expires' = FALSE
  /\ passed' = 0
  /\ UNCHANGED <<call, disrupted>>

Next ==
  \/ \E c \in Callers :
       Incr(c) \/ Expire(c) \/ IncrErrs(c) \/ ExpireErrs(c) \/ Stop(c) \/ Answered(c)
  \/ WindowEnds

\* A command ends within the second that its context gives it, and time passes.
Fairness == (\A c \in Callers : WF_vars(Expire(c))) /\ WF_vars(WindowEnds)

FairSpec == Init /\ [][Next]_vars /\ Fairness

-----------------------------------------------------------------------------
PassedWithinLimit == passed <= Limit

\* No window lets more than its limit through, also when requests arrive
\* together; and unless a command fails or the API stops between the two,
\* whoever is refused is not refused for ever.
LimitHolds ==
  /\ []PassedWithinLimit
  /\ (disrupted = {}) => ((count > Limit) ~> (count = 0))
=============================================================================
