-------------------------- MODULE JobRows_proofs ---------------------------
(***************************************************************************)
(* What the statements on a row do to the three things the proofs need:    *)
(* its type, its status and its number of attempts.                        *)
(***************************************************************************)
EXTENDS JobRows, TLAPS

LEMMA NewRowFacts ==
  /\ NewRow \in Row /\ NewRow.status = "pending" /\ NewRow.attempts = 0
  /\ NoRow \in Row /\ NoRow.status = "absent" /\ NoRow.attempts = 0
  BY MaxAttemptsAssumption DEF NewRow, NoRow, Row, JobStatus

LEMMA ClaimedByFacts ==
  ASSUME NEW row \in Row, NEW w \in Workers, row.attempts < MaxAttempts
  PROVE  /\ ClaimedBy(row, w) \in Row
         /\ ClaimedBy(row, w).status = "running"
         /\ ClaimedBy(row, w).attempts = row.attempts + 1
<1>1. row.attempts + 1 \in 0 .. MaxAttempts
  BY MaxAttemptsAssumption DEF Row
<1>2. \A n \in 0 .. MaxAttempts :
        [row EXCEPT !.status = "running", !.attempts = n, !.lockedBy = w] \in Row
  BY DEF Row, JobStatus
<1>3. ClaimedBy(row, w) \in Row
  BY <1>1, <1>2 DEF ClaimedBy
<1>4. /\ ClaimedBy(row, w).status = "running"
      /\ ClaimedBy(row, w).attempts = row.attempts + 1
  BY DEF ClaimedBy, Row
<1> QED
  BY <1>3, <1>4

LEMMA MarkedSucceededFacts ==
  ASSUME NEW row \in Row
  PROVE  /\ MarkedSucceeded(row) \in Row
         /\ MarkedSucceeded(row).status = "succeeded"
         /\ MarkedSucceeded(row).attempts = row.attempts
  BY DEF MarkedSucceeded, Row, JobStatus

LEMMA MarkedFailedFacts ==
  ASSUME NEW row \in Row, NEW attempt \in Nat
  PROVE  /\ MarkedFailed(row, attempt) \in Row
         /\ MarkedFailed(row, attempt).attempts = row.attempts
         /\ MarkedFailed(row, attempt).status =
              IF attempt >= MaxAttempts THEN "dead" ELSE "pending"
  BY MaxAttemptsAssumption DEF MarkedFailed, GivenUp, PutBack, Row, JobStatus

LEMMA RetriedFacts ==
  ASSUME NEW row \in Row
  PROVE  /\ Retried(row) \in Row
         /\ Retried(row).status = "pending"
         /\ Retried(row).attempts = 0
  BY NewRowFacts DEF Retried

LEMMA MadeDueFacts ==
  ASSUME NEW row \in Row
  PROVE  /\ MadeDue(row) \in Row
         /\ MadeDue(row).status = row.status
         /\ MadeDue(row).attempts = row.attempts
  BY DEF MadeDue, Row, JobStatus
=============================================================================
