---------------------------- MODULE WorkDelivery ----------------------------
(***************************************************************************)
(* What the job table promises its users, without rows, locks or marks:    *)
(* work that is offered is executed by at most one worker at a time, at    *)
(* most MaxAttempts times before it is given up, never again once it is    *)
(* done, and again after it was given up only when an operator asks.       *)
(* It does not promise that work whose worker vanished is taken up again.  *)
(* Where replies can be lost it promises less: work may be started without *)
(* anyone noticing, and what is done may be handed out again, but still to *)
(* one worker at a time and MaxAttempts times at most.                     *)
(***************************************************************************)
EXTENDS Naturals

CONSTANTS Tasks, Workers, MaxAttempts

VARIABLES
  phase,   \* where each task is
  tries,   \* executions begun since it was offered or revived
  holder,  \* the workers executing it
  lossy    \* whether replies can be lost: never changes

vars == <<phase, tries, holder, lossy>>

Init ==
  /\ phase = [t \in Tasks |-> "new"]
  /\ tries = [t \in Tasks |-> 0]
  /\ holder = [t \in Tasks |-> {}]
  /\ lossy \in BOOLEAN

Offer(t) ==
  /\ phase[t] = "new"
  /\ phase' = [phase EXCEPT ![t] = "waiting"]
  /\ UNCHANGED <<tries, holder, lossy>>

Start(t, w) ==
  /\ phase[t] = "waiting"
  /\ tries[t] < MaxAttempts
  /\ phase' = [phase EXCEPT ![t] = "active"]
  /\ tries' = [tries EXCEPT ![t] = @ + 1]
  /\ holder' = [holder EXCEPT ![t] = {w}]
  /\ UNCHANGED lossy

\* The worker that started it does not know.
StartUnnoticed(t) ==
  /\ lossy
  /\ phase[t] = "waiting"
  /\ tries[t] < MaxAttempts
  /\ phase' = [phase EXCEPT ![t] = "active"]
  /\ tries' = [tries EXCEPT ![t] = @ + 1]
  /\ UNCHANGED <<holder, lossy>>

\* The one worker that executes t; it may already have finished unnoticed.
Executes(w, t) ==
  /\ holder[t] = {w}
  /\ phase[t] = "active" \/ (lossy /\ phase[t] = "done")

Finish(t, w) ==
  /\ Executes(w, t)
  /\ phase' = [phase EXCEPT ![t] = "done"]
  /\ holder' = [holder EXCEPT ![t] = {}]
  /\ UNCHANGED <<tries, lossy>>

\* Done, but the worker still believes that it executes it.
FinishUnnoticed(t, w) ==
  /\ lossy
  /\ Executes(w, t)
  /\ phase' = [phase EXCEPT ![t] = "done"]
  /\ UNCHANGED <<tries, holder, lossy>>

GiveBack(t, w) ==
  /\ Executes(w, t)
  /\ phase' = [phase EXCEPT ![t] =
                 IF tries[t] = MaxAttempts THEN "abandoned" ELSE "waiting"]
  /\ holder' = [holder EXCEPT ![t] = {}]
  /\ UNCHANGED <<tries, lossy>>

Vanish(t, w) ==
  /\ Executes(w, t)
  /\ holder' = [holder EXCEPT ![t] = {}]
  /\ UNCHANGED <<phase, tries, lossy>>

Revive(t) ==
  /\ phase[t] = "abandoned"
  /\ phase' = [phase EXCEPT ![t] = "waiting"]
  /\ tries' = [tries EXCEPT ![t] = 0]
  /\ UNCHANGED <<holder, lossy>>

Next ==
  \E t \in Tasks :
    \/ Offer(t) \/ Revive(t) \/ StartUnnoticed(t)
    \/ \E w \in Workers :
         \/ Start(t, w) \/ Finish(t, w) \/ FinishUnnoticed(t, w)
         \/ GiveBack(t, w) \/ Vanish(t, w)

Spec == Init /\ [][Next]_vars
=============================================================================
