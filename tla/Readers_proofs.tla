--------------------------- MODULE Readers_proofs ---------------------------
(***************************************************************************)
(* Proofs about what the program shows to its readers, for every number of *)
(* items, jobs, rows, pages, bytes and requests: the search index, lists   *)
(* (L!), downloads (D!) and the rate limit (R!), and the system that TLC   *)
(* runs, where each takes its turn (MCReaders).                            *)
(*                                                                         *)
(* The index: Base says who holds which job.  An item is Settled if a job  *)
(* of it is Owed; or a worker has it InHand, and what it read is no older  *)
(* than what was announced; or the index is as new and no worker is about  *)
(* to write.  LastDeleteIsRight and Orderly are why that stays so, if no   *)
(* attempt fails and no transactions overlap: the last job of an item is a *)
(* delete only if the item is gone, and the jobs are claimed in the order  *)
(* in which they were queued.                                              *)
(***************************************************************************)
EXTENDS MCReaders, JobRows_proofs, FiniteSetTheorems, WellFoundedInduction, TLAPS

OneSearchWorker == \A v, w \in Workers : v = w

Free(j) == \A w \in Workers : At(w, "idle") \/ worker[w].job # j

Serves(w, c) == ~At(w, "idle") /\ Content(w) = c

\* What the rows of the tables have to do with each other.
TablesFit ==
  /\ \A c \in Contents : item[c].announced <= item[c].version
  /\ \A j \in Jobs : /\ rows[j].status = "absent" => payload[j].content = NoContent
                     /\ rows[j].status # "absent" => payload[j].content \in Contents
                     /\ rows[j].status = "pending" => rows[j].attempts < MaxAttempts

\* A worker has its job to itself: nobody else carries it out or changes it.
WorkersFit ==
  /\ \A w \in Workers : ~At(w, "idle") =>
       /\ worker[w].job \in Jobs
       /\ rows[worker[w].job].status = "running"
            \/ (At(w, "fail") /\ rows[worker[w].job].status = "succeeded")
       /\ rows[worker[w].job].attempts = worker[w].attempt
  /\ \A v, w \in Workers :
       ~At(v, "idle") /\ ~At(w, "idle") /\ worker[v].job = worker[w].job => v = w

Base == TypeOK /\ TablesFit /\ WorkersFit

\* A job of the item that has yet to be carried out and is in nobody's hands.
Owed(c) ==
  \E j \in Jobs : /\ payload[j].content = c
                  /\ rows[j].status \notin {"absent", "succeeded"}
                  /\ Free(j)

\* The worker reads the row, or has what the index must be given.
InHand(w, c) ==
  /\ Serves(w, c)
  /\ \/ At(w, "load")
     \/ At(w, "upsert") /\ item[c].shown /\ worker[w].document # NoDocument
          /\ worker[w].document \in item[c].announced .. item[c].version
     \/ At(w, "delete") /\ ~item[c].shown
     \/ At(w, "fail") /\ rows[worker[w].job].status = "running"

Settled(c) ==
  \/ Owed(c)
  \/ \E w \in Workers : InHand(w, c)
  \/ InStep(c) /\ \A w \in Workers : ~(Serves(w, c) /\ worker[w].pc \in {"upsert", "delete"})

\* The jobs are queued one after the other and claimed in that order.
Orderly ==
  /\ \A i, j \in Jobs : i < j /\ rows[i].status = "absent" => rows[j].status = "absent"
  /\ \A w \in Workers : ~At(w, "fail")
  /\ \A j \in Jobs : /\ rows[j].status \notin {"failed", "dead"}
                     /\ rows[j].status = "pending" => rows[j].due
  /\ \A i, j \in Jobs : i < j /\ rows[i].status = "pending" =>
                          rows[j].status \in {"pending", "absent"}

\* An item whose last job is a delete is off the catalogue.
LastDeleteIsRight(c) ==
  \A j \in Jobs :
    /\ payload[j] = [content |-> c, action |-> "delete_content"]
    /\ \A i \in Jobs : i > j => payload[i].content # c
    => ~item[c].shown

SearchInv ==
  /\ Base
  /\ faults \subseteq {"crash"} => Orderly /\ \A c \in Contents : LastDeleteIsRight(c)
  /\ OneSearchWorker =>
       \A c \in Contents : faults \subseteq {"crash"} \/ NeverWithdrawn(c) => Settled(c)

-----------------------------------------------------------------------------
(* The search index.                                                       *)

LEMMA SearchInvInit == Init => SearchInv
<1> SUFFICES ASSUME Init PROVE SearchInv OBVIOUS
<1>n. MaxJobs \in Nat /\ MaxEdits \in Nat /\ MaxAttempts \in Nat
  BY SearchAssumption, MaxAttemptsAssumption
<1>r. \A j \in Jobs : rows[j] = NoRow
  BY DEF Init
<1>p. \A j \in Jobs : payload[j] = [content |-> NoContent, action |-> "upsert_content"]
  BY DEF Init
<1>w. \A w \in Workers : worker[w] = Resting /\ At(w, "idle")
  <2>1. \A w \in Workers : worker[w] = Resting BY DEF Init
  <2>2. Resting.pc = "idle" BY DEF Resting
  <2> QED BY <2>1, <2>2 DEF At
<1>1. TypeOK
  <2>1. 0 \in Document BY <1>n, SMT DEF Document
  <2>2. item \in [Contents -> Item] BY <2>1 DEF Init, Item
  <2>3. index \in [Contents -> Document \cup {NoDocument}] BY DEF Init
  <2>4. rows \in [Jobs -> Row] BY NewRowFacts DEF Init
  <2>5. payload \in [Jobs -> Payload] BY DEF Init, Payload, Action
  <2>6. Resting \in Worker BY <1>n, SMT DEF Resting, Worker
  <2>7. worker \in [Workers -> Worker] BY <2>6 DEF Init
  <2> QED BY <2>2, <2>3, <2>4, <2>5, <2>7 DEF TypeOK, Init
<1>2. TablesFit
  <2>1. \A c \in Contents : item[c].announced = 0 /\ item[c].version = 0 BY DEF Init
  <2> QED BY <1>r, <1>p, <2>1, NewRowFacts DEF TablesFit
<1>3. WorkersFit BY <1>w DEF WorkersFit
<1>4. ASSUME NEW c \in Contents PROVE LastDeleteIsRight(c) /\ Settled(c)
  <2>1. ~item[c].shown /\ index[c] = NoDocument BY DEF Init
  <2>2. InStep(c) BY <2>1, Zenon DEF InStep
  <2> QED BY <2>1, <2>2, <1>w, Zenon DEF LastDeleteIsRight, Settled, Serves
<1>5. Orderly BY <1>r, <1>w, NewRowFacts DEF Orderly, At, Resting
<1> QED BY <1>1, <1>2, <1>3, <1>4, <1>5 DEF SearchInv, Base

\* What a worker holds, while it has a job.
LEMMA JobInHand ==
  ASSUME Base, NEW w \in Workers, ~At(w, "idle")
  PROVE  /\ worker[w] \in Worker
         /\ worker[w].job \in Jobs
         /\ rows[worker[w].job] \in Row
         /\ Content(w) \in Contents
         /\ rows[worker[w].job].status = "running"
              \/ (At(w, "fail") /\ rows[worker[w].job].status = "succeeded")
<1>1. worker[w] \in Worker BY DEF Base, TypeOK
<1>2. worker[w].job \in Jobs BY DEF Base, WorkersFit
<1>3. rows[worker[w].job].status = "running"
        \/ (At(w, "fail") /\ rows[worker[w].job].status = "succeeded")
  BY DEF Base, WorkersFit
<1> QED BY <1>1, <1>2, <1>3 DEF Base, TypeOK, TablesFit, Content

\* Steps of a worker between its claim and its last statement on the row.
LEMMA WorkerGoesOn ==
  ASSUME Base, NEW w \in Workers, ~At(w, "idle"), ~At(w, "fail"), NEW new \in Worker,
         new.pc # "idle", new.job = worker[w].job, new.attempt = worker[w].attempt,
         worker' = [worker EXCEPT ![w] = new],
         UNCHANGED <<item, rows, payload, faults>>,
         index' \in [Contents -> Document \cup {NoDocument}]
  PROVE  Base'
<1>1. worker' \in [Workers -> Worker] /\ worker'[w] = new
      /\ \A v \in Workers : v # w => worker'[v] = worker[v]
  BY DEF Base, TypeOK
<1>2. TypeOK' BY <1>1 DEF Base, TypeOK
<1>3. TablesFit' BY DEF Base, TablesFit
<1>4. rows[worker[w].job].status = "running" BY DEF Base, WorkersFit
<1>5. WorkersFit'
  <2>1. ASSUME NEW v \in Workers, worker'[v].pc # "idle"
        PROVE  /\ worker'[v].job = worker[v].job /\ worker'[v].attempt = worker[v].attempt
               /\ ~At(v, "idle") /\ worker[v].job \in Jobs
               /\ rows[worker[v].job].attempts = worker[v].attempt
               /\ rows[worker[v].job].status = "running"
                    \/ (worker'[v].pc = "fail" /\ rows[worker[v].job].status = "succeeded")
    BY <1>1, <1>4, <2>1 DEF Base, WorkersFit, At
  <2> QED BY <2>1, SMT DEF Base, WorkersFit, At
<1> QED BY <1>2, <1>3, <1>5 DEF Base

\* A job is queued, in the order of the jobs unless transactions overlap.
Queued(j, c, action) ==
  /\ rows[j].status = "absent"
  /\ "overlap" \in faults \/ \A i \in Jobs : i < j => rows[i].status # "absent"
  /\ rows' = [rows EXCEPT ![j] = NewRow]
  /\ payload' = [payload EXCEPT ![j] = [content |-> c, action |-> action]]

LEMMA QueuedFacts ==
  ASSUME Base, NEW j \in Jobs, NEW c \in Contents, NEW action \in Action, Queued(j, c, action)
  PROVE  /\ rows' \in [Jobs -> Row] /\ rows'[j] = NewRow
         /\ \A i \in Jobs : i # j => rows'[i] = rows[i]
         /\ payload' \in [Jobs -> Payload] /\ payload'[j] = [content |-> c, action |-> action]
         /\ \A i \in Jobs : i # j => payload'[i] = payload[i]
         /\ rows[j].status = "absent"
<1>1. rows \in [Jobs -> Row] /\ payload \in [Jobs -> Payload] BY DEF Base, TypeOK
<1>2. [content |-> c, action |-> action] \in Payload BY DEF Payload
<1> QED BY <1>1, <1>2, NewRowFacts DEF Queued

\* Without overlap it is the newest.
LEMMA QueuedIsLast ==
  ASSUME Orderly, "overlap" \notin faults,
         NEW j \in Jobs, NEW c, NEW action, Queued(j, c, action)
  PROVE  \A i \in Jobs : /\ i < j => rows[i].status # "absent"
                         /\ i >= j => rows[i].status = "absent"
  BY SMT DEF Queued, Orderly, Jobs

LEMMA QueuedKeepsBase ==
  ASSUME Base, NEW j \in Jobs, NEW c \in Contents, NEW action \in Action, Queued(j, c, action),
         item' \in [Contents -> Item],
         \A d \in Contents : item'[d].announced <= item'[d].version,
         UNCHANGED <<index, worker, faults>>
  PROVE  Base'
<1>1. /\ rows' \in [Jobs -> Row] /\ rows'[j] = NewRow
      /\ \A i \in Jobs : i # j => rows'[i] = rows[i]
      /\ payload' \in [Jobs -> Payload] /\ payload'[j] = [content |-> c, action |-> action]
      /\ \A i \in Jobs : i # j => payload'[i] = payload[i]
      /\ rows[j].status = "absent"
  BY QueuedFacts
<1>2. TypeOK' BY <1>1 DEF Base, TypeOK
<1>3. NewRow.status = "pending" /\ NewRow.attempts = 0 /\ 0 < MaxAttempts
  BY NewRowFacts, MaxAttemptsAssumption, SMT
<1>4. TablesFit'
  <2>1. ASSUME NEW i \in Jobs
        PROVE  /\ rows'[i].status = "absent" => payload'[i].content = NoContent
               /\ rows'[i].status # "absent" => payload'[i].content \in Contents
               /\ rows'[i].status = "pending" => rows'[i].attempts < MaxAttempts
    BY <1>1, <1>3 DEF Base, TablesFit
  <2> QED BY <2>1 DEF TablesFit
<1>5. WorkersFit'
  <2>1. \A w \in Workers : ~At(w, "idle") => worker[w].job # j /\ worker[w].job \in Jobs
    BY <1>1, JobInHand
  <2> QED BY <1>1, <2>1 DEF Base, WorkersFit, At
<1> QED BY <1>2, <1>4, <1>5 DEF Base

\* A row that no worker holds changes.
LEMMA RowKeepsBase ==
  ASSUME Base, NEW j \in Jobs, Free(j), NEW new \in Row,
         rows[j].status # "absent", new.status # "absent",
         new.status = "pending" => new.attempts < MaxAttempts,
         rows' = [rows EXCEPT ![j] = new], UNCHANGED <<item, index, payload, worker, faults>>
  PROVE  Base'
<1>1. rows' \in [Jobs -> Row] /\ rows'[j] = new /\ \A i \in Jobs : i # j => rows'[i] = rows[i]
  BY DEF Base, TypeOK
<1>2. TypeOK' BY <1>1 DEF Base, TypeOK
<1>3. TablesFit' BY <1>1, SMT DEF Base, TablesFit, Jobs
<1>4. WorkersFit' BY <1>1 DEF Base, WorkersFit, At, Free
<1> QED BY <1>2, <1>3, <1>4 DEF Base

\* A worker lets go of its job, whose row may change at the same time.
LEMMA LettingGoKeepsBase ==
  ASSUME Base, NEW w \in Workers, ~At(w, "idle"), NEW new \in Row,
         new.status # "absent", new.status = "pending" => new.attempts < MaxAttempts,
         rows' = [rows EXCEPT ![worker[w].job] = new], worker' = [worker EXCEPT ![w] = Resting],
         UNCHANGED <<item, index, payload, faults>>
  PROVE  Base'
<1> DEFINE j == worker[w].job
<1>0. j \in Jobs /\ rows[j].status # "absent" BY JobInHand
<1>1. rows' \in [Jobs -> Row] /\ rows'[j] = new /\ \A i \in Jobs : i # j => rows'[i] = rows[i]
  BY <1>0 DEF Base, TypeOK
<1>2. worker' \in [Workers -> Worker] /\ worker'[w].pc = "idle"
      /\ \A v \in Workers : v # w => worker'[v] = worker[v]
  <2>1. Resting \in Worker /\ Resting.pc = "idle"
    BY MaxAttemptsAssumption, SearchAssumption, SMT DEF Resting, Worker
  <2> QED BY <2>1 DEF Base, TypeOK
<1> HIDE DEF j
<1>3. TypeOK' BY <1>1, <1>2 DEF Base, TypeOK
<1>4. TablesFit' BY <1>0, <1>1, SMT DEF Base, TablesFit, Jobs
<1>5. WorkersFit'
  <2>1. ASSUME NEW v \in Workers, worker'[v].pc # "idle"
        PROVE  worker'[v] = worker[v] /\ ~At(v, "idle") /\ worker[v].job # j
    BY <1>2, <2>1 DEF Base, WorkersFit, At, j
  <2> QED BY <1>1, <2>1 DEF Base, WorkersFit, At
<1> QED BY <1>3, <1>4, <1>5 DEF Base

LEMMA NotHeld ==
  ASSUME Base, NEW j \in Jobs, rows[j].status \in {"pending", "failed", "dead", "absent"}
  PROVE  Free(j)
  BY JobInHand, Zenon DEF Free

LEMMA ClaimKeepsBase ==
  ASSUME Base, NEW w \in Workers, NEW j \in Jobs, Claim(w, j)
  PROVE  /\ Base'
         /\ rows' \in [Jobs -> Row] /\ rows'[j].status = "running"
         /\ \A i \in Jobs : i # j => rows'[i] = rows[i]
         /\ worker'[w].job = j /\ worker'[w].document = NoDocument
         /\ worker'[w].pc = IF payload[j].action = "delete_content" THEN "delete" ELSE "load"
         /\ \A v \in Workers : v # w => worker'[v] = worker[v]
<1> DEFINE new == [pc |-> IF payload[j].action = "delete_content" THEN "delete" ELSE "load",
                   job |-> j, attempt |-> rows[j].attempts + 1, document |-> NoDocument]
<1>1. /\ rows[j].status = "pending" /\ rows[j] \in Row /\ rows[j].attempts < MaxAttempts
      /\ At(w, "idle")
      /\ rows' = [rows EXCEPT ![j] = ClaimedBy(rows[j], w)]
      /\ worker' = [worker EXCEPT ![w] = new]
      /\ UNCHANGED <<item, index, payload, faults>>
  BY DEF Claim, Claimable, Base, TablesFit, TypeOK
<1>2. /\ ClaimedBy(rows[j], w) \in Row /\ ClaimedBy(rows[j], w).status = "running"
      /\ ClaimedBy(rows[j], w).attempts = rows[j].attempts + 1
  BY <1>1, ClaimedByFacts
<1>3. new \in Worker
  <2>1. rows[j].attempts + 1 \in 0 .. MaxAttempts
    BY <1>1, MaxAttemptsAssumption, SMT DEF Row
  <2>2. j \in 0 .. MaxJobs BY SMT DEF Jobs
  <2> QED BY <2>1, <2>2 DEF Worker
<1>4. new.pc # "idle" /\ new.pc # "fail" /\ new.job = j /\ new.attempt = rows[j].attempts + 1
      /\ new.pc = (IF payload[j].action = "delete_content" THEN "delete" ELSE "load")
      /\ new.document = NoDocument
  OBVIOUS
<1> HIDE DEF new
<1>5. /\ rows' \in [Jobs -> Row] /\ rows'[j] = ClaimedBy(rows[j], w)
      /\ \A i \in Jobs : i # j => rows'[i] = rows[i]
      /\ worker' \in [Workers -> Worker] /\ worker'[w] = new
      /\ \A v \in Workers : v # w => worker'[v] = worker[v]
  BY <1>1, <1>2, <1>3 DEF Base, TypeOK
<1>6. TypeOK' BY <1>1, <1>5 DEF Base, TypeOK
<1>7. TablesFit' BY <1>1, <1>2, <1>5, SMT DEF Base, TablesFit, Jobs
<1>8. WorkersFit'
  <2>1. Free(j) BY <1>1, NotHeld
  <2>2. ASSUME NEW v \in Workers, v # w, worker'[v].pc # "idle"
        PROVE  worker'[v] = worker[v] /\ ~At(v, "idle") /\ worker[v].job # j
    BY <1>5, <2>1, <2>2 DEF At, Free
  <2> QED BY <1>2, <1>4, <1>5, <2>2 DEF Base, WorkersFit, At
<1> QED BY <1>2, <1>4, <1>5, <1>6, <1>7, <1>8 DEF Base

\* A worker at work goes to another place with its job.
LEMMA GotoFacts ==
  ASSUME Base, NEW w \in Workers, ~At(w, "idle"), NEW pc, Goto(w, pc),
         pc \in {"upsert", "delete", "mark", "fail"}
  PROVE  /\ worker' \in [Workers -> Worker]
         /\ worker'[w].pc = pc /\ worker'[w].job = worker[w].job
         /\ worker'[w].attempt = worker[w].attempt
         /\ \A v \in Workers : v # w => worker'[v] = worker[v]
<1>1. worker \in [Workers -> Worker] BY DEF Base, TypeOK
<1> DEFINE old == worker[w]
           new == [[old EXCEPT !.pc = pc] EXCEPT !.document = NoDocument]
<1>2. /\ new \in Worker /\ new.pc = pc /\ new.job = worker[w].job
      /\ new.attempt = worker[w].attempt
  BY <1>1 DEF Worker
<1>3. worker' = [worker EXCEPT ![w] = new] BY <1>1 DEF Goto
<1> HIDE DEF new
<1> QED BY <1>1, <1>2, <1>3

LEMMA GotoKeepsBase ==
  ASSUME Base, NEW w \in Workers, ~At(w, "idle"), ~At(w, "fail"), NEW pc, Goto(w, pc),
         pc \in {"upsert", "delete", "mark", "fail"},
         UNCHANGED <<item, rows, payload, faults>>,
         index' \in [Contents -> Document \cup {NoDocument}]
  PROVE  Base'
<1>1. worker \in [Workers -> Worker] BY DEF Base, TypeOK
<1> DEFINE old == worker[w]
           new == [[old EXCEPT !.pc = pc] EXCEPT !.document = NoDocument]
<1>2. /\ new \in Worker /\ new.pc # "idle" /\ new.job = worker[w].job
      /\ new.attempt = worker[w].attempt
  BY <1>1 DEF Worker
<1>3. worker' = [worker EXCEPT ![w] = new] BY <1>1 DEF Goto
<1> HIDE DEF new
<1> QED BY <1>2, <1>3, WorkerGoesOn

LEMMA LoadFacts ==
  ASSUME Base, NEW w \in Workers, Load(w)
  PROVE  /\ Base'
         /\ ~At(w, "idle") /\ ~At(w, "fail")
         /\ UNCHANGED <<item, index, rows, payload, faults>>
         /\ worker'[w].job = worker[w].job
         /\ \A v \in Workers : v # w => worker'[v] = worker[v]
         /\ \/ /\ worker'[w].pc = "upsert" /\ item[Content(w)].shown
               /\ worker'[w].document = item[Content(w)].version
               /\ item[Content(w)].version # NoDocument
            \/ worker'[w].pc = "delete" /\ ~item[Content(w)].shown
            \/ worker'[w].pc = "fail" /\ "db_error" \in faults
<1>1. /\ worker \in [Workers -> Worker] /\ ~At(w, "idle") /\ ~At(w, "fail")
      /\ index \in [Contents -> Document \cup {NoDocument}]
      /\ UNCHANGED <<item, index, rows, payload, faults>>
  BY DEF Base, TypeOK, Load, At
<1>2. item[Content(w)].version \in Document
  BY <1>1, JobInHand DEF Base, TypeOK, Item
<1>3. CASE /\ item[Content(w)].shown
           /\ worker' = [worker EXCEPT ![w].pc = "upsert",
                                       ![w].document = item[Content(w)].version]
  <2> DEFINE old == worker[w]
             new == [[old EXCEPT !.pc = "upsert"] EXCEPT !.document = item[Content(w)].version]
  <2>1. /\ new \in Worker /\ new.pc = "upsert" /\ new.job = worker[w].job
        /\ new.attempt = worker[w].attempt /\ new.document = item[Content(w)].version
    BY <1>1, <1>2 DEF Worker
  <2>2. worker' = [worker EXCEPT ![w] = new]
    BY <1>1, <1>3
  <2>3. item[Content(w)].version # NoDocument BY <1>2, DocumentAssumption
  <2> HIDE DEF new
  <2>4. Base' BY <1>1, <2>1, <2>2, WorkerGoesOn
  <2> QED BY <1>1, <1>3, <2>1, <2>2, <2>3, <2>4
<1>4. CASE ~item[Content(w)].shown /\ Goto(w, "delete")
  BY <1>1, <1>4, GotoFacts, GotoKeepsBase
<1>5. CASE "db_error" \in faults /\ Goto(w, "fail")
  BY <1>1, <1>5, GotoFacts, GotoKeepsBase
<1> QED BY <1>3, <1>4, <1>5, Zenon DEF Load

LEMMA CallFacts ==
  ASSUME Base, NEW w \in Workers, ~At(w, "idle"), ~At(w, "fail"),
         NEW entry \in Document \cup {NoDocument}, Call(w, entry),
         UNCHANGED <<item, rows, payload, faults>>
  PROVE  /\ Base'
         /\ worker'[w].job = worker[w].job
         /\ \A v \in Workers : v # w => worker'[v] = worker[v]
         /\ worker'[w].pc \in {"mark", "fail"}
         /\ \A c \in Contents : c # Content(w) => index'[c] = index[c]
         /\ worker'[w].pc = "mark" => index'[Content(w)] = entry
         /\ worker'[w].pc = "fail" => faults \cap {"lost_reply", "search_error"} # {}
<1>1. Content(w) \in Contents BY JobInHand
<1>2. index \in [Contents -> Document \cup {NoDocument}] BY DEF Base, TypeOK
<1>3. CASE /\ index' = [index EXCEPT ![Content(w)] = entry]
           /\ Goto(w, "mark") \/ ("lost_reply" \in faults /\ Goto(w, "fail"))
  <2>1. /\ index' \in [Contents -> Document \cup {NoDocument}] /\ index'[Content(w)] = entry
        /\ \A c \in Contents : c # Content(w) => index'[c] = index[c]
    BY <1>1, <1>2, <1>3
  <2>2. CASE Goto(w, "mark") BY <2>1, <2>2, GotoFacts, GotoKeepsBase
  <2>3. CASE "lost_reply" \in faults /\ Goto(w, "fail") BY <2>1, <2>3, GotoFacts, GotoKeepsBase
  <2> QED BY <1>3, <2>2, <2>3
<1>4. CASE "search_error" \in faults /\ UNCHANGED index /\ Goto(w, "fail")
  BY <1>2, <1>4, GotoFacts, GotoKeepsBase
<1> QED BY <1>3, <1>4 DEF Call

LEMMA MarkFacts ==
  ASSUME Base, NEW w \in Workers, Mark(w)
  PROVE  /\ Base'
         /\ UNCHANGED <<item, index, payload, faults>>
         /\ \A i \in Jobs : i # worker[w].job => rows'[i] = rows[i]
         /\ \A v \in Workers : v # w => worker'[v] = worker[v]
         /\ \/ worker'[w].pc = "idle" /\ rows'[worker[w].job].status = "succeeded"
            \/ /\ worker'[w].pc = "fail" /\ worker'[w].job = worker[w].job
               /\ rows'[worker[w].job].status \in {"running", "succeeded"}
               /\ faults \cap {"lost_reply", "db_error"} # {}
<1> DEFINE j == worker[w].job
<1>1. /\ worker \in [Workers -> Worker] /\ ~At(w, "idle") /\ ~At(w, "fail") /\ j \in Jobs
      /\ rows[j] \in Row /\ rows[j].status = "running"
      /\ rows \in [Jobs -> Row]
      /\ index \in [Contents -> Document \cup {NoDocument}]
      /\ UNCHANGED <<item, index, payload, faults>>
  BY JobInHand DEF Base, TypeOK, Mark, At
<1>2. /\ MarkedSucceeded(rows[j]) \in Row /\ MarkedSucceeded(rows[j]).status = "succeeded"
      /\ MarkedSucceeded(rows[j]).attempts = rows[j].attempts
  BY <1>1, MarkedSucceededFacts
<1>3. CASE /\ rows' = [rows EXCEPT ![j] = MarkedSucceeded(@)]
           /\ \/ worker' = [worker EXCEPT ![w] = Resting]
              \/ "lost_reply" \in faults /\ Goto(w, "fail")
  <2>1. /\ rows' = [rows EXCEPT ![j] = MarkedSucceeded(rows[j])]
        /\ rows' \in [Jobs -> Row] /\ rows'[j] = MarkedSucceeded(rows[j])
        /\ \A i \in Jobs : i # j => rows'[i] = rows[i]
    <3> HIDE DEF j
    <3> QED BY <1>1, <1>2, <1>3
  <2>2. CASE worker' = [worker EXCEPT ![w] = Resting]
    <3>1. Base' BY <1>1, <1>2, <2>1, <2>2, LettingGoKeepsBase
    <3>2. worker'[w].pc = "idle" /\ \A v \in Workers : v # w => worker'[v] = worker[v]
      BY <1>1, <2>2 DEF Resting
    <3> QED BY <1>1, <1>2, <2>1, <3>1, <3>2
  <2>3. CASE "lost_reply" \in faults /\ Goto(w, "fail")
    <3>1. /\ worker' \in [Workers -> Worker]
          /\ worker'[w].pc = "fail" /\ worker'[w].job = j
          /\ worker'[w].attempt = worker[w].attempt
          /\ \A v \in Workers : v # w => worker'[v] = worker[v]
      BY <1>1, <2>3, GotoFacts
    <3>2. TypeOK' BY <1>1, <2>1, <3>1 DEF Base, TypeOK
    <3>3. TablesFit'
      <4> HIDE DEF j
      <4> QED BY <1>1, <1>2, <2>1, SMT DEF Base, TablesFit, Jobs
    <3>4. WorkersFit'
      <4>1. ASSUME NEW v \in Workers, v # w, worker'[v].pc # "idle"
            PROVE  worker'[v] = worker[v] /\ ~At(v, "idle") /\ worker[v].job # j
        BY <1>1, <3>1, <4>1 DEF Base, WorkersFit, At
      <4>2. rows[j].attempts = worker[w].attempt BY <1>1 DEF Base, WorkersFit
      <4> HIDE DEF j
      <4> QED BY <1>1, <1>2, <2>1, <3>1, <4>1, <4>2 DEF Base, WorkersFit, At
    <3> QED BY <1>1, <1>2, <2>1, <2>3, <3>1, <3>2, <3>3, <3>4 DEF Base
  <2> QED BY <1>3, <2>2, <2>3
<1>4. CASE "db_error" \in faults /\ UNCHANGED rows /\ Goto(w, "fail")
  <2>1. Base' BY <1>1, <1>4, GotoKeepsBase
  <2>2. /\ worker'[w].pc = "fail" /\ worker'[w].job = j
        /\ \A v \in Workers : v # w => worker'[v] = worker[v]
    BY <1>1, <1>4, GotoFacts
  <2> QED BY <1>1, <1>4, <2>1, <2>2
<1> QED BY <1>3, <1>4, Zenon DEF Mark

LEMMA FailFacts ==
  ASSUME Base, NEW w \in Workers, Fail(w)
  PROVE  /\ Base'
         /\ ~At(w, "idle") /\ At(w, "fail")
         /\ UNCHANGED <<item, index, payload, faults>>
         /\ \A i \in Jobs : i # worker[w].job => rows'[i] = rows[i]
         /\ \A v \in Workers : v # w => worker'[v] = worker[v]
         /\ worker'[w].pc = "idle"
         /\ \/ rows'[worker[w].job].status \in {"pending", "dead"}
            \/ rows' = rows
<1> DEFINE j == worker[w].job
<1>1. /\ worker \in [Workers -> Worker] /\ ~At(w, "idle") /\ At(w, "fail") /\ j \in Jobs
      /\ rows[j] \in Row /\ rows[j].status \in {"running", "succeeded"}
      /\ rows \in [Jobs -> Row]
      /\ worker' = [worker EXCEPT ![w] = Resting]
      /\ UNCHANGED <<item, index, payload, faults>>
  BY JobInHand DEF Base, TypeOK, Fail, At
<1>2. worker'[w].pc = "idle" /\ \A v \in Workers : v # w => worker'[v] = worker[v]
  BY <1>1 DEF Resting
<1>3. CASE rows' = [rows EXCEPT ![j] = MarkedFailed(@, worker[w].attempt)]
  <2> DEFINE new == MarkedFailed(rows[j], worker[w].attempt)
  <2>1. worker[w].attempt = rows[j].attempts /\ worker[w].attempt \in Nat
    BY <1>1, MaxAttemptsAssumption DEF Base, WorkersFit, Row
  <2>2. /\ new \in Row /\ new.attempts = rows[j].attempts
        /\ new.status = IF worker[w].attempt >= MaxAttempts THEN "dead" ELSE "pending"
    BY <1>1, <2>1, MarkedFailedFacts
  <2> HIDE DEF new
  <2>3. /\ new.status \in {"pending", "dead"} /\ new.status # "absent"
        /\ new.status = "pending" => new.attempts < MaxAttempts
    BY <2>1, <2>2, MaxAttemptsAssumption, SMT
  <2>4. rows' = [rows EXCEPT ![j] = new]
    BY <1>1, <1>3, Zenon DEF new
  <2>5. Base' BY <1>1, <2>2, <2>3, <2>4, LettingGoKeepsBase
  <2> HIDE DEF j
  <2>6. rows'[j] = new /\ \A i \in Jobs : i # j => rows'[i] = rows[i]
    BY <1>1, <2>4
  <2> QED BY <1>1, <1>2, <2>3, <2>5, <2>6 DEF j
<1>4. CASE UNCHANGED rows
  <2>1. rows' = [rows EXCEPT ![j] = rows[j]] BY <1>1, <1>4
  <2>2. rows[j].status # "absent" /\ rows[j].status # "pending" BY <1>1
  <2>3. Base' BY <1>1, <2>1, <2>2, LettingGoKeepsBase
  <2> QED BY <1>1, <1>2, <1>4, <2>3
<1> QED BY <1>3, <1>4, Zenon DEF Fail

LEMMA CrashFacts ==
  ASSUME Base, NEW w \in Workers, Crash(w)
  PROVE  /\ Base'
         /\ ~At(w, "idle")
         /\ UNCHANGED <<item, index, rows, payload, faults>>
         /\ \A v \in Workers : v # w => worker'[v] = worker[v]
         /\ worker'[w].pc = "idle"
<1> DEFINE j == worker[w].job
<1>1. /\ worker \in [Workers -> Worker] /\ ~At(w, "idle") /\ j \in Jobs
      /\ rows[j] \in Row /\ rows[j].status \in {"running", "succeeded"}
      /\ rows \in [Jobs -> Row]
      /\ worker' = [worker EXCEPT ![w] = Resting]
      /\ UNCHANGED <<item, index, rows, payload, faults>>
  BY JobInHand DEF Base, TypeOK, Crash
<1>2. worker'[w].pc = "idle" /\ \A v \in Workers : v # w => worker'[v] = worker[v]
  BY <1>1 DEF Resting
<1>3. rows' = [rows EXCEPT ![j] = rows[j]] BY <1>1
<1>4. rows[j].status # "absent" /\ rows[j].status # "pending" BY <1>1
<1>5. Base' BY <1>1, <1>3, <1>4, LettingGoKeepsBase
<1> QED BY <1>1, <1>2, <1>5

\* The back-off of a job is over, or an administrator has it tried again.
LEMMA RequeuedFacts ==
  ASSUME Base, NEW j \in Jobs, BackoffElapses(j) \/ RetryAdminJob(j)
  PROVE  /\ Base'
         /\ Free(j) /\ rows'[j].status = "pending"
         /\ \A i \in Jobs : i # j => rows'[i] = rows[i]
         /\ \/ rows[j].status = "pending" /\ ~rows[j].due
            \/ rows[j].status \in {"failed", "dead"}
         /\ UNCHANGED <<item, index, payload, worker, faults>>
<1>1. rows \in [Jobs -> Row] /\ rows[j] \in Row BY DEF Base, TypeOK
<1>2. ASSUME NEW new \in Row, new.status = "pending", new.attempts < MaxAttempts,
             rows' = [rows EXCEPT ![j] = new], rows[j].status \in {"pending", "failed", "dead"},
             UNCHANGED <<item, index, payload, worker, faults>>
      PROVE  Base' /\ Free(j) /\ rows'[j].status = "pending"
             /\ \A i \in Jobs : i # j => rows'[i] = rows[i]
  BY <1>1, <1>2, NotHeld, RowKeepsBase
<1>3. CASE BackoffElapses(j)
  <2>1. rows[j].status = "pending" /\ ~rows[j].due /\ rows' = [rows EXCEPT ![j] = MadeDue(rows[j])]
        /\ UNCHANGED <<item, index, payload, worker, faults>>
    BY <1>3 DEF BackoffElapses, Waiting
  <2>2. rows[j].attempts < MaxAttempts BY <2>1 DEF Base, TablesFit
  <2>3. MadeDue(rows[j]) \in Row /\ MadeDue(rows[j]).status = "pending"
        /\ MadeDue(rows[j]).attempts < MaxAttempts
    BY <1>1, <2>1, <2>2, MadeDueFacts
  <2> QED BY <1>2, <2>1, <2>3
<1>4. CASE RetryAdminJob(j)
  <2>1. rows[j].status \in {"failed", "dead"} /\ rows' = [rows EXCEPT ![j] = Retried(rows[j])]
        /\ UNCHANGED <<item, index, payload, worker, faults>>
    BY <1>4 DEF RetryAdminJob, Retryable
  <2>2. Retried(rows[j]) \in Row /\ Retried(rows[j]).status = "pending"
        /\ Retried(rows[j]).attempts < MaxAttempts
    BY <1>1, RetriedFacts, MaxAttemptsAssumption, SMT
  <2> QED BY <1>2, <2>1, <2>2
<1> QED BY <1>3, <1>4

-----------------------------------------------------------------------------
\* What a change of an item, or a step of its image, does to the row and to
\* the queue: it is announced, or it is a change that nothing is promised of.
ProducerStep(c) ==
  /\ item' \in [Contents -> Item]
  /\ \A d \in Contents : d # c => item'[d] = item[d]
  /\ item'[c].announced <= item'[c].version
  /\ UNCHANGED <<index, worker, faults>>
  /\ \/ \E j \in Jobs, action \in Action :
          /\ Queued(j, c, action)
          /\ action = "delete_content" => ~item'[c].shown
     \/ /\ UNCHANGED <<rows, payload>>
        /\ item'[c].shown = item[c].shown
        /\ item'[c].announced = item[c].announced
        /\ item[c].version <= item'[c].version

LEMMA EnqueueQueues ==
  ASSUME NEW c \in Contents, NEW action \in Action, Enqueue(c, action)
  PROVE  \E j \in Jobs : Queued(j, c, action)
  BY Zenon DEF Enqueue, Queued

LEMMA AnnounceFacts ==
  ASSUME Base, NEW c \in Contents, NEW listed \in BOOLEAN, NEW action \in Action,
         Announce(c, listed, action), action = "delete_content" => ~listed
  PROVE  ProducerStep(c)
<1> DEFINE old == item[c]
           new == [[[old EXCEPT !.shown = listed] EXCEPT !.version = old.version + 1]
                     EXCEPT !.announced = old.version + 1]
<1>1. item \in [Contents -> Item] /\ old \in Item /\ old.version + 1 \in Document
  <2>1. old.version < MaxEdits BY DEF Announce
  <2>2. old \in Item BY DEF Base, TypeOK
  <2> QED BY <2>1, <2>2, SearchAssumption, SMT DEF Base, TypeOK, Item, Document
<1>2. item' = [item EXCEPT ![c] = new] BY <1>1 DEF Announce
<1>3. /\ new \in Item /\ new.shown = listed
      /\ new.announced = old.version + 1 /\ new.version = old.version + 1
  BY <1>1 DEF Item
<1>n. old.version + 1 \in Nat BY <1>1, SearchAssumption, SMT DEF Document
<1> HIDE DEF old, new
<1>4. item'[c] = new /\ item' \in [Contents -> Item]
      /\ \A d \in Contents : d # c => item'[d] = item[d]
  BY <1>1, <1>2, <1>3
<1>5. PICK j \in Jobs : Queued(j, c, action) BY EnqueueQueues DEF Announce
<1>6. item'[c].announced <= item'[c].version BY <1>3, <1>4, <1>n
<1> QED BY <1>3, <1>4, <1>5, <1>6 DEF ProducerStep, Announce

\* Nothing is announced, and all that may change is the version and the image.
LEMMA QuietFacts ==
  ASSUME Base, NEW c \in Contents, NEW version \in Document, item[c].version <= version,
         NEW image \in {"none", "pending", "processed", "refreshed"},
         item' = [item EXCEPT ![c].image = image, ![c].version = version],
         UNCHANGED <<index, rows, payload, worker, faults>>
  PROVE  ProducerStep(c)
<1> DEFINE old == item[c]
           new == [[old EXCEPT !.image = image] EXCEPT !.version = version]
<1>1. item \in [Contents -> Item] /\ old \in Item BY DEF Base, TypeOK
<1>2. item' = [item EXCEPT ![c] = new] BY <1>1
<1>3. new \in Item /\ new.shown = old.shown /\ new.announced = old.announced
      /\ new.version = version
  BY <1>1 DEF Item
<1>4. old.announced <= version
  <2>1. old.announced <= old.version BY DEF Base, TablesFit
  <2> QED BY <1>1, <2>1, SMT DEF Item, Document
<1>5. old.version <= version OBVIOUS
<1> HIDE DEF new
<1>6. item'[c] = new /\ item' \in [Contents -> Item]
      /\ \A d \in Contents : d # c => item'[d] = item[d]
  BY <1>1, <1>2, <1>3
<1> QED BY <1>3, <1>4, <1>5, <1>6 DEF ProducerStep

LEMMA ChangeFacts ==
  ASSUME Base, NEW c \in Contents, Change(c) \/ Image(c)
  PROVE  ProducerStep(c)
<1>1. /\ item \in [Contents -> Item] /\ item[c] \in Item
      /\ item[c].shown \in BOOLEAN /\ item[c].version \in Document
      /\ item[c].image \in {"none", "pending", "processed", "refreshed"}
      /\ item[c].version <= item[c].version
  BY SMT DEF Base, TypeOK, Item, Document
<1>2. "upsert_content" \in Action /\ "delete_content" \in Action BY DEF Action
<1>3. CASE Show(c) BY <1>2, <1>3, AnnounceFacts DEF Show
<1>4. CASE Withdraw(c) BY <1>2, <1>4, AnnounceFacts DEF Withdraw
<1>5. CASE Edit(c) BY <1>1, <1>2, <1>5, AnnounceFacts DEF Edit
<1>6. CASE Quietly(c)
  <2>1. item[c].version + 1 \in Document /\ item[c].version <= item[c].version + 1
    BY <1>1, <1>6, SearchAssumption, SMT DEF Quietly, Document
  <2>2. item' = [item EXCEPT ![c].image = item[c].image, ![c].version = item[c].version + 1]
    BY <1>1, <1>6 DEF Quietly, Item
  <2>3. PICK version \in Document : /\ item[c].version <= version
          /\ item' = [item EXCEPT ![c].image = item[c].image, ![c].version = version]
    BY <2>1, <2>2
  <2>4. UNCHANGED <<index, rows, payload, worker, faults>> BY <1>6 DEF Quietly
  <2> QED BY <1>1, <2>3, <2>4, QuietFacts
<1>7. ASSUME NEW from, NEW to \in {"none", "pending", "processed", "refreshed"},
             ImageStep(c, from, to)
      PROVE  ProducerStep(c)
  <2>1. item' = [item EXCEPT ![c].image = to, ![c].version = item[c].version]
    BY <1>1, <1>7 DEF ImageStep, Item
  <2>2. PICK version \in Document : /\ item[c].version <= version
          /\ item' = [item EXCEPT ![c].image = to, ![c].version = version]
    BY <1>1, <2>1
  <2>3. UNCHANGED <<index, rows, payload, worker, faults>> BY <1>7 DEF ImageStep
  <2> QED BY <1>7, <2>2, <2>3, QuietFacts
<1>8. ASSUME NEW from, NEW to \in {"none", "pending", "processed", "refreshed"},
             PreviewStep(c, from, to)
      PROVE  ProducerStep(c)
  <2>1. PICK version \in {item[c].version, item[c].version + 1} \cap Document :
          item' = [item EXCEPT ![c].image = to, ![c].version = version]
    BY <1>8 DEF PreviewStep
  <2>2. version \in Document /\ item[c].version <= version
    BY <1>1, SMT DEF Document
  <2> QED BY <1>8, <2>1, <2>2, QuietFacts DEF PreviewStep
<1>9. CASE SendRefresh(c)
  <2> DEFINE old == item[c]
             new == [[old EXCEPT !.image = "refreshed"] EXCEPT !.announced = old.version]
  <2>1. /\ new \in Item /\ new.announced = old.version /\ new.version = old.version
        /\ old.version <= old.version
    BY <1>1 DEF Item
  <2>2. item' = [item EXCEPT ![c] = new] BY <1>1, <1>9 DEF SendRefresh
  <2> HIDE DEF old, new
  <2>3. item'[c] = new /\ item' \in [Contents -> Item]
        /\ \A d \in Contents : d # c => item'[d] = item[d]
    BY <1>1, <2>1, <2>2
  <2>4. PICK j \in Jobs : Queued(j, c, "upsert_content")
    BY <1>2, <1>9, EnqueueQueues DEF SendRefresh
  <2>5. item'[c].announced <= item'[c].version BY <2>1, <2>3
  <2> QED BY <1>2, <1>9, <2>3, <2>4, <2>5 DEF ProducerStep, SendRefresh
<1> QED
  BY <1>3, <1>4, <1>5, <1>6, <1>7, <1>8, <1>9
     DEF Change, Rename, CountDownload, UpdateHidden, Image, UploadImage, CompleteImage, FailImage,
         LoseRefresh, FinishImage, SpoilImage

LEMMA ProducerKeepsBase ==
  ASSUME Base, NEW c \in Contents, ProducerStep(c)
  PROVE  Base'
<1>0. \A d \in Contents : item'[d].announced <= item'[d].version
  BY DEF ProducerStep, Base, TablesFit
<1>1. CASE \E j \in Jobs, action \in Action : Queued(j, c, action)
  BY <1>0, <1>1, QueuedKeepsBase DEF ProducerStep
<1>2. CASE UNCHANGED <<rows, payload>>
  <2>1. TypeOK' BY <1>2 DEF Base, TypeOK, ProducerStep
  <2>2. TablesFit' BY <1>0, <1>2 DEF Base, TablesFit
  <2>3. WorkersFit' BY <1>2 DEF Base, WorkersFit, ProducerStep, At
  <2> QED BY <2>1, <2>2, <2>3 DEF Base
<1> QED BY <1>1, <1>2 DEF ProducerStep

-----------------------------------------------------------------------------
\* A producer keeps it, as its own job comes last; nobody else queues a job.
LEMMA LastDeleteStep ==
  ASSUME Base, Orderly, "overlap" \notin faults, Next, NEW c \in Contents, LastDeleteIsRight(c)
  PROVE  LastDeleteIsRight(c)'
<1>1. ASSUME NEW d \in Contents, Change(d) \/ Image(d) PROVE LastDeleteIsRight(c)'
  <2>1. ProducerStep(d) BY <1>1, ChangeFacts
  <2>2. CASE \E j \in Jobs, action \in Action :
               Queued(j, d, action) /\ (action = "delete_content" => ~item'[d].shown)
    <3>1. PICK j \in Jobs, action \in Action :
            Queued(j, d, action) /\ (action = "delete_content" => ~item'[d].shown)
      BY <2>2
    <3>2. /\ payload'[j] = [content |-> d, action |-> action]
          /\ \A i \in Jobs : i # j => payload'[i] = payload[i]
          /\ \A i \in Jobs : i >= j => rows[i].status = "absent"
      BY <3>1, QueuedFacts, QueuedIsLast
    <3>3. \A i \in Jobs : i >= j => payload[i].content = NoContent
      BY <3>2 DEF Base, TablesFit
    <3>4. c # NoContent /\ d # NoContent BY SearchAssumption
    <3>5. j \in Nat /\ \A i \in Jobs : i \in Nat BY SMT DEF Jobs
    <3>6. SUFFICES ASSUME NEW k \in Jobs,
                          payload'[k] = [content |-> c, action |-> "delete_content"],
                          \A i \in Jobs : i > k => payload'[i].content # c
                   PROVE  ~item'[c].shown
      BY DEF LastDeleteIsRight
    <3>7. CASE k = j
      <4>1. c = d /\ action = "delete_content" BY <3>2, <3>6, <3>7
      <4> QED BY <3>1, <4>1
    <3>8. CASE k # j
      <4>1. payload[k] = [content |-> c, action |-> "delete_content"] BY <3>2, <3>6, <3>8
      <4>2. payload[k].content = c BY <4>1
      <4>3. k < j BY <3>3, <3>4, <3>5, <4>2, SMT
      <4>4. c # d
        <5>1. payload'[j].content # c BY <3>5, <3>6, <4>3, SMT
        <5> QED BY <3>2, <5>1
      <4>5. \A i \in Jobs : i > k => payload[i].content # c
        BY <3>2, <3>3, <3>4, <3>5, <3>6, SMT
      <4>6. ~item[c].shown BY <4>1, <4>5, Zenon DEF LastDeleteIsRight
      <4> QED BY <2>1, <4>4, <4>6 DEF ProducerStep
    <3> QED BY <3>7, <3>8
  <2>3. CASE UNCHANGED <<rows, payload>> /\ item'[d].shown = item[d].shown
    <3>1. item'[c].shown = item[c].shown BY <2>1, <2>3, Zenon DEF ProducerStep
    <3> QED BY <2>3, <3>1, Zenon DEF LastDeleteIsRight
  <2> QED BY <2>1, <2>2, <2>3 DEF ProducerStep
<1>2. CASE UNCHANGED <<item, payload>>
  BY <1>2, Zenon DEF LastDeleteIsRight
<1>3. ASSUME NEW w \in Workers, WorkerStep(w) \/ Crash(w) PROVE UNCHANGED <<item, payload>>
  BY <1>3 DEF WorkerStep, Claim, Load, Upsert, Delete, Mark, Fail, Crash
<1>4. ASSUME NEW j \in Jobs, BackoffElapses(j) \/ RetryAdminJob(j)
      PROVE  UNCHANGED <<item, payload>>
  BY <1>4 DEF BackoffElapses, RetryAdminJob
<1> QED BY <1>1, <1>2, <1>3, <1>4 DEF Next

LEMMA OrderlyStep ==
  ASSUME Base, Next, faults \subseteq {"crash"}, Orderly
  PROVE  Orderly'
<1>0. /\ "db_error" \notin faults /\ "lost_reply" \notin faults /\ "search_error" \notin faults
      /\ "overlap" \notin faults
  OBVIOUS
<1>1. ASSUME NEW d \in Contents, Change(d) \/ Image(d) PROVE Orderly'
  <2>1. ProducerStep(d) BY <1>1, ChangeFacts
  <2>2. CASE \E j \in Jobs, action \in Action : Queued(j, d, action)
    <3>1. PICK j \in Jobs, action \in Action : Queued(j, d, action) BY <2>2
    <3>2. /\ rows'[j] = NewRow
          /\ \A i \in Jobs : i # j => rows'[i] = rows[i]
          /\ \A i \in Jobs : /\ i < j => rows[i].status # "absent"
                             /\ i >= j => rows[i].status = "absent"
      BY <1>0, <3>1, QueuedFacts, QueuedIsLast
    <3>3. NewRow.status = "pending" /\ NewRow.due BY DEF NewRow
    <3>4. \A w \in Workers : ~At(w, "fail")' BY <2>1 DEF ProducerStep, Orderly, At
    <3>5. \A i \in Jobs : /\ rows'[i].status \notin {"failed", "dead"}
                          /\ rows'[i].status = "pending" => rows'[i].due
      BY <3>2, <3>3 DEF Orderly
    <3>6. \A i, k \in Jobs : i < k /\ rows'[i].status = "pending" =>
                               rows'[k].status \in {"pending", "absent"}
      BY <3>2, <3>3, SMT DEF Orderly, Jobs
    <3>7. ASSUME NEW i \in Jobs, NEW k \in Jobs, i < k, rows'[i].status = "absent"
          PROVE  rows'[k].status = "absent"
      <4>1. i # j /\ rows[i].status = "absent" BY <3>2, <3>3, <3>7
      <4>2. i >= j BY <3>2, <4>1, SMT DEF Jobs
      <4>3. k >= j /\ k # j BY <3>7, <4>1, <4>2, SMT DEF Jobs
      <4> QED BY <3>2, <4>3
    <3> QED BY <3>4, <3>5, <3>6, <3>7 DEF Orderly
  <2>3. CASE UNCHANGED rows
    BY <2>1, <2>3 DEF ProducerStep, Orderly, At
  <2> QED BY <2>1, <2>2, <2>3 DEF ProducerStep
<1>2. ASSUME NEW w \in Workers, NEW j \in Jobs, Claim(w, j) PROVE Orderly'
  <2>1. /\ rows'[j].status = "running"
        /\ \A i \in Jobs : i # j => rows'[i] = rows[i]
        /\ worker'[w].pc = IF payload[j].action = "delete_content" THEN "delete" ELSE "load"
        /\ \A v \in Workers : v # w => worker'[v] = worker[v]
    BY <1>2, ClaimKeepsBase
  <2>2. \A v \in Workers : ~At(v, "fail")' BY <2>1 DEF Orderly, At
  <2>3. \A i \in Jobs : i < j => rows[i].status # "pending"
    BY <1>2 DEF Claim, Claimable, Orderly
  <2>4. \A i \in Jobs : /\ rows'[i].status \notin {"failed", "dead"}
                        /\ rows'[i].status = "pending" => rows'[i].due
    BY <2>1 DEF Orderly
  <2>5. \A i, k \in Jobs : i < k /\ rows'[i].status = "pending" =>
                             rows'[k].status \in {"pending", "absent"}
    BY <2>1, <2>3, SMT DEF Orderly, Jobs
  <2>6. \A i, k \in Jobs : i < k /\ rows'[i].status = "absent" => rows'[k].status = "absent"
    BY <1>2, <2>1, SMT DEF Orderly, Claim, Claimable
  <2> QED BY <2>2, <2>4, <2>5, <2>6 DEF Orderly
<1>3. ASSUME NEW w \in Workers, UNCHANGED rows, worker'[w].pc # "fail",
             \A v \in Workers : v # w => worker'[v] = worker[v]
      PROVE  Orderly'
  BY <1>3 DEF Orderly, At
<1>4. ASSUME NEW w \in Workers, Load(w) PROVE Orderly'
  BY <1>0, <1>3, <1>4, LoadFacts
<1>5. ASSUME NEW w \in Workers, Upsert(w) \/ Delete(w) PROVE Orderly'
  <2>1. ~At(w, "idle") /\ ~At(w, "fail") /\ UNCHANGED <<item, rows, payload, faults>>
    BY <1>5 DEF Upsert, Delete, At
  <2>2. PICK entry \in Document \cup {NoDocument} : Call(w, entry)
    BY <1>5 DEF Upsert, Delete, Base, TypeOK, Worker
  <2>3. /\ \A v \in Workers : v # w => worker'[v] = worker[v]
        /\ worker'[w].pc = "fail" => faults \cap {"lost_reply", "search_error"} # {}
    BY <2>1, <2>2, CallFacts
  <2> QED BY <1>0, <1>3, <2>1, <2>3
<1>6. ASSUME NEW w \in Workers, Mark(w) PROVE Orderly'
  <2>1. /\ \A i \in Jobs : i # worker[w].job => rows'[i] = rows[i]
        /\ \A v \in Workers : v # w => worker'[v] = worker[v]
        /\ worker'[w].pc = "idle" /\ rows'[worker[w].job].status = "succeeded"
    BY <1>0, <1>6, MarkFacts
  <2>2. worker[w].job \in Jobs /\ rows[worker[w].job].status = "running"
    BY <1>6, JobInHand DEF Mark, At
  <2>3. \A v \in Workers : ~At(v, "fail")' BY <2>1 DEF Orderly, At
  <2>4. \A i \in Jobs : /\ rows'[i].status \notin {"failed", "dead"}
                        /\ rows'[i].status = "pending" => rows'[i].due
    BY <2>1, <2>2 DEF Orderly
  <2>5. \A i, k \in Jobs : i < k /\ rows'[i].status = "pending" =>
                             rows'[k].status \in {"pending", "absent"}
    BY <2>1, <2>2, SMT DEF Orderly
  <2>6. \A i, k \in Jobs : i < k /\ rows'[i].status = "absent" => rows'[k].status = "absent"
    BY <2>1, <2>2, SMT DEF Orderly
  <2> QED BY <2>3, <2>4, <2>5, <2>6 DEF Orderly
<1>7. ASSUME NEW w \in Workers, Fail(w) PROVE Orderly'
  BY <1>7 DEF Fail, Orderly
<1>8. ASSUME NEW w \in Workers, Crash(w) PROVE Orderly'
  <2>1. /\ UNCHANGED rows /\ \A v \in Workers : v # w => worker'[v] = worker[v]
        /\ worker'[w].pc = "idle"
    BY <1>8, CrashFacts
  <2> QED BY <1>3, <2>1
<1>9. ASSUME NEW j \in Jobs, BackoffElapses(j) \/ RetryAdminJob(j) PROVE Orderly'
  BY <1>9 DEF BackoffElapses, RetryAdminJob, Waiting, Retryable, Orderly
<1> QED
  BY <1>1, <1>2, <1>4, <1>5, <1>6, <1>7, <1>8, <1>9 DEF Next, WorkerStep

-----------------------------------------------------------------------------
\* A delete is claimed only if the item is gone, or another job of it waits.
ClaimIsRight(c) ==
  \A j \in Jobs :
    /\ Claimable(rows[j]) /\ \A i \in Jobs : i < j => ~Claimable(rows[i])
    /\ payload[j].content = c /\ payload[j].action = "delete_content"
    => \/ ~item[c].shown
       \/ \E i \in Jobs : i # j /\ payload[i].content = c /\ rows[i].status = "pending"

\* The places between which a worker leaves the item as it is.
AtRest(w, c) == ~(Serves(w, c) /\ worker[w].pc \in {"upsert", "delete"})

LEMMA SettledByChange ==
  ASSUME Base, NEW c \in Contents, Settled(c), NEW d \in Contents, Change(d) \/ Image(d)
  PROVE  Settled(c)'
<1>0. ProducerStep(d) BY ChangeFacts
<1>1. \A w \in Workers : ~At(w, "idle") => worker[w].job \in Jobs
        /\ rows[worker[w].job].status # "absent"
  BY JobInHand
<1>2. UNCHANGED <<index, worker, faults>> BY <1>0 DEF ProducerStep
<1>3. CASE \E j \in Jobs, action \in Action : Queued(j, d, action)
  <2>1. PICK j \in Jobs, action \in Action : Queued(j, d, action) BY <1>3
  <2>2. /\ rows'[j] = NewRow /\ payload'[j] = [content |-> d, action |-> action]
        /\ \A i \in Jobs : i # j => rows'[i] = rows[i] /\ payload'[i] = payload[i]
        /\ rows[j].status = "absent"
    BY <2>1, QueuedFacts DEF Queued
  <2>3. Free(j)' BY <1>2, <2>2, NotHeld DEF Free, At
  <2>4. CASE c = d
    <3>1. payload'[j].content = c /\ rows'[j].status \notin {"absent", "succeeded"}
      BY <2>2, <2>4, NewRowFacts
    <3> QED BY <2>3, <3>1 DEF Settled, Owed
  <2>5. CASE c # d
    <3>1. item'[c] = item[c] BY <1>0, <2>5 DEF ProducerStep
    <3>2. ASSUME Owed(c) PROVE Owed(c)'
      <4>1. PICK i \in Jobs : /\ payload[i].content = c /\ Free(i)
                              /\ rows[i].status \notin {"absent", "succeeded"}
        BY <3>2 DEF Owed
      <4>2. i # j BY <2>2, <4>1
      <4>3. Free(i)' BY <1>2, <4>1 DEF Free, At
      <4> QED BY <2>2, <4>1, <4>2, <4>3 DEF Owed
    <3>3. \A w \in Workers : Serves(w, c)' <=> Serves(w, c)
      BY <1>1, <1>2, <2>2 DEF Serves, Content, At
    <3>4. ASSUME NEW w \in Workers, InHand(w, c) PROVE InHand(w, c)'
      <4>1. worker[w].job \in Jobs /\ worker[w].job # j
        BY <1>1, <2>2, <3>4 DEF InHand, Serves
      <4> QED BY <1>2, <2>2, <3>1, <3>3, <3>4, <4>1 DEF InHand, At
    <3>5. InStep(c)' <=> InStep(c) BY <1>2, <3>1, Zenon DEF InStep
    <3> QED BY <1>2, <3>2, <3>3, <3>4, <3>5 DEF Settled
  <2> QED BY <2>4, <2>5
<1>4. CASE /\ UNCHANGED <<rows, payload>>
           /\ item'[d].shown = item[d].shown /\ item'[d].announced = item[d].announced
           /\ item[d].version <= item'[d].version
  <2>1. /\ item'[c].shown = item[c].shown
        /\ item[c].announced .. item[c].version \subseteq item'[c].announced .. item'[c].version
    <3>1. /\ item'[c].shown = item[c].shown /\ item'[c].announced = item[c].announced
          /\ item[c].version <= item'[c].version
          /\ item[c].version \in Int /\ item'[c].version \in Int /\ item[c].announced \in Int
      <4>1. item[c] \in Item /\ item'[c] \in Item BY <1>0 DEF Base, TypeOK, ProducerStep
      <4>2. /\ item[c].version \in Int /\ item'[c].version \in Int /\ item[c].announced \in Int
            /\ item[c].version <= item[c].version
        BY <4>1, SMT DEF Item, Document
      <4> QED BY <1>0, <1>4, <4>2, Zenon DEF ProducerStep
    <3> QED BY <3>1, SMT
  <2>2. Owed(c) => Owed(c)' BY <1>2, <1>4 DEF Owed, Free, At
  <2>3. \A w \in Workers : Serves(w, c)' <=> Serves(w, c)
    BY <1>2, <1>4 DEF Serves, Content, At
  <2>4. \A w \in Workers : InHand(w, c) => InHand(w, c)'
    BY <1>2, <1>4, <2>1, <2>3, Zenon DEF InHand, At
  <2>5. InStep(c) => InStep(c)' BY <1>2, <2>1, Zenon DEF InStep
  <2> QED BY <1>2, <2>2, <2>3, <2>4, <2>5, Zenon DEF Settled
<1> QED BY <1>0, <1>3, <1>4 DEF ProducerStep

LEMMA SettledByClaim ==
  ASSUME Base, OneSearchWorker, NEW c \in Contents, Settled(c), ClaimIsRight(c),
         NEW w \in Workers, NEW j \in Jobs, Claim(w, j)
  PROVE  Settled(c)'
<1>1. /\ rows'[j].status = "running"
      /\ \A i \in Jobs : i # j => rows'[i] = rows[i]
      /\ worker'[w].job = j
      /\ worker'[w].pc = IF payload[j].action = "delete_content" THEN "delete" ELSE "load"
      /\ \A v \in Workers : v = w
  BY ClaimKeepsBase DEF OneSearchWorker
<1>2. At(w, "idle") /\ ~At(w, "idle")' /\ UNCHANGED <<item, index, payload, faults>>
  BY <1>1 DEF Claim, At
<1>3. \A i \in Jobs : i # j => Free(i)' BY <1>1 DEF Free
<1>4. Serves(w, c)' <=> payload[j].content = c BY <1>1, <1>2 DEF Serves, Content
<1>5. CASE payload[j].content = c /\ payload[j].action = "delete_content"
  <2>1. \/ ~item[c].shown
        \/ \E i \in Jobs : i # j /\ payload[i].content = c /\ rows[i].status = "pending"
    BY <1>5 DEF ClaimIsRight, Claim
  <2>2. CASE ~item[c].shown BY <1>1, <1>2, <1>4, <1>5, <2>2 DEF Settled, InHand, At
  <2>3. CASE \E i \in Jobs : i # j /\ payload[i].content = c /\ rows[i].status = "pending"
    BY <1>1, <1>2, <1>3, <2>3 DEF Settled, Owed
  <2> QED BY <2>1, <2>2, <2>3
<1>6. CASE payload[j].content = c /\ payload[j].action # "delete_content"
  BY <1>1, <1>4, <1>6 DEF Settled, InHand, At
<1>7. CASE payload[j].content # c
  <2>1. ~InHand(w, c) BY <1>2 DEF InHand, Serves
  <2>2. Owed(c) => Owed(c)' BY <1>1, <1>2, <1>3, <1>7 DEF Owed
  <2>3. InStep(c) => InStep(c)' BY <1>2, Zenon DEF InStep
  <2> QED BY <1>1, <1>4, <1>7, <2>1, <2>2, <2>3, Zenon DEF Settled
<1> QED BY <1>5, <1>6, <1>7

\* Steps of the worker that keep the job in its hands.
LEMMA SettledInHand ==
  ASSUME Base, OneSearchWorker, NEW c \in Contents, Settled(c), NEW w \in Workers,
         ~At(w, "idle"), worker'[w].pc # "idle", worker'[w].job = worker[w].job,
         UNCHANGED <<item, rows, payload>>,
         Serves(w, c) /\ ~Owed(c) =>
           InHand(w, c)' \/ (InStep(c)' /\ worker'[w].pc \notin {"upsert", "delete"}),
         ~Serves(w, c) => UNCHANGED index[c]
  PROVE  Settled(c)'
<1>1. \A v \in Workers : v = w BY DEF OneSearchWorker
<1>2. Serves(w, c)' <=> Serves(w, c) BY DEF Serves, Content, At
<1>3. Owed(c) => Owed(c)' BY <1>1 DEF Owed, Free, At
<1>4. CASE Serves(w, c)
  BY <1>1, <1>3, <1>4, Zenon DEF Settled
<1>5. CASE ~Serves(w, c)
  <2>1. ~InHand(w, c) BY <1>5 DEF InHand
  <2>2. InStep(c) => InStep(c)' BY <1>5, Zenon DEF InStep
  <2> QED BY <1>1, <1>2, <1>3, <1>5, <2>1, <2>2, Zenon DEF Settled
<1> QED BY <1>4, <1>5

LEMMA SettledByWork ==
  ASSUME Base, OneSearchWorker, NEW c \in Contents, Settled(c), NEW w \in Workers,
         Load(w) \/ Upsert(w) \/ Delete(w)
  PROVE  Settled(c)'
<1>1. /\ \A v \in Workers : v = w /\ ~At(w, "idle") /\ ~At(w, "fail")
      /\ worker[w] \in Worker /\ rows[worker[w].job].status = "running"
  BY JobInHand DEF OneSearchWorker, Load, Upsert, Delete, At
<1>0. ~At(w, "idle") /\ ~At(w, "fail") BY <1>1
<1>2. ~Owed(c) => \/ InHand(w, c)
                  \/ InStep(c) /\ ~(Serves(w, c) /\ worker[w].pc \in {"upsert", "delete"})
  BY <1>1, Zenon DEF Settled
<1>3. CASE Load(w)
  <2>1. /\ UNCHANGED <<item, index, rows, payload, faults>>
        /\ worker'[w].job = worker[w].job
        /\ \/ /\ worker'[w].pc = "upsert" /\ item[Content(w)].shown
              /\ worker'[w].document = item[Content(w)].version
              /\ item[Content(w)].version # NoDocument
           \/ worker'[w].pc = "delete" /\ ~item[Content(w)].shown
           \/ worker'[w].pc = "fail" /\ "db_error" \in faults
    BY <1>3, LoadFacts
  <2>2. Serves(w, c) => Serves(w, c)' /\ Content(w) = c
    BY <2>1 DEF Serves, Content, At
  <2>3. Serves(w, c) => InHand(w, c)'
    <3>1. /\ item[Content(w)].version # NoDocument
          /\ item[Content(w)].version \in
               item[Content(w)].announced .. item[Content(w)].version
      <4>1. Content(w) \in Contents BY <1>0, JobInHand
      <4>2. item[Content(w)].version \in Document /\ item[Content(w)].announced \in Document
        BY <4>1 DEF Base, TypeOK, Item
      <4>3. item[Content(w)].announced <= item[Content(w)].version
        BY <4>1 DEF Base, TablesFit
      <4> QED BY <4>2, <4>3, DocumentAssumption, SMT DEF Document
    <3> QED BY <1>1, <2>1, <2>2, <3>1 DEF InHand, At
  <2> QED BY <1>0, <2>1, <2>3, SettledInHand
<1>4. ASSUME NEW entry \in Document \cup {NoDocument}, Call(w, entry),
             UNCHANGED <<item, rows, payload, faults>>,
             Serves(w, c) /\ ~Owed(c) => \/ item[c].shown /\ entry # NoDocument
                                              /\ entry \in item[c].announced .. item[c].version
                                         \/ ~item[c].shown /\ entry = NoDocument
      PROVE  Settled(c)'
  <2>1. /\ worker'[w].job = worker[w].job
        /\ worker'[w].pc \in {"mark", "fail"}
        /\ \A d \in Contents : d # Content(w) => index'[d] = index[d]
        /\ worker'[w].pc = "mark" => index'[Content(w)] = entry
    BY <1>0, <1>4, CallFacts
  <2>2. Serves(w, c) => Serves(w, c)' /\ Content(w) = c
    BY <1>4, <2>1 DEF Serves, Content, At
  <2>3. ~Serves(w, c) => index'[c] = index[c] BY <1>0, <2>1 DEF Serves
  <2>4. CASE worker'[w].pc = "mark"
    <3>1. Serves(w, c) /\ ~Owed(c) => InStep(c)'
      BY <1>4, <2>1, <2>2, <2>4, Zenon DEF InStep
    <3> QED BY <1>0, <1>4, <2>1, <2>3, <2>4, <3>1, SettledInHand
  <2>5. CASE worker'[w].pc = "fail"
    <3>1. Serves(w, c) => InHand(w, c)' BY <1>1, <1>4, <2>1, <2>2, <2>5 DEF InHand, At
    <3> QED BY <1>0, <1>4, <2>1, <2>3, <2>5, <3>1, SettledInHand
  <2> QED BY <2>1, <2>4, <2>5
<1>5. CASE Upsert(w)
  <2>1. /\ At(w, "upsert") /\ Call(w, worker[w].document)
        /\ UNCHANGED <<item, rows, payload, faults>>
        /\ worker[w].document \in Document \cup {NoDocument}
    BY <1>1, <1>5 DEF Upsert, Worker
  <2>2. Serves(w, c) /\ ~Owed(c) =>
          /\ item[c].shown /\ worker[w].document # NoDocument
          /\ worker[w].document \in item[c].announced .. item[c].version
    BY <1>2, <2>1 DEF InHand, At
  <2> QED BY <1>4, <2>1, <2>2
<1>6. CASE Delete(w)
  <2>1. /\ At(w, "delete") /\ Call(w, NoDocument) /\ UNCHANGED <<item, rows, payload, faults>>
    BY <1>6 DEF Delete
  <2>2. Serves(w, c) /\ ~Owed(c) => ~item[c].shown
    BY <1>2, <2>1 DEF InHand, At
  <2> QED BY <1>4, <2>1, <2>2
<1> QED BY <1>3, <1>5, <1>6

LEMMA SettledByLastSteps ==
  ASSUME Base, OneSearchWorker, NEW c \in Contents, Settled(c), NEW w \in Workers,
         Mark(w) \/ Fail(w) \/ Crash(w)
  PROVE  Settled(c)'
<1>1. \A v \in Workers : v = w BY DEF OneSearchWorker
<1>2. ~At(w, "idle") BY DEF Mark, Fail, Crash, At
<1>3. /\ worker[w].job \in Jobs
      /\ rows[worker[w].job].status = "running" \/
           (At(w, "fail") /\ rows[worker[w].job].status = "succeeded")
  BY <1>2, JobInHand
<1>4. CASE Mark(w)
  <2>1. /\ UNCHANGED <<item, index, payload, faults>>
        /\ \A i \in Jobs : i # worker[w].job => rows'[i] = rows[i]
        /\ \/ worker'[w].pc = "idle"
           \/ worker'[w].pc = "fail" /\ worker'[w].job = worker[w].job
    BY <1>4, MarkFacts
  <2>2. ~InHand(w, c) /\ At(w, "mark") BY <1>4 DEF Mark, InHand, At
  <2>3. ASSUME Owed(c) PROVE Owed(c)'
    <3>1. PICK i \in Jobs : /\ payload[i].content = c /\ Free(i)
                            /\ rows[i].status \notin {"absent", "succeeded"}
      BY <2>3 DEF Owed
    <3>2. i # worker[w].job BY <1>2, <3>1 DEF Free
    <3>3. Free(i)' BY <1>1, <2>1, <3>2 DEF Free, At
    <3> QED BY <2>1, <3>1, <3>2, <3>3 DEF Owed
  <2>4. InStep(c) => InStep(c)' BY <2>1, Zenon DEF InStep
  <2>5. \A v \in Workers : worker'[v].pc \notin {"upsert", "delete"} BY <1>1, <2>1
  <2> QED BY <1>1, <2>2, <2>3, <2>4, <2>5, Zenon DEF Settled
<1>5. ASSUME worker'[w].pc = "idle", UNCHANGED <<item, index, payload>>,
             \A i \in Jobs : i # worker[w].job => rows'[i] = rows[i],
             rows'[worker[w].job].status \in {"pending", "dead"} \/ rows' = rows
      PROVE  Settled(c)'
  <2>1. \A i \in Jobs : Free(i)' BY <1>1, <1>5 DEF Free, At
  <2>2. ASSUME Owed(c) PROVE Owed(c)'
    <3>1. PICK i \in Jobs : /\ payload[i].content = c /\ Free(i)
                            /\ rows[i].status \notin {"absent", "succeeded"}
      BY <2>2 DEF Owed
    <3>2. i # worker[w].job BY <1>2, <3>1 DEF Free
    <3> QED BY <1>5, <2>1, <3>1, <3>2 DEF Owed
  <2>3. ASSUME InHand(w, c) PROVE Owed(c)'
    <3>1. payload[worker[w].job].content = c BY <2>3 DEF InHand, Serves, Content
    <3>2. rows[worker[w].job].status = "running"
      BY <1>3, <2>3 DEF InHand, At
    <3>3. rows'[worker[w].job].status \notin {"absent", "succeeded"} BY <1>5, <3>2
    <3> QED BY <1>3, <1>5, <2>1, <3>1, <3>3 DEF Owed
  <2>4. InStep(c) => InStep(c)' BY <1>5, Zenon DEF InStep
  <2>5. \A v \in Workers : worker'[v].pc \notin {"upsert", "delete"} BY <1>1, <1>5
  <2> QED BY <1>1, <2>2, <2>3, <2>4, <2>5, Zenon DEF Settled
<1>6. CASE Fail(w) BY <1>5, <1>6, FailFacts
<1>7. CASE Crash(w) BY <1>5, <1>7, CrashFacts
<1> QED BY <1>4, <1>6, <1>7

LEMMA SettledByRequeue ==
  ASSUME Base, NEW c \in Contents, Settled(c), NEW j \in Jobs,
         BackoffElapses(j) \/ RetryAdminJob(j)
  PROVE  Settled(c)'
<1>1. /\ Free(j) /\ rows'[j].status = "pending"
      /\ \A i \in Jobs : i # j => rows'[i] = rows[i]
      /\ UNCHANGED <<item, index, payload, worker, faults>>
  BY RequeuedFacts
<1>2. Owed(c) => Owed(c)' BY <1>1 DEF Owed, Free, At
<1>3. \A w \in Workers : Serves(w, c)' <=> Serves(w, c) BY <1>1 DEF Serves, Content, At
<1>4. ASSUME NEW w \in Workers, InHand(w, c) PROVE InHand(w, c)'
  <2>1. worker[w].job \in Jobs /\ worker[w].job # j
    BY <1>1, <1>4, JobInHand DEF InHand, Serves, Free
  <2> QED BY <1>1, <1>3, <1>4, <2>1 DEF InHand, At
<1>5. InStep(c) => InStep(c)' BY <1>1, Zenon DEF InStep
<1> QED BY <1>1, <1>2, <1>3, <1>4, <1>5, Zenon DEF Settled

LEMMA SettledStep ==
  ASSUME Base, OneSearchWorker, Next, NEW c \in Contents, Settled(c), ClaimIsRight(c)
  PROVE  Settled(c)'
  BY SettledByChange, SettledByClaim, SettledByWork, SettledByLastSteps, SettledByRequeue
     DEF Next, WorkerStep

\* In the order of the queue, the last job of an item decides.
LEMMA OrderlyClaims ==
  ASSUME Base, Orderly, NEW c \in Contents, LastDeleteIsRight(c)
  PROVE  ClaimIsRight(c)
<1>1. SUFFICES ASSUME NEW j \in Jobs, Claimable(rows[j]),
                      payload[j].content = c, payload[j].action = "delete_content",
                      \A i \in Jobs : i # j /\ payload[i].content = c =>
                                        rows[i].status # "pending"
               PROVE  ~item[c].shown
  BY DEF ClaimIsRight
<1>2. payload[j] = [content |-> c, action |-> "delete_content"]
  BY <1>1 DEF Base, TypeOK, Payload
<1>3. ASSUME NEW i \in Jobs, i > j, payload[i].content = c PROVE FALSE
  <2>1. rows[i].status \in {"pending", "absent"}
    BY <1>1, <1>3, SMT DEF Orderly, Claimable, Jobs
  <2>2. rows[i].status = "absent" BY <1>1, <1>3, <2>1, SMT DEF Jobs
  <2> QED BY <1>3, <2>2, SearchAssumption DEF Base, TablesFit
<1> QED BY <1>2, <1>3 DEF LastDeleteIsRight

LEMMA DeletesStay ==
  ASSUME Base, Next, NEW c \in Contents, NeverWithdrawn(c)'
  PROVE  NeverWithdrawn(c)
<1>1. ASSUME NEW d \in Contents, Change(d) \/ Image(d) PROVE NeverWithdrawn(c)
  <2>1. ProducerStep(d) BY <1>1, ChangeFacts
  <2>2. CASE \E j \in Jobs, action \in Action : Queued(j, d, action)
    <3>1. PICK j \in Jobs, action \in Action : Queued(j, d, action) BY <2>2
    <3>2. \A i \in Jobs : i # j => payload'[i] = payload[i] BY <3>1, QueuedFacts
    <3>3. payload[j].content = NoContent BY <3>1 DEF Queued, Base, TablesFit
    <3> QED BY <3>2, <3>3, SearchAssumption DEF NeverWithdrawn
  <2> QED BY <2>1, <2>2 DEF ProducerStep, NeverWithdrawn
<1>2. ASSUME UNCHANGED payload PROVE NeverWithdrawn(c)
  BY <1>2 DEF NeverWithdrawn
<1> QED
  BY <1>1, <1>2
     DEF Next, WorkerStep, Claim, Load, Upsert, Delete, Mark, Fail, Crash, BackoffElapses,
         RetryAdminJob

LEMMA SearchInvStep == SearchInv /\ [Next]_vars => SearchInv'
<1> SUFFICES ASSUME SearchInv, [Next]_vars PROVE SearchInv' OBVIOUS
<1>t. Base BY DEF SearchInv
<1>1. CASE Next
  <2>1. Base'
    <3>1. ASSUME NEW c \in Contents, Change(c) \/ Image(c) PROVE Base'
      BY <1>t, <3>1, ChangeFacts, ProducerKeepsBase
    <3>2. ASSUME NEW w \in Workers, Upsert(w) \/ Delete(w) PROVE Base'
      <4>1. ~At(w, "idle") /\ ~At(w, "fail") /\ UNCHANGED <<item, rows, payload, faults>>
        BY <3>2 DEF Upsert, Delete, At
      <4>2. PICK entry \in Document \cup {NoDocument} : Call(w, entry)
        BY <1>t, <3>2 DEF Upsert, Delete, Base, TypeOK, Worker
      <4> QED BY <1>t, <4>1, <4>2, CallFacts
    <3> QED BY <1>t, <1>1, <3>1, <3>2, ClaimKeepsBase, LoadFacts, MarkFacts, FailFacts,
               CrashFacts, RequeuedFacts
            DEF Next, WorkerStep
  <2>2. ASSUME faults \subseteq {"crash"} PROVE \A c \in Contents : LastDeleteIsRight(c)'
    BY <1>t, <1>1, <2>2, LastDeleteStep DEF SearchInv
  <2>3. faults' = faults
    <3>1. ASSUME NEW c \in Contents, Change(c) \/ Image(c) PROVE faults' = faults
      BY <1>t, <3>1, ChangeFacts DEF ProducerStep
    <3> QED BY <1>1, <3>1 DEF Next, WorkerStep, Claim, Load, Upsert, Delete, Mark, Fail, Crash,
                              BackoffElapses, RetryAdminJob
  <2>4. faults \subseteq {"crash"} => Orderly'
    BY <1>t, <1>1, OrderlyStep DEF SearchInv
  <2>5. ASSUME OneSearchWorker, NEW c \in Contents,
               faults \subseteq {"crash"} \/ NeverWithdrawn(c)'
        PROVE  Settled(c)'
    <3>1. NeverWithdrawn(c)' => NeverWithdrawn(c) BY <1>t, <1>1, DeletesStay
    <3>2. Settled(c) BY <2>5, <3>1 DEF SearchInv
    <3>3. ClaimIsRight(c)
      <4>1. CASE faults \subseteq {"crash"} BY <1>t, <4>1, OrderlyClaims DEF SearchInv
      <4>2. CASE NeverWithdrawn(c) BY <4>2 DEF NeverWithdrawn, ClaimIsRight
      <4> QED BY <2>5, <3>1, <4>1, <4>2
    <3> QED BY <1>t, <1>1, <2>5, <3>2, <3>3, SettledStep
  <2> QED BY <2>1, <2>2, <2>3, <2>4, <2>5 DEF SearchInv, OneSearchWorker
<1>2. CASE UNCHANGED vars
  <2>1. UNCHANGED <<item, index, rows, payload, worker, faults>> BY <1>2 DEF vars
  <2>2. Base' BY <1>t, <2>1 DEF Base, TypeOK, TablesFit, WorkersFit, At
  <2>3. \A c \in Contents : LastDeleteIsRight(c) => LastDeleteIsRight(c)'
    BY <2>1 DEF LastDeleteIsRight
  <2>4. Orderly => Orderly' BY <2>1 DEF Orderly, At
  <2>5. \A c \in Contents : (NeverWithdrawn(c)' => NeverWithdrawn(c)) /\ (Settled(c) => Settled(c)')
    BY <2>1 DEF NeverWithdrawn, Settled, Owed, Free, InHand, Serves, Content, InStep, At
  <2> QED BY <2>1, <2>2, <2>3, <2>4, <2>5, Zenon DEF SearchInv, OneSearchWorker
<1> QED BY <1>1, <1>2

LEMMA SettledIsInStep == SearchInv /\ OneSearchWorker => SyncedWhenDone
<1> SUFFICES ASSUME SearchInv, OneSearchWorker, AllDone, NEW c \in Contents,
                    faults \subseteq {"crash"} \/ NeverWithdrawn(c)
             PROVE  InStep(c)
  BY DEF SyncedWhenDone
<1>1. Settled(c) /\ Base BY DEF SearchInv
<1>2. ~Owed(c) BY DEF Owed, AllDone
<1>3. \A w \in Workers : ~At(w, "idle") /\ ~At(w, "fail") => FALSE
  BY <1>1, JobInHand DEF AllDone
<1>4. ASSUME NEW w \in Workers, InHand(w, c) PROVE FALSE
  <2>1. At(w, "fail") /\ rows[worker[w].job].status = "running"
    BY <1>3, <1>4 DEF InHand, Serves, At
  <2>2. worker[w].job \in Jobs BY <1>1, <1>4, JobInHand DEF InHand, Serves
  <2> QED BY <2>1, <2>2 DEF AllDone
<1> QED BY <1>1, <1>2, <1>4 DEF Settled

-----------------------------------------------------------------------------
(* Lists.  What the assumption says of the numbers.                        *)

ListNumbers ==
  /\ Rows \subseteq Int /\ IsFiniteSet(Rows)
  /\ Keys \subseteq Int /\ NullKey \notin Keys
  /\ Start \notin L!Cursor
  /\ Limits \subseteq Nat \ {0}
  /\ MaxChanges \in Nat

\* A finite set has a least element in a strict order.
LEMMA LeastExists ==
  ASSUME NEW S, IsFiniteSet(S), S # {}, NEW Less,
         \A x \in S : <<x, x>> \notin Less,
         \A x, y, z \in S : <<x, y>> \in Less /\ <<y, z>> \in Less => <<x, z>> \in Less
  PROVE  \E x \in S : \A y \in S : <<y, x>> \notin Less
<1> DEFINE Below(x) == {y \in S : <<y, x>> \in Less}
           T == {Below(x) : x \in S}
<1>1. T \subseteq FiniteSubsetsOf(S) BY FS_Subset DEF FiniteSubsetsOf
<1>2. PICK t \in T : \A u \in T : <<u, t>> \notin StrictSubsetOrdering(S)
  <2>1. IsWellFoundedOn(StrictSubsetOrdering(S), FiniteSubsetsOf(S))
    BY FS_StrictSubsetOrderingWellFounded
  <2>2. T # {}
    <3>1. PICK x : x \in S OBVIOUS
    <3>2. Below(x) \in T BY <3>1
    <3> QED BY <3>2
  <2> HIDE DEF T
  <2> QED BY <1>1, <2>1, <2>2, WFMin, Zenon
<1>3. PICK x \in S : t = Below(x) OBVIOUS
<1>4. SUFFICES ASSUME NEW y \in S, <<y, x>> \in Less PROVE FALSE BY Zenon
<1>5. Below(y) \subseteq Below(x) BY <1>4
<1>6. y \in Below(x) /\ y \notin Below(y) BY <1>4
<1>7. <<Below(y), Below(x)>> \in StrictSubsetOrdering(S)
  <2>1. Below(x) \subseteq S /\ Below(y) \subseteq S /\ Below(x) # Below(y) BY <1>6
  <2> HIDE DEF Below
  <2> QED BY <1>5, <2>1 DEF StrictSubsetOrdering
<1> QED BY <1>2, <1>3, <1>7

-----------------------------------------------------------------------------
LEMMA ColumnTypes ==
  ASSUME ListNumbers, row \in [Rows -> L!Row], NEW r \in Rows
  PROVE  /\ r \in Int
         /\ row[r] \in L!Row
         /\ row[r].key = NullKey \/ row[r].key \in Int
         /\ row[r].key # NullKey => row[r].key \in Keys
  BY DEF ListNumbers, L!Row

LEMMA PrecedesIsAnOrder ==
  ASSUME ListNumbers, row \in [Rows -> L!Row]
  PROVE  /\ \A r \in Rows : ~L!Precedes(r, r)
         /\ \A r, s, t \in Rows : L!Precedes(r, s) /\ L!Precedes(s, t) => L!Precedes(r, t)
         /\ \A r, s \in Rows : r = s \/ L!Precedes(r, s) \/ L!Precedes(s, r)
<1>1. ASSUME NEW r \in Rows PROVE ~L!Precedes(r, r)
  BY <1>1, ColumnTypes, SMT DEF L!Precedes
<1>2. ASSUME NEW r \in Rows, NEW s \in Rows, NEW t \in Rows, L!Precedes(r, s), L!Precedes(s, t)
      PROVE  L!Precedes(r, t)
  <2>1. /\ r \in Int /\ s \in Int /\ t \in Int
        /\ row[r].key = NullKey \/ row[r].key \in Int
        /\ row[s].key = NullKey \/ row[s].key \in Int
        /\ row[t].key = NullKey \/ row[t].key \in Int
    BY ColumnTypes
  <2> QED BY <1>2, <2>1, SMT DEF L!Precedes
<1>3. ASSUME NEW r \in Rows, NEW s \in Rows PROVE r = s \/ L!Precedes(r, s) \/ L!Precedes(s, r)
  <2>1. /\ r \in Int /\ s \in Int
        /\ row[r].key = NullKey \/ row[r].key \in Int
        /\ row[s].key = NullKey \/ row[s].key \in Int
    BY ColumnTypes
  <2> QED BY <2>1, SMT DEF L!Precedes
<1> QED BY <1>1, <1>2, <1>3

Ahead(r) == {s \in L!Matching : L!Precedes(s, r)}

\* The order of a set of rows has a least and a greatest element.
LEMMA FirstAndLastExist ==
  ASSUME ListNumbers, row \in [Rows -> L!Row], NEW S, S \subseteq Rows, S # {}
  PROVE  /\ \E r \in S : \A s \in S : ~L!Precedes(s, r)
         /\ \E r \in S : \A s \in S : s = r \/ L!Precedes(s, r)
<1>1. IsFiniteSet(S) BY FS_Subset DEF ListNumbers
<1> DEFINE Ascending == {p \in Rows \X Rows : L!Precedes(p[1], p[2])}
           Descending == {p \in Rows \X Rows : L!Precedes(p[2], p[1])}
<1>2. \A x, y \in S : /\ <<x, y>> \in Ascending <=> L!Precedes(x, y)
                      /\ <<x, y>> \in Descending <=> L!Precedes(y, x)
  OBVIOUS
<1>3. /\ \A x \in S : <<x, x>> \notin Ascending /\ <<x, x>> \notin Descending
      /\ \A x, y, z \in S :
            <<x, y>> \in Ascending /\ <<y, z>> \in Ascending => <<x, z>> \in Ascending
      /\ \A x, y, z \in S :
            <<x, y>> \in Descending /\ <<y, z>> \in Descending => <<x, z>> \in Descending
  <2> HIDE DEF Ascending, Descending
  <2> QED BY <1>2, PrecedesIsAnOrder
<1> HIDE DEF Ascending, Descending
<1>4. PICK x \in S : \A y \in S : <<y, x>> \notin Ascending BY <1>1, <1>3, LeastExists, Zenon
<1>5. PICK x2 \in S : \A y \in S : <<y, x2>> \notin Descending BY <1>1, <1>3, LeastExists, Zenon
<1> QED BY <1>2, <1>4, <1>5, PrecedesIsAnOrder

\* Listing counts with its own instance of FiniteSets.
LEMMA SameCardinality == \A S : L!Cardinality(S) = Cardinality(S)
  BY DEF L!Cardinality, Cardinality

LEMMA PageFacts ==
  ASSUME ListNumbers, L!TypeOK
  PROVE  /\ L!Matching \subseteq Rows /\ L!Page \subseteq L!Matching
         /\ Cardinality(L!Matching) <= limit => L!Page = L!Matching
         /\ Cardinality(L!Matching) > limit =>
              L!Last \in L!Page /\ \A s \in L!Page : s = L!Last \/ L!Precedes(s, L!Last)
         /\ \A r \in L!Matching \ L!Page : \A s \in L!Page : L!Precedes(s, r)
<1>1. row \in [Rows -> L!Row] /\ limit \in Nat /\ limit > 0 BY SMT DEF L!TypeOK, ListNumbers
<1>2. L!Matching \subseteq Rows /\ L!Page \subseteq L!Matching BY DEF L!Matching, L!Page
<1>3. IsFiniteSet(L!Matching) /\ Cardinality(L!Matching) \in Nat
  BY <1>2, FS_Subset, FS_CardinalityType DEF ListNumbers
<1>4. \A r \in L!Matching : r \in L!Page <=> Cardinality(Ahead(r)) < limit
  BY SameCardinality DEF L!Page, Ahead
<1>5. \A r \in L!Matching : /\ Ahead(r) \subseteq L!Matching /\ r \notin Ahead(r)
                            /\ IsFiniteSet(Ahead(r)) /\ Cardinality(Ahead(r)) \in Nat
                            /\ Cardinality(Ahead(r)) < Cardinality(L!Matching)
  <2>1. TAKE r \in L!Matching
  <2>2. Ahead(r) \subseteq L!Matching /\ r \notin Ahead(r)
    BY <1>1, <1>2, PrecedesIsAnOrder DEF Ahead
  <2>3. /\ IsFiniteSet(Ahead(r)) /\ Cardinality(Ahead(r)) <= Cardinality(L!Matching)
        /\ Cardinality(L!Matching) # Cardinality(Ahead(r))
    BY <1>3, <2>2, FS_Subset
  <2>4. Cardinality(Ahead(r)) \in Nat BY <2>3, FS_CardinalityType
  <2> QED BY <1>3, <2>2, <2>3, <2>4, SMT
<1>6. Cardinality(L!Matching) <= limit => L!Page = L!Matching
  <2>1. ASSUME Cardinality(L!Matching) <= limit, NEW r \in L!Matching PROVE r \in L!Page
    <3>1. Cardinality(Ahead(r)) \in Nat /\ Cardinality(Ahead(r)) < Cardinality(L!Matching)
      BY <1>5
    <3>2. Cardinality(Ahead(r)) < limit BY <3>1, <2>1, <1>1, <1>3, SMT
    <3> QED BY <3>2, <1>4
  <2> QED BY <2>1, <1>2
<1>7. ASSUME NEW r \in L!Matching \ L!Page, NEW s \in L!Page PROVE L!Precedes(s, r)
  <2>1. SUFFICES ASSUME L!Precedes(r, s) PROVE FALSE
    BY <1>1, <1>2, <1>7, PrecedesIsAnOrder
  <2>2. Ahead(r) \subseteq Ahead(s)
    <3>1. \A t \in L!Matching : L!Precedes(t, r) => L!Precedes(t, s)
      BY <1>1, <1>2, <2>1, PrecedesIsAnOrder
    <3> QED BY <3>1 DEF Ahead
  <2>3. s \in L!Matching BY <1>2
  <2>4. Cardinality(Ahead(r)) <= Cardinality(Ahead(s)) BY <1>5, <2>2, <2>3, FS_Subset
  <2> QED BY <1>1, <1>4, <1>5, <2>3, <2>4, SMT
<1>8. ASSUME Cardinality(L!Matching) > limit
      PROVE  L!Last \in L!Page /\ \A s \in L!Page : s = L!Last \/ L!Precedes(s, L!Last)
  <2>1. L!Matching # {} BY <1>1, <1>8, FS_EmptySet, SMT
  <2>2. PICK r \in L!Matching : \A s \in L!Matching : ~L!Precedes(s, r)
    BY <1>1, <1>2, <2>1, FirstAndLastExist
  <2>3. Ahead(r) = {} BY <2>2 DEF Ahead
  <2>4. r \in L!Page BY <1>1, <1>4, <2>3, FS_EmptySet, SMT
  <2>5. PICK l \in L!Page : \A s \in L!Page : s = l \/ L!Precedes(s, l)
    <3>1. L!Page \subseteq Rows /\ L!Page # {} BY <1>2, <2>4
    <3> QED BY <1>1, <3>1, FirstAndLastExist
  <2>6. \E p \in L!Page : \A s \in L!Page : s = p \/ L!Precedes(s, p) BY <2>5
  <2> QED BY <2>6 DEF L!Last
<1> QED BY <1>2, <1>6, <1>7, <1>8

-----------------------------------------------------------------------------
\* Rows that were on the list all the time are shown or still to come.
NothingIsSkipped ==
  \A r \in before \ changed : row[r].listed /\ (L!Beyond(r) \/ r \in shown)

\* What was shown lies behind the cursor, and stays there as no key falls.
NothingComesAgain ==
  order.key # "moving" /\ ~order.nullable =>
    /\ \A r \in Rows : row[r].key # NullKey
    /\ ended = "no" => \A r \in shown : ~L!Beyond(r)
    /\ twice = {}

ListInv ==
  /\ L!TypeOK
  /\ ended = "no" => NothingIsSkipped
  /\ NothingComesAgain
  /\ L!WalkIsFaithful

LEMMA ListInvInit == ListNumbers /\ L!Init => ListInv
<1> SUFFICES ASSUME ListNumbers, L!Init PROVE ListInv OBVIOUS
<1>1. L!TypeOK BY SMT DEF L!Init, L!TypeOK, ListNumbers
<1>2. NothingIsSkipped BY <1>1 DEF L!Init, NothingIsSkipped, L!Beyond
<1>3. NothingComesAgain BY DEF L!Init, NothingComesAgain
<1>4. L!WalkIsFaithful BY DEF L!Init, L!WalkIsFaithful
<1> QED BY <1>1, <1>2, <1>3, <1>4 DEF ListInv

\* The cursor is the last row of the page: it is behind the rows of the page,
\* and before the other rows that match.
LEMMA CursorMoves ==
  ASSUME ListNumbers, L!TypeOK, Cardinality(L!Matching) > limit, row[L!Last].key # NullKey,
         cursor' = [key |-> row[L!Last].key, id |-> L!Last], UNCHANGED row
  PROVE  /\ cursor' \in L!Cursor
         /\ \A r \in L!Matching : L!Beyond(r)' <=> r \notin L!Page
         /\ \A r \in Rows : row[r].key # NullKey /\ ~L!Beyond(r) => ~L!Beyond(r)'
<1>1. /\ L!Matching \subseteq Rows /\ L!Page \subseteq L!Matching /\ L!Last \in L!Page
      /\ \A s \in L!Page : s = L!Last \/ L!Precedes(s, L!Last)
      /\ \A r \in L!Matching \ L!Page : \A s \in L!Page : L!Precedes(s, r)
  BY PageFacts
<1>2. row \in [Rows -> L!Row] BY DEF L!TypeOK
<1>3. L!Last \in Rows /\ L!Last \in Int /\ row[L!Last].key \in Keys /\ row[L!Last].key \in Int
  BY <1>1, <1>2, ColumnTypes
<1>4. /\ cursor' \in L!Cursor /\ cursor' # Start
      /\ cursor'.key = row[L!Last].key /\ cursor'.id = L!Last
  BY <1>3 DEF L!Cursor, ListNumbers
<1>5. ASSUME NEW r \in Rows
      PROVE  L!Beyond(r)' <=> L!Precedes(L!Last, r)
  <2>1. r \in Int /\ (row[r].key = NullKey \/ row[r].key \in Int) BY <1>2, ColumnTypes
  <2>2. L!Beyond(r)' <=> /\ row[r].key # NullKey
                         /\ \/ row[r].key < row[L!Last].key
                            \/ row[r].key = row[L!Last].key /\ r < L!Last
    BY <1>4 DEF L!Beyond
  <2>3. L!Precedes(L!Last, r) <=> /\ row[r].key # NullKey
                                  /\ \/ row[L!Last].key > row[r].key
                                     \/ row[L!Last].key = row[r].key /\ L!Last > r
    BY DEF L!Precedes
  <2> QED BY <1>3, <2>1, <2>2, <2>3, SMT
<1>6. ASSUME NEW r \in L!Matching PROVE L!Beyond(r)' <=> r \notin L!Page
  BY <1>1, <1>2, <1>5, PrecedesIsAnOrder
<1>7. ASSUME NEW r \in Rows, row[r].key # NullKey, L!Beyond(r)' PROVE L!Beyond(r)
  <2>1. L!Precedes(L!Last, r) BY <1>5, <1>7
  <2>2. L!Beyond(L!Last) BY <1>1 DEF L!Matching
  <2>3. CASE cursor = Start BY <2>3 DEF L!Beyond
  <2>4. CASE cursor # Start
    <3>1. cursor.key \in Int /\ cursor.id \in Int BY <2>4 DEF L!TypeOK, L!Cursor, ListNumbers
    <3>2. r \in Int /\ row[r].key \in Int BY <1>2, <1>7, ColumnTypes
    <3> QED BY <1>3, <1>7, <2>1, <2>2, <2>4, <3>1, <3>2, SMT DEF L!Beyond, L!Precedes
  <2> QED BY <2>3, <2>4
<1> QED BY <1>4, <1>6, <1>7

LEMMA ChangeKeepsListInv ==
  ASSUME ListNumbers, ListInv, NEW r \in Rows, NEW new \in L!Row, L!Changes(r, new),
         L!Becomes(row[r].key, new.key), new.key = NullKey => row[r].key = NullKey
  PROVE  ListInv'
<1>t. L!TypeOK /\ NothingIsSkipped /\ NothingComesAgain /\ L!WalkIsFaithful /\ ended = "no"
  BY DEF ListInv, L!Changes
<1>1. /\ row \in [Rows -> L!Row] /\ row' = [row EXCEPT ![r] = new] /\ changed' = changed \cup {r}
      /\ changes < MaxChanges /\ changes' = changes + 1
      /\ UNCHANGED <<order, limit, cursor, ended, shown, twice, before>>
  BY <1>t DEF L!Changes, L!TypeOK
<1>2. row' \in [Rows -> L!Row] /\ row'[r] = new /\ \A s \in Rows : s # r => row'[s] = row[s]
  BY <1>1
<1>3. L!TypeOK'
  <2>1. changes' \in 0 .. MaxChanges BY <1>t, <1>1, SMT DEF L!TypeOK, ListNumbers
  <2>2. \A seen \in {shown, twice, before, changed} : seen \subseteq Rows BY <1>t DEF L!TypeOK
  <2>3. (\A seen \in {shown, twice, before, changed} : seen \subseteq Rows)'
    BY <1>1, <2>2
  <2> QED BY <1>t, <1>1, <1>2, <2>1, <2>3 DEF L!TypeOK
<1>4. \A s \in Rows : s # r => (L!Beyond(s)' <=> L!Beyond(s))
  BY <1>1, <1>2 DEF L!Beyond
<1>5. NothingIsSkipped'
  <2>1. SUFFICES ASSUME NEW s \in before \ changed, s # r
                 PROVE  row'[s].listed /\ (L!Beyond(s)' \/ s \in shown)
    BY <1>1, Zenon DEF NothingIsSkipped
  <2>2. s \in Rows BY <1>t DEF L!TypeOK
  <2> QED BY <1>t, <1>2, <1>4, <2>1, <2>2, Zenon DEF NothingIsSkipped
<1>6. NothingComesAgain'
  <2>1. SUFFICES ASSUME order.key # "moving", ~order.nullable
                 PROVE  /\ \A s \in Rows : row'[s].key # NullKey
                        /\ \A s \in shown : ~L!Beyond(s)'
                        /\ twice = {}
    BY <1>1, Zenon DEF NothingComesAgain
  <2>2. /\ \A s \in Rows : row[s].key # NullKey
        /\ \A s \in shown : ~L!Beyond(s)
        /\ twice = {}
    BY <1>t, <2>1, Zenon DEF NothingComesAgain
  <2>3. \A s \in Rows : row'[s].key # NullKey BY <1>2, <2>2, Zenon
  <2>4. ASSUME NEW s \in shown, L!Beyond(s)' PROVE FALSE
    <3>1. s \in Rows BY <1>t DEF L!TypeOK
    <3>2. s = r BY <1>4, <2>2, <2>4, <3>1, Zenon
    <3>3. ~L!Beyond(r) /\ L!Beyond(r)' /\ row'[r].key # NullKey BY <2>2, <2>3, <2>4, <3>2
    <3>4. /\ cursor # Start /\ cursor' = cursor /\ new.key # NullKey
          /\ new.key < cursor.key \/ (new.key = cursor.key /\ r < cursor.id)
      BY <1>1, <1>2, <3>3 DEF L!Beyond
    <3>5. cursor.key \in Int
      <4>1. cursor \in L!Cursor BY <1>t, <3>4, Zenon DEF L!TypeOK
      <4> QED BY <4>1 DEF L!Cursor, ListNumbers
    <3>6. row[r].key \in Int /\ new.key \in Int
      BY <1>1, <2>2, <3>4, ColumnTypes DEF L!Row, ListNumbers
    <3>7. new.key = row[r].key \/ new.key > row[r].key
      BY <2>1, <2>2 DEF L!Becomes
    <3>8. row[r].key < cursor.key \/ (row[r].key = cursor.key /\ r < cursor.id)
      BY <3>4, <3>5, <3>6, <3>7, SMT
    <3> QED BY <2>2, <3>3, <3>8 DEF L!Beyond
  <2> QED BY <2>2, <2>3, <2>4
<1>7. L!WalkIsFaithful' BY <1>t, <1>1 DEF L!WalkIsFaithful
<1> QED BY <1>3, <1>5, <1>6, <1>7 DEF ListInv

LEMMA PageKeepsListInv == ListNumbers /\ ListInv /\ L!NextPage => ListInv'
<1> SUFFICES ASSUME ListNumbers, ListInv, L!NextPage PROVE ListInv' OBVIOUS
<1>t. L!TypeOK /\ NothingIsSkipped /\ NothingComesAgain /\ L!WalkIsFaithful /\ ended = "no"
  BY DEF ListInv, L!NextPage
<1>1. /\ shown' = shown \cup L!Page /\ twice' = twice \cup (shown \cap L!Page)
      /\ UNCHANGED <<order, limit, row, before, changed, changes>>
  BY DEF L!NextPage
<1>2. /\ L!Matching \subseteq Rows /\ L!Page \subseteq L!Matching
      /\ Cardinality(L!Matching) <= limit => L!Page = L!Matching
      /\ Cardinality(L!Matching) > limit => L!Last \in L!Page
  BY <1>t, PageFacts
<1>3. row \in [Rows -> L!Row] /\ shown \subseteq Rows /\ twice \subseteq Rows /\ before \subseteq Rows
  BY <1>t DEF L!TypeOK
<1>4. \A r \in before \ changed : r \in L!Matching \/ r \in shown
  BY <1>t, <1>3 DEF NothingIsSkipped, L!Matching
<1>5. order.key # "moving" /\ ~order.nullable =>
         /\ \A r \in Rows : row[r].key # NullKey
         /\ \A r \in shown : ~L!Beyond(r)
         /\ twice' = {}
  <2>1. SUFFICES ASSUME order.key # "moving", ~order.nullable
                 PROVE  /\ \A r \in Rows : row[r].key # NullKey
                        /\ \A r \in shown : ~L!Beyond(r)
                        /\ twice' = {}
    BY Zenon
  <2>2. /\ \A r \in Rows : row[r].key # NullKey
        /\ \A r \in shown : ~L!Beyond(r)
        /\ twice = {}
    BY <1>t, <2>1, Zenon DEF NothingComesAgain
  <2>3. shown \cap L!Page = {} BY <1>2, <2>2 DEF L!Matching
  <2> QED BY <1>1, <2>2, <2>3
<1>6. (twice # {} => order.key = "moving" \/ order.nullable)'
  BY <1>1, <1>5, Zenon
<1>7. ASSUME ended' \in {"no", "end", "cut"}, cursor' \in L!Cursor \cup {Start}
      PROVE  L!TypeOK'
  <2>1. (\A seen \in {shown, twice, before, changed} : seen \subseteq Rows)'
    <3>1. shown' \subseteq Rows /\ twice' \subseteq Rows BY <1>1, <1>2, <1>3
    <3>2. before' \subseteq Rows /\ changed' \subseteq Rows BY <1>t, <1>1 DEF L!TypeOK
    <3> QED BY <3>1, <3>2
  <2> QED BY <1>t, <1>1, <1>7, <2>1 DEF L!TypeOK
<1>8. CASE Cardinality(L!Matching) <= limit
  <2>1. ended' = "end" /\ cursor' = cursor BY <1>8, SameCardinality DEF L!NextPage
  <2>2. L!TypeOK' BY <1>t, <1>7, <2>1 DEF L!TypeOK
  <2>3. (before \ changed \subseteq shown)' BY <1>1, <1>2, <1>4, <1>8
  <2>4. NothingComesAgain' BY <1>1, <1>5, <2>1, Zenon DEF NothingComesAgain
  <2> QED BY <1>6, <2>1, <2>2, <2>3, <2>4 DEF ListInv, L!WalkIsFaithful
<1>9. CASE Cardinality(L!Matching) > limit /\ row[L!Last].key = NullKey
  <2>1. limit \in Nat /\ Cardinality(L!Matching) \in Nat
    BY <1>t, <1>2, FS_Subset, FS_CardinalityType DEF L!TypeOK, ListNumbers
  <2>2. ended' = "cut" /\ cursor' = cursor BY <1>9, <2>1, SameCardinality, SMT DEF L!NextPage
  <2>3. L!TypeOK' BY <1>t, <1>7, <2>2 DEF L!TypeOK
  <2>4. NothingComesAgain' BY <1>1, <1>5, <2>2, Zenon DEF NothingComesAgain
  <2> QED BY <1>6, <2>2, <2>3, <2>4 DEF ListInv, L!WalkIsFaithful
<1>10. CASE Cardinality(L!Matching) > limit /\ row[L!Last].key # NullKey
  <2>1. limit \in Nat /\ Cardinality(L!Matching) \in Nat
    BY <1>t, <1>2, FS_Subset, FS_CardinalityType DEF L!TypeOK, ListNumbers
  <2>2. ended' = ended /\ cursor' = [key |-> row[L!Last].key, id |-> L!Last]
    BY <1>10, <2>1, SameCardinality, SMT DEF L!NextPage
  <2>3. /\ cursor' \in L!Cursor
        /\ \A r \in L!Matching : L!Beyond(r)' <=> r \notin L!Page
        /\ \A r \in Rows : row[r].key # NullKey /\ ~L!Beyond(r) => ~L!Beyond(r)'
    BY <1>t, <1>1, <1>10, <2>2, CursorMoves
  <2>4. L!TypeOK' BY <1>t, <1>7, <2>2, <2>3 DEF L!TypeOK
  <2>5. NothingIsSkipped'
    <3>1. SUFFICES ASSUME NEW r \in before \ changed
                   PROVE  row[r].listed /\ (L!Beyond(r)' \/ r \in shown \/ r \in L!Page)
      BY <1>1 DEF NothingIsSkipped
    <3> QED BY <1>t, <1>4, <2>3, Zenon DEF NothingIsSkipped
  <2>6. NothingComesAgain'
    <3>1. SUFFICES ASSUME order.key # "moving", ~order.nullable
                   PROVE  /\ \A r \in Rows : row[r].key # NullKey
                          /\ \A r \in shown \cup L!Page : ~L!Beyond(r)'
                          /\ twice' = {}
      BY <1>1, Zenon DEF NothingComesAgain
    <3> QED BY <1>2, <1>3, <1>5, <2>3, <3>1
  <2> QED BY <1>t, <1>6, <2>2, <2>4, <2>5, <2>6 DEF ListInv, L!WalkIsFaithful
<1> QED
  <2>1. limit \in Nat /\ Cardinality(L!Matching) \in Nat
    BY <1>t, <1>2, FS_Subset, FS_CardinalityType DEF L!TypeOK, ListNumbers
  <2> QED BY <1>8, <1>9, <1>10, <2>1, SMT

LEMMA ListInvStep == ListNumbers /\ ListInv /\ [L!Next]_listVars => ListInv'
<1> SUFFICES ASSUME ListNumbers, ListInv, [L!Next]_listVars PROVE ListInv' OBVIOUS
<1>t. row \in [Rows -> L!Row] BY DEF ListInv, L!TypeOK
<1>1. CASE L!NextPage BY <1>1, PageKeepsListInv
<1>2. ASSUME NEW r \in Rows, L!Enter(r) PROVE ListInv'
  <2>1. PICK k \in Keys : L!Becomes(row[r].key, k) /\ L!Changes(r, [listed |-> TRUE, key |-> k])
    BY <1>2 DEF L!Enter
  <2> DEFINE new == [listed |-> TRUE, key |-> k]
  <2>2. new \in L!Row /\ new.key = k /\ k # NullKey BY DEF L!Row, ListNumbers
  <2> QED BY <2>1, <2>2, ChangeKeepsListInv
<1>3. ASSUME NEW r \in Rows, L!Leave(r) PROVE ListInv'
  <2> DEFINE new == [row[r] EXCEPT !.listed = FALSE]
  <2>1. new \in L!Row /\ new.key = row[r].key BY <1>t DEF L!Row
  <2>2. L!Changes(r, new) BY <1>3 DEF L!Leave
  <2>3. L!Becomes(row[r].key, row[r].key) BY DEF L!Becomes
  <2> HIDE DEF new
  <2> QED BY <2>1, <2>2, <2>3, ChangeKeepsListInv
<1>4. ASSUME NEW r \in Rows, L!Rekey(r) PROVE ListInv'
  <2>1. PICK k \in Keys : L!Becomes(row[r].key, k) /\ L!Changes(r, [row[r] EXCEPT !.key = k])
    BY <1>4 DEF L!Rekey
  <2> DEFINE new == [row[r] EXCEPT !.key = k]
  <2>2. new \in L!Row /\ new.key = k /\ k # NullKey BY <1>t DEF L!Row, ListNumbers
  <2> HIDE DEF new
  <2>3. L!Changes(r, new) BY <2>1 DEF new
  <2> QED BY <2>1, <2>2, <2>3, ChangeKeepsListInv
<1>5. CASE UNCHANGED listVars
  <2>1. UNCHANGED <<order, limit, row, cursor, ended, shown, twice, before, changed, changes>>
    BY <1>5 DEF listVars
  <2>2. L!TypeOK' BY <2>1 DEF ListInv, L!TypeOK
  <2>3. (ended = "no" => NothingIsSkipped)' /\ NothingComesAgain' /\ L!WalkIsFaithful'
    BY <2>1 DEF ListInv, NothingIsSkipped, NothingComesAgain, L!WalkIsFaithful, L!Beyond
  <2> QED BY <2>2, <2>3 DEF ListInv
<1> QED BY <1>1, <1>2, <1>3, <1>4, <1>5 DEF L!Next

-----------------------------------------------------------------------------
(* Downloads.                                                              *)

DownloadNumbers ==
  /\ MaxNumber \in Nat /\ MaxMoves \in Nat
  /\ Sizes \subseteq 1 .. MaxNumber + 1

Places == {"idle", "unlisted", "public", "range", "open", "record", "answered"}

Statuses == {0, 200, 206, 404, 416, 500}

Methods == {"GET", "HEAD"}

Reader ==
  [pc : Places, header : D!Header, link : D!Links, method : Methods, status : Statuses,
   range : D!Range, counted : BOOLEAN, edited : BOOLEAN]

DownloadTypes == D!TypeOK /\ reader \in Reader

\* The range parsed from the header has the bytes that HTTP asks for.
Parsed ==
  /\ reader.range.start .. reader.range.end = D!Wanted(reader.header)
  /\ D!shouldRecordDownload(reader.range) <=> 0 \in D!Wanted(reader.header)

Promised == (handed => target.token = 1) /\ (reader.link = 1 => handed)

\* What the first statement of the lookup has found out about a valid link.
LinkIsHonoured ==
  reader.pc = "public" /\ reader.link = 1 =>
    reader.edited \/ ~target.published \/ target.visibility = "public"

DownloadInv ==
  /\ DownloadTypes
  /\ Promised
  /\ LinkIsHonoured
  /\ reader.pc \in {"open", "record"} => Parsed
  /\ reader.pc = "record" => reader.method = "GET"
  /\ reader.pc # "answered" => ~reader.counted
  /\ D!AnswersAreExact

-----------------------------------------------------------------------------
LEMMA HeaderKinds ==
  ASSUME NEW h \in D!Header, DownloadNumbers
  PROVE  \/ h.kind = "span" /\ h.from \in Nat /\ h.to \in Nat /\ h.from <= MaxNumber
         \/ h.kind = "open" /\ h.from \in Nat /\ h.from <= MaxNumber
         \/ h.kind = "suffix" /\ h.count \in Nat
         \/ h.kind = "absent"
         \/ h.kind = "malformed"
  BY SMT DEF D!Header, DownloadNumbers

\* A satisfiable range is the bytes that were asked for, an unsatisfiable
\* one asks for none.
LEMMA RangesAreExact ==
  ASSUME DownloadNumbers, size \in Sizes, NEW h \in D!Header, h.kind # "absent"
  PROVE  /\ D!Satisfiable(D!Asked(h)) =>
              /\ D!Served(D!Asked(h)) \in D!Range
              /\ D!Served(D!Asked(h)).start .. D!Served(D!Asked(h)).end = D!Wanted(h)
              /\ D!Served(D!Asked(h)).start = 0 <=> 0 \in D!Wanted(h)
              /\ D!Served(D!Asked(h)).partial
         /\ ~D!Satisfiable(D!Asked(h)) => D!Wanted(h) = {}
<1>n. MaxNumber \in Nat /\ size \in 1 .. MaxNumber + 1
  BY DEF DownloadNumbers
<1>1. CASE h.kind = "span"
  <2>1. /\ h.from \in Nat /\ h.to \in Nat /\ h.from <= MaxNumber
    BY <1>1, HeaderKinds, Zenon
  <2>2. D!Asked(h) = [ok |-> TRUE, start |-> h.from, end |-> h.to]
    BY <1>1, SMT DEF D!Asked
  <2>3. D!Wanted(h) = {i \in 0 .. size - 1 : h.from <= i /\ i <= h.to}
    BY <1>1, SMT DEF D!Wanted, D!Positions
  <2> QED BY <1>n, <2>1, <2>2, <2>3, SMT DEF D!Satisfiable, D!Served, D!Range
<1>2. CASE h.kind = "open"
  <2>1. /\ h.from \in Nat /\ h.from <= MaxNumber
    BY <1>2, HeaderKinds, Zenon
  <2>2. D!Asked(h) = [ok |-> TRUE, start |-> h.from, end |-> size - 1]
    BY <1>2, SMT DEF D!Asked
  <2>3. D!Wanted(h) = {i \in 0 .. size - 1 : h.from <= i}
    BY <1>2, SMT DEF D!Wanted, D!Positions
  <2> QED BY <1>n, <2>1, <2>2, <2>3, SMT DEF D!Satisfiable, D!Served, D!Range
<1>3. CASE h.kind = "suffix"
  <2>1. h.count \in Nat
    BY <1>3, HeaderKinds, Zenon
  <2>2. D!Asked(h) = [ok |-> h.count > 0,
                    start |-> IF h.count > size THEN 0 ELSE size - h.count, end |-> size - 1]
    BY <1>3, SMT DEF D!Asked, D!Suffix
  <2>3. D!Wanted(h) = {i \in 0 .. size - 1 : i + h.count >= size}
    BY <1>3, SMT DEF D!Wanted, D!Positions
  <2>4. CASE h.count > size
    <3>1. D!Asked(h) = [ok |-> TRUE, start |-> 0, end |-> size - 1]
      <4>1. (h.count > 0) = TRUE BY <2>1, <2>4, <1>n, SMT
      <4> QED BY <2>2, <2>4, <4>1, Zenon
    <3> QED BY <1>n, <2>1, <2>3, <2>4, <3>1, SMT DEF D!Satisfiable, D!Served, D!Range
  <2>5. CASE ~(h.count > size)
    <3>1. CASE h.count = 0
      <4>1. ~D!Asked(h).ok
        <5>1. (h.count > 0) = FALSE BY <3>1, SMT
        <5>2. D!Asked(h) = [ok |-> FALSE, start |-> size - h.count, end |-> size - 1]
          BY <2>2, <2>5, <5>1, Zenon
        <5> QED BY <5>2
      <4>2. D!Wanted(h) = {} BY <2>3, <3>1, <1>n, SMT
      <4> QED BY <4>1, <4>2, Zenon DEF D!Satisfiable
    <3>2. CASE h.count # 0
      <4>1. D!Asked(h) = [ok |-> TRUE, start |-> size - h.count, end |-> size - 1]
        <5>1. (h.count > 0) = TRUE BY <2>1, <3>2, SMT
        <5> QED BY <2>2, <2>5, <5>1, Zenon
      <4> QED BY <1>n, <2>1, <2>3, <2>5, <3>2, <4>1, SMT DEF D!Satisfiable, D!Served, D!Range
    <3> QED BY <3>1, <3>2
  <2> QED BY <2>4, <2>5
<1>4. CASE h.kind = "malformed"
  BY <1>4, SMT DEF D!Asked, D!Wanted, D!Satisfiable
<1> QED BY <1>1, <1>2, <1>3, <1>4, HeaderKinds, Zenon

LEMMA WholeFile ==
  ASSUME DownloadNumbers, size \in Sizes
  PROVE  LET r == [start |-> 0, end |-> size - 1, partial |-> FALSE]
         IN  /\ r \in D!Range
             /\ r.start .. r.end = D!Positions
             /\ D!shouldRecordDownload(r)
             /\ 0 \in D!Positions
  BY SMT DEF DownloadNumbers, D!Range, D!Positions, D!shouldRecordDownload

LEMMA GotoMoves ==
  ASSUME reader \in Reader, NEW pc, D!Goto(pc),
         pc \in {"idle", "unlisted", "public", "range", "open", "record", "answered"}
  PROVE  /\ reader' \in Reader
         /\ reader'.pc = pc
         /\ UNCHANGED <<reader.header, reader.link, reader.method, reader.status, reader.range,
                        reader.counted, reader.edited>>
<1>1. pc \in Places BY DEF Places
<1> QED BY <1>1 DEF Reader, D!Goto

LEMMA AnswerMoves ==
  ASSUME reader \in Reader, NEW status \in {0, 200, 206, 404, 416, 500}, D!Answer(status)
  PROVE  /\ reader' \in Reader
         /\ reader'.pc = "answered" /\ reader'.status = status
         /\ UNCHANGED <<reader.header, reader.link, reader.method, reader.range,
                        reader.counted, reader.edited>>
<1> DEFINE new == [reader EXCEPT !.pc = "answered", !.status = status]
<1>0. "answered" \in Places /\ status \in Statuses BY DEF Places, Statuses
<1>1. new \in Reader BY <1>0 DEF Reader
<1>2. /\ new.pc = "answered" /\ new.status = status
      /\ new.header = reader.header /\ new.link = reader.link /\ new.method = reader.method
      /\ new.range = reader.range /\ new.counted = reader.counted /\ new.edited = reader.edited
  BY SMT DEF Reader
<1> QED BY <1>1, <1>2, Zenon DEF D!Answer

LEMMA IdleReader ==
  ASSUME DownloadNumbers
  PROVE  D!Idle \in Reader /\ D!Idle.pc = "idle" /\ D!Idle.link = D!NoLink /\ D!Idle.counted = FALSE
<1>1. D!Nothing \in D!Range /\ [kind |-> "absent"] \in D!Header /\ D!NoLink \in D!Links
  <2>1. D!Nothing \in D!Range BY SMT DEF D!Nothing, D!Range, DownloadNumbers
  <2>2. [kind |-> "absent"] \in [kind : {"absent", "malformed"}] OBVIOUS
  <2>3. D!NoLink \in D!Links BY SMT DEF D!NoLink, D!Links
  <2> QED BY <2>1, <2>2, <2>3, Zenon DEF D!Header
<1>2. "idle" \in Places /\ 0 \in Statuses /\ "GET" \in Methods BY DEF Places, Statuses, Methods
<1> QED BY <1>1, <1>2 DEF D!Idle, Reader

LEMMA DownloadTypesKept ==
  ASSUME DownloadTypes, reader' \in Reader, UNCHANGED <<size, target, handed, moves>>
  PROVE  DownloadTypes'
<1>1. /\ size' \in Sizes /\ target' \in D!Item /\ handed' \in BOOLEAN /\ moves' \in 0 .. MaxMoves
  BY DEF DownloadTypes, D!TypeOK
<1>2. /\ reader'.pc \in {"idle", "unlisted", "public", "range", "open", "record", "answered"}
      /\ reader'.header \in D!Header /\ reader'.status \in {0, 200, 206, 404, 416, 500}
      /\ reader'.range \in D!Range
  BY DEF Reader, Places, Statuses
<1> QED BY <1>1, <1>2, Zenon DEF DownloadTypes, D!TypeOK

LEMMA DownloadInvInit == DownloadNumbers /\ D!Init => DownloadInv
<1> SUFFICES ASSUME DownloadNumbers, D!Init PROVE DownloadInv OBVIOUS
<1>1. reader \in Reader /\ reader.pc = "idle" /\ reader.link = D!NoLink /\ reader.counted = FALSE
  BY IdleReader DEF D!Init
<1>2. target \in D!Item /\ moves \in 0 .. MaxMoves
  BY SMT DEF D!Init, D!Item, D!Links, D!NoLink, DownloadNumbers
<1>3. /\ reader.pc \in {"idle", "unlisted", "public", "range", "open", "record", "answered"}
      /\ reader.header \in D!Header /\ reader.status \in {0, 200, 206, 404, 416, 500}
      /\ reader.range \in D!Range
  BY <1>1 DEF Reader, Places, Statuses
<1>4. DownloadTypes BY <1>1, <1>2, <1>3, Zenon DEF DownloadTypes, D!TypeOK, D!Init
<1>5. Promised BY <1>1, SMT DEF Promised, D!Init, D!NoLink
<1> QED BY <1>1, <1>4, <1>5, SMT DEF DownloadInv, LinkIsHonoured, D!AnswersAreExact

LEMMA SuccessStatus == D!Success \in {200, 206}
<1>1. CASE reader.range.partial BY <1>1, SMT DEF D!Success
<1>2. CASE ~reader.range.partial BY <1>2, SMT DEF D!Success
<1> QED BY <1>1, <1>2

Recorded(status, done) ==
  reader' = [reader EXCEPT !.pc = "answered", !.status = status, !.counted = done]

LEMMA RecordMoves ==
  ASSUME reader \in Reader, NEW status \in {200, 206, 500}, NEW done \in BOOLEAN,
         Recorded(status, done)
  PROVE  /\ reader' \in Reader /\ reader'.pc = "answered" /\ reader'.status = status
         /\ reader'.counted = done
         /\ UNCHANGED <<reader.link, reader.header, reader.range, reader.method>>
<1> DEFINE new == [reader EXCEPT !.pc = "answered", !.status = status, !.counted = done]
<1>1. "answered" \in Places /\ status \in Statuses BY DEF Places, Statuses
<1>2. new \in Reader BY <1>1 DEF Reader
<1>3. /\ new.pc = "answered" /\ new.status = status
      /\ new.link = reader.link /\ new.header = reader.header
      /\ new.range = reader.range /\ new.method = reader.method
  BY SMT DEF Reader
<1>4. new.counted = done BY Zenon DEF Reader
<1> QED BY <1>2, <1>3, <1>4, Zenon DEF Recorded

LEMMA AnswersAreKept ==
  ASSUME D!AnswersAreExact,
         UNCHANGED <<size, reader.pc, reader.header, reader.link, reader.method, reader.status,
                     reader.range, reader.counted>>,
         reader'.edited \/ UNCHANGED <<reader.edited, target.published>>
  PROVE  D!AnswersAreExact'
<1>1. SUFFICES ASSUME reader'.pc = "answered"
               PROVE /\ D!Succeeded' =>
                          (reader.range.start .. reader.range.end = D!Wanted(reader.header))'
                     /\ reader'.status = 416 => D!Wanted(reader.header)' = {}
                     /\ D!Succeeded' =>
                          (reader.counted
                             <=> reader.method = "GET" /\ 0 \in D!Wanted(reader.header))'
                     /\ reader'.status = 404 /\ reader'.link = 1 =>
                          reader'.edited \/ ~target'.published
  BY Zenon DEF D!AnswersAreExact
<1>2. D!Wanted(reader.header)' = D!Wanted(reader.header) BY Zenon DEF D!Wanted, D!Positions
<1>3. D!Succeeded' <=> D!Succeeded BY Zenon DEF D!Succeeded
<1>4. /\ D!Succeeded => reader.range.start .. reader.range.end = D!Wanted(reader.header)
      /\ reader.status = 416 => D!Wanted(reader.header) = {}
      /\ D!Succeeded => (reader.counted <=> reader.method = "GET" /\ 0 \in D!Wanted(reader.header))
      /\ reader.status = 404 /\ reader.link = 1 => reader.edited \/ ~target.published
  BY <1>1, Zenon DEF D!AnswersAreExact
<1>5. /\ D!Succeeded' => (reader.range.start .. reader.range.end = D!Wanted(reader.header))'
      /\ reader'.status = 416 => D!Wanted(reader.header)' = {}
  BY <1>2, <1>3, <1>4, Zenon
<1>6. D!Succeeded' => (reader.counted <=> reader.method = "GET" /\ 0 \in D!Wanted(reader.header))'
  BY <1>2, <1>3, <1>4, Zenon
<1>7. reader'.status = 404 /\ reader'.link = 1 => reader'.edited \/ ~target'.published
  BY <1>4, Zenon
<1> QED BY <1>5, <1>6, <1>7

LEMMA AnsweredRight ==
  ASSUME DownloadTypes, Promised, Parsed, reader.counted \in BOOLEAN,
         UNCHANGED <<size, target, handed, moves>>,
         reader' \in Reader, reader'.pc = "answered", reader'.status \in {200, 206},
         UNCHANGED <<reader.link, reader.header, reader.range, reader.method>>,
         reader'.counted <=> reader.method = "GET" /\ D!shouldRecordDownload(reader.range)
  PROVE  DownloadInv'
<1>1. DownloadTypes' BY DownloadTypesKept
<1>2. Promised' BY Zenon DEF Promised
<1>3. D!Wanted(reader.header)' = D!Wanted(reader.header) BY Zenon DEF D!Wanted, D!Positions
<1>4. /\ (reader.range.start .. reader.range.end = D!Wanted(reader.header))'
      /\ (reader.counted <=> reader.method = "GET" /\ 0 \in D!Wanted(reader.header))'
  BY <1>3, Zenon DEF Parsed
<1>5. reader'.status # 416 /\ reader'.status # 404 OBVIOUS
<1> QED BY <1>1, <1>2, <1>4, <1>5, Zenon DEF DownloadInv, LinkIsHonoured, D!AnswersAreExact

\* The object could not be opened, or the event could not be recorded.
LEMMA AnsweredWrong ==
  ASSUME DownloadTypes, Promised, UNCHANGED <<size, target, handed, moves>>,
         reader' \in Reader, reader'.pc = "answered", reader'.status = 500,
         UNCHANGED reader.link
  PROVE  DownloadInv'
<1>1. DownloadTypes' BY DownloadTypesKept
<1>2. Promised' BY Zenon DEF Promised
<1>3. reader'.status # 416 /\ reader'.status # 404 /\ ~D!Succeeded' BY DEF D!Succeeded
<1> QED BY <1>1, <1>2, <1>3 DEF DownloadInv, LinkIsHonoured, D!AnswersAreExact

LEMMA DownloadInvStep == DownloadNumbers /\ DownloadInv /\ [D!Next]_downloadVars => DownloadInv'
<1> SUFFICES ASSUME DownloadNumbers, DownloadInv, [D!Next]_downloadVars
             PROVE  DownloadInv'
  OBVIOUS
<1>t. /\ DownloadTypes /\ D!TypeOK /\ reader \in Reader /\ size \in Sizes /\ target \in D!Item
      /\ Promised /\ LinkIsHonoured /\ D!AnswersAreExact
      /\ reader.pc \in {"open", "record"} => Parsed
      /\ reader.pc = "record" => reader.method = "GET"
      /\ reader.pc # "answered" => ~reader.counted
  BY Zenon DEF DownloadInv, DownloadTypes, D!TypeOK
<1>1. ASSUME NEW header \in D!Header, NEW link \in D!Links, NEW method \in {"GET", "HEAD"},
             D!Request(header, link, method)
      PROVE  DownloadInv'
  <2>1. /\ reader' \in Reader /\ reader'.pc = "unlisted" /\ reader'.link = link
        /\ reader'.counted = FALSE
    <3>1. D!Idle \in Reader /\ D!Idle.counted = FALSE BY IdleReader
    <3> DEFINE new == [D!Idle EXCEPT !.pc = "unlisted", !.header = header, !.link = link,
                                   !.method = method]
    <3>0. "unlisted" \in Places /\ method \in Methods BY DEF Places, Methods
    <3>2. new \in Reader BY <3>0, <3>1 DEF Reader
    <3>3. new.pc = "unlisted" /\ new.link = link /\ new.counted = FALSE
      BY <3>1, SMT DEF Reader
    <3> QED BY <1>1, <3>2, <3>3, Zenon DEF D!Request
  <2>2. DownloadTypes' BY <1>1, <1>t, <2>1, DownloadTypesKept DEF D!Request, D!Others
  <2>3. Promised' BY <1>1, <1>t, <2>1 DEF D!Request, D!Others, Promised
  <2> QED BY <2>1, <2>2, <2>3 DEF DownloadInv, LinkIsHonoured, D!AnswersAreExact
<1>2. CASE D!LookUpUnlisted
  <2>1. D!Others /\ (D!Goto("range") \/ D!Goto("public")) BY <1>2, Zenon DEF D!LookUpUnlisted
  <2>2. /\ reader' \in Reader /\ reader'.pc \in {"range", "public"}
        /\ UNCHANGED <<reader.link, reader.counted, reader.edited>>
    BY <2>1, <1>t, GotoMoves
  <2>3. DownloadTypes' BY <1>t, <2>1, <2>2, DownloadTypesKept, Zenon DEF D!Others
  <2>4. Promised' BY <1>t, <2>1, <2>2, Zenon DEF D!Others, Promised
  <2>5. LinkIsHonoured'
    <3>1. SUFFICES ASSUME reader'.pc = "public", reader.link = 1
                   PROVE  ~target.published \/ target.visibility = "public"
      BY <2>1, <2>2, Zenon DEF LinkIsHonoured, D!Others
    <3>2. reader.link = target.token /\ reader.link # D!NoLink
      BY <3>1, <1>t, SMT DEF Promised, D!NoLink
    <3>3. ~D!Goto("range") BY <3>1, <1>t, GotoMoves
    <3>4. ~(target.published /\ target.visibility = "private")
      BY <3>2, <3>3, <1>2, Zenon DEF D!LookUpUnlisted
    <3> QED BY <3>4, <1>t, SMT DEF D!Item
  <2>6. reader'.pc \notin {"open", "record", "answered"} /\ ~reader.counted
    BY <1>t, <1>2, <2>2, SMT DEF D!LookUpUnlisted
  <2> QED BY <2>2, <2>3, <2>4, <2>5, <2>6 DEF DownloadInv, D!AnswersAreExact
<1>3. CASE D!LookUpPublic
  <2>1. D!Others /\ reader.pc = "public" BY <1>3 DEF D!LookUpPublic
  <2>2. CASE target.published /\ target.visibility = "public"
    <3>1. D!Goto("range") BY <1>3, <2>2, Zenon DEF D!LookUpPublic
    <3>2. /\ reader' \in Reader /\ reader'.pc = "range"
          /\ UNCHANGED <<reader.link, reader.counted, reader.edited>>
      BY <3>1, <1>t, GotoMoves
    <3>3. DownloadTypes' BY <1>t, <2>1, <3>2, DownloadTypesKept, Zenon DEF D!Others
    <3>4. Promised' BY <1>t, <2>1, <3>2, Zenon DEF D!Others, Promised
    <3>5. ~reader.counted BY <1>t, <2>1
    <3> QED BY <3>2, <3>3, <3>4, <3>5 DEF DownloadInv, D!AnswersAreExact, LinkIsHonoured
  <2>3. CASE ~(target.published /\ target.visibility = "public")
    <3>1. D!Answer(404) BY <1>3, <2>3, Zenon DEF D!LookUpPublic
    <3>2. /\ reader' \in Reader /\ reader'.pc = "answered" /\ reader'.status = 404
          /\ UNCHANGED <<reader.link, reader.counted, reader.edited>>
      BY <3>1, <1>t, AnswerMoves
    <3>3. DownloadTypes' BY <1>t, <2>1, <3>2, DownloadTypesKept, Zenon DEF D!Others
    <3>4. Promised' BY <1>t, <2>1, <3>2, Zenon DEF D!Others, Promised
    <3>5. reader.link = 1 => reader.edited \/ ~target.published
      BY <1>t, <2>1, <2>3, Zenon DEF LinkIsHonoured
    <3>6. (reader.link = 1 => reader.edited \/ ~target.published)'
      BY <3>2, <3>5, <2>1, Zenon DEF D!Others
    <3>7. ~D!Succeeded' /\ reader'.status # 416 BY <3>2 DEF D!Succeeded
    <3> QED BY <3>2, <3>3, <3>4, <3>6, <3>7 DEF DownloadInv, D!AnswersAreExact, LinkIsHonoured
  <2> QED BY <2>2, <2>3
<1>4. CASE D!ParseRange
  <2>1. D!Others /\ reader.pc = "range" /\ ~reader.counted /\ size' = size
    BY <1>4, <1>t DEF D!ParseRange, D!Others
  <2>2. ASSUME NEW r \in D!Range, reader' = [reader EXCEPT !.pc = "open", !.range = r],
               r.start .. r.end = D!Wanted(reader.header),
               D!shouldRecordDownload(r) <=> 0 \in D!Wanted(reader.header)
        PROVE  DownloadInv'
    <3>1. /\ reader' \in Reader /\ reader'.pc = "open" /\ reader'.range = r
          /\ UNCHANGED <<reader.link, reader.counted, reader.edited, reader.header>>
      <4> DEFINE new == [reader EXCEPT !.pc = "open", !.range = r]
      <4>0. "open" \in Places BY DEF Places
      <4>1. new \in Reader BY <1>t, <2>2, <4>0 DEF Reader
      <4>2. /\ new.pc = "open" /\ new.range = r /\ new.link = reader.link
            /\ new.counted = reader.counted /\ new.edited = reader.edited
            /\ new.header = reader.header
        BY <1>t, SMT DEF Reader
      <4> QED BY <2>2, <4>1, <4>2, Zenon
    <3>2. DownloadTypes' BY <1>t, <2>1, <3>1, DownloadTypesKept, Zenon DEF D!Others
    <3>3. Promised' BY <1>t, <2>1, <3>1, Zenon DEF D!Others, Promised
    <3>4. D!Wanted(reader.header)' = D!Wanted(reader.header)
      BY <2>1, <3>1, Zenon DEF D!Wanted, D!Positions
    <3>5. Parsed' BY <2>2, <3>1, <3>4, Zenon DEF Parsed, D!shouldRecordDownload
    <3> QED BY <2>1, <3>1, <3>2, <3>3, <3>5 DEF DownloadInv, D!AnswersAreExact, LinkIsHonoured
  <2>3. CASE reader.header.kind = "absent"
    <3>1. D!Wanted(reader.header) = D!Positions BY <2>3, SMT DEF D!Wanted
    <3>2. reader' = [reader EXCEPT !.pc = "open",
                       !.range = [start |-> 0, end |-> size - 1, partial |-> FALSE]]
      BY <1>4, <2>3, Zenon DEF D!ParseRange
    <3>3. LET r == [start |-> 0, end |-> size - 1, partial |-> FALSE]
          IN  r \in D!Range /\ r.start .. r.end = D!Positions /\ D!shouldRecordDownload(r)
              /\ 0 \in D!Positions
      BY <1>t, WholeFile, Zenon
    <3> QED BY <3>1, <3>2, <3>3, <2>2, Zenon
  <2>4. CASE reader.header.kind # "absent" /\ D!Satisfiable(D!Asked(reader.header))
    <3>1. reader.header \in D!Header BY <1>t DEF Reader
    <3>2. reader' = [reader EXCEPT !.pc = "open", !.range = D!Served(D!Asked(reader.header))]
      BY <1>4, <2>4, Zenon DEF D!ParseRange
    <3> DEFINE r == D!Served(D!Asked(reader.header))
    <3>3. /\ r \in D!Range
          /\ r.start .. r.end = D!Wanted(reader.header)
          /\ (r.start = 0) <=> (0 \in D!Wanted(reader.header))
          /\ r.partial
      BY <1>t, <2>4, <3>1, RangesAreExact, Zenon
    <3>4. D!shouldRecordDownload(r) <=> 0 \in D!Wanted(reader.header)
      BY <3>3, Zenon DEF D!shouldRecordDownload
    <3> QED BY <3>2, <3>3, <3>4, <2>2, Zenon
  <2>5. CASE reader.header.kind # "absent" /\ ~D!Satisfiable(D!Asked(reader.header))
    <3>1. reader.header \in D!Header BY <1>t DEF Reader
    <3>2. D!Answer(416) BY <1>4, <2>5, Zenon DEF D!ParseRange
    <3>3. D!Wanted(reader.header) = {} BY <1>t, <2>5, <3>1, RangesAreExact, Zenon
    <3>4. /\ reader' \in Reader /\ reader'.pc = "answered" /\ reader'.status = 416
          /\ UNCHANGED <<reader.link, reader.counted, reader.edited, reader.header>>
      BY <3>2, <1>t, AnswerMoves
    <3>5. DownloadTypes' BY <1>t, <2>1, <3>4, DownloadTypesKept, Zenon DEF D!Others
    <3>6. Promised' BY <1>t, <2>1, <3>4, Zenon DEF D!Others, Promised
    <3>7. D!Wanted(reader.header)' = {}
      BY <2>1, <3>3, <3>4, Zenon DEF D!Wanted, D!Positions
    <3>8. ~D!Succeeded' /\ reader'.status # 404 BY <3>4 DEF D!Succeeded
    <3> QED BY <3>4, <3>5, <3>6, <3>7, <3>8 DEF DownloadInv, D!AnswersAreExact, LinkIsHonoured
  <2> QED BY <2>3, <2>4, <2>5
<1>5. CASE D!OpenObject
  <2>1. D!Others /\ reader.pc = "open" /\ ~reader.counted /\ Parsed
    BY <1>5, <1>t, Zenon DEF D!OpenObject
  <2>2. reader'.header = reader.header => D!Wanted(reader.header)' = D!Wanted(reader.header)
    BY <2>1, Zenon DEF D!Wanted, D!Positions, D!Others
  <2>3. CASE reader.method = "HEAD" /\ D!Answer(D!Success)
    <3>1. D!Success \in {200, 206} /\ D!Success \in {0, 200, 206, 404, 416, 500}
      BY SuccessStatus
    <3>2. /\ reader' \in Reader /\ reader'.pc = "answered" /\ reader'.status \in {200, 206}
          /\ UNCHANGED <<reader.link, reader.counted, reader.edited, reader.header,
                         reader.range, reader.method>>
      <4>1. /\ reader' \in Reader /\ reader'.pc = "answered" /\ reader'.status = D!Success
            /\ UNCHANGED <<reader.link, reader.counted, reader.edited, reader.header,
                           reader.range, reader.method>>
        BY <3>1, <2>3, <1>t, AnswerMoves
      <4> QED BY <3>1, <4>1
    <3>3. reader.counted \in BOOLEAN /\ UNCHANGED <<size, target, handed, moves>>
      BY <1>t, <2>1, Zenon DEF D!Others, Reader
    <3>4. reader.method # "GET" BY <2>3
    <3>5. reader'.counted <=> reader.method = "GET" /\ D!shouldRecordDownload(reader.range)
      BY <2>1, <3>2, <3>4, Zenon
    <3> QED BY <1>t, <2>1, <3>2, <3>3, <3>5, AnsweredRight, Zenon
  <2>4. CASE reader.method = "GET" /\ D!Goto("record")
    <3>1. /\ reader' \in Reader /\ reader'.pc = "record"
          /\ UNCHANGED <<reader.link, reader.counted, reader.edited, reader.header,
                         reader.range, reader.method>>
      BY <2>4, <1>t, GotoMoves
    <3>2. DownloadTypes' BY <1>t, <2>1, <3>1, DownloadTypesKept, Zenon DEF D!Others
    <3>3. Promised' BY <1>t, <2>1, <3>1, Zenon DEF D!Others, Promised
    <3>4. Parsed' BY <2>1, <2>2, <3>1, Zenon DEF Parsed, D!shouldRecordDownload
    <3>5. reader'.method = "GET" /\ ~reader'.counted BY <2>1, <2>4, <3>1
    <3> QED BY <3>1, <3>2, <3>3, <3>4, <3>5 DEF DownloadInv, D!AnswersAreExact, LinkIsHonoured
  <2>5. CASE D!Answer(500)
    <3>1. /\ reader' \in Reader /\ reader'.pc = "answered" /\ reader'.status = 500
          /\ UNCHANGED <<reader.link, reader.counted, reader.edited, reader.header,
                         reader.range, reader.method>>
      BY <2>5, <1>t, AnswerMoves
    <3>2. UNCHANGED <<size, target, handed, moves>> BY <2>1 DEF D!Others
    <3> QED BY <1>t, <3>1, <3>2, AnsweredWrong, Zenon
  <2> QED BY <1>5, <2>3, <2>4, <2>5, Zenon DEF D!OpenObject
<1>6. CASE D!Record
  <2>1. /\ UNCHANGED <<size, target, handed, moves>> /\ reader.pc = "record" /\ ~reader.counted
        /\ Parsed /\ reader.method = "GET"
    BY <1>6, <1>t, Zenon DEF D!Record, D!Others
  <2>2. D!Success \in {200, 206} BY SuccessStatus
  <2>4. CASE /\ D!shouldRecordDownload(reader.range)
             /\ Recorded(D!Success, TRUE)
    <3>0. D!Success \in {200, 206, 500} BY <2>2
    <3>1. /\ reader' \in Reader /\ reader'.pc = "answered" /\ reader'.status = D!Success
          /\ reader'.counted = TRUE
          /\ UNCHANGED <<reader.link, reader.header, reader.range, reader.method>>
      BY <3>0, <1>t, <2>4, RecordMoves, Zenon
    <3>2. /\ reader.counted \in BOOLEAN /\ reader'.status \in {200, 206}
          /\ reader'.counted <=> reader.method = "GET" /\ D!shouldRecordDownload(reader.range)
      BY <1>t, <2>1, <2>2, <2>4, <3>1, Zenon DEF Reader
    <3> QED BY <1>t, <2>1, <3>1, <3>2, AnsweredRight, Zenon
  <2>5. CASE \E done \in BOOLEAN : Recorded(500, done)
    <3>1. PICK done \in BOOLEAN : Recorded(500, done)
      BY <2>5
    <3>2. /\ reader' \in Reader /\ reader'.pc = "answered" /\ reader'.status = 500
          /\ UNCHANGED reader.link
      BY <3>1, <1>t, RecordMoves
    <3> QED BY <1>t, <2>1, <3>2, AnsweredWrong, Zenon
  <2>6. CASE ~D!shouldRecordDownload(reader.range) /\ D!Answer(D!Success)
    <3>0. D!Success \in {0, 200, 206, 404, 416, 500} BY <2>2
    <3>1. /\ reader' \in Reader /\ reader'.pc = "answered" /\ reader'.status = D!Success
          /\ UNCHANGED <<reader.link, reader.header, reader.range, reader.method,
                         reader.counted>>
      BY <3>0, <2>6, <1>t, AnswerMoves
    <3>2. /\ reader.counted \in BOOLEAN /\ reader'.status \in {200, 206}
          /\ reader'.counted <=> reader.method = "GET" /\ D!shouldRecordDownload(reader.range)
      BY <1>t, <2>1, <2>2, <2>6, <3>1, Zenon DEF Reader
    <3> QED BY <1>t, <2>1, <3>1, <3>2, AnsweredRight, Zenon
  <2> QED BY <1>6, <2>4, <2>5, <2>6, Zenon DEF D!Record, Recorded
<1>7. CASE D!Finish
  <2>1. D!Idle \in Reader /\ D!Idle.pc = "idle" /\ D!Idle.link = D!NoLink /\ D!Idle.counted = FALSE
    BY IdleReader
  <2>2. reader' = D!Idle /\ D!Others BY <1>7 DEF D!Finish
  <2>3. DownloadTypes' BY <1>t, <2>1, <2>2, DownloadTypesKept, Zenon DEF D!Others
  <2>4. Promised' BY <1>t, <2>1, <2>2, SMT DEF Promised, D!Others, D!NoLink
  <2> QED BY <2>1, <2>2, <2>3, <2>4 DEF DownloadInv, LinkIsHonoured, D!AnswersAreExact
<1>8. CASE D!EnsureUnlistedDownloadToken
  <2>1. /\ target' = [target EXCEPT !.token = 1] /\ handed' = TRUE
        /\ UNCHANGED <<size, reader, moves>>
    BY <1>8 DEF D!EnsureUnlistedDownloadToken
  <2>2. /\ target' \in D!Item /\ target'.token = 1
        /\ target'.published = target.published /\ target'.visibility = target.visibility
    <3>1. 1 \in D!Links BY SMT DEF D!Links, D!NoLink
    <3>2. target' \in D!Item BY <2>1, <3>1, <1>t DEF D!Item
    <3>3. target'.token = 1 BY <2>1, <1>t, Zenon DEF D!Item
    <3>4. target'.published = target.published /\ target'.visibility = target.visibility
      BY <2>1, <1>t, Zenon DEF D!Item
    <3> QED BY <3>2, <3>3, <3>4
  <2>3. DownloadTypes'
    <3>0. handed' \in BOOLEAN /\ reader' = reader /\ size' = size /\ moves' = moves
      BY <2>1
    <3>1. D!TypeOK' BY <1>t, <3>0, <2>2 DEF D!TypeOK
    <3> QED BY <1>t, <2>1, <3>1, Zenon DEF DownloadTypes
  <2>4. Promised' BY <2>1, <2>2, Zenon DEF Promised
  <2>5. LinkIsHonoured' BY <1>t, <2>1, <2>2, Zenon DEF LinkIsHonoured
  <2>6. D!AnswersAreExact'
    BY <1>t, <2>1, <2>2, AnswersAreKept, Zenon
  <2>7. (reader.pc \in {"open", "record"} => Parsed)'
    BY <1>t, <2>1, Zenon DEF Parsed, D!Wanted, D!Positions, D!shouldRecordDownload
  <2> QED BY <1>t, <2>1, <2>3, <2>4, <2>5, <2>6, <2>7, Zenon DEF DownloadInv
<1>9. ASSUME NEW visibility \in {"public", "private"}, NEW published \in BOOLEAN,
             D!Edit(visibility, published)
      PROVE  DownloadInv'
  <2>1. /\ target' = [target EXCEPT !.visibility = visibility, !.published = published]
        /\ reader' = [reader EXCEPT !.edited = TRUE] /\ UNCHANGED <<size, handed>>
        /\ moves' \in 0 .. MaxMoves
    BY <1>9, <1>t, SMT DEF D!Edit, D!TypeOK, DownloadNumbers
  <2>2. target' \in D!Item /\ target'.token = target.token
    BY <2>1, <1>t DEF D!Item
  <2>3. /\ reader' \in Reader /\ reader'.edited
        /\ UNCHANGED <<reader.pc, reader.header, reader.link, reader.method, reader.status,
                       reader.range, reader.counted>>
    BY <2>1, <1>t DEF Reader
  <2>4. DownloadTypes'
    <3>1. UNCHANGED <<size, handed>> /\ target' \in D!Item /\ moves' \in 0 .. MaxMoves
      BY <2>1, <2>2
    <3>2. /\ reader'.pc \in Places /\ reader'.header \in D!Header /\ reader'.status \in Statuses
          /\ reader'.range \in D!Range
      BY <2>3 DEF Reader
    <3> QED BY <1>t, <2>3, <3>1, <3>2, Zenon DEF DownloadTypes, D!TypeOK, Places, Statuses
  <2>5. Promised' BY <1>t, <2>1, <2>2, <2>3, Zenon DEF Promised
  <2>6. LinkIsHonoured' BY <2>3, Zenon DEF LinkIsHonoured
  <2>7. D!Wanted(reader.header)' = D!Wanted(reader.header)
    BY <2>1, <2>3, Zenon DEF D!Wanted, D!Positions
  <2>8. D!AnswersAreExact' BY <1>t, <2>1, <2>3, AnswersAreKept, Zenon
  <2>9. (reader.pc \in {"open", "record"} => Parsed)'
    BY <1>t, <2>3, <2>7, Zenon DEF Parsed, D!shouldRecordDownload
  <2> QED BY <1>t, <2>3, <2>4, <2>5, <2>6, <2>8, <2>9, Zenon DEF DownloadInv
<1>10. CASE UNCHANGED downloadVars
  <2>1. UNCHANGED <<size, target, handed, reader, moves>> BY <1>10 DEF downloadVars
  <2>2. D!AnswersAreExact' BY <1>t, <2>1, AnswersAreKept, Zenon
  <2>3. DownloadTypes' BY <1>t, <2>1, DownloadTypesKept, Zenon
  <2>4. Promised' /\ LinkIsHonoured' BY <1>t, <2>1, Zenon DEF Promised, LinkIsHonoured
  <2>5. (reader.pc \in {"open", "record"} => Parsed)'
    BY <1>t, <2>1, Zenon DEF Parsed, D!Wanted, D!Positions, D!shouldRecordDownload
  <2> QED BY <1>t, <2>1, <2>2, <2>3, <2>4, <2>5, Zenon DEF DownloadInv
<1> QED BY <1>1, <1>2, <1>3, <1>4, <1>5, <1>6, <1>7, <1>8, <1>9, <1>10 DEF D!Next

-----------------------------------------------------------------------------
(* The rate limit.                                                         *)

LimitNumbers == Limit \in Nat /\ MaxCount \in Nat

\* The key's first request has yet to be let through.
FirstIsPending ==
  \A c \in Callers : call[c].pc = "expire" =>
    /\ ~expires
    /\ passed + 1 <= count
    /\ 1 <= Limit => passed + 1 <= Limit
    /\ \A d \in Callers : call[d].pc = "expire" => d = c

LimitInv ==
  /\ R!TypeOK
  /\ passed <= count
  /\ passed <= Limit
  /\ count = 0 => ~expires
  /\ FirstIsPending

LEMMA LimitInvInit == LimitNumbers /\ R!Init => LimitInv
<1> SUFFICES ASSUME LimitNumbers, R!Init PROVE LimitInv OBVIOUS
<1>1. R!Idle \in R!Call /\ R!Idle.pc = "idle" BY DEF R!Idle, R!Call
<1>2. \A c \in Callers : call[c] = R!Idle BY DEF R!Init
<1>3. call \in [Callers -> R!Call] BY <1>1 DEF R!Init
<1>4. FirstIsPending BY <1>1, <1>2, Zenon DEF FirstIsPending
<1>5. count \in 0 .. MaxCount /\ passed \in 0 .. MaxCount /\ passed <= count /\ passed <= Limit
  BY SMT DEF R!Init, LimitNumbers
<1>6. expires \in BOOLEAN /\ (count = 0 => ~expires) /\ disrupted \in Disruptions BY Zenon DEF R!Init
<1> QED BY <1>3, <1>4, <1>5, <1>6, Zenon DEF LimitInv, R!TypeOK

LEMMA CallMoves ==
  ASSUME R!TypeOK, NEW c \in Callers,
         NEW pc \in {"idle", "expire", "refused", "passed", "unavailable"}, R!Goto(c, pc)
  PROVE  /\ call' \in [Callers -> R!Call]
         /\ call'[c].pc = pc
         /\ \A d \in Callers : d # c => call'[d] = call[d]
<1>1. call \in [Callers -> R!Call] BY DEF R!TypeOK
<1>2. [call[c] EXCEPT !.pc = pc] \in R!Call /\ [call[c] EXCEPT !.pc = pc].pc = pc
  BY <1>1, SMT DEF R!Call
<1>3. call' = [call EXCEPT ![c] = [call[c] EXCEPT !.pc = pc]] BY <1>1, Zenon DEF R!Goto
<1> QED BY <1>1, <1>2, <1>3

LEMMA LimitInvStep == LimitNumbers /\ LimitInv /\ [R!Next]_limitVars => LimitInv'
<1> SUFFICES ASSUME LimitNumbers, LimitInv, [R!Next]_limitVars PROVE LimitInv' OBVIOUS
<1>t. /\ R!TypeOK /\ LimitNumbers /\ passed <= count /\ passed <= Limit /\ (count = 0 => ~expires)
      /\ FirstIsPending
      /\ Limit \in Nat /\ MaxCount \in Nat /\ count \in 0 .. MaxCount /\ expires \in BOOLEAN
      /\ call \in [Callers -> R!Call] /\ passed \in 0 .. MaxCount /\ disrupted \in Disruptions
  BY DEF LimitInv, R!TypeOK, LimitNumbers
<1>1. ASSUME NEW c \in Callers, R!Incr(c) PROVE LimitInv'
  <2>1. CASE count + 1 = 1
    <3>1. R!Goto(c, "expire") /\ passed' = passed /\ count' = 1 /\ count = 0
      BY <1>1, <2>1, <1>t, SMT DEF R!Incr
    <3>2. /\ call' \in [Callers -> R!Call] /\ call'[c].pc = "expire"
          /\ \A d \in Callers : d # c => call'[d] = call[d]
      BY <3>1, <1>t, CallMoves
    <3>3. \A d \in Callers : call[d].pc # "expire" BY <3>1, <1>t, SMT DEF FirstIsPending
    <3> QED BY <1>1, <1>t, <3>1, <3>2, <3>3, SMT DEF R!Incr, LimitInv, R!TypeOK, FirstIsPending
  <2>2. CASE count + 1 # 1
    <3>1. R!Decide(c, count + 1) /\ count' = count + 1 BY <1>1, <2>2, <1>t, SMT DEF R!Incr
    <3>2. PICK pc \in {"refused", "passed"} : R!Goto(c, pc)
      BY <3>1, SMT DEF R!Decide
    <3>3. /\ call' \in [Callers -> R!Call] /\ call'[c].pc # "expire"
          /\ \A d \in Callers : d # c => call'[d] = call[d]
      BY <3>2, <1>t, CallMoves
    <3>4. passed' = passed \/ (count + 1 <= Limit /\ passed' = passed + 1)
      BY <3>1, SMT DEF R!Decide
    <3> QED BY <1>1, <1>t, <3>1, <3>3, <3>4, SMT DEF R!Incr, LimitInv, R!TypeOK, FirstIsPending
  <2> QED BY <2>1, <2>2
<1>2. ASSUME NEW c \in Callers, R!Expire(c) PROVE LimitInv'
  <2>2. PICK pc \in {"refused", "passed"} : R!Goto(c, pc) BY <1>2, SMT DEF R!Decide, R!Expire
  <2>3. /\ call' \in [Callers -> R!Call] /\ call'[c].pc # "expire"
        /\ \A d \in Callers : d # c => call'[d] = call[d]
    BY <2>2, <1>t, CallMoves
  <2>4. passed' = passed \/ (1 <= Limit /\ passed' = passed + 1)
    BY <1>2, SMT DEF R!Decide, R!Expire
  <2> QED BY <1>2, <1>t, <2>3, <2>4, SMT DEF R!Expire, LimitInv, R!TypeOK, FirstIsPending
<1>3. ASSUME NEW c \in Callers, R!IncrErrs(c) PROVE LimitInv'
  <2>3. /\ call' \in [Callers -> R!Call] /\ call'[c].pc # "expire"
        /\ \A d \in Callers : d # c => call'[d] = call[d]
    <3>1. R!Goto(c, "unavailable") BY <1>3 DEF R!IncrErrs
    <3> QED BY <3>1, <1>t, CallMoves
  <2> QED BY <1>3, <1>t, <2>3, SMT DEF R!IncrErrs, LimitInv, R!TypeOK, FirstIsPending
<1>4. ASSUME NEW c \in Callers, R!ExpireErrs(c) PROVE LimitInv'
  <2>3. /\ call' \in [Callers -> R!Call] /\ call'[c].pc # "expire"
        /\ \A d \in Callers : d # c => call'[d] = call[d]
    <3>1. R!Goto(c, "unavailable") BY <1>4 DEF R!ExpireErrs
    <3> QED BY <3>1, <1>t, CallMoves
  <2>4. call[c].pc = "expire" /\ UNCHANGED <<count, passed, disrupted>>
    BY <1>4 DEF R!ExpireErrs
  <2>5. count > 0 BY <1>t, <2>4, SMT DEF FirstIsPending
  <2>6. expires' \in BOOLEAN BY <1>4, <1>t, <2>5, Zenon DEF R!ExpireErrs
  <2>7. \A d \in Callers : call'[d].pc # "expire" BY <1>t, <2>3, <2>4, Zenon DEF FirstIsPending
  <2>8. FirstIsPending' BY <2>7, Zenon DEF FirstIsPending
  <2>9. count' # 0 BY <2>4, <2>5, <1>t, SMT
  <2> QED BY <1>t, <2>3, <2>4, <2>6, <2>8, <2>9, Zenon DEF LimitInv, R!TypeOK
<1>5. ASSUME NEW c \in Callers, R!Stop(c) \/ R!Answered(c) PROVE LimitInv'
  <2>3. /\ call' \in [Callers -> R!Call] /\ call'[c].pc # "expire"
        /\ \A d \in Callers : d # c => call'[d] = call[d]
    <3>1. R!Goto(c, "idle") BY <1>5 DEF R!Stop, R!Answered
    <3> QED BY <3>1, <1>t, CallMoves
  <2> QED BY <1>5, <1>t, <2>3, SMT DEF R!Stop, R!Answered, LimitInv, R!TypeOK, FirstIsPending
<1>6. CASE R!WindowEnds
  <2>1. expires /\ count' = 0 /\ passed' = 0 /\ expires' = FALSE /\ UNCHANGED <<call, disrupted>>
    BY <1>6 DEF R!WindowEnds
  <2>2. \A c \in Callers : call[c].pc # "expire" BY <2>1, <1>t, Zenon DEF FirstIsPending
  <2>3. FirstIsPending' BY <2>1, <2>2, Zenon DEF FirstIsPending
  <2>4. /\ count' \in 0 .. MaxCount /\ passed' \in 0 .. MaxCount
        /\ passed' <= count' /\ passed' <= Limit
    BY <2>1, <1>t, SMT
  <2> QED BY <2>1, <2>3, <2>4, <1>t, Zenon DEF LimitInv, R!TypeOK
<1>7. CASE UNCHANGED limitVars
  BY <1>7, <1>t DEF limitVars, LimitInv, R!TypeOK, FirstIsPending
<1> QED BY <1>1, <1>2, <1>3, <1>4, <1>5, <1>6, <1>7 DEF R!Next

-----------------------------------------------------------------------------
(* All four together: while one takes a step, the others stay as they are. *)

ReadersInv == SearchInv /\ ListInv /\ DownloadInv /\ LimitInv

LEMMA ConstantsFit == ListNumbers /\ DownloadNumbers /\ LimitNumbers
  BY ListAssumption, DownloadAssumption, LimitAssumption
     DEF ListNumbers, DownloadNumbers, LimitNumbers

LEMMA ReadersInvInit == ReadersInit => ReadersInv
  BY ConstantsFit, SearchInvInit, ListInvInit, DownloadInvInit, LimitInvInit
     DEF ReadersInit, ReadersInv

LEMMA ReadersInvStep ==
  ReadersInv /\ [ReadersNext]_<<part, vars, listVars, downloadVars, limitVars>> => ReadersInv'
<1> SUFFICES ASSUME ReadersInv, [ReadersNext]_<<part, vars, listVars, downloadVars, limitVars>>
             PROVE  ReadersInv'
  OBVIOUS
<1>1. [Next]_vars /\ [L!Next]_listVars /\ [D!Next]_downloadVars /\ [R!Next]_limitVars
  BY Zenon DEF ReadersNext
<1>2. SearchInv' BY <1>1, SearchInvStep DEF ReadersInv
<1>3. ListInv' BY <1>1, ConstantsFit, ListInvStep DEF ReadersInv
<1>4. DownloadInv' BY <1>1, ConstantsFit, DownloadInvStep DEF ReadersInv
<1>5. LimitInv' BY <1>1, ConstantsFit, LimitInvStep DEF ReadersInv
<1> QED BY <1>2, <1>3, <1>4, <1>5 DEF ReadersInv

LEMMA ReadersInvHolds == ReadersSpec => []ReadersInv
  BY ReadersInvInit, ReadersInvStep, PTL DEF ReadersSpec

\* Every variable of the search index, the lists, the downloads and the rate
\* limit keeps its type: a cursor is made of a row of the page, a range lies in
\* the file, a search job is retried only while it has attempts left.
THEOREM ReadersAreTyped == ReadersSpec => []Typed
<1>1. ReadersInv => Typed
  BY DEF ReadersInv, SearchInv, Base, ListInv, DownloadInv, DownloadTypes, LimitInv, Typed
<1> QED BY <1>1, ReadersInvHolds, PTL

\* With one worker process, whatever the number of items and jobs: when every
\* search job was carried out, the index shows what content_items holds, if
\* no attempt failed, or, whatever failed, if the item was never withdrawn.
THEOREM IndexIsInStep == OneSearchWorker => (ReadersSpec => []SyncedWhenDone)
<1>1. SUFFICES ASSUME OneSearchWorker PROVE ReadersSpec => []SyncedWhenDone
  OBVIOUS
<1>2. ReadersInv => SyncedWhenDone BY <1>1, SettledIsInStep DEF ReadersInv
<1> QED BY <1>2, ReadersInvHolds, PTL

\* Turning the pages of a list, of any length and with any page size, shows
\* every row that stayed on it and kept its key, and repeats none unless keys
\* can fall or be NULL.
THEOREM WalksAreFaithful == ReadersSpec => []WalkIsFaithful
<1>1. ReadersInv => WalkIsFaithful BY DEF ReadersInv, ListInv, WalkIsFaithful
<1> QED BY <1>1, ReadersInvHolds, PTL

\* For every size of a file and every Range header, a download answers with
\* exactly the bytes that were asked for and is counted if and only if it
\* begins with the first; and a valid link is turned away only after an edit.
THEOREM DownloadsAreExact == ReadersSpec => []AnswersAreExact
<1>1. ReadersInv => AnswersAreExact BY DEF ReadersInv, DownloadInv, AnswersAreExact
<1> QED BY <1>1, ReadersInvHolds, PTL

\* A window of the rate limit lets at most its limit through, however many
\* requests arrive together and whatever command fails: the safety part of
\* LimitHolds.
THEOREM LimitIsKept == ReadersSpec => []R!PassedWithinLimit
<1>1. ReadersInv => R!PassedWithinLimit BY DEF ReadersInv, LimitInv, R!PassedWithinLimit
<1> QED BY <1>1, ReadersInvHolds, PTL
=============================================================================
