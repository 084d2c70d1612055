# BeeBa: models, checks and proofs

BeeBa is a catalogue for `.bee` packages (Basis avatars, worlds and props) and for
Basis servers. An API process and any number of worker processes, written in Go,
share PostgreSQL, a MinIO object store, Meilisearch and Redis. The modules in this
directory model the parts of the program whose correctness depends on the order in
which those processes take their steps. Paths below are relative to
`src/Backend/internal` unless they start with `src/`.

## 1. The system

| Component | State | Operations | Who shares it |
| --- | --- | --- | --- |
| Job queue (`repository/postgres/jobs.go`, `app/worker.go`) | table `worker_jobs` | Claim (oldest due row, `FOR UPDATE SKIP LOCKED`), MarkSucceeded, MarkFailed with back-off, the administrator's retry | all workers, every producer of a job |
| Worker loop (`Worker.Run`, `processOnce`) | where a pass is | asks scans, publishable items, images, search, servers, mails, in this order, and stops at the first that has work | workers |
| Content pipeline (upload handler, `processFileScan`, moderation, owner, admin files) | `content_items`, `content_files`, objects in the quarantine and private buckets, scan jobs | upload, scan, promotion, publication, reconcile pass, approve, reject, hide, restore, owner edit, delete, rescan | uploader, workers, moderators, owner, administrator |
| Search index (`processSearchIndex`, Meilisearch) | documents in Meilisearch, `search_index_queue` | upsert after re-reading the rows, delete | workers; producers are the above, likes, comments and images; what a document is joined from also changes without a job |
| Lists and cursors (every `List...` that hands out a cursor) | none; the rows of all tables | a page of rows after a cursor made of sort key and id | readers |
| Images (`media.go`, `processImage`) | `content_images`, `user_images`, image jobs, objects in the preview bucket | upload, replace, process, delete | owner, workers |
| Gallery (`media.go`, embedded preview of `worker.go`) | which image of an item is primary, the unique index on it | upload, edit, unset, delete, fallback preview | owner, workers |
| Storage quota and duplicates (`storage_usage.go`, `uploads.go`) | sums over files and images of an owner, advisory locks | check inside the upload, duplicate check | uploads of one owner, workers |
| Server catalogue (`servers.go`, `processServerCheck`) | `server_listings`, `server_checks`, check jobs | submit, edit, verify, probe, schedule, hide, restore, delete | owner, workers, moderators |
| Accounts, sessions, roles (`users.go`, `admin_users.go`, auth and account handlers) | `users`, `auth_sessions`, `user_roles`, password and address links | login, refresh, logout, change of password and address, ban, unban, roles | users, administrators |
| Registration, addresses and mails (`users.go`, `processEmail`) | `email_verification_tokens`, `email_change_tokens`, mail jobs | register, verify, ask again, change, the daily limit, sending | users, workers, administrator |
| Comments, likes and reports (`social.go`, `moderation.go`) | likes, comments, reports, two counters of the item | like, unlike, comment, hide, approve, report, review | users, moderators |
| Downloads (`downloads.go`, downloads handler) | `download_events`, counter, the link of a private item | look up, range, open, record | readers, owner |
| Rate limiter (`ratelimit/redis.go`) | Redis counters with expiry | INCR, EXPIRE | API requests |
| Migrations (`cmd/migrate`) | `schema_migrations` | up, one transaction per file | deployment |
| Package validation, image decoding, antivirus client, probe, storage and search clients, secrets, configuration, frontend | none shared | pure functions or I/O | - |

How they interact: a request handler changes rows in one PostgreSQL transaction and
inserts a job in the same transaction; a worker claims the job later, reads the rows
again, calls other systems (object store, ClamAV, Meilisearch, mail, the server to be
probed) between its transactions, and writes its result in a transaction that may or
may not check what happened meanwhile. What is hard is exactly there: state read
before a long call and used after it, a transaction that commits while its caller is
told that it failed, a process that stops between two systems, two actors that
promote, probe or moderate the same row.

What makes each component correct:

- Job queue: a job is executed by one worker at a time and at most `max_attempts`
  times, is never executed again once it succeeded, and ends.
- Content pipeline: what is published was found clean, lies in the private bucket and
  exists there; a verdict, a take-down and a deletion stand against everything that was
  under way; an upload does not wait for ever; no object is left behind.
- Worker loop: no queue is starved by those before it once these run dry.
- Search index: once the jobs are done, what the catalogue shows is found, what it does
  not show is not, and no document is older than the last change a job announced.
- Lists: whoever turns all pages misses no row that stayed and sees none twice.
- Server catalogue: a server is listed by the result of a probe of its present
  endpoint; take-downs and deletions stand; checks neither stop nor pile up.
- Images: what is served has its object; the newest avatar is the only live one; what is
  replaced is removed.
- Gallery: there is one primary image; a preview of the package only fills a gap; no
  request of the owner fails because of another one.
- Accounts, sessions and roles: a refresh token works once; a ban, a new password or a
  logout ends sessions; only the newest link counts; there is always an active owner.
- Quota and duplicates: the files of an owner never exceed the limit, whatever is
  uploaded at the same time.
- Registration: an address counts as verified only if its account opened a link mailed
  there; no link is mailed twice; the daily limit holds.
- Social: counters equal the rows they count.
- Downloads: an answer has exactly the bytes asked for and is counted if it starts the
  file; the holder of a link is not turned away.
- Rate limiter: no more than the limit per window, and a window ends.
- Migrations: each is applied once, completely or not at all.

`PROJECT.json` lists every component with what is modelled of it, every hazard at its
line and the properties that would catch it.

## 2. The modules

| Module | Models | Extends |
| --- | --- | --- |
| `JobRows` | one row of `worker_jobs` and the statements that change it | |
| `JobQueue` | a queue of rows, its workers, crashes, failed and lost statements | `JobRows` |
| `WorkDelivery`, `JobQueueRefinement` | what the queue promises, and the mapping under which `JobQueue` implements it | |
| `WorkerLoop` | the order in which a worker serves all queues | `JobRows` |
| `ContentPipeline`, `ContentSafety` | the life of an uploaded package, and what must hold of it | `JobRows` |
| `SearchSync` | how the Meilisearch index follows the tables | `JobRows` |
| `Listing` | turning the pages of a list while its rows change | |
| `Downloads` | one reader's download while the owner edits the item | |
| `RateLimiter` | the counter of one caller, its expiry, and requests at the same time | |
| `ServerChecks` | the catalogue of Basis servers: owners, probing workers, moderators, scheduler | `JobRows` |
| `ImageProcessing` | a user's avatars and an item's images: upload, replacement, processing, removal | `JobRows` |
| `Gallery` | the primary image of an item: transactions lock by lock, and the fallback preview | |
| `OwnerStorage` | the quota and the duplicate check, lock by lock | |
| `Accounts` | sessions, changes of password and address, bans and roles | |
| `Registration` | links that verify or change an address, row lock by row lock, and their mails | |
| `Community` | likes, comments, reports and the counters of one item | |
| `MCJobs`, `MCReaders`, `MCImages`, `MCAccounts`, `MCContentPipeline` | what TLC checks: see below | the first module of each group |
| `JobRows_proofs`, `ContentPipeline_proofs`, `ServerChecks_proofs`, `Accounts_proofs` | the proofs about the module each is named after | that module |
| `JobQueue_proofs` | the proofs about `JobQueue`, `WorkerLoop` and `MCJobs` | `MCJobs`, `JobRows_proofs` |
| `Readers_proofs` | the proofs about `SearchSync`, `Listing`, `Downloads`, `RateLimiter` and `MCReaders` | `MCReaders` |
| `Images_proofs` | the proofs about `ImageProcessing`, `Gallery`, `OwnerStorage` and `MCImages` | `MCImages` |
| `MCAccounts_proofs` | the proofs about `Registration`, `Community` and `MCAccounts` | `MCAccounts`, `Accounts_proofs` |

Every component with background work keeps its jobs in rows of `JobRows`, so the
statements on a job are written once. `JobQueue` asks what those statements promise by
themselves; the other modules ask what becomes of the work of one component. They are
not composed into one specification: a job of one queue never touches a row of
another component's tables, apart from search jobs, which `ContentPipeline` keeps as
`announced` and `SearchSync` carries out.

Modules of one subject are checked by one run: `MCJobs` (`JobQueue`, `WorkerLoop`),
`MCReaders` (`SearchSync`, `Listing`, `Downloads`, `RateLimiter`), `MCImages`
(`ImageProcessing`, `Gallery`, `OwnerStorage`) and `MCAccounts` (`Accounts`,
`Registration`, `Community`). They share no variable, each abstracts from what the
others tell apart, and a product of their states would show nothing more; so a rigid
variable `part`, chosen in the initial state, says which of them takes steps while the
others stay in one initial state in which none of their fair steps is possible.

An operator with "Mutant" in its comment is a wrong variant of the definition that
follows it; no specification uses it. It documents which mistake the properties would
find.

### State and actions

A PostgreSQL transaction that locks the rows it reads is one action. A worker's or
handler's work between two transactions is split at every call that leaves the
process, so the actors interleave there. Where a transaction reads rows that it does
not lock (the owners that `SetUserRoles` counts, the avatars an upload replaces, the
scheduler's `NOT EXISTS`), its read and its commit are two actions; where it may have
to wait for another one's row lock, the lock is a guard (`Free` in `Accounts`,
`LockedByOthers` in `ImageProcessing`). `Gallery`, `OwnerStorage` and `Registration`
are about lock orders: there a transaction takes its row and advisory locks one by one,
reads what is committed when its statement starts, and writes at its commit; two that
wait for each other are a deadlock, of which the database aborts one.

- `JobQueue`: `jobs` is the table, `worker` the process's local `Job` value with its
  program counter.
- `ContentPipeline`: `item`, `file` and `rows` are the tables, `store` the objects in
  the two buckets, `actor` what a worker or an approving moderator is doing,
  `uploading` the uploads between `PutObject` and their transaction. `announced` and
  `takenDown` are histories that only properties read.
- `SearchSync`: `item` says of an item whether it is searchable, which document the
  tables hold (a count of the changes of every column that is joined into it), which one
  they held when a job last announced it (a history), and how far an image of it is on
  its way; `index` is the documents, `worker` holds the document read before the call.
- `ServerChecks`: `listing` is the table, `selected` what a scheduler's statement has
  selected and not yet committed, `worker` holds the endpoint read before the probe.
- `ImageProcessing`: `image` and `avatar` are the tables, `store` the preview bucket,
  `uploader` and `worker` what a request and a worker hold.
- `Accounts`: `users`, `sessions` and `links` are the tables, `request` what each
  request has read; `spent` and the field `late` of a session are histories.
- `WorkerLoop`: `rows` and `queue` are the table, `pass` where a worker is in its pass,
  `candidate` what `GetAutoPublishCandidate` would find.
- `Listing`: `order` says what the key of the list can do (never change, only rise,
  move), `row` is the table, `cursor` the reader's; one module stands for all
  lists, each with its own `order`. `shown`, `twice`, `before`, `changed` are histories.
- `Downloads`: `target` is the item, `reader` the request; headers are enumerated.
- `RateLimiter`: `count` and `expires` are the key in Redis, `call` the requests.
- `Gallery`: `picture` is `content_images` as committed, `edit` the open transactions.
- `OwnerStorage`: `entry` stands for the three tables with sizes, `quarantine` for the
  bucket, `send` for the uploads.
- `Registration`: `accounts`, `tokens` and `jobs` are the tables, `recent` the jobs of
  the last 24 hours, `tx` the open transactions, `accepted` what the provider delivered;
  `proven` is a history.
- `Community`: `likes`, `comments`, `reports` and `counts` are the tables, `writing` the
  open comment transactions.

Timestamps are kept as far as statements compare them: `published_at`, `hidden_at` and
`deleted_at` are Booleans (NULL or not), `next_retry_at` is "due or not". What a file,
an image or an answering server is worth is an input: a verdict chosen at each attempt
(signatures, configuration and the availability of ClamAV change between attempts), a
set of images that do not decode, a set of endpoints that answer.

`UpdateOwned` of the content pipeline reads the file's scan status in the statement
that locks the item; under READ COMMITTED this value can be older than the lock. The
states this allows are those of an edit that came earlier, so the model reads both at
once.

### Faults

What can go wrong is a rigid variable: `faults` is chosen in the initial state among
the sets in the constant `FaultSets` and never changes. One run therefore covers
several environments, and a property says itself which it needs (`faults = {} => ...`,
`"lost_reply" \notin faults => ...`). The kinds:

| Kind | Meaning |
| --- | --- |
| `crash` | a process stops, or its context is cancelled, between two steps |
| `db_error` | a statement or transaction fails without effect |
| `lost_reply` | a call takes effect and is reported as failed |
| `store_error`, `search_error` | a call to the object store or to Meilisearch fails without effect |
| `probe_lost` | a probe of an endpoint that answers fails |
| `overlap` | a user or an administrator sends a request before the last was answered; in `SearchSync`, transactions begin in one order (their jobs' `created_at`) and commit in the other |

`RateLimiter` (`disrupted`) and `OwnerStorage` (`mishaps`) choose theirs in the same
way: a command that fails or an API that stops between two; images that grow when they
are encoded again, uploads that stop, replies that are lost. `Registration` has its
failures as steps that are always possible: any transaction may abort, a mail may arrive
and be reported as not sent, a mark may be lost.

`WorkDelivery` has a rigid flag of the same kind, `lossy`: where replies can be lost,
the queue promises less (work may start unnoticed and finished work may be handed out
again), but still one worker at a time and `MaxAttempts` executions.

## 3. What the runs check

| Run | Question | Answer |
| --- | --- | --- |
| `jobs` | one worker per job, `WorkDelivery` implemented; without faults, does every job end; is every queue served once those before it run dry? | yes |
| `jobs_stranded` | does a job end when its worker may stop? | no: the row stays `running` for ever |
| `pipeline` | under every fault: may what is published be served, does deleted stay away, does a verdict stand? Without lost replies: is a published object safe, is a file scanned by one job only, is the index told of every change? | yes |
| `pipeline_live` | without faults: does every scan end, every clean item get decided, every original of a published item get removed; does promotion leak objects? | yes; no |
| `pipeline_takedown` | does a moderator's take-down hold against an owner's edit? | no: the reconcile pass publishes the item again |
| `search` | index: do jobs that do not fail leave it in step with what was announced, are late, reordered or repeated upserts harmless, does it catch up without faults? Lists: is no row missed or repeated? Downloads: does each answer have the bytes asked for? Rate limiter: does a window let no more through than its limit? | yes |
| `search_lostitem` | is what the catalogue shows found in the index once all jobs are done? | no: a retried delete removes what a restore has written |
| `servers` | do take-downs and deletions hold when statements fail, workers stop and probes are lost, do checks of a server stay few, does the status become accurate? | yes |
| `servers_stale` | does a check publish only the endpoint it probed? | no |
| `images` | can what is served be opened, is the avatar never a replaced one; do the gallery and the quota hold when their transactions overlap; without faults, is everything processed and what is replaced reclaimed? | yes |
| `images_overlap` | is there one live avatar when two uploads overlap? | no |
| `accounts` | do sessions end with a ban or a new password, is a refresh token spent once, does only the latest link set a password, does an owner remain; is only a proved address verified, is each link mailed once, does the daily limit hold; do counters match their rows? | yes |

The runs that answer "no" check what the API description, the repository's README or a
comment says; `findings` in `PROJECT.json` quotes it. Some properties of passing runs
are narrower than one would wish, because the code does not do more; each names its
exception:

- `SessionsEndWithTheirGrounds` excepts sessions whose login read the account before
  the ban or the new password and inserted its row afterwards (`late`).
- `OwnerRemains` is claimed for administrators who act one after the other: two owners
  who step down together count each other.
- `WalkIsFaithful` claims nothing of a walk that meets a row whose `published_at` is NULL
  (a server restored before it was ever published): a cursor made of it compares with
  nothing. A list ordered by a key that moves both ways may show a row twice.
- `LimitHolds` claims the end of a window only where no `EXPIRE` is lost: `INCR` and
  `EXPIRE` are two commands, and a counter without expiry refuses for ever.
- `StorageHolds` claims the quota only where images do not grow when they are encoded
  again: the worker writes the new size without looking at the quota.
- `GalleryHolds` excepts uploads: they alone can meet the unique index over primary
  images, and every deadlock has an upload on one side, which locks in the other order.
- `MailsWithinLimit` allows one mail more for each further transaction open at the same
  time: the limit counts committed jobs.
- `PublishedHasObject`, `IndexIsTold`, `OneLiveScan` and `ServedHasItsObject` except lost
  replies. The first is about uploads: two promotions of one legacy item share an object
  key, so the loser's clean-up may remove the winner's object.
- `ChecksAreFew` excepts statements that fail: a job that is dead is put back.
- `SyncedWhenDone` and `EventuallyInStep` promise what a job announced. Nothing announces
  a new name of a category (`categories.go:82`), a tag (`tags.go:103`) or an author
  (`users.go:316`), a download (`downloads.go:61`), or the old preview that a primary
  upload takes away (`media.go:129`): with every job done, these columns may be old in the
  index for as long as nothing else of the item changes. The job after the processing of
  an image is a statement of its own (`worker.go:887`): it is lost if the worker dies
  before it or if it fails, and the retry finds the image processed.
- `SyncedWhenDone` excepts an item that was withdrawn where attempts fail or transactions
  overlap: jobs are claimed by the begin of their transactions, so the delete of an earlier
  change may be carried out after the upsert of the later one.

Other known limits, each a hazard in `PROJECT.json`: `SyncedWhenDone` needs the single
worker of the compose file; a retried image job whose image is already `failed` does
nothing. `PROJECT.json` says of a hazard when the property named there covers only part of
it.

The reference definition of `AnswersAreExact` takes a header that the code does not parse,
or that asks for several ranges, as asking for no bytes, since the code refuses both with
416; HTTP would also allow to ignore them. The size of an object is taken as fixed from
the upload on, since its key is never written again. `MailsWithinLimit` is about a positive
daily limit: `enforceEmailDailyLimit` takes zero as "no limit", a value that the
configuration refuses (`config.go:257`).

### Bounds

| Run | Bounds | Why they are enough |
| --- | --- | --- |
| `jobs` | 2 workers, 3 jobs, 2 attempts, 1 retry; loop: 1 worker, 2 rows of any queue used again without end | a statement touches one row, a third worker repeats what the second can do; order needs two claimable rows beside a running one; two rows are the one that waits and the one that comes before it again and again |
| `pipeline` | 2 workers, 1 moderator, 1 item, 2 scan jobs | no handler relates two items; two scan jobs are the first and a rescan |
| `pipeline_live` | the same, the item may also be a legacy one | |
| `search` | index: 1 worker, 1 item, 3 jobs, 3 changes, 1 image at a time | the compose file runs one worker; three jobs are show, withdraw and show again, or an edit or a refresh between; a job number is kept free for each refresh that has yet to be queued (`Room`), so the bound never loses one |
| | lists: 3 rows, 3 keys, pages of 1 and 2, 2 changes | a row before, at and behind the cursor; equal keys need two rows of one key, a moving row a key to either side |
| | downloads: files of 1 and 2 bytes, numbers to 3, 2 edits | each end of a range below, at and beyond the last byte; two edits take a link away and give it back |
| | rate limit: 2 callers, limit 2, counts to 4 | a race needs two callers, a window one request beyond its limit |
| `servers` | 2 workers, 1 server, 2 endpoints of which one answers, 3 rows for jobs, 3 requests | two endpoints let a check be of the old one; three requests are submit, change and take-down; lost replies are left to the proofs, which cover every safety property claimed under them |
| `images` | 1 worker, 2 uploads, 2 images of which one does not decode, 3 requests | a replacement needs two avatars; a job is executed by one worker (`OneWorkerPerJob`) |
| | gallery: 3 transactions at a time, 3 pictures, 4 edits | a deadlock needs two transactions, the third waits behind both or is the fallback preview |
| | storage: 2 uploads at a time of 4, 3 entries, packages of size 1 and 2, quota 3 | two uploads that fit alone and not together; an equal package again after a deletion |
| `accounts` | sessions: 2 accounts, 2 requests at a time, 5 in all, 2 sessions of up to 2 rotations, 2 links, 3 addresses | a race needs two requests; a link that has become stale needs two links or a spare address; two owners need a log-in and a grant before they race |
| | mails: 2 accounts, 2 addresses, 3 links, a limit of 1 a day, 2 attempts, 2 claims | two accounts that want one address; a link, a newer one and one of the other account |
| | community: 2 people, 2 comments, 1 report | a counter moves by one row; two people make two rows at a time |

`MaxAttempts` is 2 instead of 5 (3 for server checks), so that one attempt can fail
before the last. `MaxJobs`, `MaxImages`, `MaxSessions`, `MaxLinks`, `MaxTokens`,
`Pictures`, `Entries` bound rows, and `MaxRequests`, `MaxRetries`, `MaxEdits`,
`MaxRotations`, `MaxChanges`, `MaxMoves`, `MaxSends` what users and the
administrator do. They are guards of the actions that insert or request, so a behaviour
may end there: the runs do not check for deadlock. A deadlock of the database is not one
of a model: `Gallery` and `Registration` have an action that aborts the victim.

### Fairness

`WF` of a worker's step: `Worker.Run` polls for ever and every handler call carries a
deadline. `WF` of the back-off and of the interval between two checks: time passes. `WF`
of the scheduler: every worker runs it on its loop. `WF` of the search job after the
processing of an image (`SendRefresh`): it is the worker's next statement. `WF` of a
request's next step once it has begun (uploads of images, moderators who approve): a
handler runs to its end. `RateLimiter` has `WF` of the expiry of a key and of the end of
a command: time passes in Redis too, and a command ends within its deadline.
`WorkerLoop` has `WF` of a worker's pass and of the back-off, but no fairness of the
producers: that a queue is served is claimed once those before it stay dry. That a user,
a moderator or an administrator asks for something is never owed, and faults have no
fairness; the liveness properties are claimed for `faults = {}`, except
`EveryJobSettles` of `jobs_stranded`, whose point is the crash. `Listing`, `Downloads`,
`Gallery`, `OwnerStorage`, `Accounts`, `Registration` and `Community` have no liveness
property.

## 4. What is proved

All theorems hold for every number of workers, jobs, items, servers, accounts and
requests, and for every choice of the fault sets. They assume what the modules state of
their constants (positive bounds, finite sets where something is counted, and that the
null values are not identities) and what a theorem states itself: that replies arrive or
that statements do not fail, where the code promises no more; no legacy items for
`PublishedHasObject`; and one worker process for `SyncedWhenDone`. Of the 40 properties
that passing runs check on small instances, 34 are theorems: every invariant, every action
property and the refinement. The other six are liveness.

The runs of `MCJobs`, `MCReaders`, `MCImages` and `MCAccounts` check several modules at
once, and so do the theorems about them. Each part has an inductive invariant of its own;
a step of the system is a step of one part and leaves the variables of the others alone,
so the conjunction of the invariants is inductive, and what is proved of the system holds
whichever part takes the steps.

**`JobQueue_proofs`.** Under every fault the type invariant, `OneWorkerPerJob`,
`PendingHasAttemptLeft`, `DeadIsExhausted`, and that `JobQueue` implements `WorkDelivery`;
unless a reply can be lost, `SucceededIsFinal`. `OneWorkerPerJob` is not inductive: the
marks go by id alone, so one needs that the row of a job in a worker's hands is `running`
or `succeeded` and still has the worker's attempt count (`HoldsItsClaim`); claims and
retries accept neither status, so nobody else touches the row. Without lost replies the
row is even `running` (`HeldIsRunning`), which gives the finality of success. The
refinement goes action by action, each one a step of `WorkDelivery` or a stutter, with the
lossy steps where replies can be lost. For `WorkerLoop`, `LoopInv` says that a worker at
work has a `running` row to itself and that every `running` row is in somebody's hands
(`LoopStrandsNothing`): a pass through the queues claims nothing that it does not serve.

**`ContentPipeline_proofs`.** Under every fault the type invariant, `PublishedIsServable`,
`DeletedStaysWithdrawn` and `VerdictStands`; without lost replies also `OneLiveScan`,
`IndexIsTold` and, if there are no legacy items, `PublishedHasObject`. The inductive
invariant `IInv` is `ActorPart` (who holds which job: its row is neither pending nor dead
and has the attempt count and the item of the actor's copy) and `ItemPart`, whose core
`Fits` says which columns of an item go together: a published or hidden one is clean and
in the private bucket, a published or pending one is not hidden, a deleted one has one of
three statuses, a verdict against the file goes with a status that is not public. No
handler checks all of this; each clause is kept because the statuses a handler starts from
exclude the rest. The conditional properties need `SInv`: a scan job that can still run
belongs to a file without a verdict, a file has one such job, and the job in a worker's
hands is still `running` (`ScanPart`, `RunningPart`). A lost reply breaks exactly these,
so `SInv` is claimed under `RepliesArrive`. `PublishedHasObject` adds `StorePart`: what is
clean lies in the private bucket and has its object there, and whoever carries an object
out of quarantine does so for a scan. As a file has one live scan and a job one worker,
that carrier is alone (`OneCarrier`), so the copy it removes when its publication fails is
never one that was published. `NoStrayCopy`, which is about runs without faults and covers
legacy items, needs `CopyPart`: an object in the private bucket is the package of its item
or is in the hands of someone who is about to publish it or to undo the copy; and
`FromFits`: who took a package from the private bucket made no copy of it, since no row
goes back to quarantine.

**`ServerChecks_proofs`.** Under every fault the type invariant, `TakedownHolds` and
`DeletedIsFinal`; unless statements fail, `ChecksAreFew`. `IInv` joins `JobPart` (the row
of a worker's job still has the attempt count of its claim, and no two workers share a
job), which makes the rows well typed, with `ListingPart`: what a moderator hid has
`hidden_at` set, and what was deleted has the status `deleted`. Late results and the
owner's requests do write the status of a hidden listing, so an invariant about the status
alone would not be inductive; none of them clears `hidden_at`. `FewPart` counts: no check
is dead, so none comes back, and a server that the scheduler has selected leaves room for
the check that is about to be inserted.

**`Images_proofs`.** *Processing:* under every fault the type invariant and
`AvatarIsLive`; without lost replies `ServedHasItsObject`. `JobPart` says who holds which
image, `UploadPart` that an upload owns the row it is about to insert and replaces only
avatars, `ImagePart` joins the two tables. `ServedPart` follows a worker from the row it
has claimed (`running`) over the object it has put to the row that names it: whatever is
removed meanwhile is either an original or of a replaced avatar, never a result that a
live row names or is about to name. *Gallery:* `GalleryHolds`. At most one transaction
holds an item and at most one a quota (`OneHoldsItem`, `OneHoldsQuota`), so the preview's
first look is still true when it inserts, because an upload commits only when nobody holds
the item's lock; and a choice of the primary image, whose statement selected rows before
it had to wait, has nevertheless seen all of them (`SeesAll`). *Storage:* `StorageHolds`.
`RoomPart` says that a sender who was admitted under the quota's lock still has the room
when it writes, `CopyPart` that a sender who has looked for an equal package under the
lock of the hash is alone with it and would still find none, and `QuarantinePart` that an
object in quarantine is a package's or of an upload that is still under way. Usage is a
sum of sizes; the proof takes it as the cardinality of a set of units, so that it moves
with the rows by facts about finite sets and not by induction over a sum.

**`Accounts_proofs`.** The type invariant and `SessionsEndWithTheirGrounds`,
`RefreshOnce`, `LatestLinkWins`, `OwnersAreNeverBanned`, `OwnerRemains`. `RefreshOnce`
needs that the token of the present pair is never among the spent ones (`SpentBefore`),
`LatestLinkWins` that of two links to a password only the younger can be good
(`OneGoodLink`), `OwnersAreNeverBanned` that no two transactions lock one account
(`Exclusion`), so that what a ban has decided under its lock is still so at its commit
(`BansDecided`). `OwnerRemains` adds that requests come one at a time (`OneAtATime`); then
the other owner that a demotion has counted is still there (`RolesDecided`).

**`MCAccounts_proofs`.** *Registration:* `VerifiedMeansProven`, `LinksAreSingle`,
`MailsWithinLimit`. One transaction at a time holds a user (`OneHoldsUser`); a link to
verify an address that has not grown old names the address its account has now
(`TokensFit`), and the link a transaction is about to redeem was mailed, and is still for
that address or the address is proven already (`RedeemFits`). The limit is checked without
a lock, so `LimitPart` counts the transactions that have looked and not yet inserted with
the mails sent: that bounds the excess by all clients but one. *Social:*
`CountersMatchRows`; each counter moves by one exactly when a row enters or leaves a set,
and the proof keeps those sets finite, so that the cardinality moves by one as well.

**`Readers_proofs`.** *Search:* `SyncedWhenDone`, for one worker process
(`OneSearchWorker`; with two the order of their writes to the index is open).
`SearchInv` says of each item that the index agrees with what was announced (`InStep`),
or that a job of it is still to be carried out and in nobody's hands (`Owed`), or that
the worker is about to read its row or has in hand what the index must be given: a
document no older than the last announcement (`InHand`). Changes that nobody announces
only make the tables newer, and an announcement always leaves a job behind, which makes
the item owed. A deletion is carried out without a look at the row, so it adds that an
item whose last job is a deletion is off the catalogue (`LastDeleteIsRight`) and, for
items that do leave the catalogue, that jobs are numbered without gaps and claimed in
that order (`Orderly`, which needs that no attempt fails and that no transactions
overlap). *Lists:* `WalkIsFaithful`. `ListInv` has that what a reader passed is not seen
again and that what it has not seen still lies ahead (`NothingComesAgain`,
`NothingIsSkipped`); that a page starts with the least row beyond the cursor follows
from the library's theorem that an order on a finite set has a least element.
*Downloads:* `AnswersAreExact`. `DownloadInv` relates the range to the header it was
parsed from (`Parsed`) and the answer to the link that promised it (`Promised`,
`LinkIsHonoured`). *Rate limiter:* `LimitIsKept`, the safety part of `LimitHolds`:
`LimitInv` has that a request about to set the expiry is the only one, that the counter
has none yet and that the request is already counted but not yet let through
(`FirstIsPending`).

Only model-checked are the six liveness properties `JobsAreServed`, `PipelineDrains`,
`EventuallyInStep`, `LimitHolds` (but for its safety part), `EventuallyAccurate` and
`EventuallySettled`, and what the runs with a violation show. Liveness under fairness and
`ENABLED` are out of the prover's reach, and so is induction over data; no module that is
proved about defines a recursive operator.

## 5. Plan

Done in this order, most important behaviour first: the queue and its promise, the
content pipeline, the search index, the server catalogue, images, accounts; then the
worker's loop, lists, downloads, the rate limiter, the gallery, quota and duplicates,
registration and mails, likes and comments; and the proofs of section 4. What is left:

1. An abstract publication protocol (an item is submitted, judged, published, taken
   down) that `ContentPipeline` implements.
2. Two workers in `SearchSync`, with the order of their writes, should the deployment
   ever run more than one.
3. Migrations: two migrators that start together.

## 6. Not modelled

- Filters and HTTP parsing (apart from `Range` headers), audit rows, tags and
  categories, the edits of a profile (of all three only that a name changes which the
  index has copied), the texts of items, the index settings at start, and what is only
  displayed: columns and answers without a protocol. Lists that take an offset or return
  a fixed number of rows hold no position between requests.
- The frontend keeps no state of its own that another actor waits for.
- Hashing, archive and package parsing, image decoding and the antivirus protocol are
  pure or external; the models use only their outcomes.
- Migrations run one after the other, each in a transaction with its row in the table of
  versions.
- `users` rows are never removed by the program, and time appears only as "due or not":
  that a token has expired is a token that nobody presents any more.
