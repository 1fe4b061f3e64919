# A TLA+ model of the MRMPL dashboard

This directory holds TLA+ modules for the parts of the MRMPL application whose
correctness depends on the order in which things happen: the durable refresh
of the dashboards, the outbox behind it, the worker process, pending artifact
uploads, retained artifacts, the timeline and output of production sessions,
the custody of serialized Store units, the posts and appointments of
recruitment, customers' enquiries up to the quotation that is sent, and their
purchase orders with the prices they rest on. TLC
checks each module on a small instance; TLAPS proves the safety of all of them
for every instance, the refinement of the refresh queue included. Liveness is
checked by TLC.

Source paths below are relative to the repository. `db/` stands for
`packages/db/src/`, `runtime/` for `packages/runtime/src/`, `web/` for
`apps/web/`.

## 1. The system

MRMPL is a Next.js application over PostgreSQL, which is the only writable
store; Redis only accelerates invalidation and rate limits. Server actions and
routes call the repositories of `packages/db`; a separate worker process
(`packages/runtime`) rebuilds the dashboards' read models. Bytes of documents
live in a Google Cloud Storage bucket.

| Component | State it keeps | Operations | Hard behaviour | What makes it correct |
|---|---|---|---|---|
| Dashboard refresh queue (`db/dashboard-refresh-queue.ts`, `runtime/durable-refresh-worker.ts`) | `derived.refresh_jobs`, read-model heads, refresh watermarks, outbox events | queue or coalesce a job inside the mutation; claim, build, publish, retry | coalescing onto a job a worker is about to claim, snapshots older than the job, lost connections | no committed mutation or forced rebuild is lost; heads never go back; each version is announced |
| Outbox (`runtime/durable-refresh-worker.ts`, `runtime/redis-acceleration.ts`) | `derived.outbox_events`, the version and channel in Redis | claim with a lease, sync waits, publish, mark, release | leases that expire under a live worker, crashes, versions delivered out of order | nothing marked undelivered; the cached version never goes back; every event is delivered |
| Worker process (`runtime/commands/run-worker.ts`, `runtime/postgres-refresh-listener.ts`, `runtime/worker-loop.ts`) | one shared batch, the LISTEN session, the sweep, shutdown flags | notify, reconcile, sweep, reconnect, SIGTERM | hints lost or absorbed, shutdown while connecting | every job is taken; shutdown ends; the pool is not closed under a batch |
| Pending uploads (`web/lib/pending-artifact-upload-server.ts`, `db/pending-artifact-uploads.ts`) | `core.pending_artifact_uploads`, the provider's session and object | start, append, get, complete, abandon, consume, clean up | late chunks, crashes between provider and commit, expiry, double consumption | no orphaned object; only validated bytes are kept, for one target |
| Artifact store (`db/artifacts.ts`) | `core.file_objects`, `core.files`, `core.file_links`, provider objects | `storeSet`, `delete` | shared bytes stored and deleted at once, half-done deletions | live artifacts have bytes; one current version |
| Production sessions (`db/production-shop-floor.ts`, `db/maintenance.ts`, `db/production-session-domain.ts`) | sessions, downtime, breakdowns, setups, entries, rejections | start, close, correct, downtime, breakdown, completion, rejection | everything may be entered late and corrected later | no overlap, downtime inside its session, pieces balance |
| Material movement waits (`db/material-movement-waits.ts`) | open and closed waits of cards | sync from the newest head | overlapping syncs | one open wait per movement |
| Read-model build (`db/dashboard-read-model.ts`, `db/legacy-dashboard-analysis.ts`, `db/dashboard-floor-segments.ts`) | none of its own; floor segments per version | a projection of one snapshot | partial rebuilds, pruning | a partial rebuild equals a full one |
| Planner (`db/dashboard-planning.ts`, `runtime/planner-worker-pool.ts`) | forecasts, locks, row versions; a pool of threads | plan, lock, split; queue of builds | stale forms; threads that die | row-version conflicts are refused |
| Store units (`db/store.ts`, `db/department-stores.ts`, `db/store-calibration.ts`, `db/tooling-availability.ts`) | units with owner, place and status; breakdowns, repair and calibration orders, visits, requests, gauge sets | move, break down, lose, repair, calibrate, request, issue, transfer, group | an order or visit is several transactions, and any operation may come between | a usable unit is released; place, owner and order agree; a reserved unit is not given away |
| Store stock (`db/store.ts`) | balances, receipts, issues | receive, issue, return, reverse | reversal after consumption | balance equals its movements |
| Purchase orders and prices (`db/commercial-orders.ts`, `db/commercial-costing.ts`, `db/commercial-revisions.ts`) | orders, lines, revision requests, invoices, sent quotes, active prices | import, decide, requote, invoice, issue, approve, cancel | quotes answered one by one, documents stored apart, old invoices approved late | invoices name what was quoted; one active price |
| Commercial enquiries (`db/commercial-workflow.ts`, `db/commercial-costing.ts`, `db/enquiry-revisions.ts`, `db/quotation-versions.ts`, `db/commercial-revisions.ts`) | lines with review, design, costing and revision stages, open clarifications, quotes, ECN, revision requests, quotation versions | add, review, clarify, design, cost, quote, revise, change terms, send | six departments write fields of one line in transactions of their own, in any order; terms change under a revision of other lines | what is sent is priced at the present terms and design; stages, ECN and request agree; nobody waits for an answer nobody owes |
| Recruitment (`db/recruitment.ts`, migrations 0038-0236) | posts, combined roles, replacements, history, jobs, applications | assign, upload, combine, interview, appoint, replace | several codes for one rule; a leaver, a successor and a candidate for one post | roles filled as one; history follows; a reservation is kept |
| Quality, maintenance requests, access, masters | rows with a status each | approve, reject, schedule, grant | races of two approvers; the last administrator | statuses only follow their graph |

How they interact. A mutation queues its refresh job in its own transaction
and commits both or neither. `NOTIFY` tells the worker process, whose sweep
would find the job anyway. The worker builds from one `REPEATABLE READ`
snapshot and publishes head, watermark and outbox event in the same
transaction. Delivery of the event happens later and outside of it. Uploads
become artifacts when an artifact transaction binds them. Production sessions
and maintenance share the machine: a breakdown opens and settles downtime in
the session it stops. Setups on the floor occupy Store units, so a repair or a move
asks whether the floor can spare the tool. Departments hand an enquiry on by the
fields of its lines; what Sales sends in the end are quotes, and a sent quote moves the active price
that order lines are matched with, and an approved invoice moves it again.

`PROJECT.json` lists all components with what is and is not modelled, and under
`hazards` every place of this code that is hard to test.

## 2. The modules

| Module | Models |
|---|---|
| `RefreshQueue` | `queueDashboardRefresh`, `requestRefresh`, `runRefreshOnce`, statement by statement where another transaction can come between |
| `DashboardFreshness` | the abstract promise of the pipeline, which `RefreshQueue` implements |
| `RefreshQueue_proofs` | theorems about `RefreshQueue` |
| `MCRefreshQueue` | finite instances of `RefreshQueue` |
| `Outbox`, `Worker_proofs` | `flushOutboxOnce`, `publishInvalidation` |
| `WorkerProcess`, `MCWorkerProcess`, `Worker_proofs` | one process: sweep, listener, batch, shutdown |
| `PendingUploads`, `Artifacts_proofs` | the life of one upload with several handlers |
| `ArtifactStore`, `MCArtifactStore`, `Artifacts_proofs` | `storeSet`, `delete` |
| `SessionTimeline`, `SessionTimeline_proofs` | when sessions, downtime and breakdowns happen |
| `SessionOutput`, `MCSessionOutput`, `ShopFloor_proofs` | how many pieces sessions made |
| `StoreUnits`, `MCStoreUnits`, `ShopFloor_proofs` | where a serialized unit is, who accounts for it, what holds it |
| `Recruitment`, `MCRecruitment`, `Recruitment_proofs` | who holds a post and who is to follow |
| `Enquiries`, `MCEnquiries`, `Enquiries_proofs` | from the lines of an enquiry to the quotation that is sent, and its revisions |
| `PurchaseOrders`, `MCPurchaseOrders`, `PurchaseOrders_proofs` | from imported lines to the approved invoice |

Two components that meet in the code share a module of proofs: the worker process
and the outbox it flushes, an upload and the artifact it becomes, the sessions of
the shop floor and the units they work with. `WorkerProcess`, `ArtifactStore` and
`SessionOutput` therefore carry their component in the names that every module has:
`WorkerSpec` is to `WorkerProcess` what `Spec` is to `Outbox`, and likewise
`ArtifactInit` or `OutputNext`.

A definition `Name_Variant` beside a definition `Name` is a plausible bug in
the code that `Name` models. No specification uses it: it documents what the
properties protect against, since replacing `Name` by it violates the property
that `PROJECT.json` pairs with it.

### RefreshQueue

A mutation's transaction is `new`, `open`, then `committed` or `aborted`
(`tx`); `uses` is the job it locked or inserted. `job`, `head` and `outbox` are
committed tables; a transaction's writes appear in its commit step. Row locks
are not a variable: a row is locked by an open mutation that uses it or by the
worker that claimed it.

The snapshot of a worker is what decides whether a refresh can be lost, so it
is modelled closely: `seen` and `rows` are the mutations and the eligible jobs
the snapshot shows, `changed` and `moved` are the job rows and watermarks
committed since. `FOR UPDATE SKIP LOCKED` skips what is locked *now*, and fails
with a serialization error (40001) on a row whose newest version is not in the
snapshot; that is why coalescing updates the row it joins although no column
changes (`SET idempotency_key = job.idempotency_key`): the variant
`Touched_OnlyInserts` drops that update and loses a refresh.

`Coalesce`/`InsertJob` are the two outcomes of `queueDashboardRefresh`.
`Begin`, `Claim`, `ClaimConflict`, `ClaimNone`, `LockOrg`, `LockOrgBusy`,
`Publish` and `FailAttempt` are `runRefreshOnce` in order. `Crash` loses the
connection. The integration test of the worker expects two competing calls to
end `idle` and `processed`; that is the outcome `ClaimNone` or `LockOrgBusy`
when the first transaction is still open. When it has just committed the second
call ends in `ClaimConflict` instead, and its caller's next call finds the
queue as it is.

### Outbox

One organization; event `v > 0` announces version `v`, event `0` is a refresh
request without a version. `lease` abstracts `locked_at` to null, recent and
older than five minutes. The claim is one transaction. `BeginSync` and
`CommitSync` are the two ends of the movement-wait sync: it reads the newest
head, and two syncs may overlap, the one that read the older head committing
last. `SetVersion` and `Announce` are the other awaits of the delivery;
`MarkPublished` and `FailDelivery` name only the event, as in the code, so a
worker that lost its lease still marks or releases. A crash leaves the lease
behind. An event without a version has nothing to sync and nothing to cache.

### WorkerProcess

One action per stretch of code between two awaits that matter. `batch` is the
shared `activeBatch` promise, `active` and `pending` are the listener's
coalescing flags, `session` its connection, `sweep` the safety loop,
`stopCalls` the calls of `listener.stop()`. A client that could not connect is
`"failing"` until it is ended, which SIGTERM still counts as connecting. A sweep
probes (`SweepProbes`, `SweepFindsOutbox`) and then starts a batch
(`SweepStarts`); SIGTERM may come in between, and the batch starts all the same. A job here is an eligible row and
its rebuild a single step, since `RefreshQueue` has the details.

### PendingUploads

Uploads meet only in their own row and object, so one upload is modelled, with
handlers that are either requests or clean-up commands. A handler holding the
row lock still makes several provider calls; a crash between them rolls back
the row and not the provider. A consumer reads its binding back under the lock
(`ConsumeReadsBack`), deletes the object under none and locks again to save.
Chunks travel: `inflight` chunks may arrive
after the handler gave up on them. The provider (`ChunkArrives`,
`SessionVanishes`, the object's generation) is modelled from how
`web/lib/google-cloud-artifact-provider.ts` uses it. Bytes are counted in
chunks; the content is good, invalid or of the wrong size from the start.

### ArtifactStore

A logical artifact is an idempotency key with its target, purpose and content.
Artifacts of equal content share a `file_objects` row and an object.
`storeSet` takes the target's lock, then each content's lock in the order of
its items; `delete` reads the content, takes its lock, deletes the object
if this was the last live reference, and commits. `deletion_failed` is written
by a statement after the rollback. `severed` remembers objects the provider
deleted without a commit that says so; it is not state of the program, it lets
`LiveIsDeliverable` state exactly when bytes can be missing.

### SessionTimeline and SessionOutput

Every operation on sessions is one transaction that holds the machine's
advisory lock, the work order or the session row, so it is one step. What is
hard here is not interleaving but history: users enter times late, and each
operation checks only part of what it could break. Times are small numbers,
`Forever` is a missing end. `SessionTimeline` has every operation on sessions,
downtime, breakdowns and setups that decides *when*; `SessionOutput` has the
part of start, close and correction that decides *how many*, with the counter
reading that one session hands to the next. Both guards and effects that
follow from a call (a close as *Item Complete* completes the setup, *Shift
Ends* settles the downtime of a breakdown, a breakdown opens downtime in the
session it stops) belong to the action of that call.

### StoreUnits

A unit is `store.assets` with its open breakdown: owner (the accountable
store), place, status. `order` is the unit's one open repair or calibration
order, `visit` what each calibration timetable has in progress, `request` the
open requests with the units they reserve, `sets` the gauge sets, `setups` the
number of active setups that occupy a unit of this Asset Code. Each operation
is one transaction on locked rows, so one action; what is hard is that a repair
(`PrepareRepair`, `IssueRepair`, `CompleteRepair`) and a calibration
(`OpenVisit`, `PrepareDispatch`, `IssueServiceOrder`, `Dispatch`, `ReturnVisit`,
`CompleteVisit`) take several, and any other operation may come between. The
action names are those of the functions of `db/store.ts`,
`db/department-stores.ts` and `db/store-calibration.ts`, shortened.

### Recruitment

A post has a status, a person and the appointed application. `roles` are
combined roles, `replacement` the pending replacement of a post, `serving` the
open history rows that the trigger of migration 0173 keeps: every action that
writes a post goes through `Update`, which applies that trigger and the one
that protects a pending replacement. `BulkAssign` is one row of an upload by
CSV or by workbook, which have their own rules. `ReadForJob` and `CreateJob`
are `createJobFromPost`, whose question is answered before it has the post's
lock.

### Enquiries

`line` is a row of `sales.enquiry_items` with its design task and its open
clarification tasks: `review`, `design`, `next` (`next_stage_status`), `started`
(the audit event that locks the line), `product`, `asked`, `stage`
(`revision_stage`) and `recost` are written by Sales, Technical, Design, Product
Costing, Customer Costing and the ECN. `quotes` are the line's root quotes, oldest
first; a quote remembers the version of the terms (`terms`) and the released design
(`rev`) it was computed from, which is all of a price that the properties need.
`request`, `draft` and `ecn` are the open revision, the newest quotation version and
the line's engineering change note.

Each operation is one transaction under row locks, so one action. The actions of
the first pass go forward by themselves; those that go back or come out of turn
(a correction, a question, a rejection, a revision) take one of the steps in
`left`, which bounds how far a behaviour may stray. Operations whose code checks
less than one would expect are modelled as they are: `SaveQuote` looks neither at
the review nor at the design, `UpdateProductCost` asks for the product only.
`RequestRevision`, `SaveTerms`, `UpdateTerms` and `Send` read all lines of the
enquiry. `missed` is not state of the program: it remembers quoted lines that were
*Cannot Quote* when the terms changed. Statuses are written without their blanks
(`"PendingDesign"` for *Pending Design*), since the prover's SMT translation takes no
string with a blank.

### PurchaseOrders

Prices are small numbers; a quote prices one part code and its tree of items.
`line` holds what an order line was matched with, `request` its open request
for a new quote, `invoice` the proforma invoice of the order, `issued` the
orders whose documents are stored. `active` are the active prices and `ordered`,
`converted` what an approval left behind (the part code's P, the converted
items). `StoreIssuedSet` and `MarkProformaInvoiceSent` are two transactions, and
so are `SendQuote`, `ListResolvable` and each `ResolveRequest`; `AbandonList` is
the server action that stops between them.

## 3. What the runs show

| Run | Question |
|---|---|
| `refresh_queue` | Can a mutation or a forced rebuild be lost, a head go back? Does the queue implement `DashboardFreshness`? Is every committed mutation served, or its job visibly failed? |
| `outbox` | Can an event be marked before its waits are synced, its version cached and its message sent? Can the cache go back? Is every event delivered in the end? |
| `worker_process` | Can a hint be absorbed with nobody to serve it, a job never be taken, shutdown hang or close the pool under a batch? |
| `pending_uploads` | Can clean-up leave an object behind, one upload become two artifacts, unvalidated bytes be kept, a resume offset run ahead of the provider? Is every upload cleaned up? |
| `artifacts_safety` | Can a live artifact lose its bytes or its row, a current version not be the latest, a deleted artifact return? |
| `timeline_safety` | Can closed sessions of a machine overlap? Does downtime stay inside its session, and does a breakdown stop the session it hits and settle its downtime? |
| `output_safety` | Do pieces balance, do entries agree with sessions, do carried readings stay equal? |
| `store_units` | Can a unit be usable under an unresolved hold? Can its place, owner and order disagree so that no operation accepts it any more? Is a reserved unit transferred, issued to somebody else or moved by its department, a lost unit touched, a gauge of a set lost, a tool of a running setup moved off the floor? |
| `recruitment` | Can a command part the members of a combined role that are filled as one, history miss an employee, a reservation be lost, an acceptance rest on a withdrawn approval? |
| `enquiries` | Can a quotation go out with a price from old terms or an old design? Can a revision stage, its ECN, its request and the recosting flag contradict each other, or a design wait for an answer nobody owes? |
| `purchase_orders` | Can an order and its invoice disagree, a line carry a price nobody quoted, a part code have two active prices or none? |

One run is a refutation, a statement of the repository that the code does not
keep:

- `recruitment_cleared`. Did Not Join clears the post that is kept for the
  candidate (`docs/glossary/recruitment.md`). An upload gives a candidate's post
  to somebody else and leaves the application named on it
  (`db/recruitment.ts:4323`); Did Not Join trusts that reference and clears the
  other person's appointment.

### Bounds

| Module | Bounds | Why they suffice |
|---|---|---|
| `RefreshQueue` | 2 mutations (one of them forced), 2 workers, 1 organization, 3 attempts, 2 lost connections | a job and a mutation that coalesces onto it or follows it; two workers race for a claim and for a publication; failures that retry and one that gives up. Its safety properties are proved without bounds, several organizations included |
| `Outbox` | 3 workers, 2 versions and a request, 1 fault, 1 expired lease per event | a late worker, the one that took over, and a third that claims what the late one released; two versions delivered in either order |
| `WorkerProcess` | 3 jobs, batches of 2, 2 failures (`MaxFailures`) | a batch at its limit with a job left, a fault during recovery from a fault. Its safety properties are proved without bounds |
| `PendingUploads` | 2 handlers, 2 targets, 2 chunks, 2 faults | two requests, or one and a clean-up, with a late chunk as the third party; a partial upload; a fault during the retry after a fault. Its safety properties are proved without bounds |
| `ArtifactStore` | 3 clients, 4 artifacts, 2 contents, 2 targets, 1 provider deletion that no commit records | a store, a deletion and another store of the same bytes; two versions on one target; a set of two items. The properties are proved without bounds |
| `SessionTimeline` | 2 sessions, 1 downtime, 1 breakdown, 1 setup, 3 instants | a downtime relates to one session and at most one breakdown, and the second session is the one entered before, after or around the first. A session late in a gap between two others needs a third one, which the proof covers: the properties of this run are proved without bounds |
| `SessionOutput` | 3 sessions in 3 slots, 2 setups, counts to 2, rejections to 2, weights to 4 | predecessor, session and successor; a weight that is no whole number of pieces. The properties are proved without bounds |
| `StoreUnits` | 1 unit with 5 things opened (breakdown, lifecycle change, repair, visit, request or set), 2 units with 3, or 3 with 2; 2 timetables of the first unit, 2 requests, 1 setup | most hazards are one unit under two or three procedures at once, two timetables included; a gauge set takes two units and a replacement a third. The properties are proved without bounds |
| `Recruitment` | 3 posts, 2 people with one application each to one job, 1 interview round; 3 commands on employees and roles after the interviews, or 1 before them | a combined role of two posts and a third to join it; a leaver and a successor; two candidates for one job. A role cleared in part takes four posts and six commands (see section 4): the properties are proved without bounds |
| `Enquiries` | 2 lines; 2 steps back from the first line on, 3 once both are costed | a revision of one line, a change of terms that concerns both, and one step of another department in between; the lines are alike, so symmetry is used. The properties are proved without bounds: any number of lines, quotes, revisions and steps back |
| `PurchaseOrders` | 2 orders of 2 and 1 lines, 2 quotes of different price for 1 part code | a price superseded while one order is invoiced and another waits for a quote. The properties are proved without bounds |

Symmetry is used only in runs without liveness properties. `CHECK_DEADLOCK
FALSE` stands where the model may stop: all events published, a closed process,
an upload that is cleaned up, a quotation that was sent, an order that is
approved, a unit that is lost.

### Fairness

- `RefreshQueue`: each worker keeps calling `runRefreshOnce` and each call ends
  (the sweep loop never stops polling); an open mutation ends, since its
  transaction commits or aborts when its request ends or its connection closes;
  `run_after` passes. Nothing obliges a mutation to
  start or a connection to break.
- `Outbox`: each worker keeps flushing, leases age, `available_at` passes.
  Faults are bounded, which is the assumption that Redis and PostgreSQL are
  back eventually.
- `WorkerProcess`: timers fire and promises settle, separately for the
  listener, the batch, the sweep and each step of shutdown. Commits, faults
  and SIGTERM are free.
- `PendingUploads`: uploads expire, the clean-up command is run again and
  again, and a handler that began ends. Browsers need not do anything.

## 4. What is proved

All theorems hold for every value of the constants that satisfies the named
assumption of the component's module, which TLC evaluates on each of its runs:
any number of workers, mutations, organizations, versions, faults, handlers,
jobs, clients, artifacts, sessions, units, posts, people, enquiry lines, orders and
quotes. An
assumption says that distinguished values are not elements (`None \notin
Clients`, `NoPost \notin Posts`), that numbers are numbers, that data the
schema fixes has its shape (`CandidateOf`, `UnitOf`, the purposes that one
call of `storeSet` replaces), and, where a proof counts, that a table has
finitely many rows (`IsFiniteSet(Units)`, `IsFiniteSet(Posts)`,
`IsFiniteSet(Artifacts)`).

Each module proves `Init => IInv` and, one lemma per action, that a step keeps
`IInv`; `Invariance` puts them together, and the other theorems follow from it
and, for action properties, from one more look at each action. TLC checked
every `IInv` on the run of its component before it was proved.

### The refresh queue (`RefreshQueue_proofs`)

`Invariance` shows `Spec => []IInv`. None of the properties is inductive alone;
`IInv` adds to them what makes a claim safe:

- `UsesOK`, `RowOK`: every open or committed mutation stands for an existing
  job of its own organization, and a job exists once its inserter committed;
- `AttemptsLeft`: a pending job has attempts left;
- `ClaimOK`: a claimed row is pending, is as the snapshot shows it, and is
  locked by nobody else;
- `SnapshotOK`: for each row the worker could still lock, its snapshot shows
  every committed mutation the row stands for, and everything a head shows
  whose watermark has not moved. This is the heart of the argument: a mutation
  that coalesces onto a row after the snapshot makes a new version of it, so
  the row is no longer one the worker can lock;
- `HeadOK`: heads show committed mutations of their organization only.

From it follow `TypeCorrect` and `RefreshNotLost`, forced rebuilds included;
`HeadMonotone` (a publication whose watermark did not move shows at least what
the head shows); `VersionsAnnounced`, which is inductive on its own and holds
because one transaction writes version, head and event, so no run checks it; and
`FreshnessRefined`, that the queue implements `DashboardFreshness`: a commit
maps to `Commit`, a publication to `Show`, a last failed attempt to `GiveUp`
and everything else to a stutter.

### The outbox (`Worker_proofs`)

`Invariance` shows `Spec => []IInv` with `EventOK` (a delivering worker has an
event), `StoredOK` (claimed and stored events have a published version),
`DeliveryOK` (how far a delivery has come tells what the waits, the cache and
the channel have seen) and `BehindHead`. Since the sync and the version script
only go forward, `DeliveryOK` survives any other worker's steps, whoever holds
the lease. `DeliveredFirst` (announced, cached and synced before it is marked)
and `CacheMonotone` follow.

### The worker process (`Worker_proofs`)

`WorkerInvariance` shows `WorkerSpec => []WorkerIInv`. The properties are about a batch
and a hint; what makes them hold is who awaits whom:

- `JoinedOK`: the session awaits a reconciliation exactly from `LISTEN` to the first
  one and, once ready, whenever one is active. This is what lets the failure of a
  batch close the session that asked for it, and so excuse a hint left `pending`;
- `BatchOwned`: a batch is awaited by the reconciliation loop or by the sweep;
- `StopOK`, `ClosedOK`: `stop()` is called once by SIGTERM and once by the `finally`
  block, after the sweep loop has ended; if only the second call was made, the pool is
  closed after the reconciliation ended.

`HintsServed` is part of `WorkerIInv`. `CloseAfterBatch` follows from `BatchOwned` and
`ClosedOK`: a batch under a closed pool would have to belong to the reconciliation, so
`stop()` was called twice, which is the case the property names.

### Pending uploads (`Artifacts_proofs`)

Handlers read the row, let go of it, call the provider and come back, so each
property needs what a handler *already did* when it is about to write:

- `LockOK`: who holds the row is exactly the handler that is between a locked
  read and its commit, so at most one handler has sent a chunk or discards;
- `HandlerOK`: a discard that is about to commit has deleted the object and
  terminated the session first; a consumer that stores or binds has read the
  generation of a validated object, and one that deletes it has read back that the
  row is finalized;
- `AbsentOK`, `StoreOK`, `RowOK`: a row without a session has none at the provider
  that could still make an object, and an object is there only with all its bytes;
- `PromisesKept`: a row that says the bytes are there, *or is about to be told so
  by a finished session*, has them, unless a discard is about to commit or a fault
  came between provider and commit. `ReadyKeepsItsBytes` is not inductive without
  that look ahead.

`CleanedIsGone`, `BoundOnce` and `BytesStay` follow, with late chunks and faults
at any point.

### The artifact store (`Artifacts_proofs`)

A store and a deletion decide under an advisory lock and write at commit. The
invariant says that what they found still holds then:

- `StoringOK`: a store holds the lock of its target, and the item it works on was
  never recorded;
- `FreshOK`: what it has taken up is not recorded, is under its fingerprint lock and
  has its bytes, *in the provider or in `severed`*;
- `DeleteOK`: a deletion that removed the object holds the fingerprint lock and
  there is still no other live reference;
- `PhysicalOK`: a row in use has its bytes or is being deleted, a live artifact has a
  row in use, and an artifact that was ever recorded has a row, which is what keeps
  `DeleteMarks`, an update without any lock, from inventing one;
- `VersionsOK`: versions do not exceed the number of recorded artifacts, so
  `TypeOK` holds without a bound of its own.

`OthersKept` is the non-interference lemma: what a caller relies on survives every
step of another one that keeps the caller's locks, records nothing under its target
lock, revives nothing and removes no bytes under its fingerprint locks. `BytesStep`
applies it to all steps but `StoreCommits`, `DeleteRemoves` and `DeleteCommits`. A store
that reuses a row under a free lock cannot meet a deletion in progress, since that one
would hold the lock (`BytesUnderLock`). `LiveDelivered` and `LatestIsCurrent` follow;
the latter needs the items of one call to replace disjoint purposes, and versions that
grow past every rival (`NextVersionBounds`). `DeletedStaysDeleted` follows because a
commit records only artifacts whose key was never used.

### The session timeline (`SessionTimeline_proofs`)

`Invariance` shows `Spec => []IInv`, where `IInv` adds to the properties of the
run only `LinksOK`: downtime belongs to an existing session and breakdown, and
the machine has at most one open session. `MovedSession` is the argument for
`SessionsDisjoint`: whichever operation gives a session another interval asks
`TimeFree`, and the symmetric property follows although the question is asked
from the side of the moved session alone. `EndedSession` serves the close and
all corrections: downtime they touch belongs to that session, and to no
breakdown or to one in progress, so completed breakdowns stay settled and other
stopped sessions stay stopped. `TypeCorrect`, `SessionsNeverOverlap`,
`DowntimeStaysInside`, `BreakdownsStop` and `RepairsSettle` follow. The proof
uses the guards on intervals only: it holds whatever the calendar, tooling or
material rules refuse in addition.

### The output of sessions (`ShopFloor_proofs`)

`OutputIInv` adds to `OutputBalances`, row by row (`Balanced`), that counters were read
when they had to be and do not run backwards (`Read`), and that a reading is carried from
an earlier session (`CarriedFromEarlier`) which is closed, counted, of the same setup, and
ends where its successor starts (`LinkOK`). Balance alone is not inductive: a rejection
takes its pieces from the total that was stored at the close, a corrected start count
computes the total anew from the end count, and only `Read` says that it is one. A link
survives because a carried end count is refused another value and a corrected start count
drops its link; that the predecessor is counted keeps the close by weight away from it.
`EveryPieceAccounted` and `CarriedReadings` follow, and `OutputTypeCorrect` says that no
number of pieces becomes negative.

### Enquiries (`Enquiries_proofs`)

`IInv` relates the fields of a line, its quotes and its ECN line by line (`LineOK`) and
the open request to all lines together (`RequestOK`):

- `RootOK`: only lines that are there have quotes, and only quoted lines were revised;
- `StageOK`: what each revision stage says of the record, the quotes, the ECN and the
  request. To `RevisionStages` it adds what a stage was entered with: a line that waits
  for Sales has all the quotes it had then, one of them ready or sent, so the Terms
  revision that copies them has something to copy;
- `WaitsOK`: `WaitersAreAsked`, line by line;
- `QuotesOK`, for a line whose quotes are for one product (`Uniform`): a draft is the
  newest current quote (`DraftLast`) and, unless the line is being costed again, was
  begun before anything was ready (`DraftAlone`); whatever is ready, and whatever was
  sent last, is at the present terms and design, unless the line is being costed again or
  missed a change of the terms (`AtTerms`); a line ready to send has a ready quote newest
  (`NewestReady`).

`AtTerms` is why `SentAtCurrentTerms` holds: no operation that changes the terms or
releases a design leaves a quoted line without the recosting flag, and none clears the
flag without a price at the present ones. `DraftAlone` keeps the quote that a Terms revision
copies from landing behind a draft, which `DraftLast` would not survive. Quotes of a line
that was matched with another product obey none of this, which is one of the departures
of section 5; the proof has to carry `Uniform` through every change of the quotes.

`StagesAgree` and `WaitersAsked` follow from `IInv`. `PricedAtTerms` is an action
property: only `Send` makes a quote the active price, and what it leaves of each line is
read off `QuotesOK` before the step. The newest of a set of quotes is a maximum; that a
bounded set of numbers has one is `Greatest`, proved from the well-foundedness of `<`.

### Purchase orders (`PurchaseOrders_proofs`)

The three properties of the run are inductive together with the types
(`IInv`), and none of them alone. That an approved order's part codes are P
(`OrdersAgree`) needs the invoice to be the one that was sent; that lines are
priced as quoted (`NothingUnquoted`) needs a resolved request to name an active
quote, so a sent one; that one price is active (`OneActivePrice`) needs the
quotes of an invoice to have been sent when an old invoice is approved. The
approval is the long case: it re-activates the invoiced prices part code by
part code, the last line of a code winning, which is why line numbers are
integers of which every set has a last (`ConstantsAssumption`).

### Store units (`ShopFloor_proofs`)

`UnitAgrees(u)` gathers what the rows of one unit must agree on: `ReleasedOK`
(`UsableIsReleased` for it), `CustodyOK` (`CustodyAgrees`), `OrderOK` and `VisitOK`
(`OrderHasItsVisit` seen from the order and from each timetable) and `LostOK`. The
strengthening is in three places: only a calibration order names a timetable and no
order is issued that does not exist; an in-house visit has no order; and a lost unit
has neither an order nor a visit, without which a return or a completion could bring
it back. `IInv` asks this of every unit, with `TypeOK` and `SetsAreWhole`. All
operations but the handover of a batch and the move of a gauge set change one unit,
so most lemmas show `UnitAgrees` for that unit and leave the others alone; the two
exceptions are argued unit by unit. `ReleasedForUse`, `ServiceCompletes`, `WholeSets`,
`LostStaysLost`, `ReservationsKept` and `ToolsStayed` follow. `ReservationsKept` is as
narrow as the code: it speaks of transfers, of other requests and of the movements of
the department that owns the unit, and not of what Main Store does with a unit it has
reserved (section 5). That a set whose gauge is replaced is
again a pair is a matter of counting (`PairAfter`), which is where
`IsFiniteSet(Units)` is used.

### Recruitment (`Recruitment_proofs`)

`IInv` has `PostOK` (a post without a person is vacant), `RolesOK` (a post is in one
role at most, and a role has two posts), `HistoryOK` (the open history rows of a post
fit its record: the trigger reads the old record, so this is what `Update` keeps),
`ApplicationOK` (a round is held only before all are approved, without which an
acceptance could rest on a round held later), `LeaverOK` (a replacement waits for
somebody else) and `CandidateOK`: a candidate's reservation covers the post of the
candidate's own job and is the same on it. Without it Did Not Join of another
application might open the job again. From it follow `HistoryMatches`,
`AcceptanceHolds`, `ReservationsHold` and `RolesStayTogether`.

That the members of a role are always filled alike is **not** an invariant, although
the run's three posts and three commands do not show it. With posts p1 to p4:
combine p1 and p2; accept candidate a on p1, which names a's application on both; change the role to p1 and p4;
upload *Joined* for p2 and then *Removed*, which keep the application on it
(`db/recruitment.ts:4323`); combine p2 with p3 and appoint somebody to the role. When
a does not join, p2 is cleared and p3 is not. `MembersStayTogether` therefore says
that a role is filled as one when it is made and that no step parts it but this one
(`ClearedInPart`), which is the defect of `recruitment_cleared` met on a role. The
attempt to prove the invariant found it.

### Only model-checked

Liveness (`EventuallyServed`, `EventuallyPublished`, `EventuallyTaken`,
`EventuallyCloses`, `EventuallyCleaned`) rests on fairness and on which actions are
enabled, which is outside the prover's reach, so it is checked on the instances of the
runs only; `ClearsOnlyItsOwn` of `recruitment_cleared` is false. Every other property of
a run, invariant, action property or refinement, is a theorem.

## 5. What is abstracted or not modelled

- PostgreSQL is modelled by the rules the statements rely on: snapshots, row
  and advisory locks, atomic commits. The order in which a query returns
  candidates is any order.
- The build of a read model is the set of mutations its snapshot shows. The
  projection itself (`db/dashboard-read-model.ts`,
  `db/legacy-dashboard-analysis.ts`) is a large pure function of that snapshot
  that unit tests cover.
- `Outbox` says when the movement waits are synced and from which head, not
  which rows two overlapping syncs write.
- `WorkerProcess`: `CloseAwaitsBatch` excludes the case of SIGTERM while the
  listener is connecting. Then the first `stop()` awaits the batch, but the
  second one, which the shutdown waits for, does not, so the pool may be closed
  under a batch; the transaction of the rebuild rolls back and its job stays
  queued.
- `PendingUploads`: several uploads that compete for the limited clean-up list
  are not modelled.
- `PendingUploads`: `ReadyKeepsItsBytes` lets a fault between the provider's deletion
  and the commit leave a row without its object, whichever fault it was, so it says
  little of crashes; those are the matter of `EventuallyCleaned`.
- `ArtifactStore`: drawing revisions that refuse a deletion are a free refusal
  (`DeleteEnds`); the copy between providers is not modelled. `StoreCommits` reads the
  highest version of each item and inserts it in one step with the commit: `storeSet`
  holds the lock of the target from before that read, so two stores of one target
  never interleave there.
- Shop floor: raw material and tooling, production cards, legacy entries,
  dispatch approval, efficiency flags, the shift calendar, the limit an earlier
  setup's output puts on a later one, `restoreParallelShopFloorState`,
  `reverseProductionEntry` (which nothing calls) and `completeBreakdownTask`.
  The guards among them only refuse more.
- `StoreUnits`: all units are of one Asset Code; racks of a store are one place;
  a repair order over several units is one order per unit; a closed order, visit
  or request is forgotten; quantities of consumables are another module. A
  department is `"FLOOR"`, so a unit that replaces one in repair always goes there. A
  unit scrapped on a machine keeps its place: the code clears the machine and keeps
  the holder, so were it set *Under Maintenance* again and released without a
  movement, the tooling count would miss a unit that the model counts.
- `Recruitment`: adding and deleting posts, revised dates and terms, probation,
  letters, templates, candidate records and events. Assigned, Interview and Hold
  are one status. `ChangeRole` reads the other occupied post of the role together
  with the rest, the code without that post's lock (`db/recruitment.ts:978`).
- `Enquiries`: no purchase order yet; linked duplicate lines, quotes revised for an
  order, bulk price revisions, children of packages, imports, files and follow-ups
  are left out. Each line has a product of its own, so an ECN concerns one line of
  the enquiry; active prices of other enquiries are the flag `others`.
  For the same reason `UpdateProductCost` updates one line, where the code updates
  every line with the item. `SaveDesign` leaves out the *Pending Design* result of
  other portfolio statuses and the new number of an own part that replaces a match;
  `Send` leaves out sending a *Sent* quote again because its PDF was not stored.
  `SentAtCurrentTerms` leaves out lines whose quotes are for different products
  (`OneProduct`) and lines in `missed`: see the departures.
- `PurchaseOrders`: one customer; lines match by Customer Part Code only, not by
  item UID or alias; attached files, reports and the proposals of order
  acceptance. The quotes it sends are those `Enquiries` makes ready. `ReviseQuote` is
  one step, though `createRevisedQuote` takes no lock on the active prices and leaves
  a race to the unique index, which refuses one of the two. All rows of an import are
  matched with one reading of the prices, the code reads them per row. `issued` never
  shrinks: deleting the documents of an issued invoice is not modelled. Quotes without
  a part code, which `IS NOT DISTINCT FROM` would supersede together
  (`db/commercial-orders.ts:668`), do not occur, since lines match by part code.
- Components with status *not_modelled* in `PROJECT.json` have the reason
  there: pure arithmetic, single-row updates, I/O, or planned below.

### Known departures

Places where the code, read closely, does something a reader of its documents or
of a neighbouring function would not expect. The models contain them; the
properties are stated so that they hold with them, and say what still holds.

Store units
- A unit of Main Store that an exact request reserves can still be moved to a
  department, a machine or a vendor (`db/store.ts` `moveAsset`, 6059), lost and
  scrapped, although migration 0208 says that an open exact-unit request
  holds its unit until fulfilment or cancellation. `department-stores.ts`
  `moveAsset` does refuse a reserved unit. `ReservedIsNotGivenAway` states what holds
  with this; nothing here claims that a reserved unit of Main Store stays.
- A request that reassigns a repaired unit may point at a unit outside Main
  (`db/store.ts:1507-1531`), which `issueRequisition` (984-1024) then refuses,
  although `docs/glossary/store.md:349-351` describes the issue. An exact use
  request for a unit outside Main can likewise never be issued or transferred,
  only cancelled.
- Setting a unit's lifecycle to *Scrapped* while it is at a repair supplier
  leaves a purchase order that cannot be completed.
- Completing a breakdown during an open calibration visit leaves the unit *Under
  Maintenance* after the visit is cancelled. `completeAssetMaintenance` is called
  by tests only.

Recruitment
- Of several upload rows for one post the last one counts.
- `updateInterviewRound` revives an application that was withdrawn.
- A workbook row *Resigned* on a candidate's appointed post drops the
  reservation while the application stays accepted.
- `updateCombinedRole` (`db/recruitment.ts:3109`) may add a vacant post to a role
  whose leaver has a replacement pending; the new post is not reserved with it
  (`docs/glossary/recruitment.md:176`, `:207`).
- An application that an upload left on a post follows it into another combined
  role, of which Did Not Join then clears that one post (section 4).

Enquiries
- A line that is *Cannot Quote* when the terms change is not costed again
  (`db/commercial-workflow.ts:2703`). Made Feasible afterwards, it is sent at the
  price of the old terms; without `missed`, TLC finds `SentAtCurrentTerms` violated.
- When a design is reopened and matched with another product, quotes of the former
  product stay Ready and can be sent.
- `updateProductCostParameters` (`db/commercial-costing.ts:2674`) resets the next
  stage of every line with the product, quoted ones included, and completes product
  costing while the design still has *Changes Required*.
- A *Terms* revision of a quotation that was ready but never sent copies its quotes
  and leaves the old ones Ready, so that one of them can be sent by name.
- Answering a clarification of a line whose work has started
  (`completeSalesClarification`) resolves the question and leaves the review at *Need
  Clarification*; `updateTechnicalReview` never asks whether work has started.

Purchase orders
- Lines can be imported and decided after the invoice is drafted, and
  `generateProformaInvoice` then returns the draft as it is. The issued document
  is built from the order's live lines (`getPurchaseOrderWithClient`, 394-472),
  not from `proforma_invoice_lines`.
- Answering a request rewrites the line of an order that is already closed, and
  requests of a cancelled order stay Open.
- A line that is *Quote Required* is never matched again: its order can only be
  cancelled.
- Approving an old invoice activates a price that a newer quote had superseded.
- When the action that answers requests stops, the rest of its list waits until
  the quote is sent again.
- An engineering change that revises an inactive quote stays *Pending*
  (`db/commercial-revisions.ts:6775-6919`).

Elsewhere
- `startProductionSessionDowntime` (`db/production-shop-floor.ts:2225`) compares a
  late start with open downtime only, so it may fall inside a downtime that ended,
  against the message at 2081; both durations are taken from the runtime.
- Two overlapping movement-wait syncs run under READ COMMITTED
  (`db/material-movement-waits.ts:70`): when the one with the older head commits
  last it inserts waits again that the newer one had closed. They are wrong until
  the next publication (`docs/glossary/job-cards.md:366-384`).
- `completeProductionSessionSetup` (`db/production-shop-floor.ts:1241`) looks only
  for a *later* session, so correcting the latest session to *Item Complete*
  finishes a setup on which a backdated session is open, against the message at
  6027.
- A session's predecessor is chosen when it is entered (1860) and never again, so
  a session entered late between two linked ones carries the same counter reading
  (`docs/glossary/production-sessions.md:444`).
- `delete` removes an artifact's bytes before its transaction commits
  (`db/artifacts.ts:850`). If that commit is lost, the physical row still says
  *available* and later stores reuse it without an upload
  (`docs/glossary/artifacts.md:47-48`).

## 6. Plan

Next modules, in this order; each is checked before anything is proved of it.

1. `MovementWaits`: two overlapping syncs over the rows of
   `material_movement_waits`, composed with the head versions of `Outbox`;
   abstractly, the waits of some published head.
2. `Enquiries` extended: lines linked as duplicates, quotes revised for a purchase
   order and bulk price revisions, composed with `PurchaseOrders`, and an abstract
   quotation (asked, priced, sent) that it implements.
3. `StoreStock`: receipts, issues, returns, losses and reversals of consumables;
   balances against movements under concurrent issues.
4. `FloorSegments`: partial and full rebuilds and the pruning of segments that
   a reader of the old head still needs.
5. `PlannerPool`: threads that fail or time out, the queue and shutdown, refining
   a pool that answers each request exactly once.
6. `MaintenanceRequests` and access administration: approvals that race, the last
   administrator.

Each of them comes with its theorems: balances of `StoreStock` and the order of
`PlannerPool` against its abstract pool first, since both count over sets that no run
can make large. Of the present modules, no safety property is left to prove.

## 7. Running the checks

```
tlc -workers 2 -config RefreshQueue.cfg MCRefreshQueue
tlapm RefreshQueue_proofs.tla
```

`PROJECT.json` names the module and configuration of each run, maps each
definition to the lines it stands for, and pairs each property with a variant
of the code that violates it.
