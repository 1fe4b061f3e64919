---------------------------- MODULE RefreshQueue ----------------------------
(***************************************************************************)
(* The durable dashboard refresh queue.  A transaction that changes       *)
(* dashboard source data queues a refresh job inside itself               *)
(* (packages/db/src/dashboard-refresh-queue.ts); workers claim jobs,      *)
(* rebuild the organization's read model from one REPEATABLE READ         *)
(* snapshot and publish it (packages/runtime/src/durable-refresh-         *)
(* worker.ts, runRefreshOnce).                                            *)
(*                                                                        *)
(* PostgreSQL is modelled by what these statements rely on.  A variable   *)
(* holds the committed version of its table; an open transaction's writes *)
(* take effect in its commit step.  Row locks are derived from the open   *)
(* transactions.  A worker's snapshot remembers what it shows (seen,      *)
(* rows) and which rows were committed anew since (changed, moved): to    *)
(* lock one of those is a serialization failure.                          *)
(*                                                                        *)
(* A mutation transaction queues at most one job and a job is inserted by *)
(* one mutation, so the job it inserts is named by the mutation.  The     *)
(* ORDER BY of the two claim queries is abstracted to any order.          *)
(*                                                                        *)
(* A definition Name_Variant is a plausible bug in the code that Name      *)
(* models; the specification does not use it.                             *)
(***************************************************************************)
EXTENDS Naturals, FiniteSets

CONSTANTS Mutations,    \* transactions that call queueDashboardRefresh
          Workers,      \* runRefreshOnce callers, one connection each
          Orgs,
          OrgOf,        \* the organization of each mutation
          Forced,       \* the mutations that are requestRefresh({force: true})
          MaxAttempts,  \* maxAttempts of createDurableRefreshWorker
          MaxCrashes,   \* bound on lost worker connections
          NoJob

ASSUME ConstantsAssumption ==
    /\ OrgOf \in [Mutations -> Orgs]
    /\ Forced \subseteq Mutations
    /\ MaxAttempts \in Nat \ {0}
    /\ MaxCrashes \in Nat
    /\ NoJob \notin Mutations

VARIABLES tx,       \* life of each mutation transaction
          uses,     \* the job row a mutation has locked or inserted
          job,      \* derived.refresh_jobs, committed
          worker,   \* the transaction of each worker
          head,     \* read-model head and refresh watermark per organization
          outbox,   \* derived.outbox_events ever inserted, by topic:
                    \* refresh.requested per job, read_model.updated per version
          crashes

vars == <<tx, uses, job, worker, head, outbox, crashes>>

------------------------------------------------------------------------------
NoRow == [status |-> "none", attempts |-> 0, due |-> FALSE, force |-> FALSE]

Row == [status : {"none", "pending", "complete", "failed"},
        attempts : 0 .. MaxAttempts, due : BOOLEAN, force : BOOLEAN]

Idle == [pc |-> "idle", job |-> NoJob, seen |-> {}, rows |-> {},
         changed |-> {}, moved |-> {}]

WorkerTx == [pc : {"idle", "snapshot", "claimed", "building"},
             job : Mutations \union {NoJob},
             seen : SUBSET Mutations,     \* mutations the snapshot shows
             rows : SUBSET Mutations,     \* eligible job rows it shows
             changed : SUBSET Mutations,  \* job rows committed since
             moved : SUBSET Orgs]         \* watermarks committed since

Head == [version : Nat, seen : SUBSET Mutations,
         full : SUBSET Mutations]         \* seen by the last full rebuild

TypeOK ==
    /\ tx \in [Mutations -> {"new", "open", "committed", "aborted"}]
    /\ uses \in [Mutations -> Mutations \union {NoJob}]
    /\ job \in [Mutations -> Row]
    /\ worker \in [Workers -> WorkerTx]
    /\ head \in [Orgs -> Head]
    /\ outbox \in [requested : SUBSET Mutations, updated : SUBSET (Orgs \X Nat)]
    /\ crashes \in 0 .. MaxCrashes

Init ==
    /\ tx = [m \in Mutations |-> "new"]
    /\ uses = [m \in Mutations |-> NoJob]
    /\ job = [m \in Mutations |-> NoRow]
    /\ worker = [w \in Workers |-> Idle]
    /\ head = [o \in Orgs |-> [version |-> 0, seen |-> {}, full |-> {}]]
    /\ outbox = [requested |-> {}, updated |-> {}]
    /\ crashes = 0

------------------------------------------------------------------------------
Committed == {m \in Mutations : tx[m] = "committed"}

\* The row lock on job j is held by an open mutation or by a worker.
Locked(j) ==
    \/ \E m \in Mutations : tx[m] = "open" /\ uses[m] = j
    \/ \E w \in Workers : worker[w].job = j

PendingFor_AnyStatus(m) ==
    {j \in Mutations : job[j].status # "none" /\ OrgOf[j] = OrgOf[m]}

\* The committed pending jobs of m's organization.
PendingFor(m) ==
    {j \in Mutations : job[j].status = "pending" /\ OrgOf[j] = OrgOf[m]}

\* Every open snapshot is now older than the job rows js and the watermarks
\* of the organizations os.
Outdate(js, os) ==
    [w \in Workers |->
        IF worker[w].pc = "idle" THEN worker[w]
        ELSE [worker[w] EXCEPT !.changed = @ \union js, !.moved = @ \union os]]

------------------------------------------------------------------------------
(* The mutator: queueDashboardRefresh inside the mutation's transaction.  *)

\* FOR UPDATE SKIP LOCKED finds an unlocked pending job: lock and touch it.
Coalesce(m, j) ==
    /\ tx[m] = "new"
    /\ j \in PendingFor(m)
    /\ ~Locked(j)
    /\ tx' = [tx EXCEPT ![m] = "open"]
    /\ uses' = [uses EXCEPT ![m] = j]
    /\ UNCHANGED <<job, worker, head, outbox, crashes>>

\* Every pending job is locked: insert a successor.
InsertJob(m) ==
    /\ tx[m] = "new"
    /\ \A j \in PendingFor(m) : Locked(j)
    /\ tx' = [tx EXCEPT ![m] = "open"]
    /\ uses' = [uses EXCEPT ![m] = m]
    /\ UNCHANGED <<job, worker, head, outbox, crashes>>

\* The job row the transaction of m leaves behind when it commits.
QueuedRow(m) ==
    IF uses[m] = m
    THEN [status |-> "pending", attempts |-> 0, due |-> TRUE,
          force |-> m \in Forced]
    ELSE [job[uses[m]] EXCEPT !.force = @ \/ m \in Forced]

Touched_OnlyInserts(m) == {uses[m]} \intersect {m}

\* The job rows of which m's commit makes a new version.  Coalescing touches
\* its row for this: SET idempotency_key = job.idempotency_key.
Touched(m) == {uses[m]}

CommitMutation(m) ==
    /\ tx[m] = "open"
    /\ tx' = [tx EXCEPT ![m] = "committed"]
    /\ job' = [job EXCEPT ![uses[m]] = QueuedRow(m)]
    /\ worker' = Outdate(Touched(m), {})
    /\ outbox' = [outbox EXCEPT !.requested = @ \union ({uses[m]} \intersect {m})]
    /\ UNCHANGED <<uses, head, crashes>>

AbortMutation(m) ==
    /\ tx[m] = "open"
    /\ tx' = [tx EXCEPT ![m] = "aborted"]
    /\ uses' = [uses EXCEPT ![m] = NoJob]
    /\ UNCHANGED <<job, worker, head, outbox, crashes>>

------------------------------------------------------------------------------
(* The worker: runRefreshOnce.                                            *)

\* BEGIN REPEATABLE READ, and the snapshot of the claim query.
Begin(w) ==
    /\ worker[w].pc = "idle"
    /\ worker' = [worker EXCEPT ![w] =
          [Idle EXCEPT !.pc = "snapshot",
                       !.seen = Committed,
                       !.rows = {j \in Mutations : /\ job[j].status = "pending"
                                                   /\ job[j].due}]]
    /\ UNCHANGED <<tx, uses, job, head, outbox, crashes>>

\* The claim query locks the row of job j, which is as the snapshot shows it.
Claim(w, j) ==
    /\ worker[w].pc = "snapshot"
    /\ j \in worker[w].rows \ worker[w].changed
    /\ ~Locked(j)
    /\ worker' = [worker EXCEPT ![w].pc = "claimed", ![w].job = j]
    /\ UNCHANGED <<tx, uses, job, head, outbox, crashes>>

\* The row has a version newer than the snapshot: 40001, ROLLBACK, throw.
ClaimConflict(w) ==
    /\ worker[w].pc = "snapshot"
    /\ worker[w].rows \intersect worker[w].changed # {}
    /\ worker' = [worker EXCEPT ![w] = Idle]
    /\ UNCHANGED <<tx, uses, job, head, outbox, crashes>>

\* Every row was skipped as locked: COMMIT, "idle".
ClaimNone(w) ==
    /\ worker[w].pc = "snapshot"
    /\ \A j \in worker[w].rows : j \notin worker[w].changed /\ Locked(j)
    /\ worker' = [worker EXCEPT ![w] = Idle]
    /\ UNCHANGED <<tx, uses, job, head, outbox, crashes>>

\* pg_try_advisory_xact_lock on the organization: some other worker holds it.
OrgBusy(w) ==
    \E v \in Workers \ {w} : /\ worker[v].pc = "building"
                             /\ OrgOf[worker[v].job] = OrgOf[worker[w].job]

LockOrg(w) ==
    /\ worker[w].pc = "claimed"
    /\ ~OrgBusy(w)
    /\ worker' = [worker EXCEPT ![w].pc = "building"]
    /\ UNCHANGED <<tx, uses, job, head, outbox, crashes>>

LockOrgBusy(w) ==
    /\ worker[w].pc = "claimed"
    /\ OrgBusy(w)
    /\ worker' = [worker EXCEPT ![w] = Idle]
    /\ UNCHANGED <<tx, uses, job, head, outbox, crashes>>

WatermarkCurrent_Unlocked(w) == TRUE

\* The watermark row can be locked: it is as old as the snapshot.
WatermarkCurrent(w) == OrgOf[worker[w].job] \notin worker[w].moved

\* The head a build from w's snapshot publishes over h.
Published(w, o, h) ==
    LET seen == {m \in worker[w].seen : OrgOf[m] = o}
    IN  [version |-> h.version + 1, seen |-> seen,
         full |-> IF job[worker[w].job].force THEN seen ELSE h.full]

\* Build, next version, read model, watermark, event, job complete, COMMIT.
Publish(w) ==
    LET j == worker[w].job
        o == OrgOf[j]
    IN  /\ worker[w].pc = "building"
        /\ WatermarkCurrent(w)
        /\ head' = [head EXCEPT ![o] = Published(w, o, head[o])]
        /\ outbox' = [outbox EXCEPT
              !.updated = @ \union {<<o, head[o].version + 1>>}]
        /\ job' = [job EXCEPT ![j].status = "complete", ![j].attempts = @ + 1]
        /\ worker' = [Outdate({j}, {o}) EXCEPT ![w] = Idle]
        /\ UNCHANGED <<tx, uses, crashes>>

RetryRow_Completes(r) ==
    [r EXCEPT !.status = IF r.attempts + 1 >= MaxAttempts
                         THEN "complete" ELSE "pending",
              !.attempts = @ + 1,
              !.due = FALSE]

\* The job row after a failed attempt.
RetryRow(r) ==
    [r EXCEPT !.status = IF r.attempts + 1 >= MaxAttempts
                         THEN "failed" ELSE "pending",
              !.attempts = @ + 1,
              !.due = FALSE]

\* The build or the publication throws (always, if the watermark moved):
\* ROLLBACK TO SAVEPOINT, retry later or give up, COMMIT.
FailAttempt(w) ==
    LET j == worker[w].job
    IN  /\ worker[w].pc = "building"
        /\ job' = [job EXCEPT ![j] = RetryRow(@)]
        /\ worker' = [Outdate({j}, {}) EXCEPT ![w] = Idle]
        /\ UNCHANGED <<tx, uses, head, outbox, crashes>>

\* The connection is lost: the whole transaction rolls back.
Crash(w) ==
    /\ worker[w].pc # "idle"
    /\ crashes < MaxCrashes
    /\ crashes' = crashes + 1
    /\ worker' = [worker EXCEPT ![w] = Idle]
    /\ UNCHANGED <<tx, uses, job, head, outbox>>

\* run_after of a retried job passes.
RetryDue(j) ==
    /\ job[j].status = "pending"
    /\ ~job[j].due
    /\ job' = [job EXCEPT ![j].due = TRUE]
    /\ UNCHANGED <<tx, uses, worker, head, outbox, crashes>>

------------------------------------------------------------------------------
Mutate(m) ==
    \/ \E j \in Mutations : Coalesce(m, j)
    \/ InsertJob(m)
    \/ CommitMutation(m)
    \/ AbortMutation(m)

RunRefreshOnce(w) ==
    \/ Begin(w)
    \/ \E j \in Mutations : Claim(w, j)
    \/ ClaimConflict(w)
    \/ ClaimNone(w)
    \/ LockOrg(w)
    \/ LockOrgBusy(w)
    \/ Publish(w)
    \/ FailAttempt(w)

Next ==
    \/ \E m \in Mutations : Mutate(m)
    \/ \E w \in Workers : RunRefreshOnce(w) \/ Crash(w)
    \/ \E j \in Mutations : RetryDue(j)

\* A worker's sweep keeps calling runRefreshOnce and each call ends; an open
\* mutation transaction commits or aborts; retry delays pass.  Nothing obliges
\* a mutation to start or a connection to be lost.
Fairness ==
    /\ \A w \in Workers : WF_vars(RunRefreshOnce(w))
    /\ \A m \in Mutations : WF_vars(CommitMutation(m) \/ AbortMutation(m))
    /\ \A j \in Mutations : WF_vars(RetryDue(j))

Spec == Init /\ [][Next]_vars

FairSpec == Spec /\ Fairness

------------------------------------------------------------------------------
(* What the queue promises.                                               *)

\* A committed mutation is in the published head, or its refresh job is still
\* queued or has visibly failed: coalescing onto a job that a worker is about
\* to claim never loses a mutation (dashboard-refresh-queue.ts:9-11).
NoLostRefresh ==
    \A m \in Committed :
        \/ m \in head[OrgOf[m]].seen
        \/ job[uses[m]].status \in {"pending", "failed"}

\* A committed forced request has been answered by a full rebuild, or its job
\* failed, or the job still carries force_full: a retry, a crash or a later
\* coalesced mutation does not drop the flag.
ForceNotLost ==
    \A m \in Committed \intersect Forced :
        \/ m \in head[OrgOf[m]].full
        \/ job[uses[m]].status = "failed"
        \/ job[uses[m]].status = "pending" /\ job[uses[m]].force

\* Neither the mutation nor its demand for a full rebuild is lost.
RefreshesOwed == NoLostRefresh /\ ForceNotLost

\* The read-model updates announced in the outbox are exactly the versions
\* published so far, without gaps: no rolled-back attempt leaves an event and
\* no two publications share a version.
AnnouncedVersions ==
    outbox.updated = UNION {{o} \X (1 .. head[o].version) : o \in Orgs}

\* No publication withdraws a mutation that an earlier one showed: an older
\* snapshot never overwrites a newer read model, and versions are consecutive.
HeadNeverRegresses ==
    [][\A o \in Orgs :
          \/ head'[o] = head[o]
          \/ /\ head[o].seen \subseteq head'[o].seen
             /\ head'[o].version = head[o].version + 1]_vars

------------------------------------------------------------------------------
\* The promise of module DashboardFreshness: what is owed is what no head
\* shows and a pending job still stands for.
Owed == {m \in Committed : /\ m \notin head[OrgOf[m]].seen
                           /\ job[uses[m]].status = "pending"}

Freshness == INSTANCE DashboardFreshness
    WITH committed <- Committed,
         view <- [o \in Orgs |-> head[o].seen],
         owed <- Owed

\* The queue implements the abstract freshness specification: jobs, row locks,
\* snapshots, retries and crashes show readers nothing else.
ImplementsFreshness == Freshness!Spec

\* Every committed mutation is eventually published, or its job fails.
EventuallyServed ==
    \A m \in Mutations :
        tx[m] = "committed" ~>
            \/ m \in head[OrgOf[m]].seen
            \/ uses[m] # NoJob /\ job[uses[m]].status = "failed"
=============================================================================
