------------------------------- MODULE Outbox -------------------------------
(***************************************************************************)
(* The transactional outbox: derived.outbox_events rows are written with  *)
(* the change they announce and delivered afterwards by flushOutboxOnce   *)
(* (packages/runtime/src/durable-refresh-worker.ts) to material-movement  *)
(* waits and to Redis (redis-acceleration.ts).                            *)
(*                                                                        *)
(* One organization.  Event v \in 1 .. MaxVersion announces read-model    *)
(* version v; event 0 is a dashboard.refresh.requested event, which has   *)
(* no version.  A worker claims an event in one transaction, delivers it  *)
(* outside any transaction and then marks it with a statement that names  *)
(* only the event: neither the mark nor the release checks the lease.     *)
(* attempts, locked_by and last_error are only reported, and left out.    *)
(*                                                                        *)
(* A definition Name_Variant is a plausible bug in the code that Name      *)
(* models; the specification does not use it.                             *)
(***************************************************************************)
EXTENDS Naturals, FiniteSets

CONSTANTS Workers,      \* concurrent flushOutboxOnce callers
          MaxVersion,   \* bound on read-model versions
          MaxFaults,    \* bound on delivery errors and worker crashes
          MaxExpiries,  \* bound on leases that outlive five minutes
          NoEvent

ASSUME ConstantsAssumption ==
    /\ MaxVersion \in Nat \ {0}
    /\ MaxFaults \in Nat
    /\ MaxExpiries \in Nat
    /\ NoEvent \notin 0 .. MaxVersion

VARIABLES row,       \* derived.outbox_events
          worker,    \* program counter and event of each flushOutboxOnce
          head,      \* newest published read-model version
          synced,    \* newest head that a movement-wait sync has committed
          cached,    \* mrm:dashboard:version in Redis
          announced, \* events published on mrm:invalidations, ever
          faults, expiries

vars == <<row, worker, head, synced, cached, announced, faults, expiries>>

Events == 0 .. MaxVersion

Versioned(e) == e # 0

Row == [state : {"absent", "unpublished", "published"},
        lease : {"free", "held", "stale"},  \* locked_at: null, recent, old
        due : BOOLEAN]                      \* available_at <= now()

InFlight == {"claimed", "syncing", "synced", "cached", "announced"}

TypeOK ==
    /\ row \in [Events -> Row]
    /\ worker \in [Workers -> [pc : InFlight \union {"idle"},
                               event : Events \union {NoEvent},
                               seen : 0 .. MaxVersion]]  \* head its open sync read
    /\ head \in 0 .. MaxVersion
    /\ synced \in 0 .. MaxVersion
    /\ cached \in 0 .. MaxVersion
    /\ announced \subseteq Events
    /\ faults \in 0 .. MaxFaults
    /\ expiries \in [Events -> 0 .. MaxExpiries]

Idle == [pc |-> "idle", event |-> NoEvent, seen |-> 0]

NewRow == [state |-> "unpublished", lease |-> "free", due |-> TRUE]

Init ==
    /\ row = [e \in Events |-> IF Versioned(e)
                               THEN [NewRow EXCEPT !.state = "absent"]
                               ELSE NewRow]
    /\ worker = [w \in Workers |-> Idle]
    /\ head = 0
    /\ synced = 0
    /\ cached = 0
    /\ announced = {}
    /\ faults = 0
    /\ expiries = [e \in Events |-> 0]

------------------------------------------------------------------------------
\* A rebuild publishes the next version and stores its event with it.
PublishReadModel ==
    /\ head < MaxVersion
    /\ head' = head + 1
    /\ row' = [row EXCEPT ![head + 1] = NewRow]
    /\ UNCHANGED <<worker, synced, cached, announced, faults, expiries>>

Claimable_NeverReclaims(e) ==
    row[e].state = "unpublished" /\ row[e].due /\ row[e].lease = "free"

\* The WHERE clause of the claim query.
Claimable(e) ==
    /\ row[e].state = "unpublished"
    /\ row[e].due
    /\ row[e].lease # "held"

\* An event without a version has only its announcement to deliver.
Claim(w, e) ==
    /\ worker[w].pc = "idle"
    /\ Claimable(e)
    /\ row' = [row EXCEPT ![e].lease = "held"]
    /\ worker' = [worker EXCEPT ![w] =
          [pc |-> IF Versioned(e) THEN "claimed" ELSE "cached",
           event |-> e, seen |-> 0]]
    /\ UNCHANGED <<head, synced, cached, announced, faults, expiries>>

\* syncMaterialMovementWaits reads the newest head, not the version of the
\* event that runs it.
BeginSync(w) ==
    /\ worker[w].pc = "claimed"
    /\ worker' = [worker EXCEPT ![w].pc = "syncing", ![w].seen = head]
    /\ UNCHANGED <<row, head, synced, cached, announced, faults, expiries>>

\* Its transaction commits.  Two syncs may overlap: one that read an older head
\* may be the last to commit.
CommitSync(w) ==
    /\ worker[w].pc = "syncing"
    /\ synced' = IF worker[w].seen > synced THEN worker[w].seen ELSE synced
    /\ worker' = [worker EXCEPT ![w].pc = "synced", ![w].seen = 0]
    /\ UNCHANGED <<row, head, cached, announced, faults, expiries>>

MonotonicVersion_Blind(incoming) == incoming

\* MONOTONIC_VERSION_SCRIPT
MonotonicVersion(incoming) == IF incoming > cached THEN incoming ELSE cached

\* publishInvalidation: the version script first,
SetVersion(w) ==
    /\ worker[w].pc = "synced"
    /\ cached' = MonotonicVersion(worker[w].event)
    /\ worker' = [worker EXCEPT ![w].pc = "cached"]
    /\ UNCHANGED <<row, head, synced, announced, faults, expiries>>

\* then the message.
Announce(w) ==
    /\ worker[w].pc = "cached"
    /\ announced' = announced \union {worker[w].event}
    /\ worker' = [worker EXCEPT ![w].pc = "announced"]
    /\ UNCHANGED <<row, head, synced, cached, faults, expiries>>

ReadyToMark_Early(w) == worker[w].pc \in {"synced", "announced"}

ReadyToMark(w) == worker[w].pc = "announced"

\* published_at = now(), locked_at = NULL WHERE id = event.id
MarkPublished(w) ==
    /\ ReadyToMark(w)
    /\ row' = [row EXCEPT ![worker[w].event].state = "published",
                          ![worker[w].event].lease = "free"]
    /\ worker' = [worker EXCEPT ![w] = Idle]
    /\ UNCHANGED <<head, synced, cached, announced, faults, expiries>>

\* available_at = now() + retryDelayMs, locked_at = NULL
RetryLater(r) == [r EXCEPT !.due = FALSE, !.lease = "free"]

\* The sync, Redis or the mark throws: release the event for a later try,
\* whoever holds its lease by now.
FailDelivery(w) ==
    /\ worker[w].pc \in InFlight
    /\ faults < MaxFaults
    /\ faults' = faults + 1
    /\ row' = [row EXCEPT ![worker[w].event] = RetryLater(@)]
    /\ worker' = [worker EXCEPT ![w] = Idle]
    /\ UNCHANGED <<head, synced, cached, announced, expiries>>

\* The process dies, or the release itself throws: the lease stays behind.
Crash(w) ==
    /\ worker[w].pc \in InFlight
    /\ faults < MaxFaults
    /\ faults' = faults + 1
    /\ worker' = [worker EXCEPT ![w] = Idle]
    /\ UNCHANGED <<row, head, synced, cached, announced, expiries>>

\* Five minutes pass since the claim, whether or not its worker is alive.
LeaseExpires(e) ==
    /\ row[e].lease = "held"
    /\ expiries[e] < MaxExpiries
    /\ expiries' = [expiries EXCEPT ![e] = @ + 1]
    /\ row' = [row EXCEPT ![e].lease = "stale"]
    /\ UNCHANGED <<worker, head, synced, cached, announced, faults>>

RetryDue(e) ==
    /\ ~row[e].due
    /\ row' = [row EXCEPT ![e].due = TRUE]
    /\ UNCHANGED <<worker, head, synced, cached, announced, faults, expiries>>

------------------------------------------------------------------------------
FlushOutboxOnce(w) ==
    \/ \E e \in Events : Claim(w, e)
    \/ BeginSync(w)
    \/ CommitSync(w)
    \/ SetVersion(w)
    \/ Announce(w)
    \/ MarkPublished(w)

Next ==
    \/ PublishReadModel
    \/ \E w \in Workers : FlushOutboxOnce(w) \/ FailDelivery(w) \/ Crash(w)
    \/ \E e \in Events : LeaseExpires(e) \/ RetryDue(e)

\* A sweep keeps flushing and every delivery ends; leases age and retry delays
\* pass.  Rebuilds, errors and crashes may or may not happen.
Fairness ==
    /\ \A w \in Workers : WF_vars(FlushOutboxOnce(w))
    /\ \A e \in Events : WF_vars(LeaseExpires(e)) /\ WF_vars(RetryDue(e))

Spec == Init /\ [][Next]_vars

FairSpec == Spec /\ Fairness

------------------------------------------------------------------------------
\* An event is marked published only after it was announced on the channel
\* and the cached version caught up with it: crashes, expired leases and the
\* unchecked release may repeat a delivery but never skip one.
DeliveredBeforePublished ==
    \A e \in Events : row[e].state = "published" =>
        e \in announced /\ (Versioned(e) => cached >= e)

\* When a version is marked published, movement waits have been computed from a
\* head at least as new, because the sync runs before the event is marked.
SyncedBeforePublished ==
    \A e \in Events : row[e].state = "published" /\ Versioned(e) => synced >= e

\* Nothing is marked before everything its delivery owes has happened.
PublishedIsDelivered == DeliveredBeforePublished /\ SyncedBeforePublished

\* Readers are never told of a version that is not yet in the read model, and
\* a slow worker that delivers an old event does not turn the cache back.
CacheNeverRegresses == [][cached' >= cached /\ cached' <= head]_vars

\* Every stored event is eventually published.
EventuallyPublished ==
    \A e \in Events :
        row[e].state = "unpublished" ~> row[e].state = "published"
=============================================================================
