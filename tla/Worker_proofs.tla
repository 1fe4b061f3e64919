---------------------------- MODULE Worker_proofs ----------------------------
(***************************************************************************)
(* Safety of the worker's two concurrent parts.  First, outbox delivery   *)
(* for any number of workers, versions, faults and expired leases         *)
(* (module Outbox).  Then one worker process (module WorkerProcess) for   *)
(* any set of jobs, batch size and number of failures.                     *)
(***************************************************************************)
EXTENDS Outbox, WorkerProcess, TLAPS

------------------------------------------------------------------------------
(* Outbox delivery.                                                       *)

\* A worker holds an event exactly while it delivers one.
EventOK ==
    \A w \in Workers : worker[w].pc \in InFlight => worker[w].event \in Events

\* Only stored events are claimed, and an event is stored with its version.
StoredOK ==
    /\ \A e \in Events : row[e].state # "absent" => e <= head
    /\ \A w \in Workers :
          worker[w].pc \in InFlight => row[worker[w].event].state # "absent"

\* How far a delivery has come says what has already happened.
DeliveryOK ==
    \A w \in Workers :
        /\ worker[w].pc = "syncing"
              => worker[w].event <= worker[w].seen /\ worker[w].seen <= head
        /\ worker[w].pc \in {"synced", "cached", "announced"}
              => worker[w].event <= synced
        /\ worker[w].pc \in {"cached", "announced"} => worker[w].event <= cached
        /\ worker[w].pc = "announced" => worker[w].event \in announced

\* Neither the waits nor the cache are ahead of the read model.
BehindHead == synced <= head /\ cached <= head

IInv ==
    /\ TypeOK
    /\ EventOK
    /\ StoredOK
    /\ DeliveryOK
    /\ BehindHead
    /\ DeliveredBeforePublished
    /\ SyncedBeforePublished

------------------------------------------------------------------------------
\* Before the first publication nothing has been delivered.
LEMMA InitIInv == Init => IInv
<1> SUFFICES ASSUME Init PROVE IInv
  OBVIOUS
<1> USE ConstantsAssumption DEF Init, Events, NewRow, Versioned
<1>1. TypeOK
  <2>1. row \in [Events -> Row]
    BY DEF Row
  <2> QED BY <2>1 DEF TypeOK, InFlight, Idle
<1>2. EventOK /\ DeliveryOK
  BY DEF EventOK, DeliveryOK, InFlight, Idle
<1>3. StoredOK
  <2>1. \A e \in Events : row[e].state # "absent" => e = 0
    OBVIOUS
  <2> QED BY <2>1 DEF StoredOK, InFlight, Idle
<1>4. BehindHead
  BY DEF BehindHead
<1>5. DeliveredBeforePublished /\ SyncedBeforePublished
  <2>1. \A e \in Events : row[e].state # "published"
    OBVIOUS
  <2> QED BY <2>1 DEF DeliveredBeforePublished, SyncedBeforePublished
<1> QED BY <1>1, <1>2, <1>3, <1>4, <1>5 DEF IInv

\* A publication stores its event in the same step.
LEMMA PublishStep ==
    ASSUME IInv, PublishReadModel
    PROVE  IInv'
<1> USE ConstantsAssumption DEF IInv, PublishReadModel, Events, NewRow
<1>1. TypeOK'
  BY DEF TypeOK, Row, InFlight
<1>2. EventOK'
  BY DEF EventOK
<1>3. StoredOK'
  BY DEF StoredOK, EventOK, TypeOK, Row
<1>4. DeliveryOK' /\ BehindHead'
  BY DEF DeliveryOK, BehindHead, TypeOK
<1>5. DeliveredBeforePublished'
  BY DEF DeliveredBeforePublished, Versioned, TypeOK, Row
<1>6. SyncedBeforePublished'
  BY DEF SyncedBeforePublished, Versioned, TypeOK, Row
<1> QED BY <1>1, <1>2, <1>3, <1>4, <1>5, <1>6

\* A claim changes only a lease.
LEMMA ClaimStep ==
    ASSUME NEW w \in Workers, NEW e \in Events, IInv, Claim(w, e)
    PROVE  IInv'
<1> USE ConstantsAssumption DEF IInv, Claim, Claimable, Events, Idle
<1>1. TypeOK'
  <2>1. row' \in [Events -> Row]
    BY DEF TypeOK, Row
  <2>2. worker' \in [Workers -> [pc : InFlight \union {"idle"},
                               event : Events \union {NoEvent},
                               seen : 0 .. MaxVersion]]
    <3> DEFINE next == IF e # 0 THEN "claimed" ELSE "cached"
    <3>1. worker' = [worker EXCEPT ![w] = [pc |-> next, event |-> e, seen |-> 0]]
      BY DEF Versioned
    <3>2. next \in InFlight /\ 0 \in 0 .. MaxVersion
      BY DEF InFlight
    <3> HIDE DEF next
    <3> QED BY <3>1, <3>2 DEF TypeOK
  <2> QED BY <2>1, <2>2 DEF TypeOK
<1>2. EventOK'
  BY DEF EventOK, InFlight, TypeOK
<1>3. StoredOK'
  BY DEF StoredOK, EventOK, InFlight, TypeOK, Row
<1>4. DeliveryOK' /\ BehindHead'
  <2>1. \A v \in Workers : v # w => worker'[v] = worker[v]
    BY DEF TypeOK
  <2>2. worker'[w].pc = "claimed" \/ (worker'[w].pc = "cached" /\ worker'[w].event = 0)
    BY DEF TypeOK, Versioned
  <2>3. synced >= 0 /\ cached >= 0
    BY DEF TypeOK
  <2> QED BY <2>1, <2>2, <2>3 DEF DeliveryOK, BehindHead, InFlight
<1>5. DeliveredBeforePublished'
  BY DEF DeliveredBeforePublished, Versioned, TypeOK, Row
<1>6. SyncedBeforePublished'
  BY DEF SyncedBeforePublished, Versioned, TypeOK, Row
<1> QED BY <1>1, <1>2, <1>3, <1>4, <1>5, <1>6

\* A sync reads the newest head, which the event's version does not exceed; an
\* event without a version needs none.
LEMMA BeginSyncStep ==
    ASSUME NEW w \in Workers, IInv, BeginSync(w)
    PROVE  IInv'
<1> USE ConstantsAssumption DEF IInv, BeginSync, Events, Versioned, InFlight
<1>1. TypeOK'
  <2>1. [worker[w] EXCEPT !.pc = "syncing", !.seen = head] \in
          [pc : InFlight \union {"idle"}, event : Events \union {NoEvent},
           seen : 0 .. MaxVersion]
    BY DEF TypeOK
  <2>2. worker' = [worker EXCEPT ![w] =
                     [worker[w] EXCEPT !.pc = "syncing", !.seen = head]]
    BY DEF TypeOK
  <2>3. worker' \in [Workers -> [pc : InFlight \union {"idle"},
                               event : Events \union {NoEvent},
                               seen : 0 .. MaxVersion]]
    BY <2>1, <2>2 DEF TypeOK
  <2> QED BY <2>3 DEF TypeOK
<1>2. EventOK' /\ StoredOK'
  BY DEF EventOK, StoredOK, TypeOK
<1>3. worker[w].event \in 0 .. MaxVersion /\ worker[w].event <= head /\ synced >= 0
  BY DEF EventOK, StoredOK, TypeOK
<1>4. DeliveryOK' /\ BehindHead'
  BY <1>3 DEF DeliveryOK, BehindHead, TypeOK
<1>5. DeliveredBeforePublished' /\ SyncedBeforePublished'
  BY DEF DeliveredBeforePublished, SyncedBeforePublished
<1> QED BY <1>1, <1>2, <1>4, <1>5

\* The newest committed sync has read a head as new as any event's.
LEMMA CommitSyncStep ==
    ASSUME NEW w \in Workers, IInv, CommitSync(w)
    PROVE  IInv'
<1> USE ConstantsAssumption DEF IInv, CommitSync, Events, Versioned, InFlight
<1>1. TypeOK'
  <2>1. worker[w].seen \in 0 .. MaxVersion /\ 0 \in 0 .. MaxVersion
    BY DEF TypeOK
  <2>2. synced' \in 0 .. MaxVersion
    BY <2>1 DEF TypeOK
  <2>3. [worker[w] EXCEPT !.pc = "synced", !.seen = 0] \in
          [pc : InFlight \union {"idle"}, event : Events \union {NoEvent},
           seen : 0 .. MaxVersion]
    BY <2>1 DEF TypeOK
  <2>4. worker' = [worker EXCEPT ![w] =
                     [worker[w] EXCEPT !.pc = "synced", !.seen = 0]]
    BY DEF TypeOK
  <2>5. worker' \in [Workers -> [pc : InFlight \union {"idle"},
                               event : Events \union {NoEvent},
                               seen : 0 .. MaxVersion]]
    BY <2>3, <2>4 DEF TypeOK
  <2> QED BY <2>2, <2>5 DEF TypeOK
<1>2. EventOK' /\ StoredOK'
  BY DEF EventOK, StoredOK, TypeOK
<1>3. worker[w].event <= synced' /\ synced <= synced' /\ synced' <= head
  BY DEF EventOK, DeliveryOK, BehindHead, TypeOK
<1>4. DeliveryOK' /\ BehindHead'
  <2>1. \A v \in Workers : v # w => worker'[v] = worker[v]
    BY DEF TypeOK
  <2>2. worker'[w].pc = "synced" /\ worker'[w].event = worker[w].event
    BY DEF TypeOK
  <2>3. synced \in Nat /\ synced' \in Nat
    BY <1>1 DEF TypeOK
  <2>4. \A v \in Workers : worker[v].pc \in InFlight => worker[v].event \in Nat
    BY DEF EventOK
  <2>0. UNCHANGED <<head, cached, announced>>
    OBVIOUS
  <2> HIDE DEF CommitSync
  <2>5. ASSUME NEW v \in Workers, v # w
        PROVE  /\ worker'[v].pc = "syncing"
                     => worker'[v].event <= worker'[v].seen /\ worker'[v].seen <= head'
               /\ worker'[v].pc \in {"synced", "cached", "announced"}
                     => worker'[v].event <= synced'
               /\ worker'[v].pc \in {"cached", "announced"} => worker'[v].event <= cached'
               /\ worker'[v].pc = "announced" => worker'[v].event \in announced'
    <3>1. worker'[v] = worker[v]
      BY <2>1, <2>5
    <3>2. /\ worker[v].pc = "syncing"
                => worker[v].event <= worker[v].seen /\ worker[v].seen <= head
          /\ worker[v].pc \in {"synced", "cached", "announced"} => worker[v].event <= synced
          /\ worker[v].pc \in {"cached", "announced"} => worker[v].event <= cached
          /\ worker[v].pc = "announced" => worker[v].event \in announced
      BY DEF DeliveryOK
    <3>3. worker[v].pc \in {"synced", "cached", "announced"} => worker[v].event <= synced'
      BY <1>3, <2>3, <2>4, <3>2
    <3> QED BY <2>0, <3>1, <3>2, <3>3
  <2>6. DeliveryOK'
    BY <1>3, <2>0, <2>2, <2>5 DEF DeliveryOK
  <2> QED BY <1>3, <2>0, <2>6 DEF BehindHead
<1>5. DeliveredBeforePublished'
  BY DEF DeliveredBeforePublished
<1>6. SyncedBeforePublished'
  BY <1>3 DEF SyncedBeforePublished, TypeOK
<1> QED BY <1>1, <1>2, <1>4, <1>5, <1>6

\* The version script keeps the greater of two versions.
LEMMA SetVersionStep ==
    ASSUME NEW w \in Workers, IInv, SetVersion(w)
    PROVE  IInv'
<1> USE ConstantsAssumption
    DEF IInv, SetVersion, MonotonicVersion, Events, Versioned, InFlight
<1>1. TypeOK'
  BY DEF TypeOK, EventOK
<1>2. EventOK' /\ StoredOK'
  BY DEF EventOK, StoredOK, TypeOK
<1>3. worker[w].event <= cached' /\ cached <= cached' /\ cached' <= head
  BY DEF EventOK, StoredOK, BehindHead, TypeOK
<1>4. DeliveryOK' /\ BehindHead'
  <2>1. BehindHead'
    BY <1>3 DEF BehindHead
  <2>2. cached \in Nat /\ cached' \in Nat
    BY <1>1 DEF TypeOK
  <2>3. /\ worker'[w] = [worker[w] EXCEPT !.pc = "cached"]
        /\ worker[w].pc = "synced" /\ worker'[w].event = worker[w].event
        /\ \A v \in Workers \ {w} : worker'[v] = worker[v]
    BY DEF TypeOK
  <2>4. ASSUME NEW v \in Workers, worker'[v].pc \in {"cached", "announced"}
        PROVE  worker'[v].event <= cached'
    <3>1. CASE v = w
      BY <1>3, <2>3, <3>1
    <3>2. CASE v # w
      <4>1. worker'[v] = worker[v]
        BY <2>3, <3>2
      <4>2. worker[v].event <= cached
        BY <2>4, <4>1 DEF DeliveryOK, EventOK, TypeOK
      <4>3. worker[v].event \in Nat
        BY <2>4, <4>1 DEF EventOK
      <4> QED BY <1>3, <2>2, <4>1, <4>2, <4>3
    <3> QED BY <3>1, <3>2
  <2>5. DeliveryOK'
    BY <1>3, <2>2, <2>3, <2>4 DEF DeliveryOK
  <2> QED BY <2>1, <2>5
<1>5. DeliveredBeforePublished'
  <2>1. cached \in Nat /\ cached' \in Nat
    BY <1>1 DEF TypeOK
  <2> QED BY <1>3, <2>1 DEF DeliveredBeforePublished
<1>6. SyncedBeforePublished'
  BY DEF SyncedBeforePublished
<1> QED BY <1>1, <1>2, <1>4, <1>5, <1>6

\* An announcement adds to what readers were told.
LEMMA AnnounceStep ==
    ASSUME NEW w \in Workers, IInv, Announce(w)
    PROVE  IInv'
<1> USE ConstantsAssumption DEF IInv, Announce, Events, InFlight
<1>1. TypeOK'
  BY DEF TypeOK, EventOK
<1>2. EventOK' /\ StoredOK'
  BY DEF EventOK, StoredOK, TypeOK
<1>3. DeliveryOK' /\ BehindHead'
  BY DEF DeliveryOK, BehindHead, TypeOK
<1>4. DeliveredBeforePublished' /\ SyncedBeforePublished'
  BY DEF DeliveredBeforePublished, SyncedBeforePublished
<1> QED BY <1>1, <1>2, <1>3, <1>4

\* Only a completed delivery is marked.
LEMMA MarkStep ==
    ASSUME NEW w \in Workers, IInv, MarkPublished(w)
    PROVE  IInv'
<1> USE ConstantsAssumption DEF IInv, MarkPublished, ReadyToMark, Events, InFlight, Idle
<1>1. TypeOK'
  <2>1. worker[w].event \in Events
    BY DEF EventOK
  <2>2. row[worker[w].event] \in Row
    BY <2>1 DEF TypeOK
  <2>3. [row[worker[w].event] EXCEPT !.state = "published", !.lease = "free"] \in Row
    BY <2>2 DEF Row
  <2>4. row' = [row EXCEPT ![worker[w].event] =
                  [row[worker[w].event] EXCEPT !.state = "published", !.lease = "free"]]
    BY <2>1 DEF TypeOK
  <2>5. row' \in [Events -> Row]
    BY <2>1, <2>3, <2>4 DEF TypeOK
  <2>6. worker' \in [Workers -> [pc : InFlight \union {"idle"},
                               event : Events \union {NoEvent},
                               seen : 0 .. MaxVersion]]
    BY DEF TypeOK, InFlight
  <2> QED BY <2>5, <2>6 DEF TypeOK
<1>2. EventOK' /\ StoredOK'
  BY DEF EventOK, StoredOK, TypeOK, Row
<1>3. DeliveryOK' /\ BehindHead'
  BY DEF DeliveryOK, BehindHead, TypeOK
<1>4. DeliveredBeforePublished'
  BY DEF DeliveredBeforePublished, DeliveryOK, EventOK, Versioned, TypeOK, Row
<1>5. SyncedBeforePublished'
  BY DEF SyncedBeforePublished, DeliveryOK, EventOK, Versioned, TypeOK, Row
<1> QED BY <1>1, <1>2, <1>3, <1>4, <1>5

\* Steps that change only leases, retry times, counters and idle workers: a
\* failed delivery, a crash, an expired lease, a retry that is due.
LEMMA LeaseStep ==
    ASSUME IInv,
           \A e \in Events : row'[e].state = row[e].state,
           \A w \in Workers : worker'[w] \in {worker[w], Idle},
           TypeOK', UNCHANGED <<head, synced, cached, announced>>
    PROVE  IInv'
<1> USE ConstantsAssumption DEF IInv, Events, InFlight, Idle
<1>0. ASSUME NEW w \in Workers, worker'[w].pc \in InFlight
      PROVE  worker'[w] = worker[w]
  BY <1>0
<1>1. EventOK' /\ StoredOK'
  <2>1. EventOK'
    BY <1>0 DEF EventOK
  <2>2. \A e \in Events : row'[e].state # "absent" => e <= head'
    BY DEF StoredOK
  <2>3. ASSUME NEW w \in Workers, worker'[w].pc \in InFlight
        PROVE  row'[worker'[w].event].state # "absent"
    <3>1. worker'[w] = worker[w] /\ worker[w].event \in Events
      BY <1>0, <2>3 DEF EventOK
    <3> QED BY <2>3, <3>1 DEF StoredOK
  <2> QED BY <2>1, <2>2, <2>3 DEF StoredOK
<1>2. DeliveryOK' /\ BehindHead'
  <2>1. DeliveryOK'
    BY <1>0 DEF DeliveryOK
  <2> QED BY <2>1 DEF BehindHead
<1>3. DeliveredBeforePublished' /\ SyncedBeforePublished'
  BY DEF DeliveredBeforePublished, SyncedBeforePublished
<1> QED BY <1>1, <1>2, <1>3

\* Every step preserves the inductive invariant.
LEMMA NextIInv == IInv /\ [Next]_vars => IInv'
<1> SUFFICES ASSUME IInv, [Next]_vars PROVE IInv'
  OBVIOUS
<1>1. CASE PublishReadModel
  BY <1>1, PublishStep
<1>2. ASSUME NEW w \in Workers, FlushOutboxOnce(w) PROVE IInv'
  BY <1>2, ClaimStep, BeginSyncStep, CommitSyncStep, SetVersionStep, AnnounceStep, MarkStep
     DEF FlushOutboxOnce
<1>3. ASSUME NEW w \in Workers, FailDelivery(w) PROVE IInv'
  <2>0. worker[w].event \in Events
    BY <1>3 DEF IInv, EventOK, FailDelivery
  <2>1. TypeOK'
    <3>1. row' \in [Events -> Row]
      <4>1. row[worker[w].event] \in Row
        BY <2>0 DEF IInv, TypeOK
      <4>2. [row[worker[w].event] EXCEPT !.lease = "free", !.due = FALSE] \in Row
        BY <4>1 DEF Row
      <4>3. row' = [row EXCEPT ![worker[w].event] =
                      [row[worker[w].event] EXCEPT !.lease = "free", !.due = FALSE]]
        BY <1>3, <2>0 DEF IInv, FailDelivery, RetryLater, TypeOK
      <4> QED BY <2>0, <4>2, <4>3 DEF IInv, TypeOK
    <3>2. worker' \in [Workers -> [pc : InFlight \union {"idle"},
                                   event : Events \union {NoEvent},
                                   seen : 0 .. MaxVersion]]
      BY <1>3, ConstantsAssumption DEF IInv, FailDelivery, TypeOK, Idle
    <3>3. faults' \in 0 .. MaxFaults
      BY <1>3, ConstantsAssumption DEF IInv, FailDelivery, TypeOK
    <3> QED BY <1>3, <3>1, <3>2, <3>3 DEF IInv, FailDelivery, TypeOK
  <2>2. \A e \in Events : row'[e].state = row[e].state
    BY <1>3 DEF IInv, FailDelivery, RetryLater, TypeOK, EventOK, Row
  <2>3. \A v \in Workers : worker'[v] \in {worker[v], Idle}
    BY <1>3 DEF IInv, FailDelivery, TypeOK
  <2> QED BY <1>3, <2>1, <2>2, <2>3, LeaseStep DEF FailDelivery
<1>4. ASSUME NEW w \in Workers, Crash(w) PROVE IInv'
  <2>1. TypeOK'
    BY <1>4, ConstantsAssumption DEF IInv, Crash, TypeOK, InFlight, Idle, Events
  <2>2. \A v \in Workers : worker'[v] \in {worker[v], Idle}
    BY <1>4 DEF IInv, Crash, TypeOK
  <2> QED BY <1>4, <2>1, <2>2, LeaseStep DEF Crash
<1>5. ASSUME NEW e \in Events, LeaseExpires(e) \/ RetryDue(e) PROVE IInv'
  <2>1. TypeOK'
    <3>1. row' \in [Events -> Row]
      <4>1. row \in [Events -> Row]
        BY DEF IInv, TypeOK
      <4>2. CASE row' = [row EXCEPT ![e].lease = "stale"]
        BY <4>1, <4>2 DEF Row
      <4>3. CASE row' = [row EXCEPT ![e].due = TRUE]
        BY <4>1, <4>3 DEF Row
      <4> QED BY <1>5, <4>2, <4>3 DEF LeaseExpires, RetryDue
    <3>2. expiries' \in [Events -> 0 .. MaxExpiries]
      <4>1. CASE LeaseExpires(e)
        BY <4>1, ConstantsAssumption DEF IInv, LeaseExpires, TypeOK
      <4>2. CASE RetryDue(e)
        BY <4>2 DEF IInv, RetryDue, TypeOK
      <4> QED BY <1>5, <4>1, <4>2
    <3> QED BY <1>5, <3>1, <3>2 DEF IInv, LeaseExpires, RetryDue, TypeOK
  <2>2. \A f \in Events : row'[f].state = row[f].state
    BY <1>5 DEF IInv, LeaseExpires, RetryDue, TypeOK, Row
  <2> QED BY <1>5, <2>1, <2>2, LeaseStep DEF LeaseExpires, RetryDue
<1>6. CASE UNCHANGED vars
  BY <1>6
     DEF vars, IInv, TypeOK, EventOK, StoredOK, DeliveryOK, BehindHead,
         DeliveredBeforePublished, SyncedBeforePublished
<1> QED BY <1>1, <1>2, <1>3, <1>4, <1>5, <1>6 DEF Next

\* However many flushers claim, deliver late, crash or repeat, how far each has
\* come in flushOutboxOnce tells what the waits, the cache and the channel saw.
THEOREM Invariance == Spec => []IInv
BY InitIInv, NextIInv, PTL DEF Spec

\* The rows of the outbox, the leases and the workers' locals stay within their
\* types, for any number of events, faults and expired leases.
THEOREM TypeCorrect == Spec => []TypeOK
<1>1. IInv => TypeOK
  BY DEF IInv
<1> QED BY <1>1, Invariance, PTL

\* flushOutboxOnce marks an event published only after it was announced and the
\* cache has caught up with it, and after its movement waits were computed from
\* a head as new, for any number of late, crashed or repeated deliveries.
THEOREM DeliveredFirst == Spec => []PublishedIsDelivered
<1>1. IInv => PublishedIsDelivered
  BY DEF IInv, PublishedIsDelivered
<1> QED BY <1>1, Invariance, PTL

\* MONOTONIC_VERSION_SCRIPT keeps the cached version from going back, and the
\* transactional event keeps it behind the read model.
THEOREM CacheMonotone == Spec => CacheNeverRegresses
<1>1. IInv /\ IInv' /\ [Next]_vars => [cached' >= cached /\ cached' <= head]_vars
  <2> SUFFICES ASSUME IInv, IInv', Next
               PROVE  cached' >= cached /\ cached' <= head
    BY DEF vars
  <2> USE ConstantsAssumption DEF IInv, BehindHead, TypeOK
  <2>1. CASE \E w \in Workers : SetVersion(w)
    BY <2>1 DEF SetVersion, MonotonicVersion, EventOK, StoredOK, InFlight, Events, Versioned
  <2>2. CASE cached' = cached
    BY <2>2
  <2> QED
    BY <2>1, <2>2
       DEF Next, PublishReadModel, FlushOutboxOnce, Claim, BeginSync, CommitSync, Announce,
           MarkPublished, FailDelivery, Crash, LeaseExpires, RetryDue
<1> QED BY <1>1, Invariance, PTL DEF Spec, CacheNeverRegresses

------------------------------------------------------------------------------
(* The worker process.                                                    *)

\* run() awaits a reconciliation only while one is active: always between
\* LISTEN and the first one, and whenever one is active in a ready session.
JoinedOK ==
    /\ session.joined => active /\ session.pc \in {"startup", "ready"}
    /\ session.pc = "startup" => session.joined
    /\ active /\ session.pc = "ready" => session.joined

\* Somebody awaits every batch: the reconciliation loop or the sweep.
BatchOwned == batch.phase # "none" => active \/ sweep = "batch"

\* stop() is called at most once before the sweep loop has ended, by SIGTERM.
StopOK ==
    /\ ~stopping => stopCalls = 0
    /\ sweep # "done" => stopCalls <= 1
    /\ sweep = "done" => stopping /\ stopCalls >= 1

\* close() came after the loop and, if the finally block made the only call of
\* stop(), after the reconciliation.
ClosedOK == closed => sweep = "done" /\ (stopCalls = 1 => ~active)

WorkerIInv ==
    /\ WorkerTypeOK
    /\ JoinedOK
    /\ BatchOwned
    /\ StopOK
    /\ ClosedOK
    /\ HintsAreServed

\* A process that just started awaits nothing.
LEMMA InitWorkerIInv == WorkerInit => WorkerIInv
<1> SUFFICES ASSUME WorkerInit PROVE WorkerIInv
  OBVIOUS
<1> USE DEF WorkerInit, Session, NoBatch
<1>1. WorkerTypeOK
  <2>1. job \in [Jobs -> {"none", "pending", "done"}]
    OBVIOUS
  <2>2. batch \in BatchState
    BY WorkerAssumption DEF BatchState
  <2>3. session \in SessionState
    BY DEF SessionState
  <2>4. stopCalls \in 0 .. 2 /\ failures \in 0 .. MaxFailures
    BY WorkerAssumption
  <2>5. hints \subseteq Jobs /\ sweep \in {"waiting", "probed", "batch", "done"}
    OBVIOUS
  <2>6. {pending, active, stopping, closed} \subseteq BOOLEAN
    OBVIOUS
  <2> HIDE DEF WorkerInit
  <2> QED BY <2>1, <2>2, <2>3, <2>4, <2>5, <2>6 DEF WorkerTypeOK
<1>2. JoinedOK /\ BatchOwned /\ StopOK /\ ClosedOK
  BY DEF JoinedOK, BatchOwned, StopOK, ClosedOK
<1>3. HintsAreServed
  BY DEF HintsAreServed
<1> QED BY <1>1, <1>2, <1>3 DEF WorkerIInv

\* A hint that joins the running reconciliation changes nothing else.
LEMMA JoinedSession ==
    ASSUME NEW s \in SessionState, NEW joined \in BOOLEAN
    PROVE  LET r == [s EXCEPT !.joined = joined]
           IN  r \in SessionState /\ r.pc = s.pc /\ r.joined = joined
BY DEF SessionState

\* After its first reconciliation a session is ready or closes; any other one
\* stays where it is and awaits nothing.
LEMMA ReconciledSession ==
    ASSUME NEW s \in SessionState
    PROVE  LET r == AfterReconciliation(s)
           IN  /\ r \in SessionState
               /\ ~s.joined => r = s
               /\ ~r.joined
               /\ s.pc # "startup" => r.pc = s.pc
               /\ s.joined /\ s.pc = "startup" => r.pc \in {"closing", "ready"}
<1>1. CASE ~s.joined
  BY <1>1 DEF AfterReconciliation, SessionState
<1>2. CASE s.joined /\ s.pc # "startup"
  BY <1>2, JoinedSession DEF AfterReconciliation
<1>3. CASE s.joined /\ s.pc = "startup"
  BY <1>3 DEF AfterReconciliation, Session, SessionState
<1> QED BY <1>1, <1>2, <1>3

\* A session that awaited the failed reconciliation closes.
LEMMA FailedSession ==
    ASSUME NEW s \in SessionState
    PROVE  LET r == AfterFailure(s)
           IN  /\ r \in SessionState
               /\ s.joined /\ s.pc \in {"startup", "ready"}
                     => r.pc = "closing" /\ ~r.joined
               /\ ~(s.joined /\ s.pc \in {"startup", "ready"}) => r = s
BY DEF AfterFailure, Session, SessionState

\* What every step of the process is proved from.
LEMMA NextWorkerIInv ==
    WorkerIInv /\ [WorkerNext]_workerVars => WorkerIInv'
<1> SUFFICES ASSUME WorkerIInv, [WorkerNext]_workerVars PROVE WorkerIInv'
  OBVIOUS
<1> USE WorkerAssumption
    DEF WorkerIInv, WorkerTypeOK, JoinedOK, BatchOwned, StopOK,
        ClosedOK, HintsAreServed, Session, NoBatch, NewBatch,
        ListenerStopping
<1>1. CASE \E j \in Jobs : CommitJob(j)
  BY <1>1 DEF CommitJob
<1>2. CASE Connect
  BY <1>2 DEF Connect, SessionState
<1>3. CASE Listen
  <2> USE <1>3 DEF Listen, QueueReconciliation, ReconcileBatch
  <2>1. WorkerTypeOK'
    <3>1. session' \in SessionState
      BY DEF SessionState
    <3>2. batch' \in BatchState
      BY DEF BatchState
    <3> QED BY <3>1, <3>2
  <2>2. JoinedOK'
    OBVIOUS
  <2>3. BatchOwned' /\ StopOK' /\ ClosedOK'
    OBVIOUS
  <2>4. HintsAreServed'
    OBVIOUS
  <2> QED BY <2>1, <2>2, <2>3, <2>4
<1>4. CASE \E j \in Jobs : Notified(j)
  <2> USE <1>4 DEF Notified, QueueReconciliation, ReconcileBatch
  <2>1. /\ session' \in SessionState /\ session'.pc = session.pc
        /\ session'.joined = (session.joined \/ ~ListenerStopping)
    BY JoinedSession
  <2>2. WorkerTypeOK'
    <3>1. batch' \in BatchState
      BY DEF BatchState
    <3> QED BY <2>1, <3>1
  <2>3. JoinedOK'
    BY <2>1
  <2>4. BatchOwned' /\ StopOK' /\ ClosedOK'
    OBVIOUS
  <2>5. HintsAreServed'
    BY <2>1
  <2> QED BY <2>2, <2>3, <2>4, <2>5
<1>5. CASE SessionClosed
  BY <1>5 DEF SessionClosed, SessionState
<1>6. CASE Reconnect
  BY <1>6 DEF Reconnect, SessionState
<1>7. CASE SessionLost
  <2> USE <1>7 DEF SessionLost
  <2>1. CASE session.pc = "startup"
    <3>1. /\ session'.pc = "startup" /\ session'.joined = session.joined
          /\ session' \in SessionState
      BY <2>1 DEF Invalidated, SessionState
    <3> QED BY <2>1, <3>1
  <2>2. CASE session.pc # "startup"
    <3>1. \E pc \in {"failing", "closing"} : session' = Session(pc) /\ session' \in SessionState
      BY <2>2 DEF Invalidated, SessionState
    <3> QED BY <2>2, <3>1
  <2> QED BY <2>1, <2>2
<1>8. CASE \E j \in Jobs : TakeJob(j)
  BY <1>8 DEF TakeJob, MayTakeJob, BatchState
<1>9. CASE StartFlush
  BY <1>9 DEF StartFlush, BatchState
<1>10. CASE BatchDone
  <2> USE <1>10 DEF BatchDone
  <2>1. CASE LoopContinues
    <3>1. batch' \in BatchState
      BY <2>1 DEF BatchState
    <3>2. sweep' \in {"waiting", "probed", "batch", "done"} /\ pending' = FALSE
      BY <2>1
    <3>3. WorkerTypeOK'
      BY <2>1, <3>1, <3>2
    <3>4. JoinedOK' /\ HintsAreServed'
      BY <2>1 DEF LoopContinues
    <3>5. BatchOwned' /\ StopOK' /\ ClosedOK'
      BY <2>1 DEF LoopContinues
    <3> QED BY <3>3, <3>4, <3>5
  <2>2. CASE ~LoopContinues
    <3>1. batch' \in BatchState
      BY <2>2 DEF BatchState
    <3>2. session' = AfterReconciliation(session)
      BY <2>2
    <3>3. WorkerTypeOK'
      BY <2>2, <3>1, <3>2, ReconciledSession
    <3>4. JoinedOK'
      BY <2>2, <3>2, ReconciledSession
    <3>5. BatchOwned' /\ StopOK' /\ ClosedOK'
      BY <2>2
    <3>6. HintsAreServed'
      BY <2>2, <3>2, ReconciledSession DEF LoopContinues
    <3> QED BY <3>3, <3>4, <3>5, <3>6
  <2> QED BY <2>1, <2>2
<1>11. CASE BatchFails
  <2> USE <1>11 DEF BatchFails
  <2>1. batch' \in BatchState
    BY DEF BatchState
  <2>2. session' = AfterFailure(session)
    OBVIOUS
  <2>3. WorkerTypeOK'
    <3>1. session' \in SessionState
      BY <2>2, FailedSession
    <3>2. failures' \in 0 .. MaxFailures
      OBVIOUS
    <3>3. sweep' \in {"waiting", "probed", "batch", "done"}
      OBVIOUS
    <3> QED BY <2>1, <3>1, <3>2, <3>3
  <2>4. JoinedOK'
    BY <2>2, FailedSession
  <2>5. BatchOwned' /\ StopOK' /\ ClosedOK'
    OBVIOUS
  <2>6. HintsAreServed'
    BY <2>2, FailedSession
  <2> QED BY <2>3, <2>4, <2>5, <2>6
<1>12. CASE SweepProbes \/ SweepFindsOutbox
  BY <1>12 DEF SweepProbes, SweepFindsOutbox
<1>13. CASE SweepStarts
  BY <1>13 DEF SweepStarts, ReconcileBatch, BatchState
<1>14. CASE Signal
  BY <1>14 DEF Signal
<1>15. CASE LoopEnds
  BY <1>15 DEF LoopEnds
<1>16. CASE StopSession
  BY <1>16 DEF StopSession, StopCloses, SessionState
<1>17. CASE Close
  BY <1>17 DEF Close, StopReturns
<1>18. CASE UNCHANGED workerVars
  BY <1>18 DEF workerVars
<1> QED
  BY <1>1, <1>2, <1>3, <1>4, <1>5, <1>6, <1>7, <1>8, <1>9, <1>10, <1>11, <1>12, <1>13,
     <1>14, <1>15, <1>16, <1>17, <1>18
     DEF WorkerNext, Listener, Batch, Shutdown

\* Wherever SIGTERM, lost sessions and failed batches fall between the awaits
\* of run() and of the sweep loop, the session, the reconciliation, the batch
\* and the calls of stop() stay related in the same way.
THEOREM WorkerInvariance ==
    WorkerSpec => []WorkerIInv
BY InitWorkerIInv, NextWorkerIInv, PTL DEF WorkerSpec

\* The process never leaves its types: in particular a batch takes no more than
\* REFRESH_WORKER_BATCH_SIZE jobs and stop() is called at most twice.
THEOREM WorkerTypeCorrect ==
    WorkerSpec => []WorkerTypeOK
<1>1. WorkerIInv => WorkerTypeOK
  BY DEF WorkerIInv
<1> QED BY <1>1, WorkerInvariance, PTL

\* queueReconciliation coalesces hints into one flag and loses none: an active
\* reconciliation has a batch, and a request left over from a failed one meets
\* a session that reconnects.
THEOREM HintsServed ==
    WorkerSpec => []HintsAreServed
<1>1. WorkerIInv => HintsAreServed
  BY DEF WorkerIInv
<1> QED BY <1>1, WorkerInvariance, PTL

\* worker.close() ends the pool under a running batch only if SIGTERM found the
\* listener connecting, so that the stop() it awaits is the second one.
THEOREM CloseAfterBatch ==
    WorkerSpec => []CloseAwaitsBatch
<1>1. WorkerIInv => CloseAwaitsBatch
  BY DEF WorkerIInv, WorkerTypeOK, BatchOwned, StopOK, ClosedOK, CloseAwaitsBatch
<1> QED BY <1>1, WorkerInvariance, PTL
=============================================================================
