------------------------ MODULE RefreshQueue_proofs -------------------------
(***************************************************************************)
(* Safety of the refresh queue for any number of mutations, workers and   *)
(* organizations, any retry limit and any number of crashes.              *)
(***************************************************************************)
EXTENDS RefreshQueue, TLAPS

\* Which job row a transaction stands for, and that the row exists.
UsesOK ==
    \A m \in Mutations :
        /\ tx[m] \in {"open", "committed"} =>
              uses[m] \in Mutations /\ OrgOf[uses[m]] = OrgOf[m]
        /\ tx[m] = "open" =>
              job[uses[m]].status = IF uses[m] = m THEN "none" ELSE "pending"
        /\ tx[m] = "committed" => job[uses[m]].status # "none"

RowOK ==
    \A j \in Mutations :
        job[j].status # "none" => tx[j] = "committed" /\ uses[j] = j

\* A pending job has attempts left.
AttemptsLeft ==
    \A j \in Mutations :
        job[j].status \in {"none", "pending"} => job[j].attempts < MaxAttempts

\* The row lock of a claimed job is exclusive and its row is as the worker's
\* snapshot shows it.
ClaimOK ==
    \A w \in Workers :
        /\ worker[w].pc \in {"claimed", "building"} =>
              /\ worker[w].job \in worker[w].rows \ worker[w].changed
              /\ job[worker[w].job].status = "pending"
              /\ \A m \in Mutations :
                    tx[m] = "open" => uses[m] # worker[w].job
              /\ \A v \in Workers \ {w} : worker[v].job # worker[w].job
        /\ worker[w].pc \in {"idle", "snapshot"} => worker[w].job = NoJob

\* A snapshot shows every mutation that a row it could lock stands for, only
\* committed mutations, and everything an unmoved head shows.
SnapshotOK ==
    \A w \in Workers : worker[w].pc # "idle" =>
        /\ worker[w].seen \subseteq Committed
        /\ \A m \in Committed :
              uses[m] \in worker[w].rows \ worker[w].changed =>
                  m \in worker[w].seen
        /\ \A o \in Orgs \ worker[w].moved : head[o].seen \subseteq worker[w].seen

HeadOK ==
    \A o \in Orgs :
        /\ head[o].full \subseteq head[o].seen
        /\ head[o].seen \subseteq {m \in Committed : OrgOf[m] = o}

IInv ==
    /\ TypeOK
    /\ UsesOK
    /\ RowOK
    /\ AttemptsLeft
    /\ ClaimOK
    /\ SnapshotOK
    /\ HeadOK
    /\ NoLostRefresh
    /\ ForceNotLost

------------------------------------------------------------------------------
\* An empty queue satisfies the inductive invariant.
LEMMA InitIInv == Init => IInv
BY ConstantsAssumption
   DEF Init, IInv, TypeOK, Row, WorkerTx, Head, Idle, NoRow, Committed, UsesOK,
       RowOK, AttemptsLeft, ClaimOK, SnapshotOK, HeadOK, NoLostRefresh,
       ForceNotLost

\* Coalescing locks a pending row that no worker holds; nothing committed
\* changes.
LEMMA CoalesceStep ==
    ASSUME NEW m \in Mutations, NEW j \in Mutations, IInv, Coalesce(m, j)
    PROVE  IInv'
<1> USE ConstantsAssumption DEF Coalesce, PendingFor
<1>1. TypeOK'
  BY DEF IInv, TypeOK, Row, WorkerTx, Head, Idle, NoRow
<1>2. UsesOK'
  BY <1>1 DEF IInv, TypeOK, Row, WorkerTx, Head, Idle, Committed, Locked, UsesOK, RowOK, ClaimOK
<1>3. RowOK'
  BY <1>1 DEF IInv, TypeOK, Row, WorkerTx, Head, Idle, Committed, Locked, RowOK, UsesOK
<1>4. AttemptsLeft'
  BY <1>1 DEF IInv, TypeOK, Row, WorkerTx, Head, Idle, Committed, Locked, AttemptsLeft, UsesOK, ClaimOK
<1>5. ClaimOK'
  BY <1>1 DEF IInv, TypeOK, Row, WorkerTx, Head, Idle, Committed, Locked, ClaimOK, RowOK, UsesOK
<1>6. SnapshotOK'
  BY <1>1 DEF IInv, TypeOK, Row, WorkerTx, Head, Idle, Committed, Locked, SnapshotOK, HeadOK, UsesOK
<1>7. HeadOK'
  BY <1>1 DEF IInv, TypeOK, Row, WorkerTx, Head, Idle, Committed, Locked, HeadOK, SnapshotOK
<1>8. NoLostRefresh'
  BY <1>1 DEF IInv, TypeOK, Row, WorkerTx, Head, Idle, Committed, Locked, NoLostRefresh, UsesOK, RowOK, ClaimOK, SnapshotOK
<1>9. ForceNotLost'
  BY <1>1 DEF IInv, TypeOK, Row, WorkerTx, Head, Idle, Committed, Locked, ForceNotLost, UsesOK, RowOK, ClaimOK, SnapshotOK, HeadOK
<1> QED BY <1>1, <1>2, <1>3, <1>4, <1>5, <1>6, <1>7, <1>8, <1>9 DEF IInv

\* An inserted job is invisible until its transaction commits.
LEMMA InsertJobStep ==
    ASSUME NEW m \in Mutations, IInv, InsertJob(m)
    PROVE  IInv'
<1> USE ConstantsAssumption DEF InsertJob, PendingFor
<1>1. TypeOK'
  BY DEF IInv, TypeOK, Row, WorkerTx, Head, Idle, NoRow
<1>2. UsesOK'
  BY <1>1 DEF IInv, TypeOK, Row, WorkerTx, Head, Idle, Committed, Locked, UsesOK, RowOK, ClaimOK
<1>3. RowOK'
  BY <1>1 DEF IInv, TypeOK, Row, WorkerTx, Head, Idle, Committed, Locked, RowOK, UsesOK
<1>4. AttemptsLeft'
  BY <1>1 DEF IInv, TypeOK, Row, WorkerTx, Head, Idle, Committed, Locked, AttemptsLeft, UsesOK, ClaimOK
<1>5. ClaimOK'
  BY <1>1 DEF IInv, TypeOK, Row, WorkerTx, Head, Idle, Committed, Locked, ClaimOK, RowOK, UsesOK
<1>6. SnapshotOK'
  BY <1>1 DEF IInv, TypeOK, Row, WorkerTx, Head, Idle, Committed, Locked, SnapshotOK, HeadOK, UsesOK
<1>7. HeadOK'
  BY <1>1 DEF IInv, TypeOK, Row, WorkerTx, Head, Idle, Committed, Locked, HeadOK, SnapshotOK
<1>8. NoLostRefresh'
  BY <1>1 DEF IInv, TypeOK, Row, WorkerTx, Head, Idle, Committed, Locked, NoLostRefresh, UsesOK, RowOK, ClaimOK, SnapshotOK
<1>9. ForceNotLost'
  BY <1>1 DEF IInv, TypeOK, Row, WorkerTx, Head, Idle, Committed, Locked, ForceNotLost, UsesOK, RowOK, ClaimOK, SnapshotOK, HeadOK
<1> QED BY <1>1, <1>2, <1>3, <1>4, <1>5, <1>6, <1>7, <1>8, <1>9 DEF IInv

\* The commit that queues a refresh.  The row it touches becomes newer than every
\* open snapshot, so no snapshot that lacks the mutation can claim the row.
LEMMA CommitStep ==
    ASSUME NEW m \in Mutations, IInv, CommitMutation(m)
    PROVE  IInv'
<1> DEFINE j == uses[m]
<1>a. /\ tx[m] = "open"
      /\ tx' = [tx EXCEPT ![m] = "committed"]
      /\ UNCHANGED <<uses, head, crashes>>
      /\ outbox' = [outbox EXCEPT !.requested = @ \union ({j} \intersect {m})]
  BY DEF CommitMutation
<1>b. /\ j \in Mutations /\ OrgOf[j] = OrgOf[m]
      /\ job[j].status = IF j = m THEN "none" ELSE "pending"
      /\ job[j] \in Row
  BY <1>a DEF IInv, UsesOK, TypeOK
<1>c. job' = [job EXCEPT ![j] = QueuedRow(m)]
  BY DEF CommitMutation
<1>d. /\ QueuedRow(m) \in Row
      /\ QueuedRow(m).status = "pending"
      /\ QueuedRow(m).attempts < MaxAttempts
      /\ m \in Forced => QueuedRow(m).force
      /\ j # m /\ job[j].force => QueuedRow(m).force
  <2>1. CASE j = m
    <3>1. QueuedRow(m) = [status |-> "pending", attempts |-> 0, due |-> TRUE,
                          force |-> m \in Forced]
      BY <2>1 DEF QueuedRow
    <3>2. 0 \in 0 .. MaxAttempts /\ 0 < MaxAttempts
      BY ConstantsAssumption
    <3>3. \A b \in BOOLEAN :
            [status |-> "pending", attempts |-> 0, due |-> TRUE, force |-> b] \in Row
      BY <3>2 DEF Row
    <3>4. QueuedRow(m) \in Row /\ (m \in Forced => QueuedRow(m).force)
      <4>1. CASE m \in Forced
        <5>1. (m \in Forced) = TRUE
          BY <4>1
        <5>2. QueuedRow(m) = [status |-> "pending", attempts |-> 0, due |-> TRUE,
                              force |-> TRUE]
          BY <3>1, <5>1, Zenon
        <5>3. QueuedRow(m) \in Row
          BY <5>2, <3>3
        <5>4. QueuedRow(m).force = TRUE
          BY <5>2
        <5> QED BY <5>3, <5>4, Zenon
      <4>2. CASE m \notin Forced
        <5>1. (m \in Forced) = FALSE
          BY <4>2
        <5>2. QueuedRow(m) = [status |-> "pending", attempts |-> 0, due |-> TRUE,
                              force |-> FALSE]
          BY <3>1, <5>1, Zenon
        <5> QED BY <5>2, <4>2, <3>3
      <4> QED BY <4>1, <4>2
    <3>5. QueuedRow(m).status = "pending" /\ QueuedRow(m).attempts = 0
      BY <3>1
    <3> QED BY <2>1, <3>2, <3>4, <3>5
  <2>2. CASE j # m
    <3>1. QueuedRow(m) = [job[j] EXCEPT !.force = job[j].force \/ m \in Forced]
      BY <2>2 DEF QueuedRow
    <3>2. /\ job[j].attempts < MaxAttempts
          /\ job[j].status = "pending"
      BY <1>b, <2>2 DEF IInv, AttemptsLeft
    <3> HIDE DEF j
    <3>3. job[j] \in Row => [job[j] EXCEPT !.force = job[j].force \/ m \in Forced] \in Row
      BY Zenon DEF Row
    <3>4. /\ QueuedRow(m).attempts = job[j].attempts
          /\ QueuedRow(m).status = job[j].status
          /\ QueuedRow(m).force = (job[j].force \/ m \in Forced)
      BY <3>1, <1>b DEF Row
    <3> QED BY <3>1, <3>2, <3>3, <3>4, <1>b
  <2> QED BY <2>1, <2>2
<1>e. \A i \in Mutations : job'[i] = IF i = j THEN QueuedRow(m) ELSE job[i]
  BY <1>b, <1>c DEF IInv, TypeOK
<1>f. worker' = Outdate({j}, {})
  BY DEF CommitMutation, Touched
<1>g. \A w \in Workers :
        /\ worker'[w] \in WorkerTx
        /\ worker'[w].pc = worker[w].pc
        /\ worker'[w].job = worker[w].job
        /\ worker'[w].seen = worker[w].seen
        /\ worker'[w].rows = worker[w].rows
        /\ worker'[w].moved = worker[w].moved
        /\ worker'[w].pc # "idle" =>
              worker'[w].changed = worker[w].changed \union {j}
  BY ZenonT(60), <1>b, <1>f DEF Outdate, IInv, TypeOK, WorkerTx
<1>h. Committed' = Committed \union {m}
  BY <1>a DEF Committed, IInv, TypeOK
<1>1. TypeOK'
  <2>1. worker' \in [Workers -> WorkerTx]
    BY <1>f, <1>g DEF Outdate
  <2>2. job' \in [Mutations -> Row]
    BY <1>b, <1>c, <1>d DEF IInv, TypeOK
  <2> QED BY <1>a, <1>b, <2>1, <2>2 DEF IInv, TypeOK, Head
<1>2. UsesOK'
  BY <1>a, <1>b, <1>d, <1>e DEF IInv, TypeOK, UsesOK, RowOK
<1>3. RowOK'
  BY <1>a, <1>b, <1>d, <1>e DEF IInv, TypeOK, UsesOK, RowOK
<1>4. AttemptsLeft'
  BY <1>d, <1>e DEF IInv, AttemptsLeft
<1>5. ClaimOK'
  BY <1>a, <1>b, <1>d, <1>e, <1>g DEF IInv, ClaimOK, TypeOK, WorkerTx
<1>6. SnapshotOK'
  BY <1>a, <1>g, <1>h DEF IInv, SnapshotOK
<1>7. HeadOK'
  BY <1>a, <1>h DEF IInv, HeadOK
<1>8. NoLostRefresh'
  BY <1>a, <1>b, <1>d, <1>e, <1>h DEF IInv, NoLostRefresh, UsesOK, Committed
<1>9. ForceNotLost'
  <2> SUFFICES ASSUME NEW i \in (Committed \intersect Forced)',
                      i \notin head[OrgOf[i]].full
               PROVE  \/ job'[uses[i]].status = "failed"
                      \/ job'[uses[i]].status = "pending" /\ job'[uses[i]].force
    BY <1>a DEF ForceNotLost
  <2>1. CASE i = m
    BY <2>1, <1>b, <1>d, <1>e
  <2>2. CASE i # m
    <3>1. i \in Committed \intersect Forced /\ uses[i] \in Mutations
      BY <2>2, <1>h DEF IInv, UsesOK, Committed
    <3>2. \/ job[uses[i]].status = "failed"
          \/ job[uses[i]].status = "pending" /\ job[uses[i]].force
      BY <3>1 DEF IInv, ForceNotLost
    <3> QED BY <3>1, <3>2, <1>b, <1>d, <1>e
  <2> QED BY <2>1, <2>2
<1> QED BY <1>1, <1>2, <1>3, <1>4, <1>5, <1>6, <1>7, <1>8, <1>9 DEF IInv

\* A rolled-back mutation leaves neither a job nor a locked row.
LEMMA AbortStep ==
    ASSUME NEW m \in Mutations, IInv, AbortMutation(m)
    PROVE  IInv'
<1> USE ConstantsAssumption DEF AbortMutation
<1>1. TypeOK'
  BY DEF IInv, TypeOK, Row, WorkerTx, Head, Idle, NoRow
<1>2. UsesOK'
  BY <1>1 DEF IInv, TypeOK, Row, WorkerTx, Head, Idle, Committed, Locked, UsesOK, RowOK, ClaimOK
<1>3. RowOK'
  BY <1>1 DEF IInv, TypeOK, Row, WorkerTx, Head, Idle, Committed, Locked, RowOK, UsesOK
<1>4. AttemptsLeft'
  BY <1>1 DEF IInv, TypeOK, Row, WorkerTx, Head, Idle, Committed, Locked, AttemptsLeft, UsesOK, ClaimOK
<1>5. ClaimOK'
  BY <1>1 DEF IInv, TypeOK, Row, WorkerTx, Head, Idle, Committed, Locked, ClaimOK, RowOK, UsesOK
<1>6. SnapshotOK'
  BY <1>1 DEF IInv, TypeOK, Row, WorkerTx, Head, Idle, Committed, Locked, SnapshotOK, HeadOK, UsesOK
<1>7. HeadOK'
  BY <1>1 DEF IInv, TypeOK, Row, WorkerTx, Head, Idle, Committed, Locked, HeadOK, SnapshotOK
<1>8. NoLostRefresh'
  BY <1>1 DEF IInv, TypeOK, Row, WorkerTx, Head, Idle, Committed, Locked, NoLostRefresh, UsesOK, RowOK, ClaimOK, SnapshotOK
<1>9. ForceNotLost'
  BY <1>1 DEF IInv, TypeOK, Row, WorkerTx, Head, Idle, Committed, Locked, ForceNotLost, UsesOK, RowOK, ClaimOK, SnapshotOK, HeadOK
<1> QED BY <1>1, <1>2, <1>3, <1>4, <1>5, <1>6, <1>7, <1>8, <1>9 DEF IInv

\* A new snapshot shows every committed mutation and every head.
LEMMA BeginStep ==
    ASSUME NEW w \in Workers, IInv, Begin(w)
    PROVE  IInv'
<1> USE ConstantsAssumption DEF Begin
<1>1. TypeOK'
  <2>1. worker'[w] \in WorkerTx
    BY DEF IInv, TypeOK, WorkerTx, Idle, Committed
  <2> QED BY <2>1 DEF IInv, TypeOK
<1>2. UsesOK'
  BY <1>1 DEF IInv, TypeOK, Row, WorkerTx, Head, Idle, Committed, Locked, UsesOK, RowOK, ClaimOK
<1>3. RowOK'
  BY <1>1 DEF IInv, TypeOK, Row, WorkerTx, Head, Idle, Committed, Locked, RowOK, UsesOK
<1>4. AttemptsLeft'
  BY <1>1 DEF IInv, TypeOK, Row, WorkerTx, Head, Idle, Committed, Locked, AttemptsLeft, UsesOK, ClaimOK
<1>s. /\ worker'[w].pc = "snapshot" /\ worker'[w].job = NoJob
      /\ worker'[w].seen = Committed
      /\ \A v \in Workers \ {w} : worker'[v] = worker[v]
      /\ Committed' = Committed
  BY DEF IInv, TypeOK, Idle, Committed
<1>5. ClaimOK'
  BY <1>s DEF IInv, ClaimOK, TypeOK, WorkerTx
<1>6. SnapshotOK'
  BY <1>s DEF IInv, SnapshotOK, HeadOK
<1>7. HeadOK'
  BY <1>1 DEF IInv, TypeOK, Row, WorkerTx, Head, Idle, Committed, Locked, HeadOK, SnapshotOK
<1>8. NoLostRefresh'
  BY <1>1 DEF IInv, TypeOK, Row, WorkerTx, Head, Idle, Committed, Locked, NoLostRefresh, UsesOK, RowOK, ClaimOK, SnapshotOK
<1>9. ForceNotLost'
  BY <1>1 DEF IInv, TypeOK, Row, WorkerTx, Head, Idle, Committed, Locked, ForceNotLost, UsesOK, RowOK, ClaimOK, SnapshotOK, HeadOK
<1> QED BY <1>1, <1>2, <1>3, <1>4, <1>5, <1>6, <1>7, <1>8, <1>9 DEF IInv

\* A worker claims a row that is as old as its snapshot, and exclusively.
LEMMA ClaimStep ==
    ASSUME NEW w \in Workers, NEW j \in Mutations, IInv, Claim(w, j)
    PROVE  IInv'
<1> USE ConstantsAssumption DEF Claim
<1>1. TypeOK'
  <2>1. worker[w] \in WorkerTx
    BY DEF IInv, TypeOK
  <2>2. worker'[w] \in WorkerTx
    BY <2>1 DEF IInv, TypeOK, WorkerTx
  <2> QED BY <2>2 DEF IInv, TypeOK
<1>2. UsesOK'
  BY <1>1 DEF IInv, TypeOK, Row, WorkerTx, Head, Idle, Committed, Locked, UsesOK, RowOK, ClaimOK
<1>3. RowOK'
  BY <1>1 DEF IInv, TypeOK, Row, WorkerTx, Head, Idle, Committed, Locked, RowOK, UsesOK
<1>4. AttemptsLeft'
  BY <1>1 DEF IInv, TypeOK, Row, WorkerTx, Head, Idle, Committed, Locked, AttemptsLeft, UsesOK, ClaimOK
<1>5. ClaimOK'
  BY <1>1 DEF IInv, TypeOK, Row, WorkerTx, Head, Idle, Committed, Locked, ClaimOK, RowOK, UsesOK
<1>6. SnapshotOK'
  BY <1>1 DEF IInv, TypeOK, Row, WorkerTx, Head, Idle, Committed, Locked, SnapshotOK, HeadOK, UsesOK
<1>7. HeadOK'
  BY <1>1 DEF IInv, TypeOK, Row, WorkerTx, Head, Idle, Committed, Locked, HeadOK, SnapshotOK
<1>8. NoLostRefresh'
  BY <1>1 DEF IInv, TypeOK, Row, WorkerTx, Head, Idle, Committed, Locked, NoLostRefresh, UsesOK, RowOK, ClaimOK, SnapshotOK
<1>9. ForceNotLost'
  BY <1>1 DEF IInv, TypeOK, Row, WorkerTx, Head, Idle, Committed, Locked, ForceNotLost, UsesOK, RowOK, ClaimOK, SnapshotOK, HeadOK
<1> QED BY <1>1, <1>2, <1>3, <1>4, <1>5, <1>6, <1>7, <1>8, <1>9 DEF IInv

\* Taking the organization's advisory lock changes no row.
LEMMA LockOrgStep ==
    ASSUME NEW w \in Workers, IInv, LockOrg(w)
    PROVE  IInv'
<1> USE ConstantsAssumption DEF LockOrg
<1>1. TypeOK'
  <2>1. worker[w] \in WorkerTx
    BY DEF IInv, TypeOK
  <2>2. worker'[w] \in WorkerTx
    BY <2>1 DEF IInv, TypeOK, WorkerTx
  <2> QED BY <2>2 DEF IInv, TypeOK
<1>2. UsesOK'
  BY <1>1 DEF IInv, TypeOK, Row, WorkerTx, Head, Idle, Committed, Locked, UsesOK, RowOK, ClaimOK
<1>3. RowOK'
  BY <1>1 DEF IInv, TypeOK, Row, WorkerTx, Head, Idle, Committed, Locked, RowOK, UsesOK
<1>4. AttemptsLeft'
  BY <1>1 DEF IInv, TypeOK, Row, WorkerTx, Head, Idle, Committed, Locked, AttemptsLeft, UsesOK, ClaimOK
<1>5. ClaimOK'
  BY <1>1 DEF IInv, TypeOK, Row, WorkerTx, Head, Idle, Committed, Locked, ClaimOK, RowOK, UsesOK
<1>6. SnapshotOK'
  BY <1>1 DEF IInv, TypeOK, Row, WorkerTx, Head, Idle, Committed, Locked, SnapshotOK, HeadOK, UsesOK
<1>7. HeadOK'
  BY <1>1 DEF IInv, TypeOK, Row, WorkerTx, Head, Idle, Committed, Locked, HeadOK, SnapshotOK
<1>8. NoLostRefresh'
  BY <1>1 DEF IInv, TypeOK, Row, WorkerTx, Head, Idle, Committed, Locked, NoLostRefresh, UsesOK, RowOK, ClaimOK, SnapshotOK
<1>9. ForceNotLost'
  BY <1>1 DEF IInv, TypeOK, Row, WorkerTx, Head, Idle, Committed, Locked, ForceNotLost, UsesOK, RowOK, ClaimOK, SnapshotOK, HeadOK
<1> QED BY <1>1, <1>2, <1>3, <1>4, <1>5, <1>6, <1>7, <1>8, <1>9 DEF IInv

\* Any return of a worker to idle without a write: conflict, nothing to claim,
\* busy organization, lost connection.
LEMMA RollbackStep ==
    ASSUME NEW w \in Workers, IInv, worker' = [worker EXCEPT ![w] = Idle], UNCHANGED <<tx, uses, job, head, outbox>>, crashes' \in 0 .. MaxCrashes
    PROVE  IInv'
<1> USE ConstantsAssumption DEF Idle
<1>1. TypeOK'
  BY DEF IInv, TypeOK, Row, WorkerTx, Head, Idle, NoRow
<1>2. UsesOK'
  BY <1>1 DEF IInv, TypeOK, Row, WorkerTx, Head, Idle, Committed, Locked, UsesOK, RowOK, ClaimOK
<1>3. RowOK'
  BY <1>1 DEF IInv, TypeOK, Row, WorkerTx, Head, Idle, Committed, Locked, RowOK, UsesOK
<1>4. AttemptsLeft'
  BY <1>1 DEF IInv, TypeOK, Row, WorkerTx, Head, Idle, Committed, Locked, AttemptsLeft, UsesOK, ClaimOK
<1>5. ClaimOK'
  BY <1>1 DEF IInv, TypeOK, Row, WorkerTx, Head, Idle, Committed, Locked, ClaimOK, RowOK, UsesOK
<1>6. SnapshotOK'
  BY <1>1 DEF IInv, TypeOK, Row, WorkerTx, Head, Idle, Committed, Locked, SnapshotOK, HeadOK, UsesOK
<1>7. HeadOK'
  BY <1>1 DEF IInv, TypeOK, Row, WorkerTx, Head, Idle, Committed, Locked, HeadOK, SnapshotOK
<1>8. NoLostRefresh'
  BY <1>1 DEF IInv, TypeOK, Row, WorkerTx, Head, Idle, Committed, Locked, NoLostRefresh, UsesOK, RowOK, ClaimOK, SnapshotOK
<1>9. ForceNotLost'
  BY <1>1 DEF IInv, TypeOK, Row, WorkerTx, Head, Idle, Committed, Locked, ForceNotLost, UsesOK, RowOK, ClaimOK, SnapshotOK, HeadOK
<1> QED BY <1>1, <1>2, <1>3, <1>4, <1>5, <1>6, <1>7, <1>8, <1>9 DEF IInv

\* Publication completes a job only when the head then shows every mutation that
\* the job stands for; other organizations and other jobs keep their state.
LEMMA PublishStep ==
    ASSUME NEW w \in Workers, IInv, Publish(w)
    PROVE  IInv'
<1> DEFINE j == worker[w].job
           o == OrgOf[j]
           new == Published(w, o, head[o])
<1>a. /\ worker[w].pc = "building"
      /\ UNCHANGED <<tx, uses, crashes>>
      /\ Committed' = Committed
      /\ o \notin worker[w].moved
  BY DEF Publish, Committed, WatermarkCurrent
<1>b. /\ j \in Mutations /\ job[j] \in Row /\ job[j].status = "pending"
      /\ j \in worker[w].rows \ worker[w].changed
      /\ job[j].attempts < MaxAttempts
      /\ o \in Orgs /\ head[o] \in Head
  BY <1>a, ConstantsAssumption DEF IInv, TypeOK, WorkerTx, ClaimOK, AttemptsLeft
<1>c. /\ job' = [job EXCEPT ![j].status = "complete", ![j].attempts = @ + 1]
      /\ head' = [head EXCEPT ![o] = new]
      /\ outbox' = [outbox EXCEPT
                      !.updated = @ \union {<<o, head[o].version + 1>>}]
      /\ worker' = [Outdate({j}, {o}) EXCEPT ![w] = Idle]
  BY DEF Publish
<1>d. \A i \in Mutations :
        /\ job'[i] \in Row
        /\ i # j => job'[i] = job[i]
        /\ i = j => job'[i].status = "complete"
  BY <1>b, <1>c, ConstantsAssumption DEF IInv, TypeOK, Row
<1>e. \A v \in Workers :
        /\ worker'[v] \in WorkerTx
        /\ v # w =>
              /\ worker'[v].pc = worker[v].pc
              /\ worker'[v].job = worker[v].job
              /\ worker'[v].seen = worker[v].seen
              /\ worker'[v].rows = worker[v].rows
              /\ worker'[v].pc # "idle" =>
                    /\ worker'[v].changed = worker[v].changed \union {j}
                    /\ worker'[v].moved = worker[v].moved \union {o}
        /\ v = w => worker'[v].pc = "idle" /\ worker'[v].job = NoJob
  <2> SUFFICES ASSUME NEW v \in Workers PROVE
        /\ worker'[v] \in WorkerTx
        /\ v # w =>
              /\ worker'[v].pc = worker[v].pc
              /\ worker'[v].job = worker[v].job
              /\ worker'[v].seen = worker[v].seen
              /\ worker'[v].rows = worker[v].rows
              /\ worker'[v].pc # "idle" =>
                    /\ worker'[v].changed = worker[v].changed \union {j}
                    /\ worker'[v].moved = worker[v].moved \union {o}
        /\ v = w => worker'[v].pc = "idle" /\ worker'[v].job = NoJob
    OBVIOUS
  <2>1. CASE v = w
    BY <2>1, <1>c DEF Outdate, Idle, WorkerTx
  <2>2. CASE v # w
    <3>1. worker'[v] = Outdate({j}, {o})[v] /\ worker[v] \in WorkerTx
      BY <2>2, <1>c DEF Outdate, IInv, TypeOK
    <3>2. CASE worker[v].pc = "idle"
      BY <2>2, <3>1, <3>2 DEF Outdate
    <3>3. CASE worker[v].pc # "idle"
      <4>1. worker'[v] = [worker[v] EXCEPT !.changed = worker[v].changed \union {j},
                                           !.moved = worker[v].moved \union {o}]
        BY <3>1, <3>3 DEF Outdate
      <4>2. /\ worker[v].changed \union {j} \in SUBSET Mutations
            /\ worker[v].moved \union {o} \in SUBSET Orgs
        BY <3>1, <1>b DEF WorkerTx
      <4> HIDE DEF j, o
      <4>3. worker'[v] \in WorkerTx
        BY <3>1, <4>1, <4>2 DEF WorkerTx
      <4> QED BY <2>2, <3>1, <3>3, <4>1, <4>3 DEF WorkerTx
    <3> QED BY <3>2, <3>3
  <2> QED BY <2>1, <2>2
<1>f. /\ new \in Head
      /\ new.seen = {m \in worker[w].seen : OrgOf[m] = o}
      /\ new.full = IF job[j].force THEN new.seen ELSE head[o].full
  BY <1>b DEF Published, Head, IInv, TypeOK, WorkerTx
<1>g. \A p \in Orgs : head'[p] = IF p = o THEN new ELSE head[p]
  BY <1>b, <1>c DEF IInv, TypeOK
<1>h. head[o].seen \subseteq new.seen
  <2> DEFINE old == head[o]
  <2>1. old.seen \subseteq worker[w].seen
    BY <1>a, <1>b DEF IInv, SnapshotOK
  <2>2. \A m \in old.seen : m \in Mutations /\ OrgOf[m] = o
    BY <1>b DEF IInv, HeadOK, Committed
  <2>3. new.seen = {m \in worker[w].seen : OrgOf[m] = o}
    BY <1>f
  <2> HIDE DEF new, o, old
  <2>4. old.seen \subseteq new.seen
    BY <2>1, <2>2, <2>3
  <2> QED BY <2>4 DEF old
<1>i. \A m \in Committed : uses[m] = j => m \in new.seen /\ OrgOf[m] = o
  BY <1>a, <1>b, <1>f DEF IInv, SnapshotOK, UsesOK, Committed
<1>1. TypeOK'
  <2>1. worker' \in [Workers -> WorkerTx]
    BY <1>c, <1>e DEF Outdate
  <2>2. job' \in [Mutations -> Row]
    BY <1>b, <1>c, <1>d DEF IInv, TypeOK
  <2>3. head' \in [Orgs -> Head]
    BY <1>b, <1>c, <1>f DEF IInv, TypeOK
  <2>4. outbox' \in [requested : SUBSET Mutations, updated : SUBSET (Orgs \X Nat)]
    <3>1. head[o].version + 1 \in Nat
      BY <1>b DEF Head
    <3> QED BY <3>1, <1>b, <1>c DEF IInv, TypeOK
  <2> QED BY <1>a, <2>1, <2>2, <2>3, <2>4 DEF IInv, TypeOK
<1>2. UsesOK'
  BY <1>a, <1>b, <1>d DEF IInv, UsesOK, ClaimOK
<1>3. RowOK'
  BY <1>a, <1>b, <1>d DEF IInv, RowOK
<1>4. AttemptsLeft'
  BY <1>d DEF IInv, AttemptsLeft
<1>5. ClaimOK'
  BY <1>a, <1>b, <1>d, <1>e, ConstantsAssumption DEF IInv, ClaimOK, TypeOK, WorkerTx
<1>6. SnapshotOK'
  BY <1>a, <1>e, <1>g DEF IInv, SnapshotOK
<1>7. HeadOK'
  <2>1. new.full \subseteq new.seen
    BY <1>b, <1>f, <1>h DEF IInv, HeadOK
  <2>2. new.seen \subseteq {m \in Committed : OrgOf[m] = o}
    BY <1>a, <1>f DEF IInv, SnapshotOK
  <2> QED BY <2>1, <2>2, <1>a, <1>g DEF IInv, HeadOK
<1>8. NoLostRefresh'
  <2> SUFFICES ASSUME NEW m \in Committed, m \notin head'[OrgOf[m]].seen
               PROVE  job'[uses[m]].status \in {"pending", "failed"}
    BY <1>a DEF NoLostRefresh
  <2>1. uses[m] # j /\ uses[m] \in Mutations /\ OrgOf[m] \in Orgs
    BY <1>b, <1>g, <1>i, ConstantsAssumption DEF IInv, UsesOK, Committed
  <2>2. m \notin head[OrgOf[m]].seen
    BY <2>1, <1>g, <1>h
  <2> QED BY <2>1, <2>2, <1>d DEF IInv, NoLostRefresh
<1>9. ForceNotLost'
  <2> SUFFICES ASSUME NEW m \in Committed \intersect Forced,
                      m \notin head'[OrgOf[m]].full
               PROVE  \/ job'[uses[m]].status = "failed"
                      \/ job'[uses[m]].status = "pending" /\ job'[uses[m]].force
    BY <1>a DEF ForceNotLost
  <2>1. uses[m] \in Mutations /\ OrgOf[m] \in Orgs
    BY ConstantsAssumption DEF IInv, UsesOK, Committed
  <2>2. m \notin head[OrgOf[m]].full
    BY <2>1, <1>b, <1>f, <1>g, <1>h DEF IInv, HeadOK
  <2>3. \/ job[uses[m]].status = "failed"
        \/ job[uses[m]].status = "pending" /\ job[uses[m]].force
    BY <2>2 DEF IInv, ForceNotLost
  <2>4. uses[m] # j
    BY <2>1, <2>3, <1>b, <1>f, <1>g, <1>i
  <2> QED BY <2>1, <2>3, <2>4, <1>d
<1> QED BY <1>1, <1>2, <1>3, <1>4, <1>5, <1>6, <1>7, <1>8, <1>9 DEF IInv

\* A failed attempt leaves a legal row that keeps force_full.
LEMMA RetryRowFacts ==
    ASSUME NEW r \in Row, r.attempts < MaxAttempts
    PROVE  /\ RetryRow(r) \in Row
           /\ RetryRow(r).status \in {"pending", "failed"}
           /\ RetryRow(r).status = "pending" => RetryRow(r).attempts < MaxAttempts
           /\ RetryRow(r).force = r.force
<1>1. r.attempts + 1 \in 0 .. MaxAttempts
  BY ConstantsAssumption DEF Row
<1>2. CASE r.attempts + 1 >= MaxAttempts
  BY <1>1, <1>2, ConstantsAssumption DEF RetryRow, Row
<1>3. CASE ~(r.attempts + 1 >= MaxAttempts)
  <2>1. r.attempts + 1 < MaxAttempts
    BY <1>1, <1>3, ConstantsAssumption
  <2>2. RetryRow(r) = [r EXCEPT !.status = "pending", !.attempts = r.attempts + 1,
                                !.due = FALSE]
    BY <1>3 DEF RetryRow
  <2>3. RetryRow(r) = [status |-> "pending", attempts |-> r.attempts + 1,
                       due |-> FALSE, force |-> r.force]
    BY <2>2 DEF Row
  <2>4. r.force \in BOOLEAN
    BY DEF Row
  <2> QED BY <1>1, <2>1, <2>3, <2>4 DEF Row
<1> QED BY <1>2, <1>3

\* A failed attempt keeps the job pending, or marks it failed.
LEMMA FailAttemptStep ==
    ASSUME NEW w \in Workers, IInv, FailAttempt(w)
    PROVE  IInv'
<1> DEFINE j == worker[w].job
<1>a. /\ worker[w].pc = "building"
      /\ UNCHANGED <<tx, uses, head, outbox, crashes>>
      /\ Committed' = Committed
  BY DEF FailAttempt, Committed
<1>b. /\ j \in Mutations /\ job[j] \in Row /\ job[j].status = "pending"
      /\ job[j].attempts < MaxAttempts
  BY <1>a DEF IInv, TypeOK, WorkerTx, ClaimOK, AttemptsLeft
<1>c. /\ RetryRow(job[j]) \in Row
      /\ RetryRow(job[j]).status \in {"pending", "failed"}
      /\ RetryRow(job[j]).status = "pending" =>
            RetryRow(job[j]).attempts < MaxAttempts
      /\ RetryRow(job[j]).force = job[j].force
  BY <1>b, RetryRowFacts
<1>d. job' = [job EXCEPT ![j] = RetryRow(job[j])]
  BY DEF FailAttempt
<1>e. \A i \in Mutations : job'[i] = IF i = j THEN RetryRow(job[j]) ELSE job[i]
  BY <1>b, <1>d DEF IInv, TypeOK
<1>f. worker' = [Outdate({j}, {}) EXCEPT ![w] = Idle]
  BY DEF FailAttempt
<1>g. \A v \in Workers :
        /\ worker'[v] \in WorkerTx
        /\ v # w =>
              /\ worker'[v].pc = worker[v].pc
              /\ worker'[v].job = worker[v].job
              /\ worker'[v].seen = worker[v].seen
              /\ worker'[v].rows = worker[v].rows
              /\ worker'[v].moved = worker[v].moved
              /\ worker'[v].pc # "idle" =>
                    worker'[v].changed = worker[v].changed \union {j}
        /\ v = w => worker'[v].pc = "idle" /\ worker'[v].job = NoJob
  <2> SUFFICES ASSUME NEW v \in Workers PROVE
        /\ worker'[v] \in WorkerTx
        /\ v # w =>
              /\ worker'[v].pc = worker[v].pc
              /\ worker'[v].job = worker[v].job
              /\ worker'[v].seen = worker[v].seen
              /\ worker'[v].rows = worker[v].rows
              /\ worker'[v].moved = worker[v].moved
              /\ worker'[v].pc # "idle" =>
                    worker'[v].changed = worker[v].changed \union {j}
        /\ v = w => worker'[v].pc = "idle" /\ worker'[v].job = NoJob
    OBVIOUS
  <2>1. CASE v = w
    BY <2>1, <1>f DEF Outdate, Idle, WorkerTx
  <2>2. CASE v # w
    <3>1. worker'[v] = Outdate({j}, {})[v] /\ worker[v] \in WorkerTx
      BY <2>2, <1>f DEF Outdate, IInv, TypeOK
    <3>2. CASE worker[v].pc = "idle"
      BY <2>2, <3>1, <3>2 DEF Outdate
    <3>3. CASE worker[v].pc # "idle"
      <4>1. worker'[v] = [worker[v] EXCEPT !.changed = worker[v].changed \union {j},
                                           !.moved = worker[v].moved \union {}]
        BY <3>1, <3>3 DEF Outdate
      <4>2. /\ worker[v].changed \union {j} \in SUBSET Mutations
            /\ worker[v].moved \union {} \in SUBSET Orgs
        BY <3>1, <1>b DEF WorkerTx
      <4> HIDE DEF j
      <4>3. worker'[v] \in WorkerTx
        BY <3>1, <4>1, <4>2 DEF WorkerTx
      <4>4. /\ worker'[v].pc = worker[v].pc
            /\ worker'[v].job = worker[v].job
            /\ worker'[v].seen = worker[v].seen
            /\ worker'[v].rows = worker[v].rows
            /\ worker'[v].changed = worker[v].changed \union {j}
            /\ worker'[v].moved = worker[v].moved \union {}
        BY <3>1, <4>1 DEF WorkerTx
      <4>5. worker[v].moved \union {} = worker[v].moved
        OBVIOUS
      <4> QED BY <2>2, <4>3, <4>4, <4>5
    <3> QED BY <3>2, <3>3
  <2> QED BY <2>1, <2>2
<1>1. TypeOK'
  <2>1. worker' \in [Workers -> WorkerTx]
    BY <1>f, <1>g DEF Outdate
  <2>2. job' \in [Mutations -> Row]
    BY <1>b, <1>c, <1>d DEF IInv, TypeOK
  <2> QED BY <1>a, <2>1, <2>2 DEF IInv, TypeOK
<1>2. UsesOK'
  BY <1>a, <1>b, <1>c, <1>e DEF IInv, UsesOK, ClaimOK
<1>3. RowOK'
  BY <1>a, <1>b, <1>c, <1>e DEF IInv, RowOK
<1>4. AttemptsLeft'
  BY <1>c, <1>e DEF IInv, AttemptsLeft
<1>5. ClaimOK'
  BY <1>a, <1>b, <1>e, <1>g, ConstantsAssumption DEF IInv, ClaimOK, TypeOK, WorkerTx
<1>6. SnapshotOK'
  BY <1>a, <1>g DEF IInv, SnapshotOK
<1>7. HeadOK'
  BY <1>a DEF IInv, HeadOK
<1>8. NoLostRefresh'
  BY <1>a, <1>c, <1>e DEF IInv, NoLostRefresh, UsesOK, Committed
<1>9. ForceNotLost'
  BY <1>a, <1>b, <1>c, <1>e DEF IInv, ForceNotLost, UsesOK, Committed
<1> QED BY <1>1, <1>2, <1>3, <1>4, <1>5, <1>6, <1>7, <1>8, <1>9 DEF IInv

\* A retry that becomes due changes no status.
LEMMA RetryDueStep ==
    ASSUME NEW j \in Mutations, IInv, RetryDue(j)
    PROVE  IInv'
<1> USE ConstantsAssumption DEF RetryDue
<1>1. TypeOK'
  <2>1. job[j] \in Row
    BY DEF IInv, TypeOK
  <2>2. [job[j] EXCEPT !.due = TRUE] \in Row
    BY <2>1 DEF Row
  <2>3. job' = [job EXCEPT ![j] = [job[j] EXCEPT !.due = TRUE]]
    OBVIOUS
  <2>4. job' \in [Mutations -> Row]
    BY <2>2, <2>3 DEF IInv, TypeOK
  <2> QED BY <2>4 DEF IInv, TypeOK
<1>2. UsesOK'
  BY <1>1 DEF IInv, TypeOK, Row, WorkerTx, Head, Idle, Committed, Locked, UsesOK, RowOK, ClaimOK
<1>3. RowOK'
  BY <1>1 DEF IInv, TypeOK, Row, WorkerTx, Head, Idle, Committed, Locked, RowOK, UsesOK
<1>4. AttemptsLeft'
  BY <1>1 DEF IInv, TypeOK, Row, WorkerTx, Head, Idle, Committed, Locked, AttemptsLeft, UsesOK, ClaimOK
<1>5. ClaimOK'
  BY <1>1 DEF IInv, TypeOK, Row, WorkerTx, Head, Idle, Committed, Locked, ClaimOK, RowOK, UsesOK
<1>6. SnapshotOK'
  BY <1>1 DEF IInv, TypeOK, Row, WorkerTx, Head, Idle, Committed, Locked, SnapshotOK, HeadOK, UsesOK
<1>7. HeadOK'
  BY <1>1 DEF IInv, TypeOK, Row, WorkerTx, Head, Idle, Committed, Locked, HeadOK, SnapshotOK
<1>8. NoLostRefresh'
  BY <1>1 DEF IInv, TypeOK, Row, WorkerTx, Head, Idle, Committed, Locked, NoLostRefresh, UsesOK, RowOK, ClaimOK, SnapshotOK
<1>9. ForceNotLost'
  BY <1>1 DEF IInv, TypeOK, Row, WorkerTx, Head, Idle, Committed, Locked, ForceNotLost, UsesOK, RowOK, ClaimOK, SnapshotOK, HeadOK
<1> QED BY <1>1, <1>2, <1>3, <1>4, <1>5, <1>6, <1>7, <1>8, <1>9 DEF IInv

------------------------------------------------------------------------------
\* Every step preserves the inductive invariant.
LEMMA NextIInv == IInv /\ [Next]_vars => IInv'
<1> SUFFICES ASSUME IInv, [Next]_vars PROVE IInv'
  OBVIOUS
<1>1. ASSUME NEW m \in Mutations, Mutate(m) PROVE IInv'
  BY <1>1, CoalesceStep, InsertJobStep, CommitStep, AbortStep DEF Mutate
<1>2. ASSUME NEW w \in Workers, RunRefreshOnce(w) \/ Crash(w) PROVE IInv'
  <2>1. ASSUME ClaimConflict(w) \/ ClaimNone(w) \/ LockOrgBusy(w) \/ Crash(w)
        PROVE  IInv'
    <3>1. /\ worker' = [worker EXCEPT ![w] = Idle]
          /\ UNCHANGED <<tx, uses, job, head, outbox>>
      BY <2>1 DEF ClaimConflict, ClaimNone, LockOrgBusy, Crash
    <3>2. crashes' \in 0 .. MaxCrashes
      BY <2>1, ConstantsAssumption
         DEF IInv, TypeOK, ClaimConflict, ClaimNone, LockOrgBusy, Crash
    <3> QED BY <3>1, <3>2, RollbackStep
  <2> QED BY <1>2, <2>1, BeginStep, ClaimStep, LockOrgStep, PublishStep,
             FailAttemptStep DEF RunRefreshOnce
<1>3. ASSUME NEW j \in Mutations, RetryDue(j) PROVE IInv'
  BY <1>3, RetryDueStep
<1>4. CASE UNCHANGED vars
  BY <1>4 DEF vars, IInv, TypeOK, UsesOK, RowOK, AttemptsLeft, ClaimOK,
       SnapshotOK, HeadOK, NoLostRefresh, ForceNotLost, Committed
<1> QED BY <1>1, <1>2, <1>3, <1>4 DEF Next

\* The inductive invariant holds in every reachable state.
THEOREM Invariance == Spec => []IInv
BY InitIInv, NextIInv, PTL DEF Spec

\* Every state of the queue, its workers' transactions and the published heads
\* is well-typed: in particular no job is attempted more than MaxAttempts times.
THEOREM TypeCorrect == Spec => []TypeOK
<1>1. IInv => TypeOK BY DEF IInv
<1> QED BY <1>1, Invariance, PTL

\* queueDashboardRefresh and runRefreshOnce never lose a committed mutation,
\* nor its demand for a full rebuild, however transactions, claims, retries and
\* crashes interleave.
THEOREM RefreshNotLost == Spec => []RefreshesOwed
<1>1. IInv => RefreshesOwed BY DEF IInv, RefreshesOwed
<1> QED BY <1>1, Invariance, PTL

------------------------------------------------------------------------------
(* What a step does to the heads.                                         *)

\* A publication adds the next version over everything the head showed.
LEMMA PublishHead ==
    ASSUME NEW w \in Workers, IInv, Publish(w)
    PROVE  LET o == OrgOf[worker[w].job] IN
           /\ o \in Orgs
           /\ head' = [head EXCEPT ![o] = head'[o]]
           /\ head'[o].version = head[o].version + 1
           /\ head'[o].seen = {m \in worker[w].seen : OrgOf[m] = o}
           /\ head[o].seen \subseteq head'[o].seen
           /\ head'[o].seen \subseteq Committed
           /\ outbox'.updated = outbox.updated \union {<<o, head[o].version + 1>>}
<1> DEFINE o == OrgOf[worker[w].job]
<1>1. o \in Orgs /\ worker[w].pc = "building"
  BY ConstantsAssumption DEF Publish, IInv, TypeOK, WorkerTx, ClaimOK
<1>2. head' = [head EXCEPT ![o] = Published(w, o, head[o])]
  BY DEF Publish
<1>3. head'[o] = Published(w, o, head[o])
  BY <1>1, <1>2 DEF IInv, TypeOK
<1>4. /\ head'[o].version = head[o].version + 1
      /\ head'[o].seen = {m \in worker[w].seen : OrgOf[m] = o}
  BY <1>3 DEF Published
<1>5. head[o].seen \subseteq worker[w].seen /\ worker[w].seen \subseteq Committed
  BY <1>1 DEF IInv, SnapshotOK, Publish, WatermarkCurrent
<1>6. head[o].seen \subseteq head'[o].seen /\ head'[o].seen \subseteq Committed
  BY <1>1, <1>4, <1>5 DEF IInv, HeadOK
<1>7. outbox'.updated = outbox.updated \union {<<o, head[o].version + 1>>}
  BY DEF Publish, IInv, TypeOK
<1> QED BY <1>1, <1>2, <1>3, <1>4, <1>6, <1>7

\* No other step touches a published head.
LEMMA OnlyPublishMovesHead ==
    ASSUME TypeOK, [Next]_vars, \A w \in Workers : ~Publish(w)
    PROVE  head' = head /\ outbox'.updated = outbox.updated
BY DEF TypeOK, Next, vars, Mutate, RunRefreshOnce, Coalesce, InsertJob,
       CommitMutation, AbortMutation, Begin, Claim, ClaimConflict, ClaimNone, LockOrg,
       LockOrgBusy, FailAttempt, Crash, RetryDue

\* No publication withdraws what an earlier one showed, whatever the age of
\* its snapshot: the watermark row makes an outdated build fail.
THEOREM HeadMonotone == Spec => HeadNeverRegresses
<1> DEFINE Grows == \A o \in Orgs :
             \/ head'[o] = head[o]
             \/ /\ head[o].seen \subseteq head'[o].seen
                /\ head'[o].version = head[o].version + 1
<1>1. IInv /\ [Next]_vars => [Grows]_vars
  <2> SUFFICES ASSUME IInv, [Next]_vars PROVE Grows
    OBVIOUS
  <2>1. CASE \E w \in Workers : Publish(w)
    BY <2>1, PublishHead DEF IInv, TypeOK
  <2>2. CASE \A w \in Workers : ~Publish(w)
    BY <2>2, OnlyPublishMovesHead DEF IInv
  <2> QED BY <2>1, <2>2
<1> QED BY <1>1, Invariance, PTL DEF Spec, HeadNeverRegresses

\* The outbox announces exactly the versions published.
THEOREM VersionsAnnounced == Spec => []AnnouncedVersions
<1>1. Init => AnnouncedVersions
  BY DEF Init, AnnouncedVersions
<1>2. IInv /\ AnnouncedVersions /\ [Next]_vars => AnnouncedVersions'
  <2> SUFFICES ASSUME IInv, AnnouncedVersions, [Next]_vars
               PROVE  AnnouncedVersions'
    OBVIOUS
  <2>1. ASSUME NEW w \in Workers, Publish(w) PROVE AnnouncedVersions'
    <3> DEFINE o == OrgOf[worker[w].job]
    <3>1. /\ o \in Orgs
          /\ \A p \in Orgs : head'[p] = IF p = o THEN head'[o] ELSE head[p]
          /\ head'[o].version = head[o].version + 1
          /\ head[o].version \in Nat
          /\ outbox'.updated = outbox.updated \union {<<o, head[o].version + 1>>}
      BY <2>1, PublishHead DEF IInv, TypeOK, Head
    <3> DEFINE n == head[o].version
    <3>2. n \in Nat => 1 .. (n + 1) = (1 .. n) \union {n + 1}
      <4> HIDE DEF n
      <4> QED OBVIOUS
    <3>3. 1 .. head'[o].version = (1 .. n) \union {n + 1}
      BY <3>1, <3>2
    <3>4. \A p \in Orgs :
            {p} \X (1 .. head'[p].version) =
              IF p = o THEN ({o} \X (1 .. n)) \union {<<o, n + 1>>}
                       ELSE {p} \X (1 .. head[p].version)
      <4>1. {o} \X (1 .. head'[o].version) = ({o} \X (1 .. n)) \union {<<o, n + 1>>}
        <5> HIDE DEF o, n
        <5> QED BY <3>3
      <4>2. \A p \in Orgs : p # o => head'[p].version = head[p].version
        BY <3>1
      <4> HIDE DEF o, n
      <4> QED BY <4>1, <4>2
    <3>5. outbox.updated = UNION {{p} \X (1 .. head[p].version) : p \in Orgs}
      BY DEF AnnouncedVersions
    <3> HIDE DEF o, n
    <3>6. outbox'.updated = UNION {{p} \X (1 .. head'[p].version) : p \in Orgs}
      BY <3>1, <3>4, <3>5 DEF n
    <3> QED BY <3>6 DEF AnnouncedVersions
  <2>2. CASE \A w \in Workers : ~Publish(w)
    BY <2>2, OnlyPublishMovesHead DEF IInv, AnnouncedVersions
  <2> QED BY <2>1, <2>2
<1> QED BY <1>1, <1>2, Invariance, PTL DEF Spec

------------------------------------------------------------------------------
(* Refinement of DashboardFreshness.                                      *)

\* Steps that change neither tx, head nor any job's status show nothing.
LEMMA HiddenStep ==
    ASSUME IInv, tx' = tx \/ Committed' = Committed,
           head' = head,
           \A m \in Committed : uses'[m] = uses[m],
           \A j \in Mutations : job'[j].status = job[j].status
    PROVE  UNCHANGED Freshness!vars
<1>1. Committed' = Committed
  BY DEF Committed
<1>2. Owed' = Owed
  BY <1>1 DEF Owed, IInv, UsesOK, Committed
<1> QED BY <1>1, <1>2 DEF Freshness!vars

\* The queue implements the abstract freshness specification.
THEOREM FreshnessRefined == Spec => ImplementsFreshness
<1>1. Init => Freshness!Init
  BY DEF Init, Freshness!Init, Committed, Owed
<1>2. IInv /\ [Next]_vars => [Freshness!Next]_(Freshness!vars)
  <2> SUFFICES ASSUME IInv, [Next]_vars
               PROVE  Freshness!Next \/ UNCHANGED Freshness!vars
    OBVIOUS
  <2>1. ASSUME NEW m \in Mutations, CommitMutation(m)
        PROVE  Freshness!Next
    <3>1. /\ tx[m] = "open" /\ tx' = [tx EXCEPT ![m] = "committed"]
          /\ UNCHANGED <<uses, head>>
          /\ job' = [job EXCEPT ![uses[m]] = QueuedRow(m)]
      BY <2>1 DEF CommitMutation
    <3>2. /\ uses[m] \in Mutations
          /\ job[uses[m]].status = IF uses[m] = m THEN "none" ELSE "pending"
          /\ job[uses[m]] \in Row
      BY <3>1 DEF IInv, UsesOK, TypeOK
    <3>3. QueuedRow(m).status = "pending"
      BY <3>2 DEF QueuedRow, Row
    <3>4. \A j \in Mutations :
            job'[j].status = IF j = uses[m] THEN "pending" ELSE job[j].status
      BY <3>1, <3>2, <3>3 DEF IInv, TypeOK
    <3>5. Committed' = Committed \union {m} /\ m \notin Committed
      BY <3>1 DEF Committed, IInv, TypeOK
    <3>6. Owed' = Owed \union {m}
      <4>1. m \notin head[OrgOf[m]].seen
        BY <3>5, ConstantsAssumption DEF IInv, HeadOK
      <4>2. \A i \in Committed :
              /\ uses[i] \in Mutations
              /\ job'[uses[i]].status = "pending" <=> job[uses[i]].status = "pending"
        BY <3>2, <3>4 DEF IInv, UsesOK, Committed
      <4> QED BY <3>1, <3>2, <3>4, <3>5, <4>1, <4>2 DEF Owed
    <3> QED BY <3>1, <3>5, <3>6 DEF Freshness!Next, Freshness!Commit
  <2>2. ASSUME NEW w \in Workers, Publish(w)
        PROVE  Freshness!Next
    <3> DEFINE j == worker[w].job
               o == OrgOf[j]
               S == head'[o].seen
    <3>1. /\ o \in Orgs
          /\ \A p \in Orgs : head'[p] = IF p = o THEN head'[o] ELSE head[p]
          /\ head[o].seen \subseteq S /\ S \subseteq Committed
          /\ S = {m \in worker[w].seen : OrgOf[m] = o}
      BY <2>2, PublishHead DEF IInv, TypeOK
    <3>2. /\ Committed' = Committed /\ uses' = uses
          /\ j \in Mutations /\ job[j].status = "pending"
          /\ j \in worker[w].rows \ worker[w].changed
          /\ worker[w].pc # "idle"
      BY <2>2 DEF Publish, Committed, IInv, TypeOK, WorkerTx, ClaimOK
    <3>3. \A i \in Mutations :
            job'[i].status = IF i = j THEN "complete" ELSE job[i].status
      BY <2>2, <3>2 DEF Publish, IInv, TypeOK, Row
    <3>4. \A m \in Committed : uses[m] \in Mutations /\ (uses[m] = j => m \in S)
      BY <3>1, <3>2 DEF IInv, SnapshotOK, UsesOK, Committed
    <3>5. Owed' = Owed \ S
      BY <3>1, <3>2, <3>3, <3>4, ConstantsAssumption DEF Owed, Committed
    <3>6. [p \in Orgs |-> head[p].seen]' =
            [[p \in Orgs |-> head[p].seen] EXCEPT ![o] = S]
      BY <3>1
    <3>7. S \subseteq Committed \intersect Freshness!Of(o) /\ S \in SUBSET Mutations
      BY <3>1 DEF Freshness!Of, Committed
    <3>8. PICK p \in Orgs, T \in SUBSET Mutations : p = o /\ T = S
      BY <3>1, <3>7
    <3>9. Freshness!Show(p, T)
      BY <3>1, <3>2, <3>5, <3>6, <3>7, <3>8 DEF Freshness!Show
    <3> QED BY <3>9 DEF Freshness!Next
  <2>3. ASSUME NEW w \in Workers, FailAttempt(w)
        PROVE  Freshness!Next
    <3> DEFINE j == worker[w].job
               o == OrgOf[j]
               G == Owed \ Owed'
    <3>1. /\ UNCHANGED <<tx, uses, head>> /\ Committed' = Committed
          /\ j \in Mutations /\ o \in Orgs /\ job[j].status = "pending"
          /\ job' = [job EXCEPT ![j] = RetryRow(job[j])]
      BY <2>3, ConstantsAssumption
         DEF FailAttempt, Committed, IInv, TypeOK, WorkerTx, ClaimOK
    <3>2. \A i \in Mutations : i # j => job'[i].status = job[i].status
      BY <3>1 DEF IInv, TypeOK
    <3>3. Owed' \subseteq Owed /\ G \subseteq {m \in Committed : uses[m] = j}
      BY <3>1, <3>2 DEF Owed, Committed, IInv, UsesOK
    <3>4. G \subseteq Owed \intersect Freshness!Of(o) /\ G \in SUBSET Mutations
      BY <3>3 DEF Freshness!Of, IInv, UsesOK, Committed
    <3>5. Owed' = Owed \ G
      BY <3>3
    <3>6. Freshness!GiveUp(o, G)
      BY <3>1, <3>4, <3>5 DEF Freshness!GiveUp
    <3> QED BY <3>1, <3>4, <3>6 DEF Freshness!Next
  <2>4. ASSUME NEW m \in Mutations, NEW j \in Mutations,
               Coalesce(m, j) \/ InsertJob(m) \/ AbortMutation(m)
        PROVE  UNCHANGED Freshness!vars
    <3>1. Committed' = Committed /\ UNCHANGED <<job, head>>
      BY <2>4 DEF Coalesce, InsertJob, AbortMutation, Committed, IInv, TypeOK
    <3>2. \A i \in Committed : uses'[i] = uses[i]
      BY <2>4 DEF Coalesce, InsertJob, AbortMutation, Committed, IInv, TypeOK
    <3> QED BY <3>1, <3>2, HiddenStep
  <2>5. ASSUME NEW j \in Mutations, RetryDue(j) PROVE UNCHANGED Freshness!vars
    <3>1. UNCHANGED <<tx, uses, head>>
      BY <2>5 DEF RetryDue
    <3>2. \A i \in Mutations : job'[i].status = job[i].status
      BY <2>5 DEF RetryDue, IInv, TypeOK, Row
    <3> QED BY <3>1, <3>2, HiddenStep
  <2>6. ASSUME UNCHANGED <<tx, uses, job, head>> PROVE UNCHANGED Freshness!vars
    BY <2>6, HiddenStep
  <2> QED
    BY <2>1, <2>2, <2>3, <2>4, <2>5, <2>6
    DEF Next, vars, Mutate, RunRefreshOnce, Begin, Claim, ClaimConflict,
        ClaimNone, LockOrg, LockOrgBusy, Crash
<1> QED BY <1>1, <1>2, Invariance, PTL DEF Spec, ImplementsFreshness, Freshness!Spec
=============================================================================
