--------------------------- MODULE WorkerProcess ----------------------------
(***************************************************************************)
(* One worker process (packages/runtime/src/commands/run-worker.ts): the  *)
(* safety-sweep loop, the PostgreSQL LISTEN session with its reconnects   *)
(* (postgres-refresh-listener.ts), the batches both of them share, and    *)
(* SIGTERM.  Each action is what the event loop runs between two awaits   *)
(* that matter.                                                           *)
(*                                                                        *)
(* A job is work in the durable queue, committed with one notification;   *)
(* what a rebuild does is module RefreshQueue.  Hints carry no data that  *)
(* reconcileBatch uses, so the coalesced request is one flag.             *)
(*                                                                        *)
(* A definition Name_Variant is a plausible bug in the code that Name      *)
(* models; the specification does not use it.                             *)
(***************************************************************************)
EXTENDS Naturals, FiniteSets

CONSTANTS Jobs,
          BatchSize,   \* REFRESH_WORKER_BATCH_SIZE
          MaxFailures    \* bound on lost sessions and failed batches or probes

ASSUME WorkerAssumption ==
    /\ BatchSize \in Nat \ {0}
    /\ MaxFailures \in Nat

VARIABLES job,       \* "none", then "pending" once committed, then "done"
          hints,     \* notifications on their way to the LISTEN session
          session,   \* the listener's connection: where run() is, and
                     \*   lost: invalidated, joined: awaits the reconciliation
          pending,   \* another reconciliation was asked for
          active,    \* activeReconciliation is set
          batch,     \* the shared activeBatch: phase and jobs taken
          sweep,     \* the safety-sweep loop
          stopping,  \* SIGTERM was received
          stopCalls, \* calls of listener.stop(): 0, 1 or 2
          closed,    \* worker.close() was called
          failures

workerVars == <<job, hints, session, pending, active, batch, sweep, stopping,
          stopCalls, closed, failures>>

NoBatch == [phase |-> "none", taken |-> 0]
NewBatch == [phase |-> "refresh", taken |-> 0]

SessionState == [pc : {"connecting", "connected", "startup", "ready",
                       "failing", "closing", "retrying", "stopped"},
                 lost : BOOLEAN, joined : BOOLEAN]

BatchState == [phase : {"none", "refresh", "flush"}, taken : 0 .. BatchSize]

WorkerTypeOK ==
    /\ job \in [Jobs -> {"none", "pending", "done"}]
    /\ hints \subseteq Jobs
    /\ session \in SessionState
    /\ pending \in BOOLEAN
    /\ active \in BOOLEAN
    /\ batch \in BatchState
    /\ sweep \in {"waiting", "probed", "batch", "done"}
    /\ stopping \in BOOLEAN
    /\ stopCalls \in 0 .. 2
    /\ closed \in BOOLEAN
    /\ failures \in 0 .. MaxFailures

Session(pc) == [pc |-> pc, lost |-> FALSE, joined |-> FALSE]

WorkerInit ==
    /\ job = [j \in Jobs |-> "none"]
    /\ hints = {}
    /\ session = Session("connecting")
    /\ pending = FALSE
    /\ active = FALSE
    /\ batch = NoBatch
    /\ sweep = "waiting"
    /\ stopping = FALSE
    /\ stopCalls = 0
    /\ closed = FALSE
    /\ failures = 0

ListenerStopping == stopCalls > 0

------------------------------------------------------------------------------
\* A mutator commits a job; NOTIFY reaches the session if it has registered.
CommitJob(j) ==
    /\ job[j] = "none"
    /\ job' = [job EXCEPT ![j] = "pending"]
    /\ hints' = IF session.pc \in {"startup", "ready"} /\ ~session.lost
                THEN hints \union {j} ELSE hints
    /\ UNCHANGED <<session, pending, active, batch, sweep, stopping, stopCalls,
                   closed, failures>>

\* reconcileBatch: join the running batch or start one.
ReconcileBatch == batch' = IF batch.phase = "none" THEN NewBatch ELSE batch

\* queueReconciliation: note the request; the loop takes it at once unless one
\* is already active.
QueueReconciliation ==
    IF ListenerStopping THEN UNCHANGED <<pending, active, batch>>
    ELSE /\ pending' = active
         /\ active' = TRUE
         /\ IF active THEN UNCHANGED batch ELSE ReconcileBatch

------------------------------------------------------------------------------
(* The listener: run().                                                   *)

Connect ==
    /\ session.pc = "connecting"
    /\ session' = Session(IF ListenerStopping THEN "closing" ELSE "connected")
    /\ UNCHANGED <<job, hints, pending, active, batch, sweep, stopping,
                   stopCalls, closed, failures>>

\* LISTEN succeeds, and the session awaits a first reconciliation.
Listen ==
    /\ session.pc = "connected"
    /\ session' = IF ListenerStopping THEN Session("closing")
                  ELSE [Session("startup") EXCEPT !.joined = TRUE]
    /\ QueueReconciliation
    /\ UNCHANGED <<job, hints, sweep, stopping, stopCalls, closed, failures>>

\* onNotification
Notified(j) ==
    /\ j \in hints
    /\ session.pc \in {"startup", "ready"} /\ ~session.lost
    /\ hints' = hints \ {j}
    /\ QueueReconciliation
    /\ session' = [session EXCEPT !.joined = @ \/ ~ListenerStopping]
    /\ UNCHANGED <<job, sweep, stopping, stopCalls, closed, failures>>

\* Invalidate the session: run() notices at once while it awaits the close of
\* a ready session, a connect or a LISTEN, and after its first reconciliation
\* otherwise.  One that never listened is "failing": the client is ended while
\* the listener's state still says "connecting".
Invalidated(s) ==
    IF s.pc \in {"connecting", "connected"} THEN Session("failing")
    ELSE IF s.pc = "ready" THEN Session("closing")
    ELSE IF s.pc = "startup" THEN [s EXCEPT !.lost = TRUE]
    ELSE s

\* The server closes the connection, or connect or LISTEN fails.
SessionLost ==
    /\ session.pc \in {"connecting", "connected", "startup", "ready"}
    /\ ~session.lost
    /\ failures < MaxFailures
    /\ failures' = failures + 1
    /\ session' = Invalidated(session)
    /\ hints' = {}
    /\ UNCHANGED <<job, pending, active, batch, sweep, stopping, stopCalls,
                   closed>>

\* The finally block ends the client.
SessionClosed ==
    /\ session.pc \in {"failing", "closing"}
    /\ session' = Session(IF ListenerStopping THEN "stopped" ELSE "retrying")
    /\ hints' = {}
    /\ UNCHANGED <<job, pending, active, batch, sweep, stopping, stopCalls,
                   closed, failures>>

\* The reconnect delay passes, or stop() cancels it.
Reconnect ==
    /\ session.pc = "retrying"
    /\ session' = Session(IF ListenerStopping THEN "stopped" ELSE "connecting")
    /\ UNCHANGED <<job, hints, pending, active, batch, sweep, stopping,
                   stopCalls, closed, failures>>

------------------------------------------------------------------------------
(* The batch.                                                             *)

\* index < batchSize && !stopping
MayTakeJob == batch.taken < BatchSize /\ ~stopping

TakeJob(j) ==
    /\ batch.phase = "refresh"
    /\ MayTakeJob
    /\ job[j] = "pending"
    /\ job' = [job EXCEPT ![j] = "done"]
    /\ batch' = [batch EXCEPT !.taken = @ + 1]
    /\ UNCHANGED <<hints, session, pending, active, sweep, stopping, stopCalls,
                   closed, failures>>

\* runRefreshOnce is idle, the batch is full or the process is stopping.
StartFlush ==
    /\ batch.phase = "refresh"
    /\ ~MayTakeJob \/ \A j \in Jobs : job[j] # "pending"
    /\ batch' = [NoBatch EXCEPT !.phase = "flush"]
    /\ UNCHANGED <<job, hints, session, pending, active, sweep, stopping,
                   stopCalls, closed, failures>>

\* What the session does when the reconciliation it awaits has ended.
AfterReconciliation(s) ==
    IF ~s.joined THEN s
    ELSE IF s.pc # "startup" THEN [s EXCEPT !.joined = FALSE]
    ELSE Session(IF ListenerStopping \/ s.lost THEN "closing" ELSE "ready")

\* while (pending && !stopping)
LoopContinues == active /\ pending /\ ~ListenerStopping

\* The batch resolves: the reconciliation loop goes round again or ends, and
\* the sweep that awaited the batch goes back to its timer.
BatchDone ==
    /\ batch.phase = "flush"
    /\ sweep' = IF sweep = "batch" THEN "waiting" ELSE sweep
    /\ IF LoopContinues
       THEN /\ pending' = FALSE
            /\ batch' = NewBatch
            /\ UNCHANGED <<active, session>>
       ELSE /\ active' = FALSE
            /\ batch' = NoBatch
            /\ session' = AfterReconciliation(session)
            /\ UNCHANGED pending
    /\ UNCHANGED <<job, hints, stopping, stopCalls, closed, failures>>

AfterFailure_StartupOnly(s) ==
    IF s.joined /\ s.pc = "startup" THEN Session("closing") ELSE s

\* A session that awaits a failed reconciliation is invalidated.
AfterFailure(s) ==
    IF s.joined /\ s.pc \in {"startup", "ready"} THEN Session("closing") ELSE s

\* The batch rejects, as it may once the pool is closed: everyone awaiting it
\* gives up, and the session reconnects.
BatchFails ==
    /\ batch.phase # "none"
    /\ closed \/ failures < MaxFailures
    /\ failures' = IF closed THEN failures ELSE failures + 1
    /\ sweep' = IF sweep = "batch" THEN "waiting" ELSE sweep
    /\ active' = FALSE
    /\ batch' = NoBatch
    /\ session' = AfterFailure(session)
    /\ UNCHANGED <<job, hints, pending, stopping, stopCalls, closed>>

------------------------------------------------------------------------------
(* The safety sweep.                                                      *)

SweepFinds_Nothing == FALSE

\* probeWork: an eligible job.  (An unpublished outbox event alone also starts
\* a batch, which then takes no job.)
SweepFinds == \E j \in Jobs : job[j] = "pending"

\* The answer is used after an await: what it found may have been taken since.
SweepProbes ==
    /\ sweep = "waiting"
    /\ ~stopping
    /\ SweepFinds
    /\ sweep' = "probed"
    /\ UNCHANGED <<job, hints, session, pending, active, batch, stopping,
                   stopCalls, closed, failures>>

SweepFindsOutbox ==
    /\ sweep = "waiting"
    /\ ~stopping
    /\ \A j \in Jobs : job[j] # "pending"
    /\ sweep' = "probed"
    /\ UNCHANGED <<job, hints, session, pending, active, batch, stopping,
                   stopCalls, closed, failures>>

\* runBatch, which nobody keeps from starting once SIGTERM has come.
SweepStarts ==
    /\ sweep = "probed"
    /\ sweep' = "batch"
    /\ ReconcileBatch
    /\ UNCHANGED <<job, hints, session, pending, active, stopping, stopCalls,
                   closed, failures>>

------------------------------------------------------------------------------
(* Shutdown.                                                              *)

\* SIGTERM: a listener that is connecting, or ends a client that could not
\* connect, is stopped right away.
Signal ==
    /\ ~stopping
    /\ stopping' = TRUE
    /\ stopCalls' = IF session.pc \in {"connecting", "connected", "failing"}
                  THEN 1 ELSE 0
    /\ UNCHANGED <<job, hints, session, pending, active, batch, sweep, closed,
                   failures>>

\* The sweep loop ends, and the finally block calls listener.stop().
LoopEnds ==
    /\ sweep = "waiting"
    /\ stopping
    /\ sweep' = "done"
    /\ stopCalls' = stopCalls + 1
    /\ UNCHANGED <<job, hints, session, pending, active, batch, stopping,
                   closed, failures>>

StopCloses_ConnectingOnly == {"connecting", "connected"}

\* currentSessionClose, and currentClientEnd while connecting
StopCloses == {"connecting", "connected", "ready"}

\* The first stop() has awaited the active reconciliation: close the session.
StopSession ==
    /\ ListenerStopping
    /\ ~active
    /\ session.pc \in StopCloses
    /\ session' = Session("closing")
    /\ UNCHANGED <<job, hints, pending, active, batch, sweep, stopping,
                   stopCalls, closed, failures>>

\* Nobody waits for the reconciliation.
StopReturns_Early == session.pc = "stopped"

\* The stop() of the finally block returns: it awaits run(), and the active
\* reconciliation only if it is the first call.
StopReturns == session.pc = "stopped" /\ (stopCalls = 1 => ~active)

\* await worker.close(): the planner threads and the pool end.
Close ==
    /\ sweep = "done"
    /\ StopReturns
    /\ ~closed
    /\ closed' = TRUE
    /\ UNCHANGED <<job, hints, session, pending, active, batch, sweep,
                   stopping, stopCalls, failures>>

------------------------------------------------------------------------------
Listener ==
    \/ Connect
    \/ Listen
    \/ \E j \in Jobs : Notified(j)
    \/ SessionClosed
    \/ Reconnect

Batch ==
    \/ \E j \in Jobs : TakeJob(j)
    \/ StartFlush
    \/ BatchDone

Shutdown == LoopEnds \/ StopSession \/ Close

WorkerNext ==
    \/ \E j \in Jobs : CommitJob(j)
    \/ Listener
    \/ SessionLost
    \/ Batch
    \/ BatchFails
    \/ SweepProbes
    \/ SweepFindsOutbox
    \/ SweepStarts
    \/ Signal
    \/ Shutdown

\* Timers fire and promises settle.  Commits, failures and signals are free.
WorkerFairness ==
    /\ WF_workerVars(Listener)
    /\ WF_workerVars(Batch)
    /\ WF_workerVars(SweepProbes)
    /\ WF_workerVars(SweepStarts)
    /\ WF_workerVars(LoopEnds)
    /\ WF_workerVars(StopSession)
    /\ WF_workerVars(Close)

WorkerSpec == WorkerInit /\ [][WorkerNext]_workerVars

WorkerFairSpec == WorkerSpec /\ WorkerFairness

------------------------------------------------------------------------------
\* worker.close() ends the planner threads and the pool only when no batch is
\* running, unless SIGTERM found the listener connecting: then the first
\* stop() awaits the batch, but the second one, which close() waits for, does
\* not (postgres-refresh-listener.ts:335-339, run-worker.ts:54-61).
CloseAwaitsBatch == closed /\ batch.phase # "none" => stopCalls = 2

\* An active reconciliation always has a batch it awaits, and a hint taken
\* while it runs is kept for another round: coalescing never leaves a request
\* behind with nobody to serve it, except after a failed batch, whose session
\* reconnects and reconciles again.
HintsAreServed ==
    /\ active => batch.phase # "none"
    /\ pending /\ ~active => session.pc # "ready" \/ ListenerStopping

\* A committed job is eventually taken, or the process was told to stop: the
\* sweep catches hints that were lost with a session or absorbed by a batch
\* that no longer claims jobs.
EventuallyTaken ==
    \A j \in Jobs : job[j] = "pending" ~> job[j] = "done" \/ stopping

\* After SIGTERM the process always comes to close its resources: sweep loop,
\* listener and batch never wait for each other in a circle.
EventuallyCloses == stopping ~> closed
=============================================================================
