---------------------------- MODULE PendingUploads ----------------------------
(***************************************************************************)
(* The life of one pending artifact upload:                               *)
(* apps/web/lib/pending-artifact-upload-server.ts over the row lock of    *)
(* packages/db/src/pending-artifact-uploads.ts, the temporary object and  *)
(* resumable session of google-cloud-artifact-provider.ts, and            *)
(* bindPendingUpload of packages/db/src/artifacts.ts.                     *)
(*                                                                        *)
(* Uploads meet only in their own row and object, so one upload is        *)
(* modelled, with any number of request handlers and operator clean-ups.  *)
(* A handler that holds the row lock still talks to the provider in       *)
(* several calls; a crash between two of them rolls the row back and      *)
(* leaves the provider as it is, and a chunk the handler gave up on may   *)
(* still arrive.  Owner, intent and organization never change once the    *)
(* row exists and are left out, with the cleanup_error text.  Bytes are   *)
(* counted in units of Size; names Name_Variant are plausible bugs in the *)
(* code that Name models and no part of the specification.                *)
(***************************************************************************)
EXTENDS Integers, FiniteSets

CONSTANTS Handlers,   \* concurrent requests and clean-up commands
          Targets,    \* business attachments a consume may bind the upload to
          Size,       \* expected_byte_size
          MaxFaults,  \* bound on crashes and failed provider clean-up calls
          NoHandler, NoTarget

ASSUME UploadAssumption ==
    /\ Size \in Nat \ {0}
    /\ MaxFaults \in Nat
    /\ NoHandler \notin Handlers
    /\ NoTarget \notin Targets

VARIABLES row,       \* core.pending_artifact_uploads
          lock,      \* who holds the row FOR UPDATE
          store,     \* the provider's resumable session and temporary object
          inflight,  \* chunks on their way to the provider
          content,   \* what the browser sends: good, invalid or missized bytes
          expired,   \* expires_at <= now()
          artifacts, \* targets with an artifact committed from this upload
          handler,   \* each handler's program counter and local variables
          faults

vars == <<row, lock, store, inflight, content, expired, artifacts, handler,
          faults>>

Chunks == {c \in [from : 0 .. Size, upto : 0 .. Size] : c.from < c.upto}

NoChunk == [from |-> 0, upto |-> 0]

Statuses == {"absent", "uploading", "uploaded", "ready", "rejected",
             "abandoned", "finalized"}

Discarding == {"cancel", "read", "delete", "commit"}

PCs == {"idle", "started", "sent", "listed", "prepared", "storing", "bound",
        "confirmed", "deleted"} \union Discarding

TypeOK ==
    /\ row \in [status : Statuses, confirmed : 0 .. Size, session : BOOLEAN,
                generation : {0, 1}, binding : Targets \union {NoTarget},
                cleaned : BOOLEAN]
    /\ lock \in Handlers \union {NoHandler}
    /\ store \in [session : {"none", "open", "done", "gone"},
                  persisted : 0 .. Size, object : {0, 1}]
    /\ inflight \subseteq Chunks
    /\ content \in {"good", "invalid", "missized"}
    /\ expired \in BOOLEAN
    /\ artifacts \subseteq Targets
    /\ handler \in [Handlers -> [pc : PCs, job : {"none", "abandon", "cleanup"},
                                 chunk : Chunks \union {NoChunk},
                                 generation : {0, 1}, fresh : BOOLEAN,
                                 target : Targets \union {NoTarget}]]
    /\ faults \in 0 .. MaxFaults

Idle == [pc |-> "idle", job |-> "none", chunk |-> NoChunk, generation |-> 0,
         fresh |-> FALSE, target |-> NoTarget]

NewRow == [status |-> "uploading", confirmed |-> 0, session |-> TRUE,
           generation |-> 0, binding |-> NoTarget, cleaned |-> FALSE]

Init ==
    /\ row = [NewRow EXCEPT !.status = "absent", !.session = FALSE]
    /\ lock = NoHandler
    /\ store = [session |-> "none", persisted |-> 0, object |-> 0]
    /\ inflight = {}
    /\ content \in {"good", "invalid", "missized"}
    /\ expired = FALSE
    /\ artifacts = {}
    /\ handler = [h \in Handlers |-> Idle]
    /\ faults = 0

------------------------------------------------------------------------------
Goto(h, pc) == handler' = [handler EXCEPT ![h].pc = pc]

Finish(h) ==
    /\ handler' = [handler EXCEPT ![h] = Idle]
    /\ lock' = IF lock = h THEN NoHandler ELSE lock

\* withLockedUpload may open its transaction: the row exists and is free.
Lockable == row.status # "absent" /\ lock = NoHandler

\* A browser request gets past assertAuthorizedRecord under the row lock.
Authorized(h) == handler[h].pc = "idle" /\ Lockable /\ ~expired

------------------------------------------------------------------------------
(* startPendingArtifactUpload *)

StartResumable(h) ==
    /\ handler[h].pc = "idle"
    /\ row.status = "absent"
    /\ store.session = "none"
    /\ store' = [store EXCEPT !.session = "open"]
    /\ Goto(h, "started")
    /\ UNCHANGED <<row, lock, inflight, content, expired, artifacts, faults>>

StartRecords(h) ==
    /\ handler[h].pc = "started"
    /\ row' = NewRow
    /\ Finish(h)
    /\ UNCHANGED <<store, inflight, content, expired, artifacts, faults>>

\* The insert fails, or commits without its answer arriving; the session is
\* cancelled on a best-effort basis.
StartFails(h) ==
    /\ handler[h].pc = "started"
    /\ row' \in {row, NewRow}
    /\ \E s \in {"open", "gone"} : store' = [store EXCEPT !.session = s]
    /\ Finish(h)
    /\ UNCHANGED <<inflight, content, expired, artifacts, faults>>

------------------------------------------------------------------------------
(* reconcileUpload, shared by get and complete *)

\* What the provider reports of a live session is saved as it is.
Progress ==
    [row EXCEPT !.confirmed = store.persisted,
                !.status = IF store.session = "done" THEN "uploaded"
                           ELSE "uploading"]

\* The session is gone, and the object it was to make is there.
Recovered ==
    [row EXCEPT !.confirmed = Size, !.status = "uploaded",
                !.session = FALSE, !.generation = store.object]

ExactObject == store.object # 0 /\ content # "missized"

SessionLive == store.session \in {"open", "done"}

Reconcilable == row.status = "uploading" => SessionLive \/ ExactObject

Reconciled ==
    IF row.status # "uploading" THEN row
    ELSE IF SessionLive THEN Progress ELSE Recovered

GetUpload(h) ==
    /\ Authorized(h)
    /\ Reconcilable
    /\ row' = Reconciled
    /\ UNCHANGED <<lock, store, inflight, content, expired, artifacts,
                   handler, faults>>

------------------------------------------------------------------------------
(* appendPendingArtifactUploadChunk *)

AppendSends(h, upto) ==
    LET c == [from |-> row.confirmed, upto |-> upto] IN
    /\ Authorized(h)
    /\ row.status = "uploading"
    /\ c \in Chunks
    /\ lock' = h
    /\ inflight' = inflight \union {c}
    /\ handler' = [handler EXCEPT ![h].pc = "sent", ![h].chunk = c]
    /\ UNCHANGED <<row, store, content, expired, artifacts, faults>>

\* An answer to the chunk or, after a time-out or a 5xx, to the status query
\* that follows it: the chunk itself may still be on its way.
AppendSaves(h) ==
    /\ handler[h].pc = "sent"
    /\ SessionLive
    /\ row' = Progress
    /\ Finish(h)
    /\ UNCHANGED <<store, inflight, content, expired, artifacts, faults>>

\* No usable answer.  A last chunk may have made the object all the same.
AppendFails(h) ==
    /\ handler[h].pc = "sent"
    /\ row' = IF handler[h].chunk.upto = Size /\ ExactObject
              THEN Recovered ELSE row
    /\ Finish(h)
    /\ UNCHANGED <<store, inflight, content, expired, artifacts, faults>>

\* The provider: a session takes the bytes that follow those it has, and its
\* last byte makes the object.
ChunkArrives(c) ==
    /\ c \in inflight
    /\ store.session = "open"
    /\ c.from <= store.persisted
    /\ inflight' = inflight \ {c}
    /\ store' =
         IF c.upto = Size
         THEN [session |-> "done", persisted |-> Size, object |-> 1]
         ELSE [store EXCEPT !.persisted =
                 IF c.upto > @ THEN c.upto ELSE @]
    /\ UNCHANGED <<row, lock, content, expired, artifacts, handler, faults>>

ChunkLost(c) ==
    /\ c \in inflight
    /\ inflight' = inflight \ {c}
    /\ UNCHANGED <<row, lock, store, content, expired, artifacts, handler,
                   faults>>

\* The provider forgets a session, finished or not (404, 410 and 499).
SessionVanishes ==
    /\ SessionLive
    /\ store' = [store EXCEPT !.session = "gone"]
    /\ UNCHANGED <<row, lock, inflight, content, expired, artifacts, handler,
                   faults>>

------------------------------------------------------------------------------
(* completePendingArtifactUpload *)

Completed ==
    [Reconciled EXCEPT !.confirmed = Size, !.session = FALSE,
                       !.status = "ready", !.generation = store.object]

\* exactTemporaryObject and validatePendingUploadBytes accept the object.
Validated == ExactObject /\ content = "good"

CompleteReady(h) ==
    /\ Authorized(h)
    /\ Reconcilable
    /\ Reconciled.status = "uploaded"
    /\ Validated
    /\ row' = Completed
    /\ UNCHANGED <<lock, store, inflight, content, expired, artifacts,
                   handler, faults>>

\* Bytes that fail their checks reject the upload; missing or unreachable
\* ones change nothing.
CompleteRejects(h) ==
    /\ Authorized(h)
    /\ store.object # 0
    /\ \/ /\ row.status = "uploading"
          /\ ~Reconcilable
          /\ row' = [row EXCEPT !.status = "rejected"]
       \/ /\ Reconcilable
          /\ Reconciled.status = "uploaded"
          /\ ~Validated
          /\ row' = [Reconciled EXCEPT !.status = "rejected"]
    /\ UNCHANGED <<lock, store, inflight, content, expired, artifacts,
                   handler, faults>>

------------------------------------------------------------------------------
(* abandonPendingArtifactUpload and cleanupPendingArtifactUploads *)

Abandonable == row.status # "finalized"

AbandonLocks(h) ==
    /\ Authorized(h)
    /\ Abandonable
    /\ lock' = h
    /\ handler' = [handler EXCEPT ![h].pc = "cancel", ![h].job = "abandon"]
    /\ UNCHANGED <<row, store, inflight, content, expired, artifacts, faults>>

Eligible_FailedOnly ==
    /\ ~row.cleaned
    /\ row.status \in {"abandoned", "rejected"}

\* The WHERE clause of listCleanupCandidateIds, checked again under the lock.
Eligible ==
    /\ ~row.cleaned
    /\ row.status # "absent"
    /\ row.status \in {"finalized", "abandoned", "rejected"} \/ expired

CleanupLists(h) ==
    /\ handler[h].pc = "idle"
    /\ Eligible
    /\ handler' = [handler EXCEPT ![h].pc = "listed", ![h].job = "cleanup"]
    /\ UNCHANGED <<row, lock, store, inflight, content, expired, artifacts,
                   faults>>

CleanupLocks(h) ==
    /\ handler[h].pc = "listed"
    /\ Lockable
    /\ IF Eligible
       THEN lock' = h /\ Goto(h, "cancel")
       ELSE Finish(h)
    /\ UNCHANGED <<row, store, inflight, content, expired, artifacts, faults>>

CancelledSession_Keeps(h) == store

CancelledSession(h) ==
    IF row.session /\ row.status # "finalized" /\ store.session = "open"
    THEN [store EXCEPT !.session = "gone"]
    ELSE store

CancelSession(h) ==
    /\ handler[h].pc = "cancel"
    /\ store' = CancelledSession(h)
    /\ Goto(h, "read")
    /\ UNCHANGED <<row, lock, inflight, content, expired, artifacts, faults>>

\* readTemporary, for an object whose generation was never recorded.
ReadGeneration(h) ==
    /\ handler[h].pc = "read"
    /\ handler' = [handler EXCEPT
                     ![h].pc = "delete",
                     ![h].generation = IF row.generation # 0
                                       THEN row.generation ELSE store.object]
    /\ UNCHANGED <<row, lock, store, inflight, content, expired, artifacts,
                   faults>>

\* deleteTemporary removes the named generation, if it is there.
WithoutObject(h) ==
    IF handler[h].generation = store.object
    THEN [store EXCEPT !.object = 0] ELSE store

DeleteTemporary(h) ==
    /\ handler[h].pc = "delete"
    /\ store' = WithoutObject(h)
    /\ Goto(h, "commit")
    /\ UNCHANGED <<row, lock, inflight, content, expired, artifacts, faults>>

Discarded ==
    [row EXCEPT !.cleaned = TRUE, !.session = FALSE,
                !.status = IF @ = "finalized" THEN @ ELSE "abandoned"]

DiscardCommits(h) ==
    /\ handler[h].pc = "commit"
    /\ row' = Discarded
    /\ Finish(h)
    /\ UNCHANGED <<store, inflight, content, expired, artifacts, faults>>

\* A provider call fails, with or without its effect: abandon still commits
\* its status, clean-up only its error text.
DiscardFails(h) ==
    /\ faults < MaxFaults
    /\ faults' = faults + 1
    /\ handler[h].pc \in {"cancel", "read", "delete"}
    /\ store' \in {store, CASE handler[h].pc = "cancel" -> CancelledSession(h)
                         [] handler[h].pc = "read" -> store
                         [] handler[h].pc = "delete" -> WithoutObject(h)}
    /\ row' = IF handler[h].job = "abandon"
              THEN [row EXCEPT !.status = "abandoned"] ELSE row
    /\ Finish(h)
    /\ UNCHANGED <<inflight, content, expired, artifacts>>

------------------------------------------------------------------------------
(* consumePendingArtifactUpload around an artifact transaction *)

\* The upload is ready and its object is the one that was completed.  The
\* bytes are now in memory and the row lock is released.
ConsumePrepares(h, t) ==
    /\ Authorized(h)
    /\ row.status = "ready"
    /\ store.object = row.generation
    /\ handler' = [handler EXCEPT ![h].pc = "prepared", ![h].target = t,
                                  ![h].generation = store.object]
    /\ UNCHANGED <<row, lock, store, inflight, content, expired, artifacts,
                   faults>>

StoreBegins_DropsObject(h) ==
    /\ handler[h].pc = "prepared"
    /\ store' = WithoutObject(h)
    /\ handler' = [handler EXCEPT ![h].pc = "storing", ![h].fresh = ~expired]
    /\ UNCHANGED <<row, lock, inflight, content, expired, artifacts, faults>>

\* BEGIN of the artifact transaction, which fixes its now().
StoreBegins(h) ==
    /\ handler[h].pc = "prepared"
    /\ handler' = [handler EXCEPT ![h].pc = "storing", ![h].fresh = ~expired]
    /\ UNCHANGED <<row, lock, store, inflight, content, expired, artifacts,
                   faults>>

Bindable_AnyTarget(h) ==
    \/ row.status = "ready" /\ handler[h].fresh
    \/ row.status = "finalized"

\* The WHERE clause of bindPendingUpload.
Bindable(h) ==
    \/ row.status = "ready" /\ handler[h].fresh
    \/ row.status = "finalized" /\ row.binding = handler[h].target

StoreBinds(h) ==
    /\ handler[h].pc = "storing"
    /\ Lockable
    /\ Bindable(h)
    /\ row' = [row EXCEPT !.status = "finalized", !.binding = handler[h].target]
    /\ artifacts' = artifacts \union {handler[h].target}
    /\ Goto(h, "bound")
    /\ UNCHANGED <<lock, store, inflight, content, expired, faults>>

\* The transaction rolls back: nothing to bind, or any other failure.
StoreRollsBack(h) ==
    /\ handler[h].pc = "storing"
    /\ Finish(h)
    /\ UNCHANGED <<row, store, inflight, content, expired, artifacts, faults>>

\* The binding is read back under the lock, which is released again.
ConsumeReadsBack(h) ==
    /\ handler[h].pc = "bound"
    /\ Lockable
    /\ row.status = "finalized" /\ row.binding = handler[h].target
    /\ Goto(h, "confirmed")
    /\ UNCHANGED <<row, lock, store, inflight, content, expired, artifacts,
                   faults>>

\* The temporary object goes, under no lock.
ConsumeDeletes(h) ==
    /\ handler[h].pc = "confirmed"
    /\ store' = WithoutObject(h)
    /\ Goto(h, "deleted")
    /\ UNCHANGED <<row, lock, inflight, content, expired, artifacts, faults>>

ConsumeSaves(h) ==
    /\ handler[h].pc = "deleted"
    /\ Lockable
    /\ row' = [row EXCEPT !.cleaned = TRUE]
    /\ Finish(h)
    /\ UNCHANGED <<store, inflight, content, expired, artifacts, faults>>

\* The deletion or the save after it fails: the row records only the error.
ConsumeLeavesCleanup(h) ==
    /\ handler[h].pc \in {"confirmed", "deleted"}
    /\ Lockable
    /\ Finish(h)
    /\ UNCHANGED <<row, store, inflight, content, expired, artifacts, faults>>

------------------------------------------------------------------------------
\* The process or its database connection dies: its transaction is undone.
Crash(h) ==
    /\ faults < MaxFaults
    /\ faults' = faults + 1
    /\ handler[h].pc # "idle"
    /\ Finish(h)
    /\ UNCHANGED <<row, store, inflight, content, expired, artifacts>>

Expire ==
    /\ ~expired
    /\ row.status # "absent"
    /\ expired' = TRUE
    /\ UNCHANGED <<row, lock, store, inflight, content, artifacts, handler,
                   faults>>

\* A request or clean-up that has begun takes its next step.
Continue(h) ==
    \/ StartRecords(h) \/ StartFails(h)
    \/ AppendSaves(h) \/ AppendFails(h)
    \/ CleanupLocks(h)
    \/ CancelSession(h) \/ ReadGeneration(h) \/ DeleteTemporary(h)
    \/ DiscardCommits(h) \/ DiscardFails(h)
    \/ StoreBegins(h) \/ StoreBinds(h) \/ StoreRollsBack(h)
    \/ ConsumeReadsBack(h) \/ ConsumeDeletes(h) \/ ConsumeSaves(h) \/ ConsumeLeavesCleanup(h)

Request(h) ==
    \/ StartResumable(h)
    \/ GetUpload(h)
    \/ \E upto \in 1 .. Size : AppendSends(h, upto)
    \/ CompleteReady(h) \/ CompleteRejects(h)
    \/ AbandonLocks(h)
    \/ \E t \in Targets : ConsumePrepares(h, t)

Provider ==
    \/ \E c \in inflight : ChunkArrives(c) \/ ChunkLost(c)
    \/ SessionVanishes

Next ==
    \/ \E h \in Handlers : Request(h) \/ Continue(h) \/ CleanupLists(h)
                           \/ Crash(h)
    \/ Provider
    \/ Expire

Spec == Init /\ [][Next]_vars

\* Requests end, uploads outlive their lifetime, and the operator runs the
\* clean-up command again and again.
FairSpec ==
    /\ Spec
    /\ WF_vars(Expire)
    /\ WF_vars(\E h \in Handlers : CleanupLists(h))
    /\ \A h \in Handlers : WF_vars(Continue(h))

------------------------------------------------------------------------------
(* Properties *)

\* Once cleanup_completed_at is set, no later run looks at the upload: its
\* temporary object must be gone and nothing on its way may make another.
CleanedLeavesNothing == row.cleaned => store.object = 0 /\ store.session # "open"

\* Every artifact committed from the upload is the one its row names, and has
\* the bytes that were validated: two submissions to different attachments
\* never both succeed, and no clean-up, abandonment or retry that races them
\* unbinds a finalized upload.
OnlyBoundArtifact ==
    /\ artifacts = IF row.status = "finalized" THEN {row.binding} ELSE {}
    /\ artifacts # {} => content = "good"

\* The bytes of an uploaded or ready upload stay until a discard that is about
\* to commit takes them: only a fault between the provider's deletion and the
\* commit can leave a row that promises bytes that are gone.  Before that, the
\* offset the browser is told to resume at is never past the bytes the provider
\* has, so no chunk leaves a gap, whatever was rolled back or late.
ReadyKeepsItsBytes ==
    /\ row.confirmed <= store.persisted
    /\ row.status \in {"uploaded", "ready"} /\ store.object = 0
         => faults > 0 \/ (lock # NoHandler /\ handler[lock].pc = "commit")

\* Every recorded upload is eventually cleaned up, consumed or not.
EventuallyCleaned == row.status # "absent" ~> row.cleaned
==============================================================================
