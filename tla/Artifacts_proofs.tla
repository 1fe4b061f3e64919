-------------------------- MODULE Artifacts_proofs --------------------------
(***************************************************************************)
(* Safety of artifacts from upload to deletion.  First one pending upload *)
(* (module PendingUploads), for any number of request handlers and        *)
(* clean-up runs, any size and any number of crashes.  Then retained      *)
(* artifacts (module ArtifactStore), for any number of concurrent stores  *)
(* and deletions, any artifacts, and any sets stored together.            *)
(***************************************************************************)
EXTENDS PendingUploads, ArtifactStore, FiniteSetTheorems, WellFoundedInduction, TLAPS

------------------------------------------------------------------------------
(* Pending uploads.                                                       *)

RowType == [status : Statuses, confirmed : 0 .. Size, session : BOOLEAN,
            generation : {0, 1}, binding : Targets \union {NoTarget},
            cleaned : BOOLEAN]

StoreType == [session : {"none", "open", "done", "gone"},
              persisted : 0 .. Size, object : {0, 1}]

HandlerType == [pc : PCs, job : {"none", "abandon", "cleanup"},
                chunk : Chunks \union {NoChunk}, generation : {0, 1},
                fresh : BOOLEAN, target : Targets \union {NoTarget}]

\* Before the row is inserted there is at most a resumable session, and one
\* handler that started it.
AbsentOK ==
    /\ row.status = "absent" =>
         /\ ~row.cleaned
         /\ store.object = 0 /\ store.session # "done"
         /\ inflight = {} /\ lock = NoHandler
         /\ \A h \in Handlers : handler[h].pc \in {"idle", "started"}
    /\ row.status # "absent" => store.session # "none"
    /\ \A h \in Handlers : handler[h].pc = "started" =>
         /\ row.status = "absent" /\ store.session # "none"
         /\ \A g \in Handlers : handler[g].pc = "started" => g = h

\* The steps a handler takes while it holds the row.
Locking == {"sent"} \union Discarding

LockOK == \A h \in Handlers : lock = h <=> handler[h].pc \in Locking

\* The provider makes the object with the last byte of its session.
StoreOK ==
    /\ store.object # 0 => store.session \in {"done", "gone"}
    /\ store.object # 0 \/ store.session = "done" => store.persisted = Size

\* A row that was completed names the validated object, and a row without a
\* session has none that could still make one.
RowOK ==
    /\ row.status \in {"ready", "finalized"} =>
         ~row.session /\ row.generation = 1 /\ content = "good"
    /\ row.status # "absent" /\ ~row.session => store.session # "open"

\* What a handler has done already and what it may rely on.
HandlerOK(h) ==
    /\ handler[h].pc = "sent" => row.status = "uploading"
    /\ handler[h].pc = "listed" => handler[h].job = "cleanup"
    /\ handler[h].pc \in Discarding /\ handler[h].job = "abandon" =>
         row.status # "finalized"
    /\ handler[h].pc \in {"read", "delete", "commit", "prepared", "storing",
                          "bound", "confirmed", "deleted"} => store.session # "open"
    /\ handler[h].pc \in {"prepared", "storing", "bound", "confirmed"} =>
         handler[h].generation = 1 /\ handler[h].target \in Targets
    /\ handler[h].pc = "delete" /\ handler[h].generation = 0 => store.object = 0
    /\ handler[h].pc \in {"commit", "deleted"} => store.object = 0
    /\ handler[h].pc = "confirmed" => row.status = "finalized"

\* What ReadyKeepsItsBytes excuses.
Excused == faults > 0 \/ (lock # NoHandler /\ handler[lock].pc = "commit")

\* A row that says, or is about to say, that the bytes are there.
Promised ==
    \/ row.status \in {"uploaded", "ready"}
    \/ row.status = "uploading" /\ store.session = "done"

PromisesKept == Promised => store.object # 0 \/ Excused

IInv ==
    /\ TypeOK
    /\ AbsentOK
    /\ LockOK
    /\ StoreOK
    /\ RowOK
    /\ \A h \in Handlers : HandlerOK(h)
    /\ PromisesKept
    /\ CleanedLeavesNothing
    /\ OnlyBoundArtifact
    /\ ReadyKeepsItsBytes

------------------------------------------------------------------------------
LEMMA Types ==
    ASSUME TypeOK
    PROVE  /\ row \in RowType /\ store \in StoreType
           /\ handler \in [Handlers -> HandlerType]
           /\ lock \in Handlers \union {NoHandler}
           /\ artifacts \subseteq Targets /\ faults \in Nat
           /\ expired \in BOOLEAN /\ inflight \subseteq Chunks
           /\ content \in {"good", "invalid", "missized"}
  BY UploadAssumption DEF TypeOK, RowType, StoreType, HandlerType

LEMMA InitIInv == Init => IInv
<1> SUFFICES ASSUME Init PROVE IInv
  OBVIOUS
<1> USE UploadAssumption DEF Init, NewRow, Idle, NoChunk
<1>1. TypeOK
  <2>1. Size \in Nat /\ 0 \in 0 .. Size /\ 0 \in 0 .. MaxFaults
    OBVIOUS
  <2>2. row \in RowType /\ store \in StoreType
    BY <2>1 DEF RowType, StoreType, Statuses
  <2>3. [pc |-> "idle", job |-> "none", chunk |-> [from |-> 0, upto |-> 0],
         generation |-> 0, fresh |-> FALSE, target |-> NoTarget] \in HandlerType
    BY DEF HandlerType, PCs
  <2> QED BY <2>1, <2>2, <2>3 DEF TypeOK, RowType, StoreType, HandlerType
<1>2. AbsentOK /\ LockOK /\ StoreOK /\ RowOK
  BY DEF AbsentOK, LockOK, StoreOK, RowOK, Locking, Discarding
<1>3. \A h \in Handlers : HandlerOK(h)
  BY DEF HandlerOK, Discarding
<1>4. PromisesKept /\ CleanedLeavesNothing /\ OnlyBoundArtifact
  BY DEF PromisesKept, Promised, CleanedLeavesNothing, OnlyBoundArtifact
<1>5. ReadyKeepsItsBytes
  BY DEF ReadyKeepsItsBytes
<1> QED BY <1>1, <1>2, <1>3, <1>4, <1>5 DEF IInv

------------------------------------------------------------------------------
(* What every step of a handler on an existing row has in common. *)

\* The other handlers move neither with this one's row changes, which it makes
\* only while nobody else holds the row, nor with the provider, which never
\* goes back to an open session.
LEMMA OthersKeep ==
    ASSUME IInv, NEW h \in Handlers,
           \A g \in Handlers \ {h} : handler'[g] = handler[g],
           row' = row \/ lock \in {NoHandler, h},
           row.status = "finalized" => row'.status = "finalized",
           store.session # "open" => store'.session # "open",
           store.session # "open" /\ store.object = 0 => store'.object = 0
    PROVE  \A g \in Handlers \ {h} : HandlerOK(g)'
<1> SUFFICES ASSUME NEW g \in Handlers, g # h PROVE HandlerOK(g)'
  OBVIOUS
<1>1. HandlerOK(g) /\ handler'[g] = handler[g]
  BY DEF IInv
<1>2. handler[g].pc \in {"sent"} \union Discarding => row' = row
  BY UploadAssumption DEF IInv, LockOK, Locking
<1> QED BY <1>1, <1>2 DEF HandlerOK, Discarding

\* The row is held by the handler that is at a step that needs it.
LEMMA LocksAgree ==
    ASSUME IInv, NEW h \in Handlers,
           \A g \in Handlers \ {h} : handler'[g] = handler[g],
           \/ handler'[h].pc \in Locking /\ lock' = h /\ lock \in {NoHandler, h}
           \/ /\ handler'[h].pc \notin Locking
              /\ lock' = IF lock = h THEN NoHandler ELSE lock
    PROVE  LockOK'
<1> SUFFICES ASSUME NEW g \in Handlers
             PROVE  lock' = g <=> handler'[g].pc \in Locking
  BY DEF LockOK
<1>1. g # NoHandler /\ h # NoHandler
  BY UploadAssumption
<1>2. lock = g <=> handler[g].pc \in Locking
  BY DEF IInv, LockOK
<1> QED BY <1>1, <1>2

\* What excuses a row without its object lasts until the discard commits.
LEMMA ExcuseLasts ==
    ASSUME IInv, NEW h \in Handlers, Excused,
           \A g \in Handlers \ {h} : handler'[g] = handler[g],
           handler[h].pc # "commit",
           lock \in {NoHandler, h} \/ lock' = lock,
           faults' \in {faults, faults + 1}
    PROVE  Excused'
<1>1. faults \in Nat /\ lock \in Handlers \union {NoHandler}
  BY Types DEF IInv
<1> QED BY <1>1 DEF Excused

\* A step of a handler on a row that exists.
LEMMA RowStep ==
    ASSUME IInv, NEW h \in Handlers,
           \A g \in Handlers \ {h} : handler'[g] = handler[g],
           row.status # "absent", row'.status # "absent",
           row' = row \/ lock \in {NoHandler, h},
           row.status = "finalized" => row'.status = "finalized",
           store' \in {store, [store EXCEPT !.session = "gone"],
                       [store EXCEPT !.object = 0]},
           handler'[h].pc # "started",
           \/ handler'[h].pc \in Locking /\ lock' = h /\ lock \in {NoHandler, h}
           \/ /\ handler'[h].pc \notin Locking
              /\ lock' = IF lock = h THEN NoHandler ELSE lock,
           HandlerOK(h)'
    PROVE  /\ AbsentOK' /\ LockOK' /\ StoreOK'
           /\ \A g \in Handlers : HandlerOK(g)'
<1>1. store \in StoreType
  BY Types DEF IInv
<1>2. /\ store.session # "open" => store'.session # "open"
      /\ store.session # "open" /\ store.object = 0 => store'.object = 0
      /\ store.session # "none" => store'.session # "none"
  BY <1>1 DEF StoreType
<1>3. AbsentOK'
  <2>1. \A g \in Handlers : handler'[g].pc # "started"
    BY DEF IInv, AbsentOK
  <2> QED BY <1>2, <2>1 DEF IInv, AbsentOK
<1>4. StoreOK'
  BY <1>1 DEF IInv, StoreOK, StoreType
<1>5. LockOK'
  BY LocksAgree
<1>6. \A g \in Handlers \ {h} : HandlerOK(g)'
  BY <1>2, OthersKeep
<1> QED BY <1>3, <1>4, <1>5, <1>6

\* As long as the row stays, the properties stay with it, unless the object
\* goes.
LEMMA RowKept ==
    ASSUME IInv, UNCHANGED <<row, artifacts, content>>,
           store' \in {store, [store EXCEPT !.session = "gone"],
                       [store EXCEPT !.object = 0]},
           store'.object = store.object \/ Excused'
               \/ row.status \notin {"uploading", "uploaded", "ready"},
           Excused => Excused'
    PROVE  /\ RowOK' /\ PromisesKept' /\ CleanedLeavesNothing'
           /\ OnlyBoundArtifact' /\ ReadyKeepsItsBytes'
<1>1. store \in StoreType
  BY Types DEF IInv
<1>2. /\ store.session # "open" => store'.session # "open"
      /\ store.object = 0 => store'.object = 0
      /\ store'.session = "done" => store.session = "done"
      /\ store'.persisted = store.persisted
  BY <1>1 DEF StoreType
<1>3. RowOK'
  BY <1>2 DEF IInv, RowOK
<1>4. PromisesKept'
  <2>1. CASE store'.object = store.object
    BY <1>2, <2>1 DEF IInv, PromisesKept, Promised
  <2> QED BY <2>1 DEF PromisesKept, Promised
<1>5. CleanedLeavesNothing'
  BY <1>2 DEF IInv, CleanedLeavesNothing
<1>6. OnlyBoundArtifact'
  BY DEF IInv, OnlyBoundArtifact
<1>7. ReadyKeepsItsBytes'
  BY <1>2 DEF IInv, ReadyKeepsItsBytes, Excused
<1> QED BY <1>3, <1>4, <1>5, <1>6, <1>7

\* What a changed row has to say of the provider, whose state stays.
LEMMA RowChanged ==
    ASSUME IInv, UNCHANGED <<store, artifacts, content>>,
           row'.status \in {"ready", "finalized"} =>
             ~row'.session /\ row'.generation = 1 /\ content = "good",
           ~row'.session => store.session # "open",
           row'.cleaned => store.object = 0 /\ store.session # "open",
           row'.status = "finalized" <=> row.status = "finalized",
           row'.binding = row.binding,
           row'.confirmed <= store.persisted,
           Promised' => store.object # 0 \/ Excused'
    PROVE  /\ RowOK' /\ PromisesKept' /\ CleanedLeavesNothing'
           /\ OnlyBoundArtifact' /\ ReadyKeepsItsBytes'
  BY DEF IInv, RowOK, PromisesKept, Promised, CleanedLeavesNothing, OnlyBoundArtifact,
         ReadyKeepsItsBytes, Excused

\* Reconciliation promises what the provider has.
LEMMA ReconciledRow ==
    ASSUME IInv, row.status # "absent", Reconcilable
    PROVE  /\ Reconciled \in RowType
           /\ Reconciled.cleaned = row.cleaned /\ Reconciled.binding = row.binding
           /\ \/ Reconciled = row
              \/ row.status = "uploading" /\ Reconciled.status \in {"uploading", "uploaded"}
           /\ ~Reconciled.session => store.session # "open"
           /\ Reconciled.confirmed <= store.persisted
           /\ Reconciled.status \in {"uploaded", "ready"} =>
                store.object # 0 \/ Excused
           /\ Reconciled.status = "uploading" => store.session # "done"
<1>1. row \in RowType /\ store \in StoreType
  BY Types DEF IInv
<1>2. CASE row.status # "uploading"
  BY <1>1, <1>2 DEF Reconciled, IInv, RowOK, ReadyKeepsItsBytes, Excused
<1>3. CASE row.status = "uploading" /\ SessionLive
  <2>1. Reconciled = Progress
    BY <1>3 DEF Reconciled
  <2>2. /\ Progress \in RowType
        /\ Progress.cleaned = row.cleaned /\ Progress.binding = row.binding
        /\ Progress.session = row.session /\ Progress.confirmed = store.persisted
        /\ Progress.status = IF store.session = "done" THEN "uploaded" ELSE "uploading"
    BY <1>1 DEF Progress, RowType, StoreType, Statuses
  <2>3. store.persisted <= store.persisted
    BY <1>1, UploadAssumption DEF StoreType
  <2> HIDE DEF Progress
  <2> QED BY <1>3, <2>1, <2>2, <2>3 DEF SessionLive, IInv, RowOK, PromisesKept,
                                           Promised
<1>4. CASE row.status = "uploading" /\ ~SessionLive
  <2>1. Reconciled = Recovered /\ store.object # 0
    BY <1>4 DEF Reconciled, Reconcilable, ExactObject
  <2>2. /\ Recovered \in RowType
        /\ Recovered.cleaned = row.cleaned /\ Recovered.binding = row.binding
        /\ ~Recovered.session /\ Recovered.confirmed = Size
        /\ Recovered.status = "uploaded"
    <3>1. Size \in 0 .. Size /\ store.object \in {0, 1}
      BY <1>1, UploadAssumption DEF StoreType
    <3>2. /\ Recovered.cleaned = row.cleaned /\ Recovered.binding = row.binding
          /\ Recovered.session = FALSE /\ Recovered.confirmed = Size
          /\ Recovered.status = "uploaded"
      BY <1>1 DEF Recovered, RowType
    <3>3. Recovered \in RowType
      BY <1>1, <3>1 DEF Recovered, RowType, Statuses
    <3> QED BY <3>2, <3>3
  <2>3. store.persisted = Size /\ Size <= Size
    BY <2>1, UploadAssumption DEF IInv, StoreOK
  <2> HIDE DEF Recovered
  <2> QED BY <1>4, <2>1, <2>2, <2>3 DEF SessionLive
<1> QED BY <1>2, <1>3, <1>4

------------------------------------------------------------------------------
\* The first handler opens the session.
LEMMA StartResumableStep ==
    ASSUME IInv, NEW h \in Handlers, StartResumable(h)
    PROVE  IInv'
<1>1. /\ row \in RowType /\ store \in StoreType
      /\ handler \in [Handlers -> HandlerType] /\ handler[h] \in HandlerType
      /\ TypeOK
  BY Types DEF IInv
<1>2. /\ handler[h].pc = "idle" /\ row.status = "absent" /\ store.session = "none"
      /\ store' = [store EXCEPT !.session = "open"]
      /\ handler' = [handler EXCEPT ![h].pc = "started"]
      /\ UNCHANGED <<row, lock, inflight, content, expired, artifacts, faults>>
  BY DEF StartResumable, Goto
<1>3. /\ store' \in StoreType /\ store'.object = store.object
      /\ store'.persisted = store.persisted /\ store'.session = "open"
  BY <1>1, <1>2 DEF StoreType
<1>4. /\ handler' \in [Handlers -> HandlerType] /\ handler'[h].pc = "started"
      /\ \A g \in Handlers \ {h} : handler'[g] = handler[g]
  BY <1>1, <1>2 DEF HandlerType, PCs
<1>5. TypeOK'
  BY <1>1, <1>2, <1>3, <1>4 DEF TypeOK, StoreType, HandlerType
<1>6. /\ store.object = 0 /\ inflight = {} /\ lock = NoHandler
      /\ \A g \in Handlers : handler[g].pc = "idle"
  BY <1>2 DEF IInv, AbsentOK
<1>7. AbsentOK' /\ LockOK'
  <2>1. LockOK'
    BY <1>2, <1>4, <1>6, UploadAssumption DEF LockOK, Locking, Discarding
  <2>2. \A g \in Handlers : handler'[g].pc \in {"idle", "started"}
    BY <1>4, <1>6
  <2>3. \A g \in Handlers : handler'[g].pc = "started" => g = h
    BY <1>4, <1>6
  <2>4. ~row.cleaned
    BY <1>2 DEF IInv, AbsentOK
  <2> QED BY <1>2, <1>3, <1>6, <2>1, <2>2, <2>3, <2>4 DEF AbsentOK
<1>8. StoreOK' /\ RowOK'
  BY <1>2, <1>3, <1>6 DEF IInv, StoreOK, RowOK
<1>9. \A g \in Handlers : HandlerOK(g)'
  BY <1>4, <1>6 DEF HandlerOK, Discarding
<1>10. PromisesKept' /\ OnlyBoundArtifact'
  BY <1>2, <1>3 DEF IInv, PromisesKept, Promised, OnlyBoundArtifact
<1>11. ~row.cleaned
  BY <1>2 DEF IInv, AbsentOK
<1>12. CleanedLeavesNothing' /\ ReadyKeepsItsBytes'
  BY <1>2, <1>3, <1>11 DEF IInv, CleanedLeavesNothing, ReadyKeepsItsBytes
<1> QED BY <1>5, <1>7, <1>8, <1>9, <1>10, <1>12 DEF IInv

\* A handler that is done leaves the row and forgets what it knew.
LEMMA Finished ==
    ASSUME IInv, NEW h \in Handlers, Finish(h)
    PROVE  /\ handler' \in [Handlers -> HandlerType]
           /\ handler'[h].pc = "idle" /\ HandlerOK(h)'
           /\ \A g \in Handlers \ {h} : handler'[g] = handler[g]
           /\ lock' = IF lock = h THEN NoHandler ELSE lock
           /\ lock' \in Handlers \union {NoHandler}
<1>1. handler \in [Handlers -> HandlerType] /\ lock \in Handlers \union {NoHandler}
  BY Types DEF IInv
<1>2. Idle \in HandlerType /\ Idle.pc = "idle"
  BY UploadAssumption DEF Idle, HandlerType, PCs, Discarding
<1>3. /\ handler' = [handler EXCEPT ![h] = Idle]
      /\ lock' = IF lock = h THEN NoHandler ELSE lock
  BY DEF Finish
<1> HIDE DEF Idle
<1>4. handler' \in [Handlers -> HandlerType] /\ handler'[h].pc = "idle"
      /\ \A g \in Handlers \ {h} : handler'[g] = handler[g]
  BY <1>1, <1>2, <1>3
<1>5. HandlerOK(h)'
  BY <1>4 DEF HandlerOK, Discarding
<1> QED BY <1>1, <1>3, <1>4, <1>5

\* The row is recorded, or not.
LEMMA StartEnds ==
    ASSUME IInv, NEW h \in Handlers, StartRecords(h) \/ StartFails(h)
    PROVE  IInv'
<1>1. /\ row \in RowType /\ store \in StoreType
      /\ TypeOK
  BY Types DEF IInv
<1>2. /\ handler[h].pc = "started"
      /\ row' \in {row, NewRow}
      /\ store' = store \/ \E s \in {"open", "gone"} : store' = [store EXCEPT !.session = s]
      /\ Finish(h)
      /\ UNCHANGED <<inflight, content, expired, artifacts, faults>>
  BY DEF StartRecords, StartFails
<1>3. /\ row.status = "absent" /\ ~row.cleaned
      /\ store.object = 0 /\ inflight = {} /\ lock = NoHandler
      /\ store.session \in {"open", "gone"}
      /\ \A g \in Handlers : handler[g].pc \in {"idle", "started"}
      /\ \A g \in Handlers : handler[g].pc = "started" => g = h
  BY <1>1, <1>2 DEF IInv, AbsentOK, StoreType
<1>4. /\ store' \in StoreType /\ store'.session \in {"open", "gone"}
      /\ store'.object = 0 /\ store'.persisted = store.persisted
  BY <1>1, <1>2, <1>3 DEF StoreType
<1>5. /\ NewRow \in RowType /\ NewRow.status = "uploading" /\ NewRow.confirmed = 0
      /\ NewRow.session = TRUE /\ NewRow.cleaned = FALSE
  BY UploadAssumption DEF NewRow, RowType, Statuses
<1>6. /\ handler' \in [Handlers -> HandlerType] /\ lock' = NoHandler
      /\ \A g \in Handlers : handler'[g].pc = "idle"
  BY <1>2, <1>3, Finished
<1> HIDE DEF NewRow
<1>7. TypeOK'
  BY <1>1, <1>2, <1>4, <1>5, <1>6 DEF TypeOK, RowType, StoreType, HandlerType
<1>8. AbsentOK'
  BY <1>2, <1>3, <1>4, <1>5, <1>6 DEF AbsentOK
<1>9. LockOK'
  BY <1>6, UploadAssumption DEF LockOK, Locking, Discarding
<1>10. StoreOK' /\ RowOK'
  BY <1>2, <1>3, <1>4, <1>5 DEF StoreOK, RowOK
<1>11. \A g \in Handlers : HandlerOK(g)'
  BY <1>6 DEF HandlerOK, Discarding
<1>12. PromisesKept' /\ CleanedLeavesNothing' /\ OnlyBoundArtifact'
  BY <1>2, <1>3, <1>4, <1>5
     DEF IInv, PromisesKept, Promised, CleanedLeavesNothing, OnlyBoundArtifact
<1>13. ReadyKeepsItsBytes'
  BY <1>1, <1>2, <1>3, <1>4, <1>5 DEF IInv, ReadyKeepsItsBytes, StoreType
<1> QED BY <1>7, <1>8, <1>9, <1>10, <1>11, <1>12, <1>13 DEF IInv

------------------------------------------------------------------------------
\* A request that takes the row, changes it and is over.
LEMMA RequestStep ==
    ASSUME IInv, NEW h \in Handlers, Authorized(h),
           UNCHANGED <<lock, store, inflight, content, expired, artifacts, handler,
                       faults>>,
           row' \in RowType, row'.status # "absent",
           row'.status \in {"ready", "finalized"} =>
             ~row'.session /\ row'.generation = 1 /\ content = "good",
           ~row'.session => store.session # "open",
           row'.cleaned => store.object = 0 /\ store.session # "open",
           row'.status = "finalized" <=> row.status = "finalized",
           row'.binding = row.binding,
           row'.confirmed <= store.persisted,
           Promised' => store.object # 0 \/ Excused
    PROVE  IInv'
<1>1. TypeOK'
  BY Types DEF IInv, TypeOK, RowType
<1>2. Excused <=> Excused'
  BY DEF Excused
<1>3. /\ RowOK' /\ PromisesKept' /\ CleanedLeavesNothing'
      /\ OnlyBoundArtifact' /\ ReadyKeepsItsBytes'
  BY <1>2, RowChanged
<1>4. /\ handler[h].pc = "idle" /\ row.status # "absent" /\ lock = NoHandler
      /\ h # NoHandler
  BY UploadAssumption DEF Authorized, Lockable
<1>5. HandlerOK(h)'
  BY <1>4 DEF HandlerOK, Discarding
<1>6. handler'[h].pc \notin Locking /\ handler'[h].pc # "started"
  BY <1>4 DEF Locking, Discarding
<1>7. AbsentOK' /\ LockOK' /\ StoreOK' /\ \A g \in Handlers : HandlerOK(g)'
  BY <1>4, <1>5, <1>6, RowStep
<1> QED BY <1>1, <1>3, <1>7 DEF IInv

LEMMA GetUploadStep ==
    ASSUME IInv, NEW h \in Handlers, GetUpload(h)
    PROVE  IInv'
<1>1. /\ Authorized(h) /\ row.status # "absent" /\ Reconcilable
      /\ row' = Reconciled
      /\ UNCHANGED <<lock, store, inflight, content, expired, artifacts, handler, faults>>
  BY DEF GetUpload, Authorized, Lockable
<1>2. RowOK /\ CleanedLeavesNothing
  BY DEF IInv
<1>3. /\ Reconciled \in RowType
      /\ Reconciled.cleaned = row.cleaned /\ Reconciled.binding = row.binding
      /\ \/ Reconciled = row
         \/ row.status = "uploading" /\ Reconciled.status \in {"uploading", "uploaded"}
      /\ ~Reconciled.session => store.session # "open"
      /\ Reconciled.confirmed <= store.persisted
      /\ Reconciled.status \in {"uploaded", "ready"} => store.object # 0 \/ Excused
      /\ Reconciled.status = "uploading" => store.session # "done"
  BY <1>1, ReconciledRow
<1> HIDE DEF Reconciled
<1> QED BY <1>1, <1>2, <1>3, RequestStep DEF RowOK, CleanedLeavesNothing, Promised

LEMMA CompleteReadyStep ==
    ASSUME IInv, NEW h \in Handlers, CompleteReady(h)
    PROVE  IInv'
<1>1. /\ Authorized(h) /\ row.status # "absent" /\ Reconcilable
      /\ row' = Completed /\ Reconciled.status = "uploaded"
      /\ store.object # 0 /\ content = "good"
      /\ UNCHANGED <<lock, store, inflight, content, expired, artifacts, handler, faults>>
  BY DEF CompleteReady, Authorized, Lockable, Validated, ExactObject
<1>2. CleanedLeavesNothing /\ StoreOK /\ store \in StoreType
  BY Types DEF IInv
<1>3. /\ Reconciled \in RowType
      /\ Reconciled.cleaned = row.cleaned /\ Reconciled.binding = row.binding
      /\ \/ Reconciled = row
         \/ row.status = "uploading" /\ Reconciled.status \in {"uploading", "uploaded"}
  BY <1>1, ReconciledRow
<1> HIDE DEF Reconciled
<1>4. /\ store.object = 1 /\ store.persisted = Size /\ store.session # "open"
      /\ Size \in 0 .. Size
  BY <1>1, <1>2, UploadAssumption DEF StoreOK, StoreType
<1>5. Completed = [Reconciled EXCEPT !.confirmed = Size, !.session = FALSE,
                                     !.status = "ready", !.generation = 1]
  BY <1>4 DEF Completed
<1>6. /\ Completed.status = "ready" /\ Completed.session = FALSE
      /\ Completed.generation = 1 /\ Completed.confirmed = Size
      /\ Completed.cleaned = Reconciled.cleaned /\ Completed.binding = Reconciled.binding
  BY <1>3, <1>5 DEF RowType
<1>7. Completed \in RowType
  BY <1>3, <1>4, <1>5 DEF RowType, Statuses
<1>8. row.status # "finalized" /\ Size <= Size
  BY <1>1, <1>3, UploadAssumption
<1> HIDE DEF Completed
<1> QED BY <1>1, <1>2, <1>3, <1>4, <1>6, <1>7, <1>8, RequestStep
        DEF CleanedLeavesNothing

LEMMA CompleteRejectsStep ==
    ASSUME IInv, NEW h \in Handlers, CompleteRejects(h)
    PROVE  IInv'
<1>1. /\ Authorized(h) /\ row.status # "absent"
      /\ UNCHANGED <<lock, store, inflight, content, expired, artifacts, handler, faults>>
  BY DEF CompleteRejects, Authorized, Lockable
<1>2. CleanedLeavesNothing /\ RowOK /\ ReadyKeepsItsBytes /\ row \in RowType
  BY Types DEF IInv
<1>3. PICK old \in RowType :
        /\ row' = [old EXCEPT !.status = "rejected"]
        /\ old.cleaned = row.cleaned /\ old.binding = row.binding
        /\ ~old.session => store.session # "open"
        /\ old.confirmed <= store.persisted
        /\ row.status # "finalized"
  <2>1. CASE row' = [row EXCEPT !.status = "rejected"] /\ row.status = "uploading"
    BY <1>1, <1>2, <2>1 DEF RowOK, ReadyKeepsItsBytes
  <2>2. CASE /\ Reconcilable /\ Reconciled.status = "uploaded"
             /\ row' = [Reconciled EXCEPT !.status = "rejected"]
    <3>1. /\ Reconciled \in RowType
          /\ Reconciled.cleaned = row.cleaned /\ Reconciled.binding = row.binding
          /\ \/ Reconciled = row
             \/ row.status = "uploading" /\ Reconciled.status \in {"uploading", "uploaded"}
          /\ ~Reconciled.session => store.session # "open"
          /\ Reconciled.confirmed <= store.persisted
      BY <1>1, <2>2, ReconciledRow
    <3>2. row.status # "finalized"
      BY <2>2, <3>1
    <3> HIDE DEF Reconciled
    <3> QED BY <2>2, <3>1, <3>2
  <2> QED BY <2>1, <2>2 DEF CompleteRejects
<1>4. /\ row' \in RowType /\ row'.status = "rejected"
      /\ row'.cleaned = old.cleaned /\ row'.binding = old.binding
      /\ row'.session = old.session /\ row'.confirmed = old.confirmed
  BY <1>3 DEF RowType, Statuses
<1> QED BY <1>1, <1>2, <1>3, <1>4, RequestStep DEF CleanedLeavesNothing, Promised

------------------------------------------------------------------------------
\* A step of a handler that leaves the row as it is.
LEMMA HandlerStep ==
    ASSUME IInv, TypeOK', NEW h \in Handlers,
           \A g \in Handlers \ {h} : handler'[g] = handler[g],
           UNCHANGED <<row, content, artifacts>>,
           faults' \in {faults, faults + 1},
           row.status # "absent",
           store' \in {store, [store EXCEPT !.session = "gone"],
                       [store EXCEPT !.object = 0]},
           store'.object = store.object \/ Excused'
               \/ row.status \notin {"uploading", "uploaded", "ready"},
           handler[h].pc # "commit", handler'[h].pc # "started",
           \/ handler'[h].pc \in Locking /\ lock' = h /\ lock \in {NoHandler, h}
           \/ /\ handler'[h].pc \notin Locking
              /\ lock' = IF lock = h THEN NoHandler ELSE lock,
           HandlerOK(h)'
    PROVE  IInv'
<1>1. Excused => Excused'
  BY ExcuseLasts
<1>2. /\ RowOK' /\ PromisesKept' /\ CleanedLeavesNothing'
      /\ OnlyBoundArtifact' /\ ReadyKeepsItsBytes'
  BY <1>1, RowKept
<1>3. AbsentOK' /\ LockOK' /\ StoreOK' /\ \A g \in Handlers : HandlerOK(g)'
  BY RowStep
<1> QED BY <1>2, <1>3 DEF IInv

LEMMA AppendSendsStep ==
    ASSUME IInv, NEW h \in Handlers, NEW upto \in 1 .. Size, AppendSends(h, upto)
    PROVE  IInv'
<1> DEFINE c == [from |-> row.confirmed, upto |-> upto]
<1>1. /\ handler[h].pc = "idle" /\ row.status = "uploading" /\ lock = NoHandler
      /\ c \in Chunks /\ inflight' = inflight \union {c} /\ lock' = h
      /\ handler' = [handler EXCEPT ![h].pc = "sent", ![h].chunk = c]
      /\ UNCHANGED <<row, store, content, expired, artifacts, faults>>
  BY DEF AppendSends, Authorized, Lockable
<1> HIDE DEF c
<1>2. handler \in [Handlers -> HandlerType] /\ TypeOK
  BY Types DEF IInv
<1>3. /\ handler' \in [Handlers -> HandlerType] /\ handler'[h].pc = "sent"
      /\ \A g \in Handlers \ {h} : handler'[g] = handler[g]
  <2>1. handler[h] \in HandlerType /\ c \in Chunks \union {NoChunk}
    BY <1>1, <1>2
  <2>2. /\ [handler[h] EXCEPT !.pc = "sent", !.chunk = c] \in HandlerType
        /\ [handler[h] EXCEPT !.pc = "sent", !.chunk = c].pc = "sent"
    BY <2>1 DEF HandlerType, PCs
  <2>3. handler' = [handler EXCEPT ![h] = [handler[h] EXCEPT !.pc = "sent", !.chunk = c]]
    BY <1>1, <1>2
  <2> QED BY <1>2, <2>2, <2>3
<1>4. TypeOK'
  BY <1>1, <1>2, <1>3 DEF TypeOK, HandlerType
<1>5. HandlerOK(h)'
  BY <1>1, <1>3 DEF HandlerOK, Discarding
<1>6. handler'[h].pc \in Locking
  BY <1>3 DEF Locking
<1> QED BY <1>1, <1>3, <1>4, <1>5, <1>6, HandlerStep

\* The answer to a chunk, or to the question what became of it, is saved.
LEMMA AppendEnds ==
    ASSUME IInv, NEW h \in Handlers, AppendSaves(h) \/ AppendFails(h)
    PROVE  IInv'
<1>1. /\ handler[h].pc = "sent" /\ Finish(h)
      /\ UNCHANGED <<store, inflight, content, expired, artifacts, faults>>
  BY DEF AppendSaves, AppendFails
<1>2. /\ lock = h /\ row.status = "uploading" /\ row \in RowType /\ store \in StoreType
      /\ TypeOK /\ AbsentOK /\ RowOK /\ StoreOK /\ CleanedLeavesNothing
      /\ PromisesKept /\ ReadyKeepsItsBytes
  BY <1>1, Types DEF IInv, LockOK, Locking, HandlerOK
<1>3. /\ handler' \in [Handlers -> HandlerType]
      /\ handler'[h].pc = "idle" /\ HandlerOK(h)'
      /\ \A g \in Handlers \ {h} : handler'[g] = handler[g]
      /\ lock' = IF lock = h THEN NoHandler ELSE lock
      /\ lock' \in Handlers \union {NoHandler}
  BY <1>1, Finished
<1>4. /\ row' \in RowType /\ row'.status \in {"uploading", "uploaded"}
      /\ row'.cleaned = row.cleaned /\ row'.binding = row.binding
      /\ ~row'.session => store.session # "open"
      /\ row'.confirmed <= store.persisted
      /\ row'.status = "uploaded" => store.object # 0 \/ Promised
      /\ row'.status = "uploading" => row' = row \/ store.session # "done"
  <2>1. CASE AppendSaves(h)
    <3>1. row' = Progress /\ SessionLive
      BY <2>1 DEF AppendSaves
    <3>2. Reconcilable /\ Reconciled = Progress
      BY <1>2, <3>1 DEF Reconcilable, Reconciled
    <3>3. /\ Progress \in RowType
          /\ Progress.cleaned = row.cleaned /\ Progress.binding = row.binding
          /\ ~Progress.session => store.session # "open"
          /\ Progress.confirmed <= store.persisted
      BY <1>2, <3>2, ReconciledRow
    <3>4. Progress.status = IF store.session = "done" THEN "uploaded" ELSE "uploading"
      BY <1>2 DEF Progress, RowType
    <3> HIDE DEF Progress
    <3> QED BY <1>2, <3>1, <3>3, <3>4 DEF Promised
  <2>2. CASE row' = row
    BY <1>2, <2>2 DEF RowOK, ReadyKeepsItsBytes
  <2>3. CASE row' = Recovered /\ ExactObject
    <3>1. /\ store.object # 0 /\ store.object \in {0, 1} /\ Size \in 0 .. Size /\ Size <= Size
          /\ store.persisted = Size /\ store.session # "open"
      BY <1>2, <2>3, UploadAssumption DEF ExactObject, StoreOK, StoreType
    <3>2. /\ Recovered.cleaned = row.cleaned /\ Recovered.binding = row.binding
          /\ Recovered.session = FALSE /\ Recovered.confirmed = Size
          /\ Recovered.status = "uploaded"
      BY <1>2 DEF Recovered, RowType
    <3>3. Recovered \in RowType
      BY <1>2, <3>1 DEF Recovered, RowType, Statuses
    <3> HIDE DEF Recovered
    <3> QED BY <2>3, <3>1, <3>2, <3>3
  <2> QED BY <2>1, <2>2, <2>3 DEF AppendSaves, AppendFails
<1>5. Excused => Excused'
  BY <1>1, <1>3, ExcuseLasts
<1>6. Promised' => store.object # 0 \/ Excused'
  BY <1>1, <1>2, <1>4, <1>5 DEF Promised, PromisesKept
<1>7. /\ RowOK' /\ PromisesKept' /\ CleanedLeavesNothing'
      /\ OnlyBoundArtifact' /\ ReadyKeepsItsBytes'
  <2>1. row'.cleaned => store.object = 0 /\ store.session # "open"
    BY <1>2, <1>4 DEF CleanedLeavesNothing
  <2> QED BY <1>1, <1>2, <1>4, <1>6, <2>1, RowChanged
<1>8. AbsentOK' /\ LockOK' /\ StoreOK' /\ \A g \in Handlers : HandlerOK(g)'
  <2>1. handler'[h].pc \notin Locking /\ handler'[h].pc # "started"
    BY <1>3 DEF Locking, Discarding
  <2> QED BY <1>1, <1>2, <1>3, <1>4, <2>1, RowStep
<1>9. TypeOK'
  BY <1>1, <1>2, <1>3, <1>4 DEF TypeOK, RowType, HandlerType
<1> QED BY <1>7, <1>8, <1>9 DEF IInv

------------------------------------------------------------------------------
\* Handlers that take the row, or take note of it.
LEMMA ClaimSteps ==
    ASSUME IInv, NEW h \in Handlers,
           \/ AbandonLocks(h) \/ CleanupLists(h) \/ CleanupLocks(h)
           \/ \E t \in Targets : ConsumePrepares(h, t)
    PROVE  IInv'
<1>1. /\ handler \in [Handlers -> HandlerType] /\ handler[h] \in HandlerType
      /\ TypeOK /\ RowOK /\ StoreOK /\ LockOK /\ store \in StoreType
      /\ h # NoHandler
  BY Types, UploadAssumption DEF IInv
<1>2. CASE AbandonLocks(h)
  <2>1. /\ handler[h].pc = "idle" /\ row.status \notin {"absent", "finalized"}
        /\ lock = NoHandler /\ lock' = h
        /\ handler' = [handler EXCEPT ![h].pc = "cancel", ![h].job = "abandon"]
        /\ UNCHANGED <<row, store, inflight, content, expired, artifacts, faults>>
    BY <1>2 DEF AbandonLocks, Authorized, Lockable, Abandonable
  <2>2. /\ handler' \in [Handlers -> HandlerType] /\ handler'[h].pc = "cancel"
        /\ \A g \in Handlers \ {h} : handler'[g] = handler[g]
    BY <1>1, <2>1 DEF HandlerType, PCs, Discarding
  <2>3. TypeOK'
    BY <1>1, <2>1, <2>2 DEF TypeOK, HandlerType
  <2>4. HandlerOK(h)' /\ handler'[h].pc \in Locking
    BY <2>1, <2>2 DEF HandlerOK, Locking, Discarding
  <2> QED BY <2>1, <2>2, <2>3, <2>4, HandlerStep
<1>3. CASE CleanupLists(h)
  <2>1. /\ handler[h].pc = "idle" /\ row.status # "absent"
        /\ handler' = [handler EXCEPT ![h].pc = "listed", ![h].job = "cleanup"]
        /\ UNCHANGED <<row, lock, store, inflight, content, expired, artifacts, faults>>
    BY <1>3 DEF CleanupLists, Eligible
  <2>2. /\ handler' \in [Handlers -> HandlerType] /\ handler'[h].pc = "listed"
        /\ handler'[h].job = "cleanup"
        /\ \A g \in Handlers \ {h} : handler'[g] = handler[g]
    BY <1>1, <2>1 DEF HandlerType, PCs
  <2>3. TypeOK'
    BY <1>1, <2>1, <2>2 DEF TypeOK, HandlerType
  <2>4. HandlerOK(h)' /\ handler'[h].pc \notin Locking /\ handler[h].pc \notin Locking
    BY <2>1, <2>2 DEF HandlerOK, Locking, Discarding
  <2>5. lock # h
    BY <1>1, <2>4 DEF LockOK
  <2> QED BY <2>1, <2>2, <2>3, <2>4, <2>5, HandlerStep
<1>4. CASE CleanupLocks(h) /\ Eligible
  <2>1. /\ handler[h].pc = "listed" /\ row.status # "absent"
        /\ lock = NoHandler /\ lock' = h
        /\ handler' = [handler EXCEPT ![h].pc = "cancel"]
        /\ UNCHANGED <<row, store, inflight, content, expired, artifacts, faults>>
    BY <1>4 DEF CleanupLocks, Lockable, Goto
  <2>2. /\ handler' \in [Handlers -> HandlerType] /\ handler'[h].pc = "cancel"
        /\ handler'[h].job = handler[h].job
        /\ \A g \in Handlers \ {h} : handler'[g] = handler[g]
    BY <1>1, <2>1 DEF HandlerType, PCs, Discarding
  <2>3. TypeOK'
    BY <1>1, <2>1, <2>2 DEF TypeOK, HandlerType
  <2>4. handler[h].job # "abandon"
    BY <2>1 DEF IInv, HandlerOK
  <2>5. HandlerOK(h)' /\ handler'[h].pc \in Locking
    BY <2>1, <2>2, <2>4 DEF HandlerOK, Locking, Discarding
  <2> QED BY <2>1, <2>2, <2>3, <2>5, HandlerStep
<1>5. CASE CleanupLocks(h) /\ ~Eligible
  <2>1. /\ handler[h].pc = "listed" /\ row.status # "absent" /\ Finish(h)
        /\ UNCHANGED <<row, store, inflight, content, expired, artifacts, faults>>
    BY <1>5 DEF CleanupLocks, Lockable
  <2>2. /\ handler' \in [Handlers -> HandlerType]
        /\ handler'[h].pc = "idle" /\ HandlerOK(h)'
        /\ \A g \in Handlers \ {h} : handler'[g] = handler[g]
        /\ lock' = IF lock = h THEN NoHandler ELSE lock
        /\ lock' \in Handlers \union {NoHandler}
    BY <2>1, Finished
  <2>3. TypeOK'
    BY <1>1, <2>1, <2>2 DEF TypeOK, HandlerType
  <2>4. handler'[h].pc \notin Locking
    BY <2>2 DEF Locking, Discarding
  <2> QED BY <2>1, <2>2, <2>3, <2>4, HandlerStep
<1>6. ASSUME NEW t \in Targets, ConsumePrepares(h, t) PROVE IInv'
  <2>1. /\ handler[h].pc = "idle" /\ row.status = "ready" /\ lock = NoHandler
        /\ store.object = row.generation
        /\ handler' = [handler EXCEPT ![h].pc = "prepared", ![h].target = t,
                                      ![h].generation = store.object]
        /\ UNCHANGED <<row, lock, store, inflight, content, expired, artifacts, faults>>
    BY <1>6 DEF ConsumePrepares, Authorized, Lockable
  <2>2. store.object = 1 /\ store.session # "open"
    BY <1>1, <2>1 DEF RowOK
  <2>3. /\ handler' \in [Handlers -> HandlerType] /\ handler'[h].pc = "prepared"
        /\ handler'[h].generation = 1 /\ handler'[h].target = t
        /\ \A g \in Handlers \ {h} : handler'[g] = handler[g]
    BY <1>1, <2>1, <2>2 DEF HandlerType, PCs
  <2>4. TypeOK'
    BY <1>1, <2>1, <2>3 DEF TypeOK, HandlerType
  <2>5. HandlerOK(h)' /\ handler'[h].pc \notin Locking
    BY <2>1, <2>2, <2>3 DEF HandlerOK, Locking, Discarding
  <2> QED BY <1>1, <2>1, <2>3, <2>4, <2>5, HandlerStep
<1> QED BY <1>2, <1>3, <1>4, <1>5, <1>6

------------------------------------------------------------------------------
\* A discard holds the row of an upload that exists.
LEMMA DiscardHolds ==
    ASSUME IInv, NEW h \in Handlers, handler[h].pc \in Discarding
    PROVE  /\ lock = h /\ row.status # "absent" /\ h # NoHandler
           /\ handler[h].job = "abandon" => row.status # "finalized"
  BY UploadAssumption DEF IInv, LockOK, AbsentOK, Locking, HandlerOK, Discarding

\* What the provider may do for a discard: cancel the session, or delete the
\* object.
LEMMA CancelledStore ==
    ASSUME IInv, NEW h \in Handlers, handler[h].pc = "cancel"
    PROVE  /\ CancelledSession(h) \in StoreType
           /\ CancelledSession(h) \in {store, [store EXCEPT !.session = "gone"]}
           /\ CancelledSession(h).object = store.object
           /\ CancelledSession(h).session # "open"
<1>1. /\ store \in StoreType /\ RowOK /\ row.status # "absent"
      /\ handler[h].pc \in Discarding
  BY Types, DiscardHolds DEF IInv, Discarding
<1> QED BY <1>1 DEF CancelledSession, StoreType, RowOK

LEMMA DeletedStore ==
    ASSUME IInv, NEW h \in Handlers
    PROVE  /\ WithoutObject(h) \in StoreType
           /\ WithoutObject(h) \in {store, [store EXCEPT !.object = 0]}
           /\ WithoutObject(h).session = store.session
           /\ handler[h].generation = 1 \/ store.object = 0 =>
                WithoutObject(h).object = 0
  BY Types DEF IInv, WithoutObject, StoreType

LEMMA DiscardSteps ==
    ASSUME IInv, NEW h \in Handlers,
           CancelSession(h) \/ ReadGeneration(h) \/ DeleteTemporary(h)
    PROVE  IInv'
<1>1. /\ handler \in [Handlers -> HandlerType] /\ handler[h] \in HandlerType
      /\ TypeOK /\ store \in StoreType /\ row \in RowType /\ HandlerOK(h)
  BY Types DEF IInv
<1>2. /\ handler[h].pc \in {"cancel", "read", "delete"}
      /\ UNCHANGED <<row, lock, inflight, content, expired, artifacts, faults>>
  BY DEF CancelSession, ReadGeneration, DeleteTemporary, Goto
<1>3. /\ lock = h /\ row.status # "absent" /\ h # NoHandler
      /\ handler[h].job = "abandon" => row.status # "finalized"
  BY <1>2, DiscardHolds DEF Discarding
<1>4. CASE CancelSession(h)
  <2>1. /\ handler[h].pc = "cancel" /\ store' = CancelledSession(h)
        /\ handler' = [handler EXCEPT ![h].pc = "read"]
    BY <1>4 DEF CancelSession, Goto
  <2>2. /\ handler' \in [Handlers -> HandlerType] /\ handler'[h].pc = "read"
        /\ handler'[h].job = handler[h].job
        /\ \A g \in Handlers \ {h} : handler'[g] = handler[g]
    BY <1>1, <2>1 DEF HandlerType, PCs, Discarding
  <2>3. /\ store' \in StoreType
        /\ store' \in {store, [store EXCEPT !.session = "gone"]}
        /\ store'.object = store.object /\ store'.session # "open"
    BY <2>1, CancelledStore
  <2>4. TypeOK'
    BY <1>1, <1>2, <2>2, <2>3 DEF TypeOK, HandlerType, StoreType
  <2>5. HandlerOK(h)' /\ handler'[h].pc \in Locking
    BY <1>2, <1>3, <2>2, <2>3 DEF HandlerOK, Locking, Discarding
  <2> QED BY <1>2, <1>3, <2>1, <2>2, <2>3, <2>4, <2>5, HandlerStep
<1>5. CASE ReadGeneration(h)
  <2> DEFINE generation == IF row.generation # 0 THEN row.generation ELSE store.object
  <2>1. /\ handler[h].pc = "read" /\ UNCHANGED store
        /\ handler' = [handler EXCEPT ![h].pc = "delete", ![h].generation = generation]
    BY <1>5 DEF ReadGeneration
  <2>2. generation \in {0, 1} /\ (generation = 0 => store.object = 0)
    BY <1>1 DEF RowType, StoreType
  <2> HIDE DEF generation
  <2>3. /\ handler' \in [Handlers -> HandlerType] /\ handler'[h].pc = "delete"
        /\ handler'[h].job = handler[h].job /\ handler'[h].generation = generation
        /\ \A g \in Handlers \ {h} : handler'[g] = handler[g]
    BY <1>1, <2>1, <2>2 DEF HandlerType, PCs, Discarding
  <2>4. TypeOK'
    BY <1>1, <1>2, <2>1, <2>3 DEF TypeOK, HandlerType
  <2>5. HandlerOK(h)' /\ handler'[h].pc \in Locking
    BY <1>1, <1>2, <1>3, <2>1, <2>2, <2>3 DEF HandlerOK, Locking, Discarding
  <2> QED BY <1>2, <1>3, <2>1, <2>3, <2>4, <2>5, HandlerStep
<1>6. CASE DeleteTemporary(h)
  <2>1. /\ handler[h].pc = "delete" /\ store' = WithoutObject(h)
        /\ handler' = [handler EXCEPT ![h].pc = "commit"]
    BY <1>6 DEF DeleteTemporary, Goto
  <2>2. /\ handler' \in [Handlers -> HandlerType] /\ handler'[h].pc = "commit"
        /\ handler'[h].job = handler[h].job
        /\ \A g \in Handlers \ {h} : handler'[g] = handler[g]
    BY <1>1, <2>1 DEF HandlerType, PCs, Discarding
  <2>3. handler[h].generation = 1 \/ store.object = 0
    BY <1>1, <2>1 DEF HandlerOK, HandlerType
  <2>4. /\ store' \in StoreType /\ store' \in {store, [store EXCEPT !.object = 0]}
        /\ store'.session = store.session /\ store'.object = 0
    BY <2>1, <2>3, DeletedStore
  <2>5. TypeOK'
    BY <1>1, <1>2, <2>2, <2>4 DEF TypeOK, HandlerType, StoreType
  <2>6. HandlerOK(h)' /\ handler'[h].pc \in Locking
    BY <1>1, <1>2, <1>3, <2>1, <2>2, <2>4 DEF HandlerOK, Locking, Discarding
  <2>7. Excused'
    BY <1>2, <1>3, <2>2 DEF Excused
  <2> QED BY <1>2, <1>3, <2>1, <2>2, <2>4, <2>5, <2>6, <2>7, HandlerStep
<1> QED BY <1>4, <1>5, <1>6

\* The discard is recorded.
LEMMA DiscardCommitsStep ==
    ASSUME IInv, NEW h \in Handlers, DiscardCommits(h)
    PROVE  IInv'
<1>1. /\ handler[h].pc = "commit" /\ row' = Discarded /\ Finish(h)
      /\ UNCHANGED <<store, inflight, content, expired, artifacts, faults>>
  BY DEF DiscardCommits
<1>2. lock = h /\ row.status # "absent"
  BY <1>1, DiscardHolds DEF Discarding
<1>3. /\ row \in RowType /\ TypeOK /\ RowOK /\ ReadyKeepsItsBytes
      /\ store.object = 0 /\ store.session # "open"
  BY <1>1, Types DEF IInv, HandlerOK
<1>4. /\ handler' \in [Handlers -> HandlerType]
      /\ handler'[h].pc = "idle" /\ HandlerOK(h)'
      /\ \A g \in Handlers \ {h} : handler'[g] = handler[g]
      /\ lock' = IF lock = h THEN NoHandler ELSE lock
      /\ lock' \in Handlers \union {NoHandler}
  BY <1>1, Finished
<1>5. /\ row' \in RowType /\ row'.session = FALSE
      /\ row'.status = IF row.status = "finalized" THEN "finalized" ELSE "abandoned"
      /\ row'.generation = row.generation
      /\ row'.binding = row.binding /\ row'.confirmed = row.confirmed
  BY <1>1, <1>3 DEF Discarded, RowType, Statuses
<1>6. /\ RowOK' /\ PromisesKept' /\ CleanedLeavesNothing'
      /\ OnlyBoundArtifact' /\ ReadyKeepsItsBytes'
  BY <1>1, <1>3, <1>5, RowChanged DEF RowOK, ReadyKeepsItsBytes, Promised
<1>7. AbsentOK' /\ LockOK' /\ StoreOK' /\ \A g \in Handlers : HandlerOK(g)'
  <2>1. handler'[h].pc \notin Locking /\ handler'[h].pc # "started"
    BY <1>4 DEF Locking, Discarding
  <2> QED BY <1>1, <1>2, <1>4, <1>5, <2>1, RowStep
<1>8. TypeOK'
  BY <1>1, <1>3, <1>4, <1>5 DEF TypeOK, RowType, HandlerType
<1> QED BY <1>6, <1>7, <1>8 DEF IInv

\* A provider call of a discard fails.
LEMMA DiscardFailsStep ==
    ASSUME IInv, NEW h \in Handlers, DiscardFails(h)
    PROVE  IInv'
<1>1. /\ handler[h].pc \in {"cancel", "read", "delete"} /\ Finish(h)
      /\ faults < MaxFaults /\ faults' = faults + 1
      /\ row' = row \/ (handler[h].job = "abandon" /\
                        row' = [row EXCEPT !.status = "abandoned"])
      /\ \/ store' = store
         \/ handler[h].pc = "cancel" /\ store' = CancelledSession(h)
         \/ handler[h].pc = "delete" /\ store' = WithoutObject(h)
      /\ UNCHANGED <<inflight, content, expired, artifacts>>
  BY DEF DiscardFails
<1>2. /\ lock = h /\ row.status # "absent"
      /\ handler[h].job = "abandon" => row.status # "finalized"
  BY <1>1, DiscardHolds DEF Discarding
<1>3. /\ row \in RowType /\ store \in StoreType /\ faults \in Nat /\ TypeOK /\ RowOK
      /\ CleanedLeavesNothing /\ OnlyBoundArtifact /\ ReadyKeepsItsBytes
  BY Types DEF IInv
<1>4. /\ handler' \in [Handlers -> HandlerType]
      /\ handler'[h].pc = "idle" /\ HandlerOK(h)'
      /\ \A g \in Handlers \ {h} : handler'[g] = handler[g]
      /\ lock' = IF lock = h THEN NoHandler ELSE lock
      /\ lock' \in Handlers \union {NoHandler}
  BY <1>1, Finished
<1>5. /\ store' \in StoreType
      /\ store' \in {store, [store EXCEPT !.session = "gone"],
                     [store EXCEPT !.object = 0]}
      /\ store.session # "open" => store'.session # "open"
      /\ store.object = 0 => store'.object = 0
      /\ store'.persisted = store.persisted
  <2>1. handler[h].pc = "cancel" =>
          /\ CancelledSession(h) \in StoreType
          /\ CancelledSession(h) \in {store, [store EXCEPT !.session = "gone"]}
    BY CancelledStore
  <2>2. /\ WithoutObject(h) \in StoreType
        /\ WithoutObject(h) \in {store, [store EXCEPT !.object = 0]}
    BY DeletedStore
  <2>3. /\ store' \in StoreType
        /\ store' \in {store, [store EXCEPT !.session = "gone"],
                       [store EXCEPT !.object = 0]}
    BY <1>1, <1>3, <2>1, <2>2
  <2> QED BY <1>3, <2>3 DEF StoreType
<1>6. /\ row' \in RowType /\ row'.session = row.session /\ row'.cleaned = row.cleaned
      /\ row'.generation = row.generation
      /\ row'.binding = row.binding /\ row'.confirmed = row.confirmed
      /\ \/ row'.status = row.status
         \/ row'.status = "abandoned" /\ row.status # "finalized"
  BY <1>1, <1>2, <1>3 DEF RowType, Statuses
<1>7. /\ RowOK' /\ CleanedLeavesNothing' /\ OnlyBoundArtifact'
  BY <1>1, <1>2, <1>3, <1>5, <1>6 DEF RowOK, CleanedLeavesNothing, OnlyBoundArtifact
<1>8. faults' > 0
  BY <1>1, <1>3
<1>9. PromisesKept' /\ ReadyKeepsItsBytes'
  BY <1>3, <1>5, <1>6, <1>8 DEF PromisesKept, Excused, ReadyKeepsItsBytes
<1>10. AbsentOK' /\ LockOK' /\ StoreOK' /\ \A g \in Handlers : HandlerOK(g)'
  <2>1. handler'[h].pc \notin Locking /\ handler'[h].pc # "started"
    BY <1>4 DEF Locking, Discarding
  <2> QED BY <1>2, <1>4, <1>5, <1>6, <2>1, RowStep
<1>11. TypeOK'
  <2>1. faults' \in 0 .. MaxFaults
    BY <1>1, <1>3, UploadAssumption
  <2> QED BY <1>1, <1>3, <1>4, <1>5, <1>6, <2>1 DEF TypeOK, RowType, StoreType, HandlerType
<1> QED BY <1>7, <1>9, <1>10, <1>11 DEF IInv

------------------------------------------------------------------------------
\* A step of consume that fixes its time or deletes the object.
LEMMA ConsumeMoves ==
    ASSUME IInv, NEW h \in Handlers, StoreBegins(h) \/ ConsumeReadsBack(h)
                                      \/ ConsumeDeletes(h)
    PROVE  IInv'
<1>1. /\ handler \in [Handlers -> HandlerType] /\ handler[h] \in HandlerType
      /\ TypeOK /\ store \in StoreType /\ HandlerOK(h) /\ expired \in BOOLEAN
      /\ handler[h].pc \in {"prepared", "bound", "confirmed"}
      /\ UNCHANGED <<row, lock, inflight, content, expired, artifacts, faults>>
  BY Types DEF IInv, StoreBegins, ConsumeReadsBack, ConsumeDeletes, Goto
<1>2. row.status # "absent" /\ lock # h
  BY <1>1 DEF IInv, AbsentOK, LockOK, Locking, Discarding
<1>3. CASE StoreBegins(h)
  <2>1. /\ handler[h].pc = "prepared" /\ UNCHANGED store
        /\ handler' = [handler EXCEPT ![h].pc = "storing", ![h].fresh = ~expired]
    BY <1>3 DEF StoreBegins
  <2>2. /\ handler' \in [Handlers -> HandlerType] /\ handler'[h].pc = "storing"
        /\ handler'[h].generation = handler[h].generation
        /\ handler'[h].target = handler[h].target
        /\ \A g \in Handlers \ {h} : handler'[g] = handler[g]
    BY <1>1, <2>1 DEF HandlerType, PCs
  <2>3. TypeOK'
    BY <1>1, <2>1, <2>2 DEF TypeOK, HandlerType
  <2>4. HandlerOK(h)' /\ handler'[h].pc \notin Locking
    BY <1>1, <2>1, <2>2 DEF HandlerOK, Locking, Discarding
  <2> QED BY <1>1, <1>2, <2>1, <2>2, <2>3, <2>4, HandlerStep
<1>4. CASE ConsumeDeletes(h)
  <2>1. /\ handler[h].pc = "confirmed" /\ row.status = "finalized"
        /\ store' = WithoutObject(h)
        /\ handler' = [handler EXCEPT ![h].pc = "deleted"]
    BY <1>1, <1>4 DEF ConsumeDeletes, Goto, HandlerOK
  <2>2. /\ handler' \in [Handlers -> HandlerType] /\ handler'[h].pc = "deleted"
        /\ \A g \in Handlers \ {h} : handler'[g] = handler[g]
    BY <1>1, <2>1 DEF HandlerType, PCs
  <2>3. handler[h].generation = 1
    BY <1>1, <2>1 DEF HandlerOK
  <2>4. /\ store' \in StoreType /\ store' \in {store, [store EXCEPT !.object = 0]}
        /\ store'.session = store.session /\ store'.object = 0
    BY <2>1, <2>3, DeletedStore
  <2>5. TypeOK'
    BY <1>1, <2>2, <2>4 DEF TypeOK, HandlerType, StoreType
  <2>6. HandlerOK(h)' /\ handler'[h].pc \notin Locking
    BY <1>1, <2>1, <2>2, <2>4 DEF HandlerOK, Locking, Discarding
  <2> QED BY <1>1, <1>2, <2>1, <2>2, <2>4, <2>5, <2>6, HandlerStep
<1>5. CASE ConsumeReadsBack(h)
  <2>1. /\ handler[h].pc = "bound" /\ row.status = "finalized" /\ UNCHANGED store
        /\ handler' = [handler EXCEPT ![h].pc = "confirmed"]
    BY <1>5 DEF ConsumeReadsBack, Goto
  <2>2. /\ handler' \in [Handlers -> HandlerType] /\ handler'[h].pc = "confirmed"
        /\ handler'[h].generation = handler[h].generation
        /\ handler'[h].target = handler[h].target
        /\ \A g \in Handlers \ {h} : handler'[g] = handler[g]
    BY <1>1, <2>1 DEF HandlerType, PCs
  <2>3. TypeOK'
    BY <1>1, <2>1, <2>2 DEF TypeOK, HandlerType
  <2>4. HandlerOK(h)' /\ handler'[h].pc \notin Locking
    BY <1>1, <2>1, <2>2 DEF HandlerOK, Locking, Discarding
  <2> QED BY <1>1, <1>2, <2>1, <2>2, <2>3, <2>4, HandlerStep
<1> QED BY <1>3, <1>4, <1>5

\* The artifact transaction commits and finalizes the row with it.
LEMMA StoreBindsStep ==
    ASSUME IInv, NEW h \in Handlers, StoreBinds(h)
    PROVE  IInv'
<1>1. /\ handler[h].pc = "storing" /\ row.status # "absent" /\ lock = NoHandler
      /\ \/ row.status = "ready"
         \/ row.status = "finalized" /\ row.binding = handler[h].target
      /\ row' = [row EXCEPT !.status = "finalized", !.binding = handler[h].target]
      /\ artifacts' = artifacts \union {handler[h].target}
      /\ handler' = [handler EXCEPT ![h].pc = "bound"]
      /\ UNCHANGED <<lock, store, inflight, content, expired, faults>>
  BY DEF StoreBinds, Lockable, Bindable, Goto
<1>2. /\ row \in RowType /\ handler \in [Handlers -> HandlerType]
      /\ handler[h] \in HandlerType /\ artifacts \subseteq Targets
      /\ TypeOK /\ RowOK /\ CleanedLeavesNothing /\ OnlyBoundArtifact
      /\ ReadyKeepsItsBytes /\ HandlerOK(h) /\ h # NoHandler
  BY Types, UploadAssumption DEF IInv
<1>3. /\ row' \in RowType /\ row'.status = "finalized"
      /\ row'.binding = handler[h].target /\ row'.session = row.session
      /\ row'.cleaned = row.cleaned /\ row'.generation = row.generation
      /\ row'.confirmed = row.confirmed
  BY <1>1, <1>2 DEF RowType, Statuses, HandlerType
<1>4. /\ handler' \in [Handlers -> HandlerType] /\ handler'[h].pc = "bound"
      /\ handler'[h].generation = handler[h].generation
      /\ handler'[h].target = handler[h].target
      /\ \A g \in Handlers \ {h} : handler'[g] = handler[g]
  BY <1>1, <1>2 DEF HandlerType, PCs
<1>5. handler[h].target \in Targets
  BY <1>1, <1>2 DEF HandlerOK
<1>6. TypeOK'
  BY <1>1, <1>2, <1>3, <1>4, <1>5 DEF TypeOK, RowType, HandlerType
<1>7. RowOK' /\ CleanedLeavesNothing'
  BY <1>1, <1>2, <1>3 DEF RowOK, CleanedLeavesNothing
<1>8. OnlyBoundArtifact'
  BY <1>1, <1>2, <1>3 DEF RowOK, OnlyBoundArtifact
<1>9. PromisesKept' /\ ReadyKeepsItsBytes'
  BY <1>1, <1>2, <1>3 DEF PromisesKept, Promised, ReadyKeepsItsBytes
<1>10. AbsentOK' /\ LockOK' /\ StoreOK' /\ \A g \in Handlers : HandlerOK(g)'
  <2>1. /\ HandlerOK(h)' /\ handler'[h].pc \notin Locking
    BY <1>1, <1>2, <1>4 DEF HandlerOK, Locking, Discarding
  <2> QED BY <1>1, <1>2, <1>3, <1>4, <2>1, RowStep
<1> QED BY <1>6, <1>7, <1>8, <1>9, <1>10 DEF IInv

\* The deletion after a consume is recorded.
LEMMA ConsumeSavesStep ==
    ASSUME IInv, NEW h \in Handlers, ConsumeSaves(h)
    PROVE  IInv'
<1>1. /\ handler[h].pc = "deleted" /\ row.status # "absent" /\ lock = NoHandler
      /\ row' = [row EXCEPT !.cleaned = TRUE] /\ Finish(h)
      /\ UNCHANGED <<store, inflight, content, expired, artifacts, faults>>
  BY DEF ConsumeSaves, Lockable
<1>2. /\ row \in RowType /\ TypeOK /\ RowOK /\ ReadyKeepsItsBytes /\ PromisesKept
      /\ store.object = 0 /\ store.session # "open"
  BY <1>1, Types DEF IInv, HandlerOK
<1>3. /\ handler' \in [Handlers -> HandlerType]
      /\ handler'[h].pc = "idle" /\ HandlerOK(h)'
      /\ \A g \in Handlers \ {h} : handler'[g] = handler[g]
      /\ lock' = IF lock = h THEN NoHandler ELSE lock
      /\ lock' \in Handlers \union {NoHandler}
  BY <1>1, Finished
<1>4. /\ row' \in RowType /\ row'.session = row.session /\ row'.status = row.status
      /\ row'.generation = row.generation
      /\ row'.binding = row.binding /\ row'.confirmed = row.confirmed
  BY <1>1, <1>2 DEF RowType
<1>5. Excused => Excused'
  BY <1>1, <1>3, ExcuseLasts
<1>6. /\ RowOK' /\ PromisesKept' /\ CleanedLeavesNothing'
      /\ OnlyBoundArtifact' /\ ReadyKeepsItsBytes'
  BY <1>1, <1>2, <1>4, <1>5, RowChanged
     DEF RowOK, ReadyKeepsItsBytes, PromisesKept, Promised
<1>7. AbsentOK' /\ LockOK' /\ StoreOK' /\ \A g \in Handlers : HandlerOK(g)'
  <2>1. handler'[h].pc \notin Locking /\ handler'[h].pc # "started"
    BY <1>3 DEF Locking, Discarding
  <2> QED BY <1>1, <1>3, <1>4, <2>1, RowStep
<1>8. TypeOK'
  BY <1>1, <1>2, <1>3, <1>4 DEF TypeOK, RowType, HandlerType
<1> QED BY <1>6, <1>7, <1>8 DEF IInv

\* A handler gives up, or its process dies: the row it held stays as it was.
LEMMA GivesUp ==
    ASSUME IInv, NEW h \in Handlers,
           StoreRollsBack(h) \/ ConsumeLeavesCleanup(h) \/ Crash(h)
    PROVE  IInv'
<1>1. /\ handler[h].pc # "idle" /\ Finish(h)
      /\ faults' = faults \/ (faults < MaxFaults /\ faults' = faults + 1)
      /\ handler[h].pc = "commit" => faults' = faults + 1
      /\ UNCHANGED <<row, store, inflight, content, expired, artifacts>>
  BY DEF StoreRollsBack, ConsumeLeavesCleanup, Crash
<1>2. TypeOK /\ faults \in Nat
  BY Types DEF IInv
<1>3. /\ handler' \in [Handlers -> HandlerType]
      /\ handler'[h].pc = "idle" /\ HandlerOK(h)'
      /\ \A g \in Handlers \ {h} : handler'[g] = handler[g]
      /\ lock' = IF lock = h THEN NoHandler ELSE lock
      /\ lock' \in Handlers \union {NoHandler}
  BY <1>1, Finished
<1>4. TypeOK'
  <2>1. faults' \in 0 .. MaxFaults
    BY <1>1, <1>2, UploadAssumption DEF TypeOK
  <2> QED BY <1>1, <1>2, <1>3, <2>1 DEF TypeOK, HandlerType
<1>5. handler'[h].pc \notin Locking /\ handler'[h].pc # "started"
  BY <1>3 DEF Locking, Discarding
<1>6. CASE row.status # "absent"
  <2>1. Excused => Excused'
    <3>1. CASE handler[h].pc = "commit"
      BY <1>1, <1>2, <3>1 DEF Excused
    <3>2. CASE handler[h].pc # "commit"
      BY <1>1, <1>2, <1>3, <3>2, ExcuseLasts
    <3> QED BY <3>1, <3>2
  <2>2. /\ RowOK' /\ PromisesKept' /\ CleanedLeavesNothing'
        /\ OnlyBoundArtifact' /\ ReadyKeepsItsBytes'
    BY <1>1, <2>1, RowKept
  <2>3. AbsentOK' /\ LockOK' /\ StoreOK' /\ \A g \in Handlers : HandlerOK(g)'
    BY <1>1, <1>3, <1>5, <1>6, RowStep
  <2> QED BY <1>4, <2>2, <2>3 DEF IInv
<1>7. CASE row.status = "absent"
  <2>1. /\ lock = NoHandler /\ handler[h].pc = "started"
        /\ \A g \in Handlers : handler[g].pc = "started" => g = h
        /\ \A g \in Handlers : handler[g].pc \in {"idle", "started"}
    BY <1>1, <1>7 DEF IInv, AbsentOK
  <2>2. \A g \in Handlers : handler'[g].pc = "idle"
    BY <1>3, <2>1
  <2>3. lock' = NoHandler
    BY <1>3, <2>1
  <2>4. LockOK'
    BY <2>2, <2>3, UploadAssumption DEF LockOK, Locking, Discarding
  <2>5. AbsentOK' /\ StoreOK' /\ RowOK'
    BY <1>1, <1>7, <2>2, <2>3 DEF IInv, AbsentOK, StoreOK, RowOK
  <2>6. \A g \in Handlers : HandlerOK(g)'
    BY <2>2 DEF HandlerOK, Discarding
  <2>7. /\ PromisesKept' /\ CleanedLeavesNothing'
        /\ OnlyBoundArtifact' /\ ReadyKeepsItsBytes'
    BY <1>1, <1>7 DEF IInv, PromisesKept, Promised, CleanedLeavesNothing,
                      OnlyBoundArtifact, ReadyKeepsItsBytes
  <2> QED BY <1>4, <2>4, <2>5, <2>6, <2>7 DEF IInv
<1> QED BY <1>6, <1>7

------------------------------------------------------------------------------
\* The provider moves on by itself, and lifetimes pass.
LEMMA ChunkArrivesStep ==
    ASSUME IInv, NEW c \in inflight, ChunkArrives(c)
    PROVE  IInv'
<1>1. /\ store \in StoreType /\ row \in RowType /\ inflight \subseteq Chunks
      /\ TypeOK /\ c \in Chunks /\ Size \in Nat
  BY Types, UploadAssumption DEF IInv
<1>2. /\ store.session = "open" /\ inflight' = inflight \ {c}
      /\ store' = IF c.upto = Size
                  THEN [session |-> "done", persisted |-> Size, object |-> 1]
                  ELSE [store EXCEPT !.persisted = IF c.upto > @ THEN c.upto ELSE @]
      /\ UNCHANGED <<row, lock, content, expired, artifacts, handler, faults>>
  BY DEF ChunkArrives
<1>3. c.upto \in 0 .. Size /\ row.status # "absent"
  BY <1>1 DEF Chunks, IInv, AbsentOK
<1>4. /\ store' \in StoreType /\ store.persisted <= store'.persisted
      /\ \/ store'.session = "done" /\ store'.persisted = Size /\ store'.object = 1
         \/ store'.session = "open" /\ store'.object = store.object
  <2>1. CASE c.upto = Size
    BY <1>1, <1>2, <2>1 DEF StoreType
  <2>2. CASE c.upto # Size
    BY <1>1, <1>2, <1>3, <2>2 DEF StoreType
  <2> QED BY <2>1, <2>2
<1>5. TypeOK'
  BY <1>1, <1>2, <1>4 DEF TypeOK, StoreType
<1>6. AbsentOK' /\ LockOK' /\ RowOK'
  BY <1>2, <1>3, <1>4 DEF IInv, AbsentOK, LockOK, RowOK
<1>7. StoreOK'
  BY <1>2, <1>4 DEF IInv, StoreOK
<1>8. \A h \in Handlers : HandlerOK(h)'
  <2>1. \A h \in Handlers : HandlerOK(h)
    BY DEF IInv
  <2>2. \A h \in Handlers :
          /\ handler[h].pc = "commit" => store.session # "open"
          /\ handler[h].pc \in {"read", "delete", "commit", "prepared", "storing",
                                "bound", "confirmed", "deleted"} => store.session # "open"
    BY <2>1 DEF HandlerOK
  <2> QED BY <1>2, <2>1, <2>2 DEF HandlerOK
<1>9. PromisesKept' /\ CleanedLeavesNothing'
  BY <1>2, <1>4 DEF IInv, PromisesKept, Promised, CleanedLeavesNothing, Excused
<1>10. OnlyBoundArtifact'
  BY <1>2 DEF IInv, OnlyBoundArtifact
<1>11. ReadyKeepsItsBytes'
  BY <1>1, <1>2, <1>4 DEF IInv, ReadyKeepsItsBytes, RowType, StoreType
<1> QED BY <1>5, <1>6, <1>7, <1>8, <1>9, <1>10, <1>11 DEF IInv

LEMMA ProviderStep ==
    ASSUME IInv, \/ \E c \in inflight : ChunkLost(c)
                 \/ SessionVanishes \/ Expire
    PROVE  IInv'
<1>1. /\ store \in StoreType /\ inflight \subseteq Chunks /\ TypeOK
  BY Types DEF IInv
<1>2. /\ inflight' \subseteq inflight /\ expired' \in BOOLEAN
      /\ \/ store' = store
         \/ SessionLive /\ store' = [store EXCEPT !.session = "gone"]
      /\ UNCHANGED <<row, lock, content, artifacts, handler, faults>>
  <2>1. expired \in BOOLEAN
    BY Types DEF IInv
  <2>2. CASE \E c \in inflight : ChunkLost(c)
    BY <2>1, <2>2 DEF ChunkLost
  <2>3. CASE SessionVanishes \/ Expire
    BY <2>1, <2>3 DEF SessionVanishes, Expire
  <2> QED BY <2>2, <2>3
<1>3. /\ store' \in StoreType /\ store'.persisted = store.persisted
      /\ store'.object = store.object
      /\ \/ store'.session = store.session
         \/ store.session \in {"open", "done"} /\ store'.session = "gone"
  BY <1>1, <1>2 DEF StoreType, SessionLive
<1>4. TypeOK'
  BY <1>1, <1>2, <1>3 DEF TypeOK, StoreType
<1>5. AbsentOK' /\ LockOK' /\ StoreOK'
  BY <1>2, <1>3 DEF IInv, AbsentOK, LockOK, StoreOK
<1>6. \A h \in Handlers : HandlerOK(h)'
  BY <1>2, <1>3 DEF IInv, HandlerOK
<1>7. /\ RowOK' /\ PromisesKept' /\ CleanedLeavesNothing'
      /\ OnlyBoundArtifact' /\ ReadyKeepsItsBytes'
  BY <1>2, <1>3, RowKept DEF Excused
<1> QED BY <1>4, <1>5, <1>6, <1>7 DEF IInv

LEMMA NextIInv == IInv /\ [Next]_vars => IInv'
<1> SUFFICES ASSUME IInv, [Next]_vars PROVE IInv'
  OBVIOUS
<1>1. ASSUME NEW h \in Handlers, Request(h) \/ CleanupLists(h) PROVE IInv'
  BY <1>1, StartResumableStep, GetUploadStep, AppendSendsStep, CompleteReadyStep,
     CompleteRejectsStep, ClaimSteps DEF Request
<1>2. ASSUME NEW h \in Handlers, Continue(h) \/ Crash(h) PROVE IInv'
  BY <1>2, StartEnds, AppendEnds, ClaimSteps, DiscardSteps, DiscardCommitsStep,
     DiscardFailsStep, ConsumeMoves, StoreBindsStep, ConsumeSavesStep, GivesUp
     DEF Continue
<1>3. CASE Provider \/ Expire
  BY <1>3, ChunkArrivesStep, ProviderStep DEF Provider
<1>4. CASE UNCHANGED vars
  BY <1>4 DEF vars, IInv, TypeOK, AbsentOK, LockOK, StoreOK, RowOK, HandlerOK,
              PromisesKept, Promised, Excused, CleanedLeavesNothing, OnlyBoundArtifact,
              ReadyKeepsItsBytes
<1> QED BY <1>1, <1>2, <1>3, <1>4 DEF Next

------------------------------------------------------------------------------
\* Whatever handlers and clean-up passes interleave, the row, the session and
\* the object stay as withLockedUpload and its callers rely on.
THEOREM Invariance == Spec => []IInv
<1> QED BY InitIInv, NextIInv, PTL DEF Spec

\* Row, provider, locks and handlers keep their types
\* (pending-artifact-uploads.ts, artifact_uploads columns).
THEOREM TypeCorrect == Spec => []TypeOK
<1>1. IInv => TypeOK
  BY DEF IInv
<1> QED BY <1>1, Invariance, PTL

\* An upload whose clean-up is recorded has left neither an object nor a
\* session that could still make one (cleanup_completed_at).
THEOREM CleanedIsGone == Spec => []CleanedLeavesNothing
<1>1. IInv => CleanedLeavesNothing
  BY DEF IInv
<1> QED BY <1>1, Invariance, PTL

\* At most one artifact comes of an upload, the one its row is bound to, and
\* from validated bytes (bindPendingUpload).
THEOREM BoundOnce == Spec => []OnlyBoundArtifact
<1>1. IInv => OnlyBoundArtifact
  BY DEF IInv
<1> QED BY <1>1, Invariance, PTL

\* The recorded offset is never ahead of the provider, and uploaded bytes stay
\* until a discard takes them (withLockedUpload).
THEOREM BytesStay == Spec => []ReadyKeepsItsBytes
<1>1. IInv => ReadyKeepsItsBytes
  BY DEF IInv
<1> QED BY <1>1, Invariance, PTL

------------------------------------------------------------------------------
(* Retained artifacts.                                                    *)

Storing == {"item", "lock", "upload", "commit"}
Deleting == {"fingerprint", "check", "record", "mark"}

\* A store has locked its target, and each new item has still to be recorded.
StoringOK(k) ==
    /\ client[k].pc \in Storing =>
         /\ client[k].request \in Requests
         /\ \A i \in 1 .. Len(client[k].request) :
              targetLock[Target[client[k].request[i]]] = k
         /\ \A a \in client[k].fresh :
              \E i \in 1 .. Len(client[k].request) : a = client[k].request[i]
    /\ client[k].pc \in {"item", "lock", "upload"} =>
         client[k].next \in 1 .. Len(client[k].request)
    /\ client[k].pc \in {"lock", "upload"} => file[Item(k)] = "none"
    /\ client[k].pc = "upload" => contentLock[Content[Item(k)]] = k
    /\ client[k].pc \notin Storing => client[k].fresh = {}

\* What a store has taken up has its bytes, and keeps deletions away from them.
FreshOK(k) ==
    \A a \in client[k].fresh :
        /\ file[a] = "none"
        /\ contentLock[Content[a]] = k
        /\ Content[a] \in object \union severed

\* A deletion that found no other reference finds none when it commits.
DeleteOK(k) ==
    /\ client[k].pc \in Deleting =>
         client[k].artifact \in Artifacts /\ file[client[k].artifact] # "none"
    /\ client[k].pc \in {"check", "record"} => contentLock[Doomed(k)] = k
    /\ client[k].pc = "record" /\ client[k].removed =>
         FinalReference(client[k].artifact)

\* The rows of core.file_objects follow the provider and the references.
PhysicalOK ==
    /\ \A c \in Contents : physical[c] \in {"available", "deletion_failed"} =>
         c \in object \union severed \/ BeingDeleted(c)
    /\ \A a \in Artifacts : file[a] # "none" => physical[Content[a]] # "none"
    /\ \A a \in Artifacts : Live(a) =>
         physical[Content[a]] \in {"available", "deletion_failed"}

\* A version is given out with an artifact that was not there before.
Recorded == {a \in Artifacts : file[a] # "none"}

VersionsOK == \A a \in Artifacts : link[a].version <= Cardinality(Recorded)

ArtifactIInv ==
    /\ ArtifactTypeOK
    /\ \A k \in Clients : StoringOK(k) /\ FreshOK(k) /\ DeleteOK(k)
    /\ PhysicalOK
    /\ VersionsOK
    /\ CurrentIsLatest

------------------------------------------------------------------------------
(* The operators. *)

\* A bounded set of numbers has a maximum: the least of its upper bounds.
LEMMA Greatest ==
    ASSUME NEW S \in SUBSET Nat, S # {}, NEW n \in Nat, \A m \in S : m <= n
    PROVE  \E u \in S : \A m \in S : m <= u
<1> DEFINE B == {b \in Nat : \A m \in S : m <= b}
           R == OpToRel(<, Nat)
<1>1. B # {} /\ B \subseteq Nat
  OBVIOUS
<1>2. PICK u \in B : \A v \in B : <<v, u>> \notin R
  <2>1. IsWellFoundedOn(R, Nat)
    BY NatLessThanWellFounded
  <2> HIDE DEF B, R
  <2> QED BY <1>1, <2>1, WFMin
<1>3. \A v \in B : ~(v < u)
  BY <1>2 DEF OpToRel
<1>4. u \in S
  <2> SUFFICES ASSUME u \notin S PROVE FALSE
    OBVIOUS
  <2>1. PICK m \in S : m < u
    <3>1. PICK m \in S : TRUE
      OBVIOUS
    <3>2. m \in Nat /\ u \in Nat /\ m <= u /\ m # u
      BY <3>1
    <3> QED BY <3>2
  <2>2. u - 1 \in Nat /\ u - 1 < u
    BY <2>1
  <2>3. \A l \in S : l <= u - 1
    <3> TAKE l \in S
    <3>1. l \in Nat /\ u \in Nat /\ l <= u /\ l # u
      OBVIOUS
    <3> QED BY <3>1
  <2>4. u - 1 \in B
    BY <2>2, <2>3
  <2> QED BY <1>3, <2>2, <2>4
<1> QED BY <1>4

LEMMA Max0Bounds ==
    ASSUME NEW S \in SUBSET Nat, NEW n \in Nat, \A m \in S : m <= n
    PROVE  /\ Max0(S) \in Nat /\ Max0(S) <= n
           /\ \A m \in S : m <= Max0(S)
<1>1. CASE S = {}
  BY <1>1 DEF Max0
<1>2. CASE S # {}
  <2>1. \E u \in S : \A m \in S : m <= u
    BY <1>2, Greatest
  <2>2. Max0(S) = CHOOSE u \in S : \A m \in S : m <= u
    BY <1>2 DEF Max0
  <2>3. Max0(S) \in S /\ \A m \in S : m <= Max0(S)
    BY <2>1, <2>2
  <2> QED BY <2>3
<1> QED BY <1>1, <1>2

LEMMA RecordedBound ==
    ASSUME ArtifactTypeOK
    PROVE  /\ IsFiniteSet(Recorded)
           /\ Cardinality(Recorded) \in Nat
           /\ Cardinality(Artifacts) \in Nat
           /\ Cardinality(Recorded) <= Cardinality(Artifacts)
<1>1. IsFiniteSet(Artifacts) /\ Recorded \in SUBSET Artifacts
  BY ArtifactAssumption DEF Recorded
<1> QED BY <1>1, FS_Subset, FS_CardinalityType

\* A version that is given out is above all those of the artifacts it replaces.
LEMMA NextVersionBounds ==
    ASSUME ArtifactTypeOK, VersionsOK, NEW a \in Artifacts
    PROVE  /\ NextVersion(a) \in Nat
           /\ NextVersion(a) <= 1 + Cardinality(Recorded)
           /\ \A b \in Rivals(a) : link[b].version < NextVersion(a)
<1> DEFINE S == {link[b].version : b \in Rivals(a)}
<1>1. \A b \in Artifacts : link[b].version \in Nat
  <2>1. \A n \in 0 .. Cardinality(Artifacts) : n \in Nat
    BY RecordedBound
  <2> QED BY <2>1 DEF ArtifactTypeOK
<1>2. Rivals(a) \subseteq Artifacts
  BY DEF Rivals
<1>3. S \in SUBSET Nat /\ \A m \in S : m <= Cardinality(Recorded)
  BY <1>1, <1>2 DEF VersionsOK
<1>4. Cardinality(Recorded) \in Nat
  BY RecordedBound
<1>5. /\ Max0(S) \in Nat /\ Max0(S) <= Cardinality(Recorded)
      /\ \A m \in S : m <= Max0(S)
  BY <1>3, <1>4, Max0Bounds
<1>6. NextVersion(a) = 1 + Max0(S)
  BY DEF NextVersion
<1>7. \A b \in Rivals(a) : link[b].version \in Nat /\ link[b].version <= Max0(S)
  BY <1>1, <1>2, <1>5
<1> HIDE DEF S
<1> QED BY <1>4, <1>5, <1>6, <1>7

\* The artifacts of one call replace different purposes, so they differ.
LEMMA RequestItems ==
    ASSUME NEW r \in Requests
    PROVE  /\ r \in Seq(Artifacts) /\ Len(r) \in Nat /\ Len(r) > 0
           /\ \A i \in 1 .. Len(r) : r[i] \in Artifacts
           /\ \A i, j \in 1 .. Len(r) : i # j => r[i] # r[j]
           /\ Len(r) <= Cardinality(Artifacts)
<1>1. /\ r \in Seq(Artifacts) /\ Len(r) > 0
      /\ \A i, j \in 1 .. Len(r) : i # j => Replaced[r[i]] \cap Replaced[r[j]] = {}
  BY ArtifactAssumption
<1>2. Len(r) \in Nat /\ \A i \in 1 .. Len(r) : r[i] \in Artifacts
  BY <1>1
<1>3. \A i, j \in 1 .. Len(r) : i # j => r[i] # r[j]
  <2>1. \A a \in Artifacts : Purpose[a] \in Replaced[a]
    BY ArtifactAssumption
  <2> QED BY <1>1, <1>2, <2>1
<1>4. ASSUME Cardinality(Artifacts) < Len(r) PROVE FALSE
  <2> DEFINE f == [i \in 1 .. Len(r) |-> r[i]]
  <2>1. f \in [1 .. Len(r) -> Artifacts]
    BY <1>2
  <2>2. IsFiniteSet(1 .. Len(r)) /\ Cardinality(1 .. Len(r)) = Len(r)
    <3>1. 1 \in Int /\ Len(r) \in Int
      BY <1>2
    <3>2. Cardinality(1 .. Len(r)) = IF 1 > Len(r) THEN 0 ELSE Len(r) - 1 + 1
      BY <3>1, FS_Interval
    <3> QED BY <1>1, <1>2, <3>1, <3>2, FS_Interval
  <2>3. \E i, j \in 1 .. Len(r) : i # j /\ f[i] = f[j]
    <3> DEFINE D == 1 .. Len(r)
    <3>1. IsFiniteSet(Artifacts)
      BY ArtifactAssumption
    <3>2. f \in [D -> Artifacts] /\ IsFiniteSet(D) /\ Cardinality(Artifacts) < Cardinality(D)
      BY <1>4, <2>1, <2>2
    <3> HIDE DEF f, D
    <3>3. \E i, j \in D : i # j /\ f[i] = f[j]
      BY <3>1, <3>2, FS_PigeonHole
    <3> QED BY <3>3 DEF D
  <2> QED BY <1>3, <2>3
<1>5. Cardinality(Artifacts) \in Nat
  BY ArtifactAssumption, FS_CardinalityType
<1> QED BY <1>1, <1>2, <1>3, <1>4, <1>5

------------------------------------------------------------------------------
(* What a step of one caller leaves to the others. *)

ClientType == [pc : {"idle", "item", "lock", "upload", "commit",
                     "fingerprint", "check", "record", "mark"},
               request : Requests \union {<<>>},
               next : 0 .. Cardinality(Artifacts),
               fresh : SUBSET Artifacts,
               artifact : Artifacts \union {None},
               removed : BOOLEAN]

TargetLocks == [TargetSet -> Clients \union {None}]
Fingerprints == [Contents -> Clients \union {None}]

ClientOK(k) == StoringOK(k) /\ FreshOK(k) /\ DeleteOK(k)

LEMMA ClientIs ==
    ASSUME ArtifactTypeOK, NEW k \in Clients
    PROVE  client[k] \in ClientType
BY DEF ArtifactTypeOK, ClientType

LEMMA ContentIs ==
    ASSUME NEW a \in Artifacts PROVE Content[a] \in Contents /\ Target[a] \in TargetSet
BY ArtifactAssumption DEF TargetSet

\* A caller without a transaction relies on nothing.
LEMMA IdleOK ==
    ASSUME NEW k \in Clients, client'[k] = IdleClient PROVE ClientOK(k)'
<1>1. client'[k].pc = "idle" /\ client'[k].fresh = {}
  BY DEF IdleClient
<1> QED BY <1>1 DEF ClientOK, StoringOK, FreshOK, DeleteOK, Storing, Deleting

\* COMMIT and ROLLBACK leave the locks of the others.
LEMMA UnlockKeeps ==
    ASSUME ArtifactTypeOK, NEW k \in Clients, Unlock(k)
    PROVE  /\ targetLock' \in TargetLocks /\ contentLock' \in Fingerprints
           /\ \A j \in Clients \ {k} :
                /\ \A t \in TargetSet : targetLock[t] = j => targetLock'[t] = j
                /\ \A c \in Contents : contentLock[c] = j => contentLock'[c] = j
<1>1. targetLock \in TargetLocks /\ contentLock \in Fingerprints
  BY DEF ArtifactTypeOK, TargetLocks, Fingerprints
<1> QED BY <1>1 DEF Unlock, TargetLocks, Fingerprints

\* What one caller relies on survives a step of another that keeps its locks,
\* records nothing under them and removes no bytes under them.
LEMMA OthersKept ==
    ASSUME ArtifactTypeOK, NEW j \in Clients, ClientOK(j), client'[j] = client[j],
           \A t \in TargetSet : targetLock[t] = j => targetLock'[t] = j,
           \A c \in Contents : contentLock[c] = j => contentLock'[c] = j,
           \A a \in Artifacts : file[a] = "none" /\ targetLock[Target[a]] = j
                                => file'[a] = "none",
           \A a \in Artifacts : file[a] # "none" => file'[a] # "none",
           \A a \in Artifacts : Live(a)' => Live(a) \/ contentLock[Content[a]] # j,
           \A c \in Contents : contentLock[c] = j /\ c \in object \union severed
                               => c \in object' \union severed'
    PROVE  ClientOK(j)'
<1>1. Item(j)' = Item(j) /\ Doomed(j)' = Doomed(j)
  BY DEF Item, Doomed
<1>2. client[j] \in ClientType
  BY ClientIs
<1>3. ASSUME client[j].pc \in Storing, NEW i \in 1 .. Len(client[j].request)
      PROVE  /\ client[j].request[i] \in Artifacts
             /\ targetLock[Target[client[j].request[i]]] = j
             /\ targetLock'[Target[client[j].request[i]]] = j
  <2>1. client[j].request[i] \in Artifacts
    BY <1>3, RequestItems DEF ClientOK, StoringOK
  <2>2. targetLock[Target[client[j].request[i]]] = j
    BY <1>3 DEF ClientOK, StoringOK
  <2> QED BY <2>1, <2>2, ContentIs
<1>4. ASSUME client[j].pc \in {"lock", "upload"}
      PROVE  /\ Item(j) \in Artifacts /\ file'[Item(j)] = "none"
             /\ client[j].pc = "upload" => contentLock'[Content[Item(j)]] = j
  <2>1. client[j].next \in 1 .. Len(client[j].request) /\ client[j].pc \in Storing
        /\ file[Item(j)] = "none"
        /\ (client[j].pc = "upload" => contentLock[Content[Item(j)]] = j)
    BY <1>4 DEF ClientOK, StoringOK, Storing
  <2>2. Item(j) \in Artifacts /\ targetLock[Target[Item(j)]] = j
    BY <1>3, <2>1 DEF Item
  <2> QED BY <2>1, <2>2, ContentIs
<1>5. StoringOK(j)'
  BY <1>1, <1>3, <1>4 DEF ClientOK, StoringOK
<1>6. FreshOK(j)'
  <2> SUFFICES ASSUME NEW a \in client[j].fresh
               PROVE  /\ file'[a] = "none"
                      /\ contentLock'[Content[a]] = j
                      /\ Content[a] \in object' \union severed'
    BY DEF FreshOK
  <2>1. a \in Artifacts
    BY <1>2 DEF ClientType
  <2>2. client[j].pc \in Storing
    BY DEF ClientOK, StoringOK
  <2>3. PICK i \in 1 .. Len(client[j].request) : a = client[j].request[i]
    BY <2>2 DEF ClientOK, StoringOK
  <2>4. targetLock[Target[a]] = j
    BY <1>3, <2>2, <2>3
  <2>5. file[a] = "none" /\ contentLock[Content[a]] = j
        /\ Content[a] \in object \union severed
    BY DEF ClientOK, FreshOK
  <2> QED BY <2>1, <2>4, <2>5, ContentIs
<1>7. DeleteOK(j)'
  <2>1. client[j].pc \in Deleting =>
          client[j].artifact \in Artifacts /\ file'[client[j].artifact] # "none"
    BY DEF ClientOK, DeleteOK
  <2>2. ASSUME client[j].pc \in {"check", "record"}
        PROVE  Doomed(j) \in Contents /\ contentLock[Doomed(j)] = j
               /\ contentLock'[Doomed(j)] = j
    <3>1. client[j].artifact \in Artifacts
      BY <2>2 DEF ClientOK, DeleteOK, Deleting
    <3> QED BY <2>2, <3>1, ContentIs DEF ClientOK, DeleteOK, Doomed
  <2>3. ASSUME client[j].pc = "record", client[j].removed
        PROVE  FinalReference(client[j].artifact)'
    <3>1. FinalReference(client[j].artifact) /\ client[j].artifact \in Artifacts
      BY <2>3 DEF ClientOK, DeleteOK, Deleting
    <3>2. \A b \in Artifacts : Live(b)' => Live(b) \/ Content[b] # Doomed(j)
      BY <2>2, <2>3
    <3> QED BY <3>1, <3>2 DEF FinalReference, Doomed
  <2> QED BY <1>1, <2>1, <2>2, <2>3 DEF DeleteOK
<1> QED BY <1>5, <1>6, <1>7 DEF ClientOK

Kept(k) ==
    /\ \A j \in Clients \ {k} : client'[j] = client[j]
    /\ \A j \in Clients \ {k} :
         /\ \A t \in TargetSet : targetLock[t] = j => targetLock'[t] = j
         /\ \A c \in Contents : contentLock[c] = j => contentLock'[c] = j

LEMMA BeingDeletedKept ==
    ASSUME NEW k \in Clients, Kept(k), NEW c, BeingDeleted(c),
           ~(client[k].pc = "record" /\ client[k].removed /\ Doomed(k) = c)
    PROVE  BeingDeleted(c)'
<1>1. PICK j \in Clients : client[j].pc = "record" /\ client[j].removed /\ Doomed(j) = c
  BY DEF BeingDeleted
<1>2. j # k
  BY <1>1
<1>3. client'[j] = client[j]
  BY <1>2 DEF Kept
<1> QED BY <1>1, <1>3 DEF BeingDeleted, Doomed

\* Steps that move no file and no link: the physical rows and the bytes may
\* change, as long as no lock of another caller is over them.
LEMMA BytesStep ==
    ASSUME ArtifactIInv, NEW k \in Clients, NEW new \in ClientType,
           client' = [client EXCEPT ![k] = new],
           targetLock' \in TargetLocks, contentLock' \in Fingerprints,
           \A j \in Clients \ {k} :
             /\ \A t \in TargetSet : targetLock[t] = j => targetLock'[t] = j
             /\ \A c \in Contents : contentLock[c] = j => contentLock'[c] = j,
           UNCHANGED <<file, link>>,
           object' \subseteq Contents, severed' \subseteq Contents,
           object \union severed \subseteq object' \union severed',
           physical' \in [Contents -> {"none", "available", "deletion_failed", "deleted"}],
           \A c \in Contents :
             \/ physical'[c] = physical[c]
             \/ /\ physical[c] \in {"available", "deletion_failed"}
                /\ physical'[c] = "deletion_failed",
           client[k].pc = "record" /\ client[k].removed => Doomed(k) \in severed',
           ClientOK(k)'
    PROVE  ArtifactIInv'
<1>1. ArtifactTypeOK /\ client \in [Clients -> ClientType]
  BY DEF ArtifactIInv, ArtifactTypeOK, ClientType
<1>2. client'[k] = new /\ client' \in [Clients -> ClientType]
      /\ \A j \in Clients \ {k} : client'[j] = client[j]
  BY <1>1
<1>3. Kept(k)
  BY <1>2 DEF Kept
<1>4. ArtifactTypeOK'
  BY <1>1, <1>2 DEF ArtifactTypeOK, ClientType, TargetLocks, Fingerprints
<1>5. ASSUME NEW j \in Clients PROVE ClientOK(j)'
  <2>1. CASE j = k
    BY <2>1
  <2>2. CASE j # k
    <3>1. ClientOK(j) /\ client'[j] = client[j]
      BY <1>2, <2>2 DEF ArtifactIInv, ClientOK
    <3>2. \A a \in Artifacts : Live(a)' => Live(a)
      BY DEF Live
    <3>3. \A c \in Contents : contentLock[c] = j /\ c \in object \union severed
                              => c \in object' \union severed'
      OBVIOUS
    <3> QED BY <1>1, <2>2, <3>1, <3>2, <3>3, OthersKept
  <2> QED BY <2>1, <2>2
<1>6. PhysicalOK'
  <2>1. \A c \in Contents : BeingDeleted(c) => BeingDeleted(c)' \/ c \in severed'
    BY <1>3, BeingDeletedKept
  <2>2. \A c \in Contents : physical[c] \in {"available", "deletion_failed"} =>
          c \in object' \union severed' \/ BeingDeleted(c)'
    BY <2>1 DEF ArtifactIInv, PhysicalOK
  <2>3. \A c \in Contents : physical'[c] \in {"available", "deletion_failed"} =>
          c \in object' \union severed' \/ BeingDeleted(c)'
    BY <2>2
  <2>4. \A a \in Artifacts : file'[a] # "none" => physical'[Content[a]] # "none"
    BY ContentIs DEF ArtifactIInv, PhysicalOK
  <2>5. \A a \in Artifacts : Live(a)' =>
          physical'[Content[a]] \in {"available", "deletion_failed"}
    BY ContentIs DEF ArtifactIInv, PhysicalOK, Live
  <2> QED BY <2>3, <2>4, <2>5 DEF PhysicalOK
<1>7. VersionsOK' /\ CurrentIsLatest'
  BY DEF ArtifactIInv, VersionsOK, Recorded, CurrentIsLatest
<1> QED BY <1>4, <1>5, <1>6, <1>7 DEF ArtifactIInv, ClientOK

\* Steps that move their own caller and its locks, and nothing else.
LEMMA OwnStep ==
    ASSUME ArtifactIInv, NEW k \in Clients, NEW new \in ClientType,
           client' = [client EXCEPT ![k] = new],
           targetLock' \in TargetLocks, contentLock' \in Fingerprints,
           \A j \in Clients \ {k} :
             /\ \A t \in TargetSet : targetLock[t] = j => targetLock'[t] = j
             /\ \A c \in Contents : contentLock[c] = j => contentLock'[c] = j,
           UNCHANGED <<object, physical, file, link, severed>>,
           client[k].pc # "record",
           ClientOK(k)'
    PROVE  ArtifactIInv'
<1>1. /\ object' \subseteq Contents /\ severed' \subseteq Contents
      /\ object \union severed \subseteq object' \union severed'
      /\ physical' \in [Contents -> {"none", "available", "deletion_failed", "deleted"}]
      /\ physical' = physical
  BY DEF ArtifactIInv, ArtifactTypeOK
<1> QED BY <1>1, BytesStep

LEMMA IdleType == IdleClient \in ClientType
<1>1. 0 \in 0 .. Cardinality(Artifacts)
  BY ArtifactAssumption, FS_CardinalityType
<1> QED BY <1>1 DEF IdleClient, ClientType

------------------------------------------------------------------------------
(* storeSet. *)

LEMMA StoreStartsKeeps ==
    ASSUME ArtifactIInv, NEW k \in Clients, NEW r \in Requests, StoreStarts(k, r)
    PROVE  ArtifactIInv'
<1> DEFINE new == [IdleClient EXCEPT !.pc = "item", !.request = r, !.next = 1]
           t == Target[r[1]]
<1>1. /\ client[k].pc = "idle" /\ targetLock[t] = None
      /\ targetLock' = [targetLock EXCEPT ![t] = k]
      /\ client' = [client EXCEPT ![k] = new]
      /\ UNCHANGED <<object, physical, file, link, contentLock, severed>>
  BY DEF StoreStarts
<1>2. /\ Len(r) \in Nat /\ Len(r) > 0 /\ Len(r) <= Cardinality(Artifacts)
      /\ \A i \in 1 .. Len(r) : r[i] \in Artifacts
      /\ Cardinality(Artifacts) \in Nat
  BY RequestItems, RecordedBound DEF ArtifactIInv
<1>3. 1 \in 0 .. Cardinality(Artifacts) /\ 1 \in 1 .. Len(r)
  BY <1>2
<1>4. new \in ClientType
  BY <1>3 DEF IdleClient, ClientType
<1>5. targetLock \in TargetLocks /\ contentLock \in Fingerprints /\ client \in [Clients -> ClientType]
  BY DEF ArtifactIInv, ArtifactTypeOK, TargetLocks, Fingerprints, ClientType
<1>6. t \in TargetSet
  BY <1>2, <1>3, ContentIs
<1>7. targetLock' \in TargetLocks /\ contentLock' \in Fingerprints
  BY <1>1, <1>5 DEF TargetLocks
<1>8. \A j \in Clients \ {k} :
        /\ \A u \in TargetSet : targetLock[u] = j => targetLock'[u] = j
        /\ \A c \in Contents : contentLock[c] = j => contentLock'[c] = j
  BY <1>1, <1>5, ArtifactAssumption DEF TargetLocks
<1>9. ClientOK(k)'
  <2>1. client'[k] = new
    BY <1>1, <1>5
  <2>2. client'[k].pc = "item" /\ client'[k].request = r /\ client'[k].next = 1
        /\ client'[k].fresh = {}
    BY <2>1 DEF IdleClient
  <2>3. \A i \in 1 .. Len(r) : Target[r[i]] = t
    BY <1>3, ArtifactAssumption
  <2>4. targetLock'[t] = k
    BY <1>1, <1>5, <1>6 DEF TargetLocks
  <2> QED BY <1>3, <2>2, <2>3, <2>4
          DEF ClientOK, StoringOK, FreshOK, DeleteOK, Storing, Deleting
<1> HIDE DEF new
<1> QED BY <1>1, <1>4, <1>7, <1>8, <1>9, OwnStep

\* The caller that has done with an item goes on to the next, or commits.
LEMMA AdvanceType ==
    ASSUME ArtifactTypeOK, NEW k \in Clients, StoringOK(k),
           client[k].pc \in {"item", "lock", "upload"}
    PROVE  /\ Advance(k) \in ClientType
           /\ Advance(k).pc \in {"item", "commit"}
           /\ Advance(k).request = client[k].request
           /\ Advance(k).fresh = client[k].fresh
           /\ Advance(k).pc = "item" =>
                Advance(k).next \in 1 .. Len(client[k].request)
           /\ client[k].pc \in Storing
           /\ Item(k) \in Artifacts /\ client[k].request \in Requests
           /\ \E i \in 1 .. Len(client[k].request) : Item(k) = client[k].request[i]
<1>1. client[k] \in ClientType
  BY ClientIs
<1>2. /\ client[k].pc \in Storing /\ client[k].request \in Requests
      /\ client[k].next \in 1 .. Len(client[k].request)
  BY DEF StoringOK, Storing
<1>3. /\ Len(client[k].request) \in Nat
      /\ Len(client[k].request) <= Cardinality(Artifacts)
      /\ \A i \in 1 .. Len(client[k].request) : client[k].request[i] \in Artifacts
      /\ Cardinality(Artifacts) \in Nat
  BY <1>2, RequestItems, RecordedBound
<1>4. CASE client[k].next = Len(client[k].request)
  <2>1. Advance(k) = [client[k] EXCEPT !.pc = "commit"]
    BY <1>4 DEF Advance
  <2>2. Advance(k) \in ClientType /\ Advance(k).pc = "commit"
        /\ Advance(k).request = client[k].request
        /\ Advance(k).fresh = client[k].fresh
    BY <1>1, <2>1 DEF ClientType
  <2> QED BY <1>2, <1>3, <2>2 DEF Item
<1>5. CASE client[k].next # Len(client[k].request)
  <2>1. Advance(k) = [client[k] EXCEPT !.pc = "item", !.next = client[k].next + 1]
    BY <1>5 DEF Advance
  <2>2. /\ client[k].next + 1 \in 0 .. Cardinality(Artifacts)
        /\ client[k].next + 1 \in 1 .. Len(client[k].request)
    BY <1>2, <1>3, <1>5
  <2>3. Advance(k) \in ClientType /\ Advance(k).pc = "item"
        /\ Advance(k).request = client[k].request
        /\ Advance(k).next = client[k].next + 1
        /\ Advance(k).fresh = client[k].fresh
    BY <1>1, <2>1, <2>2 DEF ClientType
  <2> QED BY <1>2, <1>3, <2>2, <2>3 DEF Item
<1> QED BY <1>4, <1>5

LEMMA StoreRetriesKeeps ==
    ASSUME ArtifactIInv, NEW k \in Clients, StoreRetries(k)
    PROVE  ArtifactIInv'
<1>1. /\ client[k].pc = "item"
      /\ client' = [client EXCEPT ![k] = Advance(k)]
      /\ UNCHANGED <<object, physical, file, link, targetLock, contentLock, severed>>
  BY DEF StoreRetries
<1>2. ArtifactTypeOK /\ StoringOK(k) /\ FreshOK(k)
  BY DEF ArtifactIInv
<1>3. /\ Advance(k) \in ClientType
      /\ Advance(k).pc \in {"item", "commit"}
      /\ Advance(k).request = client[k].request
      /\ Advance(k).fresh = client[k].fresh
      /\ Advance(k).pc = "item" => Advance(k).next \in 1 .. Len(client[k].request)
      /\ client[k].pc \in Storing
  BY <1>1, <1>2, AdvanceType
<1>4. /\ targetLock' \in TargetLocks /\ contentLock' \in Fingerprints
      /\ client \in [Clients -> ClientType]
  BY <1>1, <1>2 DEF ArtifactTypeOK, TargetLocks, Fingerprints, ClientType
<1>5. client'[k] = Advance(k)
  BY <1>1, <1>4
<1>6. StoringOK(k)'
  BY <1>1, <1>2, <1>3, <1>5 DEF StoringOK, Storing
<1>7. FreshOK(k)' /\ DeleteOK(k)'
  BY <1>1, <1>2, <1>3, <1>5 DEF FreshOK, DeleteOK, Deleting
<1>8. ClientOK(k)'
  BY <1>6, <1>7 DEF ClientOK
<1> QED BY <1>1, <1>3, <1>4, <1>8, OwnStep

LEMMA StoreAuthorizesKeeps ==
    ASSUME ArtifactIInv, NEW k \in Clients, StoreAuthorizes(k)
    PROVE  ArtifactIInv'
<1> DEFINE new == [client[k] EXCEPT !.pc = "lock"]
<1>1. /\ client[k].pc = "item" /\ file[Item(k)] = "none"
      /\ client' = [client EXCEPT ![k] = new]
      /\ UNCHANGED <<object, physical, file, link, targetLock, contentLock, severed>>
  BY DEF StoreAuthorizes, Existing
<1>2. ArtifactTypeOK /\ StoringOK(k) /\ FreshOK(k)
  BY DEF ArtifactIInv
<1>3. /\ targetLock' \in TargetLocks /\ contentLock' \in Fingerprints
      /\ client \in [Clients -> ClientType] /\ client[k] \in ClientType
  BY <1>1, <1>2, ClientIs DEF ArtifactTypeOK, TargetLocks, Fingerprints, ClientType
<1>4. /\ new \in ClientType /\ new.pc = "lock"
      /\ new.request = client[k].request /\ new.next = client[k].next
      /\ new.fresh = client[k].fresh
  BY <1>3 DEF ClientType
<1>5. client'[k] = new
  BY <1>1, <1>3
<1> HIDE DEF new
<1>6. Item(k)' = Item(k)
  BY <1>4, <1>5 DEF Item
<1>7. StoringOK(k)'
  BY <1>1, <1>2, <1>4, <1>5, <1>6 DEF StoringOK, Storing
<1>8. FreshOK(k)' /\ DeleteOK(k)'
  BY <1>1, <1>2, <1>4, <1>5 DEF FreshOK, DeleteOK, Deleting
<1>9. ClientOK(k)'
  BY <1>7, <1>8 DEF ClientOK
<1> QED BY <1>1, <1>3, <1>4, <1>9, OwnStep

\* An item that is taken up under its fingerprint lock, with bytes to show.
LEMMA StoredOK ==
    ASSUME ArtifactIInv, NEW k \in Clients, client[k].pc \in {"lock", "upload"},
           client' = [client EXCEPT ![k] = Stored(k)],
           UNCHANGED <<file, targetLock>>,
           contentLock'[Content[Item(k)]] = k,
           \A c \in Contents : contentLock[c] = k => contentLock'[c] = k,
           Content[Item(k)] \in object' \union severed',
           object \union severed \subseteq object' \union severed'
    PROVE  Stored(k) \in ClientType /\ ClientOK(k)'
<1> DEFINE new == Stored(k)
<1>1. /\ ArtifactTypeOK /\ StoringOK(k) /\ FreshOK(k)
      /\ client[k] \in ClientType /\ client \in [Clients -> ClientType]
  BY ClientIs DEF ArtifactIInv, ArtifactTypeOK, ClientType
<1>2. /\ Advance(k) \in ClientType
      /\ Advance(k).pc \in {"item", "commit"}
      /\ Advance(k).request = client[k].request
      /\ Advance(k).fresh = client[k].fresh
      /\ Advance(k).pc = "item" => Advance(k).next \in 1 .. Len(client[k].request)
      /\ client[k].pc \in Storing
      /\ Item(k) \in Artifacts
      /\ \E i \in 1 .. Len(client[k].request) : Item(k) = client[k].request[i]
  BY <1>1, AdvanceType
<1>3. new = [Advance(k) EXCEPT !.fresh = client[k].fresh \union {Item(k)}]
  BY <1>2 DEF Stored
<1>4. /\ new \in ClientType
      /\ new.pc = Advance(k).pc /\ new.request = Advance(k).request
      /\ new.next = Advance(k).next
      /\ new.fresh = client[k].fresh \union {Item(k)}
  <2>1. client[k].fresh \union {Item(k)} \in SUBSET Artifacts
    BY <1>1, <1>2 DEF ClientType
  <2> QED BY <1>2, <1>3, <2>1 DEF ClientType
<1>5. client'[k] = new
  BY <1>1
<1> HIDE DEF new
<1>6. StoringOK(k)'
  BY <1>1, <1>2, <1>4, <1>5 DEF StoringOK, Storing
<1>7. FreshOK(k)'
  <2> SUFFICES ASSUME NEW a \in new.fresh
               PROVE  /\ file[a] = "none" /\ contentLock'[Content[a]] = k
                      /\ Content[a] \in object' \union severed'
    BY <1>5 DEF FreshOK
  <2>1. CASE a = Item(k)
    BY <1>1, <2>1 DEF StoringOK
  <2>2. CASE a \in client[k].fresh
    <3>1. a \in Artifacts
      BY <1>1, <2>2 DEF ClientType
    <3>2. file[a] = "none" /\ contentLock[Content[a]] = k
          /\ Content[a] \in object \union severed
      BY <1>1, <2>2 DEF FreshOK
    <3> QED BY <3>1, <3>2, ContentIs
  <2> QED BY <1>4, <2>1, <2>2
<1>8. DeleteOK(k)'
  BY <1>2, <1>4, <1>5 DEF DeleteOK, Deleting
<1> QED BY <1>4, <1>6, <1>7, <1>8 DEF ClientOK, new

\* A row in use has its bytes, unless their deletion is about to commit: and
\* that deletion still holds the fingerprint lock.
LEMMA BytesUnderLock ==
    ASSUME ArtifactIInv, NEW k \in Clients, client[k].pc # "record", NEW c \in Contents,
           contentLock[c] \in {None, k},
           physical[c] \in {"available", "deletion_failed"}
    PROVE  c \in object \union severed
<1>1. ~BeingDeleted(c)
  <2> SUFFICES ASSUME NEW j \in Clients, client[j].pc = "record", Doomed(j) = c
               PROVE  FALSE
    BY DEF BeingDeleted
  <2>1. contentLock[c] = j
    BY DEF ArtifactIInv, DeleteOK
  <2> QED BY <2>1, ArtifactAssumption
<1> QED BY <1>1 DEF ArtifactIInv, PhysicalOK

LEMMA StoreLocksContentKeeps ==
    ASSUME ArtifactIInv, NEW k \in Clients, StoreLocksContent(k)
    PROVE  ArtifactIInv'
<1> DEFINE c == Content[Item(k)]
           wait == [client[k] EXCEPT !.pc = "upload"]
           new == IF Reusable(k, c) THEN Stored(k) ELSE wait
<1>1. /\ client[k].pc = "lock" /\ contentLock[c] \in {None, k}
      /\ contentLock' = [contentLock EXCEPT ![c] = k]
      /\ client' = [client EXCEPT ![k] = new]
      /\ UNCHANGED <<object, physical, file, link, targetLock, severed>>
  BY DEF StoreLocksContent
<1>2. /\ ArtifactTypeOK /\ StoringOK(k) /\ FreshOK(k)
      /\ client[k] \in ClientType /\ client \in [Clients -> ClientType]
      /\ targetLock \in TargetLocks /\ contentLock \in Fingerprints
  BY ClientIs DEF ArtifactIInv, ArtifactTypeOK, ClientType, TargetLocks, Fingerprints
<1>3. Item(k) \in Artifacts /\ c \in Contents
  BY <1>1, <1>2, AdvanceType, ContentIs
<1>4. /\ targetLock' \in TargetLocks /\ contentLock' \in Fingerprints
      /\ contentLock'[c] = k
      /\ \A d \in Contents : contentLock[d] = k => contentLock'[d] = k
      /\ \A j \in Clients \ {k} :
           /\ \A t \in TargetSet : targetLock[t] = j => targetLock'[t] = j
           /\ \A d \in Contents : contentLock[d] = j => contentLock'[d] = j
  BY <1>1, <1>2, <1>3, ArtifactAssumption DEF Fingerprints
<1>5. new \in ClientType /\ ClientOK(k)'
  <2>1. CASE Reusable(k, c)
    <3>1. c \in object \union severed
      <4>1. CASE physical[c] \in {"available", "deletion_failed"}
        <5>1. client[k].pc # "record"
          BY <1>1
        <5> QED BY <1>1, <1>3, <4>1, <5>1, BytesUnderLock
      <4>2. CASE \E a \in client[k].fresh : Content[a] = c
        BY <1>2, <4>2 DEF FreshOK
      <4> QED BY <2>1, <4>1, <4>2 DEF Reusable
    <3>2. client' = [client EXCEPT ![k] = Stored(k)]
      BY <1>1, <2>1
    <3>3. Stored(k) \in ClientType /\ ClientOK(k)'
      BY <1>1, <1>4, <3>1, <3>2, StoredOK
    <3> QED BY <2>1, <3>3
  <2>2. CASE ~Reusable(k, c)
    <3>1. /\ wait \in ClientType /\ wait.pc = "upload"
          /\ wait.request = client[k].request /\ wait.next = client[k].next
          /\ wait.fresh = client[k].fresh
      BY <1>2 DEF ClientType
    <3>2. client'[k] = wait
      BY <1>1, <1>2, <2>2
    <3> HIDE DEF wait
    <3>3. Item(k)' = Item(k)
      BY <3>1, <3>2 DEF Item
    <3>4. StoringOK(k)'
      BY <1>1, <1>2, <1>4, <3>1, <3>2, <3>3 DEF StoringOK, Storing
    <3>5. FreshOK(k)'
      <4> SUFFICES ASSUME NEW a \in client[k].fresh
                   PROVE  /\ file[a] = "none" /\ contentLock'[Content[a]] = k
                          /\ Content[a] \in object \union severed
        BY <1>1, <3>1, <3>2 DEF FreshOK
      <4>1. Content[a] \in Contents
        BY <1>2, ContentIs DEF ClientType
      <4> QED BY <1>2, <1>4, <4>1 DEF FreshOK
    <3>6. DeleteOK(k)'
      BY <3>1, <3>2 DEF DeleteOK, Deleting
    <3> QED BY <2>2, <3>1, <3>4, <3>5, <3>6 DEF ClientOK
  <2> QED BY <2>1, <2>2
<1> HIDE DEF new
<1> QED BY <1>1, <1>4, <1>5, OwnStep

\* A caller that gives its transaction up before anything is recorded.
LEMMA StoreGivesUp ==
    ASSUME ArtifactIInv, NEW k \in Clients, Unlock(k),
           client' = [client EXCEPT ![k] = IdleClient], client[k].pc # "record",
           UNCHANGED <<object, physical, file, link, severed>>
    PROVE  ArtifactIInv'
<1>1. ArtifactTypeOK /\ client \in [Clients -> ClientType]
  BY DEF ArtifactIInv, ArtifactTypeOK, ClientType
<1>2. client'[k] = IdleClient
  BY <1>1
<1>3. ClientOK(k)'
  BY <1>2, IdleOK
<1>4. /\ targetLock' \in TargetLocks /\ contentLock' \in Fingerprints
      /\ \A j \in Clients \ {k} :
           /\ \A t \in TargetSet : targetLock[t] = j => targetLock'[t] = j
           /\ \A c \in Contents : contentLock[c] = j => contentLock'[c] = j
  BY <1>1, UnlockKeeps
<1> QED BY <1>3, <1>4, IdleType, OwnStep

LEMMA StoreAbortsKeeps ==
    ASSUME ArtifactIInv, NEW k \in Clients, StoreAborts(k)
    PROVE  ArtifactIInv'
<1>1. /\ client[k].pc # "record" /\ Unlock(k)
      /\ client' = [client EXCEPT ![k] = IdleClient]
      /\ UNCHANGED <<object, physical, file, link, severed>>
  BY DEF StoreAborts
<1> QED BY <1>1, StoreGivesUp

------------------------------------------------------------------------------
(* delete. *)

LEMMA DeleteBeginsKeeps ==
    ASSUME ArtifactIInv, NEW k \in Clients, NEW a \in Artifacts, DeleteBegins(k, a)
    PROVE  ArtifactIInv'
<1> DEFINE new == [IdleClient EXCEPT !.pc = "fingerprint", !.artifact = a]
<1>1. /\ client[k].pc = "idle" /\ file[a] # "none"
      /\ client' = [client EXCEPT ![k] = new]
      /\ UNCHANGED <<object, physical, file, link, targetLock, contentLock, severed>>
  BY DEF DeleteBegins
<1>2. /\ targetLock' \in TargetLocks /\ contentLock' \in Fingerprints
      /\ client \in [Clients -> ClientType]
  BY <1>1 DEF ArtifactIInv, ArtifactTypeOK, TargetLocks, Fingerprints, ClientType
<1>3. /\ new \in ClientType /\ new.pc = "fingerprint" /\ new.artifact = a
      /\ new.fresh = {}
  BY IdleType DEF IdleClient, ClientType
<1>4. client'[k] = new
  BY <1>1, <1>2
<1> HIDE DEF new
<1>5. ClientOK(k)'
  BY <1>1, <1>3, <1>4 DEF ClientOK, StoringOK, FreshOK, DeleteOK, Storing
<1> QED BY <1>1, <1>2, <1>3, <1>5, OwnStep

LEMMA DeleteLocksKeeps ==
    ASSUME ArtifactIInv, NEW k \in Clients, DeleteLocks(k)
    PROVE  ArtifactIInv'
<1> DEFINE new == [client[k] EXCEPT !.pc = "check"]
           c == Doomed(k)
<1>1. /\ client[k].pc = "fingerprint" /\ contentLock[c] = None
      /\ contentLock' = [contentLock EXCEPT ![c] = k]
      /\ client' = [client EXCEPT ![k] = new]
      /\ UNCHANGED <<object, physical, file, link, targetLock, severed>>
  BY DEF DeleteLocks, DeletionLock
<1>2. /\ StoringOK(k) /\ DeleteOK(k) /\ client[k] \in ClientType
      /\ client \in [Clients -> ClientType]
      /\ targetLock \in TargetLocks /\ contentLock \in Fingerprints
  BY ClientIs DEF ArtifactIInv, ArtifactTypeOK, ClientType, TargetLocks, Fingerprints
<1>3. /\ client[k].artifact \in Artifacts /\ file[client[k].artifact] # "none"
      /\ client[k].fresh = {}
  BY <1>1, <1>2 DEF StoringOK, DeleteOK, Storing, Deleting
<1>4. c \in Contents
  BY <1>3, ContentIs DEF Doomed
<1>5. /\ targetLock' \in TargetLocks /\ contentLock' \in Fingerprints
      /\ contentLock'[c] = k
      /\ \A j \in Clients \ {k} :
           /\ \A t \in TargetSet : targetLock[t] = j => targetLock'[t] = j
           /\ \A d \in Contents : contentLock[d] = j => contentLock'[d] = j
  BY <1>1, <1>2, <1>4, ArtifactAssumption DEF Fingerprints
<1>6. /\ new \in ClientType /\ new.pc = "check"
      /\ new.artifact = client[k].artifact /\ new.fresh = client[k].fresh
  BY <1>2 DEF ClientType
<1>7. client'[k] = new
  BY <1>1, <1>2
<1> HIDE DEF new
<1>8. Doomed(k)' = c
  BY <1>6, <1>7 DEF Doomed
<1>9. StoringOK(k)' /\ FreshOK(k)'
  BY <1>3, <1>6, <1>7 DEF StoringOK, FreshOK, Storing
<1>10. DeleteOK(k)'
  BY <1>1, <1>3, <1>5, <1>6, <1>7, <1>8 DEF DeleteOK
<1>11. ClientOK(k)'
  BY <1>9, <1>10 DEF ClientOK
<1> HIDE DEF c
<1>12. client[k].pc # "record"
  BY <1>1
<1> QED BY <1>1, <1>5, <1>6, <1>11, <1>12, OwnStep

LEMMA DeleteEndsKeeps ==
    ASSUME ArtifactIInv, NEW k \in Clients, DeleteEnds(k)
    PROVE  ArtifactIInv'
<1>1. /\ client[k].pc # "record" /\ Unlock(k)
      /\ client' = [client EXCEPT ![k] = IdleClient]
      /\ UNCHANGED <<object, physical, file, link, severed>>
  BY DEF DeleteEnds
<1> QED BY <1>1, StoreGivesUp

\* A deletion that removed the object holds its fingerprint lock until the
\* rows say so.
LEMMA DeleteRemovesKeeps ==
    ASSUME ArtifactIInv, NEW k \in Clients, DeleteRemoves(k)
    PROVE  ArtifactIInv'
<1> DEFINE c == Doomed(k)
           new == [client[k] EXCEPT !.pc = "record", !.removed = Removes(k)]
<1>1. /\ client[k].pc = "check"
      /\ object' = IF Removes(k) THEN object \ {c} ELSE object
      /\ client' = [client EXCEPT ![k].pc = "record", ![k].removed = Removes(k)]
      /\ UNCHANGED <<physical, file, link, targetLock, contentLock, severed>>
  BY DEF DeleteRemoves
<1>2. /\ StoringOK(k) /\ DeleteOK(k) /\ ArtifactTypeOK /\ client[k] \in ClientType
      /\ client \in [Clients -> ClientType]
  BY ClientIs DEF ArtifactIInv, ArtifactTypeOK, ClientType
<1>3. /\ client[k].artifact \in Artifacts /\ file[client[k].artifact] # "none"
      /\ client[k].fresh = {} /\ contentLock[c] = k
  BY <1>1, <1>2 DEF StoringOK, DeleteOK, Storing, Deleting
<1>4. /\ new \in ClientType /\ new.pc = "record" /\ new.removed = Removes(k)
      /\ new.artifact = client[k].artifact /\ new.fresh = client[k].fresh
  <2>1. Removes(k) \in BOOLEAN
    BY DEF Removes, FinalReference
  <2> QED BY <1>2, <2>1 DEF ClientType
<1>5. client' = [client EXCEPT ![k] = new]
  BY <1>1, <1>2 DEF ClientType
<1>6. /\ client'[k] = new /\ client' \in [Clients -> ClientType]
      /\ \A j \in Clients \ {k} : client'[j] = client[j]
  BY <1>2, <1>4, <1>5
<1> HIDE DEF new
<1>7. c' = c
  BY <1>4, <1>6 DEF Doomed
<1>8. ArtifactTypeOK'
  <2>1. object' \subseteq Contents
    BY <1>1, <1>2 DEF ArtifactTypeOK
  <2> QED BY <1>1, <1>2, <1>6, <2>1 DEF ArtifactTypeOK, ClientType
<1>9. StoringOK(k)' /\ FreshOK(k)'
  BY <1>3, <1>4, <1>6 DEF StoringOK, FreshOK, Storing
<1>10. DeleteOK(k)'
  <2>1. Removes(k) => FinalReference(client[k].artifact)'
    BY <1>1, <1>4, <1>6 DEF Removes, FinalReference, Live
  <2> QED BY <1>1, <1>3, <1>4, <1>6, <1>7, <2>1 DEF DeleteOK
<1>11. ASSUME NEW j \in Clients, j # k PROVE ClientOK(j)'
  <2>1. ClientOK(j) /\ client'[j] = client[j]
    BY <1>6, <1>11 DEF ArtifactIInv, ClientOK
  <2>2. \A a \in Artifacts : Live(a)' => Live(a)
    BY <1>1 DEF Live
  <2>3. \A d \in Contents : contentLock[d] = j /\ d \in object \union severed
                            => d \in object' \union severed'
    BY <1>1, <1>3, <1>11
  <2> QED BY <1>1, <1>2, <2>1, <2>2, <2>3, OthersKept
<1>12. PhysicalOK'
  <2>1. Kept(k)
    BY <1>1, <1>6 DEF Kept
  <2>2. \A d \in Contents : BeingDeleted(d) => BeingDeleted(d)'
    BY <1>1, <2>1, BeingDeletedKept
  <2>3. \A d \in Contents : Removes(k) /\ d = c => BeingDeleted(d)'
    BY <1>4, <1>6, <1>7 DEF BeingDeleted
  <2>4. \A d \in Contents : d \in object => d \in object' \/ (Removes(k) /\ d = c)
    BY <1>1
  <2>5. severed' = severed
    BY <1>1
  <2>6. \A d \in Contents : physical[d] \in {"available", "deletion_failed"} =>
          d \in object \union severed \/ BeingDeleted(d)
    BY DEF ArtifactIInv, PhysicalOK
  <2> HIDE DEF c
  <2>7. \A d \in Contents : physical[d] \in {"available", "deletion_failed"} =>
          d \in object' \union severed' \/ BeingDeleted(d)'
    BY <2>2, <2>3, <2>4, <2>5, <2>6
  <2> QED BY <1>1, <2>7 DEF ArtifactIInv, PhysicalOK, Live
<1>13. VersionsOK' /\ CurrentIsLatest'
  BY <1>1 DEF ArtifactIInv, VersionsOK, Recorded, CurrentIsLatest
<1> QED BY <1>8, <1>9, <1>10, <1>11, <1>12, <1>13 DEF ArtifactIInv, ClientOK

\* The deletion records its own artifact, and a physical row that no live
\* artifact refers to.
LEMMA DeleteCommitsKeeps ==
    ASSUME ArtifactIInv, NEW k \in Clients, DeleteCommits(k)
    PROVE  ArtifactIInv'
<1> DEFINE c == Doomed(k)
           a == client[k].artifact
<1>1. /\ client[k].pc = "record"
      /\ physical' = IF client[k].removed
                     THEN [physical EXCEPT ![c] = "deleted"] ELSE physical
      /\ file' = [file EXCEPT ![a] = "deleted"]
      /\ link' = [link EXCEPT ![a].current = FALSE]
      /\ severed' = IF client[k].removed THEN severed \ {c} ELSE severed
      /\ Unlock(k)
      /\ client' = [client EXCEPT ![k] = IdleClient]
      /\ object' = object
  BY DEF DeleteCommits, DeletedRow
<1>2. /\ DeleteOK(k) /\ ArtifactTypeOK /\ client \in [Clients -> ClientType]
  BY DEF ArtifactIInv, ArtifactTypeOK, ClientType
<1>3. /\ a \in Artifacts /\ file[a] # "none" /\ contentLock[c] = k
      /\ client[k].removed => FinalReference(a)
      /\ c = Content[a] /\ c \in Contents
  BY <1>1, <1>2, ContentIs DEF DeleteOK, Deleting, Doomed
<1>4. /\ client'[k] = IdleClient /\ client' \in [Clients -> ClientType]
      /\ \A j \in Clients \ {k} : client'[j] = client[j]
  BY <1>1, <1>2, IdleType
<1>5. /\ targetLock' \in TargetLocks /\ contentLock' \in Fingerprints
      /\ \A j \in Clients \ {k} :
           /\ \A t \in TargetSet : targetLock[t] = j => targetLock'[t] = j
           /\ \A d \in Contents : contentLock[d] = j => contentLock'[d] = j
  BY <1>1, <1>2, UnlockKeeps
<1>6. Kept(k)
  BY <1>4, <1>5 DEF Kept
<1>7. /\ \A b \in Artifacts : file'[b] = IF b = a THEN "deleted" ELSE file[b]
      /\ \A b \in Artifacts : link'[b].version = link[b].version
      /\ \A b \in Artifacts : link'[b].current <=> link[b].current /\ b # a
      /\ \A d \in Contents : physical'[d] = IF client[k].removed /\ d = c
                                            THEN "deleted" ELSE physical[d]
  BY <1>1, <1>2, <1>3 DEF ArtifactTypeOK
<1>8. ArtifactTypeOK'
  <2>1. file' \in [Artifacts -> {"none", "current", "superseded", "deleted"}]
    BY <1>1, <1>2, <1>3 DEF ArtifactTypeOK
  <2>2. link' \in [Artifacts -> [version : 0 .. Cardinality(Artifacts),
                                 current : BOOLEAN]]
    <3>1. link \in [Artifacts -> [version : 0 .. Cardinality(Artifacts),
                                  current : BOOLEAN]]
      BY <1>2 DEF ArtifactTypeOK
    <3>2. [link[a] EXCEPT !.current = FALSE]
            \in [version : 0 .. Cardinality(Artifacts), current : BOOLEAN]
      BY <1>3, <3>1
    <3>3. link' = [link EXCEPT ![a] = [link[a] EXCEPT !.current = FALSE]]
      BY <1>1, <1>3, <3>1
    <3> HIDE DEF a
    <3> QED BY <1>3, <3>1, <3>2, <3>3
  <2>3. physical' \in [Contents -> {"none", "available", "deletion_failed", "deleted"}]
    BY <1>1, <1>2, <1>3 DEF ArtifactTypeOK
  <2>4. object' \subseteq Contents /\ severed' \subseteq Contents
    BY <1>1, <1>2 DEF ArtifactTypeOK
  <2> QED BY <1>4, <1>5, <2>1, <2>2, <2>3, <2>4
          DEF ArtifactTypeOK, ClientType, TargetLocks, Fingerprints
<1> HIDE DEF a, c
<1>9. ClientOK(k)'
  BY <1>4, IdleOK
<1>10. ASSUME NEW j \in Clients, j # k PROVE ClientOK(j)'
  <2>1. ClientOK(j) /\ client'[j] = client[j]
    BY <1>4, <1>10 DEF ArtifactIInv, ClientOK
  <2>2. /\ \A b \in Artifacts : Live(b)' => Live(b)
        /\ \A b \in Artifacts : file[b] = "none" => file'[b] = "none"
        /\ \A b \in Artifacts : file[b] # "none" => file'[b] # "none"
    BY <1>3, <1>7 DEF Live
  <2>3. \A d \in Contents : contentLock[d] = j /\ d \in object \union severed
                            => d \in object' \union severed'
    BY <1>1, <1>3, <1>10
  <2> QED BY <1>2, <1>5, <1>10, <2>1, <2>2, <2>3, OthersKept
<1>11. PhysicalOK'
  <2>1. \A d \in Contents : BeingDeleted(d) /\ ~(client[k].removed /\ d = c)
                            => BeingDeleted(d)'
    <3> TAKE d \in Contents
    <3>1. Doomed(k) = c
      BY DEF c
    <3> QED BY <1>6, <3>1, BeingDeletedKept
  <2>2. \A d \in Contents : physical'[d] \in {"available", "deletion_failed"} =>
          d \in object' \union severed' \/ BeingDeleted(d)'
    BY <1>1, <1>7, <2>1 DEF ArtifactIInv, PhysicalOK
  <2>3. \A b \in Artifacts : file'[b] # "none" => physical'[Content[b]] # "none"
    BY <1>3, <1>7, ContentIs DEF ArtifactIInv, PhysicalOK
  <2>4. \A b \in Artifacts : Live(b)' =>
          physical'[Content[b]] \in {"available", "deletion_failed"}
    <3> SUFFICES ASSUME NEW b \in Artifacts, Live(b)'
                 PROVE  physical'[Content[b]] \in {"available", "deletion_failed"}
      OBVIOUS
    <3>1. Live(b) /\ b # a
      BY <1>7 DEF Live
    <3>2. ~(client[k].removed /\ Content[b] = c)
      BY <1>3, <3>1 DEF FinalReference
    <3> QED BY <1>7, <3>1, <3>2, ContentIs DEF ArtifactIInv, PhysicalOK
  <2> QED BY <2>2, <2>3, <2>4 DEF PhysicalOK
<1>12. VersionsOK'
  <2>1. Recorded' = Recorded
    BY <1>3, <1>7 DEF Recorded
  <2> QED BY <1>7, <2>1 DEF ArtifactIInv, VersionsOK
<1>13. CurrentIsLatest'
  BY <1>3, <1>7 DEF ArtifactIInv, CurrentIsLatest
<1> QED BY <1>8, <1>9, <1>10, <1>11, <1>12, <1>13 DEF ArtifactIInv, ClientOK

LEMMA StoreUploadsKeeps ==
    ASSUME ArtifactIInv, NEW k \in Clients, StoreUploads(k)
    PROVE  ArtifactIInv'
<1> DEFINE c == Content[Item(k)]
<1>1. /\ client[k].pc = "upload"
      /\ object' = object \union {c} /\ severed' = severed \ {c}
      /\ client' = [client EXCEPT ![k] = Stored(k)]
      /\ UNCHANGED <<physical, file, link, targetLock, contentLock>>
  BY DEF StoreUploads
<1>2. ArtifactTypeOK /\ StoringOK(k)
  BY DEF ArtifactIInv
<1>3. Item(k) \in Artifacts /\ c \in Contents /\ contentLock[c] = k
  BY <1>1, <1>2, AdvanceType, ContentIs DEF StoringOK
<1>4. object \union severed \subseteq object' \union severed' /\ c \in object'
  BY <1>1
<1>5. Stored(k) \in ClientType /\ ClientOK(k)'
  BY <1>1, <1>3, <1>4, StoredOK
<1>6. /\ targetLock' \in TargetLocks /\ contentLock' \in Fingerprints
      /\ object' \subseteq Contents /\ severed' \subseteq Contents
      /\ physical' \in [Contents -> {"none", "available", "deletion_failed", "deleted"}]
  BY <1>1, <1>2, <1>3 DEF ArtifactTypeOK, TargetLocks, Fingerprints
<1> HIDE DEF c
<1> QED BY <1>1, <1>4, <1>5, <1>6, BytesStep

\* The object may be gone when the provider reports an error: the row keeps
\* the content on offer, and nothing else does.
LEMMA DeleteFailsKeeps ==
    ASSUME ArtifactIInv, NEW k \in Clients, DeleteFails(k)
    PROVE  ArtifactIInv'
<1> DEFINE new == [client[k] EXCEPT !.pc = "mark"]
<1>1. /\ client[k].pc = "check" /\ Unlock(k)
      /\ \/ UNCHANGED <<object, severed>>
         \/ /\ object' = object \ {Doomed(k)}
            /\ severed' = severed \union {Doomed(k)}
      /\ client' = [client EXCEPT ![k].pc = "mark"]
      /\ UNCHANGED <<physical, file, link>>
  BY DEF DeleteFails
<1>2. /\ StoringOK(k) /\ DeleteOK(k) /\ ArtifactTypeOK /\ client[k] \in ClientType
      /\ client \in [Clients -> ClientType]
  BY ClientIs DEF ArtifactIInv, ArtifactTypeOK, ClientType
<1>3. /\ client[k].artifact \in Artifacts /\ file[client[k].artifact] # "none"
      /\ client[k].fresh = {}
  BY <1>1, <1>2 DEF StoringOK, DeleteOK, Storing, Deleting
<1>4. Doomed(k) \in Contents
  BY <1>3, ContentIs DEF Doomed
<1>5. /\ new \in ClientType /\ new.pc = "mark"
      /\ new.artifact = client[k].artifact /\ new.fresh = client[k].fresh
  BY <1>2 DEF ClientType
<1>6. client' = [client EXCEPT ![k] = new] /\ client'[k] = new
  BY <1>1, <1>2 DEF ClientType
<1> HIDE DEF new
<1>7. /\ targetLock' \in TargetLocks /\ contentLock' \in Fingerprints
      /\ \A j \in Clients \ {k} :
           /\ \A t \in TargetSet : targetLock[t] = j => targetLock'[t] = j
           /\ \A c \in Contents : contentLock[c] = j => contentLock'[c] = j
  BY <1>1, <1>2, UnlockKeeps
<1>8. /\ object' \subseteq Contents /\ severed' \subseteq Contents
      /\ object \union severed \subseteq object' \union severed'
      /\ physical' \in [Contents -> {"none", "available", "deletion_failed", "deleted"}]
      /\ physical' = physical
  BY <1>1, <1>2, <1>4 DEF ArtifactTypeOK
<1>9. ClientOK(k)'
  BY <1>1, <1>3, <1>5, <1>6
     DEF ClientOK, StoringOK, FreshOK, DeleteOK, Storing
<1>10. client[k].pc # "record" /\ UNCHANGED <<file, link>>
  BY <1>1
<1> QED BY <1>5, <1>6, <1>7, <1>8, <1>9, <1>10, BytesStep

\* The mark comes after the locks are gone; whatever has become of the row, it
\* is never marked when it says that nothing refers to it.
LEMMA DeleteMarksKeeps ==
    ASSUME ArtifactIInv, NEW k \in Clients, DeleteMarks(k)
    PROVE  ArtifactIInv'
<1>1. /\ client[k].pc = "mark"
      /\ physical' = IF physical[Doomed(k)] = "deleted" THEN physical
                     ELSE [physical EXCEPT ![Doomed(k)] = "deletion_failed"]
      /\ client' = [client EXCEPT ![k] = IdleClient]
      /\ UNCHANGED <<object, file, link, targetLock, contentLock, severed>>
  BY DEF DeleteMarks
<1>2. DeleteOK(k) /\ ArtifactTypeOK /\ client \in [Clients -> ClientType]
  BY DEF ArtifactIInv, ArtifactTypeOK, ClientType
<1>3. client[k].artifact \in Artifacts /\ file[client[k].artifact] # "none"
  BY <1>1, <1>2 DEF DeleteOK, Deleting
<1>4. Doomed(k) \in Contents /\ physical[Doomed(k)] # "none"
  BY <1>3, ContentIs DEF Doomed, ArtifactIInv, PhysicalOK
<1>5. physical \in [Contents -> {"none", "available", "deletion_failed", "deleted"}]
  BY <1>2 DEF ArtifactTypeOK
<1>6. /\ physical' \in [Contents -> {"none", "available", "deletion_failed", "deleted"}]
      /\ \A c \in Contents :
           \/ physical'[c] = physical[c]
           \/ /\ physical[c] \in {"available", "deletion_failed"}
              /\ physical'[c] = "deletion_failed"
  BY <1>1, <1>4, <1>5
<1>7. ClientOK(k)'
  BY <1>1, <1>2, IdleOK
<1>8. /\ targetLock' \in TargetLocks /\ contentLock' \in Fingerprints
      /\ object' \subseteq Contents /\ severed' \subseteq Contents
      /\ object \union severed \subseteq object' \union severed'
  BY <1>1, <1>2 DEF ArtifactTypeOK, TargetLocks, Fingerprints
<1>9. client[k].pc # "record"
  BY <1>1
<1> QED BY <1>1, <1>6, <1>7, <1>8, <1>9, IdleType, BytesStep

LEMMA DeleteDiesKeeps ==
    ASSUME ArtifactIInv, NEW k \in Clients, DeleteDies(k)
    PROVE  ArtifactIInv'
<1>1. /\ client[k].pc = "record" /\ Unlock(k)
      /\ severed' = IF client[k].removed THEN severed \union {Doomed(k)} ELSE severed
      /\ client' = [client EXCEPT ![k] = IdleClient]
      /\ UNCHANGED <<object, physical, file, link>>
  BY DEF DeleteDies
<1>2. DeleteOK(k) /\ ArtifactTypeOK /\ client \in [Clients -> ClientType]
  BY DEF ArtifactIInv, ArtifactTypeOK, ClientType
<1>3. Doomed(k) \in Contents
  BY <1>1, <1>2, ContentIs DEF DeleteOK, Deleting, Doomed
<1>4. ClientOK(k)'
  BY <1>1, <1>2, IdleOK
<1>5. /\ targetLock' \in TargetLocks /\ contentLock' \in Fingerprints
      /\ \A j \in Clients \ {k} :
           /\ \A t \in TargetSet : targetLock[t] = j => targetLock'[t] = j
           /\ \A c \in Contents : contentLock[c] = j => contentLock'[c] = j
  BY <1>1, <1>2, UnlockKeeps
<1>6. /\ object' \subseteq Contents /\ severed' \subseteq Contents
      /\ object \union severed \subseteq object' \union severed'
      /\ physical' \in [Contents -> {"none", "available", "deletion_failed", "deleted"}]
      /\ physical' = physical
      /\ client[k].removed => Doomed(k) \in severed'
  BY <1>1, <1>2, <1>3 DEF ArtifactTypeOK
<1> QED BY <1>1, <1>4, <1>5, <1>6, IdleType, BytesStep

------------------------------------------------------------------------------
(* The commit of a store. *)

\* What the callers of one commit have taken up: artifacts of the locked
\* target that were never recorded, no two of which replace each other.
LEMMA FreshItems ==
    ASSUME ArtifactIInv, NEW k \in Clients, client[k].pc = "commit"
    PROVE  /\ \A a \in client[k].fresh :
                /\ a \in Artifacts /\ file[a] = "none"
                /\ targetLock[Target[a]] = k /\ contentLock[Content[a]] = k
                /\ Content[a] \in Contents
                /\ Content[a] \in object \union severed
           /\ \A a, b \in client[k].fresh :
                a # b => Replaced[a] \cap Replaced[b] = {}
<1>1. /\ StoringOK(k) /\ FreshOK(k) /\ client[k] \in ClientType
      /\ client[k].pc \in Storing
  BY ClientIs DEF ArtifactIInv, Storing
<1>2. client[k].fresh \subseteq Artifacts /\ client[k].request \in Requests
  BY <1>1 DEF StoringOK, ClientType
<1>3. \A a \in client[k].fresh :
        \E i \in 1 .. Len(client[k].request) : a = client[k].request[i]
  BY <1>1 DEF StoringOK
<1>4. \A i \in 1 .. Len(client[k].request) :
        targetLock[Target[client[k].request[i]]] = k
  BY <1>1 DEF StoringOK
<1>5. \A i, j \in 1 .. Len(client[k].request) :
        i # j => Replaced[client[k].request[i]] \cap Replaced[client[k].request[j]] = {}
  BY <1>2, ArtifactAssumption
<1>6. \A a \in client[k].fresh : targetLock[Target[a]] = k
  BY <1>3, <1>4
<1>7. \A a, b \in client[k].fresh : a # b => Replaced[a] \cap Replaced[b] = {}
  <2> TAKE a, b \in client[k].fresh
  <2>1. PICK i \in 1 .. Len(client[k].request) : a = client[k].request[i]
    BY <1>3
  <2>2. PICK j \in 1 .. Len(client[k].request) : b = client[k].request[j]
    BY <1>3
  <2> QED BY <1>5, <2>1, <2>2
<1> QED BY <1>1, <1>2, <1>6, <1>7, ContentIs DEF FreshOK

\* The rows a commit writes, one artifact and one content at a time.
LEMMA CommittedFiles ==
    ASSUME ArtifactIInv, NEW k \in Clients, StoreCommits(k), NEW b \in Artifacts
    PROVE  /\ b \in client[k].fresh => file'[b] = "current"
           /\ b \notin client[k].fresh =>
                \/ /\ file'[b] = "superseded" /\ file[b] = "current"
                   /\ \E a \in client[k].fresh : b \in Rivals(a)
                \/ /\ file'[b] = file[b]
                   /\ file[b] = "current" =>
                        \A a \in client[k].fresh : b \notin Rivals(a)
<1> DEFINE fresh == client[k].fresh
<1>1. file' = [d \in Artifacts |->
                 IF d \in fresh THEN "current"
                 ELSE IF \E a \in fresh : Superseded(a, d) # file[d]
                      THEN "superseded" ELSE file[d]]
  BY DEF StoreCommits
<1>2. (\E a \in fresh : Superseded(a, b) # file[b])
        <=> (\E a \in fresh : b \in Rivals(a)) /\ file[b] = "current"
  BY DEF Superseded
<1> QED BY <1>1, <1>2

LEMMA CommittedLinks ==
    ASSUME ArtifactIInv, NEW k \in Clients, StoreCommits(k), NEW b \in Artifacts
    PROVE  /\ b \in client[k].fresh =>
                link'[b].version = NextVersion(b) /\ link'[b].current = TRUE
           /\ b \notin client[k].fresh =>
                /\ link'[b].version = link[b].version
                /\ link'[b].current <=>
                     link[b].current /\ \A a \in client[k].fresh : b \notin Rivals(a)
<1> DEFINE fresh == client[k].fresh
<1>1. link' = [d \in Artifacts |->
                 IF d \in fresh
                 THEN [version |-> NextVersion(d), current |-> TRUE]
                 ELSE [link[d] EXCEPT !.current =
                         @ /\ \A a \in fresh : d \notin Rivals(a)]]
  BY DEF StoreCommits
<1>2. link[b] \in [version : 0 .. Cardinality(Artifacts), current : BOOLEAN]
  BY DEF ArtifactIInv, ArtifactTypeOK
<1> QED BY <1>1, <1>2

LEMMA CommittedContents ==
    ASSUME ArtifactIInv, NEW k \in Clients, StoreCommits(k)
    PROVE  /\ \A c \in Contents :
                \/ physical'[c] = physical[c]
                \/ physical'[c] = "available"
                   /\ \E a \in client[k].fresh : Content[a] = c
           /\ \A a \in client[k].fresh :
                physical'[Content[a]] \in {"available", "deletion_failed"}
<1> DEFINE fresh == client[k].fresh
<1>1. /\ client[k].pc = "commit"
      /\ physical' = [c \in Contents |->
                        IF /\ c \in {Content[a] : a \in fresh}
                           /\ physical[c] \in {"none", "deleted"}
                        THEN "available" ELSE physical[c]]
  BY DEF StoreCommits
<1>2. \A c \in Contents :
        \/ physical'[c] = physical[c]
        \/ physical'[c] = "available" /\ \E a \in fresh : Content[a] = c
  BY <1>1
<1>3. \A a \in fresh : physical'[Content[a]] \in {"available", "deletion_failed"}
  <2> SUFFICES ASSUME NEW a \in fresh
               PROVE  physical'[Content[a]] \in {"available", "deletion_failed"}
    OBVIOUS
  <2>1. Content[a] \in Contents
    BY <1>1, FreshItems
  <2>2. physical[Content[a]] \in {"none", "available", "deletion_failed", "deleted"}
    BY <2>1 DEF ArtifactIInv, ArtifactTypeOK
  <2> QED BY <1>1, <2>1, <2>2
<1> QED BY <1>2, <1>3

\* The versions stay within the number of recorded artifacts.
LEMMA CommittedVersions ==
    ASSUME ArtifactIInv, NEW k \in Clients, StoreCommits(k)
    PROVE  /\ VersionsOK'
           /\ \A b \in Artifacts : link'[b].version \in 0 .. Cardinality(Artifacts)
<1> DEFINE fresh == client[k].fresh
<1>1. /\ \A b \in Artifacts :
           /\ b \in fresh => file'[b] = "current" /\ link'[b].version = NextVersion(b)
           /\ b \notin fresh => link'[b].version = link[b].version
           /\ file[b] # "none" => file'[b] # "none"
      /\ \A b \in fresh : b \in Artifacts /\ file[b] = "none"
  <2>1. client[k].pc = "commit"
    BY DEF StoreCommits
  <2>2. \A b \in fresh : b \in Artifacts /\ file[b] = "none"
    BY <2>1, FreshItems
  <2> QED BY <2>2, CommittedFiles, CommittedLinks
<1>2. ArtifactTypeOK /\ VersionsOK
  BY DEF ArtifactIInv
<1>3. IsFiniteSet(Artifacts) /\ Recorded \subseteq Recorded' /\ Recorded' \subseteq Artifacts
  BY <1>1, ArtifactAssumption DEF Recorded
<1>4. /\ IsFiniteSet(Recorded') /\ IsFiniteSet(Recorded)
      /\ Cardinality(Recorded) <= Cardinality(Recorded')
      /\ Cardinality(Recorded') <= Cardinality(Artifacts)
      /\ Cardinality(Recorded) \in Nat /\ Cardinality(Recorded') \in Nat
      /\ Cardinality(Artifacts) \in Nat
  BY <1>3, FS_Subset, FS_CardinalityType
<1>5. ASSUME NEW b \in fresh PROVE Cardinality(Recorded) + 1 <= Cardinality(Recorded')
  <2>1. b \in Recorded' /\ b \notin Recorded
    BY <1>1 DEF Recorded
  <2>2. Recorded # Recorded'
    BY <2>1
  <2>3. Cardinality(Recorded) # Cardinality(Recorded')
    BY <1>3, <1>4, <2>2, FS_Subset
  <2> QED BY <1>4, <2>3
<1>6. ASSUME NEW b \in Artifacts
      PROVE  link'[b].version \in Nat /\ link'[b].version <= Cardinality(Recorded')
  <2>1. CASE b \in fresh
    <3>1. NextVersion(b) \in Nat /\ NextVersion(b) <= 1 + Cardinality(Recorded)
      BY <1>2, <2>1, NextVersionBounds
    <3>2. Cardinality(Recorded) + 1 <= Cardinality(Recorded')
      BY <1>5, <2>1
    <3>3. link'[b].version = NextVersion(b)
      BY <1>1, <2>1
    <3> HIDE DEF fresh
    <3> QED BY <1>4, <3>1, <3>2, <3>3
  <2>2. CASE b \notin fresh
    <3>1. link[b].version \in Nat /\ link[b].version <= Cardinality(Recorded)
      <4>1. link[b].version \in 0 .. Cardinality(Artifacts)
        BY <1>2 DEF ArtifactTypeOK
      <4> QED BY <1>2, <1>4, <4>1 DEF VersionsOK
    <3>2. link'[b].version = link[b].version
      BY <1>1, <2>2
    <3> QED BY <1>4, <3>1, <3>2
  <2> QED BY <2>1, <2>2
<1>7. \A b \in Artifacts : link'[b].version \in 0 .. Cardinality(Artifacts)
  BY <1>4, <1>6
<1> QED BY <1>6, <1>7 DEF VersionsOK

\* The new files are the only current ones of their purposes, and the latest.
LEMMA CommittedLatest ==
    ASSUME ArtifactIInv, NEW k \in Clients, StoreCommits(k)
    PROVE  CurrentIsLatest'
<1> DEFINE fresh == client[k].fresh
<1>1. client[k].pc = "commit"
  BY DEF StoreCommits
<1>2. /\ \A a \in fresh : a \in Artifacts /\ file[a] = "none"
      /\ \A a, b \in fresh : a # b => Replaced[a] \cap Replaced[b] = {}
  BY <1>1, FreshItems
<1>3. \A a \in Artifacts : Purpose[a] \in Replaced[a]
  BY ArtifactAssumption
<1>4. /\ \A b \in Artifacts : file[b] = "current" <=> link[b].current
      /\ \A a, b \in Artifacts :
           a # b /\ link[a].current /\ file[b] # "none" /\ Target[a] = Target[b]
             /\ Purpose[a] = Purpose[b] => link[b].version < link[a].version
  BY DEF ArtifactIInv, CurrentIsLatest
<1>5. \A a \in fresh : \A b \in Rivals(a) : link[b].version < NextVersion(a)
  BY <1>2, NextVersionBounds DEF ArtifactIInv
<1>6. \A b \in Artifacts : file'[b] = "current" <=> link'[b].current
  BY <1>4, CommittedFiles, CommittedLinks
<1>7. ASSUME NEW a \in Artifacts, NEW b \in Artifacts \ {a},
             link'[a].current, file'[b] # "none",
             Target[a] = Target[b], Purpose[a] = Purpose[b]
      PROVE  link'[b].version < link'[a].version
  <2>1. CASE a \in fresh /\ b \in fresh
    BY <1>2, <1>3, <1>7, <2>1
  <2>2. CASE a \in fresh /\ b \notin fresh
    <3>1. file[b] # "none"
      BY <1>7, <2>2, CommittedFiles
    <3>2. b \in Rivals(a)
      BY <1>3, <1>7, <3>1 DEF Rivals
    <3>3. link'[a].version = NextVersion(a) /\ link'[b].version = link[b].version
      BY <2>2, CommittedLinks
    <3> QED BY <1>5, <2>2, <3>2, <3>3
  <2>3. CASE a \notin fresh /\ b \in fresh
    <3>1. link[a].current /\ a \notin Rivals(b)
      BY <1>7, <2>3, CommittedLinks
    <3>2. file[a] # "none"
      BY <1>4, <3>1
    <3>3. a \in Rivals(b)
      BY <1>3, <1>7, <3>2 DEF Rivals
    <3> QED BY <3>1, <3>3
  <2>4. CASE a \notin fresh /\ b \notin fresh
    <3>1. /\ link[a].current /\ link'[a].version = link[a].version
          /\ link'[b].version = link[b].version /\ file[b] # "none"
      BY <1>7, <2>4, CommittedFiles, CommittedLinks
    <3> QED BY <1>4, <1>7, <3>1
  <2> QED BY <2>1, <2>2, <2>3, <2>4
<1> QED BY <1>6, <1>7 DEF CurrentIsLatest

LEMMA StoreCommitsKeeps ==
    ASSUME ArtifactIInv, NEW k \in Clients, StoreCommits(k)
    PROVE  ArtifactIInv'
<1> DEFINE fresh == client[k].fresh
<1>1. /\ client[k].pc = "commit" /\ Unlock(k)
      /\ client' = [client EXCEPT ![k] = IdleClient]
      /\ object' = object /\ severed' = severed
  BY DEF StoreCommits
<1>2. ArtifactTypeOK /\ client \in [Clients -> ClientType]
  BY DEF ArtifactIInv, ArtifactTypeOK, ClientType
<1>3. /\ client'[k] = IdleClient /\ client' \in [Clients -> ClientType]
      /\ \A j \in Clients \ {k} : client'[j] = client[j]
  BY <1>1, <1>2, IdleType
<1>4. /\ targetLock' \in TargetLocks /\ contentLock' \in Fingerprints
      /\ \A j \in Clients \ {k} :
           /\ \A t \in TargetSet : targetLock[t] = j => targetLock'[t] = j
           /\ \A c \in Contents : contentLock[c] = j => contentLock'[c] = j
  BY <1>1, <1>2, UnlockKeeps
<1>5. \A a \in fresh :
        /\ a \in Artifacts /\ file[a] = "none"
        /\ targetLock[Target[a]] = k /\ contentLock[Content[a]] = k
        /\ Content[a] \in Contents /\ Content[a] \in object \union severed
  BY <1>1, FreshItems
<1>6. /\ \A b \in Artifacts :
           /\ b \notin fresh => (Live(b)' <=> Live(b))
           /\ b \notin fresh /\ file[b] = "none" => file'[b] = "none"
           /\ file[b] # "none" => file'[b] # "none"
           /\ b \notin fresh /\ file'[b] # "none" => file[b] # "none"
      /\ \A c \in Contents :
           \/ physical'[c] = physical[c]
           \/ physical'[c] = "available" /\ \E a \in fresh : Content[a] = c
      /\ \A a \in fresh : physical'[Content[a]] \in {"available", "deletion_failed"}
  BY CommittedFiles, CommittedContents DEF Live
<1>7. ArtifactTypeOK'
  <2>1. file' \in [Artifacts -> {"none", "current", "superseded", "deleted"}]
    BY <1>2 DEF ArtifactTypeOK, StoreCommits
  <2>2. link' \in [Artifacts -> [version : 0 .. Cardinality(Artifacts),
                                 current : BOOLEAN]]
    <3>1. \A b \in Artifacts : link'[b].version \in 0 .. Cardinality(Artifacts)
      BY CommittedVersions
    <3>2. \A b \in fresh : NextVersion(b) \in 0 .. Cardinality(Artifacts)
      BY <1>5, <3>1, CommittedLinks
    <3>3. link' = [b \in Artifacts |->
                     IF b \in fresh
                     THEN [version |-> NextVersion(b), current |-> TRUE]
                     ELSE [link[b] EXCEPT !.current =
                             @ /\ \A a \in fresh : b \notin Rivals(a)]]
      BY DEF StoreCommits
    <3> HIDE DEF fresh
    <3>4. \A b \in Artifacts :
            link[b] \in [version : 0 .. Cardinality(Artifacts), current : BOOLEAN]
      BY <1>2 DEF ArtifactTypeOK
    <3>5. \A b \in Artifacts :
            [link[b] EXCEPT !.current = @ /\ \A a \in fresh : b \notin Rivals(a)]
              \in [version : 0 .. Cardinality(Artifacts), current : BOOLEAN]
      BY <3>4
    <3> QED BY <3>2, <3>3, <3>5
  <2>3. physical' \in [Contents -> {"none", "available", "deletion_failed", "deleted"}]
    BY <1>2 DEF ArtifactTypeOK, StoreCommits
  <2> QED BY <1>1, <1>2, <1>3, <1>4, <2>1, <2>2, <2>3
          DEF ArtifactTypeOK, ClientType, TargetLocks, Fingerprints
<1>8. ClientOK(k)'
  BY <1>3, IdleOK
<1> HIDE DEF fresh
<1>9. ASSUME NEW j \in Clients, j # k PROVE ClientOK(j)'
  <2>1. ClientOK(j) /\ client'[j] = client[j]
    BY <1>3, <1>9 DEF ArtifactIInv, ClientOK
  <2>2. \A a \in Artifacts : file[a] = "none" /\ targetLock[Target[a]] = j
                             => file'[a] = "none"
    BY <1>5, <1>6, <1>9
  <2>3. \A a \in Artifacts : Live(a)' => Live(a) \/ contentLock[Content[a]] # j
    BY <1>5, <1>6, <1>9
  <2>4. \A c \in Contents : contentLock[c] = j /\ c \in object \union severed
                            => c \in object' \union severed'
    BY <1>1
  <2> QED BY <1>2, <1>4, <1>6, <1>9, <2>1, <2>2, <2>3, <2>4, OthersKept
<1>10. PhysicalOK'
  <2>1. Kept(k)
    BY <1>3, <1>4 DEF Kept
  <2>2. \A c \in Contents : BeingDeleted(c) => BeingDeleted(c)'
    BY <1>1, <2>1, BeingDeletedKept
  <2>3. \A c \in Contents : physical'[c] \in {"available", "deletion_failed"} =>
          c \in object' \union severed' \/ BeingDeleted(c)'
    BY <1>1, <1>5, <1>6, <2>2 DEF ArtifactIInv, PhysicalOK
  <2>4. \A a \in Artifacts : file'[a] # "none" => physical'[Content[a]] # "none"
    BY <1>6, ContentIs DEF ArtifactIInv, PhysicalOK
  <2>5. \A a \in Artifacts : Live(a)' =>
          physical'[Content[a]] \in {"available", "deletion_failed"}
    BY <1>6, ContentIs DEF ArtifactIInv, PhysicalOK
  <2> QED BY <2>3, <2>4, <2>5 DEF PhysicalOK
<1> QED BY <1>7, <1>8, <1>9, <1>10, CommittedVersions, CommittedLatest
        DEF ArtifactIInv, ClientOK

------------------------------------------------------------------------------
(* The theorems. *)

LEMMA InitHolds == ASSUME ArtifactInit PROVE ArtifactIInv
<1>1. /\ object = {} /\ severed = {}
      /\ physical = [c \in Contents |-> "none"]
      /\ file = [a \in Artifacts |-> "none"]
      /\ link = [a \in Artifacts |-> [version |-> 0, current |-> FALSE]]
      /\ targetLock = [t \in TargetSet |-> None]
      /\ contentLock = [c \in Contents |-> None]
      /\ client = [k \in Clients |-> IdleClient]
  BY DEF ArtifactInit
<1>2. Cardinality(Artifacts) \in Nat /\ 0 \in 0 .. Cardinality(Artifacts)
  BY ArtifactAssumption, FS_CardinalityType
<1>3. ArtifactTypeOK
  BY <1>1, <1>2, IdleType DEF ArtifactTypeOK, ClientType
<1>4. ASSUME NEW k \in Clients PROVE StoringOK(k) /\ FreshOK(k) /\ DeleteOK(k)
  <2>1. client[k].pc = "idle" /\ client[k].fresh = {}
    BY <1>1 DEF IdleClient
  <2> QED BY <2>1 DEF StoringOK, FreshOK, DeleteOK, Storing, Deleting
<1>5. PhysicalOK
  BY <1>1, ContentIs DEF PhysicalOK, Live
<1>6. Cardinality(Recorded) \in Nat
  BY <1>3, RecordedBound
<1>7. VersionsOK
  BY <1>1, <1>6 DEF VersionsOK
<1>8. CurrentIsLatest
  BY <1>1 DEF CurrentIsLatest
<1> QED BY <1>3, <1>4, <1>5, <1>7, <1>8 DEF ArtifactIInv

LEMMA StutterKeeps == ASSUME ArtifactIInv, UNCHANGED artifactVars PROVE ArtifactIInv'
<1>1. ArtifactTypeOK' /\ VersionsOK' /\ CurrentIsLatest' /\ PhysicalOK'
  BY DEF ArtifactIInv, artifactVars, ArtifactTypeOK, VersionsOK, Recorded, CurrentIsLatest, PhysicalOK,
         Live, BeingDeleted, Doomed
<1>2. ASSUME NEW k \in Clients PROVE StoringOK(k)' /\ FreshOK(k)' /\ DeleteOK(k)'
  BY DEF ArtifactIInv, artifactVars, StoringOK, FreshOK, DeleteOK, Item, Doomed, FinalReference, Live
<1> QED BY <1>1, <1>2 DEF ArtifactIInv

LEMMA NextKeeps == ASSUME ArtifactIInv, ArtifactNext PROVE ArtifactIInv'
<1>1. PICK k \in Clients : Store(k) \/ Delete(k)
  BY DEF ArtifactNext
<1>2. CASE Store(k)
  BY <1>2, StoreStartsKeeps, StoreRetriesKeeps, StoreAuthorizesKeeps,
     StoreLocksContentKeeps, StoreUploadsKeeps, StoreCommitsKeeps,
     StoreAbortsKeeps DEF Store
<1>3. CASE Delete(k)
  BY <1>3, DeleteBeginsKeeps, DeleteLocksKeeps, DeleteRemovesKeeps,
     DeleteCommitsKeeps, DeleteEndsKeeps, DeleteFailsKeeps, DeleteMarksKeeps,
     DeleteDiesKeeps DEF Delete
<1> QED BY <1>1, <1>2, <1>3

\* Whichever stores and deletions interleave, fail or die in between, what the
\* advisory locks protect stays as storeSet and delete left it.
THEOREM ArtifactInvariance == ArtifactSpec => []ArtifactIInv
<1>1. ArtifactInit => ArtifactIInv
  BY InitHolds
<1>2. ArtifactIInv /\ [ArtifactNext]_artifactVars => ArtifactIInv'
  BY NextKeeps, StutterKeeps
<1> QED BY <1>1, <1>2, PTL DEF ArtifactSpec

\* The rows, the objects, the locks and the callers' locals stay within their
\* types: versions never outgrow the number of artifacts ever stored.
THEOREM ArtifactTypeCorrect == ArtifactSpec => []ArtifactTypeOK
<1>1. ArtifactIInv => ArtifactTypeOK
  BY DEF ArtifactIInv
<1> QED BY <1>1, ArtifactInvariance, PTL

\* getForDelivery finds a usable physical row for every live artifact, and the
\* bytes unless their deletion is under way or was never recorded.
THEOREM LiveDelivered == ArtifactSpec => []LiveIsDeliverable
<1>1. ArtifactIInv => LiveIsDeliverable
  BY ContentIs DEF ArtifactIInv, PhysicalOK, LiveIsDeliverable
<1> QED BY <1>1, ArtifactInvariance, PTL

\* storeSet numbers a new file above all those of its target and purpose, and
\* lifecycle_state and is_current never disagree about which is current.
THEOREM LatestIsCurrent == ArtifactSpec => []CurrentIsLatest
<1>1. ArtifactIInv => CurrentIsLatest
  BY DEF ArtifactIInv
<1> QED BY <1>1, ArtifactInvariance, PTL

\* existingArtifact keeps a retried store from recording a deleted artifact
\* again, and a replacement supersedes current files only.
THEOREM DeletedStaysDeleted == ArtifactSpec => DeletionIsFinal
<1> DEFINE Final == \A a \in Artifacts : file[a] = "deleted" => file'[a] = "deleted"
<1>1. ASSUME ArtifactIInv, NEW k \in Clients, StoreCommits(k) PROVE Final
  <2>1. client[k].pc = "commit"
    BY <1>1 DEF StoreCommits
  <2> SUFFICES ASSUME NEW a \in Artifacts, file[a] = "deleted"
               PROVE  file'[a] = "deleted"
    OBVIOUS
  <2>2. a \notin client[k].fresh
    BY <1>1, <2>1, FreshItems
  <2> QED BY <1>1, <2>2, CommittedFiles
<1>2. ASSUME ArtifactIInv, NEW k \in Clients, DeleteCommits(k) PROVE Final
  BY <1>2 DEF DeleteCommits, ArtifactIInv, ArtifactTypeOK
<1>3. ASSUME ArtifactIInv, ArtifactNext PROVE Final
  <2>1. PICK k \in Clients : Store(k) \/ Delete(k)
    BY <1>3 DEF ArtifactNext
  <2>2. file' = file \/ StoreCommits(k) \/ DeleteCommits(k)
    BY <2>1 DEF Store, StoreStarts, StoreRetries, StoreAuthorizes,
       StoreLocksContent, StoreUploads, StoreAborts, Delete, DeleteBegins,
       DeleteLocks, DeleteRemoves, DeleteEnds, DeleteFails, DeleteMarks, DeleteDies
  <2> QED BY <1>1, <1>2, <1>3, <2>2
<1>4. ArtifactIInv /\ [ArtifactNext]_artifactVars => [Final]_artifactVars
  BY <1>3
<1> QED BY <1>4, ArtifactInvariance, PTL DEF ArtifactSpec, DeletionIsFinal
============================================================================
