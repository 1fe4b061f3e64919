---------------------------- MODULE ArtifactStore ----------------------------
(***************************************************************************)
(* Retained artifacts: storeSet and delete of packages/db/src/artifacts.ts *)
(* over core.file_objects, core.files and core.file_links, with the       *)
(* physical objects of google-cloud-artifact-provider.ts.                 *)
(*                                                                        *)
(* One organization.  A logical artifact is known by its idempotency key, *)
(* which fixes its target, purpose and bytes; artifacts with equal bytes  *)
(* (Content) share one file_objects row and one object, under a key made  *)
(* from those bytes.  A transaction's writes appear when it commits; the  *)
(* provider's effects appear when they happen and no rollback undoes      *)
(* them.  The advisory locks are modelled as the code takes them; the row *)
(* locks of delete are then held only while its fingerprint lock is.      *)
(* A definition Name_Variant is a plausible bug in the code Name models.  *)
(***************************************************************************)
EXTENDS Naturals, FiniteSets, Sequences

CONSTANTS Clients,      \* concurrent callers of storeSet and delete
          Artifacts,    \* idempotency keys
          Contents,     \* SHA-256 and byte size
          Requests,     \* storeSet arguments: sequences of artifacts
          Target, Purpose, Content,  \* of each artifact
          Replaced,     \* purposes each artifact supersedes, its own included
          MaxSevered,   \* bound on contents in severed
          None

ASSUME ArtifactAssumption ==
    /\ IsFiniteSet(Artifacts)
    /\ None \notin Clients
    /\ Content \in [Artifacts -> Contents]
    /\ \A a \in Artifacts : Purpose[a] \in Replaced[a]
    /\ \A r \in Requests :
         /\ r \in Seq(Artifacts) /\ Len(r) > 0
         /\ \A i, j \in 1 .. Len(r) :
              /\ Target[r[i]] = Target[r[j]]
              /\ i # j => Replaced[r[i]] \cap Replaced[r[j]] = {}
    /\ MaxSevered \in Nat

VARIABLES object,    \* provider: contents whose object exists
          physical,  \* core.file_objects.lifecycle_state of each content
          file,      \* core.files.lifecycle_state of each artifact
          link,      \* core.file_links: version and is_current
          targetLock, contentLock,  \* pg_advisory_xact_lock holders
          client,    \* each caller's program counter and locals
          severed    \* contents the provider deleted and no commit recorded

artifactVars == <<object, physical, file, link, targetLock, contentLock, client,
          severed>>

TargetSet == {Target[a] : a \in Artifacts}

ArtifactTypeOK ==
    /\ object \subseteq Contents
    /\ physical \in [Contents -> {"none", "available", "deletion_failed",
                                  "deleted"}]
    /\ file \in [Artifacts -> {"none", "current", "superseded", "deleted"}]
    /\ link \in [Artifacts -> [version : 0 .. Cardinality(Artifacts),
                               current : BOOLEAN]]
    /\ targetLock \in [TargetSet -> Clients \union {None}]
    /\ contentLock \in [Contents -> Clients \union {None}]
    /\ client \in [Clients ->
                    [pc : {"idle", "item", "lock", "upload", "commit",
                           "fingerprint", "check", "record", "mark"},
                     request : Requests \union {<<>>},
                     next : 0 .. Cardinality(Artifacts),
                     fresh : SUBSET Artifacts,
                     artifact : Artifacts \union {None},
                     removed : BOOLEAN]]
    /\ severed \subseteq Contents

IdleClient == [pc |-> "idle", request |-> <<>>, next |-> 0, fresh |-> {},
         artifact |-> None, removed |-> FALSE]

ArtifactInit ==
    /\ object = {}
    /\ physical = [c \in Contents |-> "none"]
    /\ file = [a \in Artifacts |-> "none"]
    /\ link = [a \in Artifacts |-> [version |-> 0, current |-> FALSE]]
    /\ targetLock = [t \in TargetSet |-> None]
    /\ contentLock = [c \in Contents |-> None]
    /\ client = [k \in Clients |-> IdleClient]
    /\ severed = {}

------------------------------------------------------------------------------
Live(a) == file[a] \in {"current", "superseded"}

Item(k) == client[k].request[client[k].next]

\* COMMIT or ROLLBACK: the advisory locks of a transaction go with it.
Unlock(k) ==
    /\ targetLock' = [t \in TargetSet |->
                        IF targetLock[t] = k THEN None ELSE targetLock[t]]
    /\ contentLock' = [c \in Contents |->
                         IF contentLock[c] = k THEN None ELSE contentLock[c]]

------------------------------------------------------------------------------
(* storeSet *)

StoreStarts(k, r) ==
    /\ client[k].pc = "idle"
    /\ targetLock[Target[r[1]]] = None
    /\ targetLock' = [targetLock EXCEPT ![Target[r[1]]] = k]
    /\ client' = [client EXCEPT ![k] = [IdleClient EXCEPT !.pc = "item",
                                                    !.request = r, !.next = 1]]
    /\ UNCHANGED <<object, physical, file, link, contentLock, severed>>

Existing_Live(a) == Live(a)

\* existingArtifact: whatever its lifecycle, the key has been used.
Existing(a) == file[a] # "none"

Advance(k) ==
    IF client[k].next = Len(client[k].request)
    THEN [client[k] EXCEPT !.pc = "commit"]
    ELSE [client[k] EXCEPT !.pc = "item", !.next = @ + 1]

StoreRetries(k) ==
    /\ client[k].pc = "item"
    /\ Existing(Item(k))
    /\ client' = [client EXCEPT ![k] = Advance(k)]
    /\ UNCHANGED <<object, physical, file, link, targetLock, contentLock,
                   severed>>

\* authorizeTarget passes; the fingerprint lock is the next to be taken.
StoreAuthorizes(k) ==
    /\ client[k].pc = "item"
    /\ ~Existing(Item(k))
    /\ client' = [client EXCEPT ![k].pc = "lock"]
    /\ UNCHANGED <<object, physical, file, link, targetLock, contentLock,
                   severed>>

\* A physical row that is not deleted is reused without asking the provider.
Reusable(k, c) ==
    \/ physical[c] \in {"available", "deletion_failed"}
    \/ \E a \in client[k].fresh : Content[a] = c

Stored(k) == [Advance(k) EXCEPT !.fresh = @ \union {Item(k)}]

StoreLocksContent(k) ==
    LET c == Content[Item(k)] IN
    /\ client[k].pc = "lock"
    /\ contentLock[c] \in {None, k}
    /\ contentLock' = [contentLock EXCEPT ![c] = k]
    /\ client' = [client EXCEPT ![k] =
                    IF Reusable(k, c) THEN Stored(k)
                    ELSE [@ EXCEPT !.pc = "upload"]]
    /\ UNCHANGED <<object, physical, file, link, targetLock, severed>>

\* A create-only write of the deterministic key; equal bytes already there
\* count as written.
StoreUploads(k) ==
    /\ client[k].pc = "upload"
    /\ object' = object \union {Content[Item(k)]}
    /\ severed' = severed \ {Content[Item(k)]}
    /\ client' = [client EXCEPT ![k] = Stored(k)]
    /\ UNCHANGED <<physical, file, link, targetLock, contentLock>>

Max0(S) == IF S = {} THEN 0 ELSE CHOOSE n \in S : \A m \in S : m <= n

\* The links of a's target whose purpose a replaces.
Rivals(a) ==
    {b \in Artifacts : /\ file[b] # "none"
                       /\ Target[b] = Target[a]
                       /\ Purpose[b] \in Replaced[a]}

NextVersion_Count(a) == 1 + Cardinality({b \in Rivals(a) : link[b].current})

NextVersion(a) == 1 + Max0({link[b].version : b \in Rivals(a)})

\* file.lifecycle_state of b once a has replaced its links.
Superseded(a, b) ==
    IF b \in Rivals(a) /\ file[b] = "current" THEN "superseded" ELSE file[b]

StoreCommits(k) ==
    LET fresh == client[k].fresh IN
    /\ client[k].pc = "commit"
    /\ physical' = [c \in Contents |->
                      IF /\ c \in {Content[a] : a \in fresh}
                         /\ physical[c] \in {"none", "deleted"}
                      THEN "available" ELSE physical[c]]
    /\ file' = [b \in Artifacts |->
                  IF b \in fresh THEN "current"
                  ELSE IF \E a \in fresh : Superseded(a, b) # file[b]
                       THEN "superseded" ELSE file[b]]
    /\ link' = [b \in Artifacts |->
                  IF b \in fresh
                  THEN [version |-> NextVersion(b), current |-> TRUE]
                  ELSE [link[b] EXCEPT !.current =
                          @ /\ \A a \in fresh : b \notin Rivals(a)]]
    /\ Unlock(k)
    /\ client' = [client EXCEPT ![k] = IdleClient]
    /\ UNCHANGED <<object, severed>>

\* Any failure: refused authorization, provider error, lost connection.  The
\* provider preserves what was uploaded.
StoreAborts(k) ==
    /\ client[k].pc \in {"item", "lock", "upload", "commit"}
    /\ Unlock(k)
    /\ client' = [client EXCEPT ![k] = IdleClient]
    /\ UNCHANGED <<object, physical, file, link, severed>>

------------------------------------------------------------------------------
(* delete *)

Doomed(k) == Content[client[k].artifact]

\* The fingerprint is read before its lock can be taken.
DeleteBegins(k, a) ==
    /\ client[k].pc = "idle"
    /\ file[a] # "none"
    /\ client' = [client EXCEPT ![k] = [IdleClient EXCEPT !.pc = "fingerprint",
                                                    !.artifact = a]]
    /\ UNCHANGED <<object, physical, file, link, targetLock, contentLock,
                   severed>>

DeletionLock(k) == [contentLock EXCEPT ![Doomed(k)] = k]

DeleteLocks(k) ==
    /\ client[k].pc = "fingerprint"
    /\ contentLock[Doomed(k)] = None
    /\ contentLock' = DeletionLock(k)
    /\ client' = [client EXCEPT ![k].pc = "check"]
    /\ UNCHANGED <<object, physical, file, link, targetLock, severed>>

\* The count of other live references is zero.
FinalReference(a) ==
    \A b \in Artifacts \ {a} : Live(b) => Content[b] # Content[a]

Removes(k) ==
    /\ FinalReference(client[k].artifact)
    /\ physical[Doomed(k)] # "deleted"

DeleteRemoves(k) ==
    /\ client[k].pc = "check"
    /\ file[client[k].artifact] # "deleted"
    /\ object' = IF Removes(k) THEN object \ {Doomed(k)} ELSE object
    /\ client' = [client EXCEPT ![k].pc = "record", ![k].removed = Removes(k)]
    /\ UNCHANGED <<physical, file, link, targetLock, contentLock, severed>>

DeletedRow_Always(k) == [physical EXCEPT ![Doomed(k)] = "deleted"]

DeletedRow(k) ==
    IF client[k].removed
    THEN [physical EXCEPT ![Doomed(k)] = "deleted"] ELSE physical

DeleteCommits(k) ==
    LET a == client[k].artifact IN
    /\ client[k].pc = "record"
    /\ physical' = DeletedRow(k)
    /\ file' = [file EXCEPT ![a] = "deleted"]
    /\ link' = [link EXCEPT ![a].current = FALSE]
    /\ severed' = IF client[k].removed THEN severed \ {Doomed(k)} ELSE severed
    /\ Unlock(k)
    /\ client' = [client EXCEPT ![k] = IdleClient]
    /\ UNCHANGED object

\* The artifact is already deleted, a drawing revision needs it, the
\* confirmation is wrong, or the connection is lost before any deletion.
DeleteEnds(k) ==
    /\ client[k].pc \in {"fingerprint", "check"}
    /\ Unlock(k)
    /\ client' = [client EXCEPT ![k] = IdleClient]
    /\ UNCHANGED <<object, physical, file, link, severed>>

\* The provider reports an error, and may have deleted the object all the
\* same.  The transaction rolls back before the failure is noted.
DeleteFails(k) ==
    /\ client[k].pc = "check"
    /\ file[client[k].artifact] # "deleted"
    /\ Removes(k)
    /\ \/ UNCHANGED <<object, severed>>
       \/ /\ Cardinality(severed) < MaxSevered
          /\ object' = object \ {Doomed(k)}
          /\ severed' = severed \union {Doomed(k)}
    /\ Unlock(k)
    /\ client' = [client EXCEPT ![k].pc = "mark"]
    /\ UNCHANGED <<physical, file, link>>

\* An update of its own, outside the transaction and its locks.
DeleteMarks(k) ==
    /\ client[k].pc = "mark"
    /\ physical' = IF physical[Doomed(k)] = "deleted" THEN physical
                   ELSE [physical EXCEPT ![Doomed(k)] = "deletion_failed"]
    /\ client' = [client EXCEPT ![k] = IdleClient]
    /\ UNCHANGED <<object, file, link, targetLock, contentLock, severed>>

\* A crash or a failed statement between the provider's deletion and COMMIT.
DeleteDies(k) ==
    /\ client[k].pc = "record"
    /\ client[k].removed => Cardinality(severed) < MaxSevered
    /\ severed' = IF client[k].removed THEN severed \union {Doomed(k)}
                  ELSE severed
    /\ Unlock(k)
    /\ client' = [client EXCEPT ![k] = IdleClient]
    /\ UNCHANGED <<object, physical, file, link>>

------------------------------------------------------------------------------
Store(k) ==
    \/ \E r \in Requests : StoreStarts(k, r)
    \/ StoreRetries(k) \/ StoreAuthorizes(k) \/ StoreLocksContent(k)
    \/ StoreUploads(k) \/ StoreCommits(k) \/ StoreAborts(k)

Delete(k) ==
    \/ \E a \in Artifacts : DeleteBegins(k, a)
    \/ DeleteLocks(k) \/ DeleteRemoves(k) \/ DeleteCommits(k)
    \/ DeleteEnds(k) \/ DeleteFails(k) \/ DeleteMarks(k) \/ DeleteDies(k)

ArtifactNext == \E k \in Clients : Store(k) \/ Delete(k)

ArtifactSpec == ArtifactInit /\ [][ArtifactNext]_artifactVars

------------------------------------------------------------------------------
(* Properties *)

BeingDeleted(c) ==
    \E k \in Clients : client[k].pc = "record" /\ client[k].removed
                       /\ Doomed(k) = c

\* getForDelivery offers a live artifact and finds its bytes, whichever stores
\* reuse them and whichever deletions race those stores: its physical row is
\* not deleted, and its bytes are in the provider except while the deletion of
\* their last reference commits or after one the database never recorded.
LiveIsDeliverable ==
    \A a \in Artifacts : Live(a) =>
      /\ physical[Content[a]] \in {"available", "deletion_failed"}
      /\ \/ Content[a] \in object \union severed
         \/ BeingDeleted(Content[a])

\* A current file has a current link and the highest version its target and
\* purpose ever had, deleted artifacts included, although different statements
\* of concurrent stores and deletions write files.lifecycle_state, is_current
\* and the version: history never shows two artifacts as one.
CurrentIsLatest ==
    \A a \in Artifacts :
      /\ file[a] = "current" <=> link[a].current
      /\ \A b \in Artifacts \ {a} :
           /\ link[a].current /\ file[b] # "none"
           /\ Target[a] = Target[b] /\ Purpose[a] = Purpose[b]
           => link[b].version < link[a].version

\* Nothing brings a deleted artifact back, a retry of its store included.
DeletionIsFinal ==
    [][\A a \in Artifacts : file[a] = "deleted" => file'[a] = "deleted"]_artifactVars
=============================================================================
