------------------------- MODULE DashboardFreshness -------------------------
(***************************************************************************)
(* What the refresh pipeline promises its readers, without jobs, locks,   *)
(* snapshots or workers: each organization's published view only grows,   *)
(* shows only committed mutations, and every committed mutation stays     *)
(* owed until a publication shows it or the pipeline gives up on it.      *)
(***************************************************************************)
CONSTANTS Mutations, Orgs, OrgOf

VARIABLES committed,  \* mutations whose transaction committed
          view,       \* the mutations each organization's dashboard shows
          owed        \* committed mutations a refresh is still queued for

vars == <<committed, view, owed>>

Of(o) == {m \in Mutations : OrgOf[m] = o}

Init ==
    /\ committed = {}
    /\ view = [o \in Orgs |-> {}]
    /\ owed = {}

Commit(m) ==
    /\ m \in Mutations \ committed
    /\ committed' = committed \union {m}
    /\ owed' = owed \union {m}
    /\ UNCHANGED view

Show(o, S) ==
    /\ view[o] \subseteq S
    /\ S \subseteq committed \intersect Of(o)
    /\ view' = [view EXCEPT ![o] = S]
    /\ owed' = owed \ S
    /\ UNCHANGED committed

GiveUp(o, G) ==
    /\ G \subseteq owed \intersect Of(o)
    /\ owed' = owed \ G
    /\ UNCHANGED <<committed, view>>

Next ==
    \/ \E m \in Mutations : Commit(m)
    \/ \E o \in Orgs, S \in SUBSET Mutations : Show(o, S) \/ GiveUp(o, S)

Spec == Init /\ [][Next]_vars

\* Nothing stays owed for ever.
Settled == \A m \in Mutations : m \in owed ~> m \notin owed
=============================================================================
