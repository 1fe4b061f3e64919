--------------------------- MODULE SessionTimeline ---------------------------
(***************************************************************************)
(* The timeline of production sessions on one machine: sessions, their    *)
(* downtime, the machine's breakdowns and the setups that own the machine *)
(* (packages/db/src/production-shop-floor.ts and maintenance.ts).         *)
(*                                                                        *)
(* Every operation is one transaction that serializes on the machine's    *)
(* advisory lock, on the work order or on the session row, so it is one   *)
(* step here.  Users enter times, so an operation may be entered late and *)
(* for any past time; the wall clock only forbids more ("in the future"), *)
(* and so do the shift calendar, tooling, material balances and the       *)
(* expected row version of a form, which are left out.  Quantities are in *)
(* module SessionOutput.                                                  *)
(*                                                                        *)
(* A definition Name_Variant is a plausible bug in the code that Name      *)
(* models; the specification does not use it.                             *)
(***************************************************************************)
EXTENDS Naturals, Sequences, FiniteSets

CONSTANTS Setups,         \* job-card setups that run on this machine
          MaxSessions, MaxDowntimes, MaxBreakdowns,  \* bounds on rows
          MaxTime         \* bound on entered times

ASSUME ConstantsAssumption ==
    {MaxSessions, MaxDowntimes, MaxBreakdowns, MaxTime} \subseteq Nat

VARIABLES session,    \* manufacturing.production_sessions, in creation order
          downtime,   \* manufacturing.production_session_downtime_events
          breakdown,  \* maintenance.tasks of type Breakdown
          setup       \* manufacturing.shop_floor_setup_state on this machine

vars == <<session, downtime, breakdown, setup>>

------------------------------------------------------------------------------
Time == 0 .. MaxTime

\* ended_at IS NULL, which the queries coalesce to 'infinity'.
Forever == MaxTime + 1

\* "stop" stands for the close reasons that only end the session.
EndReason == {"stop", "shift_end", "item_complete", "awaiting_material"}

Session == [setup : Setups, start : Time, end : Time \union {Forever},
            reason : EndReason \union {"none"}]

Downtime == [session : 1 .. MaxSessions, start : Time,
             end : Time \union {Forever},
             outcome : {"none", "resolved", "unresolved"},
             carryResolved : BOOLEAN,     \* carry_forward_resolved_at
             accident : BOOLEAN,
             task : 0 .. MaxBreakdowns,   \* maintenanceTaskKey; 0 is none
             reversed : BOOLEAN]

Breakdown == [start : Time, done : BOOLEAN]

\* An active setup is running (operator_started); by is the session whose
\* close completed the setup, 0 if none did.
Setup == [stage : {"planned", "running", "item_complete"}, by : 0 .. MaxSessions]

\* With the CHECK constraints of the tables.
TypeOK ==
    /\ session \in Seq(Session) /\ Len(session) <= MaxSessions
    /\ \A s \in DOMAIN session :
          /\ session[s].end >= session[s].start
          /\ session[s].end = Forever <=> session[s].reason = "none"
    /\ \A d \in DOMAIN downtime : downtime[d].end > downtime[d].start
    /\ downtime \in Seq(Downtime) /\ Len(downtime) <= MaxDowntimes
    /\ breakdown \in Seq(Breakdown) /\ Len(breakdown) <= MaxBreakdowns
    /\ setup \in [Setups -> Setup]

Init ==
    /\ session = <<>>
    /\ downtime = <<>>
    /\ breakdown = <<>>
    /\ setup = [u \in Setups |-> [stage |-> "planned", by |-> 0]]

------------------------------------------------------------------------------
IsOpen(s) == session[s].end = Forever

Running(u) == setup[u].stage = "running"

OpenSessionOf(u) == \E s \in DOMAIN session : IsOpen(s) /\ session[s].setup = u

BreakdownInProgress == {k \in DOMAIN breakdown : ~breakdown[k].done}

LiveIn(dts, s) == {d \in DOMAIN dts : dts[d].session = s /\ ~dts[d].reversed}

Live(s) == LiveIn(downtime, s)

OpenDowntime(s) == {d \in Live(s) : downtime[d].end = Forever}

\* (started_at, created_at, id) orders the sessions of a machine.
Later(o, s) ==
    \/ session[o].start > session[s].start
    \/ session[o].start = session[s].start /\ o > s

TimeFree_StartOnly(s, from, to) ==
    \A o \in DOMAIN session \ {s} :
        ~ (session[o].start <= from /\ from < session[o].end)

\* assertProductionSessionDoesNotOverlap: a session without an end only needs
\* its start outside the others; empty sessions get in nobody's way.
TimeFree(s, from, to) ==
    \A o \in DOMAIN session \ {s} :
        ~ /\ session[o].end > session[o].start
          /\ session[o].end > from
          /\ IF to = Forever THEN session[o].start <= from
             ELSE session[o].start < to /\ from < to

DowntimeFree(s, except, from, to) ==
    \A d \in Live(s) \ {except} :
        ~ (downtime[d].start < to /\ downtime[d].end > from)

------------------------------------------------------------------------------
(* Setups: the shop-floor and planner actions that own a machine.         *)

\* recordShopFloorStage up to operator_started.  A completed setup keeps its
\* stage whatever earlier stage is recorded.
StartMachine(u) ==
    /\ setup[u].stage = "planned"
    /\ \A v \in Setups : ~Running(v)
    /\ setup' = [setup EXCEPT ![u].stage = "running"]
    /\ UNCHANGED <<session, downtime, breakdown>>

\* recordShopFloorStage with item_complete, and recordSetupCompletion.
FinishSetup(u) ==
    /\ ~OpenSessionOf(u)
    /\ setup' = [setup EXCEPT ![u] = [stage |-> "item_complete", by |-> 0]]
    /\ UNCHANGED <<session, downtime, breakdown>>

Releasable(u) == Running(u) /\ ~OpenSessionOf(u)

\* releaseSetupAwaitingMaterial by a planner.
ReleaseSetup(u) ==
    /\ Releasable(u)
    /\ setup' = [setup EXCEPT ![u].stage = "planned"]
    /\ UNCHANGED <<session, downtime, breakdown>>

\* The session whose close completed the setup becomes a manual stop.
Reopened(u) ==
    [s \in DOMAIN session |->
        IF s = setup[u].by /\ session[s].reason = "item_complete"
        THEN [session[s] EXCEPT !.reason = "stop"] ELSE session[s]]

ReopenSetup(u) ==
    /\ setup[u].stage = "item_complete"
    /\ ~OpenSessionOf(u)
    /\ session' = Reopened(u)
    /\ setup' = [setup EXCEPT ![u] = [stage |-> "planned", by |-> 0]]
    /\ UNCHANGED <<downtime, breakdown>>

------------------------------------------------------------------------------
(* Sessions.                                                              *)

MayStart_IgnoresBreakdown == TRUE

\* Complete the open machine breakdown before starting production.
MayStart == BreakdownInProgress = {}

StartSession(u, t) ==
    /\ Len(session) < MaxSessions
    /\ Running(u)
    /\ \A s \in DOMAIN session : ~IsOpen(s)
    /\ TimeFree(0, t, Forever)
    /\ MayStart
    /\ session' = Append(session, [setup |-> u, start |-> t, end |-> Forever,
                                   reason |-> "none"])
    /\ UNCHANGED <<downtime, breakdown, setup>>

\* Shift Ends closes the downtime of an open breakdown with the session.
SettledByClose(s, reason) ==
    {d \in OpenDowntime(s) : /\ reason = "shift_end"
                             /\ downtime[d].task \in BreakdownInProgress}

WithinEnd_Open(dts, s, e) == \A d \in LiveIn(dts, s) : dts[d].end # Forever

\* No open downtime, and none that ends after the session.
WithinEnd(dts, s, e) == \A d \in LiveIn(dts, s) : dts[d].end <= e

CloseSession(s, e, reason) ==
    LET u == session[s].setup
        settled == SettledByClose(s, reason)
    IN  /\ IsOpen(s)
        /\ e >= session[s].start
        /\ TimeFree(s, session[s].start, e)
        /\ \A d \in settled : e > downtime[d].start
        /\ downtime' = [d \in DOMAIN downtime |->
              IF d \in settled
              THEN [downtime[d] EXCEPT !.end = e, !.outcome = "unresolved"]
              ELSE downtime[d]]
        /\ WithinEnd(downtime', s, e)
        /\ session' = [session EXCEPT ![s].end = e, ![s].reason = reason]
        /\ reason = "awaiting_material" => Running(u)
        /\ setup' = CASE reason = "item_complete" /\ Running(u) ->
                           [setup EXCEPT ![u] = [stage |-> "item_complete", by |-> s]]
                      [] reason = "awaiting_material" ->
                           [setup EXCEPT ![u].stage = "planned"]
                      [] OTHER -> setup
        /\ UNCHANGED breakdown

Superseded(s) == \E o \in DOMAIN session : Later(o, s)

\* correctProductionSession of a closed session to end e, reason and downtime
\* dts.  The corrected reason may complete or release the setup.
Corrected(s, e, reason, dts) ==
    LET u == session[s].setup
        old == session[s].reason
        completes == reason = "item_complete" /\ Running(u)
        releases == reason = "awaiting_material" /\ old # "awaiting_material"
    IN  /\ ~IsOpen(s)
        /\ old = "awaiting_material" => reason = old
        /\ releases => old # "item_complete" /\ Releasable(u)
        /\ e >= session[s].start
        /\ e # session[s].end => TimeFree(s, session[s].start, e)
        /\ WithinEnd(dts, s, e)
        /\ completes \/ releases => ~Superseded(s)
        /\ downtime' = dts
        /\ session' = [session EXCEPT ![s].end = e, ![s].reason = reason]
        /\ setup' = CASE completes ->
                           [setup EXCEPT ![u] = [stage |-> "item_complete", by |-> s]]
                      [] releases -> [setup EXCEPT ![u].stage = "planned"]
                      [] OTHER -> setup
        /\ UNCHANGED breakdown

CorrectEnd(s, e, reason) == Corrected(s, e, reason, downtime)

\* The downtime a correction may touch.
Correctable(s, d) ==
    /\ d \in Live(s)
    /\ downtime[d].end # Forever
    /\ downtime[d].outcome # "unresolved"
    /\ downtime[d].task = 0

EditDowntime(s, e, reason, d, from, to) ==
    /\ Correctable(s, d)
    /\ session[s].start <= from /\ from < to /\ to <= e
    /\ DowntimeFree(s, d, from, to)
    /\ Corrected(s, e, reason,
                 [downtime EXCEPT ![d].start = from, ![d].end = to])

ReverseDowntime(s, e, reason, d) ==
    /\ Correctable(s, d)
    /\ ~downtime[d].accident
    /\ Corrected(s, e, reason, [downtime EXCEPT ![d].reversed = TRUE])

\* The neighbours of s by start: the last not after it, the first not before.
Neighbours(s) ==
    LET others == DOMAIN session \ {s}
        before == {o \in others : session[o].start <= session[s].start}
        after == {o \in others : session[o].start >= session[s].start}
    IN  {o \in before : \A p \in before \ {o} : Later(o, p)}
            \union {o \in after : \A p \in after \ {o} : Later(p, o)}

\* The corrected start would overlap or change the order of machine sessions.
Reorders(s, n, t) ==
    IF session[n].start <= session[s].start
    THEN IsOpen(n) \/ t < session[n].end
    ELSE t >= session[n].start \/ session[s].end > session[n].start

CorrectStart(s, t) ==
    /\ t # session[s].start
    /\ t <= session[s].end
    /\ \A n \in Neighbours(s) : ~Reorders(s, n, t)
    /\ TimeFree(s, t, session[s].end)
    /\ \A d \in Live(s) : downtime[d].start >= t
    /\ session' = [session EXCEPT ![s].start = t]
    /\ UNCHANGED <<downtime, breakdown, setup>>

------------------------------------------------------------------------------
(* Downtime.                                                              *)

NewDowntime(s, from) ==
    [session |-> s, start |-> from, end |-> Forever, outcome |-> "none",
     carryResolved |-> FALSE, accident |-> FALSE, task |-> 0,
     reversed |-> FALSE]

AddDowntime(d) ==
    /\ Len(downtime) < MaxDowntimes
    /\ downtime' = Append(downtime, d)

\* A bounded interval, entered during the session or as a correction of it.
RecordDowntime(s, from, to) ==
    /\ session[s].start <= from /\ from < to
    /\ IsOpen(s) \/ to <= session[s].end
    /\ DowntimeFree(s, 0, from, to)
    /\ AddDowntime([NewDowntime(s, from) EXCEPT !.end = to, !.outcome = "resolved"])
    /\ UNCHANGED <<session, breakdown, setup>>

\* The unique index on open downtime refuses a second one.  Nothing compares
\* the start with downtime that has ended.
StartDowntime(s, from, accident) ==
    /\ IsOpen(s)
    /\ from >= session[s].start
    /\ OpenDowntime(s) = {}
    /\ AddDowntime([NewDowntime(s, from) EXCEPT !.accident = accident])
    /\ UNCHANGED <<session, breakdown, setup>>

\* This machine's part of a bulk breakdown.
StartBulkDowntime(s, from) ==
    /\ IsOpen(s)
    /\ from >= session[s].start
    /\ \A d \in Live(s) : downtime[d].end <= from
    /\ AddDowntime(NewDowntime(s, from))
    /\ UNCHANGED <<session, breakdown, setup>>

EndDowntime(s, to, outcome) ==
    /\ \E d \in OpenDowntime(s) :
          /\ to > downtime[d].start
          /\ downtime' = [downtime EXCEPT ![d].end = to, ![d].outcome = outcome]
    /\ UNCHANGED <<session, breakdown, setup>>

ResolveCarried(d, t) ==
    /\ downtime[d].outcome = "unresolved"
    /\ ~downtime[d].reversed
    /\ ~downtime[d].carryResolved
    /\ t >= downtime[d].end
    /\ downtime' = [downtime EXCEPT ![d].carryResolved = TRUE]
    /\ UNCHANGED <<session, breakdown, setup>>

------------------------------------------------------------------------------
(* Machine breakdowns (maintenance.ts).                                   *)

StartBreakdown(t) ==
    /\ Len(breakdown) < MaxBreakdowns
    /\ BreakdownInProgress = {}
    /\ breakdown' = Append(breakdown, [start |-> t, done |-> FALSE])
    /\ \/ /\ \A s \in DOMAIN session : ~IsOpen(s)
          /\ UNCHANGED downtime
       \/ \E s \in DOMAIN session :
             /\ IsOpen(s)
             /\ t >= session[s].start
             /\ OpenDowntime(s) = {}
             /\ AddDowntime([NewDowntime(s, t) EXCEPT !.task = Len(breakdown) + 1])
    /\ UNCHANGED <<session, setup>>

Linked(k) == {d \in DOMAIN downtime : downtime[d].task = k /\ ~downtime[d].reversed}

Repaired_OpenOnly(d, t) ==
    IF downtime[d].end = Forever
    THEN [downtime[d] EXCEPT !.end = t, !.outcome = "resolved"]
    ELSE downtime[d]

\* The repair ends the linked downtime, or resolves what was carried.
Repaired(d, t) ==
    IF downtime[d].end = Forever
    THEN [downtime[d] EXCEPT !.end = t, !.outcome = "resolved"]
    ELSE [downtime[d] EXCEPT !.carryResolved = @ \/ downtime[d].outcome = "unresolved"]

CompleteBreakdown(k, t) ==
    /\ k \in BreakdownInProgress
    /\ t > breakdown[k].start
    /\ \A d \in Linked(k) : downtime[d].end = Forever => t > downtime[d].start
    /\ downtime' = [d \in DOMAIN downtime |->
                      IF d \in Linked(k) THEN Repaired(d, t) ELSE downtime[d]]
    /\ breakdown' = [breakdown EXCEPT ![k].done = TRUE]
    /\ UNCHANGED <<session, setup>>

------------------------------------------------------------------------------
ShopFloor ==
    \E u \in Setups :
        \/ StartMachine(u)
        \/ FinishSetup(u)
        \/ ReleaseSetup(u)
        \/ ReopenSetup(u)
        \/ \E t \in Time : StartSession(u, t)

Correct(s) ==
    \/ \E t \in Time : CorrectStart(s, t)
    \/ \E e \in Time, reason \in EndReason :
          \/ CorrectEnd(s, e, reason)
          \/ \E d \in DOMAIN downtime :
                \/ ReverseDowntime(s, e, reason, d)
                \/ \E from, to \in Time : EditDowntime(s, e, reason, d, from, to)

RunSession(s) ==
    \/ \E e \in Time, reason \in EndReason : CloseSession(s, e, reason)
    \/ \E from, to \in Time : RecordDowntime(s, from, to)
    \/ \E from \in Time, accident \in BOOLEAN : StartDowntime(s, from, accident)
    \/ \E from \in Time : StartBulkDowntime(s, from)
    \/ \E to \in Time, outcome \in {"resolved", "unresolved"} :
          EndDowntime(s, to, outcome)

Next ==
    \/ ShopFloor
    \/ \E s \in DOMAIN session : RunSession(s) \/ Correct(s)
    \/ \E d \in DOMAIN downtime, t \in Time : ResolveCarried(d, t)
    \/ \E t \in Time : StartBreakdown(t)
    \/ \E k \in DOMAIN breakdown, t \in Time : CompleteBreakdown(k, t)

Spec == Init /\ [][Next]_vars

------------------------------------------------------------------------------
\* No session starts inside another one: whatever is started late, closed,
\* stretched or moved afterwards, the closed sessions of a machine that took
\* any time never overlap (docs/glossary/production-sessions.md:399-400).
SessionsDisjoint ==
    \A s, o \in DOMAIN session :
        /\ s # o
        /\ session[s].end > session[s].start
        /\ ~IsOpen(o)
        => ~ (session[o].start <= session[s].start /\ session[s].start < session[o].end)

\* Live downtime stays inside its session although starts, ends and downtime
\* are corrected separately; so a closed session has no open downtime.
DowntimeInsideSession ==
    \A s \in DOMAIN session : \A d \in Live(s) :
        /\ downtime[d].start >= session[s].start
        /\ ~IsOpen(s) => downtime[d].end <= session[s].end

\* While a breakdown is in progress, an open session is one that it stopped:
\* the session carries a downtime of that breakdown.
BreakdownStopsSession ==
    \A k \in BreakdownInProgress, s \in DOMAIN session :
        IsOpen(s) => \E d \in Live(s) : downtime[d].task = k

\* A completed breakdown leaves neither open nor unresolved carried downtime,
\* even when the shift ended or the downtime was closed in between.
RepairSettlesDowntime ==
    \A k \in DOMAIN breakdown : breakdown[k].done =>
        \A d \in Linked(k) :
            /\ downtime[d].end # Forever
            /\ downtime[d].outcome = "unresolved" => downtime[d].carryResolved
=============================================================================
