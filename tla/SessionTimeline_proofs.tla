----------------------- MODULE SessionTimeline_proofs -----------------------
(***************************************************************************)
(* The timeline is consistent for any number of setups, sessions,         *)
(* downtimes, breakdowns and instants.                                    *)
(***************************************************************************)
EXTENDS SessionTimeline, SequenceTheorems, TLAPS

\* Downtime belongs to an existing session and to an existing breakdown, and
\* the machine runs one session at a time.
LinksOK ==
    /\ \A d \in DOMAIN downtime :
          /\ downtime[d].session \in DOMAIN session
          /\ downtime[d].task \in 0 .. Len(breakdown)
    /\ \A s, o \in DOMAIN session : IsOpen(s) /\ IsOpen(o) => s = o

IInv ==
    /\ TypeOK
    /\ LinksOK
    /\ SessionsDisjoint
    /\ DowntimeInsideSession
    /\ BreakdownStopsSession
    /\ RepairSettlesDowntime

------------------------------------------------------------------------------
(* Sequences as functions.                                                *)

\* A sequence is a function on 1 .. Len(q).
LEMMA SeqAsFunction ==
    ASSUME NEW S, NEW q \in Seq(S)
    PROVE  /\ Len(q) \in Nat
           /\ DOMAIN q = 1 .. Len(q)
           /\ q \in [1 .. Len(q) -> S]
BY LenProperties

\* A function on 1 .. n is a sequence.
LEMMA FunctionAsSeq ==
    ASSUME NEW S, NEW n \in Nat, NEW f \in [1 .. n -> S]
    PROVE  f \in Seq(S) /\ Len(f) = n
<1>1. f \in Seq(S)
  BY SeqDef
<1>2. DOMAIN f = 1 .. Len(f) /\ Len(f) \in Nat
  BY <1>1, LenProperties
<1> QED BY <1>1, <1>2

\* The instants are 0 .. MaxTime, and Forever comes after them.
LEMMA Instants ==
    /\ Time \subseteq Nat
    /\ Forever \in Nat
    /\ \A t \in Time : t < Forever
BY ConstantsAssumption DEF Time, Forever

\* A start or an end is an instant or Forever.
LEMMA AnInstant ==
    ASSUME NEW t \in Time \union {Forever}
    PROVE  t \in Nat /\ t <= Forever /\ (t # Forever => t \in Time /\ t < Forever)
BY ConstantsAssumption DEF Time, Forever

\* What the type invariant says of single rows.
LEMMA Rows ==
    ASSUME TypeOK
    PROVE  /\ DOMAIN session = 1 .. Len(session) /\ Len(session) \in 0 .. MaxSessions
           /\ session \in [1 .. Len(session) -> Session]
           /\ DOMAIN downtime = 1 .. Len(downtime) /\ Len(downtime) \in 0 .. MaxDowntimes
           /\ downtime \in [1 .. Len(downtime) -> Downtime]
           /\ DOMAIN breakdown = 1 .. Len(breakdown) /\ Len(breakdown) \in 0 .. MaxBreakdowns
           /\ breakdown \in [1 .. Len(breakdown) -> Breakdown]
BY SeqAsFunction, ConstantsAssumption DEF TypeOK

------------------------------------------------------------------------------
(* Sessions do not overlap.                                               *)

\* One session takes another interval that TimeFree allows, the others keep
\* theirs.
LEMMA MovedSession ==
    ASSUME TypeOK, TypeOK', SessionsDisjoint, DOMAIN session' = DOMAIN session,
           NEW s \in DOMAIN session,
           \A o \in DOMAIN session \ {s} :
              session'[o].start = session[o].start /\ session'[o].end = session[o].end,
           \/ /\ session'[s].start = session[s].start
              /\ session'[s].end = session[s].end
           \/ TimeFree(s, session'[s].start, session'[s].end)
    PROVE  SessionsDisjoint'
<1> DEFINE Clear(a, b) == /\ session'[a].end > session'[a].start
                          /\ session'[b].end # Forever
                          => ~ /\ session'[b].start <= session'[a].start
                               /\ session'[a].start < session'[b].end
<1>a. session \in [1 .. Len(session) -> Session] /\ DOMAIN session = 1 .. Len(session)
  BY SeqAsFunction DEF TypeOK
<1>b. session' \in [1 .. Len(session') -> Session] /\ DOMAIN session' = 1 .. Len(session')
  BY SeqAsFunction DEF TypeOK
<1>0. \A o \in DOMAIN session : /\ session[o].start \in Time
                                /\ session[o].end \in Time \union {Forever}
                                /\ session'[o].start \in Time
                                /\ session'[o].end \in Time \union {Forever}
                                /\ session[o].end >= session[o].start
                                /\ session'[o].end >= session'[o].start
  <2>1. \A o \in DOMAIN session : session[o] \in Session /\ session'[o] \in Session
    BY <1>a, <1>b
  <2>2. \A o \in DOMAIN session : /\ session[o].end >= session[o].start
                                  /\ session'[o].end >= session'[o].start
    BY DEF TypeOK
  <2> QED BY <2>1, <2>2 DEF Session
<1>1. ASSUME NEW a \in DOMAIN session, NEW b \in DOMAIN session, a # b, a # s, b # s
      PROVE  Clear(a, b)
  BY <1>0, <1>1 DEF SessionsDisjoint, IsOpen
<1>2. ASSUME NEW o \in DOMAIN session, o # s
      PROVE  Clear(s, o) /\ Clear(o, s)
  <2>1. CASE session'[s].start = session[s].start /\ session'[s].end = session[s].end
    BY <1>0, <1>2, <2>1 DEF SessionsDisjoint, IsOpen
  <2>2. CASE TimeFree(s, session'[s].start, session'[s].end)
    <3>1. /\ session'[s].start \in Nat /\ session'[s].end \in Nat
          /\ session[o].start \in Nat /\ session[o].end \in Nat
          /\ session'[s].start < Forever
      BY <1>0, <1>2, Instants
    <3>2. ~ /\ session[o].end > session[o].start
            /\ session[o].end > session'[s].start
            /\ IF session'[s].end = Forever THEN session[o].start <= session'[s].start
               ELSE /\ session[o].start < session'[s].end
                    /\ session'[s].start < session'[s].end
      BY <1>2, <2>2 DEF TimeFree
    <3>3. session'[o].start = session[o].start /\ session'[o].end = session[o].end
      BY <1>2
    <3> QED BY <3>1, <3>2, <3>3
  <2> QED BY <2>1, <2>2
<1> QED BY <1>1, <1>2 DEF SessionsDisjoint, IsOpen

------------------------------------------------------------------------------
(* Rows.                                                                  *)

\* One row of production_sessions.
LEMMA SessionRow ==
    ASSUME TypeOK, NEW s \in DOMAIN session
    PROVE  /\ session[s] \in Session
           /\ session[s].start \in Nat /\ session[s].end \in Nat
           /\ session[s].start \in Time
           /\ session[s].start <= session[s].end
           /\ session[s].start < Forever /\ session[s].end <= Forever
<1>1. session[s] \in Session
  BY Rows
<1>2. session[s].start \in Time /\ session[s].end \in Time \union {Forever}
  BY <1>1 DEF Session
<1>3. session[s].start <= session[s].end
  BY DEF TypeOK
<1>4. /\ session[s].end \in Nat /\ session[s].end <= Forever
      /\ session[s].start \in Nat /\ session[s].start < Forever
  BY <1>2, AnInstant, Instants
<1> QED BY <1>1, <1>2, <1>3, <1>4

\* One row of production_session_downtime_events.
LEMMA DowntimeRow ==
    ASSUME TypeOK, NEW d \in DOMAIN downtime
    PROVE  /\ downtime[d] \in Downtime
           /\ downtime[d].start \in Nat /\ downtime[d].end \in Nat
           /\ downtime[d].start \in Time /\ downtime[d].end <= Forever
           /\ downtime[d].start < downtime[d].end
<1>1. downtime[d] \in Downtime
  BY Rows
<1>2. downtime[d].start \in Time /\ downtime[d].end \in Time \union {Forever}
  BY <1>1 DEF Downtime
<1>3. /\ downtime[d].end \in Nat /\ downtime[d].end <= Forever
      /\ downtime[d].start \in Nat
  BY <1>2, AnInstant, Instants
<1>4. downtime[d].end > downtime[d].start
  BY DEF TypeOK
<1> QED BY <1>1, <1>2, <1>3, <1>4

\* Inserting a row leaves the others as they are.
LEMMA AppendRow ==
    ASSUME NEW S, NEW q \in Seq(S), NEW e \in S
    PROVE  /\ Append(q, e) \in Seq(S)
           /\ Len(q) \in Nat /\ DOMAIN q = 1 .. Len(q)
           /\ Len(Append(q, e)) = Len(q) + 1
           /\ DOMAIN Append(q, e) = 1 .. (Len(q) + 1)
           /\ \A i \in 1 .. Len(q) : Append(q, e)[i] = q[i]
           /\ Append(q, e)[Len(q) + 1] = e
<1>1. /\ Append(q, e) \in Seq(S)
      /\ Len(Append(q, e)) = Len(q) + 1
      /\ \A i \in 1 .. Len(q) : Append(q, e)[i] = q[i]
      /\ Append(q, e)[Len(q) + 1] = e
  BY AppendProperties
<1>2. Len(q) \in Nat /\ DOMAIN q = 1 .. Len(q)
  BY SeqAsFunction
<1>3. DOMAIN Append(q, e) = 1 .. Len(Append(q, e))
  BY <1>1, SeqAsFunction
<1> QED BY <1>1, <1>2, <1>3

\* A session that is open has an end that no downtime passes.
LEMMA OpenEnd ==
    ASSUME TypeOK, LinksOK, DowntimeInsideSession,
           NEW d \in DOMAIN downtime, ~downtime[d].reversed,
           downtime[d].end = Forever
    PROVE  IsOpen(downtime[d].session)
<1> DEFINE s == downtime[d].session
<1>1. s \in DOMAIN session /\ d \in Live(s)
  BY DEF LinksOK, Live, LiveIn
<1>2. session[s] \in Session
  BY <1>1, SessionRow
<1>3. ~IsOpen(s) => session[s].end \in Time
  BY <1>2 DEF Session, IsOpen
<1>4. ~IsOpen(s) => downtime[d].end <= session[s].end
  BY <1>1 DEF DowntimeInsideSession
<1>5. session[s].end \in Time => session[s].end \in Nat /\ session[s].end < Forever
  BY Instants
<1> QED BY <1>3, <1>4, <1>5, Instants

------------------------------------------------------------------------------
(* Steps that change no session.                                          *)

\* Stages, completions and releases touch no row of a session.
LEMMA SetupStep ==
    ASSUME IInv, UNCHANGED <<session, downtime, breakdown>>,
           setup' \in [Setups -> Setup]
    PROVE  IInv'
BY DEF IInv, TypeOK, LinksOK, SessionsDisjoint, DowntimeInsideSession,
       BreakdownStopsSession, RepairSettlesDowntime, IsOpen, Live, LiveIn,
       BreakdownInProgress, Linked

\* Another downtime is recorded, perhaps together with the breakdown that
\* causes it.
LEMMA AddedDowntime ==
    ASSUME IInv, NEW row \in Downtime, AddDowntime(row),
           row.end > row.start,
           row.session \in DOMAIN session,
           row.start >= session[row.session].start,
           IsOpen(row.session) \/ row.end <= session[row.session].end,
           UNCHANGED <<session, setup>>,
           breakdown' \in Seq(Breakdown), Len(breakdown') <= MaxBreakdowns,
           Len(breakdown) <= Len(breakdown'),
           row.task \in 0 .. Len(breakdown')
    PROVE  TypeOK' /\ LinksOK' /\ SessionsDisjoint' /\ DowntimeInsideSession'
<1> DEFINE n == Len(downtime)
<1>1. /\ downtime' \in Seq(Downtime) /\ Len(downtime') = n + 1
      /\ DOMAIN downtime' = 1 .. (n + 1) /\ DOMAIN downtime = 1 .. n /\ n \in Nat
      /\ \A i \in 1 .. n : downtime'[i] = downtime[i]
      /\ downtime'[n + 1] = row
  BY AppendRow DEF IInv, TypeOK, AddDowntime
<1>2. \A d \in DOMAIN downtime' : d = n + 1 \/ d \in DOMAIN downtime
  BY <1>1
<1>3. TypeOK'
  <2>1. Len(downtime') <= MaxDowntimes
    BY <1>1, ConstantsAssumption DEF AddDowntime
  <2>2. \A d \in DOMAIN downtime' : downtime'[d].end > downtime'[d].start
    BY <1>1, <1>2 DEF IInv, TypeOK
  <2> QED BY <1>1, <2>1, <2>2 DEF IInv, TypeOK
<1>4. LinksOK'
  <2>1. Len(breakdown) \in Nat /\ Len(breakdown') \in Nat
    BY SeqAsFunction DEF IInv, TypeOK
  <2>2. \A d \in DOMAIN downtime : downtime[d].task \in 0 .. Len(breakdown')
    BY <2>1 DEF IInv, LinksOK
  <2> QED BY <1>1, <1>2, <2>2 DEF IInv, LinksOK, IsOpen
<1>5. SessionsDisjoint'
  BY DEF IInv, SessionsDisjoint, IsOpen
<1>6. DowntimeInsideSession'
  <2>1. ASSUME NEW s \in DOMAIN session, NEW d \in Live(s)'
        PROVE  /\ downtime'[d].start >= session[s].start
               /\ ~IsOpen(s) => downtime'[d].end <= session[s].end
    <3>1. CASE d = n + 1
      BY <1>1, <2>1, <3>1 DEF Live, LiveIn
    <3>2. CASE d \in DOMAIN downtime
      <4>1. d \in Live(s) /\ downtime'[d] = downtime[d]
        BY <1>1, <2>1, <3>2 DEF Live, LiveIn
      <4> QED BY <4>1 DEF IInv, DowntimeInsideSession
    <3> QED BY <1>2, <2>1, <3>1, <3>2 DEF Live, LiveIn
  <2> QED BY <2>1 DEF DowntimeInsideSession, IsOpen
<1> QED BY <1>3, <1>4, <1>5, <1>6

\* The row that AddDowntime appends.
LEMMA AppendedDowntime ==
    ASSUME TypeOK, NEW row \in Downtime, AddDowntime(row)
    PROVE  LET n == Len(downtime) IN
           /\ n \in Nat /\ DOMAIN downtime = 1 .. n
           /\ DOMAIN downtime' = 1 .. (n + 1)
           /\ \A i \in 1 .. n : downtime'[i] = downtime[i]
           /\ downtime'[n + 1] = row
           /\ \A d \in DOMAIN downtime' : d = n + 1 \/ d \in DOMAIN downtime
<1>1. LET n == Len(downtime) IN
      /\ n \in Nat /\ DOMAIN downtime = 1 .. n
      /\ DOMAIN downtime' = 1 .. (n + 1)
      /\ \A i \in 1 .. n : downtime'[i] = downtime[i]
      /\ downtime'[n + 1] = row
  BY AppendRow DEF TypeOK, AddDowntime
<1> QED BY <1>1

\* Downtime entered for a session says nothing about breakdowns.
LEMMA EnteredDowntime ==
    ASSUME IInv, NEW row \in Downtime, AddDowntime(row),
           row.end > row.start, row.task = 0,
           row.session \in DOMAIN session,
           row.start >= session[row.session].start,
           IsOpen(row.session) \/ row.end <= session[row.session].end,
           UNCHANGED <<session, breakdown, setup>>
    PROVE  IInv'
<1>1. Len(breakdown) \in Nat /\ DOMAIN breakdown = 1 .. Len(breakdown)
  BY SeqAsFunction DEF IInv, TypeOK
<1>2. TypeOK' /\ LinksOK' /\ SessionsDisjoint' /\ DowntimeInsideSession'
  <2>1. /\ breakdown' \in Seq(Breakdown) /\ Len(breakdown') <= MaxBreakdowns
        /\ Len(breakdown) <= Len(breakdown') /\ row.task \in 0 .. Len(breakdown')
    BY <1>1 DEF IInv, TypeOK
  <2> QED BY <2>1, AddedDowntime
<1>3. LET n == Len(downtime) IN
      /\ n \in Nat /\ DOMAIN downtime = 1 .. n
      /\ DOMAIN downtime' = 1 .. (n + 1)
      /\ \A i \in 1 .. n : downtime'[i] = downtime[i]
      /\ downtime'[n + 1] = row
      /\ \A d \in DOMAIN downtime' : d = n + 1 \/ d \in DOMAIN downtime
  BY AppendedDowntime DEF IInv
<1>4. BreakdownStopsSession'
  <2>1. \A s \in DOMAIN session : Live(s) \subseteq Live(s)'
    BY <1>3 DEF Live, LiveIn
  <2>2. \A d \in DOMAIN downtime : downtime'[d] = downtime[d]
    BY <1>3
  <2>3. \A s \in DOMAIN session : \A d \in Live(s) : d \in DOMAIN downtime
    BY DEF Live, LiveIn
  <2> QED BY <2>1, <2>2, <2>3
          DEF IInv, BreakdownStopsSession, BreakdownInProgress, IsOpen
<1>5. RepairSettlesDowntime'
  <2>1. ASSUME NEW k \in DOMAIN breakdown, NEW d \in Linked(k)'
        PROVE  d \in Linked(k) /\ downtime'[d] = downtime[d]
    BY <1>1, <1>3, <2>1 DEF Linked
  <2> QED BY <2>1 DEF IInv, RepairSettlesDowntime
<1> QED BY <1>2, <1>4, <1>5 DEF IInv

\* An open downtime row that a session may get.
LEMMA NewDowntimeRow ==
    ASSUME TypeOK, LinksOK, NEW s \in DOMAIN session, NEW from \in Time
    PROVE  /\ s \in 1 .. MaxSessions
           /\ NewDowntime(s, from) \in Downtime
           /\ NewDowntime(s, from).end > from
<1>1. s \in 1 .. MaxSessions
  BY Rows, ConstantsAssumption
<1>2. 0 \in 0 .. MaxBreakdowns
  BY ConstantsAssumption
<1>3. Forever > from
  BY Instants
<1> QED BY <1>1, <1>2, <1>3 DEF NewDowntime, Downtime

\* recordProductionSessionDowntime.
LEMMA RecordDowntimeStep ==
    ASSUME IInv, NEW s \in DOMAIN session, NEW from \in Time, NEW to \in Time,
           RecordDowntime(s, from, to)
    PROVE  IInv'
<1> DEFINE row == [NewDowntime(s, from) EXCEPT !.end = to, !.outcome = "resolved"]
<1>1. row \in Downtime
  BY NewDowntimeRow DEF IInv, Downtime, NewDowntime
<1>2. row.session = s /\ row.start = from /\ row.end = to /\ row.task = 0
  BY DEF NewDowntime
<1>3. from \in Nat /\ to \in Nat
  BY Instants
<1> HIDE DEF row
<1>4. /\ AddDowntime(row) /\ from < to /\ session[s].start <= from
      /\ IsOpen(s) \/ to <= session[s].end
      /\ UNCHANGED <<session, breakdown, setup>>
  BY DEF RecordDowntime, row
<1>5. session[s].start \in Nat
  BY SessionRow DEF IInv
<1> QED BY <1>1, <1>2, <1>3, <1>4, <1>5, EnteredDowntime

\* startProductionSessionDowntime and the bulk breakdown.
LEMMA StartDowntimeStep ==
    ASSUME IInv, NEW s \in DOMAIN session, NEW from \in Time,
           NEW accident \in BOOLEAN,
           StartDowntime(s, from, accident) \/ StartBulkDowntime(s, from)
    PROVE  IInv'
<1>1. ASSUME NEW row, row \in {NewDowntime(s, from),
                               [NewDowntime(s, from) EXCEPT !.accident = accident]}
      PROVE  /\ row \in Downtime /\ row.session = s /\ row.start = from
             /\ row.task = 0 /\ row.end > row.start
  <2>1. /\ NewDowntime(s, from) \in Downtime
        /\ NewDowntime(s, from).end > from
    BY NewDowntimeRow DEF IInv
  <2>2. CASE row = NewDowntime(s, from)
    BY <2>1, <2>2 DEF NewDowntime
  <2>3. CASE row = [NewDowntime(s, from) EXCEPT !.accident = accident]
    BY <2>1, <2>3 DEF NewDowntime, Downtime
  <2> QED BY <1>1, <2>2, <2>3
<1>2. PICK row \in {NewDowntime(s, from),
                    [NewDowntime(s, from) EXCEPT !.accident = accident]} :
         AddDowntime(row)
  BY DEF StartDowntime, StartBulkDowntime
<1>3. IsOpen(s) /\ from >= session[s].start /\ UNCHANGED <<session, breakdown, setup>>
  BY DEF StartDowntime, StartBulkDowntime
<1> QED BY <1>1, <1>2, <1>3, EnteredDowntime

\* Downtime ends or changes its outcome; neither its start nor what it belongs
\* to changes.
LEMMA ChangedDowntime ==
    ASSUME IInv, downtime' \in [DOMAIN downtime -> Downtime],
           UNCHANGED <<session, setup>>,
           breakdown' \in [DOMAIN breakdown -> Breakdown],
           \A d \in DOMAIN downtime :
              /\ downtime'[d].session = downtime[d].session
              /\ downtime'[d].start = downtime[d].start
              /\ downtime'[d].task = downtime[d].task
              /\ downtime'[d].reversed = downtime[d].reversed
              /\ \/ downtime'[d].end = downtime[d].end
                 \/ /\ ~downtime[d].reversed
                    /\ downtime[d].end = Forever
                    /\ downtime'[d].end > downtime[d].start
    PROVE  /\ TypeOK' /\ LinksOK' /\ SessionsDisjoint' /\ DowntimeInsideSession'
           /\ \A s \in DOMAIN session : Live(s)' = Live(s)
           /\ \A k : Linked(k)' = Linked(k)
           /\ Len(breakdown') = Len(breakdown)
           /\ DOMAIN downtime' = DOMAIN downtime
<1>1. /\ DOMAIN downtime' = DOMAIN downtime
      /\ downtime' \in Seq(Downtime) /\ Len(downtime') = Len(downtime)
  BY SeqAsFunction, FunctionAsSeq DEF IInv, TypeOK
<1>2. /\ DOMAIN breakdown' = DOMAIN breakdown
      /\ breakdown' \in Seq(Breakdown) /\ Len(breakdown') = Len(breakdown)
  BY SeqAsFunction, FunctionAsSeq DEF IInv, TypeOK
<1>3. TypeOK'
  <2>1. \A d \in DOMAIN downtime' : downtime'[d].end > downtime'[d].start
    BY <1>1 DEF IInv, TypeOK
  <2> QED BY <1>1, <1>2, <2>1 DEF IInv, TypeOK
<1>4. LinksOK'
  BY <1>1, <1>2 DEF IInv, LinksOK, IsOpen
<1>5. SessionsDisjoint'
  BY DEF IInv, SessionsDisjoint, IsOpen
<1>6. \A s \in DOMAIN session : Live(s)' = Live(s)
  BY <1>1 DEF Live, LiveIn
<1>7. \A k : Linked(k)' = Linked(k)
  BY <1>1 DEF Linked
<1>8. DowntimeInsideSession'
  <2>1. ASSUME NEW s \in DOMAIN session, NEW d \in Live(s)
        PROVE  /\ downtime'[d].start >= session[s].start
               /\ ~IsOpen(s) => downtime'[d].end <= session[s].end
    <3>1. d \in DOMAIN downtime /\ downtime[d].session = s /\ ~downtime[d].reversed
      BY DEF Live, LiveIn
    <3>2. downtime[d].end = Forever => IsOpen(s)
      BY <3>1, OpenEnd DEF IInv
    <3> QED BY <3>1, <3>2 DEF IInv, DowntimeInsideSession
  <2> QED BY <1>6, <2>1 DEF DowntimeInsideSession, IsOpen
<1> QED BY <1>1, <1>2, <1>3, <1>4, <1>5, <1>6, <1>7, <1>8

\* endProductionSessionDowntime.
LEMMA EndDowntimeStep ==
    ASSUME IInv, NEW s \in DOMAIN session, NEW to \in Time,
           NEW outcome \in {"resolved", "unresolved"},
           EndDowntime(s, to, outcome)
    PROVE  IInv'
<1>1. PICK c \in OpenDowntime(s) :
         /\ to > downtime[c].start
         /\ downtime' = [downtime EXCEPT ![c].end = to, ![c].outcome = outcome]
  BY DEF EndDowntime
<1>2. /\ c \in DOMAIN downtime /\ ~downtime[c].reversed
      /\ downtime[c].end = Forever /\ downtime[c].session = s
  BY DEF OpenDowntime, Live, LiveIn
<1>3. downtime \in [DOMAIN downtime -> Downtime]
  BY Rows DEF IInv
<1>4. downtime' \in [DOMAIN downtime -> Downtime]
  BY <1>1, <1>2, <1>3 DEF Downtime
<1>5. \A d \in DOMAIN downtime \ {c} : downtime'[d] = downtime[d]
  BY <1>1, <1>3
<1>6. downtime'[c] = [downtime[c] EXCEPT !.end = to, !.outcome = outcome]
  BY <1>1, <1>2, <1>3
<1>7. /\ downtime'[c].session = downtime[c].session
      /\ downtime'[c].start = downtime[c].start
      /\ downtime'[c].task = downtime[c].task
      /\ downtime'[c].reversed = downtime[c].reversed
      /\ downtime'[c].end > downtime[c].start
  BY <1>1, <1>2, <1>3, <1>6 DEF Downtime
<1>8. breakdown \in [DOMAIN breakdown -> Breakdown]
  BY Rows DEF IInv
<1>9. UNCHANGED <<session, breakdown, setup>>
  BY DEF EndDowntime
<1>10. /\ TypeOK' /\ LinksOK' /\ SessionsDisjoint' /\ DowntimeInsideSession'
       /\ \A t \in DOMAIN session : Live(t)' = Live(t)
       /\ \A k : Linked(k)' = Linked(k)
  <2>1. \A d \in DOMAIN downtime :
          /\ downtime'[d].session = downtime[d].session
          /\ downtime'[d].start = downtime[d].start
          /\ downtime'[d].task = downtime[d].task
          /\ downtime'[d].reversed = downtime[d].reversed
          /\ \/ downtime'[d].end = downtime[d].end
             \/ /\ ~downtime[d].reversed
                /\ downtime[d].end = Forever
                /\ downtime'[d].end > downtime[d].start
    BY <1>2, <1>5, <1>7
  <2> QED BY <1>4, <1>8, <1>9, <2>1, ChangedDowntime
<1>11. \A d \in DOMAIN downtime : downtime'[d].task = downtime[d].task
  BY <1>5, <1>7
<1>12. BreakdownStopsSession'
  BY <1>9, <1>10, <1>11
     DEF IInv, BreakdownStopsSession, BreakdownInProgress, IsOpen, Live, LiveIn
<1>13. RepairSettlesDowntime'
  <2>1. ASSUME NEW k \in DOMAIN breakdown, breakdown[k].done, NEW d \in Linked(k)
        PROVE  downtime'[d] = downtime[d]
    BY <1>2, <1>5, <2>1 DEF IInv, RepairSettlesDowntime, Linked
  <2> QED BY <1>9, <1>10, <2>1 DEF IInv, RepairSettlesDowntime
<1> QED BY <1>10, <1>12, <1>13 DEF IInv

\* Resolving a carried downtime.
LEMMA ResolveCarriedStep ==
    ASSUME IInv, NEW c \in DOMAIN downtime, NEW t \in Time, ResolveCarried(c, t)
    PROVE  IInv'
<1>1. downtime \in [DOMAIN downtime -> Downtime]
  BY Rows DEF IInv
<1>2. /\ downtime' = [downtime EXCEPT ![c].carryResolved = TRUE]
      /\ UNCHANGED <<session, breakdown, setup>>
  BY DEF ResolveCarried
<1>3. downtime' \in [DOMAIN downtime -> Downtime]
  BY ZenonT(60), <1>1, <1>2 DEF Downtime
<1>4. \A d \in DOMAIN downtime :
        /\ downtime'[d].session = downtime[d].session
        /\ downtime'[d].start = downtime[d].start
        /\ downtime'[d].task = downtime[d].task
        /\ downtime'[d].reversed = downtime[d].reversed
        /\ downtime'[d].end = downtime[d].end
        /\ downtime'[d].outcome = downtime[d].outcome
        /\ downtime[d].carryResolved => downtime'[d].carryResolved
  BY <1>1, <1>2 DEF Downtime
<1>5. breakdown \in [DOMAIN breakdown -> Breakdown]
  BY Rows DEF IInv
<1>6. /\ TypeOK' /\ LinksOK' /\ SessionsDisjoint' /\ DowntimeInsideSession'
      /\ \A u \in DOMAIN session : Live(u)' = Live(u)
      /\ \A k : Linked(k)' = Linked(k)
  BY <1>2, <1>3, <1>4, <1>5, ChangedDowntime
<1>7. BreakdownStopsSession'
  BY <1>2, <1>4, <1>6
     DEF IInv, BreakdownStopsSession, BreakdownInProgress, IsOpen, Live, LiveIn
<1>8. RepairSettlesDowntime'
  BY <1>2, <1>4, <1>6 DEF IInv, RepairSettlesDowntime, Linked
<1> QED BY <1>6, <1>7, <1>8 DEF IInv

\* The repair settles every downtime linked to the breakdown.
LEMMA CompleteBreakdownStep ==
    ASSUME IInv, NEW b \in DOMAIN breakdown, NEW t \in Time,
           CompleteBreakdown(b, t)
    PROVE  IInv'
<1>1. /\ b \in BreakdownInProgress
      /\ \A d \in Linked(b) : downtime[d].end = Forever => t > downtime[d].start
      /\ downtime' = [d \in DOMAIN downtime |->
                        IF d \in Linked(b) THEN Repaired(d, t) ELSE downtime[d]]
      /\ breakdown' = [breakdown EXCEPT ![b].done = TRUE]
      /\ UNCHANGED <<session, setup>>
  BY DEF CompleteBreakdown
<1>2. downtime \in [DOMAIN downtime -> Downtime] /\ breakdown \in [DOMAIN breakdown -> Breakdown]
  BY Rows DEF IInv
<1>3. ASSUME NEW d \in DOMAIN downtime
      PROVE  /\ Repaired(d, t) \in Downtime
             /\ Repaired(d, t).session = downtime[d].session
             /\ Repaired(d, t).start = downtime[d].start
             /\ Repaired(d, t).task = downtime[d].task
             /\ Repaired(d, t).reversed = downtime[d].reversed
             /\ Repaired(d, t).end = IF downtime[d].end = Forever THEN t
                                     ELSE downtime[d].end
             /\ \/ Repaired(d, t).outcome = "resolved"
                \/ /\ Repaired(d, t).outcome = downtime[d].outcome
                   /\ \/ downtime[d].outcome # "unresolved"
                      \/ Repaired(d, t).carryResolved
             /\ downtime[d].carryResolved => Repaired(d, t).carryResolved
  BY <1>2, <1>3 DEF Repaired, Downtime
<1>4. \A d \in DOMAIN downtime : downtime'[d] \in {downtime[d], Repaired(d, t)}
  BY <1>1
<1>5. downtime' \in [DOMAIN downtime -> Downtime]
  BY <1>1, <1>2, <1>3
<1>6. breakdown' \in [DOMAIN breakdown -> Breakdown]
  BY <1>1, <1>2 DEF Breakdown
<1>7. \A d \in DOMAIN downtime :
        /\ downtime'[d].session = downtime[d].session
        /\ downtime'[d].start = downtime[d].start
        /\ downtime'[d].task = downtime[d].task
        /\ downtime'[d].reversed = downtime[d].reversed
        /\ \/ downtime'[d].end = downtime[d].end
           \/ /\ ~downtime[d].reversed
              /\ downtime[d].end = Forever
              /\ downtime'[d].end > downtime[d].start
  <2>1. ASSUME NEW d \in DOMAIN downtime, d \in Linked(b)
        PROVE  /\ downtime'[d] = Repaired(d, t)
               /\ ~downtime[d].reversed
               /\ downtime[d].end = Forever => t > downtime[d].start
    BY <1>1, <2>1 DEF Linked
  <2>2. ASSUME NEW d \in DOMAIN downtime, d \notin Linked(b)
        PROVE  downtime'[d] = downtime[d]
    BY <1>1, <2>2
  <2> QED BY <1>3, <2>1, <2>2
<1>8. /\ TypeOK' /\ LinksOK' /\ SessionsDisjoint' /\ DowntimeInsideSession'
      /\ \A u \in DOMAIN session : Live(u)' = Live(u)
      /\ \A k : Linked(k)' = Linked(k)
  BY <1>1, <1>5, <1>6, <1>7, ChangedDowntime
<1>9. /\ DOMAIN breakdown' = DOMAIN breakdown
      /\ breakdown'[b].done
      /\ \A k \in DOMAIN breakdown \ {b} : breakdown'[k] = breakdown[k]
  BY <1>1, <1>2 DEF Breakdown
<1>10. BreakdownStopsSession'
  <2>1. BreakdownInProgress' \subseteq BreakdownInProgress
    BY <1>9 DEF BreakdownInProgress
  <2>2. ASSUME NEW k \in BreakdownInProgress, NEW s \in DOMAIN session, IsOpen(s)
        PROVE  \E d \in Live(s)' : downtime'[d].task = k
    <3>1. PICK d \in Live(s) : downtime[d].task = k
      BY <2>2 DEF IInv, BreakdownStopsSession
    <3>2. d \in DOMAIN downtime
      BY DEF Live, LiveIn
    <3> QED BY <1>7, <1>8, <3>1, <3>2
  <2> QED BY <1>1, <2>1, <2>2 DEF BreakdownStopsSession, IsOpen
<1>11. RepairSettlesDowntime'
  <2>1. ASSUME NEW d \in Linked(b)
        PROVE  /\ downtime'[d].end # Forever
               /\ downtime'[d].outcome = "unresolved" => downtime'[d].carryResolved
    <3>1. d \in DOMAIN downtime /\ downtime'[d] = Repaired(d, t)
      BY <1>1, <2>1 DEF Linked
    <3>2. t # Forever
      BY Instants
    <3> QED BY <1>3, <3>1, <3>2
  <2>2. ASSUME NEW k \in DOMAIN breakdown, k # b, breakdown[k].done, NEW d \in Linked(k)
        PROVE  downtime'[d] = downtime[d]
    BY <1>1, <2>2 DEF Linked
  <2>3. \A k \in DOMAIN breakdown : k # b => breakdown'[k] = breakdown[k]
    BY <1>9
  <2> QED BY <1>8, <1>9, <2>1, <2>2, <2>3 DEF IInv, RepairSettlesDowntime
<1> QED BY <1>8, <1>10, <1>11 DEF IInv

\* A new breakdown opens downtime in the session it stops.
LEMMA StartBreakdownStep ==
    ASSUME IInv, NEW t \in Time, StartBreakdown(t)
    PROVE  IInv'
<1> DEFINE n == Len(breakdown)
<1>1. /\ BreakdownInProgress = {}
      /\ breakdown' = Append(breakdown, [start |-> t, done |-> FALSE])
      /\ n < MaxBreakdowns
      /\ UNCHANGED <<session, setup>>
  BY DEF StartBreakdown
<1>2. /\ breakdown' \in Seq(Breakdown) /\ Len(breakdown') = n + 1
      /\ n \in Nat /\ DOMAIN breakdown = 1 .. n
      /\ DOMAIN breakdown' = 1 .. (n + 1)
      /\ \A k \in 1 .. n : breakdown'[k] = breakdown[k]
      /\ breakdown'[n + 1] = [start |-> t, done |-> FALSE]
  <2>1. [start |-> t, done |-> FALSE] \in Breakdown
    BY DEF Breakdown
  <2> QED BY <1>1, <2>1, AppendRow DEF IInv, TypeOK
<1>3. Len(breakdown') <= MaxBreakdowns /\ n + 1 \in 0 .. MaxBreakdowns
  BY <1>1, <1>2, ConstantsAssumption
<1>4. BreakdownInProgress' = {n + 1}
  BY <1>1, <1>2 DEF BreakdownInProgress
<1>5. \A d \in DOMAIN downtime : downtime[d].task \in 0 .. n
  BY DEF IInv, LinksOK
<1>6. CASE UNCHANGED downtime /\ \A s \in DOMAIN session : ~IsOpen(s)
  <2>1. TypeOK'
    BY <1>1, <1>2, <1>3, <1>6 DEF IInv, TypeOK
  <2>2. LinksOK'
    <3>1. \A d \in DOMAIN downtime : downtime[d].task \in 0 .. (n + 1)
      BY <1>2, <1>5
    <3> QED BY <1>1, <1>2, <1>6, <3>1 DEF IInv, LinksOK, IsOpen
  <2>3. SessionsDisjoint' /\ DowntimeInsideSession'
    BY <1>1, <1>6 DEF IInv, SessionsDisjoint, DowntimeInsideSession, IsOpen, Live, LiveIn
  <2>4. BreakdownStopsSession'
    BY <1>1, <1>6 DEF BreakdownStopsSession, IsOpen
  <2>5. RepairSettlesDowntime'
    <3>1. \A k \in DOMAIN breakdown' : breakdown'[k].done =>
             k \in DOMAIN breakdown /\ breakdown[k].done
      BY <1>2
    <3>2. \A k : Linked(k)' = Linked(k)
      BY <1>6 DEF Linked
    <3> QED BY <1>6, <3>1, <3>2 DEF IInv, RepairSettlesDowntime
  <2> QED BY <2>1, <2>2, <2>3, <2>4, <2>5 DEF IInv
<1>7. CASE \E s \in DOMAIN session :
             /\ IsOpen(s)
             /\ t >= session[s].start
             /\ OpenDowntime(s) = {}
             /\ AddDowntime([NewDowntime(s, t) EXCEPT !.task = Len(breakdown) + 1])
  <2>1. PICK s \in DOMAIN session :
             /\ IsOpen(s)
             /\ t >= session[s].start
             /\ AddDowntime([NewDowntime(s, t) EXCEPT !.task = n + 1])
    BY <1>7
  <2> DEFINE row == [NewDowntime(s, t) EXCEPT !.task = n + 1]
  <2>2. /\ row \in Downtime /\ row.session = s /\ row.start = t
        /\ row.task = n + 1 /\ row.end > row.start /\ ~row.reversed
    BY <1>3, NewDowntimeRow DEF IInv, NewDowntime, Downtime
  <2> HIDE DEF row
  <2>3. AddDowntime(row)
    BY <2>1 DEF row
  <2>4. TypeOK' /\ LinksOK' /\ SessionsDisjoint' /\ DowntimeInsideSession'
    <3>1. /\ row.session \in DOMAIN session
          /\ row.start >= session[row.session].start
          /\ IsOpen(row.session)
      BY <2>1, <2>2
    <3>2. Len(breakdown) <= Len(breakdown') /\ row.task \in 0 .. Len(breakdown')
      BY <1>2, <2>2
    <3> QED BY <1>1, <1>2, <1>3, <2>2, <2>3, <3>1, <3>2, AddedDowntime
  <2>5. LET m == Len(downtime) IN
        /\ m \in Nat /\ DOMAIN downtime = 1 .. m
        /\ DOMAIN downtime' = 1 .. (m + 1)
        /\ \A i \in 1 .. m : downtime'[i] = downtime[i]
        /\ downtime'[m + 1] = row
        /\ \A d \in DOMAIN downtime' : d = m + 1 \/ d \in DOMAIN downtime
    BY <2>2, <2>3, AppendedDowntime DEF IInv
  <2>6. BreakdownStopsSession'
    <3>1. \A o \in DOMAIN session : IsOpen(o) => o = s
      BY <2>1 DEF IInv, LinksOK
    <3>2. Len(downtime) + 1 \in Live(s)' /\ downtime'[Len(downtime) + 1].task = n + 1
      BY <2>2, <2>5 DEF Live, LiveIn
    <3> QED BY <1>1, <1>4, <3>1, <3>2 DEF BreakdownStopsSession, IsOpen
  <2>7. RepairSettlesDowntime'
    <3>1. ASSUME NEW k \in DOMAIN breakdown', breakdown'[k].done, NEW d \in Linked(k)'
          PROVE  /\ k \in DOMAIN breakdown /\ breakdown[k].done
                 /\ d \in Linked(k) /\ downtime'[d] = downtime[d]
      <4>1. k \in 1 .. n /\ breakdown[k].done
        BY <1>2, <3>1
      <4>2. d \in DOMAIN downtime' /\ downtime'[d].task = k /\ ~downtime'[d].reversed
        BY <3>1 DEF Linked
      <4>3. d \in DOMAIN downtime /\ downtime'[d] = downtime[d]
        BY <1>2, <2>2, <2>5, <4>1, <4>2
      <4> QED BY <1>2, <4>1, <4>2, <4>3 DEF Linked
    <3> QED BY <3>1 DEF IInv, RepairSettlesDowntime
  <2> QED BY <2>4, <2>6, <2>7 DEF IInv
<1> QED BY <1>6, <1>7 DEF StartBreakdown

------------------------------------------------------------------------------
(* Steps that change sessions.                                            *)

\* Rows of sessions and downtime change; no session is opened again.
LEMMA ChangedSessions ==
    ASSUME IInv, UNCHANGED breakdown,
           session' \in [DOMAIN session -> Session],
           downtime' \in [DOMAIN downtime -> Downtime],
           setup' \in [Setups -> Setup],
           \A s \in DOMAIN session :
              /\ session'[s].end >= session'[s].start
              /\ session'[s].end = Forever <=> session'[s].reason = "none"
              /\ session'[s].end = Forever => session[s].end = Forever,
           \A d \in DOMAIN downtime :
              /\ downtime'[d].end > downtime'[d].start
              /\ downtime'[d].session = downtime[d].session
              /\ downtime'[d].task = downtime[d].task
    PROVE  /\ TypeOK' /\ LinksOK'
           /\ DOMAIN session' = DOMAIN session
           /\ DOMAIN downtime' = DOMAIN downtime
<1>1. /\ DOMAIN session' = DOMAIN session
      /\ session' \in Seq(Session) /\ Len(session') = Len(session)
  BY SeqAsFunction, FunctionAsSeq DEF IInv, TypeOK
<1>2. /\ DOMAIN downtime' = DOMAIN downtime
      /\ downtime' \in Seq(Downtime) /\ Len(downtime') = Len(downtime)
  BY SeqAsFunction, FunctionAsSeq DEF IInv, TypeOK
<1>3. TypeOK'
  BY <1>1, <1>2 DEF IInv, TypeOK
<1>4. LinksOK'
  BY <1>1, <1>2 DEF IInv, LinksOK, IsOpen
<1> QED BY <1>1, <1>2, <1>3, <1>4

\* Reopening a setup changes the reason of the session that completed it.
LEMMA ReopenSetupStep ==
    ASSUME IInv, NEW u \in Setups, ReopenSetup(u)
    PROVE  IInv'
<1>1. /\ session' = Reopened(u) /\ UNCHANGED <<downtime, breakdown>>
      /\ setup' = [setup EXCEPT ![u] = [stage |-> "planned", by |-> 0]]
  BY DEF ReopenSetup
<1>2. session \in [DOMAIN session -> Session] /\ downtime \in [DOMAIN downtime -> Downtime]
  BY Rows DEF IInv
<1>3. \A s \in DOMAIN session :
        /\ session'[s] \in Session
        /\ session'[s].start = session[s].start
        /\ session'[s].end = session[s].end
        /\ session'[s].reason = "none" <=> session[s].reason = "none"
  BY <1>1, <1>2 DEF Reopened, Session, EndReason
<1>4. session' \in [DOMAIN session -> Session]
  BY <1>1, <1>3 DEF Reopened
<1>5. setup' \in [Setups -> Setup]
  BY <1>1, ConstantsAssumption DEF IInv, TypeOK, Setup
<1>6. TypeOK' /\ LinksOK' /\ DOMAIN session' = DOMAIN session
  <2>1. /\ \A s \in DOMAIN session :
              /\ session'[s].end >= session'[s].start
              /\ session'[s].end = Forever <=> session'[s].reason = "none"
              /\ session'[s].end = Forever => session[s].end = Forever
        /\ \A d \in DOMAIN downtime :
              /\ downtime'[d].end > downtime'[d].start
              /\ downtime'[d].session = downtime[d].session
              /\ downtime'[d].task = downtime[d].task
        /\ downtime' \in [DOMAIN downtime -> Downtime] /\ UNCHANGED breakdown
    BY <1>1, <1>2, <1>3 DEF IInv, TypeOK
  <2> QED BY <1>4, <1>5, <2>1, ChangedSessions
<1>7. SessionsDisjoint' /\ DowntimeInsideSession'
  BY <1>1, <1>3, <1>6
     DEF IInv, SessionsDisjoint, DowntimeInsideSession, IsOpen, Live, LiveIn
<1>8. BreakdownStopsSession' /\ RepairSettlesDowntime'
  BY <1>1, <1>3, <1>6
     DEF IInv, BreakdownStopsSession, RepairSettlesDowntime, BreakdownInProgress,
         IsOpen, Live, LiveIn, Linked
<1> QED BY <1>6, <1>7, <1>8 DEF IInv

\* A session starts only when none is open and no breakdown is in progress.
LEMMA StartSessionStep ==
    ASSUME IInv, NEW u \in Setups, NEW t \in Time, StartSession(u, t)
    PROVE  IInv'
<1> DEFINE n == Len(session)
           row == [setup |-> u, start |-> t, end |-> Forever, reason |-> "none"]
<1>1. /\ n < MaxSessions /\ TimeFree(0, t, Forever) /\ BreakdownInProgress = {}
      /\ \A s \in DOMAIN session : ~IsOpen(s)
      /\ session' = Append(session, row)
      /\ UNCHANGED <<downtime, breakdown, setup>>
  BY DEF StartSession, MayStart
<1>2. row \in Session /\ t < Forever /\ t \in Nat /\ Forever \in Nat
  BY Instants DEF Session
<1>3. /\ session' \in Seq(Session) /\ Len(session') = n + 1
      /\ n \in Nat /\ DOMAIN session = 1 .. n
      /\ DOMAIN session' = 1 .. (n + 1)
      /\ \A s \in 1 .. n : session'[s] = session[s]
      /\ session'[n + 1] = row
  BY <1>1, <1>2, AppendRow DEF IInv, TypeOK
<1> HIDE DEF row
<1>4. \A s \in DOMAIN session' : s = n + 1 \/ s \in DOMAIN session
  BY <1>3
<1>5. row.start = t /\ row.end = Forever /\ row.reason = "none"
  BY DEF row
<1>6. TypeOK'
  <2>1. Len(session') <= MaxSessions
    BY <1>1, <1>3, ConstantsAssumption
  <2>2. \A s \in DOMAIN session' :
          /\ session'[s].end >= session'[s].start
          /\ session'[s].end = Forever <=> session'[s].reason = "none"
    BY <1>2, <1>3, <1>4, <1>5 DEF IInv, TypeOK
  <2> QED BY <1>1, <1>3, <2>1, <2>2 DEF IInv, TypeOK
<1>7. LinksOK'
  BY <1>1, <1>3, <1>4 DEF IInv, LinksOK, IsOpen
<1>8. SessionsDisjoint'
  <2>1. ASSUME NEW o \in DOMAIN session
        PROVE  ~ (session[o].start <= t /\ t < session[o].end)
    <3>1. session[o].start \in Nat /\ session[o].end \in Nat
      BY SessionRow DEF IInv
    <3>2. o \in DOMAIN session \ {0}
      BY <1>3
    <3> QED BY <1>1, <1>2, <3>1, <3>2 DEF TimeFree
  <2> QED BY <1>3, <1>4, <1>5, <2>1 DEF IInv, SessionsDisjoint, IsOpen
<1>9. \A d \in DOMAIN downtime : downtime[d].session \in DOMAIN session
  BY DEF IInv, LinksOK
<1>10. DowntimeInsideSession'
  <2>1. ASSUME NEW s \in DOMAIN session', NEW d \in Live(s)'
        PROVE  s \in DOMAIN session /\ d \in Live(s) /\ session'[s] = session[s]
    BY <1>1, <1>3, <1>4, <1>9, <2>1 DEF Live, LiveIn
  <2> QED BY <1>1, <2>1 DEF IInv, DowntimeInsideSession, IsOpen
<1>11. BreakdownStopsSession' /\ RepairSettlesDowntime'
  BY <1>1 DEF IInv, BreakdownStopsSession, RepairSettlesDowntime,
              BreakdownInProgress, Linked
<1> QED BY <1>6, <1>7, <1>8, <1>10, <1>11 DEF IInv

\* The corrected start.
LEMMA CorrectStartStep ==
    ASSUME IInv, NEW s \in DOMAIN session, NEW t \in Time, CorrectStart(s, t)
    PROVE  IInv'
<1>1. /\ t <= session[s].end /\ TimeFree(s, t, session[s].end)
      /\ \A d \in Live(s) : downtime[d].start >= t
      /\ session' = [session EXCEPT ![s].start = t]
      /\ UNCHANGED <<downtime, breakdown, setup>>
  BY DEF CorrectStart
<1>2. session \in [DOMAIN session -> Session] /\ downtime \in [DOMAIN downtime -> Downtime]
  BY Rows DEF IInv
<1>3. session' \in [DOMAIN session -> Session]
  BY <1>1, <1>2 DEF Session
<1>4. /\ \A o \in DOMAIN session \ {s} : session'[o] = session[o]
      /\ session'[s].start = t
      /\ session'[s].end = session[s].end
      /\ session'[s].reason = session[s].reason
  BY <1>1, <1>2 DEF Session
<1>5. session[s].end >= t
  BY <1>1, SessionRow, Instants DEF IInv
<1>6. TypeOK' /\ LinksOK' /\ DOMAIN session' = DOMAIN session
  <2>1. /\ \A o \in DOMAIN session :
              /\ session'[o].end >= session'[o].start
              /\ session'[o].end = Forever <=> session'[o].reason = "none"
              /\ session'[o].end = Forever => session[o].end = Forever
        /\ \A d \in DOMAIN downtime :
              /\ downtime'[d].end > downtime'[d].start
              /\ downtime'[d].session = downtime[d].session
              /\ downtime'[d].task = downtime[d].task
        /\ downtime' \in [DOMAIN downtime -> Downtime] /\ UNCHANGED breakdown
        /\ setup' \in [Setups -> Setup]
    BY <1>1, <1>2, <1>4, <1>5 DEF IInv, TypeOK
  <2> QED BY <1>3, <2>1, ChangedSessions
<1>7. SessionsDisjoint'
  <2>1. TimeFree(s, session'[s].start, session'[s].end)
    BY <1>1, <1>4
  <2> QED BY <1>4, <1>6, <2>1, MovedSession DEF IInv
<1>8. DowntimeInsideSession'
  BY <1>1, <1>4, <1>6 DEF IInv, DowntimeInsideSession, IsOpen, Live, LiveIn
<1>9. BreakdownStopsSession' /\ RepairSettlesDowntime'
  BY <1>1, <1>4, <1>6
     DEF IInv, BreakdownStopsSession, RepairSettlesDowntime, BreakdownInProgress,
         IsOpen, Live, LiveIn, Linked
<1> QED BY <1>6, <1>7, <1>8, <1>9 DEF IInv

\* A session gets an end, its first one or a corrected one, and perhaps other
\* downtime; setup states change by the reason.
LEMMA EndedSession ==
    ASSUME IInv, NEW s \in DOMAIN session, NEW e \in Time, NEW reason \in EndReason,
           e >= session[s].start,
           e = session[s].end \/ TimeFree(s, session[s].start, e),
           session' = [session EXCEPT ![s].end = e, ![s].reason = reason],
           setup' \in [Setups -> Setup],
           UNCHANGED breakdown,
           downtime' \in [DOMAIN downtime -> Downtime],
           WithinEnd(downtime', s, e),
           \A d \in DOMAIN downtime :
              \/ downtime'[d] = downtime[d]
              \/ /\ d \in Live(s)
                 /\ downtime[d].task \in {0} \union BreakdownInProgress
                 /\ downtime'[d].session = s
                 /\ downtime'[d].task = downtime[d].task
                 /\ downtime'[d].end > downtime'[d].start
                 /\ downtime'[d].start >= session[s].start
    PROVE  IInv'
<1>1. session \in [DOMAIN session -> Session] /\ downtime \in [DOMAIN downtime -> Downtime]
  BY Rows DEF IInv
<1>2. /\ session' \in [DOMAIN session -> Session]
      /\ \A o \in DOMAIN session \ {s} : session'[o] = session[o]
      /\ session'[s].start = session[s].start
      /\ session'[s].end = e
      /\ session'[s].reason = reason
  BY <1>1 DEF Session
<1>3. e # Forever /\ reason # "none"
  BY Instants DEF EndReason
<1>4. \A d \in DOMAIN downtime :
        /\ downtime'[d].end > downtime'[d].start
        /\ downtime'[d].session = downtime[d].session
        /\ downtime'[d].task = downtime[d].task
  BY DEF IInv, TypeOK, Live, LiveIn
<1>5. /\ TypeOK' /\ LinksOK'
      /\ DOMAIN session' = DOMAIN session
      /\ DOMAIN downtime' = DOMAIN downtime
  <2>1. \A o \in DOMAIN session :
          /\ session'[o].end >= session'[o].start
          /\ session'[o].end = Forever <=> session'[o].reason = "none"
          /\ session'[o].end = Forever => session[o].end = Forever
    BY <1>2, <1>3 DEF IInv, TypeOK
  <2> QED BY <1>2, <1>4, <2>1, ChangedSessions
<1>6. SessionsDisjoint'
  BY <1>2, <1>5, MovedSession DEF IInv
<1>7. ASSUME NEW o \in DOMAIN session \ {s}, NEW d \in DOMAIN downtime,
             downtime'[d].session = o \/ downtime[d].session = o
      PROVE  downtime'[d] = downtime[d]
  BY <1>4, <1>7 DEF Live, LiveIn
<1>8. DowntimeInsideSession'
  <2>1. ASSUME NEW d \in Live(s)'
        PROVE  /\ downtime'[d].start >= session[s].start
               /\ downtime'[d].end <= e
    <3>1. d \in LiveIn(downtime', s) /\ d \in DOMAIN downtime
      BY <1>5, <2>1 DEF Live, LiveIn
    <3>2. downtime'[d].end <= e
      BY <3>1 DEF WithinEnd
    <3>3. downtime'[d] = downtime[d] => d \in Live(s)
      BY <3>1 DEF Live, LiveIn
    <3> QED BY <3>1, <3>2, <3>3 DEF IInv, DowntimeInsideSession
  <2>2. ASSUME NEW o \in DOMAIN session \ {s}, NEW d \in Live(o)'
        PROVE  d \in Live(o) /\ downtime'[d] = downtime[d]
    BY <1>5, <1>7, <2>2 DEF Live, LiveIn
  <2> QED BY <1>2, <1>5, <2>1, <2>2 DEF IInv, DowntimeInsideSession, IsOpen
<1>9. BreakdownStopsSession'
  <2>1. ASSUME NEW k \in BreakdownInProgress, NEW o \in DOMAIN session \ {s}, IsOpen(o)
        PROVE  \E d \in Live(o)' : downtime'[d].task = k
    <3>1. PICK d \in Live(o) : downtime[d].task = k
      BY <2>1 DEF IInv, BreakdownStopsSession
    <3>2. d \in DOMAIN downtime /\ downtime[d].session = o /\ ~downtime[d].reversed
      BY DEF Live, LiveIn
    <3>3. downtime'[d] = downtime[d]
      BY <1>7, <3>2
    <3>4. d \in Live(o)'
      BY <1>5, <3>2, <3>3 DEF Live, LiveIn
    <3> QED BY <3>1, <3>3, <3>4
  <2>2. ASSUME NEW o \in DOMAIN session', IsOpen(o)'
        PROVE  o \in DOMAIN session \ {s} /\ IsOpen(o)
    BY <1>2, <1>3, <1>5, <2>2 DEF IsOpen
  <2>3. BreakdownInProgress' = BreakdownInProgress
    BY DEF BreakdownInProgress
  <2> QED BY <2>1, <2>2, <2>3 DEF BreakdownStopsSession
<1>10. RepairSettlesDowntime'
  <2>1. ASSUME NEW k \in DOMAIN breakdown, breakdown[k].done, NEW d \in Linked(k)'
        PROVE  d \in Linked(k) /\ downtime'[d] = downtime[d]
    <3>1. d \in DOMAIN downtime /\ downtime'[d].task = k /\ ~downtime'[d].reversed
      BY <1>5, <2>1 DEF Linked
    <3>2. k # 0
      BY Rows DEF IInv
    <3>3. k \notin {0} \union BreakdownInProgress
      BY <2>1, <3>2 DEF BreakdownInProgress
    <3>4. downtime'[d] = downtime[d]
      BY <1>4, <3>1, <3>3
    <3> QED BY <3>1, <3>4 DEF Linked
  <2> QED BY <2>1 DEF IInv, RepairSettlesDowntime
<1> QED BY <1>5, <1>6, <1>8, <1>9, <1>10 DEF IInv

\* What a close or a correction makes of the setup.
LEMMA SetupAfter ==
    ASSUME TypeOK, NEW s \in DOMAIN session, NEW u \in Setups
    PROVE  /\ [setup EXCEPT ![u] = [stage |-> "item_complete", by |-> s]]
                 \in [Setups -> Setup]
           /\ [setup EXCEPT ![u].stage = "planned"] \in [Setups -> Setup]
<1>1. s \in 0 .. MaxSessions /\ setup \in [Setups -> Setup]
  BY Rows, ConstantsAssumption DEF TypeOK
<1> QED BY <1>1 DEF Setup

\* Shift Ends settles downtime of the breakdown in progress; nothing else changes.
LEMMA CloseSessionStep ==
    ASSUME IInv, NEW s \in DOMAIN session, NEW e \in Time, NEW reason \in EndReason,
           CloseSession(s, e, reason)
    PROVE  IInv'
<1> DEFINE u == session[s].setup
           settled == SettledByClose(s, reason)
<1>1. /\ e >= session[s].start
      /\ TimeFree(s, session[s].start, e)
      /\ \A d \in settled : e > downtime[d].start
      /\ downtime' = [d \in DOMAIN downtime |->
              IF d \in settled
              THEN [downtime[d] EXCEPT !.end = e, !.outcome = "unresolved"]
              ELSE downtime[d]]
      /\ WithinEnd(downtime', s, e)
      /\ session' = [session EXCEPT ![s].end = e, ![s].reason = reason]
      /\ UNCHANGED breakdown
  BY DEF CloseSession
<1>2. u \in Setups
  BY SessionRow DEF IInv, Session
<1>3. setup' \in [Setups -> Setup]
  <2>1. setup' \in {setup, [setup EXCEPT ![u] = [stage |-> "item_complete", by |-> s]],
                    [setup EXCEPT ![u].stage = "planned"]}
    BY DEF CloseSession
  <2>2. TypeOK /\ setup \in [Setups -> Setup]
    BY DEF IInv, TypeOK
  <2>3. /\ [setup EXCEPT ![u] = [stage |-> "item_complete", by |-> s]]
              \in [Setups -> Setup]
        /\ [setup EXCEPT ![u].stage = "planned"] \in [Setups -> Setup]
    <3> HIDE DEF u
    <3> QED BY <1>2, <2>2, SetupAfter
  <2> QED BY <2>1, <2>2, <2>3
<1>4. downtime \in [DOMAIN downtime -> Downtime]
  BY Rows DEF IInv
<1>5. downtime' \in [DOMAIN downtime -> Downtime]
  BY ZenonT(60), <1>1, <1>4 DEF Downtime
<1>6. \A d \in settled : /\ d \in Live(s) /\ d \in DOMAIN downtime
                         /\ downtime[d].task \in BreakdownInProgress
                         /\ downtime[d].session = s
  BY DEF SettledByClose, OpenDowntime, Live, LiveIn
<1>7. \A d \in settled : downtime[d].start >= session[s].start
  BY <1>6 DEF IInv, DowntimeInsideSession
<1>8. ASSUME NEW d \in settled
      PROVE  /\ downtime'[d].session = s
             /\ downtime'[d].task = downtime[d].task
             /\ downtime'[d].end > downtime'[d].start
             /\ downtime'[d].start >= session[s].start
  <2>1. d \in DOMAIN downtime /\ downtime[d] \in Downtime
    BY <1>4, <1>6
  <2>2. downtime'[d] = [downtime[d] EXCEPT !.end = e, !.outcome = "unresolved"]
    BY <1>1, <2>1
  <2>3. /\ downtime'[d].session = downtime[d].session
        /\ downtime'[d].task = downtime[d].task
        /\ downtime'[d].end = e
        /\ downtime'[d].start = downtime[d].start
    BY <2>1, <2>2 DEF Downtime
  <2> QED BY <1>1, <1>6, <1>7, <2>3
<1>9. \A d \in DOMAIN downtime \ settled : downtime'[d] = downtime[d]
  BY <1>1
<1> HIDE DEF settled
<1> QED BY <1>1, <1>3, <1>5, <1>6, <1>8, <1>9, EndedSession

\* A correction: rows of downtime outside breakdowns change with the end.
LEMMA CorrectedStep ==
    ASSUME IInv, NEW s \in DOMAIN session, NEW e \in Time, NEW reason \in EndReason,
           NEW dts \in [DOMAIN downtime -> Downtime],
           Corrected(s, e, reason, dts),
           \A d \in DOMAIN downtime :
              \/ dts[d] = downtime[d]
              \/ /\ d \in Live(s)
                 /\ downtime[d].task = 0
                 /\ dts[d].session = s
                 /\ dts[d].task = downtime[d].task
                 /\ dts[d].end > dts[d].start
                 /\ dts[d].start >= session[s].start
    PROVE  IInv'
<1> DEFINE u == session[s].setup
<1>1. /\ e >= session[s].start
      /\ e = session[s].end \/ TimeFree(s, session[s].start, e)
      /\ downtime' = dts
      /\ WithinEnd(dts, s, e)
      /\ session' = [session EXCEPT ![s].end = e, ![s].reason = reason]
      /\ UNCHANGED breakdown
  BY DEF Corrected
<1>2. u \in Setups
  BY SessionRow DEF IInv, Session
<1>3. setup' \in [Setups -> Setup]
  <2>1. setup' \in {setup, [setup EXCEPT ![u] = [stage |-> "item_complete", by |-> s]],
                    [setup EXCEPT ![u].stage = "planned"]}
    BY DEF Corrected
  <2>2. TypeOK /\ setup \in [Setups -> Setup]
    BY DEF IInv, TypeOK
  <2>3. /\ [setup EXCEPT ![u] = [stage |-> "item_complete", by |-> s]]
              \in [Setups -> Setup]
        /\ [setup EXCEPT ![u].stage = "planned"] \in [Setups -> Setup]
    <3> HIDE DEF u
    <3> QED BY <1>2, <2>2, SetupAfter
  <2> QED BY <2>1, <2>2, <2>3
<1> QED BY <1>1, <1>3, EndedSession

\* The corrected end and reason.
LEMMA CorrectEndStep ==
    ASSUME IInv, NEW s \in DOMAIN session, NEW e \in Time, NEW reason \in EndReason,
           CorrectEnd(s, e, reason)
    PROVE  IInv'
<1>1. downtime \in [DOMAIN downtime -> Downtime]
  BY Rows DEF IInv
<1> QED BY <1>1, CorrectedStep DEF CorrectEnd

\* The downtime that a correction may touch.
LEMMA CorrectableRow ==
    ASSUME IInv, NEW s \in DOMAIN session, NEW d, Correctable(s, d)
    PROVE  /\ d \in DOMAIN downtime /\ d \in Live(s)
           /\ downtime[d] \in Downtime
           /\ downtime[d].session = s /\ downtime[d].task = 0
           /\ downtime[d].end > downtime[d].start
           /\ downtime[d].start >= session[s].start
<1>1. d \in DOMAIN downtime /\ d \in Live(s) /\ downtime[d].session = s /\ downtime[d].task = 0
  BY DEF Correctable, Live, LiveIn
<1>2. downtime[d] \in Downtime
  BY <1>1, DowntimeRow DEF IInv
<1>3. downtime[d].end > downtime[d].start
  BY <1>1 DEF IInv, TypeOK
<1>4. downtime[d].start >= session[s].start
  BY <1>1 DEF IInv, DowntimeInsideSession
<1> QED BY <1>1, <1>2, <1>3, <1>4

LEMMA EditDowntimeStep ==
    ASSUME IInv, NEW s \in DOMAIN session, NEW e \in Time, NEW reason \in EndReason,
           NEW d \in DOMAIN downtime, NEW from \in Time, NEW to \in Time,
           EditDowntime(s, e, reason, d, from, to)
    PROVE  IInv'
<1> DEFINE dts == [downtime EXCEPT ![d].start = from, ![d].end = to]
<1>1. /\ Correctable(s, d) /\ session[s].start <= from /\ from < to
      /\ Corrected(s, e, reason, dts)
  BY DEF EditDowntime
<1>2. /\ d \in Live(s) /\ downtime[d] \in Downtime
      /\ downtime[d].session = s /\ downtime[d].task = 0
  BY <1>1, CorrectableRow
<1>3. downtime \in [DOMAIN downtime -> Downtime]
  BY Rows DEF IInv
<1>4. /\ dts \in [DOMAIN downtime -> Downtime]
      /\ dts[d].session = s /\ dts[d].task = downtime[d].task
      /\ dts[d].start = from /\ dts[d].end = to
      /\ \A c \in DOMAIN downtime \ {d} : dts[c] = downtime[c]
  BY <1>2, <1>3 DEF Downtime
<1>5. session[s].start \in Nat /\ from \in Nat /\ to \in Nat
  BY SessionRow, Instants DEF IInv
<1> HIDE DEF dts
<1> QED BY <1>1, <1>2, <1>4, <1>5, CorrectedStep

LEMMA ReverseDowntimeStep ==
    ASSUME IInv, NEW s \in DOMAIN session, NEW e \in Time, NEW reason \in EndReason,
           NEW d \in DOMAIN downtime, ReverseDowntime(s, e, reason, d)
    PROVE  IInv'
<1> DEFINE dts == [downtime EXCEPT ![d].reversed = TRUE]
<1>1. Correctable(s, d) /\ Corrected(s, e, reason, dts)
  BY DEF ReverseDowntime
<1>2. /\ d \in Live(s) /\ downtime[d] \in Downtime
      /\ downtime[d].session = s /\ downtime[d].task = 0
      /\ downtime[d].end > downtime[d].start
      /\ downtime[d].start >= session[s].start
  BY <1>1, CorrectableRow
<1>3. downtime \in [DOMAIN downtime -> Downtime]
  BY Rows DEF IInv
<1>4. /\ dts \in [DOMAIN downtime -> Downtime]
      /\ dts[d].session = s /\ dts[d].task = downtime[d].task
      /\ dts[d].start = downtime[d].start /\ dts[d].end = downtime[d].end
      /\ \A c \in DOMAIN downtime \ {d} : dts[c] = downtime[c]
  BY <1>2, <1>3 DEF Downtime
<1> HIDE DEF dts
<1> QED BY <1>1, <1>2, <1>4, CorrectedStep


------------------------------------------------------------------------------
(* The invariant.                                                         *)

\* The empty tables.
LEMMA InitIInv == Init => IInv
<1> SUFFICES ASSUME Init
             PROVE  IInv
  OBVIOUS
<1>1. /\ session = <<>> /\ downtime = <<>> /\ breakdown = <<>>
      /\ Len(session) = 0 /\ Len(downtime) = 0 /\ Len(breakdown) = 0
      /\ DOMAIN session = {} /\ DOMAIN downtime = {} /\ DOMAIN breakdown = {}
  BY DEF Init
<1>2. session \in Seq(Session) /\ downtime \in Seq(Downtime) /\ breakdown \in Seq(Breakdown)
  BY <1>1
<1>3. setup \in [Setups -> Setup]
  BY ConstantsAssumption DEF Init, Setup
<1>4. TypeOK
  BY <1>1, <1>2, <1>3, ConstantsAssumption DEF TypeOK
<1> QED BY <1>1, <1>4 DEF IInv, LinksOK, SessionsDisjoint, DowntimeInsideSession,
        BreakdownStopsSession, RepairSettlesDowntime, BreakdownInProgress

\* The operations on a setup.
LEMMA ShopFloorStep ==
    ASSUME IInv, ShopFloor
    PROVE  IInv'
<1> SUFFICES ASSUME NEW u \in Setups,
                    \/ StartMachine(u)
                    \/ FinishSetup(u)
                    \/ ReleaseSetup(u)
                    \/ ReopenSetup(u)
                    \/ \E t \in Time : StartSession(u, t)
             PROVE  IInv'
  BY DEF ShopFloor
<1>0. setup \in [Setups -> Setup]
  BY DEF IInv, TypeOK
<1>1. CASE StartMachine(u)
  <2>1. setup' \in [Setups -> Setup] /\ UNCHANGED <<session, downtime, breakdown>>
    BY <1>0, <1>1 DEF StartMachine, Setup
  <2> QED BY <2>1, SetupStep
<1>2. CASE FinishSetup(u)
  <2>1. setup' \in [Setups -> Setup] /\ UNCHANGED <<session, downtime, breakdown>>
    BY <1>0, <1>2, ConstantsAssumption DEF FinishSetup, Setup
  <2> QED BY <2>1, SetupStep
<1>3. CASE ReleaseSetup(u)
  <2>1. setup' \in [Setups -> Setup] /\ UNCHANGED <<session, downtime, breakdown>>
    BY <1>0, <1>3 DEF ReleaseSetup, Setup
  <2> QED BY <2>1, SetupStep
<1> QED BY <1>1, <1>2, <1>3, ReopenSetupStep, StartSessionStep

\* The corrections of a session.
LEMMA CorrectStep ==
    ASSUME IInv, NEW s \in DOMAIN session, Correct(s)
    PROVE  IInv'
<1>1. ASSUME NEW t \in Time, CorrectStart(s, t)
      PROVE  IInv'
  BY <1>1, CorrectStartStep
<1>2. ASSUME NEW e \in Time, NEW reason \in EndReason, CorrectEnd(s, e, reason)
      PROVE  IInv'
  BY <1>2, CorrectEndStep
<1>3. ASSUME NEW e \in Time, NEW reason \in EndReason, NEW d \in DOMAIN downtime,
             ReverseDowntime(s, e, reason, d)
      PROVE  IInv'
  BY <1>3, ReverseDowntimeStep
<1>4. ASSUME NEW e \in Time, NEW reason \in EndReason, NEW d \in DOMAIN downtime,
             NEW from \in Time, NEW to \in Time,
             EditDowntime(s, e, reason, d, from, to)
      PROVE  IInv'
  BY <1>4, EditDowntimeStep
<1> QED BY <1>1, <1>2, <1>3, <1>4 DEF Correct

\* The operations on a session of the day.
LEMMA RunSessionStep ==
    ASSUME IInv, NEW s \in DOMAIN session, RunSession(s)
    PROVE  IInv'
<1>1. ASSUME NEW e \in Time, NEW reason \in EndReason, CloseSession(s, e, reason)
      PROVE  IInv'
  BY <1>1, CloseSessionStep
<1>2. ASSUME NEW from \in Time, NEW to \in Time, RecordDowntime(s, from, to)
      PROVE  IInv'
  BY <1>2, RecordDowntimeStep
<1>3. ASSUME NEW from \in Time, NEW accident \in BOOLEAN,
             StartDowntime(s, from, accident)
      PROVE  IInv'
  BY <1>3, StartDowntimeStep
<1>4. ASSUME NEW from \in Time, StartBulkDowntime(s, from)
      PROVE  IInv'
  BY <1>4, StartDowntimeStep
<1>5. ASSUME NEW to \in Time, NEW outcome \in {"resolved", "unresolved"},
             EndDowntime(s, to, outcome)
      PROVE  IInv'
  BY <1>5, EndDowntimeStep
<1> QED BY <1>1, <1>2, <1>3, <1>4, <1>5 DEF RunSession

\* Every operation on the machine keeps the timeline consistent.
LEMMA NextIInv == IInv /\ [Next]_vars => IInv'
<1> SUFFICES ASSUME IInv, [Next]_vars
             PROVE  IInv'
  OBVIOUS
<1>1. CASE ShopFloor
  BY <1>1, ShopFloorStep
<1>2. ASSUME NEW s \in DOMAIN session, RunSession(s) \/ Correct(s)
      PROVE  IInv'
  BY <1>2, RunSessionStep, CorrectStep
<1>3. ASSUME NEW d \in DOMAIN downtime, NEW t \in Time, ResolveCarried(d, t)
      PROVE  IInv'
  BY <1>3, ResolveCarriedStep
<1>4. ASSUME NEW t \in Time, StartBreakdown(t)
      PROVE  IInv'
  BY <1>4, StartBreakdownStep
<1>5. ASSUME NEW k \in DOMAIN breakdown, NEW t \in Time, CompleteBreakdown(k, t)
      PROVE  IInv'
  BY <1>5, CompleteBreakdownStep
<1>6. CASE UNCHANGED vars
  BY <1>6, SetupStep DEF vars, IInv, TypeOK
<1> QED BY <1>1, <1>2, <1>3, <1>4, <1>5, <1>6 DEF Next

------------------------------------------------------------------------------
\* The strengthened invariant holds in every reachable state of the timeline.
THEOREM Invariance == Spec => []IInv
<1> QED BY InitIInv, NextIInv, PTL DEF Spec

\* Rows keep their types and satisfy the CHECK constraints of their tables.
THEOREM TypeCorrect == Spec => []TypeOK
<1>1. IInv => TypeOK
  BY DEF IInv
<1> QED BY <1>1, Invariance, PTL

\* assertProductionSessionDoesNotOverlap is asked by every operation that gives
\* a session an interval, so no session starts inside another one.
THEOREM SessionsNeverOverlap == Spec => []SessionsDisjoint
<1>1. IInv => SessionsDisjoint
  BY DEF IInv
<1> QED BY <1>1, Invariance, PTL

\* Starts, ends and downtime are corrected separately, and live downtime stays
\* inside its session.
THEOREM DowntimeStaysInside == Spec => []DowntimeInsideSession
<1>1. IInv => DowntimeInsideSession
  BY DEF IInv
<1> QED BY <1>1, Invariance, PTL

\* A breakdown in progress has stopped the machine's open session, and none can
\* start before it is completed.
THEOREM BreakdownsStop == Spec => []BreakdownStopsSession
<1>1. IInv => BreakdownStopsSession
  BY DEF IInv
<1> QED BY <1>1, Invariance, PTL

\* A completed breakdown leaves no downtime open or carried and unresolved.
THEOREM RepairsSettle == Spec => []RepairSettlesDowntime
<1>1. IInv => RepairSettlesDowntime
  BY DEF IInv
<1> QED BY <1>1, Invariance, PTL
==============================================================================
