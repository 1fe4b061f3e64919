---------------------------- MODULE SessionOutput ----------------------------
(***************************************************************************)
(* Counters, weights and quantities of the production sessions of one     *)
(* machine (packages/db/src/production-shop-floor.ts and                  *)
(* production-session-domain.ts): how many pieces each session made, how  *)
(* many of them Quality rejected, and the counter reading that one        *)
(* session hands to the next.                                             *)
(*                                                                        *)
(* A session occupies one slot of the machine's time; what keeps sessions *)
(* apart, and in order when their times are corrected, is in module       *)
(* SessionTimeline.  Every operation is one transaction under the lock of *)
(* the session row or of the machine, so it is one step.  The limit that  *)
(* an earlier setup's output puts on this one (assertEarlyDownstreamWip)  *)
(* only refuses more and is left out.                                     *)
(*                                                                        *)
(* A definition Name_Variant is a plausible bug in the code that Name      *)
(* models; the specification does not use it.                             *)
(***************************************************************************)
EXTENDS Integers, Sequences

CONSTANTS Setups,        \* (job card, route, setup) contexts of the machine
          MaxSessions, MaxSlot,   \* bounds on sessions and on their slots
          MaxCount,      \* bound on counter readings
          MaxReported,   \* bound on the rejected pieces of a session
          MaxGross, MaxCrates,    \* bounds on what is weighed
          CrateWeight, PieceWeight

ASSUME OutputAssumption ==
    /\ {MaxSessions, MaxReported} \subseteq Nat
    /\ CrateWeight \in Nat
    /\ PieceWeight \in Nat \ {0}

VARIABLES session,   \* manufacturing.production_sessions, in creation order
          entry,     \* manufacturing.production_entries of those sessions
          reported   \* sum of each session's rejection events

outputVars == <<session, entry, reported>>

------------------------------------------------------------------------------
\* NULL in start_count, end_count and gross_weight_kg.
Null == -1

Slot == 1 .. MaxSlot

Count == 0 .. MaxCount

Session == [setup : Setups, method : {"counter", "weight"}, slot : Slot,
            closed : BOOLEAN, startCount : Count \union {Null},
            endCount : Count \union {Null},
            from : 0 .. MaxSessions,       \* carried_from_session_id; 0 is none
            gross : (0 .. MaxGross) \union {Null},
            total : Nat, good : Nat, rejected : Nat]

OutputTypeOK ==
    /\ session \in Seq(Session) /\ Len(session) <= MaxSessions
    /\ entry \in [DOMAIN session -> [good : Nat, rejected : Nat]]
    /\ reported \in [DOMAIN session -> 0 .. MaxReported]

OutputInit ==
    /\ session = <<>>
    /\ entry = <<>>
    /\ reported = <<>>

------------------------------------------------------------------------------
Counted(s) == session[s].method = "counter"

OutputPending(s) == session[s].closed /\ ~Counted(s) /\ session[s].gross = Null

\* calculateProductionSessionOutput for a weight: whole pieces of the net weight.
Pieces(gross, crates) ==
    LET net == gross - crates * CrateWeight
    IN  IF net > 0 THEN net \div PieceWeight ELSE 0

\* Rejected pieces cannot exceed total produced pieces.
CoversRejected(total, rejected) == rejected <= total

\* The update of the session row and of its production entry.
Record(s, row) ==
    /\ session' = [session EXCEPT ![s] = row]
    /\ entry' = [entry EXCEPT ![s] = [good |-> row.good, rejected |-> row.rejected]]

\* The row with its output calculated anew.
WithOutput(row, total, rejected) ==
    [row EXCEPT !.total = total, !.good = total - rejected, !.rejected = rejected]

------------------------------------------------------------------------------
(* startProductionSession *)

EndsBefore(t) == {s \in DOMAIN session : session[s].closed /\ session[s].slot < t}

\* The last session that ended before t.
Prior(t) == {s \in EndsBefore(t) : \A o \in EndsBefore(t) : session[o].slot <= session[s].slot}

\* The counter runs on only within one job card, route and setup.
CanCarry(p, u) == Counted(p) /\ session[p].setup = u

Start(u, method, t, count) ==
    LET carried == {p \in Prior(t) : method = "counter" /\ CanCarry(p, u)}
        from == IF carried = {} THEN 0 ELSE CHOOSE p \in carried : TRUE
    IN  /\ Len(session) < MaxSessions
        /\ \A s \in DOMAIN session : session[s].closed /\ session[s].slot # t
        /\ session' = Append(session,
              [setup |-> u, method |-> method, slot |-> t, closed |-> FALSE,
               startCount |-> CASE method = "weight" -> Null
                                [] from # 0 -> session[from].endCount
                                [] OTHER -> count,
               endCount |-> Null, from |-> from, gross |-> Null,
               total |-> 0, good |-> 0, rejected |-> 0])
        /\ entry' = Append(entry, [good |-> 0, rejected |-> 0])
        /\ reported' = Append(reported, 0)

------------------------------------------------------------------------------
(* recordProductionSessionRejection *)

RejectedGood_Keeps(s, rejected) == session[s].good

\* Only a closed session whose output is known has good pieces.
RejectedGood(s, rejected) ==
    CASE OutputPending(s) -> 0
      [] session[s].closed /\ ~OutputPending(s) -> session[s].total - rejected
      [] ~session[s].closed -> session[s].good

RecordRejection(s, quantity) ==
    LET rejected == reported[s] + quantity
        good == RejectedGood(s, rejected)
    IN  /\ rejected <= MaxReported
        /\ session[s].closed /\ ~OutputPending(s)
              => CoversRejected(session[s].total, rejected)
        /\ reported' = [reported EXCEPT ![s] = rejected]
        /\ session' = [session EXCEPT ![s].rejected = rejected, ![s].good = good]
        /\ entry' = [entry EXCEPT ![s] = [rejected |-> rejected, good |->
              IF session[s].closed /\ ~OutputPending(s)
              THEN session[s].total - rejected ELSE 0]]

------------------------------------------------------------------------------
(* The output part of closeProductionSession and correctProductionSession. *)

CarriedOn_Never(s) == FALSE

CarriedOn(s) == \E o \in DOMAIN session : session[o].from = s

\* End count cannot change after it has been carried into a later session.
CloseCounter(s, endCount) ==
    LET row == [session[s] EXCEPT !.closed = TRUE, !.endCount = endCount]
        total == endCount - session[s].startCount
    IN  /\ Counted(s)
        /\ session[s].closed /\ CarriedOn(s) => endCount = session[s].endCount
        /\ endCount >= session[s].startCount
        /\ CoversRejected(total, reported[s])
        /\ Record(s, WithOutput(row, total, reported[s]))
        /\ UNCHANGED reported

\* A correction also completes the weight of a session closed without one.
CloseWeight(s, gross, crates) ==
    LET row == [session[s] EXCEPT !.closed = TRUE, !.gross = gross]
    IN  /\ ~Counted(s)
        /\ CoversRejected(Pieces(gross, crates), reported[s])
        /\ Record(s, WithOutput(row, Pieces(gross, crates), reported[s]))
        /\ UNCHANGED reported

\* The weight is left blank: the output stays pending.
ClosePending(s) ==
    /\ ~Counted(s)
    /\ session[s].gross = Null
    /\ Record(s, [session[s] EXCEPT !.closed = TRUE, !.total = 0, !.good = 0,
                                    !.rejected = reported[s]])
    /\ UNCHANGED reported

(* correctProductionSessionStartCount *)

\* The session and the good pieces of its entry.
Recounted(s, row) ==
    /\ session' = [session EXCEPT ![s] = row]
    /\ entry' = [entry EXCEPT ![s].good = row.good]

\* An explicit reading: the link to the predecessor is cleared.
CorrectStartCount(s, count) ==
    LET row == [session[s] EXCEPT !.startCount = count, !.from = 0]
        total == session[s].endCount - count
    IN  /\ Counted(s)
        /\ count # session[s].startCount
        /\ IF session[s].closed
           THEN /\ count <= session[s].endCount
                /\ CoversRejected(total, session[s].rejected)
                /\ Recounted(s, WithOutput(row, total, session[s].rejected))
           ELSE Recounted(s, row)
        /\ UNCHANGED reported

------------------------------------------------------------------------------
OutputNext ==
    \/ \E u \in Setups, m \in {"counter", "weight"}, t \in Slot, c \in Count :
          Start(u, m, t, c)
    \/ \E s \in DOMAIN session :
          \/ \E q \in 1 .. MaxReported : RecordRejection(s, q)
          \/ \E c \in Count : CloseCounter(s, c) \/ CorrectStartCount(s, c)
          \/ \E g \in 0 .. MaxGross, c \in 0 .. MaxCrates : CloseWeight(s, g, c)
          \/ ClosePending(s)

OutputSpec == OutputInit /\ [][OutputNext]_outputVars

------------------------------------------------------------------------------
\* A closed session whose output is known accounts for every piece: what the
\* counter or the scale says is good or was rejected by Quality, however
\* rejections, closes and corrections of both readings were interleaved.  The
\* production entry, from which job cards and planning count pieces, says the
\* same after every path that changes one of them.
OutputBalances ==
    \A s \in DOMAIN session :
        LET row == session[s]
        IN  /\ row.rejected = reported[s]
            /\ row.closed /\ ~OutputPending(s) => row.good + row.rejected = row.total
            /\ row.closed /\ Counted(s) => row.total = row.endCount - row.startCount
            /\ ~row.closed \/ OutputPending(s) => row.good = 0
            /\ entry[s] = [good |-> row.good, rejected |-> row.rejected]

\* A reading that was carried on stays the same on both sides: neither a
\* correction of the end count nor one of the start count breaks the link.
CarriedCountsAgree ==
    \A s \in DOMAIN session : session[s].from # 0 =>
        LET p == session[session[s].from]
        IN  /\ p.closed /\ p.endCount = session[s].startCount
            /\ p.setup = session[s].setup
=============================================================================
