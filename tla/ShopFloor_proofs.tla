--------------------------- MODULE ShopFloor_proofs ---------------------------
(***************************************************************************)
(* What the shop floor keeps account of, for any number of it.  First the  *)
(* custody of Store units (module StoreUnits): what the rows of one unit   *)
(* must agree on is one formula, UnitAgrees; every operation but the       *)
(* handover of a batch and the move of a gauge set changes one unit, and   *)
(* leaves the others as they agree.  Then the pieces that production       *)
(* sessions made (module SessionOutput).                                   *)
(***************************************************************************)
EXTENDS StoreUnits, SessionOutput, FiniteSetTheorems, SequenceTheorems, TLAPS

Asset == [status : Statuses, at : Places, owner : Stores, breakdown : BOOLEAN]

OrderRow == [kind : {"none", "repair", "calibration"}, issued : BOOLEAN,
             origin : Stores, schedule : Schedules \union {NoSchedule}]

VisitRow == [stage : {"none", "OPEN", "DISPATCHED", "RETURNED"},
             method : {"SUPPLIER", "IN_HOUSE"},
             order : {"none", "own", "retry"}, failed : BOOLEAN]

RequestRow == [kind : {"none", "use", "transfer"}, units : SUBSET Units,
               store : Stores, from : Units \union {NoUnit}]

InProgress == {"OPEN", "DISPATCHED", "RETURNED"}

------------------------------------------------------------------------------
\* UsableIsReleased for one unit.
ReleasedOK(u) ==
    Usable(unit[u]) =>
      /\ ~unit[u].breakdown
      /\ ~Failed(u)
      /\ ~Visited(u, {"DISPATCHED", "RETURNED"})
      /\ unit[u].at # "SUPPLIER"
      /\ ~(order[u].kind = "repair" /\ order[u].issued)

\* CustodyAgrees for one unit.
CustodyOK(u) ==
    /\ InStore(u) => unit[u].at = unit[u].owner
    /\ unit[u].at = "SUPPLIER" <=>
         \/ order[u].kind = "repair" /\ order[u].issued
         \/ Visited(u, {"DISPATCHED"})
    /\ HasOrder(u) => order[u].origin = unit[u].owner

\* OrderHasItsVisit for the order of one unit.  Only an order for a
\* calibration names a timetable, so a timetable that an order names has no
\* repair beside it; and no order is issued but one that exists.
OrderOK(u) ==
    LET s == order[u].schedule IN
    /\ order[u].kind = "calibration" =>
         /\ s \in Schedules /\ UnitOf[s] = u
         /\ visit[s].order = "own" \/ (order[u].issued /\ visit[s].failed)
         /\ ~order[u].issued => visit[s].stage = "OPEN"
    /\ order[u].kind # "calibration" => s = NoSchedule
    /\ order[u].kind = "none" => ~order[u].issued

\* OrderHasItsVisit for one timetable.  An in-house visit has no order, so its
\* result leaves no order behind; and an order ends with its visit.
VisitOK(s) ==
    /\ visit[s].order # "none" =>
         order[UnitOf[s]].schedule = s /\ visit[s].method = "SUPPLIER"
    /\ visit[s].stage \in {"DISPATCHED", "RETURNED"} =>
         visit[s].order # "none" /\ order[UnitOf[s]].issued
    /\ visit[s].stage = "none" => visit[s].order = "none"

\* Nothing is open for a lost unit that could still change it.
LostOK(u) ==
    unit[u].status = "LOST" => ~HasOrder(u) /\ ~Visited(u, InProgress)

UnitAgrees(u) ==
    /\ ReleasedOK(u)
    /\ CustodyOK(u)
    /\ OrderOK(u)
    /\ \A s \in Schedules : UnitOf[s] = u => VisitOK(s)
    /\ LostOK(u)

IInv ==
    /\ TypeOK
    /\ \A u \in Units : UnitAgrees(u)
    /\ SetsAreWhole

------------------------------------------------------------------------------
\* TypeOK by the names of the rows.
LEMMA Types ==
    TypeOK <=> /\ unit \in [Units -> Asset]
               /\ order \in [Units -> OrderRow]
               /\ visit \in [Schedules -> VisitRow]
               /\ request \in [Requests -> RequestRow]
               /\ sets \subseteq SUBSET Units
               /\ setups \in 0 .. MaxSetups
               /\ left \in Nat
BY DEF TypeOK, Asset, OrderRow, VisitRow, RequestRow

\* The invariants that the runs check are parts of IInv.
LEMMA Consequences ==
    ASSUME IInv
    PROVE  UsableIsReleased /\ ServiceAgrees /\ SetsAreWhole
<1>1. UsableIsReleased
  BY DEF IInv, UnitAgrees, ReleasedOK, UsableIsReleased
<1>2. CustodyAgrees
  BY DEF IInv, UnitAgrees, CustodyOK, CustodyAgrees
<1>3. OrderHasItsVisit
  <2>1. \A u \in Units : OrderOK(u)
    BY DEF IInv, UnitAgrees
  <2>2. \A s \in Schedules : VisitOK(s)
    BY StoreAssumption DEF IInv, UnitAgrees
  <2> QED BY <2>1, <2>2 DEF OrderHasItsVisit, OrderOK, VisitOK
<1> QED BY <1>1, <1>2, <1>3 DEF IInv, ServiceAgrees

\* A unit whose row, order and visits stay agrees as before.
LEMMA Untouched ==
    ASSUME NEW u \in Units, UnitAgrees(u),
           unit'[u] = unit[u], order'[u] = order[u],
           \A s \in Schedules : UnitOf[s] = u => visit'[s] = visit[s]
    PROVE  UnitAgrees(u)'
<1>1. \A stages : Visited(u, stages)' <=> Visited(u, stages)
  BY DEF Visited
<1>2. Failed(u)' <=> Failed(u)
  BY DEF Failed
<1>3. ReleasedOK(u)'
  BY <1>1, <1>2 DEF UnitAgrees, ReleasedOK
<1>4. CustodyOK(u)'
  BY <1>1 DEF UnitAgrees, CustodyOK, InStore, HasOrder
<1>5. OrderOK(u)'
  BY DEF UnitAgrees, OrderOK
<1>6. \A s \in Schedules : UnitOf[s] = u => VisitOK(s)'
  BY DEF UnitAgrees, VisitOK
<1>7. LostOK(u)'
  BY <1>1 DEF UnitAgrees, LostOK, HasOrder
<1> QED BY <1>3, <1>4, <1>5, <1>6, <1>7 DEF UnitAgrees

\* Gauge sets stay whole while no gauge of a set changes its accountable store
\* or is lost or scrapped.
LEMMA SetsKept ==
    ASSUME SetsAreWhole, sets' = sets,
           \A u \in UNION sets : unit'[u].owner = unit[u].owner /\ (Gone(u)' => Gone(u))
    PROVE  SetsAreWhole'
<1>1. \A pair \in sets : \A u \in pair : unit'[u].owner = Quality /\ ~Gone(u)'
  BY DEF SetsAreWhole
<1> QED BY <1>1 DEF SetsAreWhole

\* A new row of a unit, its order and visits untouched: what the place, the
\* status, the accountable store and the breakdown must satisfy.
LEMMA UnitChange ==
    ASSUME IInv, NEW u \in Units, NEW new \in Asset,
           unit'[u] = new, UNCHANGED <<order, visit>>,
           Usable(new) => /\ ~new.breakdown /\ ~Failed(u)
                          /\ ~Visited(u, {"DISPATCHED", "RETURNED"})
                          /\ ~(order[u].kind = "repair" /\ order[u].issued),
           new.at \in Stores => new.at = new.owner,
           new.at = "SUPPLIER" <=> unit[u].at = "SUPPLIER",
           HasOrder(u) => new.owner = unit[u].owner,
           new.status = "LOST" => unit[u].status = "LOST" \/
                                  (~HasOrder(u) /\ ~Visited(u, InProgress))
    PROVE  UnitAgrees(u)'
<1>1. /\ \A stages : Visited(u, stages)' <=> Visited(u, stages)
      /\ Failed(u)' <=> Failed(u)
  BY DEF Visited, Failed
<1>2. UnitAgrees(u)
  BY DEF IInv
<1>3. ReleasedOK(u)'
  <2>1. Usable(new) => new.at # "SUPPLIER"
    <3>1. Visited(u, {"DISPATCHED"}) => Visited(u, {"DISPATCHED", "RETURNED"})
      BY DEF Visited
    <3> QED BY <3>1, <1>2 DEF UnitAgrees, CustodyOK
  <2> QED BY <1>1, <2>1 DEF ReleasedOK
<1>4. CustodyOK(u)'
  BY <1>1, <1>2 DEF UnitAgrees, CustodyOK, InStore, HasOrder
<1>5. OrderOK(u)'
  BY <1>2 DEF UnitAgrees, OrderOK
<1>6. \A s \in Schedules : UnitOf[s] = u => VisitOK(s)'
  BY <1>2 DEF UnitAgrees, VisitOK
<1>7. LostOK(u)'
  BY <1>1, <1>2 DEF UnitAgrees, LostOK, HasOrder
<1> QED BY <1>3, <1>4, <1>5, <1>6, <1>7 DEF UnitAgrees

\* The same when it is the only row that changes.
LEMMA RowChange ==
    ASSUME IInv, NEW u \in Units, NEW new \in Asset,
           unit' = [unit EXCEPT ![u] = new], UNCHANGED <<order, visit>>,
           Usable(new) => /\ ~new.breakdown /\ ~Failed(u)
                          /\ ~Visited(u, {"DISPATCHED", "RETURNED"})
                          /\ ~(order[u].kind = "repair" /\ order[u].issued),
           new.at \in Stores => new.at = new.owner,
           new.at = "SUPPLIER" <=> unit[u].at = "SUPPLIER",
           HasOrder(u) => new.owner = unit[u].owner,
           new.status = "LOST" => unit[u].status = "LOST" \/
                                  (~HasOrder(u) /\ ~Visited(u, InProgress))
    PROVE  /\ unit' \in [Units -> Asset]
           /\ \A v \in Units : UnitAgrees(v)'
<1>1. unit \in [Units -> Asset]
  BY Types DEF IInv
<1>2. unit' \in [Units -> Asset] /\ unit'[u] = new
  BY <1>1
<1>3. ASSUME NEW v \in Units, v # u PROVE UnitAgrees(v)'
  <2>1. unit'[v] = unit[v]
    BY <1>1, <1>3
  <2> QED BY <2>1, Untouched DEF IInv
<1>4. UnitAgrees(u)'
  BY <1>2, UnitChange
<1> QED BY <1>2, <1>3, <1>4

\* Placing a unit: the new row and its fields.
LEMMA PlacedRow ==
    ASSUME TypeOK, NEW u \in Units, NEW place \in Places, NEW status \in Statuses
    PROVE  \E new \in Asset :
             /\ Placed(u, place, status) = [unit EXCEPT ![u] = new]
             /\ new.status = status /\ new.at = place
             /\ new.owner = unit[u].owner /\ new.breakdown = unit[u].breakdown
<1>1. unit \in [Units -> Asset] /\ unit[u] \in Asset
  BY Types
<1> DEFINE new == [unit[u] EXCEPT !.at = place, !.status = status]
<1>2. Placed(u, place, status) = [unit EXCEPT ![u] = new]
  BY <1>1 DEF Placed
<1>3. new \in Asset /\ new.status = status /\ new.at = place
      /\ new.owner = unit[u].owner /\ new.breakdown = unit[u].breakdown
  BY <1>1 DEF Asset
<1> HIDE DEF new
<1> QED BY <1>2, <1>3

\* RowChange for a unit that is placed somewhere.
LEMMA PlacedStep ==
    ASSUME IInv, NEW u \in Units, NEW place \in Places, NEW status \in Statuses,
           unit' = Placed(u, place, status), UNCHANGED <<order, visit, sets>>,
           status \in {"AVAILABLE", "ASSIGNED"} =>
             /\ ~unit[u].breakdown /\ ~Failed(u)
             /\ ~Visited(u, {"DISPATCHED", "RETURNED"})
             /\ ~(order[u].kind = "repair" /\ order[u].issued),
           place \in Stores => place = unit[u].owner,
           place = "SUPPLIER" <=> unit[u].at = "SUPPLIER",
           status = "LOST" => unit[u].status = "LOST",
           status \in {"SCRAPPED", "LOST"} /\ u \in UNION sets => Gone(u)
    PROVE  /\ unit' \in [Units -> Asset]
           /\ \A v \in Units : UnitAgrees(v)'
           /\ SetsAreWhole'
<1>1. PICK new \in Asset :
        /\ Placed(u, place, status) = [unit EXCEPT ![u] = new]
        /\ new.status = status /\ new.at = place
        /\ new.owner = unit[u].owner /\ new.breakdown = unit[u].breakdown
  BY PlacedRow DEF IInv
<1>2. /\ unit' \in [Units -> Asset]
      /\ \A v \in Units : UnitAgrees(v)'
  <2>1. unit' = [unit EXCEPT ![u] = new]
    BY <1>1
  <2>2. Usable(new) => /\ ~new.breakdown /\ ~Failed(u)
                       /\ ~Visited(u, {"DISPATCHED", "RETURNED"})
                       /\ ~(order[u].kind = "repair" /\ order[u].issued)
    BY <1>1 DEF Usable
  <2>3. /\ new.at \in Stores => new.at = new.owner
        /\ new.at = "SUPPLIER" <=> unit[u].at = "SUPPLIER"
        /\ HasOrder(u) => new.owner = unit[u].owner
        /\ new.status = "LOST" => unit[u].status = "LOST"
    BY <1>1
  <2> QED BY <2>1, <2>2, <2>3, RowChange
<1>3. SetsAreWhole'
  <2>1. unit \in [Units -> Asset] /\ unit' = [unit EXCEPT ![u] = new]
    BY <1>1, Types DEF IInv
  <2>2. \A v \in UNION sets : unit'[v].owner = unit[v].owner /\ (Gone(v)' => Gone(v))
    <3>1. UNION sets \subseteq Units
      BY DEF IInv, TypeOK
    <3> QED BY <1>1, <2>1, <3>1 DEF Gone
  <2> QED BY <2>2, SetsKept DEF IInv
<1> QED BY <1>2, <1>3

\* StatusAfterHold frees a unit only when neither a breakdown nor one of the
\* failing timetables holds it.
LEMMA AfterHold ==
    ASSUME NEW u \in Units, NEW place, NEW failing
    PROVE  /\ StatusAfterHold(u, place, failing) \in Statuses \ {"SCRAPPED", "LOST"}
           /\ StatusAfterHold(u, place, failing) \in {"AVAILABLE", "ASSIGNED"} =>
                ~unit[u].breakdown /\ ~\E s \in failing : UnitOf[s] = u
BY DEF StatusAfterHold, Released, Statuses

\* Where a unit of no repair order and no visit away is.
LEMMA NotAtSupplier ==
    ASSUME IInv, NEW u \in Units, unit[u].at = "SUPPLIER",
           ~Visited(u, {"DISPATCHED"})
    PROVE  order[u].kind = "repair" /\ order[u].issued
BY DEF IInv, UnitAgrees, CustodyOK

LEMMA FewerStages ==
    ASSUME NEW u, NEW more, NEW less, less \subseteq more, ~Visited(u, more)
    PROVE  ~Visited(u, less)
BY DEF Visited

\* Moves of Main Store and of a department's store.
LEMMA MoveStep ==
    ASSUME IInv, NEW u \in Units, NEW place \in Places,
           MoveFromMain(u, place) \/ MoveOwned(u, place)
    PROVE  IInv'
<1>1. CASE MoveFromMain(u, place)
  <2> DEFINE status == StatusAfterHold(u, place, {})
  <2>1. /\ unit' = Placed(u, place, status)
        /\ unit[u].owner = Main /\ place \in {Main, "FLOOR", "AWAY"}
        /\ order[u].kind # "repair" /\ ~Failed(u)
        /\ ~Visited(u, {"DISPATCHED", "RETURNED"})
        /\ UNCHANGED <<order, visit, request, sets, setups, left>>
    BY <1>1 DEF MoveFromMain
  <2>2. unit[u].at # "SUPPLIER" /\ place # "SUPPLIER"
    BY <2>1, FewerStages, NotAtSupplier, StoreAssumption
  <2>3. status \in Statuses \ {"SCRAPPED", "LOST"}
        /\ (status \in {"AVAILABLE", "ASSIGNED"} => ~unit[u].breakdown)
    BY AfterHold
  <2>4. place \in Stores => place = unit[u].owner
    BY <2>1, StoreAssumption
  <2> HIDE DEF status
  <2>5. /\ unit' \in [Units -> Asset]
        /\ \A v \in Units : UnitAgrees(v)'
        /\ SetsAreWhole'
    BY <2>1, <2>2, <2>3, <2>4, PlacedStep
  <2> QED BY <2>1, <2>5 DEF IInv, TypeOK, Asset
<1>2. CASE MoveOwned(u, place)
  <2> DEFINE status == StatusAfterMove(u, place)
  <2>1. /\ unit' = Placed(u, place, status)
        /\ place \in {unit[u].owner, "FLOOR", "AWAY"}
        /\ ~HasOrder(u) /\ ~Failed(u) /\ ~Gone(u)
        /\ ~Visited(u, {"DISPATCHED", "RETURNED"})
        /\ UNCHANGED <<order, visit, request, sets, setups, left>>
    BY <1>2 DEF MoveOwned, MovableByOwner
  <2>2. unit[u] \in Asset
    BY Types DEF IInv
  <2>3. unit[u].at # "SUPPLIER" /\ place # "SUPPLIER"
    BY <2>1, <2>2, FewerStages, NotAtSupplier, StoreAssumption DEF HasOrder, Asset
  <2>4. /\ status \in Statuses \ {"SCRAPPED", "LOST"}
        /\ status \in {"AVAILABLE", "ASSIGNED"} => ~unit[u].breakdown
    BY <2>1, <2>2 DEF StatusAfterMove, Released, Statuses, Asset, Gone, IInv, UnitAgrees,
                      ReleasedOK, Usable
  <2>5. place \in Stores => place = unit[u].owner
    BY <2>1, StoreAssumption
  <2>6. order[u].kind # "repair"
    BY <2>1 DEF HasOrder
  <2> HIDE DEF status
  <2>7. /\ unit' \in [Units -> Asset]
        /\ \A v \in Units : UnitAgrees(v)'
        /\ SetsAreWhole'
    BY <2>1, <2>3, <2>4, <2>5, <2>6, PlacedStep
  <2> QED BY <2>1, <2>7 DEF IInv, TypeOK, Asset
<1> QED BY <1>1, <1>2

\* A breakdown takes the unit from use wherever it is.
LEMMA StartBreakdownStep ==
    ASSUME IInv, NEW u \in Units, StartBreakdown(u)
    PROVE  IInv'
<1> DEFINE new == [unit[u] EXCEPT !.breakdown = TRUE, !.status = "BROKEN"]
<1>1. unit \in [Units -> Asset] /\ unit[u] \in Asset
  BY Types DEF IInv
<1>2. /\ unit' = [unit EXCEPT ![u] = new]
      /\ left' = left - 1 /\ left > 0
      /\ UNCHANGED <<order, visit, request, sets, setups>>
  BY <1>1 DEF StartBreakdown, Open
<1>3. /\ new \in Asset /\ new.status = "BROKEN" /\ new.at = unit[u].at
      /\ new.owner = unit[u].owner
  BY <1>1 DEF Asset, Statuses
<1> HIDE DEF new
<1>4. new.at \in Stores => new.at = new.owner
  BY <1>3 DEF IInv, UnitAgrees, CustodyOK, InStore
<1>5. /\ unit' \in [Units -> Asset]
      /\ \A v \in Units : UnitAgrees(v)'
  BY <1>2, <1>3, <1>4, RowChange DEF Usable
<1>6. SetsAreWhole'
  <2>1. \A v \in UNION sets : unit'[v].owner = unit[v].owner /\ (Gone(v)' => Gone(v))
    <3>1. UNION sets \subseteq Units
      BY DEF IInv, TypeOK
    <3> QED BY <1>1, <1>2, <1>3, <3>1 DEF Gone
  <2> QED BY <1>2, <2>1, SetsKept DEF IInv
<1>7. left' \in Nat
  BY <1>2 DEF IInv, TypeOK
<1> QED BY <1>2, <1>5, <1>6, <1>7 DEF IInv, TypeOK, Asset

\* The end of a breakdown frees the unit when no visit, failure or order does
\* otherwise.
LEMMA CompleteBreakdownStep ==
    ASSUME IInv, NEW u \in Units, CompleteBreakdown(u)
    PROVE  IInv'
<1> DEFINE held == Visited(u, InProgress) \/ Failed(u) \/ HasOrder(u)
           status == IF held THEN "UNDER_MAINTENANCE" ELSE Released(unit[u].at)
           new == [unit[u] EXCEPT !.breakdown = FALSE, !.status = status]
<1>1. unit \in [Units -> Asset] /\ unit[u] \in Asset
  BY Types DEF IInv
<1>2. /\ unit' = [unit EXCEPT ![u] = new]
      /\ UNCHANGED <<order, visit, request, sets, setups, left>>
  BY <1>1 DEF CompleteBreakdown, InProgress
<1>3. status \in Statuses \ {"SCRAPPED", "LOST"}
  BY DEF Statuses, Released
<1>4. status \in {"AVAILABLE", "ASSIGNED"} =>
        /\ ~Failed(u) /\ ~Visited(u, {"DISPATCHED", "RETURNED"})
        /\ order[u].kind # "repair"
  <2>1. ~Visited(u, InProgress) => ~Visited(u, {"DISPATCHED", "RETURNED"})
    BY DEF Visited, InProgress
  <2> QED BY <2>1 DEF HasOrder
<1> HIDE DEF status
<1>5. /\ new \in Asset /\ new.status = status /\ new.at = unit[u].at
      /\ new.owner = unit[u].owner /\ ~new.breakdown
  BY <1>1, <1>3 DEF Asset
<1> HIDE DEF new
<1>6. new.at \in Stores => new.at = new.owner
  BY <1>5 DEF IInv, UnitAgrees, CustodyOK, InStore
<1>7. /\ unit' \in [Units -> Asset]
      /\ \A v \in Units : UnitAgrees(v)'
  BY <1>2, <1>3, <1>4, <1>5, <1>6, RowChange DEF Usable
<1>8. SetsAreWhole'
  <2>1. \A v \in UNION sets : unit'[v].owner = unit[v].owner /\ (Gone(v)' => Gone(v))
    <3>1. UNION sets \subseteq Units
      BY DEF IInv, TypeOK
    <3> QED BY <1>1, <1>2, <1>3, <1>5, <3>1 DEF Gone
  <2> QED BY <1>2, <2>1, SetsKept DEF IInv
<1> QED BY <1>2, <1>7, <1>8 DEF IInv, TypeOK, Asset

\* Lifecycle changes of Main Store, and losses, are not made to gauges of a
\* set or to units that an order or visit holds.
LEMMA LifecycleStep ==
    ASSUME IInv, NEW u \in Units, NEW status,
           \/ SetLifecycleStatus(u, status)
           \/ status = "LOST" /\ \E accident \in BOOLEAN : RecordLoss(u, accident)
    PROVE  IInv'
<1> DEFINE new == [unit[u] EXCEPT !.status = status]
<1>1. unit \in [Units -> Asset] /\ unit[u] \in Asset
  BY Types DEF IInv
<1>2. /\ unit' = [unit EXCEPT ![u] = new]
      /\ UNCHANGED <<order, visit, request, sets, setups>>
      /\ status \in {"BROKEN", "SCRAPPED", "UNDER_MAINTENANCE", "LOST"}
      /\ (left' = left - 1 /\ left > 0) \/ left' = left
  BY <1>1 DEF SetLifecycleStatus, RecordLoss, Open
<1>3. status = "LOST" => ~HasOrder(u) /\ ~Visited(u, InProgress)
  BY DEF SetLifecycleStatus, RecordLoss, InProgress
<1>4. u \notin UNION sets \/ status \notin {"SCRAPPED", "LOST"}
  <2>1. CASE SetLifecycleStatus(u, status)
    BY <2>1, StoreAssumption DEF SetLifecycleStatus, IInv, SetsAreWhole
  <2>2. CASE \E accident \in BOOLEAN : RecordLoss(u, accident)
    BY <2>2 DEF RecordLoss, Grouped
  <2> QED BY <2>1, <2>2
<1>5. /\ new \in Asset /\ new.status = status /\ new.at = unit[u].at
      /\ new.owner = unit[u].owner
  BY <1>1, <1>2 DEF Asset, Statuses
<1> HIDE DEF new
<1>6. new.at \in Stores => new.at = new.owner
  BY <1>5 DEF IInv, UnitAgrees, CustodyOK, InStore
<1>7. /\ unit' \in [Units -> Asset]
      /\ \A v \in Units : UnitAgrees(v)'
  BY <1>2, <1>3, <1>5, <1>6, RowChange DEF Usable
<1>8. SetsAreWhole'
  <2>1. \A v \in UNION sets : unit'[v].owner = unit[v].owner /\ (Gone(v)' => Gone(v))
    <3>1. UNION sets \subseteq Units
      BY DEF IInv, TypeOK
    <3> QED BY <1>1, <1>2, <1>4, <1>5, <3>1 DEF Gone
  <2> QED BY <1>2, <2>1, SetsKept DEF IInv
<1>9. left' \in Nat
  BY <1>2 DEF IInv, TypeOK
<1> QED BY <1>2, <1>7, <1>8, <1>9 DEF IInv, TypeOK, Asset

------------------------------------------------------------------------------
\* A unit without a calibration order has no visit that carries an order, and
\* none that is away.
LEMMA NoCalibration ==
    ASSUME IInv, NEW u \in Units, order[u].kind # "calibration",
           NEW s \in Schedules, UnitOf[s] = u
    PROVE  visit[s].order = "none" /\ visit[s].stage \in {"none", "OPEN"}
<1>1. order[u].schedule = NoSchedule
  BY DEF IInv, UnitAgrees, OrderOK
<1>2. VisitOK(s)
  BY DEF IInv, UnitAgrees
<1>3. visit[s].order = "none"
  BY <1>1, <1>2, StoreAssumption DEF VisitOK
<1>4. visit[s].stage \in {"none", "OPEN", "DISPATCHED", "RETURNED"}
  BY Types DEF IInv, VisitRow
<1> QED BY <1>2, <1>3, <1>4 DEF VisitOK

LEMMA NoVisitAway ==
    ASSUME IInv, NEW u \in Units, order[u].kind # "calibration"
    PROVE  ~Visited(u, {"DISPATCHED", "RETURNED"}) /\ ~Visited(u, {"DISPATCHED"})
BY NoCalibration DEF Visited

\* Only the unit's visit that carries its order is away.
LEMMA OneVisitAway ==
    ASSUME IInv, NEW s \in Schedules, visit[s].order # "none"
    PROVE  /\ order[UnitOf[s]].kind = "calibration"
           /\ order[UnitOf[s]].schedule = s
           /\ \A t \in Schedules \ {s} : UnitOf[t] = UnitOf[s] =>
                visit[t].order = "none" /\ visit[t].stage \in {"none", "OPEN"}
<1>1. UnitOf[s] \in Units
  BY StoreAssumption
<1>2. VisitOK(s) /\ OrderOK(UnitOf[s])
  BY <1>1 DEF IInv, UnitAgrees
<1>3. order[UnitOf[s]].schedule = s /\ order[UnitOf[s]].kind = "calibration"
  BY <1>2, StoreAssumption DEF VisitOK, OrderOK
<1>4. ASSUME NEW t \in Schedules \ {s}, UnitOf[t] = UnitOf[s]
      PROVE  visit[t].order = "none" /\ visit[t].stage \in {"none", "OPEN"}
  <2>1. VisitOK(t)
    BY <1>1, <1>4 DEF IInv, UnitAgrees
  <2>2. visit[t].order = "none"
    BY <1>3, <1>4, <2>1 DEF VisitOK
  <2>3. visit[t].stage \in {"none", "OPEN", "DISPATCHED", "RETURNED"}
    BY Types DEF IInv, VisitRow
  <2> QED BY <2>1, <2>2, <2>3 DEF VisitOK
<1> QED BY <1>3, <1>4

\* A repair is prepared for a unit that nothing holds at a supplier.
LEMMA PrepareRepairStep ==
    ASSUME IInv, NEW u \in Units, PrepareRepair(u)
    PROVE  IInv'
<1> DEFINE new == [NoOrder EXCEPT !.kind = "repair", !.origin = unit[u].owner]
<1>1. /\ unit \in [Units -> Asset] /\ unit[u] \in Asset
      /\ order \in [Units -> OrderRow]
  BY Types DEF IInv
<1>2. /\ order' = [order EXCEPT ![u] = new]
      /\ ~Gone(u) /\ unit[u].at # "SUPPLIER" /\ ~HasOrder(u)
      /\ left' = left - 1 /\ left > 0
      /\ UNCHANGED <<unit, visit, request, sets, setups>>
  BY DEF PrepareRepair, Open
<1>3. /\ new \in OrderRow
      /\ new.kind = "repair" /\ ~new.issued /\ new.schedule = NoSchedule
      /\ new.origin = unit[u].owner
  BY <1>1, StoreAssumption DEF NoOrder, OrderRow, Asset
<1> HIDE DEF new
<1>4. order' \in [Units -> OrderRow] /\ order'[u] = new
  BY <1>1, <1>2, <1>3
<1>5. ASSUME NEW v \in Units, v # u PROVE UnitAgrees(v)'
  BY <1>1, <1>2, <1>5, Untouched DEF IInv
<1>6. UnitAgrees(u)'
  <2>1. \A s \in Schedules : UnitOf[s] = u =>
          visit[s].order = "none" /\ visit[s].stage \in {"none", "OPEN"}
    BY <1>2, NoCalibration DEF HasOrder
  <2>2. UnitAgrees(u)
    BY DEF IInv
  <2>3. /\ \A stages : Visited(u, stages)' <=> Visited(u, stages)
        /\ Failed(u)' <=> Failed(u)
    BY <1>2 DEF Visited, Failed
  <2>4. ReleasedOK(u)'
    BY <1>2, <1>3, <1>4, <2>2, <2>3 DEF UnitAgrees, ReleasedOK
  <2>5. CustodyOK(u)'
    <3>1. ~Visited(u, {"DISPATCHED"})
      BY <2>1 DEF Visited
    <3> QED BY <1>2, <1>3, <1>4, <2>2, <2>3, <3>1 DEF UnitAgrees, CustodyOK, InStore
  <2>6. OrderOK(u)'
    BY <1>3, <1>4 DEF OrderOK
  <2>7. \A s \in Schedules : UnitOf[s] = u => VisitOK(s)'
    BY <1>2, <2>1 DEF VisitOK
  <2>8. LostOK(u)'
    BY <1>2 DEF LostOK, Gone
  <2> QED BY <2>4, <2>5, <2>6, <2>7, <2>8 DEF UnitAgrees
<1>7. SetsAreWhole'
  BY <1>2, SetsKept DEF IInv, Gone
<1>8. left' \in Nat
  BY <1>2 DEF IInv, TypeOK
<1> QED BY <1>2, <1>4, <1>5, <1>6, <1>7, <1>8 DEF IInv, TypeOK, OrderRow

\* An issued repair takes the unit to the supplier.
LEMMA IssueRepairStep ==
    ASSUME IInv, NEW u \in Units, NEW reassign \in BOOLEAN, IssueRepair(u, reassign)
    PROVE  IInv'
<1>1. /\ unit \in [Units -> Asset] /\ unit[u] \in Asset
      /\ order \in [Units -> OrderRow] /\ order[u] \in OrderRow
  BY Types DEF IInv
<1>2. PICK new \in Asset :
        /\ Placed(u, "SUPPLIER", "UNDER_MAINTENANCE") = [unit EXCEPT ![u] = new]
        /\ new.status = "UNDER_MAINTENANCE" /\ new.at = "SUPPLIER"
        /\ new.owner = unit[u].owner /\ new.breakdown = unit[u].breakdown
  BY PlacedRow DEF IInv, Places, Statuses
<1>3. /\ unit' = [unit EXCEPT ![u] = new]
      /\ order' = [order EXCEPT ![u] = [order[u] EXCEPT !.issued = TRUE]]
      /\ order[u].kind = "repair" /\ order[u].origin = unit[u].owner
      /\ UNCHANGED <<visit, sets, setups, left>>
  BY <1>1, <1>2 DEF IssueRepair
<1>4. /\ unit' \in [Units -> Asset] /\ unit'[u] = new
      /\ order' \in [Units -> OrderRow]
      /\ order'[u].kind = "repair" /\ order'[u].issued
      /\ order'[u].origin = unit[u].owner /\ order'[u].schedule = order[u].schedule
  BY <1>1, <1>3 DEF OrderRow
<1>5. ASSUME NEW v \in Units, v # u PROVE UnitAgrees(v)'
  BY <1>1, <1>3, <1>5, Untouched DEF IInv
<1>6. UnitAgrees(u)'
  <2>1. \A s \in Schedules : UnitOf[s] = u =>
          visit[s].order = "none" /\ visit[s].stage \in {"none", "OPEN"}
    BY <1>3, NoCalibration
  <2>2. UnitAgrees(u)
    BY DEF IInv
  <2>3. ReleasedOK(u)'
    BY <1>2, <1>4 DEF ReleasedOK, Usable
  <2>4. CustodyOK(u)'
    BY <1>2, <1>4, StoreAssumption DEF CustodyOK, InStore
  <2>5. OrderOK(u)'
    BY <1>3, <1>4, <2>2 DEF UnitAgrees, OrderOK
  <2>6. \A s \in Schedules : UnitOf[s] = u => VisitOK(s)'
    BY <1>3, <2>1 DEF VisitOK
  <2>7. LostOK(u)'
    BY <1>2, <1>4 DEF LostOK
  <2> QED BY <2>3, <2>4, <2>5, <2>6, <2>7 DEF UnitAgrees
<1>7. SetsAreWhole'
  <2>1. \A v \in UNION sets : unit'[v].owner = unit[v].owner /\ (Gone(v)' => Gone(v))
    <3>1. UNION sets \subseteq Units
      BY DEF IInv, TypeOK
    <3> QED BY <1>1, <1>2, <1>3, <3>1 DEF Gone
  <2> QED BY <1>3, <2>1, SetsKept DEF IInv
<1>8. request' \in [Requests -> RequestRow]
  <2>1. request \in [Requests -> RequestRow]
    BY Types DEF IInv
  <2>2. ASSUME reassign
        PROVE  \E r \in Requests, store \in ReassignmentStores(u) :
                 request' = [request EXCEPT ![r] =
                      [kind |-> "use", units |-> {}, store |-> store, from |-> u]]
    BY <2>2 DEF IssueRepair
  <2>3. ReassignmentStores(u) \subseteq Stores
    BY <1>1 DEF ReassignmentStores, InStore, OrderRow
  <2>4. ~reassign => request' = request
    BY DEF IssueRepair
  <2> QED BY <2>1, <2>2, <2>3, <2>4 DEF RequestRow
<1> QED BY <1>3, <1>4, <1>5, <1>6, <1>7, <1>8
       DEF IInv, TypeOK, Asset, OrderRow, RequestRow

\* A repaired unit comes back to the store that ordered the repair, which still
\* accounts for it; it is at its supplier until then.
LEMMA CompleteRepairStep ==
    ASSUME IInv, NEW u \in Units, CompleteRepair(u)
    PROVE  IInv'
<1> DEFINE place == order[u].origin
           status == IF /\ Visited(u, {"DISPATCHED", "RETURNED"})
                        /\ ~unit[u].breakdown
                     THEN "UNDER_MAINTENANCE"
                     ELSE StatusAfterHold(u, place, Failing)
<1>1. /\ unit \in [Units -> Asset] /\ unit[u] \in Asset
      /\ order \in [Units -> OrderRow] /\ order[u] \in OrderRow
      /\ request \in [Requests -> RequestRow]
      /\ UnitAgrees(u)
  BY Types DEF IInv
<1>2. /\ order[u].kind = "repair" /\ order[u].issued
      /\ unit[u].owner = place /\ ~Gone(u)
      /\ order' = [order EXCEPT ![u] = NoOrder]
      /\ request' = RepointedRequest(u, place)
      /\ UNCHANGED <<visit, sets, setups, left>>
  BY DEF CompleteRepair
<1>3. unit[u].at = "SUPPLIER" /\ place \in Stores /\ place # "SUPPLIER"
  BY <1>1, <1>2, StoreAssumption DEF UnitAgrees, CustodyOK, OrderRow
<1>4. unit' = Placed(u, place, status)
  BY <1>3 DEF CompleteRepair
<1>5. /\ status \in Statuses \ {"SCRAPPED", "LOST"}
      /\ status \in {"AVAILABLE", "ASSIGNED"} => ~unit[u].breakdown /\ ~Failed(u)
  <2>1. StatusAfterHold(u, place, Failing) \in {"AVAILABLE", "ASSIGNED"} =>
          ~unit[u].breakdown /\ ~\E s \in Failing : UnitOf[s] = u
    BY AfterHold
  <2>2. StatusAfterHold(u, place, Failing) \in Statuses \ {"SCRAPPED", "LOST"}
    BY AfterHold
  <2> QED BY <2>1, <2>2 DEF Failing, Failed, Statuses
<1> HIDE DEF status
<1>6. PICK new \in Asset :
        /\ unit' = [unit EXCEPT ![u] = new]
        /\ new.status = status /\ new.at = place
        /\ new.owner = unit[u].owner /\ new.breakdown = unit[u].breakdown
  <2>1. TypeOK /\ place \in Places /\ status \in Statuses
    BY <1>3, <1>5 DEF IInv, Places
  <2> HIDE DEF place
  <2>2. \E new \in Asset :
          /\ Placed(u, place, status) = [unit EXCEPT ![u] = new]
          /\ new.status = status /\ new.at = place
          /\ new.owner = unit[u].owner /\ new.breakdown = unit[u].breakdown
    BY <2>1, PlacedRow
  <2> QED BY <1>4, <2>2
<1> HIDE DEF place
<1>7. /\ unit' \in [Units -> Asset] /\ unit'[u] = new
      /\ order' \in [Units -> OrderRow] /\ order'[u] = NoOrder
  <2>1. NoOrder \in OrderRow
    BY StoreAssumption DEF NoOrder, OrderRow
  <2> QED BY <1>1, <1>2, <1>6, <2>1
<1>8. ASSUME NEW v \in Units, v # u PROVE UnitAgrees(v)'
  BY <1>1, <1>2, <1>6, <1>8, Untouched DEF IInv
<1>9. UnitAgrees(u)'
  <2>1. \A s \in Schedules : UnitOf[s] = u =>
          visit[s].order = "none" /\ visit[s].stage \in {"none", "OPEN"}
    BY <1>2, NoCalibration
  <2>2. /\ ~Visited(u, {"DISPATCHED", "RETURNED"})' /\ ~Visited(u, {"DISPATCHED"})'
        /\ Failed(u)' <=> Failed(u)
    BY <1>2, <2>1 DEF Visited, Failed
  <2>3. ReleasedOK(u)'
    BY <1>3, <1>5, <1>6, <1>7, <2>2 DEF ReleasedOK, Usable, NoOrder
  <2>4. CustodyOK(u)'
    BY <1>2, <1>3, <1>6, <1>7, <2>2 DEF CustodyOK, InStore, NoOrder, HasOrder
  <2>5. OrderOK(u)'
    BY <1>7 DEF OrderOK, NoOrder
  <2>6. \A s \in Schedules : UnitOf[s] = u => VisitOK(s)'
    BY <1>2, <2>1 DEF VisitOK
  <2>7. LostOK(u)'
    BY <1>5, <1>6, <1>7 DEF LostOK
  <2> QED BY <2>3, <2>4, <2>5, <2>6, <2>7 DEF UnitAgrees
<1>10. SetsAreWhole'
  <2>1. \A v \in UNION sets : unit'[v].owner = unit[v].owner /\ (Gone(v)' => Gone(v))
    <3>1. UNION sets \subseteq Units
      BY DEF IInv, TypeOK
    <3> QED BY <1>1, <1>5, <1>6, <3>1 DEF Gone
  <2> QED BY <1>2, <2>1, SetsKept DEF IInv
<1>11. request' \in [Requests -> RequestRow]
  <2>1. ASSUME NEW r \in Requests, NEW store \in Stores
        PROVE  [request[r] EXCEPT !.from = NoUnit, !.store = store] \in RequestRow
    <3>1. request[r] \in RequestRow
      BY <1>1
    <3> QED BY <3>1 DEF RequestRow
  <2>2. \A r \in Requests : request[r] \in RequestRow /\ request[r].store \in Stores
    BY <1>1 DEF RequestRow
  <2> DEFINE store(r) == IF \E x \in Units : /\ unit'[x].at = request[r].store
                                            /\ unit'[x].status = "AVAILABLE"
                                            /\ order[x].kind = "none"
                         THEN request[r].store ELSE place
  <2>3. \A r \in Requests : store(r) \in Stores
    BY <1>3, <2>2
  <2>4. request' = [r \in Requests |->
                      IF request[r].from # u THEN request[r]
                      ELSE [request[r] EXCEPT !.from = NoUnit, !.store = store(r)]]
    BY <1>2 DEF RepointedRequest
  <2> HIDE DEF store
  <2> QED BY <2>1, <2>2, <2>3, <2>4
<1> QED BY <1>2, <1>7, <1>8, <1>9, <1>10, <1>11
       DEF IInv, TypeOK, Asset, OrderRow, RequestRow

------------------------------------------------------------------------------
\* The row of one timetable changes, and with it perhaps the unit's row and
\* order: what the timetable and its unit must satisfy.
LEMMA VisitStep ==
    ASSUME IInv, NEW s \in Schedules,
           NEW asset \in Asset, NEW service \in OrderRow, NEW new \in VisitRow,
           unit' = [unit EXCEPT ![UnitOf[s]] = asset],
           order' = [order EXCEPT ![UnitOf[s]] = service],
           visit' = [visit EXCEPT ![s] = new],
           UNCHANGED <<request, sets, setups>>, left' \in Nat,
           asset.owner = unit[UnitOf[s]].owner,
           asset.status \in {"SCRAPPED", "LOST"} => asset.status = unit[UnitOf[s]].status,
           ReleasedOK(UnitOf[s])', CustodyOK(UnitOf[s])', OrderOK(UnitOf[s])',
           VisitOK(s)', LostOK(UnitOf[s])',
           \A t \in Schedules \ {s} : UnitOf[t] = UnitOf[s] /\
             visit[t].order # "none" =>
               service.schedule = order[UnitOf[s]].schedule
               /\ service.issued = order[UnitOf[s]].issued
    PROVE  IInv'
<1> DEFINE u == UnitOf[s]
<1>1. /\ unit \in [Units -> Asset] /\ order \in [Units -> OrderRow]
      /\ visit \in [Schedules -> VisitRow] /\ u \in Units
  BY Types, StoreAssumption DEF IInv
<1>2. /\ unit' \in [Units -> Asset] /\ unit'[u] = asset
      /\ order' \in [Units -> OrderRow] /\ order'[u] = service
      /\ visit' \in [Schedules -> VisitRow] /\ visit'[s] = new
  BY <1>1
<1>3. ASSUME NEW v \in Units, v # u PROVE UnitAgrees(v)'
  BY <1>1, <1>3, Untouched DEF IInv
<1>4. UnitAgrees(u)'
  <2>1. ASSUME NEW t \in Schedules, UnitOf[t] = u PROVE VisitOK(t)'
    <3>1. CASE t = s
      BY <3>1
    <3>2. CASE t # s
      <4>1. visit'[t] = visit[t] /\ VisitOK(t)
        BY <1>1, <2>1, <3>2 DEF IInv, UnitAgrees
      <4>2. visit[t].order # "none" =>
              service.schedule = order[u].schedule /\ service.issued = order[u].issued
        BY <2>1, <3>2
      <4> QED BY <1>2, <2>1, <4>1, <4>2 DEF VisitOK
    <3> QED BY <3>1, <3>2
  <2> QED BY <2>1 DEF UnitAgrees
<1>5. SetsAreWhole'
  <2>1. \A v \in UNION sets : unit'[v].owner = unit[v].owner /\ (Gone(v)' => Gone(v))
    <3>1. UNION sets \subseteq Units
      BY DEF IInv, TypeOK
    <3> QED BY <1>1, <1>2, <3>1 DEF Gone
  <2> QED BY <2>1, SetsKept DEF IInv
<1> QED BY <1>2, <1>3, <1>4, <1>5 DEF IInv, TypeOK, Asset, OrderRow, VisitRow

\* What the holds of a unit are after the row of one timetable changed.
LEMMA HoldsAfter ==
    ASSUME IInv, NEW s \in Schedules, NEW new, visit' = [visit EXCEPT ![s] = new]
    PROVE  LET u == UnitOf[s] IN
           /\ visit'[s] = new
           /\ \A stages : Visited(u, stages)' <=>
                \/ new.stage \in stages
                \/ \E t \in Schedules \ {s} : UnitOf[t] = u /\ visit[t].stage \in stages
           /\ Failed(u)' <=>
                \/ new.failed
                \/ \E t \in Schedules \ {s} : UnitOf[t] = u /\ visit[t].failed
<1>1. visit \in [Schedules -> VisitRow]
  BY Types DEF IInv
<1>2. visit'[s] = new /\ \A t \in Schedules \ {s} : visit'[t] = visit[t]
  BY <1>1
<1>3. \A stages : Visited(UnitOf[s], stages)' <=>
        \/ new.stage \in stages
        \/ \E t \in Schedules \ {s} : UnitOf[t] = UnitOf[s] /\ visit[t].stage \in stages
  BY <1>2 DEF Visited
<1>4. Failed(UnitOf[s])' <=>
        \/ new.failed
        \/ \E t \in Schedules \ {s} : UnitOf[t] = UnitOf[s] /\ visit[t].failed
  BY <1>2 DEF Failed
<1> QED BY <1>2, <1>3, <1>4

\* The rows of a timetable and of its unit.
LEMMA RowsOf ==
    ASSUME IInv, NEW s \in Schedules
    PROVE  LET u == UnitOf[s] IN
           /\ unit \in [Units -> Asset] /\ order \in [Units -> OrderRow]
           /\ visit \in [Schedules -> VisitRow] /\ u \in Units
           /\ unit[u] \in Asset /\ order[u] \in OrderRow /\ visit[s] \in VisitRow
           /\ UnitAgrees(u) /\ VisitOK(s)
<1>1. UnitOf[s] \in Units
  BY StoreAssumption
<1>2. /\ unit \in [Units -> Asset] /\ order \in [Units -> OrderRow]
      /\ visit \in [Schedules -> VisitRow]
  BY Types DEF IInv
<1>3. UnitAgrees(UnitOf[s]) /\ VisitOK(s)
  BY <1>1 DEF IInv, UnitAgrees
<1> QED BY <1>1, <1>2, <1>3

\* A visit is opened for a unit that is in use or under maintenance.
LEMMA OpenVisitStep ==
    ASSUME IInv, NEW s \in Schedules, NEW method \in {"SUPPLIER", "IN_HOUSE"},
           OpenVisit(s, method)
    PROVE  IInv'
<1> DEFINE u == UnitOf[s]
           new == [visit[s] EXCEPT !.stage = "OPEN", !.method = method]
<1>1. /\ unit \in [Units -> Asset] /\ order \in [Units -> OrderRow]
      /\ visit \in [Schedules -> VisitRow] /\ u \in Units
      /\ unit[u] \in Asset /\ order[u] \in OrderRow /\ visit[s] \in VisitRow
      /\ UnitAgrees(u) /\ VisitOK(s)
  BY RowsOf
<1>2. /\ visit[s].stage = "none" /\ unit[u].status # "LOST"
      /\ visit' = [visit EXCEPT ![s] = new]
      /\ left' = left - 1 /\ left > 0
      /\ UNCHANGED <<unit, order, request, sets, setups>>
  BY <1>1 DEF OpenVisit, Open
<1>3. /\ new \in VisitRow /\ new.stage = "OPEN"
      /\ new.order = visit[s].order /\ new.failed = visit[s].failed
  BY <1>1 DEF VisitRow
<1> HIDE DEF new
<1>4. /\ visit'[s] = new
      /\ Failed(u)' <=> Failed(u)
      /\ \A stages : "OPEN" \notin stages /\ "none" \notin stages =>
           (Visited(u, stages)' <=> Visited(u, stages))
  <2>1. /\ visit'[s] = new
        /\ \A stages : Visited(u, stages)' <=>
             \/ new.stage \in stages
             \/ \E t \in Schedules \ {s} : UnitOf[t] = u /\ visit[t].stage \in stages
        /\ Failed(u)' <=>
             \/ new.failed
             \/ \E t \in Schedules \ {s} : UnitOf[t] = u /\ visit[t].failed
    BY <1>2, HoldsAfter
  <2>2. Failed(u)' <=> Failed(u)
    BY <1>3, <2>1 DEF Failed
  <2>3. ASSUME NEW stages, "OPEN" \notin stages, "none" \notin stages
        PROVE  Visited(u, stages)' <=> Visited(u, stages)
    BY <1>2, <1>3, <2>1, <2>3 DEF Visited
  <2> QED BY <2>1, <2>2, <2>3
<1>5. ReleasedOK(u)' /\ CustodyOK(u)'
  <2>1. ReleasedOK(u)'
    BY <1>1, <1>2, <1>4 DEF UnitAgrees, ReleasedOK
  <2>2. CustodyOK(u)'
    BY <1>1, <1>2, <1>4 DEF UnitAgrees, CustodyOK, InStore, HasOrder
  <2> QED BY <2>1, <2>2
<1>6. OrderOK(u)'
  <2>1. \A t \in Schedules :
          /\ visit'[t].order = visit[t].order
          /\ visit'[t].failed <=> visit[t].failed
          /\ visit'[t].stage = visit[t].stage \/ visit'[t].stage = "OPEN"
    BY <1>1, <1>2, <1>3
  <2>2. OrderOK(u) /\ order' = order
    BY <1>1, <1>2 DEF UnitAgrees
  <2> QED BY <1>1, <2>1, <2>2 DEF OrderOK
<1>7. VisitOK(s)'
  BY <1>1, <1>2, <1>3, <1>4 DEF VisitOK
<1>8. LostOK(u)'
  BY <1>2 DEF LostOK
<1>9. unit' = [unit EXCEPT ![u] = unit[u]] /\ order' = [order EXCEPT ![u] = order[u]]
  BY <1>1, <1>2
<1>10. left' \in Nat
  BY <1>2 DEF IInv, TypeOK
<1> QED BY <1>1, <1>2, <1>3, <1>5, <1>6, <1>7, <1>8, <1>9, <1>10, VisitStep

\* A cancelled visit takes its own order with it; an order that an earlier
\* failure keeps open stays for the next visit.
LEMMA CancelVisitStep ==
    ASSUME IInv, NEW s \in Schedules, CancelVisit(s)
    PROVE  IInv'
<1> DEFINE u == UnitOf[s]
           new == [NoVisit EXCEPT !.failed = visit[s].failed]
           service == IF visit[s].order = "own" THEN NoOrder ELSE order[u]
<1>1. /\ unit \in [Units -> Asset] /\ order \in [Units -> OrderRow]
      /\ visit \in [Schedules -> VisitRow] /\ u \in Units
      /\ unit[u] \in Asset /\ order[u] \in OrderRow /\ visit[s] \in VisitRow
      /\ UnitAgrees(u) /\ VisitOK(s)
  BY RowsOf
<1>2. /\ visit[s].stage = "OPEN"
      /\ visit[s].order = "own" => ~order[u].issued
      /\ visit' = [visit EXCEPT ![s] = new]
      /\ order' = [order EXCEPT ![u] = service]
      /\ unit' = [unit EXCEPT ![u] = unit[u]]
      /\ UNCHANGED <<unit, request, sets, setups, left>>
  BY <1>1 DEF CancelVisit
<1>3. /\ new \in VisitRow /\ new.stage = "none" /\ new.order = "none"
      /\ new.failed = visit[s].failed
  BY <1>1 DEF VisitRow, NoVisit
<1>4. service \in OrderRow /\ order'[u] = service
  <2>1. NoOrder \in OrderRow
    BY StoreAssumption DEF NoOrder, OrderRow
  <2> QED BY <1>1, <1>2, <2>1
<1> HIDE DEF new, service
<1>5. /\ visit'[s] = new
      /\ Failed(u)' <=> Failed(u)
      /\ \A stages : "OPEN" \notin stages /\ "none" \notin stages =>
           (Visited(u, stages)' <=> Visited(u, stages))
      /\ Visited(u, InProgress)' => Visited(u, InProgress)
  <2>1. /\ visit'[s] = new
        /\ \A stages : Visited(u, stages)' <=>
             \/ new.stage \in stages
             \/ \E t \in Schedules \ {s} : UnitOf[t] = u /\ visit[t].stage \in stages
        /\ Failed(u)' <=>
             \/ new.failed
             \/ \E t \in Schedules \ {s} : UnitOf[t] = u /\ visit[t].failed
    BY <1>2, HoldsAfter
  <2>2. Failed(u)' <=> Failed(u)
    BY <1>3, <2>1 DEF Failed
  <2>3. ASSUME NEW stages, "OPEN" \notin stages, "none" \notin stages
        PROVE  Visited(u, stages)' <=> Visited(u, stages)
    BY <1>2, <1>3, <2>1, <2>3 DEF Visited
  <2>4. Visited(u, InProgress)' => Visited(u, InProgress)
    BY <1>3, <2>1 DEF Visited, InProgress
  <2> QED BY <2>1, <2>2, <2>3, <2>4
<1>6. /\ visit[s].order = "own" => service = NoOrder /\ order[u].kind = "calibration"
                                   /\ ~order[u].issued
      /\ visit[s].order # "own" => service = order[u]
      /\ \A t \in Schedules \ {s} : UnitOf[t] = u /\
           visit[s].order = "own" => visit[t].order = "none"
  BY <1>2, OneVisitAway DEF service
<1>7. ReleasedOK(u)'
  BY <1>1, <1>2, <1>4, <1>5, <1>6 DEF UnitAgrees, ReleasedOK, NoOrder
<1>8. CustodyOK(u)'
  BY <1>1, <1>2, <1>4, <1>5, <1>6 DEF UnitAgrees, CustodyOK, InStore, HasOrder, NoOrder
<1>9. OrderOK(u)'
  <2>1. CASE visit[s].order = "own"
    BY <1>4, <1>6, <2>1 DEF OrderOK, NoOrder
  <2>2. CASE visit[s].order # "own"
    <3>1. order'[u] = order[u]
      BY <1>4, <1>6, <2>2
    <3>2. order[u].schedule = s /\ order[u].kind = "calibration" =>
            order[u].issued /\ visit[s].failed
      BY <1>1, <2>2 DEF UnitAgrees, OrderOK
    <3>3. \A t \in Schedules \ {s} : visit'[t] = visit[t]
      BY <1>1, <1>2
    <3>4. visit'[s] = new
      BY <1>5
    <3> QED BY <1>1, <1>3, <3>1, <3>2, <3>3, <3>4 DEF UnitAgrees, OrderOK
  <2> QED BY <2>1, <2>2
<1>10. VisitOK(s)'
  BY <1>3, <1>5 DEF VisitOK
<1>11. LostOK(u)'
  BY <1>1, <1>2, <1>4, <1>5, <1>6 DEF UnitAgrees, LostOK, HasOrder, NoOrder
<1>12. left' \in Nat
  BY <1>2 DEF IInv, TypeOK
<1> QED BY <1>1, <1>2, <1>3, <1>4, <1>6, <1>7, <1>8, <1>9, <1>10, <1>11, <1>12, VisitStep

\* The order of a dispatch: the one an earlier failure left open, or a new one
\* for a unit that has none.
LEMMA PrepareDispatchStep ==
    ASSUME IInv, NEW s \in Schedules, PrepareDispatch(s)
    PROVE  IInv'
<1> DEFINE u == UnitOf[s]
           carrier == IF RetryOrder(s) THEN "retry" ELSE "own"
           new == [visit[s] EXCEPT !.order = carrier]
           service == IF RetryOrder(s) THEN order[u]
                      ELSE [kind |-> "calibration", issued |-> FALSE,
                            origin |-> unit[u].owner, schedule |-> s]
<1>1. /\ unit \in [Units -> Asset] /\ order \in [Units -> OrderRow]
      /\ visit \in [Schedules -> VisitRow] /\ u \in Units
      /\ unit[u] \in Asset /\ order[u] \in OrderRow /\ visit[s] \in VisitRow
      /\ UnitAgrees(u) /\ VisitOK(s)
  BY RowsOf
<1>2. /\ visit[s].stage = "OPEN" /\ visit[s].method = "SUPPLIER"
      /\ visit[s].order = "none"
      /\ RetryOrder(s) \/ ~HasOrder(u)
      /\ visit' = [visit EXCEPT ![s] = new]
      /\ order' = [order EXCEPT ![u] = service]
      /\ unit' = [unit EXCEPT ![u] = unit[u]]
      /\ UNCHANGED <<unit, request, sets, setups, left>>
  <2>1. CASE RetryOrder(s)
    BY <1>1, <2>1 DEF PrepareDispatch
  <2>2. CASE ~RetryOrder(s)
    BY <1>1, <2>2 DEF PrepareDispatch
  <2> QED BY <2>1, <2>2
<1>3. /\ new \in VisitRow /\ new.stage = "OPEN" /\ new.method = "SUPPLIER"
      /\ new.order = carrier /\ new.failed = visit[s].failed
  BY <1>1, <1>2 DEF VisitRow
<1>4. service \in OrderRow /\ order'[u] = service
  BY <1>1, <1>2 DEF OrderRow, Asset
<1>5. /\ RetryOrder(s) => /\ service = order[u] /\ service.issued
                          /\ carrier = "retry" /\ visit[s].failed
      /\ ~RetryOrder(s) => /\ carrier = "own" /\ ~HasOrder(u) /\ ~service.issued
      /\ service.kind = "calibration" /\ service.schedule = s
      /\ service.origin = unit[u].owner
  BY <1>2 DEF RetryOrder
<1> HIDE DEF new, service, carrier
<1>6. /\ visit'[s] = new
      /\ Failed(u)' <=> Failed(u)
      /\ \A stages : Visited(u, stages)' <=> Visited(u, stages)
  <2>1. /\ visit'[s] = new
        /\ \A stages : Visited(u, stages)' <=>
             \/ new.stage \in stages
             \/ \E t \in Schedules \ {s} : UnitOf[t] = u /\ visit[t].stage \in stages
        /\ Failed(u)' <=>
             \/ new.failed
             \/ \E t \in Schedules \ {s} : UnitOf[t] = u /\ visit[t].failed
    BY <1>2, HoldsAfter
  <2>2. Failed(u)' <=> Failed(u)
    BY <1>3, <2>1 DEF Failed
  <2>3. ASSUME NEW stages PROVE Visited(u, stages)' <=> Visited(u, stages)
    BY <1>2, <1>3, <2>1 DEF Visited
  <2> QED BY <2>1, <2>2, <2>3
<1>7. ~RetryOrder(s) => \A t \in Schedules : UnitOf[t] = u => visit[t].order = "none"
  BY <1>1, <1>5, NoCalibration DEF HasOrder
<1>8. ReleasedOK(u)'
  BY <1>1, <1>2, <1>4, <1>5, <1>6 DEF UnitAgrees, ReleasedOK
<1>9. CustodyOK(u)'
  <2>1. order[u].kind = "repair" => FALSE
    BY <1>1, <1>2 DEF RetryOrder, HasOrder, UnitAgrees, OrderOK
  <2> QED BY <1>1, <1>2, <1>4, <1>5, <1>6, <2>1 DEF UnitAgrees, CustodyOK, InStore, HasOrder
<1>10. OrderOK(u)'
  BY <1>3, <1>4, <1>5, <1>6 DEF OrderOK
<1>11. VisitOK(s)'
  BY <1>3, <1>4, <1>5, <1>6 DEF VisitOK
<1>12. LostOK(u)'
  <2>1. unit[u].status # "LOST"
    BY <1>1, <1>2 DEF UnitAgrees, LostOK, Visited, InProgress
  <2> QED BY <1>2, <2>1 DEF LostOK
<1>13. left' \in Nat
  BY <1>2 DEF IInv, TypeOK
<1>14. \A t \in Schedules \ {s} : UnitOf[t] = u /\
         visit[t].order # "none" =>
           service.schedule = order[u].schedule /\ service.issued = order[u].issued
  BY <1>5, <1>7
<1> QED BY <1>1, <1>2, <1>3, <1>4, <1>8, <1>9, <1>10, <1>11, <1>12, <1>13, <1>14, VisitStep

\* Issuing the order of an open visit.
LEMMA IssueServiceOrderStep ==
    ASSUME IInv, NEW s \in Schedules, IssueServiceOrder(s)
    PROVE  IInv'
<1> DEFINE u == UnitOf[s]
           service == [order[u] EXCEPT !.issued = TRUE]
<1>1. /\ unit \in [Units -> Asset] /\ order \in [Units -> OrderRow]
      /\ visit \in [Schedules -> VisitRow] /\ u \in Units
      /\ unit[u] \in Asset /\ order[u] \in OrderRow /\ visit[s] \in VisitRow
      /\ UnitAgrees(u) /\ VisitOK(s)
  BY RowsOf
<1>2. /\ visit[s].stage = "OPEN" /\ visit[s].order # "none"
      /\ visit' = [visit EXCEPT ![s] = visit[s]]
      /\ order' = [order EXCEPT ![u] = service]
      /\ unit' = [unit EXCEPT ![u] = unit[u]]
      /\ UNCHANGED <<unit, visit, request, sets, setups, left>>
  BY <1>1 DEF IssueServiceOrder
<1>3. /\ service \in OrderRow /\ service.issued /\ order'[u] = service
      /\ service.kind = order[u].kind /\ service.schedule = order[u].schedule
      /\ service.origin = order[u].origin
  BY <1>1, <1>2 DEF OrderRow
<1> HIDE DEF service
<1>4. /\ order[u].kind = "calibration" /\ order[u].schedule = s
      /\ \A t \in Schedules \ {s} : UnitOf[t] = u => visit[t].order = "none"
  BY <1>2, OneVisitAway
<1>5. /\ Failed(u)' <=> Failed(u)
      /\ \A stages : Visited(u, stages)' <=> Visited(u, stages)
  BY <1>2 DEF Failed, Visited
<1>6. ReleasedOK(u)'
  BY <1>1, <1>2, <1>3, <1>4, <1>5 DEF UnitAgrees, ReleasedOK
<1>7. CustodyOK(u)'
  BY <1>1, <1>2, <1>3, <1>4, <1>5 DEF UnitAgrees, CustodyOK, InStore, HasOrder
<1>8. OrderOK(u)'
  <2>1. visit' = visit /\ OrderOK(u)
    BY <1>1, <1>2 DEF UnitAgrees
  <2> QED BY <1>3, <1>4, <2>1 DEF OrderOK
<1>9. VisitOK(s)'
  BY <1>1, <1>2, <1>3 DEF VisitOK
<1>10. LostOK(u)'
  BY <1>1, <1>2, <1>3, <1>5 DEF UnitAgrees, LostOK, HasOrder
<1>11. left' \in Nat
  BY <1>2 DEF IInv, TypeOK
<1> QED BY <1>1, <1>2, <1>3, <1>4, <1>6, <1>7, <1>8, <1>9, <1>10, <1>11, VisitStep

\* A dispatched unit is at the supplier of its issued order, and a returned one
\* in the store of that order: the visit's order decides both.
LEMMA DispatchReturnStep ==
    ASSUME IInv, NEW s \in Schedules, Dispatch(s) \/ ReturnVisit(s)
    PROVE  IInv'
<1> DEFINE u == UnitOf[s]
           away == Dispatch(s)
           place == IF away THEN "SUPPLIER" ELSE order[u].origin
           new == [visit[s] EXCEPT !.stage = IF away THEN "DISPATCHED" ELSE "RETURNED"]
<1>1. /\ unit \in [Units -> Asset] /\ order \in [Units -> OrderRow]
      /\ visit \in [Schedules -> VisitRow] /\ u \in Units
      /\ unit[u] \in Asset /\ order[u] \in OrderRow /\ visit[s] \in VisitRow
      /\ UnitAgrees(u) /\ VisitOK(s)
  BY RowsOf
<1>2. /\ visit[s].stage \in {"OPEN", "DISPATCHED"}
      /\ order[u].origin = unit[u].owner /\ order[u].issued
      /\ unit' = Placed(u, place, "UNDER_MAINTENANCE")
      /\ visit' = [visit EXCEPT ![s] = new]
      /\ order' = [order EXCEPT ![u] = order[u]]
      /\ UNCHANGED <<order, request, sets, setups, left>>
  <2>1. CASE Dispatch(s)
    BY <1>1, <2>1 DEF Dispatch
  <2>2. CASE ~Dispatch(s)
    BY <1>1, <2>2 DEF ReturnVisit
  <2> QED BY <2>1, <2>2
<1>3. visit[s].order # "none"
  BY <1>1 DEF Dispatch, ReturnVisit, VisitOK
<1>4. /\ place \in Places
      /\ ~away => place \in Stores /\ place = unit[u].owner /\ place # "SUPPLIER"
      /\ away => place = "SUPPLIER"
  BY <1>1, <1>2, StoreAssumption DEF Places, OrderRow
<1>5. /\ new \in VisitRow /\ new.order = visit[s].order
      /\ new.failed = visit[s].failed /\ new.method = visit[s].method
      /\ away => new.stage = "DISPATCHED"
      /\ ~away => new.stage = "RETURNED"
  BY <1>1 DEF VisitRow
<1>6. PICK asset \in Asset :
        /\ unit' = [unit EXCEPT ![u] = asset]
        /\ asset.status = "UNDER_MAINTENANCE" /\ asset.at = place
        /\ asset.owner = unit[u].owner /\ asset.breakdown = unit[u].breakdown
  <2>1. "UNDER_MAINTENANCE" \in Statuses
    BY DEF Statuses
  <2>2. TypeOK /\ u \in Units /\ place \in Places
    BY <1>1, <1>4 DEF IInv
  <2>3. unit' = Placed(u, place, "UNDER_MAINTENANCE")
    BY <1>2
  <2> HIDE DEF u, place
  <2> QED BY <2>1, <2>2, <2>3, PlacedRow
<1>7. unit'[u] = asset
  BY <1>1, <1>6
<1>8. /\ order[u].kind = "calibration" /\ order[u].schedule = s
      /\ \A t \in Schedules \ {s} : UnitOf[t] = u =>
           visit[t].order = "none" /\ visit[t].stage \in {"none", "OPEN"}
  BY <1>3, OneVisitAway
<1> HIDE DEF new, away, place
<1>9. /\ visit'[s] = new
      /\ Visited(u, {"DISPATCHED"})' <=> away
  <2>1. /\ visit'[s] = new
        /\ \A stages : Visited(u, stages)' <=>
             \/ new.stage \in stages
             \/ \E t \in Schedules \ {s} : UnitOf[t] = u /\ visit[t].stage \in stages
    BY <1>2, HoldsAfter
  <2> QED BY <1>5, <1>8, <2>1
<1>10. ReleasedOK(u)'
  BY <1>6, <1>7 DEF ReleasedOK, Usable
<1>11. CustodyOK(u)'
  <2>1. InStore(u)' => unit'[u].at = unit'[u].owner
    BY <1>4, <1>6, <1>7, StoreAssumption DEF InStore
  <2> QED BY <1>2, <1>4, <1>6, <1>7, <1>8, <1>9, <2>1 DEF CustodyOK, HasOrder
<1>12. OrderOK(u)'
  BY <1>1, <1>2, <1>5, <1>8, <1>9 DEF UnitAgrees, OrderOK
<1>13. VisitOK(s)'
  BY <1>1, <1>2, <1>3, <1>5, <1>9 DEF VisitOK
<1>14. LostOK(u)'
  BY <1>6, <1>7 DEF LostOK
<1>15. left' \in Nat
  BY <1>2 DEF IInv, TypeOK
<1> QED BY <1>1, <1>2, <1>5, <1>6, <1>8, <1>10, <1>11, <1>12, <1>13, <1>14, <1>15, VisitStep

\* An in-house calibration has no order of its own.  A failure keeps the unit
\* from use; a pass frees it when no breakdown or other failure is left.
LEMMA CompleteInHouseStep ==
    ASSUME IInv, NEW s \in Schedules, NEW passed \in BOOLEAN, CompleteInHouse(s, passed)
    PROVE  IInv'
<1> DEFINE u == UnitOf[s]
           new == [NoVisit EXCEPT !.failed = ~passed]
           status == IF passed THEN StatusAfterHold(u, unit[u].at, Failing \ {s})
                     ELSE "UNDER_MAINTENANCE"
           asset == [unit[u] EXCEPT !.status = status]
<1>1. /\ unit \in [Units -> Asset] /\ order \in [Units -> OrderRow]
      /\ visit \in [Schedules -> VisitRow] /\ u \in Units
      /\ unit[u] \in Asset /\ order[u] \in OrderRow /\ visit[s] \in VisitRow
      /\ UnitAgrees(u) /\ VisitOK(s)
  BY RowsOf
<1>2. /\ visit[s].stage = "OPEN" /\ visit[s].method = "IN_HOUSE"
      /\ unit[u].status # "LOST" /\ unit[u].at \in Stores \union {"FLOOR"}
      /\ passed => ~HasOrder(u)
      /\ visit' = [visit EXCEPT ![s] = new]
      /\ unit' = [unit EXCEPT ![u] = asset]
      /\ order' = [order EXCEPT ![u] = order[u]]
      /\ UNCHANGED <<order, request, sets, setups, left>>
  BY <1>1 DEF CompleteInHouse
<1>3. /\ new \in VisitRow /\ new.stage = "none" /\ new.order = "none"
      /\ new.failed = ~passed
  BY DEF VisitRow, NoVisit
<1>4. /\ status \in Statuses \ {"SCRAPPED", "LOST"}
      /\ status \in {"AVAILABLE", "ASSIGNED"} =>
           /\ passed /\ ~unit[u].breakdown
           /\ \A t \in Schedules \ {s} : UnitOf[t] = u => ~visit[t].failed
  <2>1. /\ StatusAfterHold(u, unit[u].at, Failing \ {s}) \in Statuses \ {"SCRAPPED", "LOST"}
        /\ StatusAfterHold(u, unit[u].at, Failing \ {s}) \in {"AVAILABLE", "ASSIGNED"} =>
             ~unit[u].breakdown /\ ~\E t \in Failing \ {s} : UnitOf[t] = u
    BY <1>1, AfterHold
  <2> QED BY <2>1 DEF Failing, Statuses
<1> HIDE DEF status, new
<1>5. /\ asset \in Asset /\ asset.status = status /\ asset.at = unit[u].at
      /\ asset.owner = unit[u].owner /\ asset.breakdown = unit[u].breakdown
  BY <1>1, <1>4 DEF Asset
<1> HIDE DEF asset
<1>6. unit'[u] = asset
  BY <1>1, <1>2
<1>7. visit[s].order = "none"
  BY <1>1, <1>2 DEF VisitOK
<1>8. /\ visit'[s] = new
      /\ Failed(u)' => ~passed \/ \E t \in Schedules \ {s} : UnitOf[t] = u /\ visit[t].failed
      /\ \A stages : "OPEN" \notin stages /\ "none" \notin stages =>
           (Visited(u, stages)' <=> Visited(u, stages))
  <2>1. /\ visit'[s] = new
        /\ \A stages : Visited(u, stages)' <=>
             \/ new.stage \in stages
             \/ \E t \in Schedules \ {s} : UnitOf[t] = u /\ visit[t].stage \in stages
        /\ Failed(u)' <=>
             \/ new.failed
             \/ \E t \in Schedules \ {s} : UnitOf[t] = u /\ visit[t].failed
    BY <1>2, HoldsAfter
  <2>2. ASSUME NEW stages, "OPEN" \notin stages, "none" \notin stages
        PROVE  Visited(u, stages)' <=> Visited(u, stages)
    BY <1>2, <1>3, <2>1, <2>2 DEF Visited
  <2> QED BY <1>3, <2>1, <2>2
<1>9. passed => order[u].kind = "none" /\ ~Visited(u, {"DISPATCHED", "RETURNED"})
  BY <1>1, <1>2, NoVisitAway DEF HasOrder
<1>10. ReleasedOK(u)'
  <2>1. asset.at # "SUPPLIER"
    BY <1>2, <1>5, StoreAssumption
  <2> QED BY <1>2, <1>4, <1>5, <1>6, <1>8, <1>9, <2>1 DEF ReleasedOK, Usable
<1>11. CustodyOK(u)'
  BY <1>1, <1>2, <1>5, <1>6, <1>8 DEF UnitAgrees, CustodyOK, InStore, HasOrder
<1>12. OrderOK(u)'
  <2>1. OrderOK(u) /\ order'[u] = order[u]
    BY <1>1, <1>2 DEF UnitAgrees
  <2>2. \A t \in Schedules \ {s} : visit'[t] = visit[t]
    BY <1>1, <1>2
  <2>3. order[u].kind = "calibration" /\ order[u].schedule = s =>
          order[u].issued /\ ~passed
    BY <1>7, <1>9, <2>1 DEF OrderOK
  <2> HIDE DEF u
  <2>4. CASE order[u].kind = "calibration" /\ order[u].schedule = s
    BY <1>3, <1>8, <2>1, <2>3, <2>4 DEF OrderOK
  <2>5. CASE ~(order[u].kind = "calibration" /\ order[u].schedule = s)
    BY <2>1, <2>2, <2>5 DEF OrderOK
  <2> QED BY <2>4, <2>5
<1>13. VisitOK(s)'
  BY <1>3, <1>8 DEF VisitOK
<1>14. LostOK(u)'
  BY <1>4, <1>5, <1>6 DEF LostOK
<1> QED
  <2>1. left' \in Nat
    BY <1>2 DEF IInv, TypeOK
  <2> QED BY <1>1, <1>2, <1>3, <1>4, <1>5, <1>10, <1>11, <1>12, <1>13, <1>14, <2>1, VisitStep

\* A supplier's certificate: a pass ends the order with the visit; after a
\* failure the issued order stays for a corrective visit.
LEMMA CompleteVisitStep ==
    ASSUME IInv, NEW s \in Schedules, NEW passed \in BOOLEAN, CompleteVisit(s, passed)
    PROVE  IInv'
<1> DEFINE u == UnitOf[s]
           new == [NoVisit EXCEPT !.failed = ~passed]
           status == IF passed THEN StatusAfterHold(u, unit[u].at, Failing \ {s})
                     ELSE "UNDER_MAINTENANCE"
           asset == [unit[u] EXCEPT !.status = status]
           service == IF passed THEN NoOrder ELSE order[u]
<1>1. /\ unit \in [Units -> Asset] /\ order \in [Units -> OrderRow]
      /\ visit \in [Schedules -> VisitRow] /\ u \in Units
      /\ unit[u] \in Asset /\ order[u] \in OrderRow /\ visit[s] \in VisitRow
      /\ UnitAgrees(u) /\ VisitOK(s)
  BY RowsOf
<1>2. /\ visit[s].stage = "RETURNED"
      /\ unit[u].status = "UNDER_MAINTENANCE" /\ InStore(u)
      /\ visit' = [visit EXCEPT ![s] = new]
      /\ unit' = [unit EXCEPT ![u] = asset]
      /\ order' = [order EXCEPT ![u] = service]
      /\ UNCHANGED <<request, sets, setups, left>>
  <2>1. unit[u].status = "UNDER_MAINTENANCE" =>
          unit = [unit EXCEPT ![u] = [unit[u] EXCEPT !.status = "UNDER_MAINTENANCE"]]
    <3>1. unit[u].status = "UNDER_MAINTENANCE" =>
            unit[u] = [unit[u] EXCEPT !.status = "UNDER_MAINTENANCE"]
      BY <1>1 DEF Asset
    <3> QED BY <1>1, <3>1
  <2>2. CASE passed
    BY <1>1, <2>2 DEF CompleteVisit
  <2>3. CASE ~passed
    BY <1>1, <2>1, <2>3 DEF CompleteVisit
  <2> QED BY <2>2, <2>3
<1>3. /\ new \in VisitRow /\ new.stage = "none" /\ new.order = "none"
      /\ new.failed = ~passed
  BY DEF VisitRow, NoVisit
<1>4. /\ status \in Statuses \ {"SCRAPPED", "LOST"}
      /\ status \in {"AVAILABLE", "ASSIGNED"} =>
           /\ passed /\ ~unit[u].breakdown
           /\ \A t \in Schedules \ {s} : UnitOf[t] = u => ~visit[t].failed
  <2>1. /\ StatusAfterHold(u, unit[u].at, Failing \ {s}) \in Statuses \ {"SCRAPPED", "LOST"}
        /\ StatusAfterHold(u, unit[u].at, Failing \ {s}) \in {"AVAILABLE", "ASSIGNED"} =>
             ~unit[u].breakdown /\ ~\E t \in Failing \ {s} : UnitOf[t] = u
    BY <1>1, AfterHold
  <2> QED BY <2>1 DEF Failing, Statuses
<1>5. /\ service \in OrderRow
      /\ passed => service.kind = "none" /\ ~service.issued
                   /\ service.schedule = NoSchedule
      /\ ~passed => service = order[u]
  <2>1. NoOrder \in OrderRow
    BY StoreAssumption DEF NoOrder, OrderRow
  <2> QED BY <1>1, <2>1 DEF NoOrder
<1> HIDE DEF status, new, service
<1>6. /\ asset \in Asset /\ asset.status = status /\ asset.at = unit[u].at
      /\ asset.owner = unit[u].owner /\ asset.breakdown = unit[u].breakdown
  BY <1>1, <1>4 DEF Asset
<1> HIDE DEF asset
<1>7. unit'[u] = asset /\ order'[u] = service
  BY <1>1, <1>2
<1>8. /\ order[u].kind = "calibration" /\ order[u].schedule = s /\ order[u].issued
      /\ \A t \in Schedules \ {s} : UnitOf[t] = u =>
           visit[t].order = "none" /\ visit[t].stage \in {"none", "OPEN"}
  <2>1. visit[s].order # "none" /\ order[u].issued
    BY <1>1, <1>2 DEF VisitOK
  <2> QED BY <2>1, OneVisitAway
<1>9. /\ visit'[s] = new
      /\ Failed(u)' => ~passed \/ \E t \in Schedules \ {s} : UnitOf[t] = u /\ visit[t].failed
      /\ ~Visited(u, {"DISPATCHED", "RETURNED"})' /\ ~Visited(u, {"DISPATCHED"})'
  <2>1. /\ visit'[s] = new
        /\ \A stages : Visited(u, stages)' <=>
             \/ new.stage \in stages
             \/ \E t \in Schedules \ {s} : UnitOf[t] = u /\ visit[t].stage \in stages
        /\ Failed(u)' <=>
             \/ new.failed
             \/ \E t \in Schedules \ {s} : UnitOf[t] = u /\ visit[t].failed
    BY <1>2, HoldsAfter
  <2>2. ~Visited(u, {"DISPATCHED", "RETURNED"})' /\ ~Visited(u, {"DISPATCHED"})'
    BY <1>3, <1>8, <2>1
  <2>3. Failed(u)' => ~passed \/ \E t \in Schedules \ {s} : UnitOf[t] = u /\ visit[t].failed
    BY <1>3, <2>1
  <2> QED BY <2>1, <2>2, <2>3
<1>10. ReleasedOK(u)'
  <2>1. asset.at # "SUPPLIER"
    BY <1>2, <1>6, StoreAssumption DEF InStore
  <2> QED BY <1>4, <1>5, <1>6, <1>7, <1>9, <2>1 DEF ReleasedOK, Usable
<1>11. CustodyOK(u)'
  <2>1. asset.at = asset.owner /\ asset.at # "SUPPLIER"
    BY <1>1, <1>2, <1>6, StoreAssumption DEF InStore, UnitAgrees, CustodyOK
  <2>2. order'[u].kind = "repair" => FALSE
    BY <1>5, <1>7, <1>8
  <2>3. HasOrder(u)' => order'[u].origin = asset.owner
    BY <1>1, <1>5, <1>6, <1>7, <1>8 DEF HasOrder, UnitAgrees, CustodyOK
  <2> QED BY <1>7, <1>9, <2>1, <2>2, <2>3 DEF CustodyOK, InStore
<1>12. OrderOK(u)'
  BY <1>3, <1>5, <1>7, <1>8, <1>9 DEF OrderOK
<1>13. VisitOK(s)'
  BY <1>3, <1>9 DEF VisitOK
<1>14. LostOK(u)'
  BY <1>4, <1>6, <1>7 DEF LostOK
<1>15. \A t \in Schedules \ {s} : UnitOf[t] = u => visit[t].order = "none"
  BY <1>8
<1> QED
  <2>1. left' \in Nat
    BY <1>2 DEF IInv, TypeOK
  <2> QED BY <1>1, <1>2, <1>3, <1>4, <1>5, <1>6, <1>10, <1>11, <1>12, <1>13, <1>14,
             <1>15, <2>1, VisitStep

------------------------------------------------------------------------------
\* A step that changes no unit, order, visit or gauge set.
LEMMA SameCustody ==
    ASSUME IInv, UNCHANGED <<unit, order, visit, sets>>,
           request' \in [Requests -> RequestRow], setups' \in 0 .. MaxSetups,
           left' \in Nat
    PROVE  IInv'
<1>1. ASSUME NEW u \in Units PROVE UnitAgrees(u)'
  BY <1>1, Untouched DEF IInv
<1>2. SetsAreWhole'
  BY DEF IInv, SetsAreWhole, Gone
<1> QED BY <1>1, <1>2 DEF IInv, TypeOK, RequestRow

\* Requests and setups.
LEMMA RequestStep ==
    ASSUME IInv, NEW r \in Requests, NEW units \in SUBSET Units,
           \/ CancelRequest(r, units)
           \/ \E kind \in {"use", "transfer"}, store \in Stores :
                CreateRequest(r, kind, units, store)
    PROVE  IInv'
<1>1. request \in [Requests -> RequestRow] /\ request[r] \in RequestRow
  BY Types DEF IInv
<1>2. NoRequest \in RequestRow
  BY StoreAssumption DEF NoRequest, RequestRow
<1>3. \A new \in RequestRow :
        [request EXCEPT ![r] = new] \in [Requests -> RequestRow]
  BY <1>1
<1>4. /\ request' \in [Requests -> RequestRow]
      /\ UNCHANGED <<unit, order, visit, sets, setups>>
      /\ (left' = left - 1 /\ left > 0) \/ left' = left
  <2>1. CASE CancelRequest(r, units)
    <3>1. LinesLeft(r, units) \in RequestRow
      BY <1>1, <1>2 DEF LinesLeft, RequestRow
    <3> QED BY <1>3, <2>1, <3>1 DEF CancelRequest
  <2>2. ASSUME NEW kind \in {"use", "transfer"}, NEW store \in Stores,
               CreateRequest(r, kind, units, store)
        PROVE  /\ request' \in [Requests -> RequestRow]
               /\ UNCHANGED <<unit, order, visit, sets, setups>>
               /\ left' = left - 1 /\ left > 0
    <3>1. [kind |-> kind, units |-> units, store |-> store, from |-> NoUnit] \in RequestRow
      BY DEF RequestRow
    <3> QED BY <1>3, <2>2, <3>1 DEF CreateRequest, Open
  <2> QED BY <2>1, <2>2
<1>5. left' \in Nat /\ setups' \in 0 .. MaxSetups
  BY <1>4 DEF IInv, TypeOK
<1> QED BY <1>4, <1>5, SameCustody

LEMMA SetupStep ==
    ASSUME IInv, StartSetup \/ FinishSetup
    PROVE  IInv'
<1>1. /\ setups' \in 0 .. MaxSetups /\ left' \in Nat
      /\ UNCHANGED <<unit, order, visit, sets, request>>
  BY StoreAssumption DEF IInv, TypeOK, StartSetup, FinishSetup
<1>2. request' \in [Requests -> RequestRow]
  BY <1>1, Types DEF IInv
<1> QED BY <1>1, <1>2, SameCustody

\* A unit is issued from Main Store where nothing else needs it.
LEMMA IssueRequestStep ==
    ASSUME IInv, NEW r \in Requests, NEW u \in Units, NEW place \in {"FLOOR", "AWAY"},
           IssueRequest(r, u, place)
    PROVE  IInv'
<1>1. /\ unit[u].status = "AVAILABLE" /\ unit[u].at = Main /\ ~HasOrder(u)
      /\ unit' = Placed(u, place, "ASSIGNED")
      /\ request' = [request EXCEPT ![r] = NoRequest]
      /\ UNCHANGED <<order, visit, sets, setups, left>>
  BY DEF IssueRequest
<1>2. /\ ~unit[u].breakdown /\ ~Failed(u)
      /\ ~Visited(u, {"DISPATCHED", "RETURNED"})
      /\ ~(order[u].kind = "repair" /\ order[u].issued)
      /\ unit[u].at # "SUPPLIER"
  BY <1>1 DEF IInv, UnitAgrees, ReleasedOK, Usable
<1>3. place \in Places /\ place \notin Stores /\ place # "SUPPLIER" /\ "ASSIGNED" \in Statuses
  BY StoreAssumption DEF Places, Statuses
<1>4. /\ unit' \in [Units -> Asset]
      /\ \A v \in Units : UnitAgrees(v)'
      /\ SetsAreWhole'
  BY <1>1, <1>2, <1>3, PlacedStep
<1>5. request' \in [Requests -> RequestRow]
  <2>1. NoRequest \in RequestRow
    BY StoreAssumption DEF NoRequest, RequestRow
  <2>2. request \in [Requests -> RequestRow]
    BY Types DEF IInv
  <2> QED BY <1>1, <2>1, <2>2
<1> QED BY <1>1, <1>4, <1>5 DEF IInv, TypeOK, Asset, RequestRow

\* Units are handed over to another store when no order, visit or gauge set
\* binds them to the present one.
LEMMA HandedOverStep ==
    ASSUME IInv, NEW units \in SUBSET Units, NEW store \in Stores,
           unit' = HandedOver(units, store), UNCHANGED <<order, visit, sets, setups, left>>,
           request' \in [Requests -> RequestRow],
           \A u \in units : Transferable(u, store)
    PROVE  IInv'
<1>1. unit \in [Units -> Asset]
  BY Types DEF IInv
<1>2. ASSUME NEW u \in units
      PROVE  /\ unit'[u] \in Asset
             /\ unit'[u].status = unit[u].status
             /\ unit'[u].breakdown = unit[u].breakdown
             /\ unit'[u].owner = store
             /\ unit'[u].at = IF unit[u].at \in Stores THEN store ELSE unit[u].at
  <2>1. unit[u] \in Asset
    BY <1>1
  <2>2. unit'[u] = [unit[u] EXCEPT !.owner = store,
                      !.at = IF unit[u].at \in Stores THEN store ELSE unit[u].at]
    BY DEF HandedOver
  <2> QED BY <2>1, <2>2 DEF Asset, Places
<1>3. \A u \in Units \ units : unit'[u] = unit[u]
  BY DEF HandedOver
<1>4. unit' \in [Units -> Asset]
  <2>1. \A u \in Units : unit'[u] \in Asset
    BY <1>1, <1>2, <1>3
  <2>2. unit' = [u \in Units |-> unit'[u]]
    BY DEF HandedOver
  <2> HIDE DEF HandedOver
  <2> QED BY <2>1, <2>2
<1>5. ASSUME NEW u \in Units PROVE UnitAgrees(u)'
  <2>1. CASE u \notin units
    BY <1>3, <2>1, Untouched DEF IInv
  <2>2. CASE u \in units
    <3> DEFINE new == unit'[u]
    <3>1. /\ new \in Asset /\ new.status = unit[u].status
          /\ new.breakdown = unit[u].breakdown /\ new.owner = store
          /\ new.at = IF unit[u].at \in Stores THEN store ELSE unit[u].at
      BY <1>2, <2>2
    <3>2. ~HasOrder(u) /\ UnitAgrees(u) /\ unit[u].status # "LOST"
      BY <2>2 DEF Transferable, IInv, Gone
    <3>3. new.at = "SUPPLIER" <=> unit[u].at = "SUPPLIER"
      BY <3>1, StoreAssumption
    <3>4. new.at \in Stores => new.at = new.owner
      BY <3>1
    <3>5. Usable(new) => /\ ~new.breakdown /\ ~Failed(u)
                         /\ ~Visited(u, {"DISPATCHED", "RETURNED"})
                         /\ ~(order[u].kind = "repair" /\ order[u].issued)
      BY <3>1, <3>2 DEF UnitAgrees, ReleasedOK, Usable
    <3>6. unit'[u] = new
      OBVIOUS
    <3> HIDE DEF new
    <3> QED BY <3>1, <3>2, <3>3, <3>4, <3>5, <3>6, UnitChange
  <2> QED BY <2>1, <2>2
<1>6. SetsAreWhole'
  <2>1. \A v \in UNION sets : unit'[v] = unit[v]
    <3>1. UNION sets \subseteq Units
      BY DEF IInv, TypeOK
    <3>2. \A v \in UNION sets : v \notin units
      BY DEF Transferable, Grouped
    <3> QED BY <1>3, <3>1, <3>2
  <2> QED BY <2>1, SetsKept DEF IInv, Gone
<1> QED BY <1>4, <1>5, <1>6 DEF IInv, TypeOK, Asset, RequestRow

LEMMA TransferStep ==
    ASSUME IInv, NEW u \in Units, NEW store \in Stores, TransferAccountability(u, store)
    PROVE  IInv'
<1>1. request' \in [Requests -> RequestRow]
  BY Types DEF IInv, TransferAccountability
<1> QED BY <1>1, HandedOverStep DEF TransferAccountability

LEMMA TransferRequestedStep ==
    ASSUME IInv, NEW r \in Requests, NEW units \in SUBSET Units,
           \/ TransferRequestedBatch(r, units)
           \/ \E u \in Units : units = {u} /\ TransferRequested(r, u)
    PROVE  IInv'
<1> DEFINE store == request[r].store
<1>1. request \in [Requests -> RequestRow] /\ request[r] \in RequestRow
  BY Types DEF IInv
<1>2. NoRequest \in RequestRow /\ LinesLeft(r, units) \in RequestRow
  BY <1>1, StoreAssumption DEF NoRequest, LinesLeft, RequestRow
<1>3. /\ unit' = HandedOver(units, store)
      /\ UNCHANGED <<order, visit, sets, setups, left>>
      /\ \A u \in units : Transferable(u, store)
      /\ \/ request' = [request EXCEPT ![r] = NoRequest]
         \/ request' = [request EXCEPT ![r] = LinesLeft(r, units)]
  BY DEF TransferRequestedBatch, TransferRequested
<1>4. store \in Stores
  BY <1>1 DEF RequestRow
<1>5. request' \in [Requests -> RequestRow]
  BY <1>1, <1>2, <1>3
<1> HIDE DEF store
<1> QED BY <1>3, <1>4, <1>5, HandedOverStep

------------------------------------------------------------------------------
\* Gauge sets are formed from free gauges in Quality Store, and taken apart.
LEMMA GaugeSetStep ==
    ASSUME IInv, NEW pair \in SUBSET Units, CreateGaugeSet(pair) \/ DisbandGaugeSet(pair)
    PROVE  IInv'
<1>1. UNCHANGED <<unit, order, visit, request, setups>> /\ left' \in Nat
  BY DEF CreateGaugeSet, DisbandGaugeSet, Open, IInv, TypeOK
<1>2. ASSUME NEW u \in Units PROVE UnitAgrees(u)'
  BY <1>1, <1>2, Untouched DEF IInv
<1>3. sets' \subseteq SUBSET Units
  BY DEF CreateGaugeSet, DisbandGaugeSet, IInv, TypeOK
<1>4. SetsAreWhole'
  <2>1. CASE CreateGaugeSet(pair)
    <3>1. /\ Cardinality(pair) = 2 /\ sets' = sets \union {pair}
          /\ \A u \in pair : unit[u].owner = Quality /\ ~Gone(u) /\ u \notin UNION sets
      BY <2>1 DEF CreateGaugeSet, Gone, Grouped
    <3>2. \A other \in sets : pair \intersect other = {}
      BY <3>1
    <3> QED BY <1>1, <3>1, <3>2 DEF IInv, SetsAreWhole, Gone
  <2>2. CASE DisbandGaugeSet(pair)
    BY <1>1, <2>2 DEF DisbandGaugeSet, IInv, SetsAreWhole, Gone
  <2> QED BY <2>1, <2>2
<1> QED BY <1>1, <1>2, <1>3, <1>4 DEF IInv, TypeOK

\* A replaced gauge leaves a pair of different gauges.
LEMMA PairAfter ==
    ASSUME NEW pair \in SUBSET Units, NEW old \in pair, NEW new \in Units \ pair,
           Cardinality(pair) = 2
    PROVE  Cardinality((pair \ {old}) \union {new}) = 2
<1>1. IsFiniteSet(pair)
  BY StoreAssumption, FS_Subset
<1>2. IsFiniteSet(pair \ {old}) /\ Cardinality(pair \ {old}) = 1
  BY <1>1, FS_RemoveElement
<1>3. new \notin pair \ {old}
  OBVIOUS
<1>4. Cardinality((pair \ {old}) \union {new}) = Cardinality(pair \ {old}) + 1
  BY <1>2, <1>3, FS_AddElement
<1> QED BY <1>2, <1>4

LEMMA ReplaceMemberStep ==
    ASSUME IInv, NEW pair \in SUBSET Units, NEW old \in Units, NEW new \in Units,
           ReplaceGaugeSetMember(pair, old, new)
    PROVE  IInv'
<1> DEFINE replaced == (pair \ {old}) \union {new}
<1>1. /\ pair \in sets /\ old \in pair
      /\ unit[new].owner = Quality /\ ~Gone(new) /\ new \notin UNION sets
      /\ sets' = (sets \ {pair}) \union {replaced}
      /\ UNCHANGED <<unit, order, visit, request, setups, left>>
  BY DEF ReplaceGaugeSetMember, Usable, Gone, Grouped
<1>2. ASSUME NEW u \in Units PROVE UnitAgrees(u)'
  BY <1>1, <1>2, Untouched DEF IInv
<1>3. sets' \subseteq SUBSET Units
  BY <1>1 DEF IInv, TypeOK
<1>4. SetsAreWhole'
  <2>1. SetsAreWhole
    BY DEF IInv
  <2>2. Cardinality(replaced) = 2
    <3>1. Cardinality(pair) = 2 /\ new \in Units \ pair
      BY <1>1, <2>1 DEF SetsAreWhole
    <3> QED BY <1>1, <3>1, PairAfter
  <2>3. \A u \in replaced : unit[u].owner = Quality /\ ~Gone(u)
    BY <1>1, <2>1 DEF SetsAreWhole
  <2>4. \A other \in sets \ {pair} : replaced \intersect other = {}
    BY <1>1, <2>1 DEF SetsAreWhole
  <2>5. \A one \in sets' : /\ Cardinality(one) = 2
                           /\ \A u \in one : unit[u].owner = Quality /\ ~Gone(u)
    BY <1>1, <2>1, <2>2, <2>3 DEF SetsAreWhole
  <2>6. \A one \in sets' : \A other \in sets' \ {one} : one \intersect other = {}
    <3>1. \A one, other \in sets : one # other => one \intersect other = {}
      BY <2>1 DEF SetsAreWhole
    <3> HIDE DEF replaced
    <3> QED BY <1>1, <2>4, <3>1
  <2> QED BY <1>1, <2>5, <2>6 DEF SetsAreWhole, Gone
<1> QED BY <1>1, <1>2, <1>3, <1>4 DEF IInv, TypeOK

\* A gauge set moves as one, and only gauges that are in use or available.
LEMMA MoveGaugeSetStep ==
    ASSUME IInv, NEW pair \in SUBSET Units, NEW place \in Places, MoveGaugeSet(pair, place)
    PROVE  IInv'
<1>1. unit \in [Units -> Asset]
  BY Types DEF IInv
<1>2. /\ unit' = [u \in Units |->
                    IF u \notin pair THEN unit[u]
                    ELSE [unit[u] EXCEPT !.at = place, !.status = Released(place)]]
      /\ \A u \in pair : Usable(unit[u]) /\ MovableByOwner(u, place)
      /\ UNCHANGED <<order, visit, request, sets, setups, left>>
  BY DEF MoveGaugeSet
<1>3. Released(place) \in {"AVAILABLE", "ASSIGNED"}
  BY DEF Released
<1>4. ASSUME NEW u \in pair
      PROVE  /\ unit'[u] \in Asset
             /\ unit'[u].status = Released(place) /\ unit'[u].at = place
             /\ unit'[u].breakdown = unit[u].breakdown
             /\ unit'[u].owner = unit[u].owner
  <2>1. unit[u] \in Asset
    BY <1>1
  <2>2. unit'[u] = [unit[u] EXCEPT !.at = place, !.status = Released(place)]
    BY <1>2
  <2> QED BY <1>3, <2>1, <2>2 DEF Asset, Statuses
<1>5. \A u \in Units \ pair : unit'[u] = unit[u]
  BY <1>2
<1>6. unit' \in [Units -> Asset]
  <2>1. \A u \in Units : unit'[u] \in Asset
    BY <1>1, <1>4, <1>5
  <2>2. unit' = [u \in Units |-> unit'[u]]
    BY <1>2
  <2> QED BY <2>1, <2>2
<1>7. ASSUME NEW u \in Units PROVE UnitAgrees(u)'
  <2>1. CASE u \notin pair
    BY <1>2, <1>5, <2>1, Untouched DEF IInv
  <2>2. CASE u \in pair
    <3> DEFINE new == unit'[u]
    <3>1. /\ new \in Asset /\ new.status = Released(place) /\ new.at = place
          /\ new.breakdown = unit[u].breakdown /\ new.owner = unit[u].owner
      BY <1>4, <2>2
    <3>2. /\ place \in {unit[u].owner, "FLOOR", "AWAY"} /\ ~HasOrder(u)
          /\ ~Failed(u) /\ ~Visited(u, {"DISPATCHED", "RETURNED"})
      BY <1>2, <2>2 DEF MovableByOwner
    <3>3. UnitAgrees(u) /\ Usable(unit[u]) /\ unit[u] \in Asset
      BY <1>1, <1>2, <2>2 DEF IInv
    <3>4. /\ unit[u].at # "SUPPLIER" /\ ~unit[u].breakdown
          /\ ~(order[u].kind = "repair" /\ order[u].issued)
      BY <3>3 DEF UnitAgrees, ReleasedOK
    <3>5. place # "SUPPLIER" /\ (place \in Stores => place = unit[u].owner)
      BY <3>2, <3>3, StoreAssumption DEF Asset
    <3>6. unit'[u] = new
      OBVIOUS
    <3> HIDE DEF new
    <3> QED BY <1>2, <1>3, <3>1, <3>2, <3>4, <3>5, <3>6, UnitChange DEF HasOrder
  <2> QED BY <2>1, <2>2
<1>8. SetsAreWhole'
  <2>1. \A v \in UNION sets : unit'[v].owner = unit[v].owner /\ (Gone(v)' => Gone(v))
    <3>1. UNION sets \subseteq Units
      BY DEF IInv, TypeOK
    <3> QED BY <1>3, <1>4, <1>5, <3>1 DEF Gone
  <2> QED BY <1>2, <2>1, SetsKept DEF IInv
<1> QED BY <1>2, <1>6, <1>7, <1>8 DEF IInv, TypeOK, Asset

------------------------------------------------------------------------------
\* At first no order, visit or set exists, and units are in their own stores.
LEMMA InitIInv == Init => IInv
<1> SUFFICES ASSUME Init PROVE IInv
  OBVIOUS
<1>1. /\ order = [u \in Units |-> NoOrder]
      /\ visit = [s \in Schedules |-> NoVisit]
      /\ request = [r \in Requests |-> NoRequest]
      /\ sets = {} /\ setups = 0
  BY DEF Init
<1>2. PICK start \in Starts, owner \in [Units -> Stores] :
        /\ unit = [u \in Units |->
             [status |-> IF u \in start.stock THEN "AVAILABLE" ELSE "LOST",
              at |-> owner[u], owner |-> owner[u], breakdown |-> FALSE]]
        /\ left = start.left
  BY DEF Init
<1>3. NoOrder \in OrderRow /\ NoVisit \in VisitRow /\ NoRequest \in RequestRow
  BY StoreAssumption DEF NoOrder, NoVisit, NoRequest, OrderRow, VisitRow, RequestRow
<1>4. TypeOK
  <2>1. unit \in [Units -> Asset]
    BY <1>2 DEF Asset, Places, Statuses
  <2>2. left \in Nat
    BY <1>2, StoreAssumption
  <2>3. order \in [Units -> OrderRow] /\ visit \in [Schedules -> VisitRow]
        /\ request \in [Requests -> RequestRow]
    BY <1>1, <1>3
  <2>4. setups \in 0 .. MaxSetups /\ sets \subseteq SUBSET Units
    BY <1>1, StoreAssumption
  <2> QED BY <2>1, <2>2, <2>3, <2>4, Types
<1>5. ASSUME NEW u \in Units PROVE UnitAgrees(u)
  <2>1. /\ \A stages : "none" \notin stages => ~Visited(u, stages)
        /\ ~Failed(u)
    BY <1>1, StoreAssumption DEF Visited, Failed, NoVisit
  <2>2. /\ unit[u].at = unit[u].owner /\ unit[u].at \in Stores
        /\ ~unit[u].breakdown
    BY <1>2
  <2>3. order[u] = NoOrder
    BY <1>1
  <2>4. unit[u].at # "SUPPLIER"
    BY <2>2, StoreAssumption
  <2>5. ReleasedOK(u) /\ CustodyOK(u)
    BY <2>1, <2>2, <2>3, <2>4 DEF ReleasedOK, CustodyOK, HasOrder, NoOrder
  <2>6. OrderOK(u)
    BY <2>3 DEF OrderOK, NoOrder
  <2>7. \A s \in Schedules : UnitOf[s] = u => VisitOK(s)
    BY <1>1 DEF VisitOK, NoVisit
  <2>8. LostOK(u)
    BY <2>1, <2>3 DEF LostOK, HasOrder, NoOrder, InProgress
  <2> QED BY <2>5, <2>6, <2>7, <2>8 DEF UnitAgrees
<1>6. SetsAreWhole
  BY <1>1 DEF SetsAreWhole
<1> QED BY <1>4, <1>5, <1>6 DEF IInv

\* Every operation preserves the inductive invariant.
LEMMA NextIInv == IInv /\ [Next]_vars => IInv'
<1> SUFFICES ASSUME IInv, [Next]_vars PROVE IInv'
  OBVIOUS
<1>1. ASSUME NEW u \in Units, NEW place \in Places,
             MoveFromMain(u, place) \/ MoveOwned(u, place)
      PROVE  IInv'
  BY <1>1, MoveStep
<1>2. ASSUME NEW u \in Units,
             \/ StartBreakdown(u) \/ CompleteBreakdown(u)
             \/ \E status \in Statuses : SetLifecycleStatus(u, status)
             \/ \E accident \in BOOLEAN : RecordLoss(u, accident)
      PROVE  IInv'
  BY <1>2, StartBreakdownStep, CompleteBreakdownStep, LifecycleStep
<1>3. ASSUME NEW u \in Units,
             \/ PrepareRepair(u) \/ CompleteRepair(u)
             \/ \E reassign \in BOOLEAN : IssueRepair(u, reassign)
             \/ \E store \in Stores : TransferAccountability(u, store)
      PROVE  IInv'
  BY <1>3, PrepareRepairStep, CompleteRepairStep, IssueRepairStep, TransferStep
<1>4. ASSUME NEW s \in Schedules,
             \/ \E method \in {"SUPPLIER", "IN_HOUSE"} : OpenVisit(s, method)
             \/ CancelVisit(s) \/ PrepareDispatch(s) \/ IssueServiceOrder(s)
             \/ Dispatch(s) \/ ReturnVisit(s)
             \/ \E passed \in BOOLEAN :
                  CompleteInHouse(s, passed) \/ CompleteVisit(s, passed)
      PROVE  IInv'
  BY <1>4, OpenVisitStep, CancelVisitStep, PrepareDispatchStep, IssueServiceOrderStep,
     DispatchReturnStep, CompleteInHouseStep, CompleteVisitStep
<1>5. ASSUME NEW r \in Requests, NEW units \in SUBSET Units,
             \/ \E kind \in {"use", "transfer"}, store \in Stores :
                  CreateRequest(r, kind, units, store)
             \/ CancelRequest(r, units) \/ TransferRequestedBatch(r, units)
      PROVE  IInv'
  BY <1>5, RequestStep, TransferRequestedStep
<1>6. ASSUME NEW r \in Requests, NEW u \in Units,
             \/ \E place \in {"FLOOR", "AWAY"} : IssueRequest(r, u, place)
             \/ TransferRequested(r, u)
      PROVE  IInv'
  <2>1. {u} \in SUBSET Units
    OBVIOUS
  <2> QED BY <1>6, <2>1, IssueRequestStep, TransferRequestedStep
<1>7. ASSUME NEW pair \in SUBSET Units,
             \/ CreateGaugeSet(pair) \/ DisbandGaugeSet(pair)
             \/ \E place \in Places : MoveGaugeSet(pair, place)
             \/ \E old, new \in Units : ReplaceGaugeSetMember(pair, old, new)
      PROVE  IInv'
  BY <1>7, GaugeSetStep, MoveGaugeSetStep, ReplaceMemberStep
<1>8. CASE StartSetup \/ FinishSetup
  BY <1>8, SetupStep
<1>9. CASE UNCHANGED vars
  <2>1. UNCHANGED <<unit, order, visit, sets, request, setups, left>>
    BY <1>9 DEF vars
  <2>2. request \in [Requests -> RequestRow] /\ setups \in 0 .. MaxSetups /\ left \in Nat
    BY Types DEF IInv
  <2> QED BY <2>1, <2>2, SameCustody
<1> QED BY <1>1, <1>2, <1>3, <1>4, <1>5, <1>6, <1>7, <1>8, <1>9 DEF Next

------------------------------------------------------------------------------
\* Every operation of the store leaves each unit, its holds, orders, visits,
\* requests and sets in agreement (store.ts, department-stores.ts,
\* store-calibration.ts, tooling-availability.ts).
THEOREM Invariance == Spec => []IInv
BY InitIInv, NextIInv, PTL DEF Spec

\* Every row has its type, and setups stay within their bound (store.ts,
\* department-stores.ts, store-calibration.ts).
THEOREM TypeCorrect == Spec => []TypeOK
<1>1. IInv => TypeOK
  BY DEF IInv
<1> QED BY <1>1, Invariance, PTL

\* A unit is available or assigned only when no breakdown, unresolved failure,
\* repair or visit away holds it, although seven operations compute the status
\* from holds that others begin and end (completeRepairPurchaseOrder,
\* completeCalibrationVisit, completeAssetBreakdown, moveAsset).
THEOREM ReleasedForUse == Spec => []UsableIsReleased
<1>1. IInv => UsableIsReleased
  BY Consequences
<1> QED BY <1>1, Invariance, PTL

\* Every repair and calibration can take its next step: its order, its visit,
\* the place of the unit and its accountable store agree (returnCalibrationVisit
\* and completeRepairPurchaseOrder refuse a unit for which they do not).
THEOREM ServiceCompletes == Spec => []ServiceAgrees
<1>1. IInv => ServiceAgrees
  BY Consequences
<1> QED BY <1>1, Invariance, PTL

\* Gauge sets are pairs of gauges of Quality Store, and no gauge is in two
\* (store-calibration.ts gauge sets, transferAssetAccountability, recordLoss).
THEOREM WholeSets == Spec => []SetsAreWhole
<1>1. IInv => SetsAreWhole
  BY Consequences
<1> QED BY <1>1, Invariance, PTL

------------------------------------------------------------------------------
\* Placing one unit leaves the others where they are.
LEMMA PlacedOther ==
    ASSUME TypeOK, NEW u \in Units, NEW v \in Units, u # v, NEW place, NEW status
    PROVE  Placed(u, place, status)[v] = unit[v]
<1>1. unit \in [Units -> Asset]
  BY Types
<1> QED BY <1>1 DEF Placed

\* A lost unit has no order and no visit that could go on.
LEMMA LostIsIdle ==
    ASSUME IInv, NEW u \in Units, unit[u].status = "LOST"
    PROVE  /\ ~HasOrder(u)
           /\ \A s \in Schedules : UnitOf[s] = u => visit[s].stage = "none"
<1>1. ~HasOrder(u) /\ ~Visited(u, InProgress)
  BY DEF IInv, UnitAgrees, LostOK
<1>2. ASSUME NEW s \in Schedules, UnitOf[s] = u PROVE visit[s].stage = "none"
  <2>1. visit[s].stage \in {"none", "OPEN", "DISPATCHED", "RETURNED"}
    BY Types DEF IInv, VisitRow
  <2> QED BY <1>1, <1>2, <2>1 DEF Visited, InProgress
<1> QED BY <1>1, <1>2

\* No step touches the row, order or visits of a lost unit.
LEMMA LostSpared ==
    ASSUME IInv, Next, NEW u \in Units, unit[u].status = "LOST"
    PROVE  /\ unit'[u] = unit[u]
           /\ order'[u] = order[u]
           /\ \A s \in Schedules : UnitOf[s] = u => visit'[s] = visit[s]
<1> DEFINE Spared == /\ unit'[u] = unit[u]
                     /\ order'[u] = order[u]
                     /\ \A s \in Schedules : UnitOf[s] = u => visit'[s] = visit[s]
<1>0. /\ unit \in [Units -> Asset] /\ order \in [Units -> OrderRow]
      /\ visit \in [Schedules -> VisitRow] /\ TypeOK
      /\ Gone(u) /\ ~HasOrder(u)
      /\ \A s \in Schedules : UnitOf[s] = u => visit[s].stage = "none"
      /\ u \notin UNION sets
  <2>1. u \notin UNION sets
    BY DEF IInv, SetsAreWhole, Gone
  <2> QED BY <2>1, LostIsIdle, Types DEF IInv, Gone
<1>1. ASSUME NEW v \in Units, NEW place \in Places,
             MoveFromMain(v, place) \/ MoveOwned(v, place)
      PROVE  Spared
  <2>1. v # u
    BY <1>0, <1>1 DEF MoveFromMain, MoveOwned, MovableByOwner
  <2> QED BY <1>0, <1>1, <2>1, PlacedOther DEF MoveFromMain, MoveOwned
<1>2. ASSUME NEW v \in Units,
             \/ StartBreakdown(v) \/ CompleteBreakdown(v)
             \/ \E status \in Statuses : SetLifecycleStatus(v, status)
             \/ \E accident \in BOOLEAN : RecordLoss(v, accident)
      PROVE  Spared
  <2>1. v # u
    BY <1>0, <1>2 DEF StartBreakdown, CompleteBreakdown, SetLifecycleStatus, RecordLoss
  <2>2. unit'[u] = unit[u]
    BY <1>0, <1>2, <2>1 DEF StartBreakdown, CompleteBreakdown, SetLifecycleStatus, RecordLoss
  <2>3. UNCHANGED <<order, visit>>
    BY <1>2 DEF StartBreakdown, CompleteBreakdown, SetLifecycleStatus, RecordLoss
  <2> QED BY <2>2, <2>3
<1>3. ASSUME NEW v \in Units,
             \/ PrepareRepair(v) \/ CompleteRepair(v)
             \/ \E reassign \in BOOLEAN : IssueRepair(v, reassign)
      PROVE  Spared
  <2>1. v # u
    BY <1>0, <1>3 DEF PrepareRepair, CompleteRepair, IssueRepair
  <2>2. order'[u] = order[u] /\ UNCHANGED visit
    BY <1>0, <1>3, <2>1 DEF PrepareRepair, CompleteRepair, IssueRepair
  <2>3. unit'[u] = unit[u]
    BY <1>0, <1>3, <2>1, PlacedOther DEF PrepareRepair, CompleteRepair, IssueRepair
  <2> QED BY <2>2, <2>3
<1>4. ASSUME NEW s \in Schedules,
             \/ \E method \in {"SUPPLIER", "IN_HOUSE"} : OpenVisit(s, method)
             \/ CancelVisit(s) \/ PrepareDispatch(s) \/ IssueServiceOrder(s)
             \/ Dispatch(s) \/ ReturnVisit(s)
             \/ \E passed \in BOOLEAN :
                  CompleteInHouse(s, passed) \/ CompleteVisit(s, passed)
      PROVE  Spared
  <2>1. UnitOf[s] # u
    BY <1>0, <1>4 DEF OpenVisit, CancelVisit, PrepareDispatch, IssueServiceOrder,
                      Dispatch, ReturnVisit, CompleteInHouse, CompleteVisit
  <2>2. UnitOf[s] \in Units
    BY StoreAssumption
  <2>3. \A t \in Schedules \ {s} : visit'[t] = visit[t]
    BY <1>0, <1>4 DEF OpenVisit, CancelVisit, PrepareDispatch, IssueServiceOrder,
                      Dispatch, ReturnVisit, CompleteInHouse, CompleteVisit
  <2>4. order'[u] = order[u]
    BY <1>0, <1>4, <2>1, <2>2 DEF OpenVisit, CancelVisit, PrepareDispatch,
       IssueServiceOrder, Dispatch, ReturnVisit, CompleteInHouse, CompleteVisit
  <2>5. unit'[u] = unit[u]
    <3>1. CASE Dispatch(s) \/ ReturnVisit(s)
      BY <1>0, <2>1, <2>2, <3>1, PlacedOther DEF Dispatch, ReturnVisit
    <3>2. ASSUME NEW passed \in BOOLEAN, CompleteInHouse(s, passed) \/ CompleteVisit(s, passed)
          PROVE  unit'[u] = unit[u]
      BY <1>0, <2>1, <2>2, <3>2 DEF CompleteInHouse, CompleteVisit
    <3>3. CASE \/ \E method \in {"SUPPLIER", "IN_HOUSE"} : OpenVisit(s, method)
               \/ CancelVisit(s) \/ PrepareDispatch(s) \/ IssueServiceOrder(s)
      BY <3>3 DEF OpenVisit, CancelVisit, PrepareDispatch, IssueServiceOrder
    <3> QED BY <1>4, <3>1, <3>2, <3>3
  <2> QED BY <2>1, <2>3, <2>4, <2>5
<1>5. ASSUME NEW r \in Requests, NEW v \in Units, NEW place,
             IssueRequest(r, v, place)
      PROVE  Spared
  <2>1. v # u
    BY <1>5 DEF IssueRequest
  <2> QED BY <1>0, <1>5, <2>1, PlacedOther DEF IssueRequest
<1>6. ASSUME NEW units \in SUBSET Units, NEW store \in Stores,
             unit' = HandedOver(units, store), UNCHANGED <<order, visit>>,
             \A v \in units : Transferable(v, store)
      PROVE  Spared
  <2>1. u \notin units
    BY <1>0, <1>6 DEF Transferable
  <2> QED BY <1>6, <2>1 DEF HandedOver
<1>7. ASSUME NEW pair, NEW place, MoveGaugeSet(pair, place) PROVE Spared
  <2>1. u \notin pair
    BY <1>0, <1>7 DEF MoveGaugeSet
  <2> QED BY <1>7, <2>1 DEF MoveGaugeSet
<1>8. ASSUME UNCHANGED <<unit, order, visit>> PROVE Spared
  BY <1>8
<1>9. ASSUME NEW v \in Units, NEW store \in Stores, TransferAccountability(v, store)
      PROVE  Spared
  BY <1>6, <1>9 DEF TransferAccountability
<1>10. ASSUME NEW r \in Requests, NEW units \in SUBSET Units,
              \/ TransferRequestedBatch(r, units)
              \/ \E v \in Units : units = {v} /\ TransferRequested(r, v)
       PROVE  Spared
  <2>1. request[r].store \in Stores
    BY Types DEF IInv, RequestRow
  <2>2. /\ unit' = HandedOver(units, request[r].store) /\ UNCHANGED <<order, visit>>
        /\ \A v \in units : Transferable(v, request[r].store)
    BY <1>10 DEF TransferRequestedBatch, TransferRequested
  <2> QED BY <1>6, <2>1, <2>2
<1>11. ASSUME NEW r \in Requests, NEW v \in Units, TransferRequested(r, v) PROVE Spared
  <2>1. {v} \in SUBSET Units
    OBVIOUS
  <2> QED BY <1>10, <1>11, <2>1
<1>12. CASE \/ \E r \in Requests, units \in SUBSET Units :
                 \/ \E kind \in {"use", "transfer"}, store \in Stores :
                      CreateRequest(r, kind, units, store)
                 \/ CancelRequest(r, units)
            \/ \E pair \in SUBSET Units :
                 \/ CreateGaugeSet(pair)
                 \/ \E old, new \in Units : ReplaceGaugeSetMember(pair, old, new)
                 \/ DisbandGaugeSet(pair)
            \/ StartSetup \/ FinishSetup
  <2>1. UNCHANGED <<unit, order, visit>>
    BY <1>12 DEF CreateRequest, CancelRequest, CreateGaugeSet, ReplaceGaugeSetMember,
                 DisbandGaugeSet, StartSetup, FinishSetup
  <2> QED BY <1>8, <2>1
<1> QED
  <2>1. CASE \E v \in Units :
               \/ \E place \in Places : MoveFromMain(v, place) \/ MoveOwned(v, place)
               \/ StartBreakdown(v) \/ CompleteBreakdown(v)
               \/ \E status \in Statuses : SetLifecycleStatus(v, status)
               \/ \E accident \in BOOLEAN : RecordLoss(v, accident)
               \/ PrepareRepair(v) \/ CompleteRepair(v)
               \/ \E reassign \in BOOLEAN : IssueRepair(v, reassign)
               \/ \E store \in Stores : TransferAccountability(v, store)
    BY <1>1, <1>2, <1>3, <1>9, <2>1
  <2>2. CASE \/ \E r \in Requests, units \in SUBSET Units : TransferRequestedBatch(r, units)
             \/ \E r \in Requests, v \in Units :
                  \/ \E place \in {"FLOOR", "AWAY"} : IssueRequest(r, v, place)
                  \/ TransferRequested(r, v)
             \/ \E pair \in SUBSET Units, place \in Places : MoveGaugeSet(pair, place)
    BY <1>5, <1>7, <1>10, <1>11, <2>2
  <2>3. CASE \E s \in Schedules :
               \/ \E method \in {"SUPPLIER", "IN_HOUSE"} : OpenVisit(s, method)
               \/ CancelVisit(s) \/ PrepareDispatch(s) \/ IssueServiceOrder(s)
               \/ Dispatch(s) \/ ReturnVisit(s)
               \/ \E passed \in BOOLEAN :
                    CompleteInHouse(s, passed) \/ CompleteVisit(s, passed)
    BY <1>4, <2>3
  <2> QED BY <1>12, <2>1, <2>2, <2>3 DEF Next

\* A lost unit is never issued, moved, transferred, repaired, selected for
\* calibration or put into a gauge set again (recordLoss and the guards of all
\* other operations).
THEOREM LostStaysLost == Spec => LostIsFinal
<1>1. IInv /\ IInv' /\ [Next]_vars =>
        [\A u \in Units : unit[u].status = "LOST" =>
           /\ unit'[u] = unit[u]
           /\ order'[u] = order[u]
           /\ ~Grouped(u)'
           /\ \A s \in Schedules : UnitOf[s] = u => visit'[s] = visit[s]]_vars
  <2> SUFFICES ASSUME IInv, IInv', Next, NEW u \in Units, unit[u].status = "LOST"
               PROVE  /\ unit'[u] = unit[u]
                      /\ order'[u] = order[u]
                      /\ ~Grouped(u)'
                      /\ \A s \in Schedules : UnitOf[s] = u => visit'[s] = visit[s]
    BY DEF vars
  <2>1. /\ unit'[u] = unit[u]
        /\ order'[u] = order[u]
        /\ \A s \in Schedules : UnitOf[s] = u => visit'[s] = visit[s]
    BY LostSpared
  <2>2. ~Grouped(u)'
    BY <2>1 DEF IInv, SetsAreWhole, Gone, Grouped
  <2> QED BY <2>1, <2>2
<1> QED BY <1>1, Invariance, PTL DEF Spec, LostIsFinal

------------------------------------------------------------------------------
\* A unit that leaves the floor leaves enough for the setups that run.
LEMMA ToolsStay ==
    ASSUME IInv, Next
    PROVE  KeepsTools
<1> DEFINE Kept == \A u \in Units : unit[u].at = "FLOOR" => unit'[u].at = "FLOOR"
<1>0. /\ unit \in [Units -> Asset] /\ TypeOK
  BY Types DEF IInv
<1>1. ASSUME ToolingCovered PROVE KeepsTools
  BY <1>1 DEF ToolingCovered, KeepsTools
<1>2. ASSUME Kept PROVE KeepsTools
  BY <1>2 DEF KeepsTools
<1>3. ASSUME NEW v \in Units,
             \/ \E place \in Places : MoveFromMain(v, place) \/ MoveOwned(v, place)
             \/ \E reassign \in BOOLEAN : IssueRepair(v, reassign)
             \/ CompleteRepair(v)
             \/ \E store \in Stores : TransferAccountability(v, store)
      PROVE  KeepsTools
  BY <1>1, <1>3 DEF MoveFromMain, MoveOwned, IssueRepair, CompleteRepair,
                    TransferAccountability
<1>4. ASSUME NEW v \in Units,
             \/ StartBreakdown(v) \/ CompleteBreakdown(v)
             \/ \E status \in Statuses : SetLifecycleStatus(v, status)
             \/ \E accident \in BOOLEAN : RecordLoss(v, accident)
             \/ PrepareRepair(v)
      PROVE  KeepsTools
  <2>1. \A u \in Units : unit'[u].at = unit[u].at
    BY <1>0, <1>4 DEF StartBreakdown, CompleteBreakdown, SetLifecycleStatus, RecordLoss,
                      PrepareRepair, Asset
  <2> QED BY <1>2, <2>1
<1>5. ASSUME NEW s \in Schedules, Dispatch(s) PROVE KeepsTools
  BY <1>1, <1>5 DEF Dispatch
<1>6. ASSUME NEW s \in Schedules, ReturnVisit(s) PROVE KeepsTools
  <2>1. /\ UnitOf[s] \in Units /\ unit[UnitOf[s]].at = "SUPPLIER"
        /\ unit' = Placed(UnitOf[s], order[UnitOf[s]].origin, "UNDER_MAINTENANCE")
    BY <1>6, StoreAssumption DEF ReturnVisit
  <2>2. ASSUME NEW u \in Units, unit[u].at = "FLOOR" PROVE unit'[u].at = "FLOOR"
    <3>1. u # UnitOf[s]
      BY <2>1, <2>2
    <3> QED BY <1>0, <2>1, <2>2, <3>1, PlacedOther
  <2> QED BY <1>2, <2>2
<1>7. ASSUME NEW s \in Schedules,
             \/ \E method \in {"SUPPLIER", "IN_HOUSE"} : OpenVisit(s, method)
             \/ CancelVisit(s) \/ PrepareDispatch(s) \/ IssueServiceOrder(s)
             \/ \E passed \in BOOLEAN :
                  CompleteInHouse(s, passed) \/ CompleteVisit(s, passed)
      PROVE  KeepsTools
  <2>1. UnitOf[s] \in Units
    BY StoreAssumption
  <2>2. CASE \/ \E method \in {"SUPPLIER", "IN_HOUSE"} : OpenVisit(s, method)
             \/ CancelVisit(s) \/ PrepareDispatch(s) \/ IssueServiceOrder(s)
    <3>1. UNCHANGED unit
      BY <2>2 DEF OpenVisit, CancelVisit, PrepareDispatch, IssueServiceOrder
    <3> QED BY <1>2, <3>1
  <2>3. ASSUME NEW passed \in BOOLEAN, CompleteInHouse(s, passed) \/ CompleteVisit(s, passed)
        PROVE  KeepsTools
    <3>1. \/ UNCHANGED unit
          \/ \E status : unit' = [unit EXCEPT ![UnitOf[s]].status = status]
      BY <2>3 DEF CompleteInHouse, CompleteVisit
    <3>2. CASE UNCHANGED unit
      BY <1>2, <3>2
    <3>3. ASSUME NEW status, unit' = [unit EXCEPT ![UnitOf[s]].status = status]
          PROVE  KeepsTools
      <4>1. unit[UnitOf[s]] \in Asset
        BY <1>0, <2>1
      <4>2. unit'[UnitOf[s]].at = unit[UnitOf[s]].at
        BY <1>0, <2>1, <3>3, <4>1 DEF Asset
      <4>3. \A u \in Units : u # UnitOf[s] => unit'[u] = unit[u]
        BY <1>0, <2>1, <3>3
      <4> QED BY <1>2, <4>2, <4>3
    <3> QED BY <3>1, <3>2, <3>3
  <2> QED BY <1>7, <2>2, <2>3
<1>8. ASSUME NEW r \in Requests, NEW v \in Units, NEW place, IssueRequest(r, v, place)
      PROVE  KeepsTools
  <2>1. unit[v].at # "FLOOR" /\ unit' = Placed(v, place, "ASSIGNED")
    BY <1>8, StoreAssumption DEF IssueRequest
  <2>2. ASSUME NEW u \in Units, unit[u].at = "FLOOR" PROVE unit'[u].at = "FLOOR"
    <3>1. u # v
      BY <2>1, <2>2
    <3> QED BY <1>0, <2>1, <2>2, <3>1, PlacedOther
  <2> QED BY <1>2, <2>2
<1>9. ASSUME NEW r \in Requests, NEW units \in SUBSET Units, TransferRequestedBatch(r, units)
      PROVE  KeepsTools
  BY <1>1, <1>9 DEF TransferRequestedBatch
<1>10. ASSUME NEW r \in Requests, NEW v \in Units, TransferRequested(r, v)
       PROVE  KeepsTools
  BY <1>1, <1>10 DEF TransferRequested
<1>11. ASSUME NEW pair, NEW place, MoveGaugeSet(pair, place) PROVE KeepsTools
  BY <1>1, <1>11 DEF MoveGaugeSet
<1>12. CASE \/ \E r \in Requests, units \in SUBSET Units :
                 \/ \E kind \in {"use", "transfer"}, store \in Stores :
                      CreateRequest(r, kind, units, store)
                 \/ CancelRequest(r, units)
            \/ \E pair \in SUBSET Units :
                 \/ CreateGaugeSet(pair)
                 \/ \E old, new \in Units : ReplaceGaugeSetMember(pair, old, new)
                 \/ DisbandGaugeSet(pair)
            \/ StartSetup \/ FinishSetup
  <2>1. UNCHANGED unit
    BY <1>12 DEF CreateRequest, CancelRequest, CreateGaugeSet, ReplaceGaugeSetMember,
                 DisbandGaugeSet, StartSetup, FinishSetup
  <2> QED BY <1>2, <2>1
<1> QED
  <2>1. CASE \E v \in Units :
               \/ \E place \in Places : MoveFromMain(v, place) \/ MoveOwned(v, place)
               \/ StartBreakdown(v) \/ CompleteBreakdown(v)
               \/ \E status \in Statuses : SetLifecycleStatus(v, status)
               \/ \E accident \in BOOLEAN : RecordLoss(v, accident)
               \/ PrepareRepair(v) \/ CompleteRepair(v)
               \/ \E reassign \in BOOLEAN : IssueRepair(v, reassign)
               \/ \E store \in Stores : TransferAccountability(v, store)
    BY <1>3, <1>4, <2>1
  <2>2. CASE \/ \E r \in Requests, units \in SUBSET Units : TransferRequestedBatch(r, units)
             \/ \E r \in Requests, v \in Units :
                  \/ \E place \in {"FLOOR", "AWAY"} : IssueRequest(r, v, place)
                  \/ TransferRequested(r, v)
             \/ \E pair \in SUBSET Units, place \in Places : MoveGaugeSet(pair, place)
    BY <1>8, <1>9, <1>10, <1>11, <2>2
  <2>3. CASE \E s \in Schedules :
               \/ \E method \in {"SUPPLIER", "IN_HOUSE"} : OpenVisit(s, method)
               \/ CancelVisit(s) \/ PrepareDispatch(s) \/ IssueServiceOrder(s)
               \/ Dispatch(s) \/ ReturnVisit(s)
               \/ \E passed \in BOOLEAN :
                    CompleteInHouse(s, passed) \/ CompleteVisit(s, passed)
    BY <1>5, <1>6, <1>7, <2>3
  <2> QED BY <1>12, <2>1, <2>2, <2>3 DEF Next

\* A request keeps what it holds: no other operation gives it away.
LEMMA ReservationsHold ==
    ASSUME IInv, Next
    PROVE  KeepsReserved
<1> DEFINE Owned == \A u \in Units : unit'[u].owner = unit[u].owner
           NoneCloses == \A r \in Requests :
                           request[r].kind # "none" => request'[r].kind # "none"
           Stays == \A u \in Units :
                      Reserved(u, {}) /\ unit[u].owner # Main =>
                        \/ unit'[u].at = unit[u].at
                        \/ "SUPPLIER" \in {unit[u].at, unit'[u].at}
<1>0. /\ unit \in [Units -> Asset] /\ TypeOK
      /\ request \in [Requests -> RequestRow]
      /\ \A r \in Requests : request[r].units \subseteq Units
  BY Types DEF IInv, RequestRow
<1>1. ASSUME Owned, NoneCloses, Stays PROVE KeepsReserved
  BY <1>1 DEF KeepsReserved
<1>2. ASSUME UNCHANGED unit PROVE KeepsReserved
  BY <1>2 DEF KeepsReserved
<1>3. ASSUME NEW units, \A u \in Units \ units : unit'[u] = unit[u],
             \A u \in units : ~Reserved(u, {}) \/ ~Reserved(u, {})'
      PROVE  KeepsReserved
  BY <1>3 DEF KeepsReserved
<1>3a. ASSUME NEW v, \A u \in Units \ {v} : unit'[u] = unit[u],
              ~Reserved(v, {}) \/ ~Reserved(v, {})'
       PROVE  KeepsReserved
  BY <1>3a DEF KeepsReserved
<1>4. ASSUME NEW v \in Units, NEW place, NEW status, unit' = Placed(v, place, status)
      PROVE  /\ Owned /\ unit'[v].at = place
             /\ \A u \in Units : u # v => unit'[u].at = unit[u].at
  BY <1>0, <1>4 DEF Placed, Asset
<1>5. ASSUME NEW v \in Units,
             \/ \E place \in Places : MoveFromMain(v, place) \/ MoveOwned(v, place)
             \/ StartBreakdown(v) \/ CompleteBreakdown(v)
             \/ \E status \in Statuses : SetLifecycleStatus(v, status)
             \/ \E accident \in BOOLEAN : RecordLoss(v, accident)
             \/ PrepareRepair(v)
      PROVE  KeepsReserved
  <2>1. NoneCloses
    BY <1>5 DEF MoveFromMain, MoveOwned, StartBreakdown, CompleteBreakdown,
                SetLifecycleStatus, RecordLoss, PrepareRepair
  <2>2. Owned
    <3>1. CASE \E place \in Places : MoveFromMain(v, place) \/ MoveOwned(v, place)
      BY <1>4, <3>1 DEF MoveFromMain, MoveOwned
    <3>2. CASE \/ StartBreakdown(v) \/ CompleteBreakdown(v)
               \/ \E status \in Statuses : SetLifecycleStatus(v, status)
               \/ \E accident \in BOOLEAN : RecordLoss(v, accident)
               \/ PrepareRepair(v)
      BY <1>0, <3>2 DEF StartBreakdown, CompleteBreakdown, SetLifecycleStatus, RecordLoss,
                        PrepareRepair, Asset
    <3> QED BY <1>5, <3>1, <3>2
  <2>3. Stays
    <3>1. ASSUME NEW place \in Places, MoveFromMain(v, place) PROVE Stays
      <4>1. unit[v].owner = Main
        BY <3>1 DEF MoveFromMain
      <4>2. \A u \in Units : u # v => unit'[u].at = unit[u].at
        BY <1>4, <3>1 DEF MoveFromMain
      <4> QED BY <4>1, <4>2
    <3>2. ASSUME NEW place \in Places, MoveOwned(v, place) PROVE Stays
      <4>1. ~Reserved(v, {})
        BY <3>2 DEF MoveOwned, MovableByOwner
      <4>2. \A u \in Units : u # v => unit'[u].at = unit[u].at
        BY <1>4, <3>2 DEF MoveOwned
      <4> QED BY <4>1, <4>2
    <3>3. CASE \/ StartBreakdown(v) \/ CompleteBreakdown(v)
               \/ \E status \in Statuses : SetLifecycleStatus(v, status)
               \/ \E accident \in BOOLEAN : RecordLoss(v, accident)
               \/ PrepareRepair(v)
      <4>1. \A u \in Units : unit'[u].at = unit[u].at
        BY <1>0, <3>3 DEF StartBreakdown, CompleteBreakdown, SetLifecycleStatus, RecordLoss,
                          PrepareRepair, Asset
      <4> QED BY <4>1
    <3> QED BY <1>5, <3>1, <3>2, <3>3
  <2> QED BY <1>1, <2>1, <2>2, <2>3
<1>6. ASSUME NEW v \in Units, NEW reassign \in BOOLEAN, IssueRepair(v, reassign)
      PROVE  KeepsReserved
  <2>1. Owned
    BY <1>4, <1>6 DEF IssueRepair
  <2>2. NoneCloses
    <3>1. \/ request' = request
          \/ \E r \in Requests, store \in Stores :
               request' = [request EXCEPT ![r] =
                 [kind |-> "use", units |-> {}, store |-> store, from |-> v]]
      <4>1. ReassignmentStores(v) \subseteq Stores
        <5>1. order[v] \in OrderRow
          BY Types DEF IInv
        <5> QED BY <5>1 DEF ReassignmentStores, InStore, OrderRow
      <4> QED BY <1>6, <4>1 DEF IssueRepair
    <3> QED BY <1>0, <3>1
  <2>3. Stays
    <3>1. unit' = Placed(v, "SUPPLIER", "UNDER_MAINTENANCE")
      BY <1>6 DEF IssueRepair
    <3> QED BY <1>4, <3>1
  <2> QED BY <1>1, <2>1, <2>2, <2>3
<1>7. ASSUME NEW v \in Units, CompleteRepair(v) PROVE KeepsReserved
  <2>1. Owned
    BY <1>4, <1>7 DEF CompleteRepair
  <2>2. NoneCloses
    <3>1. request' = RepointedRequest(v, order[v].origin)
      BY <1>7 DEF CompleteRepair
    <3>2. \A r \in Requests : request'[r].kind = request[r].kind
      BY <1>0, <3>1 DEF RepointedRequest, RequestRow
    <3> QED BY <3>2
  <2>3. Stays
    <3>1. CASE unit[v].at = "SUPPLIER"
      <4>1. \A u \in Units : u # v => unit'[u].at = unit[u].at
        BY <1>4, <1>7, <3>1 DEF CompleteRepair
      <4> QED BY <3>1, <4>1
    <3>2. CASE unit[v].at # "SUPPLIER"
      BY <1>7, <3>2 DEF CompleteRepair
    <3> QED BY <3>1, <3>2
  <2> QED BY <1>1, <2>1, <2>2, <2>3
<1>8. ASSUME NEW s \in Schedules,
             \/ \E method \in {"SUPPLIER", "IN_HOUSE"} : OpenVisit(s, method)
             \/ CancelVisit(s) \/ PrepareDispatch(s) \/ IssueServiceOrder(s)
             \/ Dispatch(s) \/ ReturnVisit(s)
             \/ \E passed \in BOOLEAN :
                  CompleteInHouse(s, passed) \/ CompleteVisit(s, passed)
      PROVE  KeepsReserved
  <2>0. UnitOf[s] \in Units
    BY StoreAssumption
  <2>1. NoneCloses
    BY <1>8 DEF OpenVisit, CancelVisit, PrepareDispatch, IssueServiceOrder,
                Dispatch, ReturnVisit, CompleteInHouse, CompleteVisit
  <2>2. Owned /\ Stays
    <3>1. CASE Dispatch(s) \/ ReturnVisit(s)
      <4>1. \/ unit' = Placed(UnitOf[s], "SUPPLIER", "UNDER_MAINTENANCE")
            \/ /\ unit[UnitOf[s]].at = "SUPPLIER"
               /\ unit' = Placed(UnitOf[s], order[UnitOf[s]].origin, "UNDER_MAINTENANCE")
        BY <3>1 DEF Dispatch, ReturnVisit
      <4> QED BY <1>4, <2>0, <4>1
    <3>2. ASSUME NEW passed \in BOOLEAN, CompleteInHouse(s, passed) \/ CompleteVisit(s, passed)
          PROVE  Owned /\ Stays
      <4>1. \/ UNCHANGED unit
            \/ \E status : unit' = [unit EXCEPT ![UnitOf[s]].status = status]
        BY <3>2 DEF CompleteInHouse, CompleteVisit
      <4>2. CASE UNCHANGED unit
        BY <4>2
      <4>3. ASSUME NEW status, unit' = [unit EXCEPT ![UnitOf[s]].status = status]
            PROVE  Owned /\ Stays
        <5>1. unit[UnitOf[s]] \in Asset
          BY <1>0, <2>0
        <5>2. /\ unit'[UnitOf[s]].owner = unit[UnitOf[s]].owner
              /\ unit'[UnitOf[s]].at = unit[UnitOf[s]].at
          BY <1>0, <2>0, <4>3, <5>1 DEF Asset
        <5>3. \A u \in Units : u # UnitOf[s] => unit'[u] = unit[u]
          BY <1>0, <2>0, <4>3
        <5> QED BY <5>2, <5>3
      <4> QED BY <4>1, <4>2, <4>3
    <3>3. CASE \/ \E method \in {"SUPPLIER", "IN_HOUSE"} : OpenVisit(s, method)
               \/ CancelVisit(s) \/ PrepareDispatch(s) \/ IssueServiceOrder(s)
      BY <3>3 DEF OpenVisit, CancelVisit, PrepareDispatch, IssueServiceOrder
    <3> QED BY <1>8, <3>1, <3>2, <3>3
  <2> QED BY <1>1, <2>1, <2>2
<1>9. ASSUME NEW r \in Requests, NEW v \in Units, NEW place, IssueRequest(r, v, place)
      PROVE  KeepsReserved
  <2>1. \A u \in Units \ {v} : unit'[u] = unit[u]
    BY <1>0, <1>9, PlacedOther DEF IssueRequest
  <2>2. ~Reserved(v, {})'
    BY <1>0, <1>9 DEF IssueRequest, Reserved, NoRequest
  <2> QED BY <1>3a, <2>1, <2>2
<1>10. ASSUME NEW v \in Units, NEW store \in Stores, TransferAccountability(v, store)
       PROVE  KeepsReserved
  <2>1. \A u \in Units \ {v} : unit'[u] = unit[u]
    BY <1>10 DEF TransferAccountability, HandedOver
  <2>2. ~Reserved(v, {})
    BY <1>10 DEF TransferAccountability
  <2> QED BY <1>3a, <2>1, <2>2
<1>11. ASSUME NEW r \in Requests, NEW v \in Units, TransferRequested(r, v)
       PROVE  KeepsReserved
  <2>1. \A u \in Units \ {v} : unit'[u] = unit[u]
    BY <1>11 DEF TransferRequested, HandedOver
  <2>2. ~Reserved(v, {})'
    <3>1. v \notin LinesLeft(r, {v}).units
      BY <1>0 DEF LinesLeft, NoRequest, RequestRow
    <3> QED BY <1>0, <1>11, <3>1 DEF TransferRequested, Reserved
  <2> QED BY <1>3a, <2>1, <2>2
<1>12. ASSUME NEW r \in Requests, NEW units \in SUBSET Units, TransferRequestedBatch(r, units)
       PROVE  KeepsReserved
  <2>1. \A u \in Units \ units : unit'[u] = unit[u]
    BY <1>12 DEF TransferRequestedBatch, HandedOver
  <2>2. \A u \in units : ~Reserved(u, {}) \/ ~Reserved(u, {})'
    BY <1>0, <1>12 DEF TransferRequestedBatch, Reserved, NoRequest
  <2> QED BY <1>3, <2>1, <2>2
<1>13. ASSUME NEW pair \in SUBSET Units, NEW place, MoveGaugeSet(pair, place)
       PROVE  KeepsReserved
  <2>1. \A u \in Units \ pair : unit'[u] = unit[u]
    BY <1>13 DEF MoveGaugeSet
  <2>2. \A u \in pair : ~Reserved(u, {}) \/ ~Reserved(u, {})'
    BY <1>13 DEF MoveGaugeSet, MovableByOwner
  <2> QED BY <1>3, <2>1, <2>2
<1>14. CASE \/ \E r \in Requests, units \in SUBSET Units :
                 \/ \E kind \in {"use", "transfer"}, store \in Stores :
                      CreateRequest(r, kind, units, store)
                 \/ CancelRequest(r, units)
            \/ \E pair \in SUBSET Units :
                 \/ CreateGaugeSet(pair)
                 \/ \E old, new \in Units : ReplaceGaugeSetMember(pair, old, new)
                 \/ DisbandGaugeSet(pair)
            \/ StartSetup \/ FinishSetup
  <2>1. UNCHANGED unit
    BY <1>14 DEF CreateRequest, CancelRequest, CreateGaugeSet, ReplaceGaugeSetMember,
                 DisbandGaugeSet, StartSetup, FinishSetup
  <2> QED BY <1>2, <2>1
<1> QED
  <2>1. CASE \E v \in Units :
               \/ \E place \in Places : MoveFromMain(v, place) \/ MoveOwned(v, place)
               \/ StartBreakdown(v) \/ CompleteBreakdown(v)
               \/ \E status \in Statuses : SetLifecycleStatus(v, status)
               \/ \E accident \in BOOLEAN : RecordLoss(v, accident)
               \/ PrepareRepair(v) \/ CompleteRepair(v)
               \/ \E reassign \in BOOLEAN : IssueRepair(v, reassign)
               \/ \E store \in Stores : TransferAccountability(v, store)
    BY <1>5, <1>6, <1>7, <1>10, <2>1
  <2>2. CASE \/ \E r \in Requests, units \in SUBSET Units : TransferRequestedBatch(r, units)
             \/ \E r \in Requests, v \in Units :
                  \/ \E place \in {"FLOOR", "AWAY"} : IssueRequest(r, v, place)
                  \/ TransferRequested(r, v)
             \/ \E pair \in SUBSET Units, place \in Places : MoveGaugeSet(pair, place)
    BY <1>9, <1>11, <1>12, <1>13, <2>2
  <2>3. CASE \E s \in Schedules :
               \/ \E method \in {"SUPPLIER", "IN_HOUSE"} : OpenVisit(s, method)
               \/ CancelVisit(s) \/ PrepareDispatch(s) \/ IssueServiceOrder(s)
               \/ Dispatch(s) \/ ReturnVisit(s)
               \/ \E passed \in BOOLEAN :
                    CompleteInHouse(s, passed) \/ CompleteVisit(s, passed)
    BY <1>8, <2>3
  <2> QED BY <1>14, <2>1, <2>2, <2>3 DEF Next

\* A unit that an open request holds is not transferred, issued under another
\* request, or moved by its owning department (transferRequestedAssetsBatch,
\* issueRequisition, department-stores.ts moveAsset).
THEOREM ReservationsKept == Spec => ReservedIsNotGivenAway
<1>1. IInv /\ [Next]_vars => [KeepsReserved]_vars
  BY ReservationsHold
<1> QED BY <1>1, Invariance, PTL DEF Spec, ReservedIsNotGivenAway

\* What leaves the floor leaves enough usable units for the setups that run
\* (assertToolingTransferAvailable in movements, repairs, dispatches and
\* transfers).
THEOREM ToolsStayed == Spec => ToolsStayWithSetups
<1>1. IInv /\ [Next]_vars => [KeepsTools]_vars
  BY ToolsStay
<1> QED BY <1>1, Invariance, PTL DEF Spec, ToolsStayWithSetups

------------------------------------------------------------------------------
(* The output of production sessions.                                     *)

EntryRow == [good : Nat, rejected : Nat]

\* The rows are as long as the sessions, and one row per session each.
OutputRows ==
    /\ entry \in Seq(EntryRow) /\ Len(entry) = Len(session)
    /\ reported \in Seq(0 .. MaxReported) /\ Len(reported) = Len(session)

\* A counter has been read at the start of its session, and at the end of one
\* that closed, and does not run backwards.
Read(row) ==
    row.method = "counter" =>
        /\ row.startCount \in Count
        /\ row.closed => row.endCount \in Count /\ row.startCount <= row.endCount

\* A reading is carried on from an earlier session.
CarriedFromEarlier == \A s \in DOMAIN session : session[s].from < s

\* A carried reading is the end of a closed session with a counter.
LinkOK(s) ==
    session[s].from # 0 =>
        LET p == session[session[s].from]
        IN  /\ session[s].method = "counter"
            /\ p.method = "counter"
            /\ p.closed /\ p.endCount = session[s].startCount
            /\ p.setup = session[s].setup

OutputIInv ==
    /\ OutputTypeOK
    /\ OutputRows
    /\ \A s \in DOMAIN session : Read(session[s])
    /\ CarriedFromEarlier
    /\ \A s \in DOMAIN session : LinkOK(s)
    /\ OutputBalances

\* The output of a row of the table, of its entry and of its rejections.
Balanced(row, e, r) ==
    LET counted == row.method = "counter"
        pending == row.closed /\ ~counted /\ row.gross = Null
    IN  /\ row.rejected = r
        /\ row.closed /\ ~pending => row.good + row.rejected = row.total
        /\ row.closed /\ counted => row.total = row.endCount - row.startCount
        /\ ~row.closed \/ pending => row.good = 0
        /\ e = [good |-> row.good, rejected |-> row.rejected]

LEMMA BalancesByRow ==
    OutputBalances <=> \A s \in DOMAIN session : Balanced(session[s], entry[s], reported[s])
BY DEF OutputBalances, Balanced, OutputPending, Counted

\* One row of production_sessions, its entry and its rejections.
LEMMA OutputRow ==
    ASSUME OutputIInv
    PROVE  /\ DOMAIN session = 1 .. Len(session) /\ Len(session) \in 0 .. MaxSessions
           /\ DOMAIN entry = DOMAIN session /\ DOMAIN reported = DOMAIN session
           /\ \A s \in DOMAIN session :
                 /\ s \in Nat
                 /\ session[s] \in Session /\ entry[s] \in EntryRow
                 /\ reported[s] \in 0 .. MaxReported
                 /\ Read(session[s]) /\ LinkOK(s)
                 /\ session[s].from \in 0 .. s - 1
                 /\ session[s].from # 0 => session[s].from \in DOMAIN session
                 /\ Balanced(session[s], entry[s], reported[s])
<1> USE OutputAssumption
<1>1. /\ session \in Seq(Session) /\ entry \in Seq(EntryRow)
      /\ reported \in Seq(0 .. MaxReported)
  BY DEF OutputIInv, OutputTypeOK, OutputRows
<1>2. /\ DOMAIN session = 1 .. Len(session) /\ DOMAIN entry = DOMAIN session
      /\ DOMAIN reported = DOMAIN session /\ Len(session) \in 0 .. MaxSessions
      /\ \A s \in DOMAIN session : session[s] \in Session /\ entry[s] \in EntryRow
                                   /\ reported[s] \in 0 .. MaxReported
  BY <1>1, LenProperties, ElementOfSeq DEF OutputIInv, OutputTypeOK, OutputRows
<1>3. ASSUME NEW s \in DOMAIN session
      PROVE  /\ s \in Nat /\ session[s].from \in 0 .. s - 1
             /\ session[s].from # 0 => session[s].from \in DOMAIN session
  <2>1. session[s].from \in 0 .. MaxSessions /\ session[s].from < s
    BY <1>2 DEF OutputIInv, CarriedFromEarlier, Session
  <2> QED BY <1>2, <2>1
<1> QED BY <1>2, <1>3, BalancesByRow DEF OutputIInv

\* What a step must leave in one session, its entry and its rejections.
LEMMA ChangedRow ==
    ASSUME OutputIInv, NEW s \in DOMAIN session,
           NEW row \in Session, NEW e \in EntryRow, NEW r \in 0 .. MaxReported,
           session' = [session EXCEPT ![s] = row],
           entry' = [entry EXCEPT ![s] = e],
           reported' = [reported EXCEPT ![s] = r],
           row.setup = session[s].setup /\ row.method = session[s].method,
           session[s].closed => row.closed,
           session[s].closed /\ CarriedOn(s) => row.endCount = session[s].endCount,
           row.from # 0 => /\ row.from = session[s].from
                           /\ row.startCount = session[s].startCount,
           Read(row), Balanced(row, e, r)
    PROVE  OutputIInv'
<1> USE OutputAssumption
<1>1. /\ session' \in Seq(Session) /\ Len(session') = Len(session)
      /\ entry' \in Seq(EntryRow) /\ Len(entry') = Len(entry)
      /\ reported' \in Seq(0 .. MaxReported) /\ Len(reported') = Len(reported)
  BY OutputRow, ExceptSeq DEF OutputIInv, OutputTypeOK, OutputRows
<1>2. DOMAIN session' = DOMAIN session
  BY <1>1, OutputRow, LenProperties
<1>3. \A o \in DOMAIN session :
         /\ session'[o] = IF o = s THEN row ELSE session[o]
         /\ entry'[o] = IF o = s THEN e ELSE entry[o]
         /\ reported'[o] = IF o = s THEN r ELSE reported[o]
  BY OutputRow
<1>4. OutputTypeOK' /\ OutputRows'
  <2>1. Len(session') <= MaxSessions
    BY <1>1, OutputRow
  <2>2. entry' \in [DOMAIN session' -> EntryRow]
    BY <1>1, <1>2, OutputRow, LenProperties
  <2>3. reported' \in [DOMAIN session' -> 0 .. MaxReported]
    BY <1>1, <1>2, OutputRow, LenProperties
  <2> QED BY <1>1, <2>1, <2>2, <2>3 DEF OutputTypeOK, OutputRows, EntryRow, OutputIInv
<1>5. \A o \in DOMAIN session' : Read(session'[o])
  BY <1>2, <1>3, OutputRow
<1>6. CarriedFromEarlier'
  BY <1>2, <1>3, OutputRow DEF CarriedFromEarlier
<1>7. \A o \in DOMAIN session' : LinkOK(o)'
  <2> SUFFICES ASSUME NEW o \in DOMAIN session, session'[o].from # 0
               PROVE  LinkOK(o)'
    BY <1>2 DEF LinkOK
  <2> DEFINE p == session[o].from
  <2>1. p # 0 /\ session'[o].from = p /\ session'[o].startCount = session[o].startCount
    BY <1>3
  <2>2. p \in DOMAIN session /\ LinkOK(o) /\ o \in Nat /\ p < o
    BY <2>1, OutputRow
  <2>3. session'[o].setup = session[o].setup /\ session'[o].method = session[o].method
    BY <1>3
  <2>4. /\ session'[p].method = session[p].method /\ session'[p].setup = session[p].setup
        /\ session[p].closed
        /\ session'[p].closed /\ session'[p].endCount = session[p].endCount
    <3>1. CASE p = s
      <4>1. CarriedOn(s)
        BY <3>1 DEF CarriedOn
      <4> QED BY <1>3, <2>1, <2>2, <3>1, <4>1 DEF LinkOK
    <3>2. CASE p # s
      BY <1>3, <2>1, <2>2, <3>2 DEF LinkOK
    <3> QED BY <3>1, <3>2
  <2> QED BY <2>1, <2>2, <2>3, <2>4 DEF LinkOK
<1>8. OutputBalances'
  <2>1. \A o \in DOMAIN session' : Balanced(session'[o], entry'[o], reported'[o])
    BY <1>2, <1>3, OutputRow
  <2> QED BY <2>1 DEF OutputBalances, Balanced, OutputPending, Counted
<1> QED BY <1>4, <1>5, <1>6, <1>7, <1>8 DEF OutputIInv

\* Most operations leave the rejections alone.
LEMMA SameRejections ==
    ASSUME OutputIInv, NEW s \in DOMAIN session
    PROVE  reported = [reported EXCEPT ![s] = reported[s]]
BY DEF OutputIInv, OutputTypeOK

\* A scale weighs a whole number of pieces.
LEMMA WholePieces ==
    ASSUME NEW gross \in 0 .. MaxGross, NEW crates \in 0 .. MaxCrates
    PROVE  Pieces(gross, crates) \in Nat
<1>1. gross - crates * CrateWeight \in Int
  BY OutputAssumption
<1>2. ASSUME NEW n \in Int, n > 0 PROVE n \div PieceWeight \in Nat
  BY <1>2, OutputAssumption
<1> QED BY <1>1, <1>2 DEF Pieces

LEMMA InitOutputIInv == OutputInit => OutputIInv
<1> SUFFICES ASSUME OutputInit PROVE OutputIInv
  OBVIOUS
<1> USE OutputAssumption DEF OutputInit
<1>1. DOMAIN session = {} /\ Len(session) = 0
  OBVIOUS
<1>2. OutputTypeOK /\ OutputRows
  BY <1>1, EmptySeq DEF OutputTypeOK, OutputRows
<1> QED
  BY <1>1, <1>2
     DEF OutputIInv, CarriedFromEarlier, OutputBalances

\* A session is started: it takes the reading of the last one that ended, if
\* that one was counted in the same context.
LEMMA StartOutput ==
    ASSUME OutputIInv, NEW u \in Setups, NEW m \in {"counter", "weight"}, NEW t \in Slot,
           NEW c \in Count, Start(u, m, t, c)
    PROVE  OutputIInv'
<1> USE OutputAssumption
<1> DEFINE carried == {p \in Prior(t) : m = "counter" /\ CanCarry(p, u)}
           from == IF carried = {} THEN 0 ELSE CHOOSE p \in carried : TRUE
           first == CASE m = "weight" -> Null
                      [] from # 0 -> session[from].endCount
                      [] OTHER -> c
           row == [setup |-> u, method |-> m, slot |-> t, closed |-> FALSE,
                   startCount |-> first, endCount |-> Null, from |-> from,
                   gross |-> Null, total |-> 0, good |-> 0, rejected |-> 0]
           n == Len(session)
<1>1. /\ session' = Append(session, row)
      /\ entry' = Append(entry, [good |-> 0, rejected |-> 0])
      /\ reported' = Append(reported, 0)
      /\ n < MaxSessions
  BY DEF Start
<1>2. from # 0 => /\ from \in DOMAIN session /\ session[from].closed
                  /\ session[from].method = "counter" /\ session[from].setup = u
                  /\ m = "counter"
  <2>1. carried # {} => from \in carried
    OBVIOUS
  <2> QED BY <2>1 DEF Prior, EndsBefore, CanCarry, Counted
<1> HIDE DEF from
<1>3. first \in Count \union {Null} /\ (m = "counter" => first \in Count)
  BY <1>2, OutputRow DEF Read
<1>4. from = 0 \/ from \in 1 .. n
  BY <1>2, OutputRow
<1>5. row \in Session
  BY <1>3, <1>4, OutputRow DEF Session
<1>6. from # 0 => first = session[from].endCount
  BY <1>2
<1> HIDE DEF first
<1>7. Read(row) /\ Balanced(row, [good |-> 0, rejected |-> 0], 0)
  BY <1>3 DEF Read, Balanced
<1>8. row.from = from /\ row.startCount = first /\ row.setup = u /\ row.method = m
  OBVIOUS
<1> HIDE DEF row
<1>9. /\ session' \in Seq(Session) /\ Len(session') = n + 1
      /\ entry' \in Seq(EntryRow) /\ Len(entry') = n + 1
      /\ reported' \in Seq(0 .. MaxReported) /\ Len(reported') = n + 1
      /\ \A o \in 1 .. n : /\ session'[o] = session[o] /\ entry'[o] = entry[o]
                           /\ reported'[o] = reported[o]
      /\ session'[n + 1] = row /\ entry'[n + 1] = [good |-> 0, rejected |-> 0]
      /\ reported'[n + 1] = 0
  <2>1. [good |-> 0, rejected |-> 0] \in EntryRow /\ 0 \in 0 .. MaxReported
    BY DEF EntryRow
  <2>2. /\ session \in Seq(Session) /\ entry \in Seq(EntryRow)
        /\ reported \in Seq(0 .. MaxReported) /\ Len(entry) = n /\ Len(reported) = n
    BY DEF OutputIInv, OutputTypeOK, OutputRows
  <2> QED BY <1>1, <1>5, <2>1, <2>2, AppendProperties
<1>10. DOMAIN session' = 1 .. n + 1 /\ DOMAIN session = 1 .. n /\ n \in Nat
  BY <1>9, OutputRow, LenProperties
<1>11. OutputTypeOK' /\ OutputRows'
  <2>1. /\ entry' \in [DOMAIN session' -> EntryRow]
        /\ reported' \in [DOMAIN session' -> 0 .. MaxReported]
    BY <1>9, <1>10, LenProperties
  <2> QED BY <1>1, <1>9, <1>10, <2>1 DEF OutputTypeOK, OutputRows, EntryRow
<1>12. \A o \in DOMAIN session' : o \in DOMAIN session \/ o = n + 1
  BY <1>10
<1>13. \A o \in DOMAIN session' : Read(session'[o])
  BY <1>7, <1>9, <1>10, <1>12, OutputRow
<1>14. CarriedFromEarlier'
  <2>1. session'[n + 1].from < n + 1
    BY <1>4, <1>8, <1>9, <1>10
  <2>2. ASSUME NEW o \in DOMAIN session PROVE session'[o].from < o
    BY <1>9, <1>10, OutputRow
  <2> QED BY <1>12, <2>1, <2>2 DEF CarriedFromEarlier
<1>15. ASSUME NEW o \in DOMAIN session' PROVE LinkOK(o)'
  <2>1. CASE o = n + 1
    BY <1>2, <1>4, <1>6, <1>8, <1>9, <1>10, <2>1 DEF LinkOK
  <2>2. CASE o # n + 1
    <3>1. session[o].from # 0 => session[o].from \in 1 .. n
      BY <1>10, <1>12, <2>2, OutputRow
    <3>2. LinkOK(o) /\ session'[o] = session[o]
      BY <1>9, <1>10, <1>12, <2>2, OutputRow
    <3> QED BY <1>9, <3>1, <3>2 DEF LinkOK
  <2> QED BY <2>1, <2>2
<1>16. OutputBalances'
  <2>1. \A o \in DOMAIN session' : Balanced(session'[o], entry'[o], reported'[o])
    BY <1>7, <1>9, <1>10, <1>12, OutputRow
  <2> QED BY <2>1 DEF OutputBalances, Balanced, OutputPending, Counted
<1> QED BY <1>11, <1>13, <1>14, <1>15, <1>16 DEF OutputIInv

\* A rejection of pieces that the session made.
LEMMA RejectionOutput ==
    ASSUME OutputIInv, NEW s \in DOMAIN session, NEW q \in 1 .. MaxReported,
           RecordRejection(s, q)
    PROVE  OutputIInv'
<1> USE OutputAssumption
<1> DEFINE rejected == reported[s] + q
           good == RejectedGood(s, rejected)
           row == [session[s] EXCEPT !.rejected = rejected, !.good = good]
           e == [rejected |-> rejected,
                 good |-> IF session[s].closed /\ ~OutputPending(s)
                          THEN session[s].total - rejected ELSE 0]
<1>1. /\ session[s] \in Session /\ reported[s] \in 0 .. MaxReported
      /\ Read(session[s]) /\ Balanced(session[s], entry[s], reported[s])
      /\ entry[s] \in EntryRow
  BY OutputRow
<1>2. rejected \in 0 .. MaxReported
  BY <1>1 DEF RecordRejection
<1>3. /\ session' = [session EXCEPT ![s] = row]
      /\ entry' = [entry EXCEPT ![s] = e]
      /\ reported' = [reported EXCEPT ![s] = rejected]
  <2>1. session' = [session EXCEPT ![s].rejected = rejected, ![s].good = good]
    BY DEF RecordRejection
  <2>2. [session EXCEPT ![s].rejected = rejected, ![s].good = good]
          = [session EXCEPT ![s] = row]
    BY <1>1, OutputRow DEF Session
  <2> QED BY <2>1, <2>2 DEF RecordRejection
<1>4. /\ OutputPending(s) => good = 0
      /\ session[s].closed /\ ~OutputPending(s) =>
            /\ rejected <= session[s].total
            /\ good = session[s].total - rejected
      /\ ~session[s].closed => good = session[s].good /\ ~OutputPending(s)
  <2>1. CASE OutputPending(s)
    BY <2>1 DEF RejectedGood, OutputPending
  <2>2. CASE session[s].closed /\ ~OutputPending(s)
    <3>1. rejected <= session[s].total
      BY <2>2 DEF RecordRejection, CoversRejected
    <3> QED BY <2>2, <3>1 DEF RejectedGood
  <2>3. CASE ~session[s].closed
    BY <2>3 DEF RejectedGood, OutputPending
  <2> QED BY <2>1, <2>2, <2>3
<1>5. session[s].total \in Nat /\ session[s].good \in Nat /\ session[s].closed \in BOOLEAN
  BY <1>1 DEF Session
<1>6. good \in Nat /\ (~session[s].closed \/ OutputPending(s) => good = 0)
  BY <1>1, <1>2, <1>4, <1>5 DEF Balanced
<1> HIDE DEF good, rejected
<1>7. /\ row \in Session /\ row.rejected = rejected /\ row.good = good
      /\ row.setup = session[s].setup /\ row.method = session[s].method
      /\ row.closed = session[s].closed /\ row.endCount = session[s].endCount
      /\ row.startCount = session[s].startCount /\ row.from = session[s].from
      /\ row.gross = session[s].gross /\ row.total = session[s].total
  <2>1. rejected \in Nat
    BY <1>2
  <2> QED BY <1>1, <1>6, <2>1 DEF Session
<1> HIDE DEF row
<1>8. e.good = good /\ e.rejected = rejected /\ e = [good |-> good, rejected |-> rejected]
  BY <1>4, <1>6
<1>9. e \in EntryRow
  BY <1>2, <1>6, <1>8 DEF EntryRow
<1> HIDE DEF e
<1>10. Balanced(row, e, rejected)
  <2>1. session[s].closed /\ ~OutputPending(s) => good + rejected = session[s].total
    BY <1>2, <1>4, <1>5, <1>6
  <2> QED BY <1>1, <1>6, <1>7, <1>8, <2>1 DEF Balanced, OutputPending, Counted
<1>11. Read(row)
  BY <1>1, <1>7 DEF Read
<1> QED BY <1>2, <1>3, <1>7, <1>9, <1>10, <1>11, ChangedRow

\* The last reading of a counter, or its correction.
LEMMA CounterOutput ==
    ASSUME OutputIInv, NEW s \in DOMAIN session, NEW c \in Count, CloseCounter(s, c)
    PROVE  OutputIInv'
<1> USE OutputAssumption
<1> DEFINE closed == [session[s] EXCEPT !.closed = TRUE, !.endCount = c]
           total == c - session[s].startCount
           r == reported[s]
           row == WithOutput(closed, total, r)
           e == [good |-> total - r, rejected |-> r]
<1>1. /\ session[s] \in Session /\ r \in 0 .. MaxReported /\ Read(session[s])
  BY OutputRow
<1>2. /\ session[s].method = "counter"
      /\ session[s].closed /\ CarriedOn(s) => c = session[s].endCount
      /\ c >= session[s].startCount /\ r <= total
      /\ session' = [session EXCEPT ![s] = row]
      /\ entry' = [entry EXCEPT ![s] = [good |-> row.good, rejected |-> row.rejected]]
      /\ reported' = reported
  BY DEF CloseCounter, Counted, CoversRejected, Record
<1>3. session[s].startCount \in Count /\ c \in Nat /\ session[s].startCount \in Nat
  BY <1>1, <1>2 DEF Read, Count
<1>4. total \in Nat /\ r \in Nat /\ total - r \in Nat /\ (total - r) + r = total
  BY <1>1, <1>2, <1>3
<1> HIDE DEF total, r
<1>5. /\ row \in Session /\ row.rejected = r /\ row.good = total - r /\ row.total = total
      /\ row.setup = session[s].setup /\ row.method = "counter"
      /\ row.closed /\ row.endCount = c
      /\ row.startCount = session[s].startCount /\ row.from = session[s].from
  <2>1. closed \in Session
    BY <1>1 DEF Session
  <2>2. /\ closed.setup = session[s].setup /\ closed.method = session[s].method
        /\ closed.closed /\ closed.endCount = c /\ closed.from = session[s].from
        /\ closed.startCount = session[s].startCount
    BY <1>1 DEF Session
  <2> HIDE DEF closed
  <2> QED BY <1>2, <1>4, <2>1, <2>2 DEF WithOutput, Session
<1> HIDE DEF row
<1>6. e \in EntryRow /\ entry' = [entry EXCEPT ![s] = e]
  BY <1>2, <1>4, <1>5 DEF EntryRow
<1>7. reported' = [reported EXCEPT ![s] = r]
  BY <1>2, SameRejections DEF r
<1>8. Balanced(row, e, r)
  BY <1>4, <1>5 DEF Balanced, total
<1>9. Read(row)
  BY <1>2, <1>3, <1>5 DEF Read
<1>10. /\ row.setup = session[s].setup /\ row.method = session[s].method
       /\ session[s].closed => row.closed
       /\ session[s].closed /\ CarriedOn(s) => row.endCount = session[s].endCount
       /\ row.from # 0 => /\ row.from = session[s].from
                          /\ row.startCount = session[s].startCount
       /\ row \in Session /\ r \in 0 .. MaxReported
       /\ session' = [session EXCEPT ![s] = row]
  BY <1>1, <1>2, <1>5
<1> HIDE DEF e
<1> QED BY <1>6, <1>7, <1>8, <1>9, <1>10, ChangedRow

\* What is weighed at the end of a session, then or later.
LEMMA WeightOutput ==
    ASSUME OutputIInv, NEW s \in DOMAIN session, NEW g \in 0 .. MaxGross,
           NEW k \in 0 .. MaxCrates, CloseWeight(s, g, k)
    PROVE  OutputIInv'
<1> USE OutputAssumption
<1> DEFINE closed == [session[s] EXCEPT !.closed = TRUE, !.gross = g]
           total == Pieces(g, k)
           r == reported[s]
           row == WithOutput(closed, total, r)
           e == [good |-> total - r, rejected |-> r]
<1>1. session[s] \in Session /\ r \in 0 .. MaxReported /\ LinkOK(s)
  BY OutputRow
<1>2. /\ session[s].method # "counter" /\ r <= total
      /\ session' = [session EXCEPT ![s] = row]
      /\ entry' = [entry EXCEPT ![s] = [good |-> row.good, rejected |-> row.rejected]]
      /\ reported' = reported
  BY DEF CloseWeight, Counted, CoversRejected, Record
<1>3. total \in Nat
  BY WholePieces
<1>4. r \in Nat /\ total - r \in Nat /\ (total - r) + r = total
  BY <1>1, <1>2, <1>3
<1>5. ~CarriedOn(s) /\ session[s].from = 0
  <2>1. session[s].from = 0
    BY <1>1, <1>2 DEF LinkOK
  <2>2. ASSUME NEW o \in DOMAIN session, session[o].from = s PROVE FALSE
    BY <1>2, <2>2, OutputRow DEF LinkOK
  <2> QED BY <2>1, <2>2 DEF CarriedOn
<1> HIDE DEF total, r
<1>6. /\ row \in Session /\ row.rejected = r /\ row.good = total - r /\ row.total = total
      /\ row.setup = session[s].setup /\ row.method = session[s].method
      /\ row.closed /\ row.gross = g /\ row.from = session[s].from
  <2>1. closed \in Session
    BY <1>1 DEF Session
  <2>2. /\ closed.setup = session[s].setup /\ closed.method = session[s].method
        /\ closed.closed /\ closed.gross = g /\ closed.from = session[s].from
    BY <1>1 DEF Session
  <2> HIDE DEF closed
  <2> QED BY <1>3, <1>4, <2>1, <2>2 DEF WithOutput, Session
<1> HIDE DEF row
<1>7. e \in EntryRow /\ entry' = [entry EXCEPT ![s] = e]
  BY <1>2, <1>4, <1>6 DEF EntryRow
<1>8. reported' = [reported EXCEPT ![s] = r]
  BY <1>2, SameRejections DEF r
<1>9. Balanced(row, e, r) /\ Read(row)
  BY <1>2, <1>4, <1>6 DEF Balanced, Read, Null
<1>10. /\ row.setup = session[s].setup /\ row.method = session[s].method
       /\ session[s].closed => row.closed
       /\ row.from # 0 => /\ row.from = session[s].from
                          /\ row.startCount = session[s].startCount
       /\ row \in Session /\ r \in 0 .. MaxReported
       /\ session' = [session EXCEPT ![s] = row]
  BY <1>1, <1>2, <1>5, <1>6
<1> HIDE DEF e
<1> QED BY <1>5, <1>7, <1>8, <1>9, <1>10, ChangedRow

\* The weight is left for later.
LEMMA PendingOutput ==
    ASSUME OutputIInv, NEW s \in DOMAIN session, ClosePending(s)
    PROVE  OutputIInv'
<1> USE OutputAssumption
<1> DEFINE r == reported[s]
           row == [session[s] EXCEPT !.closed = TRUE, !.total = 0, !.good = 0,
                                     !.rejected = r]
           e == [good |-> 0, rejected |-> r]
<1>1. session[s] \in Session /\ r \in 0 .. MaxReported /\ LinkOK(s)
  BY OutputRow
<1>2. /\ session[s].method # "counter" /\ session[s].gross = Null
      /\ session' = [session EXCEPT ![s] = row]
      /\ entry' = [entry EXCEPT ![s] = [good |-> row.good, rejected |-> row.rejected]]
      /\ reported' = reported
  BY DEF ClosePending, Counted, Record
<1>3. r \in Nat
  BY <1>1
<1>4. ~CarriedOn(s) /\ session[s].from = 0
  <2>1. session[s].from = 0
    BY <1>1, <1>2 DEF LinkOK
  <2>2. ASSUME NEW o \in DOMAIN session, session[o].from = s PROVE FALSE
    BY <1>2, <2>2, OutputRow DEF LinkOK
  <2> QED BY <2>1, <2>2 DEF CarriedOn
<1> HIDE DEF r
<1>5. /\ row \in Session /\ row.rejected = r /\ row.good = 0 /\ row.total = 0
      /\ row.setup = session[s].setup /\ row.method = session[s].method
      /\ row.closed /\ row.gross = session[s].gross /\ row.from = session[s].from
  BY <1>1, <1>3 DEF Session
<1> HIDE DEF row
<1>6. e \in EntryRow /\ entry' = [entry EXCEPT ![s] = e]
  BY <1>2, <1>3, <1>5 DEF EntryRow
<1>7. reported' = [reported EXCEPT ![s] = r]
  BY <1>2, SameRejections DEF r
<1>8. Balanced(row, e, r) /\ Read(row)
  BY <1>2, <1>3, <1>5 DEF Balanced, Read
<1>9. /\ row.setup = session[s].setup /\ row.method = session[s].method
      /\ session[s].closed => row.closed
      /\ row.from # 0 => /\ row.from = session[s].from
                         /\ row.startCount = session[s].startCount
      /\ row \in Session /\ r \in 0 .. MaxReported
      /\ session' = [session EXCEPT ![s] = row]
  BY <1>1, <1>2, <1>4, <1>5
<1> HIDE DEF e
<1> QED BY <1>4, <1>6, <1>7, <1>8, <1>9, ChangedRow

\* A corrected first reading: what was carried on from this session stays.
LEMMA StartCountOutput ==
    ASSUME OutputIInv, NEW s \in DOMAIN session, NEW c \in Count, CorrectStartCount(s, c)
    PROVE  OutputIInv'
<1> USE OutputAssumption
<1> DEFINE r == reported[s]
           begun == [session[s] EXCEPT !.startCount = c, !.from = 0]
           total == session[s].endCount - c
           row == IF session[s].closed THEN WithOutput(begun, total, session[s].rejected)
                  ELSE begun
           e == [good |-> row.good, rejected |-> r]
<1>1. /\ session[s] \in Session /\ r \in 0 .. MaxReported /\ Read(session[s])
      /\ entry[s] \in EntryRow /\ Balanced(session[s], entry[s], r)
  BY OutputRow
<1>2. /\ session[s].method = "counter" /\ reported' = reported
      /\ session[s].closed => c <= session[s].endCount /\ session[s].rejected <= total
      /\ session' = [session EXCEPT ![s] = row]
      /\ entry' = [entry EXCEPT ![s].good = row.good]
  BY DEF CorrectStartCount, Counted, CoversRejected, Recounted
<1>3. /\ session[s].rejected = r /\ entry[s].rejected = r /\ r \in Nat
      /\ session[s].closed \in BOOLEAN
      /\ ~session[s].closed => session[s].good = 0
  BY <1>1 DEF Balanced, Session
<1>4. session[s].closed => /\ session[s].endCount \in Nat /\ c \in Nat
                           /\ total \in Nat /\ total - r \in Nat
                           /\ (total - r) + r = total
  <2>1. session[s].closed => session[s].endCount \in Count
    BY <1>1, <1>2 DEF Read
  <2> QED BY <1>2, <1>3, <2>1 DEF Count
<1>5. /\ begun \in Session /\ begun.setup = session[s].setup
      /\ begun.method = session[s].method /\ begun.closed = session[s].closed
      /\ begun.startCount = c /\ begun.endCount = session[s].endCount /\ begun.from = 0
      /\ begun.good = session[s].good /\ begun.rejected = session[s].rejected
  <2>1. 0 \in 0 .. MaxSessions
    OBVIOUS
  <2> QED BY <1>1, <2>1 DEF Session
<1> HIDE DEF begun, r, total
<1>6. /\ row \in Session /\ row.setup = session[s].setup
      /\ row.method = "counter" /\ row.closed = session[s].closed
      /\ row.startCount = c /\ row.endCount = session[s].endCount /\ row.from = 0
      /\ row.rejected = r
      /\ ~row.closed => row.good = 0
      /\ row.closed => row.total = total /\ row.good = total - r
  <2>1. CASE session[s].closed
    BY <1>2, <1>3, <1>4, <1>5, <2>1 DEF WithOutput, Session
  <2>2. CASE ~session[s].closed
    BY <1>2, <1>3, <1>5, <2>2
  <2> QED BY <2>1, <2>2
<1>7. row.good \in Nat
  BY <1>6 DEF Session
<1> HIDE DEF row
<1>8. e \in EntryRow /\ entry' = [entry EXCEPT ![s] = e]
  <2>1. e \in EntryRow
    BY <1>3, <1>7 DEF EntryRow
  <2>2. [entry[s] EXCEPT !.good = row.good] = e
    BY <1>1, <1>3 DEF EntryRow
  <2>3. [entry EXCEPT ![s].good = row.good]
          = [entry EXCEPT ![s] = [entry[s] EXCEPT !.good = row.good]]
    OBVIOUS
  <2> HIDE DEF e
  <2> QED BY <1>2, <2>1, <2>2, <2>3
<1>9. reported' = [reported EXCEPT ![s] = r]
  BY <1>2, SameRejections DEF r
<1>10. Balanced(row, e, r)
  BY <1>3, <1>4, <1>6 DEF Balanced, total
<1>11. Read(row)
  BY <1>1, <1>2, <1>4, <1>6 DEF Read, Count
<1>12. /\ row.setup = session[s].setup /\ row.method = session[s].method
       /\ session[s].closed => row.closed
       /\ row.endCount = session[s].endCount /\ row.from = 0
       /\ row \in Session /\ r \in 0 .. MaxReported
       /\ session' = [session EXCEPT ![s] = row]
  BY <1>1, <1>2, <1>6
<1> HIDE DEF e
<1> QED BY <1>8, <1>9, <1>10, <1>11, <1>12, ChangedRow

LEMMA NextOutputIInv == OutputIInv /\ [OutputNext]_outputVars => OutputIInv'
<1> SUFFICES ASSUME OutputIInv, [OutputNext]_outputVars PROVE OutputIInv'
  OBVIOUS
<1>1. CASE OutputNext
  BY <1>1, StartOutput, RejectionOutput, CounterOutput, WeightOutput, PendingOutput,
     StartCountOutput DEF OutputNext
<1>2. CASE UNCHANGED outputVars
  BY <1>2
     DEF outputVars, OutputIInv, OutputTypeOK, OutputRows, CarriedFromEarlier, LinkOK,
         OutputBalances, OutputPending, Counted
<1> QED BY <1>1, <1>2

\* Rows of sessions, entries and rejections agree, and readings are carried on
\* from earlier sessions only, after any sequence of starts, closes,
\* rejections and corrections.
THEOREM OutputInvariance == OutputSpec => []OutputIInv
BY InitOutputIInv, NextOutputIInv, PTL DEF OutputSpec

\* Output never becomes negative: neither the pieces of a session or of its
\* production entry, nor what a close or a correction computes from readings
\* and weights.
THEOREM OutputTypeCorrect == OutputSpec => []OutputTypeOK
<1>1. OutputIInv => OutputTypeOK
  BY DEF OutputIInv
<1> QED BY <1>1, OutputInvariance, PTL

\* calculateProductionSessionOutput, the rejections and both corrections keep
\* good plus rejected equal to what the counter or the scale says, in the
\* session and in its production entry alike.
THEOREM EveryPieceAccounted == OutputSpec => []OutputBalances
<1>1. OutputIInv => OutputBalances
  BY DEF OutputIInv
<1> QED BY <1>1, OutputInvariance, PTL

\* startProductionSession carries a reading on, and from then on the correction
\* of the end count on one side and of the start count on the other keep the
\* link true or clear it.
THEOREM CarriedReadings == OutputSpec => []CarriedCountsAgree
<1>1. OutputIInv => CarriedCountsAgree
  BY DEF OutputIInv, LinkOK, CarriedCountsAgree
<1> QED BY <1>1, OutputInvariance, PTL
==============================================================================
