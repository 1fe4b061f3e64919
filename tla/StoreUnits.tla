------------------------------ MODULE StoreUnits ------------------------------
(***************************************************************************)
(* The custody of serialized Store units ("Unit IDs"): who accounts for a  *)
(* unit, who holds it, and what keeps it from use.  It models the Unit ID  *)
(* operations of packages/db/src/store.ts, department-stores.ts and        *)
(* store-calibration.ts with the tooling check of tooling-availability.ts  *)
(* and the unique indexes and trigger of migrations 0183, 0190, 0194-0196  *)
(* and 0208.                                                               *)
(*                                                                         *)
(* Every operation is one transaction that locks the unit's row, most of   *)
(* them after the tooling advisory lock of the organization, and reads the *)
(* tables that may hold the unit after that: each is one action.  What a   *)
(* repair or calibration spreads over hours (prepare, store the PDF,       *)
(* issue, dispatch, return, sign off) is several transactions, and any     *)
(* other operation may come between two of them.                           *)
(*                                                                         *)
(* All units are of one Asset Code.  Racks and bins of a store are one     *)
(* place; departments and machines of one production floor are "FLOOR";    *)
(* a vendor's or employee's hands are "AWAY"; a unit at a SUPPLIER is at   *)
(* the supplier of its open order, of which migration 0190 allows one.  A  *)
(* closed order, visit or request is forgotten, but for the failures no    *)
(* later pass of the same timetable resolves.  The routine recording of    *)
(* maintenance (completeAssetMaintenance) changes none of this state.      *)
(* Names Name_Variant are plausible bugs in the code that Name models and  *)
(* no part of the specification.                                           *)
(***************************************************************************)
EXTENDS Naturals, FiniteSets

CONSTANTS Units,      \* store.assets of one Asset Code
          Stores,     \* store.accountable_stores
          Main,       \* the store of kind MAIN
          Quality,    \* the store of kind QUALITY
          Schedules,  \* calibration timetables
          UnitOf,     \* the unit a timetable belongs to
          Requests,   \* Store requests open at one time
          MaxSetups,  \* bound on active setups that occupy a unit on the floor
          Starts,     \* [stock, left]: the units in stock at the start, and how
                      \* many breakdowns, lifecycle changes, repairs, visits,
                      \* requests and gauge sets the behaviour may open
          NoSchedule, NoUnit

ASSUME StoreAssumption ==
    /\ IsFiniteSet(Units)
    /\ Main \in Stores /\ Quality \in Stores /\ Main # Quality
    /\ UnitOf \in [Schedules -> Units]
    /\ MaxSetups \in Nat
    /\ Starts \subseteq [stock : SUBSET Units, left : Nat]
    /\ NoSchedule \notin Schedules
    /\ NoUnit \notin Units
    /\ Stores \intersect {"FLOOR", "AWAY", "SUPPLIER"} = {}

VARIABLES unit,     \* store.assets with its open store.asset_breakdowns
          order,    \* the unit's open repair_purchase_order_items and its order
          visit,    \* the timetable's calibration visit in progress, and
                    \* whether a failed one is unresolved
          request,  \* open store.requisitions by request
          sets,     \* active gauge sets, each the set of its members
          setups,   \* active setups on the floor that occupy a unit
          left      \* what may still be opened

vars == <<unit, order, visit, request, sets, setups, left>>

Places == Stores \union {"FLOOR", "AWAY", "SUPPLIER"}

Statuses == {"AVAILABLE", "ASSIGNED", "BROKEN", "UNDER_MAINTENANCE",
             "SCRAPPED", "LOST"}

NoOrder == [kind |-> "none", issued |-> FALSE, origin |-> Main,
            schedule |-> NoSchedule]

NoVisit == [stage |-> "none", method |-> "SUPPLIER", order |-> "none",
            failed |-> FALSE]

\* "store" is the store whose stock a use request draws on and the one a
\* transfer request delivers to; "from" is the unit whose repair asked for it.
NoRequest == [kind |-> "none", units |-> {}, store |-> Main, from |-> NoUnit]

TypeOK ==
    /\ unit \in [Units -> [status : Statuses, at : Places, owner : Stores,
                           breakdown : BOOLEAN]]
    /\ order \in [Units -> [kind : {"none", "repair", "calibration"},
                            issued : BOOLEAN, origin : Stores,
                            schedule : Schedules \union {NoSchedule}]]
    /\ visit \in [Schedules -> [stage : {"none", "OPEN", "DISPATCHED",
                                         "RETURNED"},
                                method : {"SUPPLIER", "IN_HOUSE"},
                                order : {"none", "own", "retry"},
                                failed : BOOLEAN]]
    /\ request \in [Requests -> [kind : {"none", "use", "transfer"},
                                 units : SUBSET Units, store : Stores,
                                 from : Units \union {NoUnit}]]
    /\ sets \subseteq SUBSET Units
    /\ setups \in 0 .. MaxSetups
    /\ left \in Nat

\* Units are in their stores, or lost from Main Store before, and nothing is
\* open.
Init ==
    /\ \E start \in Starts, owner \in [Units -> Stores] :
         /\ \A u \in Units \ start.stock : owner[u] = Main
         /\ unit = [u \in Units |->
              [status |-> IF u \in start.stock THEN "AVAILABLE" ELSE "LOST",
               at |-> owner[u], owner |-> owner[u], breakdown |-> FALSE]]
         /\ left = start.left
    /\ order = [u \in Units |-> NoOrder]
    /\ visit = [s \in Schedules |-> NoVisit]
    /\ request = [r \in Requests |-> NoRequest]
    /\ sets = {}
    /\ setups = 0

-------------------------------------------------------------------------------
(* What the operations look up. *)

Gone(u) == unit[u].status \in {"SCRAPPED", "LOST"}

Usable(asset) == asset.status \in {"AVAILABLE", "ASSIGNED"}

InStore(u) == unit[u].at \in Stores

HasOrder(u) == order[u].kind # "none"

Visited(u, stages) ==
    \E s \in Schedules : UnitOf[s] = u /\ visit[s].stage \in stages

\* hasUnresolvedCalibrationFailure and its copies in the other modules.
Failed(u) == \E s \in Schedules : UnitOf[s] = u /\ visit[s].failed

Grouped(u) == u \in UNION sets

\* Open requests that name the unit, those in "but" left aside.
Reserved(u, but) == \E r \in Requests \ but : u \in request[r].units

\* The status of a unit nothing keeps from use.
Released(place) == IF place \in Stores THEN "AVAILABLE" ELSE "ASSIGNED"

Allocated(assets) ==
    Cardinality({u \in Units : assets[u].at = "FLOOR" /\ Usable(assets[u])})

\* assertToolingTransferAvailable, after the unit's row was written.
ToolingCovered == setups <= Allocated(unit')

\* One more breakdown, repair, visit, request, set or lifecycle change.
Open == left > 0 /\ left' = left - 1

\* The unit's row after it changed place and status.
Placed(u, place, status) ==
    [unit EXCEPT ![u].at = place, ![u].status = status]

\* Status after a hold ends, while a breakdown or an unresolved failure of a
\* timetable in "failing" may remain.
StatusAfterHold(u, place, failing) ==
    IF unit[u].breakdown THEN "BROKEN"
    ELSE IF \E s \in failing : UnitOf[s] = u THEN "UNDER_MAINTENANCE"
    ELSE Released(place)

Failing == {s \in Schedules : visit[s].failed}

-------------------------------------------------------------------------------
(* Movement, breakdown and loss. *)

\* store.ts moveAsset, for the units of Main Store.
MoveFromMain(u, place) ==
    /\ unit[u].owner = Main
    /\ place \in {Main, "FLOOR", "AWAY"}
    /\ ~Gone(u)
    /\ order[u].kind # "repair"
    /\ ~Visited(u, {"DISPATCHED", "RETURNED"})
    /\ ~Failed(u)
    /\ unit' = Placed(u, place, StatusAfterHold(u, place, {}))
    /\ ToolingCovered
    /\ UNCHANGED <<order, visit, request, sets, setups, left>>

\* The guards of moveOwnedAsset but for gauge sets.
MovableByOwner(u, place) ==
    /\ place \in {unit[u].owner, "FLOOR", "AWAY"} \ {unit[u].at}
    /\ ~Reserved(u, {})
    /\ ~Gone(u)
    /\ ~HasOrder(u)
    /\ ~Visited(u, {"DISPATCHED", "RETURNED"})
    /\ ~Failed(u)

StatusAfterMove(u, place) ==
    IF Usable(unit[u]) THEN Released(place) ELSE unit[u].status

\* department-stores.ts moveAsset.
MoveOwned(u, place) ==
    /\ MovableByOwner(u, place)
    /\ ~Grouped(u)
    /\ unit' = Placed(u, place, StatusAfterMove(u, place))
    /\ ToolingCovered
    /\ UNCHANGED <<order, visit, request, sets, setups, left>>

\* A breakdown is reported wherever the unit is, and needs no tooling check.
StartBreakdown(u) ==
    /\ ~Gone(u)
    /\ ~unit[u].breakdown
    /\ unit' = [unit EXCEPT ![u].breakdown = TRUE, ![u].status = "BROKEN"]
    /\ Open
    /\ UNCHANGED <<order, visit, request, sets, setups>>

CompleteBreakdown_IgnoresFailure(u) ==
    /\ unit[u].breakdown
    /\ ~Gone(u)
    /\ unit' = [unit EXCEPT
         ![u].breakdown = FALSE,
         ![u].status = IF \/ Visited(u, {"OPEN", "DISPATCHED", "RETURNED"})
                          \/ HasOrder(u)
                       THEN "UNDER_MAINTENANCE" ELSE Released(unit[u].at)]
    /\ UNCHANGED <<order, visit, request, sets, setups, left>>

CompleteBreakdown(u) ==
    /\ unit[u].breakdown
    /\ ~Gone(u)
    /\ unit' = [unit EXCEPT
         ![u].breakdown = FALSE,
         ![u].status = IF \/ Visited(u, {"OPEN", "DISPATCHED", "RETURNED"})
                          \/ Failed(u)
                          \/ HasOrder(u)
                       THEN "UNDER_MAINTENANCE" ELSE Released(unit[u].at)]
    /\ UNCHANGED <<order, visit, request, sets, setups, left>>

\* Scrapping clears the machine and keeps the holder, so the place stays.
SetLifecycleStatus(u, status) ==
    /\ status \in {"BROKEN", "SCRAPPED", "UNDER_MAINTENANCE"}
    /\ unit[u].owner = Main
    /\ unit[u].status # "LOST"
    /\ ~Visited(u, {"OPEN", "DISPATCHED", "RETURNED"})
    /\ status = "SCRAPPED" => ~unit[u].breakdown
    /\ unit' = [unit EXCEPT ![u].status = status]
    /\ Open
    /\ UNCHANGED <<order, visit, request, sets, setups>>

RecordLoss_IgnoresSets(u, accident) ==
    /\ ~Gone(u)
    /\ ~HasOrder(u)
    /\ ~Visited(u, {"OPEN", "DISPATCHED", "RETURNED"})
    /\ ~unit[u].breakdown
    /\ unit' = [unit EXCEPT ![u].status = "LOST"]
    /\ accident \/ ToolingCovered
    /\ UNCHANGED <<order, visit, request, sets, setups, left>>

\* The loss of a unit in an accident report of a running production session
\* (accident) is recorded even when a setup occupies the unit.
RecordLoss(u, accident) ==
    /\ ~Gone(u)
    /\ ~Grouped(u)
    /\ ~HasOrder(u)
    /\ ~Visited(u, {"OPEN", "DISPATCHED", "RETURNED"})
    /\ ~unit[u].breakdown
    /\ unit' = [unit EXCEPT ![u].status = "LOST"]
    /\ accident \/ ToolingCovered
    /\ UNCHANGED <<order, visit, request, sets, setups, left>>

-------------------------------------------------------------------------------
(* Repair at a supplier.  The order is prepared, its PDF is stored, and a     *)
(* second transaction issues it and sends the unit off.                       *)

PrepareRepair(u) ==
    /\ ~Gone(u)
    /\ unit[u].at # "SUPPLIER"
    /\ ~HasOrder(u)
    /\ order' = [order EXCEPT ![u] = [NoOrder EXCEPT !.kind = "repair",
                                                     !.origin = unit[u].owner]]
    /\ Open
    /\ UNCHANGED <<unit, visit, request, sets, setups>>

\* Where the reassignment request of a repair draws its unit from: a store
\* with an available unit no order holds, else the store of the repair.  The
\* repaired unit is at its supplier by then.
ReassignmentStores(u) ==
    LET available == {x \in Units \ {u} : /\ unit[x].status = "AVAILABLE"
                                          /\ InStore(x)
                                          /\ ~HasOrder(x)}
    IN  IF available = {} THEN {order[u].origin}
        ELSE {unit[x].at : x \in available}

\* Only the page of Main Store lets a repair ask for a reassignment.
IssueRepair(u, reassign) ==
    /\ order[u].kind = "repair" /\ ~order[u].issued
    /\ ~Gone(u)
    /\ unit[u].at # "SUPPLIER"
    /\ unit[u].owner = order[u].origin
    /\ unit' = Placed(u, "SUPPLIER", "UNDER_MAINTENANCE")
    /\ order' = [order EXCEPT ![u].issued = TRUE]
    /\ IF reassign
       THEN /\ order[u].origin = Main
            /\ \E r \in Requests, store \in ReassignmentStores(u) :
                 /\ request[r] = NoRequest
                 /\ request' = [request EXCEPT ![r] =
                      [kind |-> "use", units |-> {}, store |-> store,
                       from |-> u]]
       ELSE UNCHANGED request
    /\ ToolingCovered
    /\ UNCHANGED <<visit, sets, setups, left>>

\* The request a repair asked for follows the returned unit when its own store
\* has nothing to issue.
RepointedRequest(u, place) ==
    [r \in Requests |->
       IF request[r].from # u THEN request[r]
       ELSE [request[r] EXCEPT
               !.from = NoUnit,
               !.store = IF \E x \in Units : /\ unit'[x].at = request[r].store
                                             /\ unit'[x].status = "AVAILABLE"
                                             /\ order[x].kind = "none"
                         THEN request[r].store ELSE place]]

\* A unit found in its store is signed off where it is.
CompleteRepair(u) ==
    /\ order[u].kind = "repair" /\ order[u].issued
    /\ unit[u].owner = order[u].origin
    /\ ~Gone(u)
    /\ IF unit[u].at = "SUPPLIER"
       THEN unit' = Placed(u, order[u].origin,
                      IF /\ Visited(u, {"DISPATCHED", "RETURNED"})
                         /\ ~unit[u].breakdown
                      THEN "UNDER_MAINTENANCE"
                      ELSE StatusAfterHold(u, order[u].origin, Failing))
       ELSE /\ unit[u].at = order[u].origin
            /\ UNCHANGED unit
    /\ request' = RepointedRequest(u, order[u].origin)
    /\ order' = [order EXCEPT ![u] = NoOrder]
    /\ ToolingCovered
    /\ UNCHANGED <<visit, sets, setups, left>>

-------------------------------------------------------------------------------
(* Calibration (store-calibration.ts).  A supplier visit is opened, its       *)
(* service order prepared and issued, the unit dispatched and returned, and   *)
(* the certificate signed off.  After a failure the order stays open for a    *)
(* corrective visit of the same timetable.                                    *)

OpenVisit_AllowsLost(s, method) ==
    LET u == UnitOf[s] IN
    /\ visit[s].stage = "none"
    /\ unit[u].status \notin {"BROKEN", "SCRAPPED"}
    /\ method = "IN_HOUSE" => unit[u].at \in Stores \union {"FLOOR"}
    /\ visit' = [visit EXCEPT ![s].stage = "OPEN", ![s].method = method]
    /\ Open
    /\ UNCHANGED <<unit, order, request, sets, setups>>

OpenVisit(s, method) ==
    LET u == UnitOf[s] IN
    /\ visit[s].stage = "none"
    /\ unit[u].status \notin {"BROKEN", "SCRAPPED", "LOST"}
    /\ method = "IN_HOUSE" => unit[u].at \in Stores \union {"FLOOR"}
    /\ visit' = [visit EXCEPT ![s].stage = "OPEN", ![s].method = method]
    /\ Open
    /\ UNCHANGED <<unit, order, request, sets, setups>>

\* The order issued under the visit's own id is cancelled with it; the order
\* of an earlier failed visit stays.
CancelVisit(s) ==
    LET u == UnitOf[s] IN
    /\ visit[s].stage = "OPEN"
    /\ IF visit[s].order = "own"
       THEN /\ ~order[u].issued
            /\ order' = [order EXCEPT ![u] = NoOrder]
       ELSE UNCHANGED order
    /\ visit' = [visit EXCEPT ![s] = [NoVisit EXCEPT !.failed = visit[s].failed]]
    /\ UNCHANGED <<unit, request, sets, setups, left>>

\* The issued order a failed visit of the timetable left open.
RetryOrder(s) ==
    LET u == UnitOf[s] IN
    /\ visit[s].failed
    /\ order[u].kind = "calibration" /\ order[u].schedule = s
    /\ order[u].issued
    /\ order[u].origin = unit[u].owner

\* The unique index on open items refuses a second order for the unit.
PrepareDispatch(s) ==
    LET u == UnitOf[s] IN
    /\ visit[s].stage = "OPEN" /\ visit[s].method = "SUPPLIER"
    /\ visit[s].order = "none"
    /\ \/ /\ RetryOrder(s)
          /\ visit' = [visit EXCEPT ![s].order = "retry"]
          /\ UNCHANGED order
       \/ /\ ~RetryOrder(s)
          /\ ~HasOrder(u)
          /\ visit' = [visit EXCEPT ![s].order = "own"]
          /\ order' = [order EXCEPT ![u] =
               [kind |-> "calibration", issued |-> FALSE,
                origin |-> unit[u].owner, schedule |-> s]]
    /\ UNCHANGED <<unit, request, sets, setups, left>>

IssueServiceOrder(s) ==
    LET u == UnitOf[s] IN
    /\ visit[s].stage = "OPEN" /\ visit[s].order # "none"
    /\ order[u].origin = unit[u].owner
    /\ ~order[u].issued
    /\ order' = [order EXCEPT ![u].issued = TRUE]
    /\ UNCHANGED <<unit, visit, request, sets, setups, left>>

Dispatch_IgnoresTooling(s) ==
    LET u == UnitOf[s] IN
    /\ visit[s].stage = "OPEN" /\ visit[s].order # "none"
    /\ unit[u].status \notin {"BROKEN", "SCRAPPED", "LOST"}
    /\ unit[u].at # "SUPPLIER"
    /\ order[u].origin = unit[u].owner
    /\ order[u].issued
    /\ unit' = Placed(u, "SUPPLIER", "UNDER_MAINTENANCE")
    /\ visit' = [visit EXCEPT ![s].stage = "DISPATCHED"]
    /\ UNCHANGED <<order, request, sets, setups, left>>

Dispatch(s) ==
    LET u == UnitOf[s] IN
    /\ visit[s].stage = "OPEN" /\ visit[s].order # "none"
    /\ unit[u].status \notin {"BROKEN", "SCRAPPED", "LOST"}
    /\ unit[u].at # "SUPPLIER"
    /\ order[u].origin = unit[u].owner
    /\ order[u].issued
    /\ unit' = Placed(u, "SUPPLIER", "UNDER_MAINTENANCE")
    /\ visit' = [visit EXCEPT ![s].stage = "DISPATCHED"]
    /\ ToolingCovered
    /\ UNCHANGED <<order, request, sets, setups, left>>

ReturnVisit(s) ==
    LET u == UnitOf[s] IN
    /\ visit[s].stage = "DISPATCHED"
    /\ order[u].issued /\ order[u].origin = unit[u].owner
    /\ unit[u].at = "SUPPLIER"
    /\ unit' = Placed(u, order[u].origin, "UNDER_MAINTENANCE")
    /\ visit' = [visit EXCEPT ![s].stage = "RETURNED"]
    /\ UNCHANGED <<order, request, sets, setups, left>>

CompleteInHouse(s, passed) ==
    LET u == UnitOf[s] IN
    /\ visit[s].stage = "OPEN" /\ visit[s].method = "IN_HOUSE"
    /\ unit[u].status \notin {"BROKEN", "SCRAPPED", "LOST"}
    /\ unit[u].at \in Stores \union {"FLOOR"}
    /\ passed => ~HasOrder(u)
    /\ visit' = [visit EXCEPT ![s] = [NoVisit EXCEPT !.failed = ~passed]]
    /\ unit' = [unit EXCEPT ![u].status =
                  IF passed
                  THEN StatusAfterHold(u, unit[u].at, Failing \ {s})
                  ELSE "UNDER_MAINTENANCE"]
    /\ UNCHANGED <<order, request, sets, setups, left>>

CompleteVisit(s, passed) ==
    LET u == UnitOf[s] IN
    /\ visit[s].stage = "RETURNED"
    /\ InStore(u) /\ unit[u].status = "UNDER_MAINTENANCE"
    /\ visit' = [visit EXCEPT ![s] = [NoVisit EXCEPT !.failed = ~passed]]
    /\ IF passed
       THEN /\ order[u].issued
            /\ unit' = [unit EXCEPT ![u].status =
                 StatusAfterHold(u, unit[u].at, Failing \ {s})]
            /\ order' = [order EXCEPT ![u] = NoOrder]
       ELSE UNCHANGED <<unit, order>>
    /\ UNCHANGED <<request, sets, setups, left>>

-------------------------------------------------------------------------------
(* Store requests, fulfilment and accountability. *)

\* A use request names a unit of any store or none.  A transfer request holds
\* units of Main Store, named by the requester or chosen by the system among
\* those in reach.  The unique index refuses a unit another request holds.
CreateRequest(r, kind, units, store) ==
    /\ request[r] = NoRequest
    /\ kind = "use" => Cardinality(units) <= 1 /\ store = Main
    /\ kind = "transfer" => /\ units # {} /\ store # Main
                            /\ \A u \in units : unit[u].owner = Main
    /\ \A u \in units : ~Gone(u) /\ ~Reserved(u, {})
    /\ request' = [request EXCEPT ![r] = [kind |-> kind, units |-> units,
                                          store |-> store, from |-> NoUnit]]
    /\ Open
    /\ UNCHANGED <<unit, order, visit, sets, setups>>

\* The request without the lines of these units.
LinesLeft(r, units) ==
    IF request[r].units \subseteq units THEN NoRequest
    ELSE [request[r] EXCEPT !.units = @ \ units]

CancelRequest(r, units) ==
    /\ request[r].kind # "none"
    /\ units \subseteq request[r].units
    /\ units = {} => request[r].units = {}
    /\ request' = [request EXCEPT ![r] = LinesLeft(r, units)]
    /\ UNCHANGED <<unit, order, visit, sets, setups, left>>

\* One line of a use request; a batch of lines is a sequence of these.  A
\* reassignment goes to a department, whose units are on the floor.
IssueRequest(r, u, place) ==
    /\ request[r].kind = "use"
    /\ request[r].store = Main
    /\ place \in IF request[r].from # NoUnit THEN {"FLOOR"}
                 ELSE {"FLOOR", "AWAY"}
    /\ request[r].units \subseteq {u}
    /\ unit[u].status = "AVAILABLE"
    /\ unit[u].at = Main /\ unit[u].owner = Main
    /\ ~Reserved(u, {r})
    /\ ~HasOrder(u)
    /\ unit' = Placed(u, place, "ASSIGNED")
    /\ request' = [request EXCEPT ![r] = NoRequest]
    /\ UNCHANGED <<order, visit, sets, setups, left>>

Transferable_IgnoresService(u, store) ==
    /\ ~Gone(u)
    /\ store # unit[u].owner
    /\ Main \in {store, unit[u].owner}
    /\ ~Grouped(u)
    /\ InStore(u) => unit[u].at = unit[u].owner

\* The guards of transferAssetAccountability for a unit no other request holds.
Transferable(u, store) ==
    /\ ~Gone(u)
    /\ store # unit[u].owner
    /\ Main \in {store, unit[u].owner}
    /\ ~Grouped(u)
    /\ ~HasOrder(u)
    /\ ~Visited(u, {"OPEN", "DISPATCHED", "RETURNED"})
    /\ InStore(u) => unit[u].at = unit[u].owner

\* A unit in the store is handed over; one in use stays where it is.
HandedOver(units, store) ==
    [u \in Units |->
       IF u \notin units THEN unit[u]
       ELSE [unit[u] EXCEPT !.owner = store,
                            !.at = IF @ \in Stores THEN store ELSE @]]

TransferAccountability(u, store) ==
    /\ Transferable(u, store)
    /\ ~Reserved(u, {})
    /\ unit' = HandedOver({u}, store)
    /\ ToolingCovered
    /\ UNCHANGED <<order, visit, request, sets, setups, left>>

\* One line of a transfer request, for the unit it names.
TransferRequested(r, u) ==
    /\ request[r].kind = "transfer" /\ u \in request[r].units
    /\ unit[u].owner = Main
    /\ Transferable(u, request[r].store)
    /\ ~Reserved(u, {r})
    /\ unit' = HandedOver({u}, request[r].store)
    /\ ToolingCovered
    /\ request' = [request EXCEPT ![r] = LinesLeft(r, {u})]
    /\ UNCHANGED <<order, visit, sets, setups, left>>

TransferRequestedBatch_AnyAvailable(r, units) ==
    /\ request[r].kind = "transfer"
    /\ Cardinality(units) = Cardinality(request[r].units)
    /\ \A u \in units : /\ unit[u].owner = Main /\ unit[u].at = Main
                        /\ unit[u].status = "AVAILABLE"
                        /\ Transferable(u, request[r].store)
    /\ unit' = HandedOver(units, request[r].store)
    /\ ToolingCovered
    /\ request' = [request EXCEPT ![r] = NoRequest]
    /\ UNCHANGED <<order, visit, sets, setups, left>>

\* transferRequestedAssetsBatch: all open lines of the request together, and
\* other available units may take the place of the reserved ones.
TransferRequestedBatch(r, units) ==
    /\ request[r].kind = "transfer"
    /\ Cardinality(units) = Cardinality(request[r].units)
    /\ \A u \in units : /\ unit[u].owner = Main /\ unit[u].at = Main
                        /\ unit[u].status = "AVAILABLE"
                        /\ ~Reserved(u, {r})
                        /\ Transferable(u, request[r].store)
    /\ unit' = HandedOver(units, request[r].store)
    /\ ToolingCovered
    /\ request' = [request EXCEPT ![r] = NoRequest]
    /\ UNCHANGED <<order, visit, sets, setups, left>>

-------------------------------------------------------------------------------
(* Gauge sets of Quality Store. *)

CreateGaugeSet(pair) ==
    /\ Cardinality(pair) = 2
    /\ \A u \in pair : /\ unit[u].owner = Quality /\ unit[u].at = Quality
                       /\ unit[u].status = "AVAILABLE"
                       /\ ~Grouped(u)
    /\ sets' = sets \union {pair}
    /\ Open
    /\ UNCHANGED <<unit, order, visit, request, setups>>

\* moveOwnedAsset moves one gauge after the other, each with its own check.
MoveGaugeSet(pair, place) ==
    /\ pair \in sets
    /\ \A u \in pair : /\ unit[u].owner = Quality
                       /\ Usable(unit[u])
                       /\ MovableByOwner(u, place)
    /\ \A u, v \in pair : unit[u].at = unit[v].at
    /\ unit' = [u \in Units |->
                  IF u \notin pair THEN unit[u]
                  ELSE [unit[u] EXCEPT !.at = place,
                                       !.status = Released(place)]]
    /\ \A u \in pair : setups <= Allocated(Placed(u, place, Released(place)))
    /\ ToolingCovered
    /\ UNCHANGED <<order, visit, request, sets, setups, left>>

ReplaceGaugeSetMember(pair, old, new) ==
    /\ pair \in sets /\ old \in pair
    /\ Usable(unit[new]) /\ unit[new].owner = Quality
    /\ \A kept \in pair \ {old} : unit[kept].at = unit[new].at
    /\ ~Grouped(new)
    /\ sets' = (sets \ {pair}) \union {(pair \ {old}) \union {new}}
    /\ UNCHANGED <<unit, order, visit, request, setups, left>>

DisbandGaugeSet(pair) ==
    /\ pair \in sets
    /\ sets' = sets \ {pair}
    /\ UNCHANGED <<unit, order, visit, request, setups, left>>

-------------------------------------------------------------------------------
(* Setups on the floor (tooling-availability.ts). *)

\* assertToolingAvailable at the start of a setup.
StartSetup ==
    /\ setups < MaxSetups
    /\ setups < Allocated(unit)
    /\ setups' = setups + 1
    /\ UNCHANGED <<unit, order, visit, request, sets, left>>

FinishSetup ==
    /\ setups > 0
    /\ setups' = setups - 1
    /\ UNCHANGED <<unit, order, visit, request, sets, left>>

-------------------------------------------------------------------------------

Next ==
    \/ \E u \in Units :
         \/ \E place \in Places : MoveFromMain(u, place) \/ MoveOwned(u, place)
         \/ StartBreakdown(u)
         \/ CompleteBreakdown(u)
         \/ \E status \in Statuses : SetLifecycleStatus(u, status)
         \/ \E accident \in BOOLEAN : RecordLoss(u, accident)
         \/ PrepareRepair(u)
         \/ \E reassign \in BOOLEAN : IssueRepair(u, reassign)
         \/ CompleteRepair(u)
         \/ \E store \in Stores : TransferAccountability(u, store)
    \/ \E s \in Schedules :
         \/ \E method \in {"SUPPLIER", "IN_HOUSE"} : OpenVisit(s, method)
         \/ CancelVisit(s)
         \/ PrepareDispatch(s)
         \/ IssueServiceOrder(s)
         \/ Dispatch(s)
         \/ ReturnVisit(s)
         \/ \E passed \in BOOLEAN :
              CompleteInHouse(s, passed) \/ CompleteVisit(s, passed)
    \/ \E r \in Requests, units \in SUBSET Units :
         \/ \E kind \in {"use", "transfer"}, store \in Stores :
              CreateRequest(r, kind, units, store)
         \/ CancelRequest(r, units)
         \/ TransferRequestedBatch(r, units)
    \/ \E r \in Requests, u \in Units :
         \/ \E place \in {"FLOOR", "AWAY"} : IssueRequest(r, u, place)
         \/ TransferRequested(r, u)
    \/ \E pair \in SUBSET Units :
         \/ CreateGaugeSet(pair)
         \/ \E place \in Places : MoveGaugeSet(pair, place)
         \/ \E old, new \in Units : ReplaceGaugeSetMember(pair, old, new)
         \/ DisbandGaugeSet(pair)
    \/ StartSetup
    \/ FinishSetup

Spec == Init /\ [][Next]_vars

-------------------------------------------------------------------------------
(* Properties. *)

\* Docs/glossary/store.md:552-553: a unit is released for use only when no
\* timetable has an unresolved failure and no breakdown or repair hold remains.
\* Every operation that writes the status computes it from its own copy of the
\* holds; this relates the status to all of them.
UsableIsReleased ==
    \A u \in Units :
      Usable(unit[u]) =>
        /\ ~unit[u].breakdown
        /\ ~Failed(u)
        /\ ~Visited(u, {"DISPATCHED", "RETURNED"})
        /\ unit[u].at # "SUPPLIER"
        /\ ~(order[u].kind = "repair" /\ order[u].issued)

\* A unit in a store is in the store that accounts for it.  It is at a
\* supplier exactly while an order sent it there, and the store that ordered
\* the service still accounts for the unit: otherwise
\* completeRepairPurchaseOrder and returnCalibrationVisit refuse it for ever.
CustodyAgrees ==
    \A u \in Units :
      /\ InStore(u) => unit[u].at = unit[u].owner
      /\ unit[u].at = "SUPPLIER" <=>
           \/ order[u].kind = "repair" /\ order[u].issued
           \/ Visited(u, {"DISPATCHED"})
      /\ HasOrder(u) => order[u].origin = unit[u].owner

\* A calibration order never outlives the visits that can close it: while it
\* is pending its own visit is open and can cancel it, and once issued a visit
\* in progress holds it or a failure keeps it open for a corrective visit.
OrderHasItsVisit ==
    /\ \A u \in Units :
         LET s == order[u].schedule IN
         order[u].kind = "calibration" =>
           /\ UnitOf[s] = u
           /\ \/ visit[s].order = "own"
              \/ order[u].issued /\ visit[s].failed
           /\ ~order[u].issued => visit[s].stage = "OPEN"
    /\ \A s \in Schedules :
         /\ visit[s].order # "none" => order[UnitOf[s]].schedule = s
         /\ visit[s].stage \in {"DISPATCHED", "RETURNED"} =>
              /\ visit[s].order # "none"
              /\ order[UnitOf[s]].issued

\* Whatever a repair or calibration has come to, its order, its visit, the
\* place of the unit and the store that accounts for it allow the next step
\* (prepareDispatch, issueServiceOrder, returnCalibrationVisit, cancelVisit).
ServiceAgrees == CustodyAgrees /\ OrderHasItsVisit

\* Docs/glossary/store.md on gauge sets: two different gauges, both accountable
\* to Quality and still in stock, and no gauge in two sets.
SetsAreWhole ==
    \A pair \in sets :
      /\ Cardinality(pair) = 2
      /\ \A u \in pair : unit[u].owner = Quality /\ ~Gone(u)
      /\ \A other \in sets \ {pair} : pair \intersect other = {}

KeepsReserved ==
    \A u \in Units : Reserved(u, {}) /\ Reserved(u, {})' =>
      /\ unit'[u].owner = unit[u].owner
      /\ \A r \in Requests :
           request[r].kind # "none" /\ request'[r].kind = "none" =>
             unit'[u].at = unit[u].at
      /\ unit[u].owner # Main /\ unit'[u].at # unit[u].at =>
           "SUPPLIER" \in {unit[u].at, unit'[u].at}

\* While an open request holds a unit, no transfer of accountability takes the
\* unit, no other request is fulfilled with it, and the department that owns it
\* moves it only to a supplier and back (transferRequestedAssetsBatch,
\* issueRequisition, department-stores.ts moveAsset).  It says nothing of the
\* movement, loss and scrapping of a reserved unit of Main Store, which
\* store.ts allows although migration 0208 says the request holds its unit.
ReservedIsNotGivenAway == [][KeepsReserved]_vars

KeepsTools ==
    \A u \in Units :
      unit[u].at = "FLOOR" /\ unit'[u].at # "FLOOR" =>
        setups <= Allocated(unit')

\* Whatever takes a unit from the floor, be it a move, a repair, a dispatch
\* or a transfer, leaves enough usable units for the setups that run
\* (assertToolingTransferAvailable).  A breakdown, a change of lifecycle status
\* or an accident makes a unit unusable where it is, and asks nobody.
ToolsStayWithSetups == [][KeepsTools]_vars

\* Docs/glossary/store.md:193-194: a lost unit is never issued, moved,
\* transferred, repaired or selected for calibration.
LostIsFinal ==
    [][\A u \in Units : unit[u].status = "LOST" =>
         /\ unit'[u] = unit[u]
         /\ order'[u] = order[u]
         /\ ~Grouped(u)'
         /\ \A s \in Schedules : UnitOf[s] = u => visit'[s] = visit[s]]_vars
===============================================================================
