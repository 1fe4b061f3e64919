SPECIFICATION Spec
CONSTANTS
    Main = main
    Quality = quality
    Stores = {main, quality}
    u1 = u1
    u2 = u2
    u3 = u3
    c1 = c1
    c2 = c2
    r1 = r1
    r2 = r2
    Units = {u1, u2, u3}
    Schedules = {c1, c2}
    UnitOf <- MCUnitOf
    Requests = {r1, r2}
    MaxSetups = 1
    Starts <- MCStarts
    NoSchedule = NoSchedule
    NoUnit = NoUnit
SYMMETRY Swaps
CHECK_DEADLOCK FALSE
INVARIANTS
    UsableIsReleased
    ServiceAgrees
    SetsAreWhole
PROPERTIES
    ReservedIsNotGivenAway
    ToolsStayWithSetups
    LostIsFinal
