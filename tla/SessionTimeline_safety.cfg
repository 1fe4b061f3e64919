SPECIFICATION Spec
CONSTANTS
    Setups = {u1}
    MaxSessions = 2
    MaxDowntimes = 1
    MaxBreakdowns = 1
    MaxTime = 2
INVARIANTS
    SessionsDisjoint
    DowntimeInsideSession
    BreakdownStopsSession
    RepairSettlesDowntime
