SPECIFICATION OutputSpec
CONSTANTS
    Setups = {u1, u2}
    MaxSessions = 3
    MaxSlot = 3
    MaxCount = 2
    MaxReported = 2
    MaxGross = 4
    MaxCrates = 1
    CrateWeight = 1
    PieceWeight = 2
SYMMETRY Symmetry
INVARIANTS
    OutputBalances
    CarriedCountsAgree
