SPECIFICATION FairSpec
CONSTANTS
    Handlers = {h1, h2}
    Targets = {t1, t2}
    Size = 2
    MaxFaults = 2
    NoHandler = NoHandler
    NoTarget = NoTarget
INVARIANTS CleanedLeavesNothing OnlyBoundArtifact ReadyKeepsItsBytes
PROPERTIES EventuallyCleaned
CHECK_DEADLOCK FALSE
