SPECIFICATION WorkerFairSpec
CONSTANTS
    Jobs = {j1, j2, j3}
    BatchSize = 2
    MaxFailures = 2
INVARIANTS CloseAwaitsBatch HintsAreServed
PROPERTIES EventuallyTaken EventuallyCloses
CHECK_DEADLOCK FALSE
