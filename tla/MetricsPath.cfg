SPECIFICATION Spec
CONSTANTS
    Edges <- OneEdge
    Durations = {10, 11}
    Windows <- TwoWindows
    Unit = 2
    Late = 1
    Ahead = 1
    InCap = 1
    Retention = 2
    CatchUp = 2
    MaxTime = 3
    MaxOps = 2
    MaxSamples = 2
    MaxRuns = 2
INVARIANTS
    ChartsMatchTotals
    OperationsConserved
    HistogramsAddUp
PROPERTY FrozenIsComplete
CHECK_DEADLOCK FALSE
