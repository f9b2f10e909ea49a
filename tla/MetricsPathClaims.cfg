\* Statements the code does not keep, each with a counterexample.  TLC stops at the
\* first it finds violated: take that one out to see the next.
SPECIFICATION Spec
CONSTANTS
    Edges <- OneEdge
    Durations = {10}
    Windows <- LongWindows
    Unit = 3
    Late = 0
    Ahead = 1
    InCap = 2
    Retention = 9
    CatchUp = 9
    MaxTime = 3
    MaxOps = 1
    MaxSamples = 1
    MaxRuns = 2
INVARIANTS
    HistoryInOrder
    TotalsAreOfTheRun
    FrozenIsSealed
CHECK_DEADLOCK FALSE
