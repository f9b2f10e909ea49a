\* Statements the code does not keep, each with a counterexample.  TLC stops at the
\* first it finds violated: take that one out to see the next.
SPECIFICATION Spec
CONSTANTS
    Clients = {c1, c2}
    Callers = {h1, h2}
    Phases   <- MCPhases
    Cfgs     <- OneCfg
    PlanOf   <- OnePlanOf
    ActiveOf <- OneActiveOf
    MaxRuns = 2
    NoClient = NoClient
INVARIANTS
    CompletedRunsWholePlan
    StopStaysInItsRun
    RunIsRecorded
PROPERTIES
    NoCommandAfterStop
    AutoSelectNeedsAll
