SPECIFICATION FairSpec
CONSTANTS
    Clients = {c1, c2}
    Callers = {h1}
    Phases   <- MCPhases
    Cfgs     <- MCCfgs
    PlanOf   <- MCPlanOf
    ActiveOf <- MCActiveOf
    MaxRuns = 1
    NoClient = NoClient
INVARIANTS
    CommandsReachTheRun
    SpansFollowPhase
PROPERTIES
    LockedWhileRunning
    ImplementsFairLifecycle
