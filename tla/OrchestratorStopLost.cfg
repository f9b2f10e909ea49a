SPECIFICATION Spec
CONSTANTS
    Clients = {c1}
    Callers = {h1, h2}
    Phases   <- MCPhases
    Cfgs     <- OneCfg
    PlanOf   <- OnePlanOf
    ActiveOf <- OneActiveOf
    MaxRuns = 1
    NoClient = NoClient
INVARIANT StopReachesParticipants
