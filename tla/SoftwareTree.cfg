SPECIFICATION Spec
CONSTANTS
    p1 = p1
    Clients = {c1}
    Prefixes = {p1, p2}
    PrefixOf <- FirstPrefix
    MaxRuns = 2
INVARIANTS
    WorkFindsItsArtifact
    TreesGo
CHECK_DEADLOCK FALSE
