\* Statements the code does not keep, each with a counterexample.  TLC stops at the
\* first it finds violated: take that one out to see the next.
SPECIFICATION Spec
CONSTANTS
    p1 = p1
    Clients = {c1}
    Prefixes = {p1}
    PrefixOf <- FirstPrefix
    MaxRuns = 2
INVARIANTS
    TreeOutlivesWork
    RunsKeepTheirTree
    StopLeavesNoTree
CHECK_DEADLOCK FALSE
