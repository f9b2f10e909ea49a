SPECIFICATION FairSpec
CONSTANTS
    Senders = {run, caller}
    Cap = 2
    MaxConns = 2
    MaxSends = 2
INVARIANTS
    OrderIsKept
    FreshestSurvives
PROPERTY QueuesEmpty
CHECK_DEADLOCK FALSE
