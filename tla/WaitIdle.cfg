SPECIFICATION WaitFairSpec
CONSTANTS
    Members = {c1}
    MaxCommands = 2
    Capacity = 1
    MaxTroubles = 2
INVARIANTS
    NewcomersFinish
PROPERTY WaitEnds
CHECK_DEADLOCK FALSE
