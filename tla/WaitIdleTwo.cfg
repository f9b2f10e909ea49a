\* Two clients, for what one of them does while the other is idle: an instance
\* beside the one of WaitIdle.cfg, which has more commands and more troubles.
SPECIFICATION WaitFairSpec
CONSTANTS
    Members = {c1, c2}
    MaxCommands = 1
    Capacity = 1
    MaxTroubles = 1
INVARIANTS
    NewcomersFinish
PROPERTY WaitEnds
CHECK_DEADLOCK FALSE
