\* A statement the code does not keep, with a counterexample.
SPECIFICATION WaitSpec
CONSTANTS
    Members = {c1, c2}
    MaxCommands = 2
    Capacity = 1
    MaxTroubles = 0
INVARIANT EveryoneFinished
CHECK_DEADLOCK FALSE
