\* Statements the code does not keep, each with a counterexample.  TLC stops at the
\* first it finds violated: take that one out to see the next.
SPECIFICATION Spec
CONSTANTS
    QueueCap = 2
    MaxSessions = 2
    MaxCommands = 3
    MaxStops = 1
INVARIANTS
    StopCancelsWorkLater
    LatestReplacesQueued
    CleanedUpStaysClean
PROPERTY StoppedIsNotClobbered
CHECK_DEADLOCK FALSE
