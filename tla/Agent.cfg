SPECIFICATION FairSpec
CONSTANTS
    QueueCap = 1
    MaxSessions = 2
    MaxCommands = 2
    MaxStops = 1
INVARIANTS
    OneLiveWorker
    BeginInOrder
    LatestIsKept
    PutNeverWaits
    StopCancelsWork
PROPERTY OldLoopsEnd
CHECK_DEADLOCK FALSE
