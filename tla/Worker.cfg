SPECIFICATION FairSpec
CONSTANTS
    MaxIndex = 2
    MaxRuns = 2
    MaxStops = 1
INVARIANTS
    IndicesAreFresh
    ScanIsCorrect
    ReaderFindsWholeFiles
    StopLeavesFew
PROPERTY FinalDeleteGetsEverything
CHECK_DEADLOCK FALSE
