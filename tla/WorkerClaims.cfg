\* Statements the code does not keep, each with a counterexample.  TLC stops at the
\* first it finds violated: take that one out to see the next.
SPECIFICATION FairSpec
CONSTANTS
    MaxIndex = 2
    MaxRuns = 2
    MaxStops = 0
INVARIANT FinalScanFinds
PROPERTY ReaderReads
CHECK_DEADLOCK FALSE
