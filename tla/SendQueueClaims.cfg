\* A statement the code does not keep, with a counterexample.
SPECIFICATION Spec
CONSTANTS
    Senders = {run, caller}
    Cap = 2
    MaxConns = 1
    MaxSends = 2
PROPERTY DropMakesRoom
CHECK_DEADLOCK FALSE
