\* Statements the code does not keep, each with a counterexample.  TLC stops at the
\* first it finds violated: take that one out to see the next.
SPECIFICATION Spec
CONSTANTS
    Clients = {c1}
    Conns = {k1, k2}
    MaxConfig = 2
    NoConn = NoConn
    NoClient = NoClient
INVARIANTS
    ReconnectIsNotWiped
    ClientsHaveTheConfig
