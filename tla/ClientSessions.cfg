SPECIFICATION FairSpec
CONSTANTS
    Clients = {c1}
    Conns = {k1, k2, k3}
    MaxConfig = 2
    NoConn = NoConn
    NoClient = NoClient
INVARIANTS
    ServedOnce
    SelectedAreConnected
    NoAbandonedEntry
PROPERTY AbandonedEntriesGo
