--------------------------- MODULE ClientSessions ---------------------------
(***************************************************************************)
(* The connections of clients as the controller handles them.  Each        *)
(* connection has a handler, a goroutine that registers the client, then   *)
(* reads until the connection breaks, and then takes the client out again. *)
(* A client that reconnects with its id gets a second handler while the    *)
(* first may not have noticed yet.  A ticker pruned entries of the         *)
(* registry that have been silent for too long.                            *)
(*                                                                         *)
(* A handler changes three things, each under a lock of its own: the       *)
(* registry, the orchestrator's selection, and the map of connections.     *)
(* There is one action for each.                                           *)
(*                                                                         *)
(* Abstractions.  Configurations are numbered in the order they are set.   *)
(* No run is active and every newcomer is selected, so the selection shows *)
(* what the orchestrator was told.  The messages a client sends after its  *)
(* registration only keep its entry fresh: see Silent.                     *)
(***************************************************************************)
EXTENDS Naturals, Sequences

CONSTANTS
    Clients,     \* client ids
    Conns,       \* connections
    MaxConfig,   \* bound on the number of configurations
    NoConn,      \* no connection
    NoClient     \* no client

ASSUME SessionsAssumption ==
    /\ MaxConfig \in Nat \ {0}
    /\ NoConn \notin Conns
    /\ NoClient \notin Clients

Configs == 1..MaxConfig
NoConfig == 0

VARIABLES
    cfg,          \* Orchestrator.cfg
    selectedIDs,  \* Orchestrator.selectedIDs
    registry,     \* Registry.clients: the configuration the client's prefix
                  \* was chosen from, or NoConfig if there is no entry
    clients,      \* Server.clients: the connection of each client, or NoConn
    handler,      \* the handler of each connection
    open,         \* connections the controller has not closed
    out,          \* what was sent on each connection and not yet received; what
                  \* the client can no longer receive is left out
    gone,         \* pruned from the registry, and not yet dealt with
    telling,      \* the client the prune loop is reporting, or NoClient
    pruned,       \* ghost: an entry has been pruned
    \* The clients' side.
    conn,         \* the connection each client uses, or NoConn
    clientID,     \* clients that know the id they were given
    config        \* the configuration each client has received last

server == <<cfg, selectedIDs, registry, clients, handler, open, gone, telling,
            pruned>>
client == <<conn, clientID, config>>
vars == <<server, out, client>>

HandlerPCs == {"register", "upsert", "notify", "publish", "welcome",
               "serve", "teardown", "removed", "closed"}

Messages == [type : {"welcome", "config"}, config : Configs]

TypeOK ==
    /\ cfg \in Configs
    /\ selectedIDs \in SUBSET Clients
    /\ registry \in [Clients -> Configs \cup {NoConfig}]
    /\ clients \in [Clients -> Conns \cup {NoConn}]
    /\ handler \in [Conns -> [pc : HandlerPCs, id : Clients \cup {NoClient},
                              cfg : Configs \cup {NoConfig}]]
    /\ open \in SUBSET Conns
    /\ out \in [Conns -> Seq(Messages)]
    /\ gone \in SUBSET Clients
    /\ telling \in Clients \cup {NoClient}
    /\ pruned \in BOOLEAN
    /\ conn \in [Clients -> Conns \cup {NoConn}]
    /\ clientID \in SUBSET Clients
    /\ config \in [Clients -> Configs \cup {NoConfig}]

Init ==
    /\ cfg = 1
    /\ selectedIDs = {}
    /\ registry = [c \in Clients |-> NoConfig]
    /\ clients = [c \in Clients |-> NoConn]
    /\ handler = [k \in Conns |-> [pc |-> "closed", id |-> NoClient,
                                   cfg |-> NoConfig]]
    /\ open = {}
    /\ out = [k \in Conns |-> << >>]
    /\ gone = {}
    /\ telling = NoClient
    /\ pruned = FALSE
    /\ conn = [c \in Clients |-> NoConn]
    /\ clientID = {}
    /\ config = [c \in Clients |-> NoConfig]

-----------------------------------------------------------------------------
At(k, pc) == handler[k].pc = pc
Id(k) == handler[k].id
Goto(k, pc) == handler' = [handler EXCEPT ![k].pc = pc]

\* The handler of k returns.
Return(k) ==
    handler' = [handler EXCEPT ![k].pc = "closed", ![k].id = NoClient]

Registered == {c \in Clients : registry[c] # NoConfig}

\* Send a message on some connections.
Send(conns, type, new) ==
    out' = [k \in Conns |->
               IF k \in conns /\ \E c \in Clients : conn[c] = k
               THEN Append(out[k], [type |-> type, config |-> new])
               ELSE out[k]]

-----------------------------------------------------------------------------
(***************************************************************************)
(* The client.  It has one session at a time, and reconnects with the id   *)
(* it was given.  One that was given none, or was restarted, comes as a    *)
(* new client: that is an id of which there is no trace left.              *)
(***************************************************************************)
NoTrace(c) ==
    /\ \A k \in Conns : Id(k) # c
    /\ c \notin Registered \cup gone \cup {telling}

Dial(c, k) ==
    /\ conn[c] = NoConn
    /\ At(k, "closed")
    /\ c \in clientID \/ NoTrace(c)
    /\ conn' = [conn EXCEPT ![c] = k]
    /\ open' = open \cup {k}
    /\ handler' = [handler EXCEPT ![k].pc = "register", ![k].id = c]
    /\ UNCHANGED <<cfg, selectedIDs, registry, clients, gone, telling, pruned,
                   out, clientID, config>>

Hangup(c) ==
    /\ conn' = [conn EXCEPT ![c] = NoConn]
    /\ out' = [k \in Conns |-> IF k = conn[c] THEN << >> ELSE out[k]]

\* The connection breaks, or the client finds that it was closed.
SessionEnds(c) ==
    /\ conn[c] # NoConn
    /\ Hangup(c)
    /\ UNCHANGED <<server, clientID, config>>

\* The client process ends.
Crash(c) ==
    /\ Hangup(c)
    /\ clientID' = clientID \ {c}
    /\ config' = [config EXCEPT ![c] = NoConfig]
    /\ UNCHANGED server

Receive(c) ==
    LET k == conn[c]
    IN  /\ k # NoConn
        /\ out[k] # << >>
        /\ config' = [config EXCEPT ![c] = Head(out[k]).config]
        /\ clientID' = IF Head(out[k]).type = "welcome"
                          THEN clientID \cup {c} ELSE clientID
        /\ out' = [out EXCEPT ![k] = Tail(@)]
        /\ UNCHANGED <<server, conn>>

-----------------------------------------------------------------------------
(***************************************************************************)
(* The handler of connection k: the "register" message.                    *)
(***************************************************************************)
ReadConfig(k) ==
    /\ At(k, "register")
    /\ handler' = [handler EXCEPT ![k].pc = "upsert", ![k].cfg = cfg]
    /\ UNCHANGED <<cfg, selectedIDs, registry, clients, open, gone, telling,
                   pruned, out, client>>

\* The connection breaks before the message is read.
NeverRegisters(k) ==
    /\ At(k, "register")
    /\ conn[Id(k)] # k
    /\ open' = open \ {k}
    /\ Return(k)
    /\ UNCHANGED <<cfg, selectedIDs, registry, clients, gone, telling, pruned,
                   out, client>>

Upsert(k) ==
    /\ At(k, "upsert")
    /\ registry' = [registry EXCEPT ![Id(k)] = handler[k].cfg]
    /\ Goto(k, "notify")
    /\ UNCHANGED <<cfg, selectedIDs, clients, open, gone, telling, pruned, out,
                   client>>

OnClientRegistered(k) ==
    /\ At(k, "notify")
    /\ selectedIDs' = selectedIDs \cup {Id(k)}
    /\ Goto(k, "publish")
    /\ UNCHANGED <<cfg, registry, clients, open, gone, telling, pruned, out,
                   client>>

\* The connection becomes the client's current one; the one it replaces is
\* closed.
Publish(k) ==
    /\ At(k, "publish")
    /\ clients' = [clients EXCEPT ![Id(k)] = k]
    /\ open' = open \ ({clients[Id(k)]} \ {k})
    /\ Goto(k, "welcome")
    /\ UNCHANGED <<cfg, selectedIDs, registry, gone, telling, pruned, out,
                   client>>

Welcome(k) ==
    /\ At(k, "welcome")
    /\ Send({k}, "welcome", handler[k].cfg)
    /\ handler' = [handler EXCEPT ![k].pc = "serve", ![k].cfg = NoConfig]
    /\ UNCHANGED <<cfg, selectedIDs, registry, clients, open, gone, telling,
                   pruned, client>>

-----------------------------------------------------------------------------
(***************************************************************************)
(* The handler of connection k: the end.                                   *)
(***************************************************************************)

\* The connection was closed here, or is broken and the read fails or times
\* out.
ReadFails(k) ==
    /\ At(k, "serve")
    /\ k \in open => conn[Id(k)] # k
    /\ Goto(k, "teardown")
    /\ UNCHANGED <<cfg, selectedIDs, registry, clients, open, gone, telling,
                   pruned, out, client>>

\* Mutant: the handler does not look whether its connection is the current one.
Teardown_Always(k) ==
    /\ At(k, "teardown")
    /\ clients' = [clients EXCEPT ![Id(k)] = NoConn]
    /\ registry' = [registry EXCEPT ![Id(k)] = NoConfig]
    /\ Goto(k, "removed")
    /\ UNCHANGED <<cfg, selectedIDs, open, gone, telling, pruned, out, client>>

\* Mutant: the orchestrator is not told.
Teardown_Untold(k) ==
    /\ At(k, "teardown")
    /\ clients[Id(k)] = k => /\ clients' = [clients EXCEPT ![Id(k)] = NoConn]
                             /\ registry' = [registry EXCEPT ![Id(k)] = NoConfig]
    /\ clients[Id(k)] # k => UNCHANGED <<clients, registry>>
    /\ open' = open \ {k}
    /\ Return(k)
    /\ UNCHANGED <<cfg, selectedIDs, gone, telling, pruned, out, client>>

\* Mutant: the entry of the registry is left to the prune loop.
Teardown_KeepsEntry(k) ==
    /\ At(k, "teardown")
    /\ \/ /\ clients[Id(k)] = k
          /\ clients' = [clients EXCEPT ![Id(k)] = NoConn]
          /\ Goto(k, "removed")
          /\ UNCHANGED open
       \/ /\ clients[Id(k)] # k
          /\ open' = open \ {k}
          /\ Return(k)
          /\ UNCHANGED clients
    /\ UNCHANGED <<cfg, selectedIDs, registry, gone, telling, pruned, out,
                   client>>

Teardown(k) ==
    /\ At(k, "teardown")
    /\ \/ /\ clients[Id(k)] = k
          /\ clients' = [clients EXCEPT ![Id(k)] = NoConn]
          /\ registry' = [registry EXCEPT ![Id(k)] = NoConfig]
          /\ Goto(k, "removed")
          /\ UNCHANGED open
       \/ /\ clients[Id(k)] # k
          /\ open' = open \ {k}
          /\ Return(k)
          /\ UNCHANGED <<clients, registry>>
    /\ UNCHANGED <<cfg, selectedIDs, gone, telling, pruned, out, client>>

OnClientRemoved(k) ==
    /\ At(k, "removed")
    /\ selectedIDs' = selectedIDs \ {Id(k)}
    /\ open' = open \ {k}
    /\ Return(k)
    /\ UNCHANGED <<cfg, registry, clients, gone, telling, pruned, out, client>>

-----------------------------------------------------------------------------
(***************************************************************************)
(* The prune loop.  It takes all stale entries out of the registry at      *)
(* once, and then deals with each.                                         *)
(***************************************************************************)

\* Nothing has been heard of c for a while: it is not about to be registered,
\* and no connection that works says that it is there (every message, ping or
\* pong refreshes the entry).
Silent(c) ==
    \A k \in Conns : Id(k) = c =>
        /\ handler[k].pc \notin {"notify", "publish", "welcome"}
        /\ At(k, "serve") => k \notin open \/ conn[c] # k

\* Mutant: only entries with a connection are looked at.
Prune_Connected ==
    /\ gone = {}
    /\ telling = NoClient
    /\ \E stale \in SUBSET {c \in Registered : Silent(c) /\ clients[c] # NoConn} :
           /\ stale # {}
           /\ gone' = stale
           /\ registry' = [c \in Clients |-> IF c \in stale THEN NoConfig
                                                            ELSE registry[c]]
    /\ pruned' = TRUE
    /\ UNCHANGED <<cfg, selectedIDs, clients, handler, open, telling, out,
                   client>>

Prune ==
    /\ gone = {}
    /\ telling = NoClient
    /\ \E stale \in SUBSET {c \in Registered : Silent(c)} :
           /\ stale # {}
           /\ gone' = stale
           /\ registry' = [c \in Clients |-> IF c \in stale THEN NoConfig
                                                            ELSE registry[c]]
    /\ pruned' = TRUE
    /\ UNCHANGED <<cfg, selectedIDs, clients, handler, open, telling, out,
                   client>>

\* Whatever connection the client has by now is closed.
ClosePruned(c) ==
    /\ telling = NoClient
    /\ c \in gone
    /\ gone' = gone \ {c}
    /\ telling' = c
    /\ open' = open \ {clients[c]}
    /\ clients' = [clients EXCEPT ![c] = NoConn]
    /\ UNCHANGED <<cfg, selectedIDs, registry, handler, pruned, out, client>>

TellPruned ==
    /\ telling # NoClient
    /\ selectedIDs' = selectedIDs \ {telling}
    /\ telling' = NoClient
    /\ UNCHANGED <<cfg, registry, clients, handler, open, gone, pruned, out,
                   client>>

-----------------------------------------------------------------------------
\* SetConfig: prefixes are chosen anew for the entries of the registry, and the
\* configuration is sent on the current connections.
SetConfig ==
    /\ cfg < MaxConfig
    /\ cfg' = cfg + 1
    /\ registry' = [c \in Clients |-> IF c \in Registered THEN cfg + 1
                                                          ELSE NoConfig]
    /\ Send({clients[c] : c \in Clients}, "config", cfg + 1)
    /\ UNCHANGED <<selectedIDs, clients, handler, open, gone, telling, pruned,
                   client>>

HandlerNext(k) ==
    \/ ReadConfig(k)
    \/ NeverRegisters(k)
    \/ Upsert(k)
    \/ OnClientRegistered(k)
    \/ Publish(k)
    \/ Welcome(k)
    \/ ReadFails(k)
    \/ Teardown(k)
    \/ OnClientRemoved(k)

PrunerNext ==
    \/ Prune
    \/ \E c \in Clients : ClosePruned(c)
    \/ TellPruned

ClientNext(c) ==
    \/ \E k \in Conns : Dial(c, k)
    \/ SessionEnds(c)
    \/ Crash(c)
    \/ Receive(c)

Next ==
    \/ \E k \in Conns : HandlerNext(k)
    \/ \E c \in Clients : ClientNext(c)
    \/ PrunerNext
    \/ SetConfig

Spec == Init /\ [][Next]_vars

\* Handlers are scheduled, reads have a deadline, and the prune loop ticks.
\* Nothing is asked of the clients.
FairSpec ==
    /\ Spec
    /\ \A k \in Conns : WF_vars(HandlerNext(k))
    /\ WF_vars(PrunerNext)

-----------------------------------------------------------------------------
(***************************************************************************)
(* Properties                                                              *)
(***************************************************************************)

Served(k) == handler[k].pc \in {"welcome", "serve"}

\* A client never has two open connections that are being served: a handler
\* that was overtaken, pruned, or late finds its connection closed.
ServedOnce ==
    \A j, k \in open : j # k /\ Served(j) /\ Served(k) => Id(j) # Id(k)

\* Nobody is in the middle of anything.
Quiet ==
    /\ \A k \in Conns : handler[k].pc \in {"serve", "closed"}
    /\ gone = {}
    /\ telling = NoClient

\* When all calls are over the orchestrator has selected nobody who is not
\* connected, in whatever order handlers and prune loop reported joins and
\* losses.
SelectedAreConnected ==
    Quiet => \A c \in selectedIDs : clients[c] # NoConn

\* When all calls are over, every entry of the registry has a connection, as
\* long as nothing was pruned.  (A prune that meets a reconnect leaves an entry
\* behind, see AbandonedEntriesGo.)
NoAbandonedEntry ==
    Quiet /\ ~pruned => \A c \in Registered : clients[c] # NoConn

\* An entry without a connection does not stay: it gets one, or it is pruned.
AbandonedEntriesGo ==
    \A c \in Clients :
        (c \in Registered /\ clients[c] = NoConn)
            ~> (c \notin Registered \/ clients[c] # NoConn)

-----------------------------------------------------------------------------
(***************************************************************************)
(* Claims the code does not keep                                           *)
(***************************************************************************)

\* "A reconnect with the same ID must not be wiped by the old handler": a
\* client with a current, open connection is in the registry.
ReconnectIsNotWiped ==
    Quiet /\ ~pruned =>
        \A c \in Clients : clients[c] \in open => c \in Registered

\* "The controller assigns a directory prefix" from the configured ones: a
\* client that has received everything sent to it has the configuration.
ClientsHaveTheConfig ==
    Quiet => \A c \in Clients :
        LET k == conn[c]
        IN  k # NoConn /\ clients[c] = k /\ k \in open /\ out[k] = << >>
                => config[c] = cfg
=============================================================================
